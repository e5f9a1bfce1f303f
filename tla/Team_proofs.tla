----------------------------- MODULE Team_proofs -----------------------------
(***************************************************************************)
(* Proofs about Team, for every value of its constants: that no command    *)
(* leaves a manifest that cannot be loaded, that no slot a start acquires  *)
(* is lost, that a teardown leaves nothing behind, that a reconciliation   *)
(* decides nothing and settles at once, and that the operations on a team  *)
(* use slots and sessions as SlotTables promises them.                     *)
(*                                                                         *)
(* The inductive invariant is TypeInv, with Quiet, Lone, Reachable and     *)
(* Cleared.                                                                *)
(***************************************************************************)
EXTENDS Team, WellFoundedInduction, TLAPS

-----------------------------------------------------------------------------
(* Manifests *)

Sound(m) ==
    /\ m \in Manifest
    /\ \A t \in Tasks : m.card[t].state = "absent" => m.card[t].slot = None

SameSlots(m, n) == \A t \in Tasks : n.card[t].slot = m.card[t].slot

WithCard(m, t, c) == [m EXCEPT !.card[t] = c]

\* A manifest in which one card is another well-typed one.
LEMMA CardReplaced ==
    ASSUME NEW m, Sound(m), NEW t \in Tasks, NEW c \in Card,
           c.state = "absent" => c.slot = None
    PROVE  /\ Sound(WithCard(m, t, c))
           /\ \A u \in Tasks : WithCard(m, t, c).card[u] = IF u = t THEN c ELSE m.card[u]
  BY DEF Sound, Manifest, WithCard

\* refresh_status touches nothing but the status of the team.
LEMMA RefreshedSound ==
    ASSUME NEW m, Sound(m)
    PROVE  /\ Sound(Refreshed(m)) /\ SameSlots(m, Refreshed(m))
           /\ Refreshed(m).card = m.card
<1>1. StatusOfCards(m) \in TeamStatuses
  BY DEF StatusOfCards, TeamStatuses
<1> HIDE DEF TeamStatuses
<1>2. CASE m.status = "archived"
  BY <1>2 DEF Refreshed, SameSlots
<1>3. CASE m.status # "archived"
  <2>1. Refreshed(m) = [m EXCEPT !.status = StatusOfCards(m)]
    BY <1>3 DEF Refreshed
  <2> QED BY <1>1, <2>1 DEF Sound, Manifest, SameSlots
<1> QED BY <1>2, <1>3

LEMMA CardsTyped ==
    ASSUME NEW m, Sound(m), NEW t \in Tasks
    PROVE  m.card[t] \in Card
  BY DEF Sound, Manifest

LEMMA BindSound ==
    ASSUME NEW m, Sound(m), NEW t \in CardsOf(m), NEW s \in Slots
    PROVE  Sound(BindTaskSlot(m, t, s))
  BY DEF Sound, Manifest, BindTaskSlot, CardsOf, Card

\* set_task_state, whatever the state.
LEMMA SetStateSound ==
    ASSUME NEW m, Sound(m), NEW t \in CardsOf(m), NEW st \in CardStates
    PROVE  Sound(SetState(m, t, st)) /\ SameSlots(m, SetState(m, t, st))
<1> DEFINE c == [m.card[t] EXCEPT !.state = st,
                                  !.by = IF st = "superseded" THEN @ ELSE None]
<1>1. t \in Tasks /\ m.card[t] \in Card
  BY CardsTyped DEF CardsOf
<1>2. c \in Card /\ c.slot = m.card[t].slot /\ c.state # "absent"
  BY <1>1, ZenonT(60) DEF Card, CardStates, ArchiveTerminal, Closed, Retired
<1>3. SetState(m, t, st) = Refreshed(WithCard(m, t, c))
  BY <1>1, ZenonT(60) DEF SetState, WithCard, Sound, Manifest, Card
<1> HIDE DEF c
<1>4. Sound(WithCard(m, t, c)) /\ SameSlots(m, WithCard(m, t, c))
  BY <1>1, <1>2, CardReplaced DEF SameSlots
<1> QED BY <1>3, <1>4, RefreshedSound DEF SameSlots

\* A supersession needs a replacement other than the card.
LEMMA SupersedeSound ==
    ASSUME NEW m, Sound(m), NEW t \in CardsOf(m), NEW r \in Tasks
    PROVE  Sound(Supersede(m, t, r)) /\ SameSlots(m, Supersede(m, t, r))
<1> DEFINE c == [m.card[t] EXCEPT !.state = "superseded", !.by = r]
<1>1. t \in Tasks /\ m.card[t] \in Card
  BY CardsTyped DEF CardsOf
<1>2. c \in Card /\ c.slot = m.card[t].slot /\ c.state # "absent"
  BY <1>1 DEF Card, CardStates, ArchiveTerminal, Closed, Retired
<1>3. Supersede(m, t, r) = Refreshed(WithCard(m, t, c))
  BY <1>1, ZenonT(60) DEF Supersede, WithCard, Sound, Manifest, Card
<1> HIDE DEF c
<1>4. Sound(WithCard(m, t, c)) /\ SameSlots(m, WithCard(m, t, c))
  BY <1>1, <1>2, CardReplaced DEF SameSlots
<1> QED BY <1>3, <1>4, RefreshedSound DEF SameSlots

LEMMA ClearResultSound ==
    ASSUME NEW m, Sound(m), NEW t \in CardsOf(m)
    PROVE  /\ Sound(ClearResult(m, t)) /\ SameSlots(m, ClearResult(m, t))
           /\ CardsOf(ClearResult(m, t)) = CardsOf(m)
<1> DEFINE c == [m.card[t] EXCEPT !.result = None]
<1>1. t \in Tasks /\ m.card[t] \in Card
  BY CardsTyped DEF CardsOf
<1>2. c \in Card /\ c.slot = m.card[t].slot /\ c.state = m.card[t].state
  BY <1>1 DEF Card
<1>3. ClearResult(m, t) = WithCard(m, t, c)
  BY <1>1 DEF ClearResult, WithCard, Sound, Manifest, Card
<1> HIDE DEF c
<1>4. m.card[t].state # "absent"
  BY DEF CardsOf
<1>5. /\ Sound(WithCard(m, t, c))
      /\ \A u \in Tasks : WithCard(m, t, c).card[u] = IF u = t THEN c ELSE m.card[u]
  BY <1>1, <1>2, <1>4, CardReplaced
<1>6. SameSlots(m, ClearResult(m, t))
  BY <1>2, <1>3, <1>5 DEF SameSlots
<1>7. CardsOf(ClearResult(m, t)) = CardsOf(m)
  BY <1>1, <1>2, <1>3, <1>5 DEF CardsOf
<1> QED BY <1>3, <1>5, <1>6, <1>7

LEMMA NewCardTyped ==
    ASSUME NEW w \in Members
    PROVE  NewCard(w) \in Card /\ NewCard(w).state # "absent" /\ NewCard(w).slot = None
  BY DEF NewCard, NoCard, Card, CardStates, ArchiveTerminal, Closed, Retired, Members

\* A new card, and a card generated from a plan item.
LEMMA AddTaskSound ==
    ASSUME NEW m, Sound(m), NEW t \in Tasks, t \notin CardsOf(m), NEW w \in Members
    PROVE  Sound(AddTask(m, t, w)) /\ SameSlots(m, AddTask(m, t, w))
<1>1. AddTask(m, t, w) = WithCard(m, t, NewCard(w))
  BY DEF AddTask, WithCard
<1>2. m.card[t].slot = None
  BY DEF Sound, CardsOf
<1> QED BY <1>1, <1>2, NewCardTyped, CardReplaced DEF SameSlots

LEMMA PlanReplaced ==
    ASSUME NEW m, Sound(m), NEW p \in Plans, NEW i \in Item
    PROVE  Sound([m EXCEPT !.plan[p] = i]) /\ SameSlots(m, [m EXCEPT !.plan[p] = i])
  BY DEF Sound, Manifest, SameSlots

LEMMA GenerateSound ==
    ASSUME NEW m, Sound(m), NEW p \in Plans, NEW t \in Tasks, t \notin CardsOf(m),
           NEW w \in Members
    PROVE  Sound(Generate(m, p, t, w)) /\ SameSlots(m, Generate(m, p, t, w))
<1> DEFINE n == AddTask(m, t, w)
           i == [n.plan[p] EXCEPT !.state = "generated", !.task = t]
<1>1. Sound(n) /\ SameSlots(m, n)
  BY AddTaskSound
<1>2. Generate(m, p, t, w) = [n EXCEPT !.plan[p].state = "generated", !.plan[p].task = t]
  BY DEF Generate
<1> HIDE DEF n
<1>3. n.plan[p] \in Item
  BY <1>1 DEF Sound, Manifest
<1>4. i \in Item
  BY <1>3 DEF Item, PlanStates
<1>5. Generate(m, p, t, w) = [n EXCEPT !.plan[p] = i]
  BY <1>1, <1>2, <1>3 DEF Sound, Manifest, Item
<1> QED BY <1>1, <1>4, <1>5, PlanReplaced DEF SameSlots

LEMMA ApproveSound ==
    ASSUME NEW m, Sound(m), NEW p \in Plans
    PROVE  Sound(Approve(m, p)) /\ SameSlots(m, Approve(m, p))
<1> DEFINE i == [m.plan[p] EXCEPT !.state = "approved"]
<1>1. m.plan[p] \in Item
  BY DEF Sound, Manifest
<1>2. i \in Item
  BY <1>1 DEF Item, PlanStates
<1>3. Approve(m, p) = [m EXCEPT !.plan[p] = i]
  BY <1>1 DEF Approve, Sound, Manifest, Item
<1> QED BY <1>2, <1>3, PlanReplaced

LEMMA AddPlanSound ==
    ASSUME NEW m, Sound(m), NEW p \in Plans, NEW w \in Members
    PROVE  Sound(AddPlan(m, p, w)) /\ SameSlots(m, AddPlan(m, p, w))
<1>1. [state |-> "draft", owner |-> w, task |-> None] \in Item
  BY DEF Item, PlanStates
<1> QED BY <1>1, PlanReplaced DEF AddPlan

\* The operations on members.
LEMMA MembersSound ==
    ASSUME NEW m, Sound(m)
    PROVE  /\ \A w \in Workers : /\ Sound(AddMember(m, w)) /\ SameSlots(m, AddMember(m, w))
                                 /\ Sound(RemoveMember(m, w)) /\ SameSlots(m, RemoveMember(m, w))
           /\ \A w \in Members : /\ Sound(PromoteLead(m, w)) /\ SameSlots(m, PromoteLead(m, w))
                                 /\ \A s \in Slots : /\ Sound(AssignMemberSlot(m, w, s))
                                                     /\ SameSlots(m, AssignMemberSlot(m, w, s))
<1>1. ASSUME NEW w \in Workers
      PROVE  Sound(AddMember(m, w)) /\ SameSlots(m, AddMember(m, w))
  BY DEF Sound, Manifest, SameSlots, AddMember, Members
<1>2. ASSUME NEW w \in Workers
      PROVE  Sound(RemoveMember(m, w)) /\ SameSlots(m, RemoveMember(m, w))
  BY DEF Sound, Manifest, SameSlots, RemoveMember, Members
<1>3. ASSUME NEW w \in Members
      PROVE  Sound(PromoteLead(m, w)) /\ SameSlots(m, PromoteLead(m, w))
  BY DEF Sound, Manifest, SameSlots, PromoteLead
<1>4. ASSUME NEW w \in Members, NEW s \in Slots
      PROVE  Sound(AssignMemberSlot(m, w, s)) /\ SameSlots(m, AssignMemberSlot(m, w, s))
  BY DEF Sound, Manifest, SameSlots, AssignMemberSlot
<1> QED BY <1>1, <1>2, <1>3, <1>4

LEMMA ArchiveSound ==
    ASSUME NEW m, Sound(m)
    PROVE  Sound(Archive(m)) /\ SameSlots(m, Archive(m))
  BY DEF Sound, Manifest, Archive, SameSlots, TeamStatuses

LEMMA StarterSound == Sound(Starter)
  BY DEF Sound, Starter, Manifest, NoCard, NoItem, Card, Item, Members, TeamStatuses

\* A delegation.
LEMMA OwnerSound ==
    ASSUME NEW m, Sound(m), NEW t \in CardsOf(m), NEW w \in Members
    PROVE  /\ Sound([m EXCEPT !.card[t].owner = w])
           /\ SameSlots(m, [m EXCEPT !.card[t].owner = w])
           /\ [m EXCEPT !.card[t].owner = w].card[t].owner = w
  BY DEF Sound, Manifest, SameSlots, CardsOf, Card

\* A nonempty set of numbers up to n has a largest one: the upper bounds of
\* the set have a least one, which is in it.
LEMMA MaxExists ==
    ASSUME NEW n \in Nat, NEW X, X \subseteq 1 .. n, X # {}
    PROVE  \E x \in X : \A y \in X : y <= x
<1> DEFINE T == {n - x : x \in X}
<1>1. \A x \in X : x \in Nat /\ x <= n
  OBVIOUS
<1>2. T \subseteq Nat
  BY <1>1
<1>3. T # {}
  OBVIOUS
<1>4. \E z \in T : \A y \in T : ~(<<y, z>> \in OpToRel(<, Nat))
  <2> HIDE DEF T
  <2> QED BY <1>2, <1>3, WFMin, NatLessThanWellFounded
<1>5. PICK z \in T : \A y \in T : ~(<<y, z>> \in OpToRel(<, Nat))
  BY <1>4
<1>6. \A y \in T : ~(y < z)
  BY <1>5, <1>2 DEF OpToRel
<1>7. PICK x \in X : z = n - x
  OBVIOUS
<1>8. \A y \in X : y <= x
  BY <1>1, <1>6, <1>7
<1> QED BY <1>8

\* A reset manifest is valid: no card names a replacement, no item a card.
LEMMA ResetSound ==
    ASSUME NEW m, Sound(m)
    PROVE  /\ Sound(Reset(m)) /\ CardsOf(Reset(m)) = CardsOf(m)
           /\ \A t \in Tasks : Reset(m).card[t].slot = None
           /\ Valid(m) => Valid(Reset(m))
<1> DEFINE n == Reset(m)
           slots == [w \in Members |-> None]
           cards == [t \in Tasks |-> ResetCard(m.card[t])]
           items == [p \in Plans |-> ResetItem(m.plan[p])]
<1>1. n = [status |-> "planning", current |-> m.current, leadSession |-> None,
           workers |-> m.workers, mslot |-> slots, card |-> cards, plan |-> items]
  <2>1. n = [m EXCEPT !.status = "planning", !.leadSession = None, !.mslot = slots,
                      !.card = cards, !.plan = items]
    BY DEF Reset
  <2> HIDE DEF n, slots, cards, items
  <2> QED BY <2>1 DEF Sound, Manifest
<1>2. ASSUME NEW t \in Tasks
      PROVE  /\ n.card[t] \in Card
             /\ n.card[t].state = "absent" <=> m.card[t].state = "absent"
             /\ n.card[t].slot = None
             /\ n.card[t].owner = m.card[t].owner
             /\ m.card[t].state # "absent" => n.card[t].state = "todo" /\ n.card[t].by = None
  <2>1. n.card[t] = ResetCard(m.card[t]) /\ m.card[t] \in Card
    BY <1>1, CardsTyped
  <2>2. m.card[t].state = "absent" => m.card[t].slot = None
    BY DEF Sound
  <2> HIDE DEF n
  <2> QED
    BY <2>1, <2>2 DEF ResetCard, Card, CardStates, ArchiveTerminal, Closed, Retired
<1>3. ASSUME NEW p \in Plans
      PROVE  /\ n.plan[p] \in Item
             /\ n.plan[p].state = "absent" <=> m.plan[p].state = "absent"
             /\ n.plan[p].owner = m.plan[p].owner
             /\ m.plan[p].state # "absent" => n.plan[p].state = "draft" /\ n.plan[p].task = None
  <2>1. n.plan[p] = ResetItem(m.plan[p]) /\ m.plan[p] \in Item
    BY <1>1 DEF Sound, Manifest
  <2> HIDE DEF n
  <2> QED
    BY <2>1 DEF ResetItem, Item, PlanStates
<1>4. Sound(n)
  <2>1. n.card \in [Tasks -> Card] /\ n.plan \in [Plans -> Item]
    <3>1. n.card = [t \in Tasks |-> n.card[t]] /\ n.plan = [p \in Plans |-> n.plan[p]]
      BY <1>1
    <3> HIDE DEF n
    <3> QED BY <1>2, <1>3, <3>1
  <2>2. m.current \in Members /\ m.workers \in SUBSET Workers
    BY DEF Sound, Manifest
  <2>3. n \in Manifest
    BY <1>1, <2>1, <2>2 DEF Manifest, TeamStatuses
  <2> HIDE DEF n
  <2> QED BY <1>2, <2>3 DEF Sound
<1>5. CardsOf(n) = CardsOf(m) /\ ItemsOf(n) = ItemsOf(m) /\ MembersOf(n) = MembersOf(m)
      /\ n.current = m.current
  <2>1. n.workers = m.workers /\ n.current = m.current
    BY <1>1
  <2> HIDE DEF n
  <2> QED BY <1>2, <1>3, <2>1 DEF CardsOf, ItemsOf, MembersOf
<1> HIDE DEF n
<1>6. ASSUME Valid(m) PROVE Valid(n)
  <2>1. \A t \in CardsOf(n) : ReplacementFits(n, t) /\ n.card[t].owner = m.card[t].owner
    BY <1>2, <1>5 DEF ReplacementFits, CardsOf
  <2>2. \A p \in ItemsOf(n) : GeneratedFits(n, p) /\ n.plan[p].owner = m.plan[p].owner
    BY <1>3, <1>5 DEF GeneratedFits, ItemsOf
  <2> QED BY <1>5, <1>6, <2>1, <2>2 DEF Valid
<1>7. \A t \in Tasks : n.card[t].slot = None
  BY <1>2
<1> QED BY <1>4, <1>5, <1>6, <1>7 DEF n

-----------------------------------------------------------------------------
(* Reconciliation *)

\* The sessions table and the slots, as far as reconciliation looks at them.
StoreTyped ==
    /\ slot \in [Slots -> SlotStatuses]
    /\ sess \in Seq(Session)
    /\ Len(sess) <= MaxSessions

LEMMA SessionsOn ==
    ASSUME StoreTyped, NEW s
    PROVE  On(s) \subseteq 1 .. Len(sess) /\ On(s) \subseteq Sessions
<1>1. Len(sess) \in Nat /\ DOMAIN sess = 1 .. Len(sess)
  BY DEF StoreTyped
<1> QED
  BY <1>1, MaxSessionsNatural DEF On, Sessions, StoreTyped

\* Among ended sessions there is a newest one.
LEMMA NewestExists ==
    ASSUME StoreTyped, NEW s, EndedOn(s) # {}
    PROVE  NewestOf(EndedOn(s)) \in EndedOn(s) /\ NewestOf(EndedOn(s)) \in Sessions
<1>1. Len(sess) \in Nat /\ EndedOn(s) \subseteq 1 .. Len(sess)
  BY SessionsOn DEF EndedOn, StoreTyped
<1>2. \E x \in EndedOn(s) : \A y \in EndedOn(s) : y <= x
  BY <1>1, MaxExists
<1>3. NewestOf(EndedOn(s)) \in EndedOn(s)
  BY <1>2 DEF NewestOf
<1> QED BY <1>3, SessionsOn DEF EndedOn

\* What a reconciliation may make of a card.
LEMMA ReconciledCardFits ==
    ASSUME StoreTyped, NEW c \in Card, NEW t, NEW bad,
           c.state = "absent" => c.slot = None
    PROVE  LET d == ReconciledCard(c, t, bad) IN
           /\ d \in Card
           /\ d.owner = c.owner /\ d.by = c.by
           /\ d.state = "absent" <=> c.state = "absent"
           /\ d.state # c.state => /\ d.state \in {"in_progress", "blocked", "review"}
                                   /\ c.state \notin Retired
                                   /\ ~(c.state = "done" /\ d.state = "review")
           /\ d.slot = c.slot \/ (d.slot = None /\ Gone(c.slot) /\ LiveOn(c.slot) = {})
<1> DEFINE d == ReconciledCard(c, t, bad)
<1>0. ASSUME NEW e \in Card
      PROVE  /\ Unbound(e) \in Card
             /\ Unbound(e).owner = e.owner /\ Unbound(e).by = e.by /\ Unbound(e).state = e.state
             /\ \/ Unbound(e).slot = e.slot
                \/ Unbound(e).slot = None /\ Gone(e.slot) /\ LiveOn(e.slot) = {}
  BY DEF Unbound, Card
<1>a. "in_progress" \in CardStates /\ "blocked" \in CardStates /\ "review" \in CardStates
      /\ "absent" \notin CardStates /\ "done" \in CardStates
  BY DEF CardStates, ArchiveTerminal, Closed, Retired
<1>1. CASE c.slot = None
  <2>1. d = c
    BY <1>1 DEF ReconciledCard
  <2> QED BY <2>1
<1>2. CASE c.slot # None /\ c.state \in Retired
  <2>1. d = Unbound(c)
    BY <1>2 DEF ReconciledCard
  <2> QED BY <2>1, <1>0
<1>3. CASE c.slot # None /\ c.state \notin Retired /\ RunningOn(c.slot) # {}
  <2>1. d = [c EXCEPT !.state = "in_progress"]
    BY <1>3 DEF ReconciledCard
  <2> QED BY <1>3, <2>1, <1>a DEF Card
<1>4. CASE c.slot # None /\ c.state \notin Retired /\ RunningOn(c.slot) = {}
  <2>1. CASE EndedOn(c.slot) # {}
    <3>1. d = Unbound(Judged(c, t, bad))
      BY <1>4, <2>1 DEF ReconciledCard
    <3> DEFINE x == NewestOf(EndedOn(c.slot))
    <3>2. x \in Sessions
      BY <2>1, NewestExists
    <3> HIDE DEF x
    <3>3. \E st \in {"blocked", "review", "done"} :
             /\ Judged(c, t, bad) = [c EXCEPT !.state = st, !.result = x]
             /\ st = "done" => c.state = "done"
             /\ st = "review" => c.state # "done"
      BY DEF Judged, x
    <3>4. PICK st \in {"blocked", "review", "done"} :
             /\ Judged(c, t, bad) = [c EXCEPT !.state = st, !.result = x]
             /\ st = "done" => c.state = "done"
             /\ st = "review" => c.state # "done"
      BY <3>3
    <3>a. st \in CardStates \cup {"absent"} /\ x \in Sessions \cup {None}
      BY <3>2, <1>a
    <3>5. /\ [c EXCEPT !.state = st, !.result = x] \in Card
          /\ [c EXCEPT !.state = st, !.result = x].state = st
          /\ [c EXCEPT !.state = st, !.result = x].slot = c.slot
          /\ [c EXCEPT !.state = st, !.result = x].owner = c.owner
          /\ [c EXCEPT !.state = st, !.result = x].by = c.by
      BY <3>a DEF Card
    <3>6. c.state # "absent"
      BY <1>4
    <3> QED BY <3>1, <3>4, <3>5, <3>6, <1>4, <1>0, ZenonT(60)
  <2>2. CASE EndedOn(c.slot) = {} /\ c.state = "in_progress" /\ Gone(c.slot)
    <3>1. d = Unbound([c EXCEPT !.state = "blocked"])
      BY <1>4, <2>2 DEF ReconciledCard
    <3>2. [c EXCEPT !.state = "blocked"] \in Card
      BY <1>a DEF Card
    <3>3. /\ [c EXCEPT !.state = "blocked"].slot = c.slot
          /\ [c EXCEPT !.state = "blocked"].state = "blocked"
          /\ [c EXCEPT !.state = "blocked"].owner = c.owner
          /\ [c EXCEPT !.state = "blocked"].by = c.by
      BY DEF Card
    <3> QED BY <3>1, <3>2, <3>3, <2>2, <1>4, <1>0
  <2>3. CASE EndedOn(c.slot) = {} /\ ~(c.state = "in_progress" /\ Gone(c.slot))
    <3>1. d = Unbound(c)
      BY <1>4, <2>3 DEF ReconciledCard
    <3> QED BY <3>1, <1>0
  <2> QED BY <2>1, <2>2, <2>3
<1> QED BY <1>1, <1>2, <1>3, <1>4

CardsAfter(m, bad) == [t \in Tasks |-> ReconciledCard(m.card[t], t, bad)]
HeldBy(cards) == {cards[t].slot : t \in Tasks} \ {None}

\* The fields of a reconciled manifest.
LEMMA ReconciledFields ==
    ASSUME NEW m, Sound(m), NEW bad
    PROVE  /\ Reconciled(m, bad).status = m.status
           /\ Reconciled(m, bad).current = m.current
           /\ Reconciled(m, bad).workers = m.workers
           /\ Reconciled(m, bad).plan = m.plan
           /\ Reconciled(m, bad).card = CardsAfter(m, bad)
           /\ Reconciled(m, bad).mslot =
                 [w \in Members |-> IF KeepsSlot(m.mslot[w], HeldBy(CardsAfter(m, bad)))
                                    THEN m.mslot[w] ELSE None]
           /\ Reconciled(m, bad).leadSession =
                 IF m.leadSession # None /\ sess[m.leadSession].status \in Terminal
                 THEN None ELSE m.leadSession
           /\ Reconciled(m, bad) = [f \in DOMAIN m |-> Reconciled(m, bad)[f]]
<1> DEFINE cards == CardsAfter(m, bad)
           held == HeldBy(cards)
           slots == [w \in Members |-> IF KeepsSlot(m.mslot[w], held) THEN m.mslot[w] ELSE None]
           leads == IF m.leadSession # None /\ sess[m.leadSession].status \in Terminal
                    THEN None ELSE m.leadSession
<1>1. Reconciled(m, bad) = [m EXCEPT !.card = cards, !.mslot = slots, !.leadSession = leads]
  BY DEF Reconciled, CardsAfter, HeldBy, Sound, Manifest
<1> HIDE DEF cards, slots, leads, held
<1>2. /\ Reconciled(m, bad).status = m.status
      /\ Reconciled(m, bad).current = m.current
      /\ Reconciled(m, bad).workers = m.workers
      /\ Reconciled(m, bad).plan = m.plan
      /\ Reconciled(m, bad).card = cards
      /\ Reconciled(m, bad).mslot = slots
      /\ Reconciled(m, bad).leadSession = leads
  BY <1>1 DEF Sound, Manifest
<1>3. Reconciled(m, bad) = [f \in DOMAIN m |-> Reconciled(m, bad)[f]]
  BY <1>1 DEF Sound, Manifest
<1> QED BY <1>2, <1>3 DEF cards, slots, leads, held

\* What a reconciliation leaves of the manifest.
LEMMA ReconciledSound ==
    ASSUME StoreTyped, NEW m, Sound(m), NEW bad
    PROVE  LET n == Reconciled(m, bad) IN
           /\ Sound(n) /\ CardsOf(n) = CardsOf(m)
           /\ Valid(m) => Valid(n)
           /\ \A t \in Tasks : \/ n.card[t].slot = m.card[t].slot
                               \/ n.card[t].slot = None /\ Gone(m.card[t].slot)
           /\ BoundSlots(n) \subseteq BoundSlots(m)
<1> DEFINE n == Reconciled(m, bad)
<1>0. /\ n.status = m.status /\ n.current = m.current /\ n.workers = m.workers
      /\ n.plan = m.plan /\ n.card = CardsAfter(m, bad)
      /\ n.mslot = [w \in Members |-> IF KeepsSlot(m.mslot[w], HeldBy(CardsAfter(m, bad)))
                                     THEN m.mslot[w] ELSE None]
      /\ n.leadSession \in {None, m.leadSession}
      /\ n = [f \in DOMAIN m |-> n[f]]
  BY ReconciledFields
<1> HIDE DEF n
<1>1. ASSUME NEW t \in Tasks
      PROVE  /\ n.card[t] \in Card
             /\ n.card[t].owner = m.card[t].owner /\ n.card[t].by = m.card[t].by
             /\ n.card[t].state = "absent" <=> m.card[t].state = "absent"
             /\ n.card[t].state # m.card[t].state =>
                   /\ n.card[t].state \in {"in_progress", "blocked", "review"}
                   /\ m.card[t].state \notin Retired
             /\ \/ n.card[t].slot = m.card[t].slot
                \/ n.card[t].slot = None /\ Gone(m.card[t].slot)
  <2>1. n.card[t] = ReconciledCard(m.card[t], t, bad)
    BY <1>0 DEF CardsAfter
  <2>2. m.card[t] \in Card /\ (m.card[t].state = "absent" => m.card[t].slot = None)
    BY CardsTyped DEF Sound
  <2> QED BY <2>1, <2>2, ReconciledCardFits
<1>2. n.card \in [Tasks -> Card]
  <2>1. n.card = [t \in Tasks |-> n.card[t]]
    BY <1>0 DEF CardsAfter
  <2> QED BY <1>1, <2>1
<1>3. n.mslot \in [Members -> Slots \cup {None}]
  <2>1. m.mslot \in [Members -> Slots \cup {None}]
    BY DEF Sound, Manifest
  <2>2. n.mslot = [w \in Members |-> IF KeepsSlot(m.mslot[w], HeldBy(CardsAfter(m, bad)))
                                    THEN m.mslot[w] ELSE None]
    BY <1>0
  <2> QED BY <2>1, <2>2
<1>4. n \in Manifest
  <2>1. /\ m.status \in TeamStatuses /\ m.current \in Members /\ m.workers \in SUBSET Workers
        /\ m.plan \in [Plans -> Item] /\ m.leadSession \in Sessions \cup {None}
        /\ DOMAIN m = {"status", "current", "leadSession", "workers", "mslot", "card", "plan"}
    BY DEF Sound, Manifest
  <2>2. /\ n.status = m.status /\ n.current = m.current /\ n.workers = m.workers
        /\ n.plan = m.plan /\ n.leadSession \in {None, m.leadSession}
        /\ n = [f \in DOMAIN m |-> n[f]]
    BY <1>0
  <2>3. n = [status |-> n.status, current |-> n.current, leadSession |-> n.leadSession,
             workers |-> n.workers, mslot |-> n.mslot, card |-> n.card, plan |-> n.plan]
    BY <2>1, <2>2
  <2> QED BY <1>2, <1>3, <2>1, <2>2, <2>3 DEF Manifest
<1>5. Sound(n)
  <2>1. ASSUME NEW t \in Tasks, n.card[t].state = "absent" PROVE n.card[t].slot = None
    BY <1>1, <2>1 DEF Sound
  <2> QED BY <1>4, <2>1 DEF Sound
<1>6. CardsOf(n) = CardsOf(m)
  BY <1>1 DEF CardsOf
<1>7. /\ n.workers = m.workers /\ n.current = m.current /\ n.plan = m.plan
      /\ MembersOf(n) = MembersOf(m) /\ ItemsOf(n) = ItemsOf(m)
  BY <1>0 DEF MembersOf, ItemsOf
<1>8. ASSUME Valid(m) PROVE Valid(n)
  <2>1. ASSUME NEW t \in CardsOf(n) PROVE ReplacementFits(n, t)
    <3>1. t \in CardsOf(m) /\ t \in Tasks /\ ReplacementFits(m, t)
      BY <1>6, <1>8 DEF Valid, CardsOf
    <3>2. n.card[t].by = m.card[t].by
      BY <1>1, <3>1
    <3>3. n.card[t].state = "superseded" <=> m.card[t].state = "superseded"
      BY <1>1, <3>1 DEF Retired
    <3> QED BY <1>6, <3>1, <3>2, <3>3 DEF ReplacementFits
  <2>2. \A t \in CardsOf(n) : n.card[t].owner = m.card[t].owner
    BY <1>1 DEF CardsOf
  <2>3. \A p \in ItemsOf(n) : GeneratedFits(m, p) => GeneratedFits(n, p)
    BY <1>6, <1>7 DEF GeneratedFits
  <2> QED BY <1>6, <1>7, <1>8, <2>1, <2>2, <2>3 DEF Valid
<1>9. BoundSlots(n) \subseteq BoundSlots(m)
  <2>1. HeldBy(CardsAfter(m, bad)) = TaskSlots(n)
    BY <1>0 DEF HeldBy, TaskSlots
  <2>2. TaskSlots(n) \subseteq TaskSlots(m)
    BY <1>1 DEF TaskSlots
  <2>3. \A w \in Members : n.mslot[w] \in {None} \cup TaskSlots(n)
    BY <1>0, <2>1 DEF KeepsSlot
  <2>4. MembersOf(n) \subseteq Members
    BY <1>4 DEF MembersOf, Manifest, Members
  <2> QED BY <2>2, <2>3, <2>4 DEF BoundSlots
<1> QED BY <1>1, <1>5, <1>6, <1>8, <1>9 DEF n

LEMMA RefreshedValid ==
    ASSUME NEW m, Sound(m)
    PROVE  /\ Valid(Refreshed(m)) <=> Valid(m)
           /\ CardsOf(Refreshed(m)) = CardsOf(m)
           /\ BoundSlots(Refreshed(m)) = BoundSlots(m)
<1> DEFINE n == Refreshed(m)
<1>1. n.card = m.card /\ n.plan = m.plan /\ n.workers = m.workers /\ n.current = m.current
      /\ n.mslot = m.mslot
  BY DEF Refreshed, Sound, Manifest
<1> HIDE DEF n
<1>2. CardsOf(n) = CardsOf(m) /\ ItemsOf(n) = ItemsOf(m) /\ MembersOf(n) = MembersOf(m)
  BY <1>1 DEF CardsOf, ItemsOf, MembersOf
<1>3. \A t : ReplacementFits(n, t) <=> ReplacementFits(m, t)
  BY <1>1, <1>2 DEF ReplacementFits
<1>4. \A p : GeneratedFits(n, p) <=> GeneratedFits(m, p)
  BY <1>1, <1>2 DEF GeneratedFits
<1>5. Valid(n) <=> Valid(m)
  BY <1>1, <1>2, <1>3, <1>4 DEF Valid
<1>6. BoundSlots(n) = BoundSlots(m)
  BY <1>1, <1>2 DEF BoundSlots, TaskSlots
<1> QED BY <1>2, <1>5, <1>6 DEF n

\* The slots a reconciliation takes out of the manifest are no longer active.
LEMMA OutcomeSound ==
    ASSUME StoreTyped, NEW m, Sound(m), NEW n \in Outcomes(m)
    PROVE  /\ Sound(n) /\ CardsOf(n) = CardsOf(m)
           /\ Valid(m) => Valid(n)
           /\ \A t \in Tasks : \/ n.card[t].slot = m.card[t].slot
                               \/ n.card[t].slot = None /\ Gone(m.card[t].slot)
           /\ BoundSlots(n) \subseteq BoundSlots(m)
<1>1. PICK bad \in Failing(m) : n = AfterReconcile(m, bad)
  BY DEF Outcomes
<1>2. CASE n = m
  BY <1>2
<1>3. CASE n = Refreshed(Reconciled(m, bad))
  BY <1>3, ReconciledSound, RefreshedSound, RefreshedValid
<1> QED BY <1>1, <1>2, <1>3 DEF AfterReconcile

-----------------------------------------------------------------------------
(* Well-formed states *)

Fits(m) == m = NoTeam \/ (Sound(m) /\ Valid(m))

\* What the steps of a command rely on.
WorkFits(r) ==
    /\ r \in Op
    /\ r.pc = "idle" => r = IdleOp
    /\ r.pc \in StartSteps => /\ r.task \in Tasks
                             /\ r.owner \in Members
                             /\ r.launch \in Launches
    /\ r.pc \in {"bind", "launch", "wait", "settle"} => r.slot \in Slots
    /\ r.pc = "unslot" => r.acquired
    /\ r.acquired => r.slot \in Slots /\ r.pc \in StartSteps
    /\ r.pc = "cancel" => r.todo \subseteq DOMAIN sess
    /\ r.pc = "release" => r.todo \subseteq Slots

\* TypeOK without the history of races, which no other part of it depends on.
Typed ==
    /\ mf \in Manifest \cup {NoTeam}
    /\ slot \in [Slots -> SlotStatuses]
    /\ dirty \subseteq Slots
    /\ sess \in Seq(Session) /\ Len(sess) <= MaxSessions
    /\ op \in [Operators -> Op]
    /\ spent \in 0 .. Budget
    /\ left \subseteq Slots

TypeInv ==
    /\ Typed
    /\ Fits(mf)
    /\ \A o \in Operators : WorkFits(op[o])

LEMMA ManifestSound ==
    ASSUME TypeInv, Exists
    PROVE  Sound(mf) /\ Valid(mf)
  BY DEF TypeInv, Fits, Exists

LEMMA SoundIsTeam == \A m : Sound(m) => m # NoTeam
  BY DEF Sound, Manifest, NoTeam, TeamStatuses

LEMMA TypedStore == TypeInv => StoreTyped
  BY DEF TypeInv, Typed, StoreTyped

\* A card gets a slot, or another one, only when no start is about to bind it.
SlotsStay ==
    \/ raced'
    \/ \A t \in Tasks : Exists' /\ mf'.card[t].slot # None /\ Starting(t) =>
          Exists /\ mf'.card[t].slot = mf.card[t].slot

\* But for the binding of a start, no slot that is still active goes out of the
\* manifest unnoticed.
Answered ==
    /\ left \subseteq left'
    /\ left' \subseteq Slots
    /\ \/ \E o \in Operators : StartBind(o)
       \/ SlotsStay /\ \A s \in Bound \ Bound' : slot[s] = "active" => s \in left'

\* A step on the manifest and on nothing it refers to.
ManifestStep ==
    /\ UNCHANGED <<slot, dirty, sess>>
    /\ Fits(mf')
    /\ Answered

\* A command begins that has cost something.
Charged(o) == Idle(o) /\ spent' \in 0 .. Budget /\ spent < spent'

\* Every command costs something.
LEMMA CommandsCost ==
    ASSUME TypeInv, NEW o, NEW c, Gives(o, c)
    PROVE  Charged(o)
<1>1. spent \in Nat /\ Price[c] \in Nat \ {0} /\ spent' = spent + Price[c] /\ spent' <= Budget
  BY PricesNatural DEF TypeInv, Typed, Gives, Spend
<1> QED BY <1>1, PricesNatural DEF Charged, Gives

LEMMA BoundTyped ==
    ASSUME TypeInv
    PROVE  Bound \subseteq Slots
<1>1. CASE Exists
  <2>1. \A t \in Tasks : mf.card[t].slot \in Slots \cup {None}
    BY <1>1, ManifestSound, CardsTyped DEF Card
  <2> QED BY <1>1, <2>1 DEF Bound, TaskSlots
<1> QED BY <1>1 DEF Bound

\* The manifest is left alone.
LEMMA Untouched ==
    ASSUME TypeInv, UNCHANGED mf
    PROVE  Fits(mf') /\ Bound' = Bound /\ SlotsStay
<1>1. Fits(mf') /\ Bound' = Bound
  BY SMTT(60) DEF TypeInv, Bound, Exists, TaskSlots
<1>2. SlotsStay
  BY DEF SlotsStay, Exists
<1> QED BY <1>1, <1>2

\* A change that leaves every card its slot needs no answer.
LEMMA SavedKeeps ==
    ASSUME TypeInv, Exists, NEW m, Sound(m), SameSlots(mf, m), Save(m),
           UNCHANGED <<slot, dirty, sess, left>>
    PROVE  ManifestStep
<1>1. mf' = m /\ Fits(mf') /\ Exists'
  BY SoundIsTeam DEF Save, Fits, Exists
<1>2. Bound' = Bound
  BY <1>1 DEF Bound, TaskSlots, SameSlots
<1>3. SlotsStay
  BY <1>1 DEF SlotsStay, SameSlots
<1> QED BY <1>1, <1>2, <1>3 DEF ManifestStep, Answered, TypeInv, Typed

\* A change that takes slots from cards answers for those still active.
LEMMA SavedDrops ==
    ASSUME TypeInv, NEW S, Fits(mf'), mf' # NoTeam => S \subseteq TaskSlots(mf'),
           mf' = NoTeam => S = {}, Drop(S), UNCHANGED <<slot, dirty, sess>>,
           SlotsStay
    PROVE  ManifestStep
<1>1. S \subseteq Bound'
  BY DEF Bound, Exists
<1>2. left' = left \cup {s \in Bound \ S : ~Gone(s)} /\ left \subseteq Slots
  BY DEF Drop, TypeInv, Typed
<1> QED BY <1>1, <1>2, BoundTyped DEF ManifestStep, Answered, Gone

\* A reconciliation only takes slots out that are not active.
LEMMA OutcomeKeeps ==
    ASSUME TypeInv, Exists, NEW m \in Outcomes(mf), mf' = m,
           UNCHANGED <<slot, dirty, sess, left>>
    PROVE  ManifestStep
<1>1. /\ Sound(m) /\ Valid(m)
      /\ \A t \in Tasks : \/ m.card[t].slot = mf.card[t].slot
                          \/ m.card[t].slot = None /\ Gone(mf.card[t].slot)
  BY TypedStore, ManifestSound, OutcomeSound
<1>2. Fits(mf') /\ Exists'
  BY <1>1, SoundIsTeam DEF Fits, Exists
<1>3. \A s \in Bound \ Bound' : slot[s] # "active"
  BY <1>1, <1>2 DEF Bound, TaskSlots, Gone
<1>4. SlotsStay
  BY <1>1 DEF SlotsStay
<1> QED BY <1>2, <1>3, <1>4 DEF ManifestStep, Answered, TypeInv, Typed

LEMMA RemovedDrops ==
    ASSUME TypeInv, mf' = NoTeam, Drop({}), UNCHANGED <<slot, dirty, sess>>
    PROVE  ManifestStep
  BY SavedDrops DEF Fits, SlotsStay, Exists

LEMMA ResetDrops ==
    ASSUME TypeInv, Exists, Save(Reset(mf)), Drop({}), UNCHANGED <<slot, dirty, sess>>
    PROVE  ManifestStep
<1>1. Fits(mf')
  BY ManifestSound, ResetSound DEF Save, Fits
<1>2. SlotsStay
  BY ManifestSound, ResetSound DEF Save, SlotsStay
<1> QED BY <1>1, <1>2, SavedDrops

-----------------------------------------------------------------------------
(* The commands that edit the manifest *)

\* A command in one guarded section.
Edit(o) == Charged(o) /\ op' = op /\ ManifestStep

\* A command that saves a sound manifest with the same slots is an edit.
LEMMA Edited ==
    ASSUME TypeInv, NEW o, NEW c, Gives(o, c), NEW m, Sound(m), SameSlots(mf, m),
           Exists, Change(m), UNCHANGED left
    PROVE  Edit(o)
  BY CommandsCost, SavedKeeps DEF Edit, Change

LEMMA MemberCommandsEdit ==
    ASSUME TypeInv, NEW o \in Operators, MemberCommands(o)
    PROVE  Edit(o)
<1>1. ASSUME NEW w \in Workers, MemberAdd(o, w) PROVE Edit(o)
  BY <1>1, ManifestSound, MembersSound, Edited DEF MemberAdd
<1>2. ASSUME NEW w \in Workers, MemberRemove(o, w) PROVE Edit(o)
  BY <1>2, ManifestSound, MembersSound, Edited DEF MemberRemove
<1>3. ASSUME NEW w \in Members, LeadReplace(o, w) PROVE Edit(o)
  BY <1>3, ManifestSound, MembersSound, Edited DEF LeadReplace
<1>4. ASSUME NEW w \in Members, NEW s \in Slots, MemberAssignSlot(o, w, s) PROVE Edit(o)
  BY <1>4, ManifestSound, MembersSound, Edited DEF MemberAssignSlot
<1> QED BY <1>1, <1>2, <1>3, <1>4 DEF MemberCommands

LEMMA PlanCommandsEdit ==
    ASSUME TypeInv, NEW o \in Operators, PlanCommands(o)
    PROVE  Edit(o)
<1>1. ASSUME NEW p \in Plans, NEW w \in Members, PlanAdd(o, p, w) PROVE Edit(o)
  BY <1>1, ManifestSound, AddPlanSound, Edited DEF PlanAdd
<1>2. ASSUME NEW p \in Plans, PlanApprove(o, p) PROVE Edit(o)
  BY <1>2, ManifestSound, ApproveSound, Edited DEF PlanApprove
<1>3. ASSUME NEW p \in Plans, NEW t \in Tasks, NEW w \in Members, PlanGenerate(o, p, t, w)
      PROVE  Edit(o)
  BY <1>3, ManifestSound, GenerateSound, Edited DEF PlanGenerate, CanGenerate, CanAddTask
<1> QED BY <1>1, <1>2, <1>3 DEF PlanCommands

LEMMA TaskCommandsEdit ==
    ASSUME TypeInv, NEW o \in Operators, TaskCommands(o)
    PROVE  Edit(o)
<1>0. {"done", "todo", "cancelled"} \subseteq CardStates
  BY DEF CardStates, ArchiveTerminal, Closed, Retired
<1>1. ASSUME NEW t \in Tasks, NEW w \in Members, TaskAdd(o, t, w) PROVE Edit(o)
  BY <1>1, ManifestSound, AddTaskSound, Edited DEF TaskAdd, CanAddTask
<1>2. ASSUME NEW t \in Tasks, NEW s \in Slots, TaskBindSlot(o, t, s) PROVE Edit(o)
  <2>1. Exists /\ t \in CardsOf(mf) /\ Sound(BindTaskSlot(mf, t, s))
    BY <1>2, ManifestSound, BindSound DEF TaskBindSlot, Has
  <2>2. Fits(mf') /\ mf' = BindTaskSlot(mf, t, s) /\ mf' # NoTeam
    BY <1>2, <2>1, SoundIsTeam DEF TaskBindSlot, Change, Save, Fits
  <2>3. SlotsStay
    <3>1. Sound(mf)
      BY <1>2, ManifestSound DEF TaskBindSlot, Has
    <3>2. \A u \in Tasks : u # t => BindTaskSlot(mf, t, s).card[u] = mf.card[u]
      BY <3>1 DEF BindTaskSlot, Sound, Manifest
    <3>3. Starting(t) => raced'
      BY <1>2 DEF TaskBindSlot, Race
    <3> QED BY <2>1, <2>2, <3>2, <3>3 DEF SlotsStay
  <2>4. ManifestStep
    BY <1>2, <2>2, <2>3, SavedDrops DEF TaskBindSlot, Change
  <2> QED BY <1>2, <2>4, CommandsCost DEF TaskBindSlot, Change, Edit
<1>3. ASSUME NEW t \in Tasks, NEW st \in CardStates, TaskState(o, t, st) PROVE Edit(o)
  BY <1>3, ManifestSound, SetStateSound, Edited DEF TaskState, Has
<1>4. ASSUME NEW t \in Tasks, TaskAccept(o, t) PROVE Edit(o)
  BY <1>0, <1>4, ManifestSound, SetStateSound, Edited DEF TaskAccept, Has, Accept
<1>5. ASSUME NEW t \in Tasks, TaskRework(o, t) PROVE Edit(o)
  <2>1. Exists /\ t \in CardsOf(mf) /\ Sound(mf)
    BY <1>5, ManifestSound DEF TaskRework, Has
  <2>2. Sound(Rework(mf, t)) /\ SameSlots(mf, Rework(mf, t))
    BY <1>0, <2>1, ClearResultSound, SetStateSound DEF Rework, SameSlots
  <2> QED BY <1>5, <2>1, <2>2, Edited DEF TaskRework
<1>6. ASSUME NEW t \in Tasks, TaskCancel(o, t) PROVE Edit(o)
  BY <1>0, <1>6, ManifestSound, SetStateSound, Edited DEF TaskCancel, Has, CancelTask
<1>7. ASSUME NEW t \in Tasks, NEW r \in Tasks, TaskSupersede(o, t, r) PROVE Edit(o)
  BY <1>7, ManifestSound, SupersedeSound, Edited DEF TaskSupersede, Has
<1> QED BY <1>1, <1>2, <1>3, <1>4, <1>5, <1>6, <1>7 DEF TaskCommands

LEMMA TeamCommandsEdit ==
    ASSUME TypeInv, NEW o \in Operators,
           InitTeam(o) \/ TeamArchive(o) \/ TeamReset(o) \/ TeamDelete(o) \/ ArchiveTeam(o)
    PROVE  Edit(o)
<1>1. ASSUME InitTeam(o) PROVE Edit(o)
  <2>1. Valid(Starter)
    BY DEF Valid, Starter, MembersOf, CardsOf, ItemsOf, NoCard, NoItem
  <2>2. Fits(mf')
    BY <1>1, <2>1, StarterSound DEF InitTeam, Fits
  <2>a. SlotsStay
    BY <1>1 DEF InitTeam, SlotsStay, Starter, NoCard
  <2>3. ManifestStep
    BY <1>1, <2>2, <2>a, SavedDrops DEF InitTeam
  <2> QED BY <1>1, <2>3, CommandsCost DEF InitTeam, Edit
<1>2. ASSUME TeamArchive(o) PROVE Edit(o)
  BY <1>2, ManifestSound, ArchiveSound, Edited DEF TeamArchive
<1>3. ASSUME TeamReset(o) PROVE Edit(o)
  BY <1>3, ResetDrops, CommandsCost DEF TeamReset, Change, Edit
<1>4. ASSUME TeamDelete(o) PROVE Edit(o)
  BY <1>4, RemovedDrops, CommandsCost DEF TeamDelete, Edit
<1>5. ASSUME ArchiveTeam(o) PROVE Edit(o)
  <2>1. PICK m \in Outcomes(mf) :
           IF CanArchive(m) /\ LiveOnBound(m) = {} /\ \A s \in BoundSlots(m) : Gone(s)
           THEN Save(Archive(m)) ELSE Save(m)
    BY <1>5 DEF ArchiveTeam
  <2>2. Exists /\ UNCHANGED <<slot, dirty, sess, left>>
    BY <1>5 DEF ArchiveTeam
  <2>3. /\ Sound(m) /\ Valid(m)
        /\ \A t \in Tasks : \/ m.card[t].slot = mf.card[t].slot
                            \/ m.card[t].slot = None /\ Gone(mf.card[t].slot)
    BY <2>2, TypedStore, ManifestSound, OutcomeSound
  <2>4. CASE mf' = m
    BY <1>5, <2>2, <2>4, OutcomeKeeps, CommandsCost DEF ArchiveTeam, Edit
  <2>5. CASE Save(Archive(m))
    <3>1. Sound(Archive(m)) /\ SameSlots(m, Archive(m)) /\ Valid(Archive(m)) /\ mf' = Archive(m)
      BY <2>3, <2>5, ArchiveSound DEF Save
    <3>2. Fits(mf') /\ Exists'
      BY <3>1, SoundIsTeam DEF Fits, Exists
    <3>3. \A s \in Bound \ Bound' : slot[s] # "active"
      BY <2>3, <3>1, <3>2 DEF Bound, TaskSlots, Gone, SameSlots
    <3>a. SlotsStay
      BY <2>2, <2>3, <3>1 DEF SlotsStay, SameSlots
    <3>4. ManifestStep
      BY <2>2, <3>2, <3>3, <3>a DEF ManifestStep, Answered, TypeInv, Typed
    <3> QED BY <1>5, <3>4, CommandsCost DEF ArchiveTeam, Edit
  <2> QED BY <2>1, <2>4, <2>5 DEF Save
<1> QED BY <1>1, <1>2, <1>3, <1>4, <1>5

-----------------------------------------------------------------------------
(* The steps of operators *)

Takes(o, r) == op' = [op EXCEPT ![o] = r]

\* The sessions table only grows.
LEMMA TypeInvKept ==
    ASSUME TypeInv, Fits(mf'),
           slot' \in [Slots -> SlotStatuses], dirty' \subseteq Slots,
           sess' \in Seq(Session), Len(sess') <= MaxSessions, Len(sess) <= Len(sess'),
           spent' \in 0 .. Budget, left' \subseteq Slots,
           \/ op' = op
           \/ \E o \in Operators : \E r : Takes(o, r) /\ WorkFits(r)'
    PROVE  TypeInv'
<1>1. mf' \in Manifest \cup {NoTeam}
  BY DEF Fits, Sound
<1>2. DOMAIN sess \subseteq DOMAIN sess'
  <2>1. DOMAIN sess = 1 .. Len(sess) /\ DOMAIN sess' = 1 .. Len(sess')
        /\ Len(sess) \in Nat /\ Len(sess') \in Nat
    BY DEF TypeInv, Typed
  <2> QED BY <2>1
<1>3. \A r : WorkFits(r) => WorkFits(r)'
  BY <1>2 DEF WorkFits
<1>4. CASE op' = op
  BY <1>1, <1>3, <1>4 DEF TypeInv, Typed
<1>5. ASSUME NEW o \in Operators, NEW r, Takes(o, r), WorkFits(r)' PROVE TypeInv'
  <2>1. r \in Op
    BY <1>5 DEF WorkFits
  <2>2. op' \in [Operators -> Op]
    BY <1>5, <2>1 DEF Takes, TypeInv, Typed
  <2>3. \A p \in Operators : op'[p] = IF p = o THEN r ELSE op[p]
    BY <1>5 DEF Takes, TypeInv, Typed
  <2>4. \A p \in Operators : WorkFits(op[p])'
    BY <1>3, <1>5, <2>3 DEF TypeInv
  <2> QED BY <1>1, <2>2, <2>4 DEF TypeInv, Typed
<1> QED BY <1>4, <1>5

\* A step on the manifest keeps every state well formed.
LEMMA ManifestStepTyped ==
    ASSUME TypeInv, ManifestStep, spent' \in 0 .. Budget,
           op' = op \/ \E o \in Operators : \E r : Takes(o, r) /\ WorkFits(r)
    PROVE  TypeInv'
<1>1. \A r : WorkFits(r) => WorkFits(r)'
  BY DEF WorkFits, ManifestStep
<1>2. Len(sess') = Len(sess) /\ Len(sess) \in Nat
  BY DEF ManifestStep, TypeInv, Typed
<1>3. /\ slot' \in [Slots -> SlotStatuses] /\ dirty' \subseteq Slots
      /\ sess' \in Seq(Session) /\ Len(sess') <= MaxSessions /\ Fits(mf') /\ left' \subseteq Slots
  BY DEF ManifestStep, TypeInv, Typed, Answered
<1> QED BY <1>1, <1>2, <1>3, TypeInvKept

LEMMA IdleFits == IdleOp \in Op /\ WorkFits(IdleOp)
  BY DEF IdleOp, WorkFits, Op, Steps, StartSteps

LEMMA EditTyped == ASSUME TypeInv, NEW o, Edit(o) PROVE TypeInv'
  BY ManifestStepTyped DEF Edit, Charged

\* Goto changes nothing but the step.
LEMMA GotoTakes ==
    ASSUME TypeInv, NEW o \in Operators, NEW pc \in Steps, Goto(o, pc)
    PROVE  /\ Takes(o, [op[o] EXCEPT !.pc = pc])
           /\ [op[o] EXCEPT !.pc = pc] \in Op
           /\ op'[o] = [op[o] EXCEPT !.pc = pc]
           /\ \A p \in Operators : p # o => op'[p] = op[p]
  BY DEF Goto, Takes, TypeInv, Typed, Op

\* The steps of StartSteps, one by one.
LEMMA GotoFits ==
    ASSUME TypeInv, NEW o \in Operators, op[o].pc \in StartSteps, NEW pc \in StartSteps,
           pc \in {"bind", "launch", "wait", "settle"} => op[o].slot \in Slots,
           pc = "unslot" => op[o].acquired
    PROVE  WorkFits([op[o] EXCEPT !.pc = pc])
<1> DEFINE r == [op[o] EXCEPT !.pc = pc]
<1>1. op[o] \in Op /\ WorkFits(op[o])
  BY DEF TypeInv, Typed
<1>2. /\ r \in Op /\ r.pc = pc /\ r.task = op[o].task /\ r.owner = op[o].owner
      /\ r.launch = op[o].launch /\ r.slot = op[o].slot /\ r.acquired = op[o].acquired
  BY <1>1 DEF Op, Steps
<1>3. pc \notin {"idle", "cancel", "release"}
  BY DEF StartSteps
<1> HIDE DEF r
<1>4. /\ op[o].task \in Tasks /\ op[o].owner \in Members /\ op[o].launch \in Launches
      /\ op[o].acquired => op[o].slot \in Slots
  BY <1>1 DEF WorkFits
<1>5. WorkFits(r)
  BY <1>2, <1>3, <1>4 DEF WorkFits
<1> QED BY <1>5 DEF r

\* The first section of a start.
LEMMA BeginsFits ==
    ASSUME TypeInv, NEW o \in Operators, NEW m, Sound(m), NEW t \in CardsOf(m),
           NEW launch \in Launches, Begin(o, m, t, launch)
    PROVE  \E r : Takes(o, r) /\ WorkFits(r) /\ r.pc \in {"slot", "mark"}
                  /\ r.acquired = FALSE /\ r.since = None
                  /\ r.task = t /\ m.card[t].slot \in {None, r.slot}
<1> DEFINE w == m.card[t].owner
           s == IF m.card[t].slot # None THEN m.card[t].slot ELSE m.mslot[w]
           pc == IF launch = "dry" THEN "slot" ELSE "mark"
           r == [IdleOp EXCEPT !.pc = pc, !.task = t, !.owner = w, !.launch = launch, !.slot = s]
<1>1. w \in Members /\ t \in Tasks
  BY CardsTyped DEF Card, CardsOf
<1>2. s \in Slots \cup {None}
  BY <1>1, CardsTyped DEF Card, Sound, Manifest
<1>3. op' = [op EXCEPT ![o] = r]
  BY DEF Begin
<1>4. pc \in {"slot", "mark"}
  OBVIOUS
<1>a. m.card[t].slot \in {None, s}
  OBVIOUS
<1> HIDE DEF w, s, pc
<1>5. r \in Op
  BY <1>1, <1>2, <1>4, IdleFits DEF Op, Steps, StartSteps
<1>6. /\ r.pc = pc /\ r.task = t /\ r.owner = w /\ r.slot = s /\ r.launch = launch
      /\ r.acquired = IdleOp.acquired /\ r.since = IdleOp.since
  BY IdleFits DEF Op
<1>7. IdleOp.acquired = FALSE /\ IdleOp.since = None
  BY DEF IdleOp
<1> HIDE DEF r
<1>8. WorkFits(r)
  BY <1>1, <1>4, <1>5, <1>6, <1>7 DEF WorkFits
<1> QED BY <1>3, <1>4, <1>6, <1>7, <1>8, <1>a DEF Takes

LEMMA FinishTakes == ASSUME NEW o, Finish(o) PROVE Takes(o, IdleOp)
  BY DEF Finish, Takes

-----------------------------------------------------------------------------
(* The steps of a start *)

LEMMA LaunchTyped ==
    ASSUME TypeInv, NEW o \in Operators, Launch(o)
    PROVE  /\ TypeInv' /\ ManifestStep /\ Charged(o)
           /\ \/ op' = op
              \/ \E r : Takes(o, r) /\ WorkFits(r) /\ r.pc \in {"slot", "mark"}
                        /\ r.acquired = FALSE /\ r.since = None
<1>1. ASSUME NEW t \in Tasks, NEW launch \in Launches, TaskStart(o, t, launch)
      PROVE  /\ TypeInv' /\ ManifestStep /\ Charged(o)
             /\ \E r : Takes(o, r) /\ WorkFits(r) /\ r.pc \in {"slot", "mark"}
                        /\ r.acquired = FALSE /\ r.since = None
  <2>1. Exists /\ t \in CardsOf(mf) /\ Sound(mf)
    BY <1>1, ManifestSound DEF TaskStart, Has
  <2>2. Begin(o, mf, t, launch) /\ Charged(o)
    BY <1>1, CommandsCost DEF TaskStart
  <2>3. ManifestStep
    BY <1>1, <2>1, <2>2, SavedKeeps DEF TaskStart, Begin, SameSlots
  <2>4. \E r : Takes(o, r) /\ WorkFits(r) /\ r.pc \in {"slot", "mark"}
               /\ r.acquired = FALSE /\ r.since = None
    BY <2>1, <2>2, BeginsFits
  <2> QED BY <2>2, <2>3, <2>4, ManifestStepTyped DEF Charged
<1>2. ASSUME NEW t \in Tasks, NEW w \in Members, NEW launch \in Launches,
             TaskDelegate(o, t, w, launch)
      PROVE  /\ TypeInv' /\ ManifestStep /\ Charged(o)
             /\ \E r : Takes(o, r) /\ WorkFits(r) /\ r.pc \in {"slot", "mark"}
                        /\ r.acquired = FALSE /\ r.since = None
  <2>1. Exists /\ t \in CardsOf(mf) /\ Sound(mf)
    BY <1>2, ManifestSound DEF TaskDelegate, Has
  <2> DEFINE m == Delegated(t, w)
  <2>2. Begin(o, m, t, launch) /\ Charged(o)
    BY <1>2, CommandsCost DEF TaskDelegate
  <2>3. Sound(m) /\ SameSlots(mf, m) /\ t \in CardsOf(m)
    <3>1. Sound(m) /\ SameSlots(mf, m)
      BY <2>1, OwnerSound DEF Delegated
    <3>2. m.card[t].state = mf.card[t].state
      BY <2>1, CardsTyped DEF Delegated, Sound, Manifest, CardsOf, Card
    <3> QED BY <2>1, <3>1, <3>2 DEF CardsOf
  <2>4. ManifestStep
    BY <1>2, <2>1, <2>2, <2>3, SavedKeeps DEF TaskDelegate, Begin
  <2>5. \E r : Takes(o, r) /\ WorkFits(r) /\ r.pc \in {"slot", "mark"}
               /\ r.acquired = FALSE /\ r.since = None
    BY <2>2, <2>3, BeginsFits
  <2> QED BY <2>2, <2>4, <2>5, ManifestStepTyped DEF Charged
<1>3. ASSUME NEW t \in Tasks, NEW w \in Members, TaskHandOver(o, t, w)
      PROVE  TypeInv' /\ ManifestStep /\ Charged(o) /\ op' = op
  <2>1. Exists /\ t \in CardsOf(mf) /\ Sound(mf)
    BY <1>3, ManifestSound DEF TaskHandOver, Has
  <2>2. Edit(o)
    BY <1>3, <2>1, OwnerSound, Edited DEF TaskHandOver, Delegated
  <2> QED BY <2>2, EditTyped DEF Edit
<1> QED BY <1>1, <1>2, <1>3 DEF Launch

\* What the steps of a start find in the hands of their operator.
LEMMA StartingTyped ==
    ASSUME TypeInv, NEW o \in Operators, op[o].pc \in StartSteps
    PROVE  /\ op[o] \in Op /\ op[o].task \in Tasks /\ op[o].owner \in Members
           /\ op[o].launch \in Launches
           /\ op[o].acquired => op[o].slot \in Slots
           /\ op[o].pc \in {"bind", "launch", "wait", "settle", "unslot"} => op[o].slot \in Slots
  BY DEF TypeInv, Typed, WorkFits

\* The types of the store, for steps that leave a part of it alone.
LEMMA StoreKept ==
    ASSUME TypeInv
    PROVE  /\ slot \in [Slots -> SlotStatuses] /\ dirty \subseteq Slots
           /\ sess \in Seq(Session) /\ Len(sess) \in Nat /\ Len(sess) <= MaxSessions
           /\ spent \in 0 .. Budget /\ left \subseteq Slots
           /\ DOMAIN sess = 1 .. Len(sess)
  BY DEF TypeInv, Typed

\* A start or its recovery sets the state of the card, if it is still there.
LEMMA CardSet ==
    ASSUME TypeInv, NEW t \in Tasks, NEW st \in CardStates,
           IF Has(t) THEN Save(SetState(mf, t, st)) ELSE UNCHANGED mf,
           UNCHANGED <<slot, dirty, sess, left>>
    PROVE  ManifestStep
<1>1. CASE Has(t)
  BY <1>1, ManifestSound, SetStateSound, SavedKeeps DEF Has
<1>2. CASE ~Has(t)
  BY <1>2, Untouched DEF ManifestStep, Answered, TypeInv, Typed
<1> QED BY <1>1, <1>2

LEMMA StateNames ==
    /\ {"in_progress", "blocked", "review", "todo", "done"} \subseteq CardStates
    /\ StartSteps \subseteq Steps
    /\ {"mark", "slot", "bind", "launch", "wait", "settle", "block", "unslot"} = StartSteps
  BY DEF CardStates, ArchiveTerminal, Closed, Retired, Steps, StartSteps

LEMMA MarkTyped ==
    ASSUME TypeInv, NEW o \in Operators, StartMark(o)
    PROVE  TypeInv' /\ ManifestStep /\ (Goto(o, "slot") \/ Finish(o))
<1>1. op[o].pc = "mark" /\ op[o].task \in Tasks /\ spent' \in 0 .. Budget
  BY StartingTyped, StoreKept, StateNames DEF StartMark, At
<1>2. ManifestStep
  BY <1>1, StateNames, CardSet DEF StartMark
<1>3. CASE Goto(o, "slot")
  BY <1>1, <1>2, <1>3, GotoTakes, GotoFits, ManifestStepTyped, StateNames
<1>4. CASE Finish(o)
  BY <1>1, <1>2, <1>4, FinishTakes, IdleFits, ManifestStepTyped
<1> QED BY <1>2, <1>3, <1>4 DEF StartMark

LEMMA UseSlotTyped ==
    ASSUME TypeInv, NEW o \in Operators, StartUseSlot(o)
    PROVE  TypeInv' /\ ManifestStep /\ (Goto(o, "bind") \/ Goto(o, "block"))
<1>1. op[o].pc = "slot" /\ op[o].slot \in Slots /\ spent' \in 0 .. Budget
  BY StartingTyped, StoreKept, StateNames DEF StartUseSlot, At, Op
<1>2. ManifestStep
  BY StoreKept, Untouched DEF StartUseSlot, ManifestStep, Answered
<1>3. ASSUME NEW pc \in {"bind", "block"}, Goto(o, pc) PROVE TypeInv'
  BY <1>1, <1>2, <1>3, GotoTakes, GotoFits, ManifestStepTyped, StateNames
<1> QED BY <1>2, <1>3 DEF StartUseSlot

LEMMA BindTyped ==
    ASSUME TypeInv, NEW o \in Operators, StartBind(o)
    PROVE  /\ TypeInv' /\ ManifestStep
           /\ \/ Goto(o, "launch") /\ op[o].slot \in Bound'
              \/ Goto(o, "block")
<1>1. /\ op[o].pc = "bind" /\ op[o].slot \in Slots /\ op[o].task \in Tasks
      /\ op[o].owner \in Members /\ spent' \in 0 .. Budget
  BY StartingTyped, StoreKept, StateNames DEF StartBind, At
<1>2. CASE Has(op[o].task) /\ op[o].owner \in MembersOf(mf)
  <2> DEFINE t == op[o].task
             s == op[o].slot
             m == AssignMemberSlot(mf, op[o].owner, s)
             n == BindTaskSlot(m, t, s)
  <2>1. Sound(mf) /\ t \in CardsOf(mf)
    BY <1>2, ManifestSound DEF Has
  <2>2. Sound(m)
    BY <1>1, <2>1, MembersSound
  <2>3. t \in CardsOf(m)
    BY <2>1 DEF AssignMemberSlot, CardsOf, Sound, Manifest
  <2>4. Sound(n)
    BY <1>1, <2>2, <2>3, BindSound
  <2>5. n.card[t].slot = s
    <3>1. m.card[t] \in Card /\ m \in Manifest
      BY <1>1, <2>2, CardsTyped DEF Sound
    <3> HIDE DEF m
    <3> QED BY <1>1, <3>1 DEF BindTaskSlot, Manifest, Card
  <2>6. mf' = n /\ Valid(n) /\ Goto(o, "launch")
        /\ UNCHANGED <<slot, dirty, sess, left>>
    BY <1>2 DEF StartBind, BindBoth, Save
  <2> HIDE DEF n, m
  <2>7. Fits(mf') /\ mf' # NoTeam
    BY <2>4, <2>6, SoundIsTeam DEF Fits
  <2>8. ManifestStep
    BY <2>6, <2>7, StoreKept DEF ManifestStep, Answered
  <2>9. s \in Bound'
    <3>1. s # None
      BY <1>1, NoneIsApart
    <3> QED BY <1>1, <2>5, <2>6, <2>7, <3>1 DEF Bound, TaskSlots, Exists
  <2>10. TypeInv'
    BY <1>1, <2>6, <2>8, GotoTakes, GotoFits, ManifestStepTyped, StateNames
  <2> QED BY <2>6, <2>8, <2>9, <2>10
<1>3. CASE ~(Has(op[o].task) /\ op[o].owner \in MembersOf(mf))
  <2>1. Goto(o, "block") /\ UNCHANGED <<mf, left, slot, dirty, sess>>
    BY <1>3 DEF StartBind
  <2>2. ManifestStep
    BY <2>1, StoreKept, Untouched DEF ManifestStep, Answered
  <2> QED BY <1>1, <2>1, <2>2, GotoTakes, GotoFits, ManifestStepTyped, StateNames
<1> QED BY <1>2, <1>3

\* A start acquires a slot, or cannot.
LEMMA AcquireTyped ==
    ASSUME TypeInv, NEW o \in Operators, StartAcquire(o)
    PROVE  /\ TypeInv' /\ UNCHANGED <<mf, sess, spent, left>>
           /\ op[o].acquired = FALSE
           /\ \/ Goto(o, "block") /\ UNCHANGED slot
              \/ \E s \in Slots : \E r : /\ CanAcquire(s) /\ slot' = [slot EXCEPT ![s] = "active"]
                                     /\ Takes(o, r) /\ WorkFits(r)
                                     /\ r.pc = "bind" /\ r.slot = s /\ r.acquired
                                     /\ r.task = op[o].task
<1>1. /\ op[o] \in Op /\ op[o].pc = "slot" /\ op[o].task \in Tasks /\ op[o].owner \in Members
      /\ op[o].launch \in Launches /\ op[o].slot = None /\ WorkFits(op[o])
  BY StartingTyped, StateNames DEF StartAcquire, At, TypeInv
<1>2. op[o].acquired = FALSE
  BY <1>1, NoneIsApart DEF WorkFits, Op
<1>3. UNCHANGED <<mf, dirty, sess, spent, left>> /\ Fits(mf')
  BY Untouched DEF StartAcquire
<1>4. CASE Goto(o, "block") /\ UNCHANGED slot
  BY <1>1, <1>2, <1>3, <1>4, StoreKept, GotoTakes, GotoFits, ManifestStepTyped, StateNames,
     Untouched DEF ManifestStep, Answered
<1>5. ASSUME NEW s \in Slots, CanAcquire(s), slot' = [slot EXCEPT ![s] = "active"],
             op' = [op EXCEPT ![o].slot = s, ![o].acquired = TRUE, ![o].pc = "bind"]
      PROVE  /\ TypeInv'
             /\ \E r : /\ Takes(o, r) /\ WorkFits(r) /\ r.pc = "bind" /\ r.slot = s
                       /\ r.acquired /\ r.task = op[o].task
  <2>0. PICK r : r = [op[o] EXCEPT !.slot = s, !.acquired = TRUE, !.pc = "bind"]
    OBVIOUS
  <2>1. Takes(o, r)
    BY <1>1, <1>5, <2>0 DEF Takes, TypeInv, Typed
  <2>2. /\ r.pc = "bind" /\ r.slot = s /\ r.acquired = TRUE /\ r.task = op[o].task
        /\ r.owner = op[o].owner /\ r.launch = op[o].launch
    BY <1>1, <2>0 DEF Op
  <2>3. r \in Op
    BY <1>1, <2>0, StateNames DEF Op
  <2>4. WorkFits(r)
    BY <1>1, <2>2, <2>3 DEF WorkFits, StartSteps
  <2>5. WorkFits(r)'
    BY <1>3, <2>4 DEF WorkFits
  <2>6. slot' \in [Slots -> SlotStatuses] /\ dirty' \subseteq Slots /\ left' \subseteq Slots
        /\ sess' \in Seq(Session) /\ Len(sess') <= MaxSessions /\ Len(sess) <= Len(sess')
        /\ spent' \in 0 .. Budget
    BY <1>3, <1>5, StoreKept DEF SlotStatuses
  <2>7. TypeInv'
    BY <1>3, <2>1, <2>5, <2>6, TypeInvKept
  <2> QED BY <2>1, <2>2, <2>4, <2>7
<1> QED BY <1>2, <1>3, <1>4, <1>5 DEF StartAcquire

\* A new row of the sessions table.
LEMMA NewSessionTyped ==
    ASSUME TypeInv, NEW o \in Operators, op[o].pc = "launch", Len(sess) < MaxSessions,
           NEW status \in SessionStatuses
    PROVE  /\ NewSession(o, status) \in Seq(Session)
           /\ Len(NewSession(o, status)) = Len(sess) + 1
           /\ Len(sess) + 1 \in Sessions
           /\ NewSession(o, status)[Len(sess) + 1] =
                 [slot |-> op[o].slot, status |-> status, launch |-> op[o].launch,
                  ro |-> ReadOnly(op[o].owner), task |-> op[o].task]
           /\ \A x \in DOMAIN sess : NewSession(o, status)[x] = sess[x]
<1> DEFINE e == [slot |-> op[o].slot, status |-> status, launch |-> op[o].launch,
                 ro |-> ReadOnly(op[o].owner), task |-> op[o].task]
<1>1. e \in Session
  BY StartingTyped, StateNames DEF Session, ReadOnly
<1>2. NewSession(o, status) = Append(sess, e)
  BY DEF NewSession
<1> HIDE DEF e
<1>3. sess \in Seq(Session) /\ Len(sess) \in Nat /\ DOMAIN sess = 1 .. Len(sess)
  BY StoreKept
<1>4. Len(sess) + 1 \in Sessions
  BY <1>3, MaxSessionsNatural DEF Sessions
<1>5. /\ Append(sess, e) \in Seq(Session) /\ Len(Append(sess, e)) = Len(sess) + 1
      /\ Append(sess, e)[Len(sess) + 1] = e
      /\ \A x \in 1 .. Len(sess) : Append(sess, e)[x] = sess[x]
  BY <1>1, <1>3
<1> QED BY <1>2, <1>3, <1>4, <1>5 DEF e

LEMMA StatusNames ==
    /\ {"prepared", "running", "failed", "completed", "cancelled"} = SessionStatuses
    /\ "prepared" \notin Terminal /\ "running" \notin Terminal /\ "failed" \in Terminal
    /\ "cancelled" \in Terminal /\ "completed" \in Terminal
  BY DEF SessionStatuses, Terminal

\* A launch that is refused, fails or succeeds.
LEMMA LaunchStepTyped ==
    ASSUME TypeInv, NEW o \in Operators, StartLaunch(o)
    PROVE  TypeInv'
<1>1. /\ op[o] \in Op /\ op[o].pc = "launch" /\ op[o].slot \in Slots /\ op[o].task \in Tasks
      /\ op[o].owner \in Members /\ op[o].launch \in Launches /\ WorkFits(op[o])
  BY StartingTyped, StateNames DEF StartLaunch, At, TypeInv
<1>2. /\ UNCHANGED <<mf, slot, dirty, spent, left>> /\ Fits(mf')
      /\ slot' \in [Slots -> SlotStatuses] /\ dirty' \subseteq Slots /\ left' \subseteq Slots
      /\ spent' \in 0 .. Budget
  BY Untouched, StoreKept DEF StartLaunch
<1>3. ASSUME Len(sess) < MaxSessions,
             op' = [op EXCEPT ![o].sid = Len(sess) + 1,
                    ![o].pc = IF op[o].launch = "oneshot" THEN "wait" ELSE "settle"],
             sess' = NewSession(o, IF op[o].launch = "dry" THEN "prepared" ELSE "running")
      PROVE  TypeInv'
  <2> DEFINE pc == IF op[o].launch = "oneshot" THEN "wait" ELSE "settle"
  <2>0. PICK r : r = [op[o] EXCEPT !.sid = Len(sess) + 1, !.pc = pc]
    OBVIOUS
  <2>1. pc \in {"wait", "settle"} /\ Len(sess) + 1 \in Sessions
    BY <1>1, <1>3, NewSessionTyped, StatusNames
  <2>2. Takes(o, r)
    BY <1>1, <1>3, <2>0 DEF Takes, TypeInv, Typed
  <2> HIDE DEF pc
  <2>3. r \in Op
    BY <1>1, <2>0, <2>1, StateNames DEF Op
  <2>4. /\ r.pc = pc /\ r.slot = op[o].slot /\ r.acquired = op[o].acquired
        /\ r.task = op[o].task /\ r.owner = op[o].owner /\ r.launch = op[o].launch
    BY <1>1, <2>0 DEF Op
  <2>5. WorkFits(r)'
    BY <1>1, <2>1, <2>3, <2>4 DEF WorkFits, StartSteps
  <2>6. sess' \in Seq(Session) /\ Len(sess') = Len(sess) + 1
    BY <1>1, <1>3, NewSessionTyped, StatusNames
  <2>7. Len(sess') <= MaxSessions /\ Len(sess) <= Len(sess')
    BY <1>3, <2>6, StoreKept, MaxSessionsNatural
  <2> QED BY <1>2, <2>2, <2>5, <2>6, <2>7, TypeInvKept
<1>4. ASSUME Len(sess) < MaxSessions, Goto(o, "block"), sess' = NewSession(o, "failed")
      PROVE  TypeInv'
  <2>0. PICK r : r = [op[o] EXCEPT !.pc = "block"]
    OBVIOUS
  <2>1. Takes(o, r) /\ WorkFits(r)
    BY <1>1, <1>4, <2>0, GotoTakes, GotoFits, StateNames
  <2>2. r.pc = "block"
    BY <1>1, <2>0 DEF Op
  <2>3. WorkFits(r)'
    BY <2>1, <2>2 DEF WorkFits
  <2>4. sess' \in Seq(Session) /\ Len(sess') = Len(sess) + 1
    BY <1>1, <1>4, NewSessionTyped, StatusNames
  <2>5. Len(sess') <= MaxSessions /\ Len(sess) <= Len(sess')
    BY <1>4, <2>4, StoreKept, MaxSessionsNatural
  <2> QED BY <1>2, <2>1, <2>3, <2>4, <2>5, TypeInvKept
<1>5. ASSUME Goto(o, "block"), UNCHANGED sess PROVE TypeInv'
  BY <1>1, <1>2, <1>5, GotoTakes, GotoFits, ManifestStepTyped, StateNames,
     Untouched, StoreKept DEF ManifestStep, Answered
<1> QED BY <1>3, <1>4, <1>5 DEF StartLaunch

LEMMA WaitTyped ==
    ASSUME TypeInv, NEW o \in Operators, StartWait(o)
    PROVE  TypeInv' /\ ManifestStep /\ Goto(o, "settle") /\ UNCHANGED <<mf, left>>
<1>1. op[o].pc = "wait" /\ op[o].slot \in Slots /\ spent' \in 0 .. Budget
  BY StartingTyped, StoreKept, StateNames DEF StartWait, At
<1>2. ManifestStep /\ Goto(o, "settle") /\ UNCHANGED <<mf, left>>
  BY Untouched, StoreKept DEF StartWait, ManifestStep, Answered
<1> QED BY <1>1, <1>2, GotoTakes, GotoFits, ManifestStepTyped, StateNames

LEMMA LeadBoundSound ==
    ASSUME NEW m, Sound(m), NEW o, op[o].sid \in Sessions \cup {None}
    PROVE  Sound(LeadBound(m, o)) /\ SameSlots(m, LeadBound(m, o))
  BY DEF LeadBound, Sound, Manifest, SameSlots

\* The last section of a start.
LEMMA SettleTyped ==
    ASSUME TypeInv, NEW o \in Operators, StartSettle(o)
    PROVE  TypeInv' /\ ManifestStep /\ Finish(o) /\ left' = left /\ Bound' = Bound
<1>1. /\ op[o].pc = "settle" /\ op[o].sid \in Sessions \cup {None} /\ spent' \in 0 .. Budget
  BY StartingTyped, StoreKept, StateNames DEF StartSettle, At, Op
<1>2. UNCHANGED <<slot, dirty, sess, spent, left>> /\ Finish(o)
  BY DEF StartSettle
<1>3. ManifestStep /\ Bound' = Bound
  <2>1. CASE op[o].launch # "dry" /\ Has(op[o].task)
    <3> DEFINE t == op[o].task
               m == ClearResult(mf, t)
               n == SetState(m, t, NextState(o))
    <3>1. NextState(o) \in CardStates
      BY StateNames DEF NextState
    <3>2. Sound(mf) /\ t \in CardsOf(mf) /\ Exists
      BY <2>1, ManifestSound DEF Has
    <3>3. Sound(m) /\ t \in CardsOf(m) /\ SameSlots(mf, m)
      BY <3>2, ClearResultSound
    <3>4. Sound(n) /\ SameSlots(m, n)
      BY <3>1, <3>3, SetStateSound
    <3>5. Sound(LeadBound(n, o)) /\ SameSlots(n, LeadBound(n, o))
      BY <1>1, <3>4, LeadBoundSound
    <3>6. Save(LeadBound(n, o)) /\ SameSlots(mf, LeadBound(n, o))
      BY <2>1, <3>3, <3>4, <3>5 DEF StartSettle, SameSlots
    <3> HIDE DEF m, n
    <3>7. ManifestStep
      BY <1>2, <3>2, <3>5, <3>6, SavedKeeps
    <3>8. Bound' = Bound
      BY <3>2, <3>5, <3>6, SoundIsTeam DEF Save, Bound, TaskSlots, SameSlots, Exists
    <3> QED BY <3>7, <3>8
  <2>2. CASE ~(op[o].launch # "dry" /\ Has(op[o].task))
    BY <2>2, <1>2, Untouched, StoreKept DEF StartSettle, ManifestStep, Answered
  <2> QED BY <2>1, <2>2
<1> QED BY <1>1, <1>2, <1>3, FinishTakes, IdleFits, ManifestStepTyped

\* The two steps of a recovery.
LEMMA BlockTyped ==
    ASSUME TypeInv, NEW o \in Operators, RecoverBlock(o)
    PROVE  /\ TypeInv' /\ ManifestStep /\ left' = left
           /\ IF op[o].acquired THEN Goto(o, "unslot") ELSE Finish(o)
<1>1. op[o].pc = "block" /\ op[o].task \in Tasks /\ spent' \in 0 .. Budget
  BY StartingTyped, StoreKept, StateNames DEF RecoverBlock, At
<1>2. ManifestStep
  BY <1>1, StateNames, CardSet DEF RecoverBlock
<1>3. CASE op[o].acquired /\ Goto(o, "unslot")
  BY <1>1, <1>2, <1>3, GotoTakes, GotoFits, ManifestStepTyped, StateNames, ZenonT(60)
  DEF RecoverBlock
<1>4. CASE ~op[o].acquired /\ Finish(o)
  BY <1>1, <1>2, <1>4, FinishTakes, IdleFits, ManifestStepTyped DEF RecoverBlock
<1> QED BY <1>2, <1>3, <1>4 DEF RecoverBlock

LEMMA ReleasedTyped ==
    ASSUME TypeInv, NEW s \in Slots, SlotReleased(s), UNCHANGED <<mf, dirty, sess>>,
           spent' \in 0 .. Budget,
           op' = op \/ \E o \in Operators : \E r : Takes(o, r) /\ WorkFits(r)
    PROVE  TypeInv'
<1>1. \A r : WorkFits(r) => WorkFits(r)'
  BY DEF WorkFits
<1>2. /\ slot' \in [Slots -> SlotStatuses] /\ dirty' \subseteq Slots /\ left' \subseteq Slots
      /\ sess' \in Seq(Session) /\ Len(sess') <= MaxSessions /\ Len(sess) <= Len(sess')
  BY StoreKept DEF SlotStatuses, SlotReleased
<1> QED BY <1>1, <1>2, Untouched, TypeInvKept

LEMMA RecoverReleaseTyped ==
    ASSUME TypeInv, NEW o \in Operators, RecoverRelease(o)
    PROVE  /\ TypeInv' /\ Finish(o) /\ UNCHANGED <<mf, sess, spent>>
           /\ op[o].acquired /\ op[o].slot \in Slots
           /\ \/ CanRelease(op[o].slot) /\ SlotReleased(op[o].slot)
              \/ left' = left \cup {op[o].slot} /\ UNCHANGED slot
<1>1. /\ op[o].pc = "unslot" /\ op[o].slot \in Slots /\ op[o].acquired
      /\ spent' \in 0 .. Budget
  BY StartingTyped, StoreKept, StateNames DEF RecoverRelease, At, TypeInv, WorkFits
<1>2. Finish(o) /\ UNCHANGED <<mf, dirty, sess, spent>>
  BY DEF RecoverRelease
<1>3. CASE CanRelease(op[o].slot) /\ SlotReleased(op[o].slot)
  BY <1>1, <1>2, <1>3, FinishTakes, IdleFits, ReleasedTyped
<1>4. CASE left' = left \cup {op[o].slot} /\ UNCHANGED slot
  <2>1. ManifestStep
    BY <1>1, <1>2, <1>4, Untouched, StoreKept DEF ManifestStep, Answered
  <2> QED BY <1>1, <1>2, <1>4, <2>1, FinishTakes, IdleFits, ManifestStepTyped
<1> QED BY <1>1, <1>2, <1>3, <1>4 DEF RecoverRelease

-----------------------------------------------------------------------------
(* The steps of a teardown and of a removal *)

LEMMA LiveSessionsExist ==
    ASSUME TypeInv, NEW m
    PROVE  LiveOnBound(m) \subseteq DOMAIN sess /\ LiveOnBound(m) \subseteq Sessions
  BY TypedStore, SessionsOn DEF LiveOnBound, LiveOn, On

LEMMA BoundSlotsTyped ==
    ASSUME NEW m, Sound(m)
    PROVE  BoundSlots(m) \subseteq Slots
<1>1. \A t \in Tasks : m.card[t].slot \in Slots \cup {None}
  BY CardsTyped DEF Card
<1>2. \A w \in MembersOf(m) : m.mslot[w] \in Slots \cup {None}
  BY DEF Sound, Manifest, MembersOf, Members
<1> QED BY <1>1, <1>2 DEF BoundSlots, TaskSlots

LEMMA IdleIs == ASSUME TypeInv, NEW o \in Operators, Idle(o) PROVE op[o] = IdleOp
  BY DEF TypeInv, WorkFits, Idle

\* A plan begins a teardown, or is blocked.
LEMMA TeardownPlanTyped ==
    ASSUME TypeInv, NEW o \in Operators, TeardownPlan(o)
    PROVE  /\ TypeInv' /\ ManifestStep /\ Charged(o)
           /\ \/ op' = op
              \/ \E r : /\ Takes(o, r) /\ WorkFits(r) /\ r.pc = "cancel" /\ r.acquired = FALSE
                        /\ r.todo = LiveOnBound(mf')
                        /\ r.since \in {None, spent'}
                        /\ r.since = spent' => \A p \in Operators \ {o} : Idle(p)
<1>1. PICK m \in Outcomes(mf) :
        /\ Save(m)
        /\ \/ op' = [op EXCEPT ![o] =
                      [IdleOp EXCEPT !.pc = "cancel", !.todo = LiveOnBound(m),
                          !.since = IF \A p \in Operators \ {o} : Idle(p)
                                    THEN spent' ELSE None]]
           \/ op' = op
  BY DEF TeardownPlan
<1>2. Exists /\ UNCHANGED <<slot, dirty, sess, left>> /\ Charged(o) /\ mf' = m
  BY <1>1, CommandsCost DEF TeardownPlan, Save
<1>3. ManifestStep
  BY <1>2, OutcomeKeeps
<1>4. CASE op' = op
  BY <1>2, <1>3, <1>4, ManifestStepTyped DEF Charged
<1>5. CASE op' = [op EXCEPT ![o] =
                      [IdleOp EXCEPT !.pc = "cancel", !.todo = LiveOnBound(m),
                          !.since = IF \A p \in Operators \ {o} : Idle(p)
                                    THEN spent' ELSE None]]
  <2> DEFINE todo == LiveOnBound(m)
             since == IF \A p \in Operators \ {o} : Idle(p) THEN spent' ELSE None
             r == [IdleOp EXCEPT !.pc = "cancel", !.todo = todo, !.since = since]
  <2>1. todo \subseteq DOMAIN sess /\ todo \in SUBSET (Slots \cup Sessions)
    BY LiveSessionsExist
  <2>2. since \in 0 .. Budget \cup {None} /\ since \in {None, spent'}
    BY <1>2 DEF Charged
  <2>3. since = spent' => \A p \in Operators \ {o} : Idle(p)
    BY <1>2, NoneIsApart, PricesNatural DEF Charged
  <2>4. LiveOnBound(m) = LiveOnBound(mf')
    BY <1>2
  <2>5. UNCHANGED sess /\ LiveOnBound(mf') = todo
    BY <1>2
  <2>6. Takes(o, r)
    BY <1>5 DEF Takes
  <2> HIDE DEF todo, since
  <2>7. r \in Op
    BY <2>1, <2>2, IdleFits, StateNames, ZenonT(60) DEF Op, Steps, DownSteps
  <2>8. /\ r.pc = "cancel" /\ r.todo = todo /\ r.since = since
        /\ r.acquired = IdleOp.acquired
    BY IdleFits DEF Op
  <2>9. IdleOp.acquired = FALSE
    BY DEF IdleOp
  <2> HIDE DEF r
  <2>10. WorkFits(r)
    BY <2>1, <2>7, <2>8, <2>9 DEF WorkFits, StartSteps
  <2>11. TypeInv'
    BY <1>2, <1>3, <2>6, <2>10, ManifestStepTyped DEF Charged
  <2> QED BY <1>2, <1>3, <2>2, <2>3, <2>5, <2>6, <2>8, <2>9, <2>10, <2>11
<1> QED BY <1>1, <1>4, <1>5

\* AppCore::delete_team begins, or is blocked.
LEMMA DeletePlanTyped ==
    ASSUME TypeInv, NEW o \in Operators, DeletePlan(o)
    PROVE  /\ TypeInv' /\ ManifestStep /\ Charged(o)
           /\ \/ op' = op
              \/ \E r : /\ Takes(o, r) /\ WorkFits(r) /\ r.pc = "remove"
                        /\ r.acquired = FALSE /\ r.since = None
<1>1. PICK m \in Outcomes(mf) : Save(m) /\ (Goto(o, "remove") \/ op' = op)
  BY DEF DeletePlan
<1>2. Exists /\ UNCHANGED <<slot, dirty, sess, left>> /\ Charged(o) /\ mf' = m
  BY <1>1, CommandsCost DEF DeletePlan, Save
<1>3. ManifestStep
  BY <1>2, OutcomeKeeps
<1>4. CASE op' = op
  BY <1>2, <1>3, <1>4, ManifestStepTyped DEF Charged
<1>5. CASE Goto(o, "remove")
  <2> DEFINE r == [IdleOp EXCEPT !.pc = "remove"]
  <2>1. op[o] = IdleOp
    BY <1>2, IdleIs DEF Charged
  <2>2. Takes(o, r)
    BY <1>5, <2>1, GotoTakes DEF Steps
  <2>3. r \in Op
    BY IdleFits DEF Op, Steps
  <2>4. r.pc = "remove" /\ r.acquired = IdleOp.acquired /\ r.since = IdleOp.since
    BY IdleFits DEF Op
  <2>5. IdleOp.acquired = FALSE /\ IdleOp.since = None
    BY DEF IdleOp
  <2> HIDE DEF r
  <2>6. WorkFits(r)
    BY <2>3, <2>4, <2>5 DEF WorkFits, StartSteps
  <2>7. TypeInv'
    BY <1>2, <1>3, <2>2, <2>6, ManifestStepTyped DEF Charged
  <2> QED BY <1>2, <1>3, <2>2, <2>4, <2>5, <2>6, <2>7
<1> QED BY <1>1, <1>4, <1>5

LEMMA WorkingNotAcquired ==
    ASSUME TypeInv, NEW o \in Operators, op[o].pc \in DownSteps \cup {"remove"}
    PROVE  op[o].acquired = FALSE /\ op[o] \in Op
  BY DEF TypeInv, Typed, WorkFits, Op, StartSteps, DownSteps

\* The rows of a table whose statuses change.
LEMMA SessionChanged ==
    ASSUME TypeInv, NEW x \in DOMAIN sess, NEW status \in SessionStatuses,
           sess' = [sess EXCEPT ![x].status = status]
    PROVE  /\ sess' \in Seq(Session) /\ Len(sess') = Len(sess)
           /\ DOMAIN sess' = DOMAIN sess
           /\ \A y \in DOMAIN sess : sess'[y] = IF y = x THEN [sess[x] EXCEPT !.status = status]
                                                ELSE sess[y]
<1>1. sess \in Seq(Session) /\ sess[x] \in Session
  BY DEF TypeInv, Typed
<1>2. [sess[x] EXCEPT !.status = status] \in Session
  BY <1>1 DEF Session
<1>3. sess' = [sess EXCEPT ![x] = [sess[x] EXCEPT !.status = status]]
  BY <1>1 DEF Session
<1> HIDE DEF Session
<1> QED BY <1>1, <1>2, <1>3

LEMMA SessionStepTyped ==
    ASSUME TypeInv, NEW x \in DOMAIN sess, NEW status \in SessionStatuses,
           sess' = [sess EXCEPT ![x].status = status],
           UNCHANGED <<mf, slot, dirty, left>>, spent' \in 0 .. Budget,
           op' = op \/ \E o \in Operators : \E r : Takes(o, r) /\ WorkFits(r)
    PROVE  TypeInv'
<1>1. sess' \in Seq(Session) /\ Len(sess') = Len(sess) /\ DOMAIN sess' = DOMAIN sess
  BY SessionChanged
<1>2. \A r : WorkFits(r) => WorkFits(r)'
  BY <1>1 DEF WorkFits
<1>3. /\ Fits(mf') /\ slot' \in [Slots -> SlotStatuses]
      /\ dirty' \subseteq Slots /\ left' \subseteq Slots
      /\ Len(sess') <= MaxSessions /\ Len(sess) <= Len(sess')
  BY <1>1, StoreKept, Untouched
<1> QED BY <1>1, <1>2, <1>3, TypeInvKept

\* The steps of a teardown, with what each does to the tables.
LEMMA CancelTyped ==
    ASSUME TypeInv, NEW o \in Operators, TeardownCancel(o)
    PROVE  /\ TypeInv' /\ UNCHANGED <<mf, slot, spent, left>>
           /\ \/ op[o].todo = {} /\ Goto(o, "collect") /\ UNCHANGED sess
              \/ Finish(o) /\ UNCHANGED sess
              \/ \E x \in op[o].todo :
                    /\ x \in DOMAIN sess /\ CanCancelSession(x)
                    /\ sess' = [sess EXCEPT ![x].status = "cancelled"]
                    /\ Takes(o, [op[o] EXCEPT !.todo = @ \ {x}])
<1>1. /\ op[o] \in Op /\ WorkFits(op[o]) /\ op[o].pc = "cancel"
      /\ op[o].todo \subseteq DOMAIN sess
  BY DEF TeardownCancel, At, TypeInv, Typed, WorkFits
<1>2. UNCHANGED <<mf, slot, dirty, spent, left>> /\ spent' \in 0 .. Budget
  BY StoreKept DEF TeardownCancel
<1>a. UNCHANGED sess => ManifestStep
  BY <1>2, Untouched, StoreKept DEF ManifestStep, Answered
<1>3. CASE op[o].todo = {} /\ Goto(o, "collect") /\ UNCHANGED sess
  <2> DEFINE r == [op[o] EXCEPT !.pc = "collect"]
  <2>1. Takes(o, r) /\ r \in Op
    BY <1>3, GotoTakes DEF Steps, DownSteps
  <2>2. r.pc = "collect" /\ r.acquired = op[o].acquired
    BY <1>1 DEF Op
  <2>3. op[o].acquired = FALSE
    BY <1>1, WorkingNotAcquired DEF DownSteps
  <2> HIDE DEF r
  <2>4. WorkFits(r)
    BY <2>1, <2>2, <2>3 DEF WorkFits, StartSteps
  <2> QED BY <1>2, <1>3, <1>a, <2>1, <2>4, ManifestStepTyped
<1>4. CASE Finish(o) /\ UNCHANGED sess
  BY <1>2, <1>4, <1>a, FinishTakes, IdleFits, ManifestStepTyped
<1>5. ASSUME NEW x \in op[o].todo, CanCancelSession(x),
             sess' = [sess EXCEPT ![x].status = "cancelled"],
             op' = [op EXCEPT ![o].todo = @ \ {x}]
      PROVE  TypeInv' /\ x \in DOMAIN sess /\ Takes(o, [op[o] EXCEPT !.todo = @ \ {x}])
  <2> DEFINE r == [op[o] EXCEPT !.todo = @ \ {x}]
  <2>1. Takes(o, r) /\ x \in DOMAIN sess
    BY <1>1, <1>5 DEF Takes, TypeInv, Typed
  <2>2. r \in Op /\ r.pc = "cancel" /\ r.todo = op[o].todo \ {x} /\ r.acquired = op[o].acquired
    BY <1>1 DEF Op
  <2>3. op[o].acquired = FALSE
    BY <1>1, WorkingNotAcquired DEF DownSteps
  <2>4. WorkFits(r)
    <3> HIDE DEF r
    <3> QED BY <1>1, <2>2, <2>3 DEF WorkFits, StartSteps
  <2>5. TypeInv'
    <3> HIDE DEF r
    <3> QED BY <1>2, <1>5, <2>1, <2>4, StatusNames, SessionStepTyped
  <2> QED BY <2>1, <2>5
<1> QED BY <1>2, <1>3, <1>4, <1>5 DEF TeardownCancel

LEMMA CollectTyped ==
    ASSUME TypeInv, NEW o \in Operators, TeardownCollect(o)
    PROVE  /\ TypeInv' /\ ManifestStep /\ UNCHANGED <<spent, left>>
           /\ Exists /\ mf' \in Outcomes(mf)
           /\ Takes(o, [op[o] EXCEPT !.pc = "release", !.todo = BoundSlots(mf')])
<1>1. PICK m \in Outcomes(mf) :
        Save(m) /\ op' = [op EXCEPT ![o].pc = "release", ![o].todo = BoundSlots(m)]
  BY DEF TeardownCollect
<1>2. Exists /\ UNCHANGED <<slot, dirty, sess, spent, left>> /\ mf' = m /\ spent' \in 0 .. Budget
      /\ op[o].pc = "collect" /\ op[o] \in Op
  BY <1>1, StoreKept DEF TeardownCollect, Save, At, TypeInv, Typed
<1>3. ManifestStep
  BY <1>2, OutcomeKeeps
<1> DEFINE todo == BoundSlots(m)
           r == [op[o] EXCEPT !.pc = "release", !.todo = todo]
<1>4. Takes(o, r)
  BY <1>1, <1>2 DEF Takes, TypeInv, Typed
<1>5. todo \subseteq Slots
  BY <1>2, TypedStore, ManifestSound, OutcomeSound, BoundSlotsTyped
<1>6. BoundSlots(mf') = todo
  BY <1>2
<1> HIDE DEF todo
<1>7. r \in Op /\ r.pc = "release" /\ r.todo = todo /\ r.acquired = op[o].acquired
  BY <1>2, <1>5 DEF Op, Steps, DownSteps
<1>8. op[o].acquired = FALSE
  BY <1>2, WorkingNotAcquired DEF DownSteps
<1>9. WorkFits(r)
  <2> HIDE DEF r
  <2> QED BY <1>5, <1>7, <1>8 DEF WorkFits, StartSteps
<1>10. TypeInv'
  <2> HIDE DEF r
  <2> QED BY <1>2, <1>3, <1>4, <1>9, ManifestStepTyped
<1> QED BY <1>2, <1>3, <1>4, <1>6, <1>10

LEMMA ReleaseTyped ==
    ASSUME TypeInv, NEW o \in Operators, TeardownRelease(o)
    PROVE  /\ TypeInv' /\ UNCHANGED <<mf, sess, spent>>
           /\ \/ op[o].todo = {} /\ Goto(o, "reset") /\ UNCHANGED <<slot, left>>
              \/ Finish(o) /\ UNCHANGED <<slot, left>>
              \/ \E s \in op[o].todo :
                    /\ s \in Slots
                    /\ \/ Gone(s) /\ UNCHANGED <<slot, left>>
                       \/ CanRelease(s) /\ SlotReleased(s)
                    /\ Takes(o, [op[o] EXCEPT !.todo = @ \ {s}])
<1>1. /\ op[o] \in Op /\ WorkFits(op[o]) /\ op[o].pc = "release"
      /\ op[o].todo \subseteq Slots
  BY DEF TeardownRelease, At, TypeInv, Typed, WorkFits
<1>2. UNCHANGED <<mf, dirty, sess, spent>> /\ spent' \in 0 .. Budget
  BY StoreKept DEF TeardownRelease
<1>a. UNCHANGED <<slot, left>> => ManifestStep
  BY <1>2, Untouched, StoreKept DEF ManifestStep, Answered
<1>b. op[o].acquired = FALSE
  BY <1>1, WorkingNotAcquired DEF DownSteps
<1>3. CASE op[o].todo = {} /\ Goto(o, "reset") /\ UNCHANGED <<slot, left>>
  <2> DEFINE r == [op[o] EXCEPT !.pc = "reset"]
  <2>1. Takes(o, r) /\ r \in Op
    BY <1>3, GotoTakes DEF Steps, DownSteps
  <2>2. r.pc = "reset" /\ r.acquired = op[o].acquired
    BY <1>1 DEF Op
  <2> HIDE DEF r
  <2>3. WorkFits(r)
    BY <1>b, <2>1, <2>2 DEF WorkFits, StartSteps
  <2> QED BY <1>2, <1>3, <1>a, <2>1, <2>3, ManifestStepTyped
<1>4. CASE Finish(o) /\ UNCHANGED <<slot, left>>
  BY <1>2, <1>4, <1>a, FinishTakes, IdleFits, ManifestStepTyped
<1>5. ASSUME NEW s \in op[o].todo, op' = [op EXCEPT ![o].todo = @ \ {s}],
             \/ Gone(s) /\ UNCHANGED <<slot, left>>
             \/ CanRelease(s) /\ SlotReleased(s)
      PROVE  TypeInv' /\ s \in Slots /\ Takes(o, [op[o] EXCEPT !.todo = @ \ {s}])
  <2> DEFINE r == [op[o] EXCEPT !.todo = @ \ {s}]
  <2>1. Takes(o, r) /\ s \in Slots
    BY <1>1, <1>5 DEF Takes, TypeInv, Typed
  <2>2. r \in Op /\ r.pc = "release" /\ r.todo = op[o].todo \ {s} /\ r.acquired = op[o].acquired
    BY <1>1 DEF Op
  <2>3. WorkFits(r)
    <3> HIDE DEF r
    <3> QED BY <1>1, <1>b, <2>2 DEF WorkFits, StartSteps
  <2>4. TypeInv'
    <3> HIDE DEF r
    <3>1. CASE UNCHANGED <<slot, left>>
      BY <1>2, <1>a, <2>1, <2>3, <3>1, ManifestStepTyped
    <3>2. CASE SlotReleased(s)
      BY <1>2, <2>1, <2>3, <3>2, ReleasedTyped
    <3> QED BY <1>5, <3>1, <3>2
  <2> QED BY <2>1, <2>4
<1>6. \/ op[o].todo = {} /\ Goto(o, "reset") /\ UNCHANGED <<slot, left>>
      \/ Finish(o) /\ UNCHANGED <<slot, left>>
      \/ \E s \in op[o].todo :
            /\ op' = [op EXCEPT ![o].todo = @ \ {s}]
            /\ \/ Gone(s) /\ UNCHANGED <<slot, left>>
               \/ CanRelease(s) /\ SlotReleased(s)
  BY DEF TeardownRelease
<1>7. CASE \E s \in op[o].todo :
            /\ op' = [op EXCEPT ![o].todo = @ \ {s}]
            /\ \/ Gone(s) /\ UNCHANGED <<slot, left>>
               \/ CanRelease(s) /\ SlotReleased(s)
  <2>1. PICK s \in op[o].todo :
            /\ op' = [op EXCEPT ![o].todo = @ \ {s}]
            /\ \/ Gone(s) /\ UNCHANGED <<slot, left>>
               \/ CanRelease(s) /\ SlotReleased(s)
    BY <1>7
  <2>2. TypeInv' /\ s \in Slots /\ Takes(o, [op[o] EXCEPT !.todo = @ \ {s}])
    BY <2>1, <1>5
  <2> QED BY <1>2, <2>1, <2>2
<1> QED BY <1>2, <1>3, <1>4, <1>6, <1>7

\* The steps that end a teardown or a removal.
LEMMA DownEndsTyped ==
    ASSUME TypeInv, NEW o \in Operators,
           TeardownReset(o) \/ TeardownFails(o) \/ DeleteRemove(o)
    PROVE  TypeInv' /\ ManifestStep /\ Finish(o) /\ spent' = spent
<1>1. Finish(o) /\ spent' = spent /\ spent' \in 0 .. Budget
  BY StoreKept DEF TeardownReset, TeardownFails, DeleteRemove
<1>2. ManifestStep
  <2>1. CASE TeardownReset(o)
    BY <2>1, ResetDrops DEF TeardownReset
  <2>2. CASE TeardownFails(o)
    BY <2>2, Untouched, StoreKept DEF TeardownFails, ManifestStep, Answered
  <2>3. CASE DeleteRemove(o)
    BY <2>3, RemovedDrops DEF DeleteRemove
  <2> QED BY <2>1, <2>2, <2>3
<1> QED BY <1>1, <1>2, FinishTakes, IdleFits, ManifestStepTyped

-----------------------------------------------------------------------------
(* Slot and session commands, the world, crashes *)

\* What the commands on slots do to the tables.
LEMMA SlotCommandsTyped ==
    ASSUME TypeInv, NEW o \in Operators, SlotCommands(o)
    PROVE  /\ TypeInv' /\ Charged(o) /\ UNCHANGED <<mf, sess, op>>
           /\ \/ UNCHANGED <<slot, left>>
              \/ \E s \in Slots : \/ /\ CanAcquire(s) /\ slot' = [slot EXCEPT ![s] = "active"]
                                     /\ left' = left \cup {s}
                                  \/ CanRelease(s) /\ SlotReleased(s)
                                  \/ /\ slot[s] = "released" /\ LiveOn(s) = {}
                                     /\ slot' = [slot EXCEPT ![s] = "absent"]
                                     /\ left' = left
<1>1. ASSUME NEW s \in Slots, SlotAcquire(o, s) \/ SlotRelease(o, s) \/ SlotDelete(o, s)
                              \/ CommitWork(o, s)
      PROVE  /\ Charged(o) /\ UNCHANGED <<mf, sess, op>> /\ dirty' \subseteq Slots
             /\ \/ UNCHANGED <<slot, left>>
                \/ /\ CanAcquire(s) /\ slot' = [slot EXCEPT ![s] = "active"]
                   /\ left' = left \cup {s}
                \/ CanRelease(s) /\ SlotReleased(s)
                \/ /\ slot[s] = "released" /\ LiveOn(s) = {}
                   /\ slot' = [slot EXCEPT ![s] = "absent"]
                   /\ left' = left
  BY <1>1, CommandsCost, StoreKept DEF SlotAcquire, SlotRelease, SlotDelete, CommitWork
<1>2. PICK s \in Slots : SlotAcquire(o, s) \/ SlotRelease(o, s) \/ SlotDelete(o, s)
                         \/ CommitWork(o, s)
  BY DEF SlotCommands
<1>3. slot' \in [Slots -> SlotStatuses] /\ left' \subseteq Slots
  BY <1>1, <1>2, StoreKept DEF SlotStatuses, SlotReleased
<1>4. TypeInv'
  BY <1>1, <1>2, <1>3, StoreKept, Untouched, TypeInvKept DEF Charged
<1> QED BY <1>1, <1>2, <1>4

\* An agent or an operator ends a session.
Ends(x, status) ==
    /\ sess' = [sess EXCEPT ![x].status = status]
    /\ status \in Terminal
    /\ sess[x].status = "running" \/ (sess[x].status = "prepared" /\ status = "cancelled")

LEMMA SessionCommandsTyped ==
    ASSUME TypeInv, NEW o \in Operators, SessionCommands(o)
    PROVE  /\ TypeInv' /\ Charged(o) /\ UNCHANGED <<mf, slot, op, left>>
           /\ \E x \in DOMAIN sess, status \in SessionStatuses : Ends(x, status)
<1>1. PICK x \in DOMAIN sess : SessionCancel(o, x)
  BY DEF SessionCommands
<1>2. Charged(o) /\ UNCHANGED <<mf, slot, dirty, op, left>> /\ Ends(x, "cancelled")
  BY <1>1, CommandsCost, StatusNames DEF SessionCancel, Ends, CanCancelSession
<1> QED BY <1>2, StatusNames, SessionStepTyped DEF Charged, Ends

LEMMA WorldTyped ==
    ASSUME TypeInv, World
    PROVE  /\ TypeInv' /\ UNCHANGED <<mf, slot, op, spent, left>>
           /\ \/ UNCHANGED sess
              \/ \E x \in DOMAIN sess, status \in SessionStatuses : Ends(x, status)
<1>1. ASSUME NEW x \in DOMAIN sess, AgentWrites(x)
      PROVE  TypeInv' /\ UNCHANGED <<mf, slot, op, spent, left, sess>>
  <2>1. sess[x] \in Session
    BY StoreKept
  <2>2. dirty' \subseteq Slots
    BY <1>1, <2>1, StoreKept DEF AgentWrites, Session
  <2> QED BY <1>1, <2>2, StoreKept, Untouched, TypeInvKept DEF AgentWrites
<1>2. ASSUME NEW x \in DOMAIN sess, NEW how \in {"completed", "failed"}, SessionEnd(x, how)
      PROVE  /\ TypeInv' /\ UNCHANGED <<mf, slot, op, spent, left>>
             /\ how \in SessionStatuses /\ Ends(x, how)
  BY <1>2, StatusNames, StoreKept, SessionStepTyped DEF SessionEnd, Ends
<1> QED BY <1>1, <1>2 DEF World

LEMMA CrashTyped ==
    ASSUME TypeInv, NEW o \in Operators, Crash(o)
    PROVE  /\ TypeInv' /\ UNCHANGED <<mf, slot, sess>> /\ Finish(o) /\ spent < spent'
           /\ left \subseteq left'
           /\ op[o].acquired => op[o].slot \in left'
<1>1. UNCHANGED <<mf, slot, dirty, sess>> /\ Finish(o)
      /\ left' = left \cup (IF op[o].acquired THEN {op[o].slot} ELSE {})
  BY DEF Crash
<1>2. spent' \in 0 .. Budget /\ spent < spent'
  <2>1. PICK c \in Commands : Spend(c)
    BY DEF Crash, Spend
  <2>2. spent \in Nat /\ Price[c] \in Nat \ {0} /\ spent' = spent + Price[c] /\ spent' <= Budget
    BY <2>1, PricesNatural, StoreKept DEF Spend
  <2> QED BY <2>2, PricesNatural
<1>3. left' \subseteq Slots
  BY <1>1, StoreKept DEF TypeInv, WorkFits
<1>4. ManifestStep
  BY <1>1, <1>3, Untouched DEF ManifestStep, Answered
<1> QED BY <1>1, <1>2, <1>4, FinishTakes, IdleFits, ManifestStepTyped

LEMMA ReconcileTyped ==
    ASSUME TypeInv, Reconcile
    PROVE  /\ TypeInv' /\ ManifestStep /\ UNCHANGED <<op, spent, left>>
           /\ Exists /\ mf' \in Outcomes(mf)
  BY OutcomeKeeps, ManifestStepTyped, StoreKept DEF Reconcile, Save

-----------------------------------------------------------------------------
(* Every state is well formed *)

\* Every reachable state is well formed: the manifest file is absent or holds a
\* typed and valid manifest in which absent cards have no slot (team.rs, validate),
\* and each operator at work has in its hands what its next step relies on
\* (app/team_ops.rs, execute_team_task and teardown_team).
THEOREM TypeInvAlways == Spec => []TypeInv
<1>1. Init => TypeInv
  <2> SUFFICES ASSUME Init PROVE TypeInv
    OBVIOUS
  <2>1. Fits(mf)
    <3>1. CASE mf \in Manifest /\ Valid(mf) /\ BoundSlots(mf) = {}
      <4>1. ASSUME NEW t \in Tasks PROVE mf.card[t].slot = None
        BY <3>1 DEF BoundSlots, TaskSlots
      <4> QED BY <3>1, <4>1 DEF Fits, Sound
    <3>2. CASE mf = NoTeam
      BY <3>2 DEF Fits
    <3> QED BY <3>1, <3>2, TeamsAreValid DEF Init
  <2>2. mf \in Manifest \cup {NoTeam}
    BY <2>1 DEF Fits, Sound
  <2>3. sess \in Seq(Session) /\ Len(sess) <= MaxSessions /\ 0 \in 0 .. Budget
    BY MaxSessionsNatural, PricesNatural DEF Init
  <2>4. Typed
    BY <2>2, <2>3, IdleFits DEF Init, Typed, SlotStatuses
  <2> QED BY <2>1, <2>4, IdleFits DEF TypeInv, Init
<1>2. TypeInv /\ [Next]_vars => TypeInv'
  <2> SUFFICES ASSUME TypeInv, [Next]_vars PROVE TypeInv'
    OBVIOUS
  <2>1. ASSUME NEW o \in Operators, RunTeam(o) PROVE TypeInv'
    <3>1. CASE Launch(o)
      BY <3>1, LaunchTyped
    <3>2. CASE TeardownPlan(o)
      BY <3>2, TeardownPlanTyped
    <3>3. CASE DeletePlan(o)
      BY <3>3, DeletePlanTyped
    <3>4. CASE Edit(o)
      BY <3>4, EditTyped
    <3> QED
      BY <2>1, <3>1, <3>2, <3>3, <3>4, MemberCommandsEdit, PlanCommandsEdit, TaskCommandsEdit,
         TeamCommandsEdit DEF RunTeam, TeamCommands
  <2>2. ASSUME NEW o \in Operators, SlotCommands(o) \/ SessionCommands(o) PROVE TypeInv'
    BY <2>2, SlotCommandsTyped, SessionCommandsTyped
  <2>3. ASSUME NEW o \in Operators, StartStep(o) PROVE TypeInv'
    BY <2>3, MarkTyped, UseSlotTyped, AcquireTyped, BindTyped, LaunchStepTyped, WaitTyped,
       SettleTyped, BlockTyped, RecoverReleaseTyped DEF StartStep
  <2>4. ASSUME NEW o \in Operators, DownStep(o) PROVE TypeInv'
    BY <2>4, CancelTyped, CollectTyped, ReleaseTyped, DownEndsTyped DEF DownStep
  <2>5. ASSUME NEW o \in Operators, Crash(o) PROVE TypeInv'
    BY <2>5, CrashTyped
  <2>6. CASE Reconcile
    BY <2>6, ReconcileTyped
  <2>7. CASE World
    BY <2>7, WorldTyped
  <2>8. CASE UNCHANGED vars
    BY <2>8, StoreKept, TypeInvKept DEF vars, TypeInv
  <2> QED
    BY <2>1, <2>2, <2>3, <2>4, <2>5, <2>6, <2>7, <2>8 DEF Next
<1> QED BY <1>1, <1>2, PTL DEF Spec

-----------------------------------------------------------------------------
(* Races *)

\* A step that leaves the history of races alone, or adds to it.
RaceKept == raced' = raced \/ \E t \in Tasks : Race(t)

\* That two starts of a card have overlapped is not forgotten.
LEMMA RacedKept ==
    ASSUME raced \in BOOLEAN, [Next]_vars
    PROVE  raced' \in BOOLEAN /\ (raced => raced')
<1>1. ASSUME NEW o \in Operators, RunTeam(o) PROVE RaceKept
  <2>1. CASE InitTeam(o) \/ TeamCommands(o)
    BY <2>1 DEF RaceKept, InitTeam, TeamCommands, TeamArchive, TeamReset, TeamDelete, ArchiveTeam,
       TeardownPlan, DeletePlan
  <2>2. CASE MemberCommands(o)
    BY <2>2 DEF RaceKept, MemberCommands, MemberAdd, MemberRemove, LeadReplace, MemberAssignSlot
  <2>3. CASE PlanCommands(o)
    BY <2>3 DEF RaceKept, PlanCommands, PlanAdd, PlanApprove, PlanGenerate
  <2>4. CASE TaskCommands(o)
    BY <2>4, Zenon
    DEF RaceKept, TaskCommands, TaskAdd, TaskBindSlot, TaskState, TaskAccept, TaskRework,
       TaskCancel, TaskSupersede
  <2>5. CASE Launch(o)
    BY <2>5, Zenon DEF RaceKept, Launch, TaskStart, TaskDelegate, TaskHandOver, Begin
  <2> QED BY <1>1, <2>1, <2>2, <2>3, <2>4, <2>5 DEF RunTeam
<1>2. ASSUME NEW o \in Operators, SlotCommands(o) \/ SessionCommands(o) PROVE RaceKept
  BY <1>2 DEF RaceKept, SlotCommands, SlotAcquire, SlotRelease, SlotDelete, CommitWork,
     SessionCommands, SessionCancel
<1>3. ASSUME NEW o \in Operators, StartStep(o) PROVE RaceKept
  BY <1>3 DEF RaceKept, StartStep, StartMark, StartUseSlot, StartAcquire, StartBind, StartLaunch,
     StartWait, StartSettle, RecoverBlock, RecoverRelease
<1>4. ASSUME NEW o \in Operators, DownStep(o) PROVE RaceKept
  BY <1>4 DEF RaceKept, DownStep, TeardownCancel, TeardownCollect, TeardownRelease, TeardownReset,
     TeardownFails, DeleteRemove
<1>5. ASSUME NEW o \in Operators, Crash(o) PROVE RaceKept
  BY <1>5 DEF RaceKept, Crash
<1>6. ASSUME Reconcile PROVE RaceKept
  BY <1>6 DEF RaceKept, Reconcile
<1>7. ASSUME World PROVE RaceKept
  BY <1>7 DEF RaceKept, World, AgentWrites, SessionEnd
<1>8. ASSUME UNCHANGED vars PROVE RaceKept
  BY <1>8 DEF RaceKept, vars
<1>9. RaceKept
  <2>1. CASE \E o \in Operators : \/ RunTeam(o) \/ SlotCommands(o) \/ SessionCommands(o)
                                  \/ StartStep(o) \/ DownStep(o) \/ Crash(o)
    BY <1>1, <1>2, <1>3, <1>4, <1>5, <2>1
  <2> QED BY <1>6, <1>7, <1>8, <2>1 DEF Next
<1>10. CASE raced' = raced
  BY <1>10
<1>11. ASSUME NEW t \in Tasks, Race(t) PROVE raced' \in BOOLEAN /\ (raced => raced')
  <2>1. raced' = (raced \/ Starting(t))
    BY <1>11 DEF Race
  <2>2. (raced \/ Starting(t)) \in BOOLEAN
    BY Zenon
  <2> QED BY <2>1, <2>2, Zenon
<1> QED BY <1>9, <1>10, <1>11 DEF RaceKept

LEMMA RacedAlways == Spec => [](raced \in BOOLEAN)
<1>1. Init => raced \in BOOLEAN
  BY DEF Init
<1>2. raced \in BOOLEAN /\ [Next]_vars => (raced \in BOOLEAN)'
  BY RacedKept
<1> QED BY <1>1, <1>2, PTL DEF Spec

\* No command leaves a manifest that cannot be loaded, reconciled and reset.
LEMMA TypedLoads == TypeInv /\ raced \in BOOLEAN => Loadable
<1> SUFFICES ASSUME TypeInv, Exists
             PROVE  Valid(mf) /\ Valid(Reset(mf)) /\ \A m \in Outcomes(mf) : Valid(m)
  BY DEF Loadable, TypeInv, Typed, TypeOK
<1> QED BY TypedStore, ManifestSound, ResetSound, OutcomeSound

\* No command of team_ops.rs or commands/team.rs leaves a manifest in the file
\* that the next load, reconciliation or reset would refuse, whatever the
\* verification commands of reconcile.rs say.
THEOREM LoadableAlways == Spec => []Loadable
  BY TypeInvAlways, RacedAlways, TypedLoads, PTL

-----------------------------------------------------------------------------
(* No slot is lost *)

\* A slot that is not active has no live session.
Quiet == \A s \in Slots : slot[s] # "active" => LiveOn(s) = {}

\* Slots that a start has acquired and has not yet bound, or cannot bind.
Grasped == {op[o].slot : o \in {p \in Operators :
               op[p].acquired /\ op[p].pc \in {"bind", "block", "unslot"}}}

Reachable == \A s \in Slots : slot[s] = "active" => s \in Bound \cup Grasped \cup left

\* A teardown in whose middle nobody has given a command: what it has done so
\* far is still done, whatever has ended and been reconciled since.
Clearing(o) ==
    op[o].since = spent /\ op[o].pc \in DownSteps =>
       /\ Exists
       /\ \A p \in Operators \ {o} : Idle(p)
       /\ LiveOnBound(mf) \subseteq IF op[o].pc = "cancel" THEN op[o].todo ELSE {}
       /\ op[o].pc \in {"release", "reset"} =>
             \A s \in BoundSlots(mf) : Gone(s) \/ (op[o].pc = "release" /\ s \in op[o].todo)

Cleared ==
    \A o \in Operators : /\ op[o].since # None => op[o].since <= spent
                         /\ Clearing(o)

\* Unless starts of one card have overlapped, each start is alone with its card
\* until it binds it, and the card has no other slot than the start's own.
Lone ==
    raced \/ \A p \in Operators : BeforeBind(p) =>
       /\ Exists => mf.card[op[p].task].slot \in {None, op[p].slot}
       /\ \A q \in Operators \ {p} : BeforeBind(q) => op[q].task # op[p].task

IInv == TypeInv /\ Quiet /\ Lone /\ (raced \/ Reachable) /\ Cleared

\* The parts of a state that reachability depends on.
LEMMA ReachableKept ==
    ASSUME Reachable,
           \A s \in Slots : slot'[s] = "active" =>
              /\ slot[s] = "active" \/ s \in Grasped' \cup left'
              /\ s \in Bound => s \in Bound' \cup left'
              /\ s \in Grasped => s \in Grasped' \cup Bound' \cup left'
              /\ s \in left => s \in left'
    PROVE  Reachable'
  BY DEF Reachable

\* One operator takes a step, the others do not.
LEMMA TakesOne ==
    ASSUME TypeInv, NEW o \in Operators, NEW r, Takes(o, r)
    PROVE  op'[o] = r /\ \A p \in Operators : p # o => op'[p] = op[p]
  BY DEF Takes, TypeInv, Typed

\* What one operator's step does to what starts have in their hands.
LEMMA GraspedBy ==
    ASSUME TypeInv, NEW o \in Operators, NEW r, Takes(o, r), NEW s \in Grasped
    PROVE  \/ s \in Grasped'
           \/ s = op[o].slot /\ op[o].acquired /\ op[o].pc \in {"bind", "block", "unslot"}
<1>1. PICK p \in Operators : /\ op[p].acquired /\ op[p].pc \in {"bind", "block", "unslot"}
                             /\ s = op[p].slot
  BY DEF Grasped
<1>2. CASE p = o
  BY <1>1, <1>2
<1>3. CASE p # o
  <2>1. op'[p] = op[p]
    BY <1>3, TakesOne
  <2> QED BY <1>1, <2>1 DEF Grasped
<1> QED BY <1>2, <1>3

LEMMA GraspedSame == op' = op => Grasped' = Grasped
  BY DEF Grasped

\* The manifest a binding writes.
LEMMA BindWrites ==
    ASSUME TypeInv, NEW o \in Operators, StartBind(o)
    PROVE  \/ UNCHANGED mf
           \/ /\ Exists /\ Exists'
              /\ mf'.card[op[o].task].slot = op[o].slot
              /\ \A u \in Tasks : u # op[o].task => mf'.card[u].slot = mf.card[u].slot
<1>1. CASE Has(op[o].task) /\ op[o].owner \in MembersOf(mf)
  <2> DEFINE t == op[o].task
             m == AssignMemberSlot(mf, op[o].owner, op[o].slot)
  <2>1. /\ Exists /\ t \in Tasks /\ op[o].owner \in Members /\ op[o].slot \in Slots
        /\ Sound(mf)
    BY <1>1, StartingTyped, StateNames, ManifestSound DEF StartBind, At, Has
  <2>2. Sound(m) /\ m.card = mf.card
    BY <2>1, MembersSound DEF AssignMemberSlot, Sound, Manifest
  <2>3. mf' = BindTaskSlot(m, t, op[o].slot)
    BY <1>1 DEF StartBind, BindBoth, Save
  <2>a. t \in CardsOf(m)
    BY <1>1, <2>2 DEF Has, CardsOf
  <2>4. Exists'
    BY <2>1, <2>2, <2>3, <2>a, BindSound, SoundIsTeam DEF Exists
  <2> HIDE DEF m
  <2>5. m \in Manifest /\ \A u \in Tasks : m.card[u] \in Card
    BY <2>2, CardsTyped DEF Sound
  <2>6. mf'.card = [m.card EXCEPT ![t].slot = op[o].slot]
    BY <2>3, <2>5 DEF BindTaskSlot, Manifest
  <2>7. /\ mf'.card[t].slot = op[o].slot
        /\ \A u \in Tasks : u # t => mf'.card[u].slot = m.card[u].slot
    BY <2>1, <2>5, <2>6 DEF Manifest, Card
  <2> QED BY <2>1, <2>2, <2>4, <2>7
<1>2. CASE ~(Has(op[o].task) /\ op[o].owner \in MembersOf(mf))
  BY <1>2 DEF StartBind
<1> QED BY <1>1, <1>2

\* A start that is alone with its card takes no slot from it.
LEMMA BindKeeps ==
    ASSUME TypeInv, Lone, ~raced, NEW o \in Operators, StartBind(o)
    PROVE  Bound \subseteq Bound'
<1>1. CASE UNCHANGED mf
  BY <1>1, Untouched
<1>2. CASE ~UNCHANGED mf
  <2>1. /\ Exists /\ Exists'
        /\ mf'.card[op[o].task].slot = op[o].slot
        /\ \A u \in Tasks : u # op[o].task => mf'.card[u].slot = mf.card[u].slot
    BY <1>2, BindWrites
  <2>2. mf.card[op[o].task].slot \in {None, op[o].slot}
    BY <2>1 DEF Lone, StartBind, At, BeforeBind
  <2> QED BY <2>1, <2>2 DEF Bound, TaskSlots
<1> QED BY <1>1, <1>2

\* An edit, or the first step of a command, by an operator with empty hands.
LEMMA ReachableManifest ==
    ASSUME TypeInv, Lone, ~raced, ~raced', Reachable, ManifestStep,
           Grasped \subseteq Grasped' \cup Bound' \cup left'
    PROVE  Reachable'
<1>1. \A s \in Bound \ Bound' : slot[s] = "active" => s \in left'
  BY BindKeeps DEF ManifestStep, Answered
<1> QED BY <1>1, ReachableKept DEF ManifestStep, Answered

\* A step of an operator that lets go of no slot, or puts it into the manifest.
LEMMA ReachableStep ==
    ASSUME TypeInv, Lone, ~raced, ~raced', Reachable, ManifestStep,
           NEW o \in Operators, NEW r, Takes(o, r),
           \/ ~op[o].acquired
           \/ op[o].pc \notin {"bind", "block", "unslot"}
           \/ r.acquired /\ r.slot = op[o].slot /\ r.pc \in {"bind", "block", "unslot"}
           \/ op[o].slot \in Bound' \cup left'
    PROVE  Reachable'
<1>1. ASSUME r.acquired, r.slot = op[o].slot, r.pc \in {"bind", "block", "unslot"}
      PROVE  op[o].slot \in Grasped'
  BY <1>1, TakesOne DEF Grasped
<1>2. Grasped \subseteq Grasped' \cup Bound' \cup left'
  BY <1>1, GraspedBy
<1> QED BY <1>2, ReachableManifest

\* Goto keeps the slot, the history and the rest.
LEMMA GotoRecord ==
    ASSUME TypeInv, NEW o \in Operators, NEW pc \in Steps, Goto(o, pc)
    PROVE  \E r : /\ Takes(o, r) /\ r \in Op /\ r.pc = pc /\ r.acquired = op[o].acquired
                  /\ r.slot = op[o].slot /\ r.since = op[o].since /\ r.todo = op[o].todo
                  /\ r.task = op[o].task
<1> DEFINE r == [op[o] EXCEPT !.pc = pc]
<1>1. Takes(o, r) /\ r \in Op /\ op[o] \in Op
  BY GotoTakes DEF TypeInv, Typed
<1>2. /\ r.pc = pc /\ r.acquired = op[o].acquired /\ r.slot = op[o].slot
      /\ r.since = op[o].since /\ r.todo = op[o].todo /\ r.task = op[o].task
  BY <1>1 DEF Op
<1> HIDE DEF r
<1> QED BY <1>1, <1>2

LEMMA IdleEmpty == IdleOp.acquired = FALSE /\ IdleOp.pc = "idle" /\ IdleOp.since = None
  BY DEF IdleOp

\* A start keeps the slot it has acquired in its hands until a card has it.
LEMMA ReachableStart ==
    ASSUME TypeInv, Lone, ~raced, ~raced', Reachable, NEW o \in Operators, StartStep(o)
    PROVE  Reachable'
<1>1. CASE StartMark(o)
  <2>1. ManifestStep /\ (Goto(o, "slot") \/ Finish(o)) /\ op[o].pc = "mark"
    BY <1>1, MarkTyped DEF StartMark, At
  <2>2. \E r : Takes(o, r)
    BY <2>1, GotoRecord, FinishTakes, StateNames
  <2> QED BY <2>1, <2>2, ReachableStep
<1>2. CASE StartUseSlot(o)
  <2>1. ManifestStep /\ (Goto(o, "bind") \/ Goto(o, "block")) /\ op[o].pc = "slot"
    BY <1>2, UseSlotTyped DEF StartUseSlot, At
  <2>2. \E r : Takes(o, r)
    BY <2>1, GotoRecord, StateNames
  <2> QED BY <2>1, <2>2, ReachableStep
<1>3. CASE StartAcquire(o)
  <2>1. op[o].acquired = FALSE /\ UNCHANGED <<mf, left>> /\ Bound' = Bound
    BY <1>3, AcquireTyped, Untouched
  <2>2. CASE Goto(o, "block") /\ UNCHANGED slot
    <3>1. PICK r : Takes(o, r)
      BY <2>2, GotoRecord, StateNames
    <3>2. Grasped \subseteq Grasped'
      BY <2>1, <3>1, GraspedBy
    <3> QED BY <2>1, <2>2, <3>2, ReachableKept
  <2>3. ASSUME NEW s \in Slots, NEW r, slot' = [slot EXCEPT ![s] = "active"], Takes(o, r),
               r.pc = "bind", r.slot = s, r.acquired
        PROVE  Reachable'
    <3>1. Grasped \subseteq Grasped' /\ s \in Grasped'
      BY <2>1, <2>3, GraspedBy, TakesOne DEF Grasped
    <3>2. \A u \in Slots : slot'[u] = "active" => slot[u] = "active" \/ u = s
      BY <2>3, StoreKept
    <3> QED BY <2>1, <3>1, <3>2, ReachableKept
  <2> QED BY <1>3, <2>2, <2>3, AcquireTyped
<1>4. CASE StartBind(o)
  <2>1. /\ ManifestStep
        /\ \/ Goto(o, "launch") /\ op[o].slot \in Bound'
           \/ Goto(o, "block")
    BY <1>4, BindTyped
  <2>2. CASE Goto(o, "launch") /\ op[o].slot \in Bound'
    BY <2>1, <2>2, GotoRecord, ReachableStep, StateNames
  <2>3. CASE Goto(o, "block")
    BY <2>1, <2>3, GotoRecord, ReachableStep, StateNames
  <2> QED BY <2>1, <2>2, <2>3
<1>5. CASE StartLaunch(o)
  <2>1. UNCHANGED <<mf, slot, left>> /\ Bound' = Bound /\ op[o].pc = "launch"
    BY <1>5, Untouched DEF StartLaunch, At
  <2>2. \E r : Takes(o, r)
    BY <1>5 DEF StartLaunch, Goto, Takes
  <2>3. Grasped \subseteq Grasped'
    BY <2>1, <2>2, GraspedBy
  <2> QED BY <2>1, <2>3, ReachableKept
<1>6. CASE StartWait(o)
  <2>1. ManifestStep /\ Goto(o, "settle") /\ op[o].pc = "wait"
    BY <1>6, WaitTyped DEF StartWait, At
  <2> QED BY <2>1, GotoRecord, ReachableStep, StateNames
<1>7. CASE StartSettle(o)
  <2>1. ManifestStep /\ Finish(o) /\ op[o].pc = "settle"
    BY <1>7, SettleTyped DEF StartSettle, At
  <2> QED BY <2>1, FinishTakes, ReachableStep
<1>8. CASE RecoverBlock(o)
  <2>1. ManifestStep /\ (IF op[o].acquired THEN Goto(o, "unslot") ELSE Finish(o))
    BY <1>8, BlockTyped
  <2>2. CASE op[o].acquired /\ Goto(o, "unslot")
    BY <2>1, <2>2, GotoRecord, ReachableStep, StateNames
  <2>3. CASE ~op[o].acquired /\ Finish(o)
    BY <2>1, <2>3, FinishTakes, ReachableStep
  <2> QED BY <2>1, <2>2, <2>3
<1>9. CASE RecoverRelease(o)
  <2>1. /\ UNCHANGED mf /\ Bound' = Bound /\ Takes(o, IdleOp)
        /\ \/ CanRelease(op[o].slot) /\ SlotReleased(op[o].slot)
           \/ left' = left \cup {op[o].slot} /\ UNCHANGED slot
    BY <1>9, RecoverReleaseTyped, Untouched, FinishTakes
  <2>2. \A s \in Slots : slot'[s] = "active" =>
           slot[s] = "active" /\ (s = op[o].slot => s \in left') /\ (s \in left => s \in left')
    BY <2>1, StoreKept DEF SlotReleased
  <2> QED BY <2>1, <2>2, GraspedBy, ReachableKept
<1> QED
  BY <1>1, <1>2, <1>3, <1>4, <1>5, <1>6, <1>7, <1>8, <1>9 DEF StartStep

\* Teardowns and removals have acquired nothing.
LEMMA ReachableDown ==
    ASSUME TypeInv, Lone, ~raced, ~raced', Reachable, NEW o \in Operators, DownStep(o)
    PROVE  Reachable'
<1>1. op[o].pc \in DownSteps \cup {"remove"}
  BY DEF DownStep, TeardownCancel, TeardownCollect, TeardownRelease, TeardownReset,
         TeardownFails, DeleteRemove, At, DownSteps
<1>2. op[o].acquired = FALSE
  BY <1>1, WorkingNotAcquired
<1>3. \E r : Takes(o, r)
  BY DEF DownStep, TeardownCancel, TeardownCollect, TeardownRelease, TeardownReset,
         TeardownFails, DeleteRemove, Goto, Finish, Takes
<1>4. Grasped \subseteq Grasped'
  BY <1>2, <1>3, GraspedBy
<1>5. CASE TeardownCancel(o)
  BY <1>4, <1>5, CancelTyped, Untouched, ReachableKept
<1>6. CASE TeardownCollect(o) \/ TeardownReset(o) \/ TeardownFails(o) \/ DeleteRemove(o)
  BY <1>4, <1>6, CollectTyped, DownEndsTyped, ReachableManifest
<1>7. CASE TeardownRelease(o)
  <2>1. Bound' = Bound
    BY <1>7, ReleaseTyped, Untouched
  <2>2. CASE UNCHANGED <<slot, left>>
    BY <1>4, <2>1, <2>2, ReachableKept
  <2>3. ASSUME NEW s \in Slots, SlotReleased(s) PROVE Reachable'
    <3>1. \A u \in Slots : slot'[u] = "active" =>
             slot[u] = "active" /\ (u \in left => u \in left')
      BY <2>3, StoreKept DEF SlotReleased
    <3> QED BY <1>4, <2>1, <3>1, ReachableKept
  <2> QED BY <1>7, <2>2, <2>3, ReleaseTyped
<1> QED BY <1>5, <1>6, <1>7 DEF DownStep

LEMMA ReachableCommands ==
    ASSUME TypeInv, Lone, ~raced, ~raced', Reachable, NEW o \in Operators,
           RunTeam(o) \/ SlotCommands(o) \/ SessionCommands(o)
    PROVE  Reachable'
<1>1. ASSUME ManifestStep, Idle(o), op' = op \/ \E r : Takes(o, r) PROVE Reachable'
  BY <1>1, GraspedSame, ReachableManifest, ReachableStep DEF Idle
<1>2. CASE RunTeam(o)
  <2>1. CASE Launch(o) \/ TeardownPlan(o) \/ DeletePlan(o)
    BY <1>1, <2>1, LaunchTyped, TeardownPlanTyped, DeletePlanTyped DEF Charged
  <2>2. CASE Edit(o)
    BY <1>1, <2>2 DEF Edit, Charged
  <2> QED
    BY <1>2, <2>1, <2>2, MemberCommandsEdit, PlanCommandsEdit, TaskCommandsEdit,
       TeamCommandsEdit DEF RunTeam, TeamCommands
<1>3. CASE SlotCommands(o)
  <2>1. UNCHANGED <<mf, op>> /\ Bound' = Bound /\ Grasped' = Grasped
    BY <1>3, SlotCommandsTyped, Untouched, GraspedSame
  <2>2. \A s \in Slots : slot'[s] = "active" =>
           (slot[s] = "active" \/ s \in left') /\ (s \in left => s \in left')
    BY <1>3, SlotCommandsTyped, StoreKept DEF SlotReleased
  <2> QED BY <2>1, <2>2, ReachableKept
<1>4. CASE SessionCommands(o)
  BY <1>4, SessionCommandsTyped, Untouched, GraspedSame, ReachableKept
<1> QED BY <1>2, <1>3, <1>4

LEMMA ReachableNext ==
    ASSUME TypeInv, Lone, ~raced, ~raced', Reachable, [Next]_vars
    PROVE  Reachable'
<1>1. ASSUME NEW o \in Operators, Crash(o) PROVE Reachable'
  <2>1. /\ UNCHANGED <<mf, slot>> /\ Bound' = Bound /\ Takes(o, IdleOp) /\ left \subseteq left'
        /\ op[o].acquired => op[o].slot \in left'
    BY <1>1, CrashTyped, Untouched, FinishTakes
  <2> QED BY <2>1, GraspedBy, ReachableKept
<1>2. CASE Reconcile
  BY <1>2, ReconcileTyped, GraspedSame, ReachableManifest
<1>3. CASE World
  BY <1>3, WorldTyped, Untouched, GraspedSame, ReachableKept
<1>4. CASE UNCHANGED vars
  BY <1>4, Untouched, GraspedSame, ReachableKept DEF vars
<1> QED
  BY <1>1, <1>2, <1>3, <1>4, ReachableStart, ReachableDown, ReachableCommands DEF Next

\* A step after which every start that has still to bind its card is one that
\* had to before, with the same card.
HandsKept ==
    \A p \in Operators : BeforeBind(p)' =>
       /\ BeforeBind(p)
       /\ op'[p].task = op[p].task
       /\ op[p].slot \in {None, op'[p].slot}

LEMMA HandsBy ==
    ASSUME TypeInv, NEW o \in Operators, NEW r, Takes(o, r),
           \/ r.pc \notin {"mark", "slot", "bind"}
           \/ BeforeBind(o) /\ r.task = op[o].task /\ op[o].slot \in {None, r.slot}
    PROVE  HandsKept
  BY TakesOne DEF HandsKept, BeforeBind

\* A step of an operator whose start, if any, has bound its card.
LEMMA HandsOff ==
    ASSUME NEW o \in Operators, ~BeforeBind(o)',
           \A q \in Operators : q # o => op'[q] = op[q]
    PROVE  HandsKept
  BY DEF HandsKept, BeforeBind

LEMMA HandsSame == op' = op => HandsKept
  BY DEF HandsKept, BeforeBind

\* The starts that have still to bind their cards keep them to themselves.
LEMMA LoneKept ==
    ASSUME TypeInv, Lone, raced => raced', SlotsStay, HandsKept
    PROVE  Lone'
<1> SUFFICES ASSUME ~raced', NEW p \in Operators, BeforeBind(p)'
             PROVE  /\ Exists' => mf'.card[op'[p].task].slot \in {None, op'[p].slot}
                    /\ \A q \in Operators \ {p} : BeforeBind(q)' => op'[q].task # op'[p].task
  BY DEF Lone
<1>1. /\ BeforeBind(p) /\ op'[p].task = op[p].task /\ op[p].slot \in {None, op'[p].slot}
      /\ \A q \in Operators : BeforeBind(q)' => BeforeBind(q) /\ op'[q].task = op[q].task
  BY DEF HandsKept
<1>2. /\ Exists => mf.card[op[p].task].slot \in {None, op[p].slot}
      /\ \A q \in Operators \ {p} : BeforeBind(q) => op[q].task # op[p].task
  BY <1>1 DEF Lone
<1>3. op[p].task \in Tasks /\ Starting(op[p].task)
  BY <1>1, StartingTyped, StateNames DEF Starting, BeforeBind
<1>4. Exists' /\ mf'.card[op[p].task].slot # None
      => Exists /\ mf'.card[op[p].task].slot = mf.card[op[p].task].slot
  BY <1>3 DEF SlotsStay
<1> QED BY <1>1, <1>2, <1>4

\* A start begins with the slot its card has, if any.
LEMMA LoneBegin ==
    ASSUME TypeInv, Lone, raced => raced', NEW o \in Operators, NEW m, SameSlots(mf, m), Exists,
           NEW t \in Tasks, NEW launch, Begin(o, m, t, launch),
           NEW r, Takes(o, r), r.task = t, m.card[t].slot \in {None, r.slot}
    PROVE  Lone'
<1> SUFFICES ASSUME ~raced', NEW p \in Operators, BeforeBind(p)'
             PROVE  /\ Exists' => mf'.card[op'[p].task].slot \in {None, op'[p].slot}
                    /\ \A q \in Operators \ {p} : BeforeBind(q)' => op'[q].task # op'[p].task
  BY DEF Lone
<1>1. mf' = m /\ ~Starting(t) /\ ~raced
  BY DEF Begin, Save, Race
<1>2. op'[o] = r /\ \A q \in Operators : q # o => op'[q] = op[q]
  BY TakesOne
<1>3. \A q \in Operators \ {o} : BeforeBind(q)' => BeforeBind(q) /\ op[q].task # t
  BY <1>1, <1>2 DEF BeforeBind, Starting
<1>4. CASE p = o
  BY <1>1, <1>2, <1>3, <1>4
<1>5. CASE p # o
  <2>1. BeforeBind(p) /\ op'[p] = op[p] /\ op[p].task # t
    BY <1>2, <1>3, <1>5
  <2>2. op[p].task \in Tasks
    BY <2>1, StartingTyped, StateNames DEF BeforeBind
  <2>3. mf.card[op[p].task].slot \in {None, op[p].slot}
    BY <1>1, <2>1 DEF Lone
  <2>4. mf'.card[op[p].task].slot \in {None, op[p].slot}
    BY <1>1, <2>2, <2>3 DEF SameSlots
  <2>5. ASSUME NEW q \in Operators \ {p}, BeforeBind(q)' PROVE op'[q].task # op'[p].task
    <3>1. CASE q = o
      BY <1>2, <2>1, <3>1
    <3>2. CASE q # o
      BY <1>1, <1>2, <1>3, <2>1, <2>5, <3>2 DEF Lone
    <3> QED BY <3>1, <3>2
  <2> QED BY <2>1, <2>4, <2>5
<1> QED BY <1>4, <1>5

\* A start that binds its card leaves the cards of the others alone.
LEMMA LoneBind ==
    ASSUME TypeInv, Lone, raced => raced', NEW o \in Operators, StartBind(o)
    PROVE  Lone'
<1> SUFFICES ASSUME ~raced', NEW p \in Operators, BeforeBind(p)'
             PROVE  /\ Exists' => mf'.card[op'[p].task].slot \in {None, op'[p].slot}
                    /\ \A q \in Operators \ {p} : BeforeBind(q)' => op'[q].task # op'[p].task
  BY DEF Lone
<1>1. BeforeBind(o) /\ (Goto(o, "launch") \/ Goto(o, "block"))
  BY DEF StartBind, At, BeforeBind
<1>2. /\ ~BeforeBind(o)'
      /\ \A q \in Operators : q # o => op'[q] = op[q]
  <2>1. PICK pc \in {"launch", "block"} : Goto(o, pc)
    BY <1>1
  <2>2. PICK r : Takes(o, r) /\ r.pc = pc
    BY <2>1, GotoRecord, StateNames
  <2> QED BY <2>1, <2>2, TakesOne DEF BeforeBind
<1>3. p # o /\ BeforeBind(p) /\ op'[p] = op[p]
  BY <1>2 DEF BeforeBind
<1>4. /\ Exists => mf.card[op[p].task].slot \in {None, op[p].slot}
      /\ \A q \in Operators \ {p} : BeforeBind(q) => op[q].task # op[p].task
  BY <1>3 DEF Lone
<1>5. op[p].task # op[o].task /\ op[p].task \in Tasks
  BY <1>1, <1>3, <1>4, StartingTyped, StateNames DEF BeforeBind
<1>6. Exists' => mf'.card[op[p].task].slot \in {None, op[p].slot}
  <2>1. CASE UNCHANGED mf
    BY <1>4, <2>1 DEF Exists
  <2>2. CASE ~UNCHANGED mf
    BY <1>4, <1>5, <2>2, BindWrites
  <2> QED BY <2>1, <2>2
<1>7. ASSUME NEW q \in Operators \ {p}, BeforeBind(q)' PROVE op'[q].task # op'[p].task
  <2>1. q # o /\ op'[q] = op[q]
    BY <1>2, <1>7
  <2> QED BY <1>3, <1>4, <1>7, <2>1 DEF BeforeBind
<1> QED BY <1>3, <1>6, <1>7

LEMMA LoneLaunch ==
    ASSUME TypeInv, Lone, raced => raced', NEW o \in Operators, Launch(o)
    PROVE  Lone'
<1>1. ASSUME NEW t \in Tasks, NEW launch \in Launches, TaskStart(o, t, launch) PROVE Lone'
  <2>1. Exists /\ t \in CardsOf(mf) /\ Sound(mf) /\ Begin(o, mf, t, launch)
    BY <1>1, ManifestSound DEF TaskStart, Has
  <2>2. PICK r : Takes(o, r) /\ r.task = t /\ mf.card[t].slot \in {None, r.slot}
    BY <2>1, BeginsFits
  <2>3. SameSlots(mf, mf)
    BY DEF SameSlots
  <2> QED BY <2>1, <2>2, <2>3, LoneBegin
<1>2. ASSUME NEW t \in Tasks, NEW w \in Members, NEW launch \in Launches,
             TaskDelegate(o, t, w, launch)
      PROVE  Lone'
  <2> DEFINE m == Delegated(t, w)
  <2>1. Exists /\ t \in CardsOf(mf) /\ Sound(mf) /\ Begin(o, m, t, launch)
    BY <1>2, ManifestSound DEF TaskDelegate, Has
  <2>2. Sound(m) /\ SameSlots(mf, m)
    BY <2>1, OwnerSound DEF Delegated
  <2>3. m.card[t].state = mf.card[t].state
    BY <2>1, CardsTyped DEF Delegated, Sound, Manifest, CardsOf, Card
  <2>4. t \in CardsOf(m)
    BY <2>1, <2>3 DEF CardsOf
  <2> HIDE DEF m
  <2>5. PICK r : Takes(o, r) /\ r.task = t /\ m.card[t].slot \in {None, r.slot}
    BY <2>1, <2>2, <2>4, BeginsFits
  <2> QED BY <2>1, <2>2, <2>5, LoneBegin
<1>3. ASSUME NEW t \in Tasks, NEW w \in Members, TaskHandOver(o, t, w) PROVE Lone'
  <2>1. Exists /\ t \in CardsOf(mf) /\ Sound(mf) /\ mf' = Delegated(t, w) /\ op' = op
    BY <1>3, ManifestSound DEF TaskHandOver, Has, Change, Save
  <2>2. SlotsStay
    BY <2>1, OwnerSound DEF Delegated, SlotsStay, SameSlots
  <2> QED BY <2>1, <2>2, HandsSame, LoneKept
<1> QED BY <1>1, <1>2, <1>3 DEF Launch

LEMMA LoneStart ==
    ASSUME TypeInv, Lone, raced => raced', NEW o \in Operators, StartStep(o),
           \A p \in Operators : ~StartBind(p)
    PROVE  Lone'
<1>1. HandsKept
  <2>1. CASE StartMark(o) \/ StartUseSlot(o)
    <3>1. BeforeBind(o) /\ (Finish(o) \/ \E pc \in {"slot", "bind", "block"} : Goto(o, pc))
      BY <2>1 DEF StartMark, StartUseSlot, At, BeforeBind
    <3> QED BY <3>1, FinishTakes, IdleEmpty, GotoRecord, HandsBy, StateNames
  <2>2. CASE StartAcquire(o)
    <3>1. BeforeBind(o) /\ op[o].slot = None
      BY <2>2 DEF StartAcquire, At, BeforeBind
    <3> QED BY <2>2, <3>1, AcquireTyped, GotoRecord, HandsBy, StateNames
  <2>3. CASE StartLaunch(o)
    <3>1. CASE Goto(o, "block")
      BY <3>1, GotoRecord, HandsBy, StateNames
    <3>2. CASE op' = [op EXCEPT ![o].sid = Len(sess) + 1,
                         ![o].pc = IF op[o].launch = "oneshot" THEN "wait" ELSE "settle"]
      <4>1. op'[o].pc \in {"wait", "settle"} /\ \A q \in Operators : q # o => op'[q] = op[q]
        BY <3>2 DEF TypeInv, Typed, Op
      <4> QED BY <4>1, HandsOff DEF BeforeBind
    <3> QED BY <2>3, <3>1, <3>2 DEF StartLaunch
  <2>4. CASE StartWait(o) \/ StartSettle(o) \/ RecoverBlock(o) \/ RecoverRelease(o)
    <3>1. Finish(o) \/ \E pc \in {"settle", "unslot"} : Goto(o, pc)
      BY <2>4 DEF StartWait, StartSettle, RecoverBlock, RecoverRelease
    <3> QED BY <3>1, FinishTakes, IdleEmpty, GotoRecord, HandsBy, StateNames
  <2> QED BY <2>1, <2>2, <2>3, <2>4 DEF StartStep
<1>2. CASE StartMark(o) \/ StartSettle(o) \/ RecoverBlock(o)
  <2>1. SlotsStay
    BY <1>2, MarkTyped, SettleTyped, BlockTyped DEF ManifestStep, Answered
  <2> QED BY <1>1, <2>1, LoneKept
<1>3. CASE UNCHANGED mf
  BY <1>1, <1>3, Untouched, LoneKept
<1> QED BY <1>2, <1>3 DEF StartStep, StartUseSlot, StartAcquire, StartLaunch, StartWait,
        RecoverRelease

LEMMA LoneDown ==
    ASSUME TypeInv, Lone, raced => raced', NEW o \in Operators, DownStep(o),
           \A p \in Operators : ~StartBind(p)
    PROVE  Lone'
<1>1. HandsKept
  <2>1. op[o] \in Op
    BY DEF TypeInv, Typed
  <2>2. CASE TeardownCancel(o)
    <3>1. \E r : Takes(o, r) /\ r.pc \in {"idle", "cancel", "collect"}
      BY <2>1, <2>2, IdleEmpty DEF TeardownCancel, At, Goto, Finish, Takes, Op
    <3> QED BY <3>1, HandsBy
  <2>3. CASE TeardownCollect(o)
    <3>1. op'[o].pc = "release" /\ \A q \in Operators : q # o => op'[q] = op[q]
      BY <2>3 DEF TeardownCollect, TypeInv, Typed, Op
    <3> QED BY <3>1, HandsOff DEF BeforeBind
  <2>4. CASE TeardownRelease(o)
    <3>1. \E r : Takes(o, r) /\ r.pc \in {"idle", "release", "reset"}
      BY <2>1, <2>4, IdleEmpty DEF TeardownRelease, At, Goto, Finish, Takes, Op
    <3> QED BY <3>1, HandsBy
  <2>5. CASE TeardownReset(o) \/ TeardownFails(o) \/ DeleteRemove(o)
    BY <2>5, DownEndsTyped, FinishTakes, IdleEmpty, HandsBy
  <2> QED BY <2>2, <2>3, <2>4, <2>5 DEF DownStep
<1>2. SlotsStay
  BY CancelTyped, ReleaseTyped, CollectTyped, DownEndsTyped, Untouched
  DEF DownStep, ManifestStep, Answered
<1> QED BY <1>1, <1>2, LoneKept

LEMMA LoneNext ==
    ASSUME TypeInv, Lone, raced => raced', [Next]_vars
    PROVE  Lone'
<1>1. CASE \E p \in Operators : StartBind(p)
  BY <1>1, LoneBind
<1>2. CASE \A p \in Operators : ~StartBind(p)
  <2>1. ManifestStep => SlotsStay
    BY <1>2 DEF ManifestStep, Answered
  <2>2. ASSUME NEW o \in Operators, RunTeam(o) PROVE Lone'
    <3>1. CASE Launch(o)
      BY <3>1, LoneLaunch
    <3>2. CASE TeardownPlan(o) \/ DeletePlan(o)
      BY <2>1, <3>2, TeardownPlanTyped, DeletePlanTyped, HandsBy, HandsSame, LoneKept
    <3>3. CASE Edit(o)
      BY <2>1, <3>3, HandsSame, LoneKept DEF Edit
    <3> QED
      BY <2>2, <3>1, <3>2, <3>3, MemberCommandsEdit, PlanCommandsEdit, TaskCommandsEdit,
         TeamCommandsEdit DEF RunTeam, TeamCommands
  <2>3. CASE \E o \in Operators : SlotCommands(o) \/ SessionCommands(o)
    BY <2>3, SlotCommandsTyped, SessionCommandsTyped, Untouched, HandsSame, LoneKept
  <2>4. CASE \E o \in Operators : Crash(o)
    BY <2>4, CrashTyped, Untouched, FinishTakes, IdleEmpty, HandsBy, LoneKept
  <2>5. CASE Reconcile
    BY <2>1, <2>5, ReconcileTyped, HandsSame, LoneKept
  <2>6. CASE World
    BY <2>6, WorldTyped, Untouched, HandsSame, LoneKept
  <2>7. CASE UNCHANGED vars
    BY <2>7, Untouched, HandsSame, LoneKept DEF vars
  <2> QED
    BY <1>2, <2>2, <2>3, <2>4, <2>5, <2>6, <2>7, LoneStart, LoneDown DEF Next
<1> QED BY <1>1, <1>2

\* An active slot is bound to a card, in the hands of a start that is still
\* between its acquisition and its binding or release, or answered for.
THEOREM ReachableAlways == Spec => [](Lone /\ (raced \/ Reachable))
<1>1. Init => Lone /\ (raced \/ Reachable)
  BY IdleEmpty DEF Init, Reachable, Lone, BeforeBind
<1>2. TypeInv /\ raced \in BOOLEAN /\ Lone /\ (raced \/ Reachable) /\ [Next]_vars
      => Lone' /\ (raced' \/ Reachable')
  BY RacedKept, LoneNext, ReachableNext
<1> QED BY <1>1, <1>2, TypeInvAlways, RacedAlways, PTL DEF Spec

\* As long as no card is started or bound in the middle of a start of the same
\* card, a start that acquires a slot (execute_team_task) binds it to its card,
\* releases it (recover_failed_start) or tells the operator its name, however its
\* steps interleave with other starts, reconciliations, teardowns and crashes.
THEOREM NoSlotLostAlways == Spec => []NoSlotLost
<1>1. raced \/ Reachable => NoSlotLost
  BY DEF Reachable, NoSlotLost, Grasped, Held
<1> QED BY <1>1, ReachableAlways, PTL

-----------------------------------------------------------------------------
(* Slots and sessions *)

\* A start adds a row to the sessions table.
Launched(o, status) ==
    /\ op[o].pc = "launch" /\ op[o].slot \in Slots
    /\ CanLaunch(op[o].slot, ReadOnly(op[o].owner))
    /\ Len(sess) < MaxSessions
    /\ sess' = NewSession(o, status)

\* What one step does to slots and sessions.
StoreStep ==
    \/ UNCHANGED <<slot, sess>>
    \/ UNCHANGED sess /\ \E s \in Slots : CanAcquire(s) /\ slot' = [slot EXCEPT ![s] = "active"]
    \/ UNCHANGED sess /\ \E s \in Slots : CanRelease(s) /\ slot' = [slot EXCEPT ![s] = "released"]
    \/ /\ UNCHANGED sess
       /\ \E s \in Slots : /\ slot[s] = "released" /\ LiveOn(s) = {}
                           /\ slot' = [slot EXCEPT ![s] = "absent"]
    \/ UNCHANGED slot /\ \E x \in DOMAIN sess, status \in SessionStatuses : Ends(x, status)
    \/ /\ UNCHANGED slot
       /\ \E o \in Operators, status \in {"prepared", "running", "failed"} : Launched(o, status)

\* Every step is one of those, or leaves slots and sessions alone.
LEMMA StoreSteps ==
    ASSUME TypeInv, [Next]_vars
    PROVE  StoreStep
<1>1. ManifestStep => StoreStep
  BY DEF ManifestStep, StoreStep
<1>2. ASSUME NEW o \in Operators, RunTeam(o) PROVE StoreStep
  <2>1. CASE Launch(o) \/ TeardownPlan(o) \/ DeletePlan(o)
    BY <1>1, <2>1, LaunchTyped, TeardownPlanTyped, DeletePlanTyped
  <2>2. CASE Edit(o)
    BY <1>1, <2>2 DEF Edit
  <2> QED
    BY <1>2, <2>1, <2>2, MemberCommandsEdit, PlanCommandsEdit, TaskCommandsEdit,
       TeamCommandsEdit DEF RunTeam, TeamCommands
<1>3. ASSUME NEW o \in Operators, SlotCommands(o) PROVE StoreStep
  BY <1>3, SlotCommandsTyped DEF StoreStep, SlotReleased
<1>4. ASSUME NEW o \in Operators, SessionCommands(o) PROVE StoreStep
  BY <1>4, SessionCommandsTyped DEF StoreStep
<1>5. ASSUME NEW o \in Operators, StartStep(o) PROVE StoreStep
  <2>1. CASE StartMark(o) \/ StartUseSlot(o) \/ StartBind(o) \/ StartWait(o) \/ StartSettle(o)
             \/ RecoverBlock(o)
    BY <1>1, <2>1, MarkTyped, UseSlotTyped, BindTyped, WaitTyped, SettleTyped, BlockTyped
  <2>2. CASE StartAcquire(o)
    BY <2>2, AcquireTyped DEF StoreStep
  <2>3. CASE RecoverRelease(o)
    BY <2>3, RecoverReleaseTyped DEF StoreStep, SlotReleased
  <2>4. CASE StartLaunch(o)
    <3>1. op[o].pc = "launch" /\ op[o].slot \in Slots /\ UNCHANGED slot
      BY <2>4, StartingTyped, StateNames DEF StartLaunch, At
    <3>2. \/ UNCHANGED sess
          \/ /\ CanLaunch(op[o].slot, ReadOnly(op[o].owner)) /\ Len(sess) < MaxSessions
             /\ \E status \in {"prepared", "running", "failed"} : sess' = NewSession(o, status)
      BY <2>4 DEF StartLaunch
    <3> QED BY <3>1, <3>2 DEF StoreStep, Launched
  <2> QED BY <1>5, <2>1, <2>2, <2>3, <2>4 DEF StartStep
<1>6. ASSUME NEW o \in Operators, DownStep(o) PROVE StoreStep
  <2>1. CASE TeardownCancel(o)
    <3>1. UNCHANGED slot
      BY <2>1, CancelTyped
    <3>2. ASSUME NEW x \in DOMAIN sess, CanCancelSession(x),
                 sess' = [sess EXCEPT ![x].status = "cancelled"]
          PROVE  Ends(x, "cancelled")
      BY <3>2, StatusNames DEF Ends, CanCancelSession
    <3> QED BY <2>1, <3>1, <3>2, CancelTyped, StatusNames DEF StoreStep
  <2>2. CASE TeardownCollect(o) \/ TeardownReset(o) \/ TeardownFails(o) \/ DeleteRemove(o)
    BY <1>1, <2>2, CollectTyped, DownEndsTyped
  <2>3. CASE TeardownRelease(o)
    BY <2>3, ReleaseTyped DEF StoreStep, SlotReleased
  <2> QED BY <1>6, <2>1, <2>2, <2>3 DEF DownStep
<1>7. ASSUME NEW o \in Operators, Crash(o) PROVE StoreStep
  BY <1>7, CrashTyped DEF StoreStep
<1>8. CASE Reconcile
  BY <1>1, <1>8, ReconcileTyped
<1>9. CASE World
  BY <1>9, WorldTyped DEF StoreStep
<1>10. CASE UNCHANGED vars
  BY <1>10 DEF StoreStep, vars
<1> QED BY <1>2, <1>3, <1>4, <1>5, <1>6, <1>7, <1>8, <1>9, <1>10 DEF Next

\* The end of a session leaves the others as they were.
LEMMA EndsLess ==
    ASSUME TypeInv, NEW x \in DOMAIN sess, NEW status \in SessionStatuses, Ends(x, status)
    PROVE  /\ DOMAIN sess' = DOMAIN sess
           /\ sess'[x] = [sess[x] EXCEPT !.status = status]
           /\ \A y \in DOMAIN sess : y # x => sess'[y] = sess[y]
           /\ \A s : On(s)' = On(s) /\ LiveOn(s)' \subseteq LiveOn(s) \ {x}
<1>1. /\ DOMAIN sess' = DOMAIN sess
      /\ \A y \in DOMAIN sess : sess'[y] = IF y = x THEN [sess[x] EXCEPT !.status = status]
                                           ELSE sess[y]
  BY SessionChanged DEF Ends
<1>2. sess[x] \in Session
  BY DEF TypeInv, Typed
<1>3. sess'[x].slot = sess[x].slot /\ sess'[x].status = status
  BY <1>1, <1>2 DEF Session
<1>4. \A y \in DOMAIN sess : y # x => sess'[y] = sess[y]
  BY <1>1
<1>5. ASSUME NEW s PROVE On(s)' = On(s)
  BY <1>1, <1>3, <1>4 DEF On
<1>6. ASSUME NEW s PROVE LiveOn(s)' \subseteq LiveOn(s) \ {x}
  <2>1. ASSUME NEW y \in LiveOn(s)' PROVE y \in LiveOn(s) \ {x}
    <3>1. y \in On(s) /\ sess'[y].status \notin Terminal /\ y \in DOMAIN sess
      BY <1>5, <2>1 DEF LiveOn, On
    <3>2. y # x
      BY <1>3, <3>1 DEF Ends
    <3> QED BY <1>4, <3>1, <3>2 DEF LiveOn
  <2> QED BY <2>1
<1> QED BY <1>1, <1>4, <1>5, <1>6

\* A new session is found on its slot only.
LEMMA LaunchedOn ==
    ASSUME TypeInv, NEW o \in Operators, NEW status \in {"prepared", "running", "failed"},
           Launched(o, status)
    PROVE  \A s : s # op[o].slot => LiveOn(s)' = LiveOn(s)
<1>0. /\ status \in SessionStatuses /\ op[o].pc = "launch" /\ Len(sess) < MaxSessions
      /\ sess' = NewSession(o, status)
  BY StatusNames DEF Launched
<1>a. /\ NewSession(o, status) \in Seq(Session)
      /\ Len(NewSession(o, status)) = Len(sess) + 1
      /\ NewSession(o, status)[Len(sess) + 1] =
            [slot |-> op[o].slot, status |-> status, launch |-> op[o].launch,
             ro |-> ReadOnly(op[o].owner), task |-> op[o].task]
      /\ \A x \in DOMAIN sess : NewSession(o, status)[x] = sess[x]
  BY <1>0, NewSessionTyped
<1>1. /\ sess' \in Seq(Session) /\ Len(sess') = Len(sess) + 1
      /\ sess'[Len(sess) + 1].slot = op[o].slot
      /\ \A x \in DOMAIN sess : sess'[x] = sess[x]
  BY <1>0, <1>a
<1>2. DOMAIN sess = 1 .. Len(sess) /\ Len(sess) \in Nat /\ DOMAIN sess' = 1 .. Len(sess) + 1
  BY <1>1, StoreKept
<1>3. DOMAIN sess' = DOMAIN sess \cup {Len(sess) + 1}
  BY <1>2
<1>4. ASSUME NEW s, s # op[o].slot PROVE On(s)' = On(s)
  BY <1>1, <1>3, <1>4 DEF On
<1>5. ASSUME NEW s, s # op[o].slot PROVE LiveOn(s)' = LiveOn(s)
  <2>1. \A x \in On(s) : sess'[x] = sess[x]
    BY <1>1 DEF On
  <2> QED BY <1>4, <1>5, <2>1 DEF LiveOn
<1> QED BY <1>5

LEMMA LiveSame == ASSUME UNCHANGED sess, NEW s PROVE LiveOn(s)' = LiveOn(s)
  BY DEF LiveOn, On

LEMMA QuietNext ==
    ASSUME TypeInv, Quiet, [Next]_vars
    PROVE  Quiet'
<1>0. StoreStep /\ slot \in [Slots -> SlotStatuses]
  BY StoreSteps, StoreKept
<1>1. ASSUME UNCHANGED sess,
             \A s \in Slots : slot'[s] # "active" => slot[s] # "active" \/ LiveOn(s) = {}
      PROVE  Quiet'
  BY <1>1, LiveSame DEF Quiet
<1>2. CASE UNCHANGED <<slot, sess>>
  BY <1>1, <1>2
<1>3. ASSUME UNCHANGED sess, NEW s \in Slots, NEW status,
             slot' = [slot EXCEPT ![s] = status], status = "active" \/ LiveOn(s) = {}
      PROVE  Quiet'
  BY <1>0, <1>1, <1>3
<1>4. ASSUME UNCHANGED slot, NEW x \in DOMAIN sess, NEW status \in SessionStatuses,
             Ends(x, status)
      PROVE  Quiet'
  BY <1>4, EndsLess DEF Quiet
<1>5. ASSUME UNCHANGED slot, NEW o \in Operators,
             NEW status \in {"prepared", "running", "failed"}, Launched(o, status)
      PROVE  Quiet'
  <2>1. slot[op[o].slot] = "active"
    BY <1>5 DEF Launched, CanLaunch
  <2> QED BY <1>5, <2>1, LaunchedOn DEF Quiet
<1> QED BY <1>0, <1>2, <1>3, <1>4, <1>5 DEF StoreStep, CanRelease

\* A session can be live only in an active slot: launches check the slot
\* (session.rs), and releases and deletes the sessions (slot.rs).
THEOREM QuietAlways == Spec => []Quiet
<1>1. Init => Quiet
  BY DEF Init, Quiet, LiveOn, On
<1> QED BY <1>1, TypeInvAlways, QuietNext, PTL DEF Spec

-----------------------------------------------------------------------------
(* What the commands promise their users *)

Rows == [x \in Sessions |-> Seen(x)]

\* The live sessions of SlotTables are those of Team.
LEMMA TablesLive ==
    ASSUME TypeInv, NEW s
    PROVE  Tables!LiveOn(s) = LiveOn(s)
<1>1. DOMAIN sess \subseteq Sessions
  BY StoreKept, MaxSessionsNatural DEF Sessions
<1>2. ASSUME NEW x \in DOMAIN sess PROVE sess[x].status \in SessionStatuses
  <2>1. sess[x] \in Session
    BY StoreKept
  <2> QED BY <2>1 DEF Session
<1>3. ASSUME NEW x \in Sessions
      PROVE  x \in Tables!LiveOn(s) <=> x \in LiveOn(s)
  <2>1. CASE x \in DOMAIN sess
    <3>1. Seen(x).status = sess[x].status /\ Seen(x).slot = sess[x].slot
      BY <2>1 DEF Seen
    <3> QED
      BY <1>2, <2>1, <3>1 DEF Tables!LiveOn, LiveOn, On, Tables!Live, SessionStatuses, Terminal
  <2>2. CASE x \notin DOMAIN sess
    <3>1. Seen(x).status = "absent"
      BY <2>2 DEF Seen
    <3> QED BY <2>2, <3>1 DEF Tables!LiveOn, LiveOn, On, Tables!Live
  <2> QED BY <2>1, <2>2
<1> QED BY <1>1, <1>3 DEF Tables!LiveOn, LiveOn, On

LEMMA RowsAre ==
    ASSUME TypeInv
    PROVE  /\ \A x \in DOMAIN sess : x \in Sessions
           /\ \A x \in DOMAIN sess :
                 Rows[x] = [slot |-> sess[x].slot, ro |-> sess[x].ro, status |-> sess[x].status]
           /\ \A x \in Sessions : x \notin DOMAIN sess => Rows[x] = [status |-> "absent"]
<1>1. \A x \in DOMAIN sess : x \in Sessions
  BY StoreKept, MaxSessionsNatural DEF Sessions
<1> QED BY <1>1 DEF Rows, Seen

\* Every step is a step of SlotTables or leaves its variables alone.
LEMMA TablesNext ==
    ASSUME TypeInv, Quiet, [Next]_vars
    PROVE  [Tables!Next]_(Tables!vars)
<1>0. StoreStep /\ slot \in [Slots -> SlotStatuses]
  BY StoreSteps, StoreKept
<1>a. UNCHANGED sess => Rows' = Rows
  BY DEF Rows, Seen
<1>1. CASE UNCHANGED <<slot, sess>>
  <2>1. UNCHANGED Tables!vars
    BY <1>1, <1>a DEF Tables!vars, Rows
  <2> QED BY <2>1
<1>2. ASSUME UNCHANGED sess, NEW s \in Slots, CanAcquire(s),
             slot' = [slot EXCEPT ![s] = "active"]
      PROVE  Tables!Next
  <2>1. slot[s] \in {"absent", "released"} /\ Tables!LiveOn(s) = {}
    BY <1>2, TablesLive DEF CanAcquire, Quiet, LiveOn
  <2>2. Tables!Acquire(s)
    BY <1>2, <1>a, <2>1 DEF Tables!Acquire, Tables!Free, Tables!ChangeSlot, Rows
  <2> QED BY <2>2 DEF Tables!Next
<1>3. ASSUME UNCHANGED sess, NEW s \in Slots, CanRelease(s),
             slot' = [slot EXCEPT ![s] = "released"]
      PROVE  Tables!Next
  <2>1. slot[s] # "absent" /\ Tables!LiveOn(s) = {}
    BY <1>3, TablesLive DEF CanRelease
  <2>2. Tables!Release(s)
    BY <1>3, <1>a, <2>1 DEF Tables!Release, Tables!Free, Tables!ChangeSlot, Rows
  <2> QED BY <2>2 DEF Tables!Next
<1>4. ASSUME UNCHANGED sess, NEW s \in Slots, slot[s] = "released", LiveOn(s) = {},
             slot' = [slot EXCEPT ![s] = "absent"]
      PROVE  Tables!Next
  <2>1. Tables!LiveOn(s) = {}
    BY <1>4, TablesLive
  <2>2. Tables!Delete(s)
    BY <1>4, <1>a, <2>1 DEF Tables!Delete, Tables!Free, Tables!ChangeSlot, Rows
  <2> QED BY <2>2 DEF Tables!Next
<1>5. ASSUME UNCHANGED slot, NEW x \in DOMAIN sess, NEW status \in SessionStatuses,
             Ends(x, status)
      PROVE  Tables!Next
  <2>1. /\ x \in Sessions /\ Rows \in [Sessions -> {Rows[y] : y \in Sessions}]
        /\ Rows[x] = [slot |-> sess[x].slot, ro |-> sess[x].ro, status |-> sess[x].status]
    BY RowsAre DEF Rows
  <2>2. /\ DOMAIN sess' = DOMAIN sess /\ sess[x] \in Session
        /\ sess'[x] = [sess[x] EXCEPT !.status = status]
        /\ \A y \in DOMAIN sess : y # x => sess'[y] = sess[y]
    BY <1>5, EndsLess, StoreKept
  <2>3. sess'[x].slot = sess[x].slot /\ sess'[x].ro = sess[x].ro /\ sess'[x].status = status
    BY <2>2 DEF Session
  <2>4. Seen(x)' = [Rows[x] EXCEPT !.status = status]
    BY <2>1, <2>2, <2>3 DEF Seen
  <2>5. \A y \in Sessions : y # x => Seen(y)' = Rows[y]
    BY <2>2 DEF Seen, Rows
  <2>6. Rows' = [Rows EXCEPT ![x] = [Rows[x] EXCEPT !.status = status]]
    BY <2>1, <2>4, <2>5 DEF Rows
  <2>7. Rows[x].status = sess[x].status /\ status \in Tables!Ended
    BY <1>5, <2>1 DEF Ends, Tables!Ended, Terminal
  <2>8. Tables!End(x)
    BY <1>5, <2>6, <2>7 DEF Tables!End, Tables!ChangeSession, Rows, Ends
  <2> QED BY <2>1, <2>8 DEF Tables!Next
<1>6. ASSUME UNCHANGED slot, NEW o \in Operators,
             NEW status \in {"prepared", "running", "failed"}, Launched(o, status)
      PROVE  Tables!Next
  <2>a. PICK x, s, ro : x = Len(sess) + 1 /\ s = op[o].slot /\ ro = ReadOnly(op[o].owner)
    OBVIOUS
  <2>0. /\ status \in SessionStatuses /\ op[o].pc = "launch" /\ Len(sess) < MaxSessions
        /\ sess' = NewSession(o, status) /\ s \in Slots /\ CanLaunch(s, ro)
    BY <1>6, <2>a, StatusNames DEF Launched
  <2>1. /\ sess' \in Seq(Session) /\ Len(sess') = Len(sess) + 1 /\ x \in Sessions
        /\ sess'[x] = [slot |-> s, status |-> status, launch |-> op[o].launch,
                       ro |-> ro, task |-> op[o].task]
        /\ \A y \in DOMAIN sess : sess'[y] = sess[y]
    BY <2>a, <2>0, NewSessionTyped
  <2>2. DOMAIN sess = 1 .. Len(sess) /\ Len(sess) \in Nat /\ DOMAIN sess' = 1 .. Len(sess) + 1
    BY <2>1, StoreKept
  <2>3. DOMAIN sess' = DOMAIN sess \cup {x} /\ x \notin DOMAIN sess
    BY <2>a, <2>2
  <2>4. Rows[x] = Tables!Absent /\ Rows \in [Sessions -> {Rows[y] : y \in Sessions}]
    BY <2>1, <2>3, RowsAre DEF Tables!Absent, Rows
  <2>5. Seen(x)' = Tables!Row(s, ro, status)
    BY <2>1, <2>3 DEF Seen, Tables!Row
  <2>6. \A y \in Sessions : y # x => Seen(y)' = Rows[y]
    BY <2>1, <2>3 DEF Seen, Rows
  <2>7. Rows' = [Rows EXCEPT ![x] = Tables!Row(s, ro, status)]
    BY <2>1, <2>4, <2>5, <2>6 DEF Rows
  <2>8. slot[s] = "active" /\ (ro \/ WritersOn(s) = {})
    BY <2>0 DEF CanLaunch
  <2>9. ASSUME ~ro PROVE \A y \in Tables!LiveOn(s) : Rows[y].ro
    <3>1. ASSUME NEW y \in LiveOn(s) PROVE sess[y].ro /\ y \in DOMAIN sess
      BY <2>8, <2>9, <3>1 DEF WritersOn, LiveOn, On
    <3>2. ASSUME NEW y \in LiveOn(s) PROVE Rows[y].ro
      <4>1. y \in DOMAIN sess
        BY DEF LiveOn, On
      <4>2. Rows[y] = [slot |-> sess[y].slot, ro |-> sess[y].ro, status |-> sess[y].status]
        BY <4>1, RowsAre
      <4>3. Rows[y].ro = sess[y].ro
        BY <4>2
      <4> QED BY <3>1, <4>3, Zenon
    <3>3. Tables!LiveOn(s) = LiveOn(s)
      BY TablesLive
    <3> QED BY <3>2, <3>3
  <2>10. ro \in BOOLEAN /\ status \in Tables!Live \cup {"failed"}
    BY <2>a DEF ReadOnly, Tables!Live
  <2>11. Tables!Start(x, s, ro)
    BY <1>6, <2>4, <2>7, <2>8, <2>9, <2>10 DEF Tables!Start, Tables!ChangeSession, Rows
  <2> QED BY <2>0, <2>1, <2>10, <2>11 DEF Tables!Next
<1> QED BY <1>0, <1>1, <1>2, <1>3, <1>4, <1>5, <1>6 DEF StoreStep

\* Starts, recoveries and teardowns use slots and sessions as module SlotTables
\* promises them: the table steps of Team are those that Workspace implements.
THEOREM UsesTablesAlways == Spec => UsesTables
<1>1. Init => Tables!Init
  BY DEF Init, Tables!Init, Seen, Tables!Absent
<1> QED BY <1>1, TypeInvAlways, QuietAlways, TablesNext, PTL DEF Spec, UsesTables, Tables!Spec

-----------------------------------------------------------------------------
(* A teardown leaves nothing behind *)

\* A command that costs something ends what is said of the teardowns under way.
LEMMA ClearedSpent ==
    ASSUME TypeInv, Cleared, spent < spent', spent' \in 0 .. Budget,
           op' = op \/ \E o \in Operators : \E r : Takes(o, r) /\ r.since = None
    PROVE  Cleared'
<1>1. ASSUME NEW o \in Operators
      PROVE  op'[o].since = None \/ (op'[o].since <= spent' /\ op'[o].since # spent')
  <2>1. CASE op'[o] = op[o]
    <3>1. op[o].since \in 0 .. Budget \cup {None} /\ spent \in 0 .. Budget
      BY DEF TypeInv, Typed, Op
    <3>2. op[o].since # None => op[o].since <= spent
      BY DEF Cleared
    <3> QED BY <2>1, <3>1, <3>2, PricesNatural
  <2>2. CASE op'[o].since = None
    BY <2>2
  <2> QED BY <2>1, <2>2, TakesOne
<1>2. None # spent'
  BY NoneIsApart, PricesNatural
<1> QED BY <1>1, <1>2 DEF Cleared, Clearing

\* An operator that is at work is alone as long as nobody gives a command.
LEMMA OthersClearing ==
    ASSUME TypeInv, Cleared, NEW p \in Operators, ~Idle(p), spent' = spent,
           NEW r, Takes(p, r), r.since \in {op[p].since, None}, Clearing(p)'
    PROVE  Cleared'
<1>1. op'[p] = r /\ \A o \in Operators : o # p => op'[o] = op[o]
  BY TakesOne
<1>2. ASSUME NEW o \in Operators, o # p
      PROVE  /\ op'[o].since # None => op'[o].since <= spent'
             /\ Clearing(o)'
  <2>1. op'[o] = op[o] /\ (op[o].since # None => op[o].since <= spent) /\ Clearing(o)
    BY <1>1, <1>2 DEF Cleared
  <2>2. ~(op[o].since = spent /\ op[o].pc \in DownSteps)
    BY <1>2, <2>1 DEF Clearing
  <2> QED BY <2>1, <2>2 DEF Clearing
<1>3. op'[p].since # None => op'[p].since <= spent'
  BY <1>1 DEF Cleared
<1> QED BY <1>2, <1>3 DEF Cleared

LEMMA BoundLess ==
    ASSUME NEW m, NEW n, BoundSlots(n) \subseteq BoundSlots(m)
    PROVE  LiveOnBound(n) \subseteq LiveOnBound(m)
  BY DEF LiveOnBound

\* Nobody has done anything but agents and snapshots.
LEMMA ClearedMeanwhile ==
    ASSUME TypeInv, Cleared, UNCHANGED <<op, spent, slot>>, Exists => Exists',
           Exists => BoundSlots(mf') \subseteq BoundSlots(mf),
           \A s : LiveOn(s)' \subseteq LiveOn(s)
    PROVE  Cleared'
<1>1. ASSUME NEW o \in Operators PROVE Clearing(o)'
  <2>1. SUFFICES ASSUME op[o].since = spent, op[o].pc \in DownSteps
                 PROVE  /\ Exists' /\ \A p \in Operators \ {o} : Idle(p)'
                        /\ LiveOnBound(mf)' \subseteq IF op[o].pc = "cancel" THEN op[o].todo
                                                      ELSE {}
                        /\ op[o].pc \in {"release", "reset"} =>
                              \A s \in BoundSlots(mf') :
                                 Gone(s) \/ (op[o].pc = "release" /\ s \in op[o].todo)
    BY DEF Clearing, Gone
  <2>2. /\ Exists /\ \A p \in Operators \ {o} : Idle(p)
        /\ LiveOnBound(mf) \subseteq IF op[o].pc = "cancel" THEN op[o].todo ELSE {}
        /\ op[o].pc \in {"release", "reset"} =>
              \A s \in BoundSlots(mf) : Gone(s) \/ (op[o].pc = "release" /\ s \in op[o].todo)
    BY <2>1 DEF Cleared, Clearing
  <2>3. BoundSlots(mf') \subseteq BoundSlots(mf)
    BY <2>2
  <2>4. LiveOnBound(mf)' \subseteq LiveOnBound(mf)
    BY <2>3 DEF LiveOnBound
  <2>5. Exists' /\ \A p \in Operators \ {o} : Idle(p)'
    BY <2>2 DEF Idle
  <2> QED BY <2>2, <2>3, <2>4, <2>5
<1> QED BY <1>1 DEF Cleared

\* A start never gets into the middle of a teardown.
LEMMA SinceKept ==
    ASSUME TypeInv, NEW o \in Operators, StartStep(o)
    PROVE  /\ ~Idle(o) /\ spent' = spent
           /\ \E r : /\ Takes(o, r) /\ r.since \in {op[o].since, None} /\ r.pc \notin DownSteps
<1>0. op[o] \in Op /\ op[o].pc \in StartSteps
  BY StateNames, ZenonT(60)
  DEF StartStep, StartMark, StartUseSlot, StartAcquire, StartBind, StartLaunch,
     StartWait, StartSettle, RecoverBlock, RecoverRelease, At, TypeInv, Typed
<1>1. ~Idle(o) /\ spent' = spent
  BY <1>0, StateNames DEF StartStep, StartMark, StartUseSlot, StartAcquire, StartBind,
     StartLaunch, StartWait, StartSettle, RecoverBlock, RecoverRelease, Idle
<1>2. StartSteps \cap DownSteps = {} /\ StartSteps \subseteq Steps
  BY DEF StartSteps, DownSteps, Steps
<1>3. ASSUME NEW pc \in StartSteps, Goto(o, pc)
      PROVE  \E r : Takes(o, r) /\ r.since \in {op[o].since, None} /\ r.pc \notin DownSteps
  BY <1>2, <1>3, GotoRecord
<1>4. ASSUME Finish(o)
      PROVE  \E r : Takes(o, r) /\ r.since \in {op[o].since, None} /\ r.pc \notin DownSteps
  BY <1>4, FinishTakes, IdleEmpty DEF DownSteps
<1>5. ASSUME NEW s \in Slots,
             op' = [op EXCEPT ![o].slot = s, ![o].acquired = TRUE, ![o].pc = "bind"]
      PROVE  \E r : Takes(o, r) /\ r.since \in {op[o].since, None} /\ r.pc \notin DownSteps
  <2>1. PICK r : r = [op[o] EXCEPT !.slot = s, !.acquired = TRUE, !.pc = "bind"]
    OBVIOUS
  <2>2. Takes(o, r)
    BY <1>5, <2>1 DEF Takes, TypeInv, Typed
  <2>3. r.since = op[o].since /\ r.pc = "bind"
    BY <1>0, <2>1 DEF Op
  <2> QED BY <2>2, <2>3 DEF DownSteps
<1>6. ASSUME NEW n, NEW pc \in {"wait", "settle"},
             op' = [op EXCEPT ![o].sid = n, ![o].pc = pc]
      PROVE  \E r : Takes(o, r) /\ r.since \in {op[o].since, None} /\ r.pc \notin DownSteps
  <2>1. PICK r : r = [op[o] EXCEPT !.sid = n, !.pc = pc]
    OBVIOUS
  <2>2. Takes(o, r)
    BY <1>6, <2>1 DEF Takes, TypeInv, Typed
  <2>3. r.since = op[o].since /\ r.pc = pc
    BY <1>0, <2>1 DEF Op
  <2> QED BY <2>2, <2>3 DEF DownSteps
<1>7. CASE StartMark(o) \/ StartUseSlot(o) \/ StartBind(o) \/ StartWait(o) \/ StartSettle(o)
           \/ RecoverBlock(o) \/ RecoverRelease(o)
  <2>1. Finish(o) \/ \E pc \in StartSteps : Goto(o, pc)
    BY <1>7, MarkTyped, UseSlotTyped, BindTyped, WaitTyped, SettleTyped, BlockTyped,
       RecoverReleaseTyped, StateNames
  <2> QED BY <1>1, <1>3, <1>4, <2>1
<1>8. CASE StartAcquire(o)
  <2>1. \/ Goto(o, "block")
        \/ \E s \in Slots :
              op' = [op EXCEPT ![o].slot = s, ![o].acquired = TRUE, ![o].pc = "bind"]
    BY <1>8 DEF StartAcquire
  <2> QED BY <1>1, <1>3, <1>5, <2>1, StateNames, ZenonT(60)
<1>9. CASE StartLaunch(o)
  <2>1. \/ Goto(o, "block")
        \/ op' = [op EXCEPT ![o].sid = Len(sess) + 1,
                            ![o].pc = IF op[o].launch = "oneshot" THEN "wait" ELSE "settle"]
    BY <1>9 DEF StartLaunch
  <2>2. (IF op[o].launch = "oneshot" THEN "wait" ELSE "settle") \in {"wait", "settle"}
    OBVIOUS
  <2> QED BY <1>1, <1>3, <1>6, <2>1, <2>2, StateNames
<1> QED BY <1>7, <1>8, <1>9 DEF StartStep

\* The steps of a teardown, of the operator that is alone at it.
LEMMA ClearedDown ==
    ASSUME TypeInv, Cleared, NEW o \in Operators, DownStep(o)
    PROVE  Cleared'
<1>0. op[o] \in Op /\ op[o].pc \in DownSteps \cup {"remove"} /\ spent' = spent
  BY DEF DownStep, TeardownCancel, TeardownCollect, TeardownRelease, TeardownReset,
         TeardownFails, DeleteRemove, At, DownSteps, TypeInv, Typed
<1>1. ~Idle(o)
  BY <1>0 DEF Idle, DownSteps
<1>2. CASE Finish(o)
  <2>1. Takes(o, IdleOp) /\ IdleOp.since \in {op[o].since, None} /\ op'[o].pc \notin DownSteps
    BY <1>2, FinishTakes, TakesOne, IdleEmpty DEF DownSteps
  <2> QED BY <1>0, <1>1, <2>1, OthersClearing DEF Clearing
<1>3. op[o].since = spent /\ op[o].pc \in DownSteps =>
         /\ Exists /\ \A p \in Operators \ {o} : Idle(p)
         /\ LiveOnBound(mf) \subseteq IF op[o].pc = "cancel" THEN op[o].todo ELSE {}
         /\ op[o].pc \in {"release", "reset"} =>
               \A s \in BoundSlots(mf) : Gone(s) \/ (op[o].pc = "release" /\ s \in op[o].todo)
  BY DEF Cleared, Clearing
<1>4. ASSUME NEW r, Takes(o, r), r.since = op[o].since, Exists => Exists',
             op[o].since = spent /\ Exists =>
                /\ LiveOnBound(mf)' \subseteq IF r.pc = "cancel" THEN r.todo ELSE {}
                /\ r.pc \in {"release", "reset"} =>
                      \A s \in BoundSlots(mf') :
                         Gone(s)' \/ (r.pc = "release" /\ s \in r.todo),
             op[o].pc \in DownSteps
      PROVE  Cleared'
  <2>1. op'[o] = r /\ \A p \in Operators : p # o => op'[p] = op[p]
    BY <1>4, TakesOne
  <2>2. op[o].since = spent => \A p \in Operators \ {o} : Idle(p)'
    BY <1>3, <1>4, <2>1 DEF Idle
  <2>3. Clearing(o)'
    BY <1>0, <1>3, <1>4, <2>1, <2>2 DEF Clearing
  <2> QED BY <1>0, <1>1, <1>4, <2>3, OthersClearing
<1>5. CASE TeardownCancel(o)
  <2>1. UNCHANGED <<mf, slot>> /\ op[o].pc = "cancel" /\ op[o].pc \in DownSteps
        /\ (Exists => Exists')
    BY <1>5, CancelTyped DEF TeardownCancel, At, DownSteps, Exists
  <2>2. CASE op[o].todo = {} /\ Goto(o, "collect") /\ UNCHANGED sess
    <3>1. PICK r : Takes(o, r) /\ r.pc = "collect" /\ r.since = op[o].since
      BY <2>2, GotoRecord DEF Steps, DownSteps
    <3>2. LiveOnBound(mf)' = LiveOnBound(mf)
      BY <2>1, <2>2 DEF LiveOnBound, LiveOn, On
    <3> QED BY <1>3, <1>4, <2>1, <2>2, <3>1, <3>2
  <2>3. ASSUME NEW x \in op[o].todo, x \in DOMAIN sess, CanCancelSession(x),
               sess' = [sess EXCEPT ![x].status = "cancelled"],
               Takes(o, [op[o] EXCEPT !.todo = @ \ {x}])
        PROVE  Cleared'
    <3>1. PICK r : r = [op[o] EXCEPT !.todo = @ \ {x}]
      OBVIOUS
    <3>2. r.pc = "cancel" /\ r.since = op[o].since /\ r.todo = op[o].todo \ {x}
      BY <1>0, <2>1, <3>1 DEF Op
    <3>3. Ends(x, "cancelled")
      BY <2>3, StatusNames DEF Ends, CanCancelSession
    <3>4. LiveOnBound(mf)' \subseteq LiveOnBound(mf) \ {x}
      BY <2>1, <2>3, <3>3, EndsLess, StatusNames DEF LiveOnBound
    <3> QED BY <1>3, <1>4, <2>1, <2>3, <3>1, <3>2, <3>4
  <2> QED BY <1>2, <1>5, <2>2, <2>3, CancelTyped
<1>6. CASE TeardownCollect(o)
  <2>1. /\ ManifestStep /\ Exists /\ mf' \in Outcomes(mf)
        /\ Takes(o, [op[o] EXCEPT !.pc = "release", !.todo = BoundSlots(mf')])
        /\ op[o].pc = "collect"
    BY <1>6, CollectTyped DEF TeardownCollect, At
  <2>2. PICK todo, r : /\ todo = BoundSlots(mf')
                       /\ r = [op[o] EXCEPT !.pc = "release", !.todo = todo]
    OBVIOUS
  <2>3. r.pc = "release" /\ r.since = op[o].since /\ r.todo = BoundSlots(mf')
    BY <1>0, <2>2 DEF Op
  <2>4. BoundSlots(mf') \subseteq BoundSlots(mf) /\ Exists'
    BY <2>1, TypedStore, ManifestSound, OutcomeSound, SoundIsTeam DEF Exists
  <2>5. LiveOnBound(mf)' = LiveOnBound(mf') /\ LiveOnBound(mf') \subseteq LiveOnBound(mf)
    BY <2>1, <2>4, BoundLess DEF ManifestStep, LiveOnBound, LiveOn, On
  <2> QED BY <1>3, <1>4, <2>1, <2>2, <2>3, <2>4, <2>5 DEF DownSteps
<1>7. CASE TeardownRelease(o)
  <2>1. /\ UNCHANGED <<mf, sess>> /\ op[o].pc = "release" /\ op[o].pc \in DownSteps
        /\ (Exists => Exists') /\ LiveOnBound(mf)' = LiveOnBound(mf)
    BY <1>7, ReleaseTyped DEF TeardownRelease, At, DownSteps, Exists, LiveOnBound, LiveOn, On
  <2>2. CASE op[o].todo = {} /\ Goto(o, "reset") /\ UNCHANGED <<slot, left>>
    <3>1. PICK r : Takes(o, r) /\ r.pc = "reset" /\ r.since = op[o].since
      BY <2>2, GotoRecord DEF Steps, DownSteps
    <3> QED BY <1>3, <1>4, <2>1, <2>2, <3>1 DEF Gone
  <2>3. ASSUME NEW s \in op[o].todo, s \in Slots,
               \/ Gone(s) /\ UNCHANGED <<slot, left>>
               \/ CanRelease(s) /\ SlotReleased(s),
               Takes(o, [op[o] EXCEPT !.todo = @ \ {s}])
        PROVE  Cleared'
    <3>1. PICK r : r = [op[o] EXCEPT !.todo = @ \ {s}]
      OBVIOUS
    <3>2. r.pc = "release" /\ r.since = op[o].since /\ r.todo = op[o].todo \ {s}
      BY <1>0, <2>1, <3>1 DEF Op
    <3>3. Gone(s)' /\ \A u \in Slots : u # s => slot'[u] = slot[u]
      BY <2>3, StoreKept DEF SlotReleased, Gone
    <3>4. Exists => BoundSlots(mf) \subseteq Slots
      BY ManifestSound, BoundSlotsTyped
    <3> QED BY <1>3, <1>4, <2>1, <2>3, <3>1, <3>2, <3>3, <3>4 DEF Gone
  <2> QED BY <1>2, <1>7, <2>2, <2>3, ReleaseTyped
<1>8. CASE TeardownReset(o) \/ TeardownFails(o) \/ DeleteRemove(o)
  BY <1>2, <1>8, DownEndsTyped
<1> QED BY <1>5, <1>6, <1>7, <1>8 DEF DownStep

LEMMA ClearedNext ==
    ASSUME TypeInv, Cleared, [Next]_vars
    PROVE  Cleared'
<1>1. ASSUME NEW o \in Operators, RunTeam(o) PROVE Cleared'
  <2>1. CASE Launch(o) \/ DeletePlan(o)
    BY <2>1, LaunchTyped, DeletePlanTyped, ClearedSpent DEF Charged
  <2>2. CASE Edit(o)
    BY <2>2, ClearedSpent DEF Edit, Charged
  <2>3. CASE TeardownPlan(o)
    <3>1. /\ ManifestStep /\ Charged(o)
          /\ \/ op' = op
             \/ \E r : /\ Takes(o, r) /\ WorkFits(r) /\ r.pc = "cancel"
                       /\ r.todo = LiveOnBound(mf')
                       /\ r.since \in {None, spent'}
                       /\ r.since = spent' => \A p \in Operators \ {o} : Idle(p)
      BY <2>3, TeardownPlanTyped
    <3>2. CASE op' = op
      BY <3>1, <3>2, ClearedSpent DEF Charged
    <3>3. ASSUME NEW r, Takes(o, r), r.since = None PROVE Cleared'
      BY <3>1, <3>3, ClearedSpent DEF Charged
    <3>4. ASSUME NEW r, Takes(o, r), r.pc = "cancel", r.todo = LiveOnBound(mf'),
                 r.since = spent', \A p \in Operators \ {o} : Idle(p)
          PROVE  Cleared'
      <4>1. op'[o] = r /\ \A p \in Operators : p # o => op'[p] = op[p]
        BY <3>4, TakesOne
      <4>2. Exists'
        BY <2>3, OutcomeSound, TypedStore, ManifestSound, SoundIsTeam
           DEF TeardownPlan, Exists, Save
      <4>3. LiveOnBound(mf)' = LiveOnBound(mf')
        BY <3>1 DEF ManifestStep, LiveOnBound, LiveOn, On
      <4>4. Clearing(o)'
        BY <3>4, <4>1, <4>2, <4>3 DEF Clearing, Idle
      <4>5. ASSUME NEW p \in Operators, p # o
            PROVE  op'[p].since = None /\ Clearing(p)'
        <5>1. op'[p] = IdleOp
          BY <3>4, <4>1, <4>5, IdleIs
        <5> QED BY <5>1, IdleEmpty DEF Clearing, DownSteps
      <4>6. spent' <= spent'
        BY <3>1, PricesNatural DEF Charged
      <4> QED BY <3>4, <4>1, <4>4, <4>5, <4>6 DEF Cleared
    <3> QED BY <3>1, <3>2, <3>3, <3>4
  <2> QED
    BY <1>1, <2>1, <2>2, <2>3, MemberCommandsEdit, PlanCommandsEdit, TaskCommandsEdit,
       TeamCommandsEdit DEF RunTeam, TeamCommands
<1>2. ASSUME NEW o \in Operators, SlotCommands(o) \/ SessionCommands(o) PROVE Cleared'
  BY <1>2, SlotCommandsTyped, SessionCommandsTyped, ClearedSpent DEF Charged
<1>3. ASSUME NEW o \in Operators, StartStep(o) PROVE Cleared'
  <2>1. PICK r : Takes(o, r) /\ r.since \in {op[o].since, None} /\ r.pc \notin DownSteps
    BY <1>3, SinceKept
  <2>2. Clearing(o)'
    BY <2>1, TakesOne DEF Clearing
  <2> QED BY <1>3, <2>1, <2>2, SinceKept, OthersClearing
<1>4. ASSUME NEW o \in Operators, DownStep(o) PROVE Cleared'
  BY <1>4, ClearedDown
<1>5. ASSUME NEW o \in Operators, Crash(o) PROVE Cleared'
  <2>1. spent' \in 0 .. Budget
    BY <1>5, CrashTyped, StoreKept DEF TypeInv, Typed
  <2> QED BY <1>5, <2>1, CrashTyped, FinishTakes, IdleEmpty, ClearedSpent
<1>6. CASE Reconcile
  <2>1. BoundSlots(mf') \subseteq BoundSlots(mf) /\ Exists'
    BY <1>6, ReconcileTyped, TypedStore, ManifestSound, OutcomeSound, SoundIsTeam DEF Exists
  <2> QED BY <1>6, <2>1, LiveSame, ClearedMeanwhile DEF Reconcile
<1>7. CASE World
  <2>1. UNCHANGED <<mf, slot, op, spent>> /\ (Exists => Exists')
    BY <1>7, WorldTyped DEF Exists
  <2>2. \A s : LiveOn(s)' \subseteq LiveOn(s)
    BY <1>7, WorldTyped, LiveSame, EndsLess
  <2> QED BY <2>1, <2>2, ClearedMeanwhile
<1>8. CASE UNCHANGED vars
  <2>1. UNCHANGED <<mf, slot, op, spent, sess>> /\ (Exists => Exists')
    BY <1>8 DEF vars, Exists
  <2> QED BY <2>1, LiveSame, ClearedMeanwhile
<1> QED BY <1>1, <1>2, <1>3, <1>4, <1>5, <1>6, <1>7, <1>8 DEF Next

\* The inductive invariant: well-formed states, live sessions in active slots
\* only, every active slot within reach, and every teardown that nobody has
\* disturbed as far as it says.
THEOREM IInvAlways == Spec => []IInv
<1>1. Init => Cleared
  BY IdleEmpty DEF Init, Cleared, Clearing, DownSteps
<1>2. Spec => []Cleared
  BY <1>1, TypeInvAlways, ClearedNext, PTL DEF Spec
<1>3. TypeInv /\ Quiet /\ Lone /\ (raced \/ Reachable) /\ Cleared => IInv
  BY DEF IInv
<1> QED BY <1>2, <1>3, TypeInvAlways, QuietAlways, ReachableAlways, PTL

\* A teardown nobody interferes with (teardown_team of team_ops.rs) resets the
\* manifest only when no slot the team was bound to is active and no session is
\* alive in one, although agents end and snapshots reconcile meanwhile.
THEOREM TeardownCleanAlways == Spec => TeardownClean
<1> DEFINE Step == \A o \in Operators :
          (At(o, "reset") /\ op[o].since = spent /\ op'[o].pc = "idle" /\ mf' # mf) =>
          /\ \A s \in BoundSlots(mf) : Gone(s)
          /\ LiveOnBound(mf) = {}
<1>1. IInv => Step
  BY DEF IInv, Cleared, Clearing, At, DownSteps
<1>2. Spec => [][Step]_vars
  BY <1>1, IInvAlways, PTL
<1> QED BY <1>2 DEF TeardownClean

-----------------------------------------------------------------------------
(* Operators decide *)

\* What changes the manifest without costing an operator anything.
LEMMA OnlyReconciles ==
    ASSUME TypeInv, [Next]_vars, spent' = spent, op' = op
    PROVE  mf' = mf \/ Reconcile
<1>1. ASSUME NEW o \in Operators, Charged(o) PROVE FALSE
  <2>1. spent \in 0 .. Budget /\ spent < spent'
    BY <1>1, StoreKept DEF Charged
  <2> QED BY <2>1, PricesNatural
<1>2. ASSUME NEW o \in Operators, NEW pc \in Steps, Goto(o, pc) PROVE op[o].pc = pc
  BY <1>2, GotoRecord, TakesOne
<1>3. ASSUME NEW o \in Operators, Finish(o) PROVE op[o].pc = "idle"
  BY <1>3, FinishTakes, TakesOne, IdleEmpty
<1>4. ASSUME NEW o \in Operators, RunTeam(o) PROVE FALSE
  BY <1>1, <1>4, MemberCommandsEdit, PlanCommandsEdit, TaskCommandsEdit, TeamCommandsEdit,
     LaunchTyped, TeardownPlanTyped, DeletePlanTyped DEF RunTeam, TeamCommands, Edit
<1>5. ASSUME NEW o \in Operators, SlotCommands(o) \/ SessionCommands(o) PROVE FALSE
  BY <1>1, <1>5, SlotCommandsTyped, SessionCommandsTyped
<1>6. ASSUME NEW o \in Operators, StartStep(o) PROVE mf' = mf
  <2>1. CASE StartUseSlot(o) \/ StartAcquire(o) \/ StartLaunch(o) \/ StartWait(o)
             \/ RecoverRelease(o)
    BY <2>1 DEF StartUseSlot, StartAcquire, StartLaunch, StartWait, RecoverRelease
  <2>2. CASE StartMark(o)
    <3>1. (Goto(o, "slot") \/ Finish(o)) /\ op[o].pc = "mark"
      BY <2>2, MarkTyped DEF StartMark, At
    <3> QED BY <1>2, <1>3, <3>1, StateNames
  <2>3. CASE StartBind(o)
    <3>1. (Goto(o, "launch") \/ Goto(o, "block")) /\ op[o].pc = "bind"
      BY <2>3, BindTyped DEF StartBind, At
    <3> QED BY <1>2, <1>3, <3>1, StateNames
  <2>4. CASE StartSettle(o) \/ RecoverBlock(o)
    <3>1. Finish(o) \/ Goto(o, "unslot")
      BY <2>4, SettleTyped, BlockTyped
    <3>2. op[o].pc \in {"settle", "block"}
      BY <2>4 DEF StartSettle, RecoverBlock, At
    <3> QED BY <1>2, <1>3, <3>1, <3>2, StateNames
  <2> QED BY <1>6, <2>1, <2>2, <2>3, <2>4, SMTT(60) DEF StartStep
<1>7. ASSUME NEW o \in Operators, DownStep(o) PROVE mf' = mf
  <2>1. CASE TeardownCancel(o) \/ TeardownRelease(o)
    BY <2>1 DEF TeardownCancel, TeardownRelease
  <2>2. CASE TeardownCollect(o)
    <3>1. /\ Takes(o, [op[o] EXCEPT !.pc = "release", !.todo = BoundSlots(mf')])
          /\ op[o].pc = "collect" /\ op[o] \in Op
      BY <2>2, CollectTyped DEF TeardownCollect, At, TypeInv, Typed
    <3>2. PICK todo, r : /\ todo = BoundSlots(mf')
                         /\ r = [op[o] EXCEPT !.pc = "release", !.todo = todo]
      OBVIOUS
    <3>3. r.pc = "release" /\ Takes(o, r)
      BY <3>1, <3>2 DEF Op
    <3>4. op'[o].pc = "release"
      BY <3>3, TakesOne
    <3> QED BY <3>1, <3>4
  <2>3. CASE TeardownReset(o) \/ TeardownFails(o) \/ DeleteRemove(o)
    <3>1. Finish(o) /\ op[o].pc # "idle"
      BY <2>3, DownEndsTyped DEF TeardownReset, TeardownFails, DeleteRemove, At
    <3> QED BY <1>3, <3>1
  <2> QED BY <1>7, <2>1, <2>2, <2>3 DEF DownStep
<1>8. ASSUME NEW o \in Operators, Crash(o) PROVE FALSE
  <2>1. spent \in 0 .. Budget /\ spent < spent'
    BY <1>8, StoreKept, CrashTyped
  <2> QED BY <2>1, PricesNatural
<1>9. World => mf' = mf
  BY WorldTyped
<1> QED BY <1>4, <1>5, <1>6, <1>7, <1>8, <1>9 DEF Next, vars

Decides ==
    (spent' = spent /\ op' = op /\ Exists) =>
          \A t \in CardsOf(mf) :
             mf'.card[t].state # mf.card[t].state =>
                /\ mf'.card[t].state \notin Closed \cup {"todo"}
                /\ mf.card[t].state \notin Retired
                /\ ~(mf.card[t].state = "done" /\ mf'.card[t].state = "review")
                /\ mf.status # "archived"

LEMMA ReconciliationDecides ==
    ASSUME TypeInv, [Next]_vars
    PROVE  Decides
<1> SUFFICES ASSUME spent' = spent, op' = op, Exists, NEW t \in CardsOf(mf),
                    mf'.card[t].state # mf.card[t].state
             PROVE  /\ mf'.card[t].state \notin Closed \cup {"todo"}
                    /\ mf.card[t].state \notin Retired
                    /\ ~(mf.card[t].state = "done" /\ mf'.card[t].state = "review")
                    /\ mf.status # "archived"
  BY DEF Decides
<1>1. Reconcile /\ Sound(mf) /\ StoreTyped
  BY OnlyReconciles, ManifestSound, TypedStore
<1>2. PICK bad \in Failing(mf) : mf' = AfterReconcile(mf, bad)
  BY <1>1 DEF Reconcile, Outcomes, Save
<1> DEFINE n == Reconciled(mf, bad)
<1>3. mf' = Refreshed(n) /\ mf.status # "archived"
  BY <1>2 DEF AfterReconcile
<1>4. n.card = CardsAfter(mf, bad) /\ Sound(n)
  <2>1. n.card = CardsAfter(mf, bad)
    BY <1>1, ReconciledFields, ZenonT(60)
  <2>2. Sound(n)
    BY <1>1, ReconciledSound, Zenon
  <2> QED
    BY <2>1, <2>2
<1> HIDE DEF n
<1>5. mf'.card = n.card
  BY <1>3, <1>4 DEF Refreshed, Sound, Manifest
<1>6. t \in Tasks /\ mf'.card[t] = ReconciledCard(mf.card[t], t, bad)
  BY <1>4, <1>5 DEF CardsAfter, CardsOf
<1>7. mf.card[t] \in Card /\ (mf.card[t].state = "absent" => mf.card[t].slot = None)
  BY <1>1, <1>6, CardsTyped DEF Sound
<1>8. /\ mf'.card[t].state \in {"in_progress", "blocked", "review"}
      /\ mf.card[t].state \notin Retired
      /\ ~(mf.card[t].state = "done" /\ mf'.card[t].state = "review")
  BY <1>1, <1>6, <1>7, ReconciledCardFits
<1> QED BY <1>3, <1>8 DEF Closed, Retired

\* reconcile.rs never accepts, retires or puts back a card, never brings a retired
\* one back or asks for a second review of an accepted one, and leaves an
\* archived team alone; every other change of a card is a command's.
THEOREM OnlyOperatorsDecideAlways == Spec => OnlyOperatorsDecide
<1>1. Spec => [][Decides]_vars
  BY TypeInvAlways, ReconciliationDecides, PTL DEF Spec
<1> QED BY <1>1 DEF Decides, OnlyOperatorsDecide

-----------------------------------------------------------------------------
(* A second reconciliation *)

StaleCard(c) ==
    /\ c.state = "in_progress" /\ c.slot # None
    /\ RunningOn(c.slot) = {} /\ EndedOn(c.slot) # {}

LEMMA UnboundSettles ==
    ASSUME NEW c \in Card
    PROVE  /\ Unbound(c) \in Card /\ Unbound(c).state = c.state
           /\ Unbound(c).slot = None \/ Unbound(c) = c
  BY DEF Unbound, Card

\* A reconciled card is reconciled: the second time it rests on the same session
\* and the same outcome of its verification.
LEMMA CardSettles ==
    ASSUME StoreTyped, NEW c \in Card, NEW t, NEW bad, NEW more, NEW d,
           d = ReconciledCard(c, t, bad),
           d.slot # None => (t \in bad <=> t \in more)
    PROVE  ReconciledCard(d, t, more) = d /\ ~StaleCard(d)
<1>0. {"in_progress", "blocked", "review", "done"} \subseteq CardStates
  BY StateNames
<1>a. ASSUME d.slot = None PROVE ReconciledCard(d, t, more) = d /\ ~StaleCard(d)
  BY <1>a DEF ReconciledCard, StaleCard
<1>1. CASE c.slot = None
  BY <1>1, <1>a DEF ReconciledCard
<1>2. CASE c.slot # None /\ c.state \in Retired
  <2>1. d = Unbound(c)
    BY <1>2 DEF ReconciledCard
  <2>2. CASE d = c
    BY <1>2, <2>1, <2>2 DEF ReconciledCard, StaleCard, Retired
  <2> QED BY <1>a, <2>1, <2>2, UnboundSettles
<1>3. CASE c.slot # None /\ c.state \notin Retired /\ RunningOn(c.slot) # {}
  <2>1. d = [c EXCEPT !.state = "in_progress"]
    BY <1>3 DEF ReconciledCard
  <2>2. d.slot = c.slot /\ d.state = "in_progress" /\ [d EXCEPT !.state = "in_progress"] = d
    BY <2>1 DEF Card
  <2>3. ReconciledCard(d, t, more) = [d EXCEPT !.state = "in_progress"]
    BY <1>3, <2>2 DEF ReconciledCard, Retired
  <2> QED BY <1>3, <2>2, <2>3 DEF StaleCard
<1>4. CASE c.slot # None /\ c.state \notin Retired /\ RunningOn(c.slot) = {}
  <2>1. CASE EndedOn(c.slot) # {}
    <3>1. PICK x : x = NewestOf(EndedOn(c.slot))
      OBVIOUS
    <3>2. PICK e : e = Judged(c, t, bad)
      OBVIOUS
    <3>3. d = Unbound(e)
      BY <1>4, <2>1, <3>2 DEF ReconciledCard
    <3>4. PICK st \in {"blocked", "review", "done"} :
             /\ e = [c EXCEPT !.state = st, !.result = x]
             /\ st = "blocked" <=> (sess[x].status # "completed" \/ t \in bad)
      BY <3>1, <3>2 DEF Judged
    <3>5. x \in Sessions
      BY <2>1, <3>1, NewestExists
    <3>6. e.state = st /\ e.slot = c.slot /\ e.result = x /\ e \in Card
      BY <1>0, <3>4, <3>5 DEF Card
    <3>7. CASE d.slot # None
      <4>1. d = e /\ (t \in bad <=> t \in more)
        BY <3>3, <3>6, <3>7, UnboundSettles
      <4>2. Judged(e, t, more) = [e EXCEPT !.state = st, !.result = x]
        BY <3>1, <3>4, <3>6, <4>1 DEF Judged
      <4>3. [e EXCEPT !.state = st, !.result = x] = e
        BY <3>6 DEF Card
      <4>4. ReconciledCard(e, t, more) = Unbound(e)
        BY <1>4, <2>1, <3>4, <3>6, <4>2, <4>3 DEF ReconciledCard, Retired
      <4> QED BY <3>3, <3>6, <4>1, <4>4 DEF StaleCard
    <3> QED BY <1>a, <3>7
  <2>2. CASE EndedOn(c.slot) = {} /\ c.state = "in_progress" /\ Gone(c.slot)
    <3>1. PICK e : e = [c EXCEPT !.state = "blocked"]
      OBVIOUS
    <3>2. d = Unbound(e)
      BY <1>4, <2>2, <3>1 DEF ReconciledCard
    <3>3. e.state = "blocked" /\ e.slot = c.slot /\ e \in Card
      BY <1>0, <3>1 DEF Card
    <3>4. CASE d.slot # None
      <4>1. d = e
        BY <3>2, <3>3, <3>4, UnboundSettles
      <4>2. ReconciledCard(e, t, more) = Unbound(e)
        BY <1>4, <2>2, <3>3 DEF ReconciledCard, Retired
      <4> QED BY <3>2, <3>3, <4>1, <4>2 DEF StaleCard
    <3> QED BY <1>a, <3>4
  <2>3. CASE EndedOn(c.slot) = {} /\ ~(c.state = "in_progress" /\ Gone(c.slot))
    <3>1. d = Unbound(c)
      BY <1>4, <2>3 DEF ReconciledCard
    <3>2. CASE d = c
      BY <1>4, <2>3, <3>1, <3>2 DEF ReconciledCard, StaleCard
    <3> QED BY <1>a, <3>1, <3>2, UnboundSettles
  <2> QED BY <2>1, <2>2, <2>3
<1> QED BY <1>1, <1>2, <1>3, <1>4

\* The status follows from the cards, which refresh_status leaves alone.
LEMMA RefreshedTwice ==
    ASSUME NEW m, Sound(m)
    PROVE  Refreshed(Refreshed(m)) = Refreshed(m)
<1> DEFINE n == Refreshed(m)
<1>1. CASE m.status = "archived"
  BY <1>1 DEF Refreshed
<1>2. CASE m.status # "archived"
  <2>1. n = [m EXCEPT !.status = StatusOfCards(m)]
    BY <1>2 DEF Refreshed
  <2>2. PICK st : st = StatusOfCards(m)
    OBVIOUS
  <2>3. n = [m EXCEPT !.status = st]
    BY <2>1, <2>2
  <2> HIDE DEF n
  <2>4. n.card = m.card /\ n.status = st /\ [n EXCEPT !.status = st] = n
    BY <2>3 DEF Sound, Manifest
  <2>5. CardsOf(n) = CardsOf(m) /\ \A S : InState(n, S) = InState(m, S)
    BY <2>4 DEF CardsOf, InState
  <2>6. StatusOfCards(n) = st
    BY <2>2, <2>5 DEF StatusOfCards
  <2> QED BY <2>4, <2>6 DEF Refreshed, n
<1> QED BY <1>1, <1>2

\* A reconciled manifest is reconciled, field by field.
LEMMA SettlesOnce ==
    ASSUME TypeInv, Exists, mf.status # "archived", NEW bad \in Failing(mf), NEW m,
           m = AfterReconcile(mf, bad)
    PROVE  /\ AfterReconcile(m, {t \in bad : Verifies(m, t)}) = m
           /\ \A t \in CardsOf(m) : ~Stale(m, t)
<1>0. Sound(mf) /\ StoreTyped
  BY ManifestSound, TypedStore
<1> DEFINE more == {t \in bad : Verifies(m, t)}
<1>1. PICK n : n = Reconciled(mf, bad)
  OBVIOUS
<1>2. /\ n.status = mf.status /\ n.card = CardsAfter(mf, bad) /\ Sound(n)
      /\ n.mslot = [w \in Members |-> IF KeepsSlot(mf.mslot[w], HeldBy(CardsAfter(mf, bad)))
                                      THEN mf.mslot[w] ELSE None]
      /\ n.leadSession = IF mf.leadSession # None /\ sess[mf.leadSession].status \in Terminal
                         THEN None ELSE mf.leadSession
  BY <1>0, <1>1, ReconciledFields, ReconciledSound
<1>3. ASSUME NEW t \in Tasks
      PROVE  mf.card[t] \in Card /\ n.card[t] = ReconciledCard(mf.card[t], t, bad)
  BY <1>0, <1>2, CardsTyped DEF CardsAfter
<1>4. CASE ~Differs(mf, n, bad)
  <2>1. m = mf /\ bad = {} /\ WithoutResults(mf) = WithoutResults(n)
    BY <1>1, <1>4 DEF AfterReconcile, Differs
  <2>2. more = {}
    BY <2>1
  <2>3. AfterReconcile(m, more) = m
    BY <2>1, <2>2
  <2>4. ASSUME NEW t \in CardsOf(m) PROVE ~Stale(m, t)
    <3>1. t \in Tasks
      BY DEF CardsOf
    <3>2. WithoutResults(mf).card[t].state = mf.card[t].state
          /\ WithoutResults(n).card[t].state = n.card[t].state
      BY <1>0, <1>2, <3>1, CardsTyped DEF WithoutResults, Sound, Manifest, Card
    <3>3. mf.card[t].state = n.card[t].state
      BY <2>1, <3>2
    <3>4. SUFFICES ASSUME Stale(mf, t) PROVE FALSE
      BY <2>1
    <3>5. n.card[t] = Unbound(Judged(mf.card[t], t, bad))
      BY <1>3, <3>1, <3>4 DEF Stale, ReconciledCard, Retired
    <3>6. PICK x : x = NewestOf(EndedOn(mf.card[t].slot))
      OBVIOUS
    <3>7. PICK st \in {"blocked", "review", "done"} :
             Judged(mf.card[t], t, bad) = [mf.card[t] EXCEPT !.state = st, !.result = x]
      BY <3>6 DEF Judged
    <3>8. x \in Sessions
      BY <1>0, <3>4, <3>6, NewestExists DEF Stale
    <3>9. /\ [mf.card[t] EXCEPT !.state = st, !.result = x] \in Card
          /\ [mf.card[t] EXCEPT !.state = st, !.result = x].state = st
      BY <1>3, <3>1, <3>8, StateNames DEF Card
    <3>10. n.card[t].state = st
      BY <3>5, <3>7, <3>9, UnboundSettles
    <3> QED BY <3>3, <3>4, <3>10 DEF Stale
  <2> QED BY <2>3, <2>4
<1>5. CASE Differs(mf, n, bad)
  <2>1. m = Refreshed(n)
    BY <1>1, <1>5 DEF AfterReconcile
  <2>2. m.card = n.card /\ m.mslot = n.mslot /\ m.leadSession = n.leadSession /\ Sound(m)
    <3>1. Sound(m)
      BY <1>2, <2>1, RefreshedSound
    <3>2. n \in Manifest
      BY <1>2 DEF Sound
    <3> QED BY <2>1, <3>1, <3>2 DEF Refreshed, Manifest
  <2>3. ASSUME NEW t \in Tasks PROVE m.card[t].slot # None => (t \in bad <=> t \in more)
    <3>1. SUFFICES ASSUME m.card[t].slot # None, t \in bad PROVE Verifies(m, t)
      OBVIOUS
    <3>2. Verifies(mf, t)
      BY <3>1 DEF Failing
    <3>3. m.card[t].slot = mf.card[t].slot
      BY <1>0, <1>1, <2>2, <3>1, ReconciledSound
    <3>4. m.card[t] = Unbound(Judged(mf.card[t], t, bad)) /\ mf.card[t] \in Card
      BY <1>3, <2>2, <3>2 DEF Verifies, ReconciledCard
    <3>5. PICK x : x = NewestOf(EndedOn(mf.card[t].slot))
      OBVIOUS
    <3>6. PICK st \in {"blocked", "review", "done"} :
             Judged(mf.card[t], t, bad) = [mf.card[t] EXCEPT !.state = st, !.result = x]
      BY <3>5 DEF Judged
    <3>7. x \in Sessions
      BY <1>0, <3>2, <3>5, NewestExists DEF Verifies
    <3>8. /\ [mf.card[t] EXCEPT !.state = st, !.result = x] \in Card
          /\ [mf.card[t] EXCEPT !.state = st, !.result = x].state = st
      BY <3>4, <3>7, StateNames DEF Card
    <3>9. m.card[t].state = st
      BY <3>4, <3>6, <3>8, UnboundSettles
    <3> QED BY <3>2, <3>3, <3>9 DEF Verifies, Retired
  <2>4. ASSUME NEW t \in Tasks
        PROVE  ReconciledCard(m.card[t], t, more) = m.card[t] /\ ~StaleCard(m.card[t])
    <3> HIDE DEF more
    <3> QED BY <1>0, <1>3, <2>2, <2>3, CardSettles
  <2> HIDE DEF more
  <2>5. PICK k : k = Reconciled(m, more)
    OBVIOUS
  <2>6. /\ k.status = m.status /\ k.current = m.current /\ k.workers = m.workers
        /\ k.plan = m.plan /\ k.card = CardsAfter(m, more)
        /\ k.mslot = [w \in Members |-> IF KeepsSlot(m.mslot[w], HeldBy(CardsAfter(m, more)))
                                        THEN m.mslot[w] ELSE None]
        /\ k.leadSession = IF m.leadSession # None /\ sess[m.leadSession].status \in Terminal
                           THEN None ELSE m.leadSession
        /\ k = [f \in DOMAIN m |-> k[f]]
    BY <2>2, <2>5, ReconciledFields
  <2>7. CardsAfter(m, more) = m.card
    <3>1. m.card = [t \in Tasks |-> m.card[t]]
      BY <2>2 DEF Sound, Manifest
    <3> QED BY <2>4, <3>1 DEF CardsAfter
  <2>8. k.mslot = m.mslot
    <3>1. m.mslot = [w \in Members |-> m.mslot[w]]
      BY <2>2 DEF Sound, Manifest
    <3>2. \A w \in Members :
             (IF KeepsSlot(m.mslot[w], HeldBy(m.card)) THEN m.mslot[w] ELSE None) = m.mslot[w]
      BY <1>2, <2>2
    <3> QED BY <2>6, <2>7, <3>1, <3>2
  <2>9. k.leadSession = m.leadSession
    BY <1>2, <2>2, <2>6
  <2>10. k = m
    <3>1. DOMAIN m = {"status", "current", "leadSession", "workers", "mslot", "card", "plan"}
          /\ m = [f \in DOMAIN m |-> m[f]]
      BY <2>2 DEF Sound, Manifest
    <3>2. \A f \in DOMAIN m : k[f] = m[f]
      BY <2>6, <2>7, <2>8, <2>9, <3>1
    <3> QED BY <2>6, <3>1, <3>2
  <2>11. Refreshed(m) = m
    BY <1>2, <2>1, RefreshedTwice
  <2>12. AfterReconcile(m, more) = m
    BY <2>5, <2>10, <2>11 DEF AfterReconcile
  <2> QED BY <2>4, <2>12 DEF Stale, StaleCard, CardsOf, more
<1> QED BY <1>4, <1>5

LEMMA TypedSettles == TypeInv => Settles
  BY SettlesOnce DEF Settles

\* Two dashboards that reconcile in turn agree (reconcile.rs): the second changes
\* nothing the first has written, and leaves no card in progress whose sessions
\* have ended.
THEOREM SettlesAlways == Spec => []Settles
  BY TypeInvAlways, TypedSettles, PTL

=============================================================================
