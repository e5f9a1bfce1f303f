---------------------------- MODULE TeamManifest ----------------------------
(***************************************************************************)
(* The team manifest of crates/awo-core/src/team.rs as a record, and the   *)
(* operations of TeamManifest on it as operators from manifests to         *)
(* manifests.  A command saves the result of an operation only if it is    *)
(* Valid; an operation that refuses is a guard ("Can...").                 *)
(*                                                                         *)
(* Abstracted: names, objectives, runtimes, scopes and texts.  A branch    *)
(* name is set and cleared with the slot id it belongs to.  The result     *)
(* fields of a card (summary, session, hand-off note, log) are one field,  *)
(* the session they are about.                                             *)
(***************************************************************************)
EXTENDS Naturals, FiniteSets

CONSTANTS
    Tasks,      \* task ids
    Workers,    \* ids of members other than the lead profile
    Lead,       \* the id of the lead profile
    Plans,      \* plan item ids
    Slots,      \* slot ids
    MaxSessions, \* bound: sessions ever started
    DependsOn,  \* depends_on of each task card
    None

Members == Workers \cup {Lead}
Sessions == 1 .. MaxSessions

ASSUME LeadIsNoWorker == Lead \notin Workers
ASSUME NoneIsApart ==
    /\ None \notin Members
    /\ None \notin Tasks
    /\ None \notin Slots
    /\ None \notin Nat
ASSUME DependsOnTasks == DependsOn \in [Tasks -> SUBSET Tasks]
ASSUME MaxSessionsNatural == MaxSessions \in Nat

-----------------------------------------------------------------------------
(* Records *)

Retired == {"cancelled", "superseded"}
Closed == {"done"} \cup Retired
ArchiveTerminal == {"blocked"} \cup Closed
CardStates == {"todo", "in_progress", "review"} \cup ArchiveTerminal
TeamStatuses == {"planning", "running", "blocked", "complete", "archived"}
PlanStates == {"draft", "approved", "generated"}

Card == [state: CardStates \cup {"absent"}, owner: Members,
         slot: Slots \cup {None}, by: Tasks \cup {None},
         result: Sessions \cup {None}]
NoCard == [state |-> "absent", owner |-> Lead, slot |-> None, by |-> None,
           result |-> None]
NewCard(w) == [NoCard EXCEPT !.state = "todo", !.owner = w]

Item == [state: PlanStates \cup {"absent"}, owner: Members \cup {None},
         task: Tasks \cup {None}]
NoItem == [state |-> "absent", owner |-> None, task |-> None]

\* current: the member that leads now.  mslot: the slot of each member.
Manifest == [status: TeamStatuses, current: Members,
             leadSession: Sessions \cup {None}, workers: SUBSET Workers,
             mslot: [Members -> Slots \cup {None}],
             card: [Tasks -> Card], plan: [Plans -> Item]]

\* starter_team_manifest
Starter == [status |-> "planning", current |-> Lead, leadSession |-> None,
            workers |-> {}, mslot |-> [w \in Members |-> None],
            card |-> [t \in Tasks |-> NoCard], plan |-> [p \in Plans |-> NoItem]]

MembersOf(m) == m.workers \cup {Lead}
CardsOf(m) == {t \in Tasks : m.card[t].state # "absent"}
ItemsOf(m) == {p \in Plans : m.plan[p].state # "absent"}

\* collect_bound_slot_ids
TaskSlots(m) == {m.card[t].slot : t \in Tasks} \ {None}
BoundSlots(m) == TaskSlots(m) \cup ({m.mslot[w] : w \in MembersOf(m)} \ {None})

-----------------------------------------------------------------------------
(* Validation and status *)

\* A card names its replacement exactly when it is superseded.
ReplacementFits(m, t) ==
    IF m.card[t].state = "superseded"
    THEN m.card[t].by \in CardsOf(m) \ {t}
    ELSE m.card[t].by = None

\* A plan item names its task exactly when it is generated.
GeneratedFits(m, p) ==
    IF m.plan[p].state = "generated"
    THEN m.plan[p].task \in CardsOf(m)
    ELSE m.plan[p].task = None

Valid(m) ==
    /\ m.current \in MembersOf(m)
    /\ \A t \in CardsOf(m) : /\ m.card[t].owner \in MembersOf(m)
                             /\ DependsOn[t] \subseteq CardsOf(m)
                             /\ ReplacementFits(m, t)
    /\ \A p \in ItemsOf(m) : /\ m.plan[p].owner \in MembersOf(m) \cup {None}
                             /\ GeneratedFits(m, p)

InState(m, S) == {t \in CardsOf(m) : m.card[t].state \in S}

StatusOfCards(m) ==
    IF CardsOf(m) = {} THEN "planning"
    ELSE IF CardsOf(m) = InState(m, Closed) THEN "complete"
    ELSE IF InState(m, {"blocked"}) # {} THEN "blocked"
    ELSE IF CardsOf(m) # InState(m, {"todo"}) THEN "running"
    ELSE "planning"

\* refresh_status: an archived team stays archived.
Refreshed(m) ==
    IF m.status = "archived" THEN m
    ELSE [m EXCEPT !.status = StatusOfCards(m)]

-----------------------------------------------------------------------------
(* Members and plan items *)

CanAddMember(m, w) == w \notin MembersOf(m)
AddMember(m, w) == [m EXCEPT !.workers = @ \cup {w}, !.mslot[w] = None]

CanRemoveMember(m, w) ==
    /\ w # m.current
    /\ \A t \in CardsOf(m) : m.card[t].owner # w
    /\ w \in m.workers
RemoveMember(m, w) == [m EXCEPT !.workers = @ \ {w}, !.mslot[w] = None]

PromoteLead(m, w) == [m EXCEPT !.current = w, !.leadSession = None]

AssignMemberSlot(m, w, s) == [m EXCEPT !.mslot[w] = s]

CanAddPlan(m, p) == p \notin ItemsOf(m)
AddPlan(m, p, w) ==
    [m EXCEPT !.plan[p] = [state |-> "draft", owner |-> w, task |-> None]]

CanApprove(m, p) == m.plan[p].state = "draft"
Approve(m, p) == [m EXCEPT !.plan[p].state = "approved"]

-----------------------------------------------------------------------------
(* Task cards *)

CanAddTask(m, t) == t \notin CardsOf(m)
AddTask(m, t, w) == [m EXCEPT !.card[t] = NewCard(w)]

CanGenerate(m, p, t) == m.plan[p].state = "approved" /\ CanAddTask(m, t)
Generate(m, p, t, w) ==
    [AddTask(m, t, w) EXCEPT !.plan[p].state = "generated", !.plan[p].task = t]

BindTaskSlot(m, t, s) == [m EXCEPT !.card[t].slot = s]

ClearResult(m, t) == [m EXCEPT !.card[t].result = None]

\* set_task_state
SetState(m, t, st) ==
    Refreshed([m EXCEPT !.card[t].state = st,
                        !.card[t].by = IF st = "superseded" THEN @ ELSE None])

CanAccept(m, t) == m.card[t].state \in {"review", "done"}
Accept(m, t) == SetState(m, t, "done")

CanRework(m, t) == m.card[t].state \in {"review", "done"}
Rework(m, t) == SetState(ClearResult(m, t), t, "todo")

CanCancel(m, t) == m.card[t].state \notin Closed
CancelTask(m, t) == SetState(m, t, "cancelled")

CanSupersede(m, t, r) ==
    /\ t # r
    /\ r \in CardsOf(m)
    /\ m.card[r].state \notin Retired
    /\ m.card[t].state \notin Retired
Supersede(m, t, r) ==
    Refreshed([m EXCEPT !.card[t].state = "superseded", !.card[t].by = r])

-----------------------------------------------------------------------------
(* Archive and reset *)

\* archive_blockers is empty.
CanArchive(m) == m.status # "archived" /\ InState(m, ArchiveTerminal) = CardsOf(m)
Archive(m) == [m EXCEPT !.status = "archived"]

ResetCardKeepsBy(c) ==
    IF c.state = "absent" THEN c
    ELSE [c EXCEPT !.state = "todo", !.slot = None, !.result = None]

ResetCard(c) ==
    IF c.state = "absent" THEN c
    ELSE [c EXCEPT !.state = "todo", !.slot = None, !.by = None, !.result = None]

ResetItem(i) ==
    IF i.state = "absent" THEN i ELSE [i EXCEPT !.state = "draft", !.task = None]

Reset(m) ==
    [m EXCEPT !.status = "planning", !.leadSession = None,
              !.mslot = [w \in Members |-> None],
              !.card = [t \in Tasks |-> ResetCard(m.card[t])],
              !.plan = [p \in Plans |-> ResetItem(m.plan[p])]]

=============================================================================
