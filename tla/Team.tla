-------------------------------- MODULE Team --------------------------------
(***************************************************************************)
(* One team: its manifest file, the slots and sessions its cards are bound *)
(* to, and the operations of crates/awo-core/src/app/team_ops.rs and       *)
(* commands/team.rs on them, with the reconciliation of                    *)
(* team/reconcile.rs that every snapshot and every load runs.              *)
(*                                                                         *)
(* A section between TeamManifestGuard::load and the drop of the guard is  *)
(* one action: module TeamStorage shows why the file lock makes it one.    *)
(* Starting a card and tearing a team down are several such sections with  *)
(* slot and session commands in between, and anybody may reconcile, and    *)
(* agents may end, between any two of them.                                *)
(*                                                                         *)
(* The slot and session commands, which module Workspace has in detail,    *)
(* are one step each here.  An agent's end and the sync that stores it are *)
(* one step.  Sessions are numbered in the order of their creation.        *)
(***************************************************************************)
EXTENDS TeamManifest, Sequences

CONSTANTS
    Teams,       \* manifests that may lie there to begin with
    Operators,   \* processes that run team commands
    Commands,    \* bound: the commands they give, and "crash"
    Price,       \* bound: what each of them costs
    Budget,      \* bound: what all of them may cost
    Launches,    \* ways a start launches, of "pty", "oneshot" and "dry"
    Inline,      \* members whose execution mode is not external_slots
    Verified     \* task cards with a verification command

ASSUME PricesNatural == Price \in [Commands -> Nat \ {0}] /\ Budget \in Nat
ASSUME LaunchesKnown == Launches \subseteq {"pty", "oneshot", "dry"}
ASSUME InlineMembers == Inline \subseteq Members
ASSUME VerifiedTasks == Verified \subseteq Tasks

VARIABLES
    mf,     \* the manifest file
    slot,   \* the status of each slot in the store
    dirty,  \* slots with uncommitted changes
    sess,   \* the sessions table, oldest first
    op,     \* what each operator is doing
    spent,  \* on the commands given so far (bound)
    left,   \* active slots no card has to answer for (history)
    raced   \* two starts of one card have overlapped (history)

vars == <<mf, slot, dirty, sess, op, spent, left, raced>>

NoTeam == [status |-> "none"]

\* Nothing is bound or started to begin with.
ASSUME TeamsAreValid ==
    Teams \subseteq {NoTeam} \cup {m \in Manifest : Valid(m) /\ BoundSlots(m) = {}
                                                   /\ m.leadSession = None}

-----------------------------------------------------------------------------
(* Records *)

SlotStatuses == {"absent", "active", "released"}
Terminal == {"completed", "failed", "cancelled"}
SessionStatuses == {"prepared", "running"} \cup Terminal

\* task: the card it was started for (history).
Session == [slot: Slots, status: SessionStatuses, launch: Launches,
            ro: BOOLEAN, task: Tasks]

StartSteps == {"mark", "slot", "bind", "launch", "wait", "settle", "block", "unslot"}
DownSteps == {"cancel", "collect", "release", "reset"}
Steps == {"idle", "remove"} \cup StartSteps \cup DownSteps

\* A start works for card task of member owner with slot; acquired: it has
\* acquired that slot itself; sid: the session it started.  todo: sessions a
\* teardown has still to cancel, then slots it has still to release; since:
\* what had been spent when it began with nobody else at work (history).
IdleOp == [pc |-> "idle", task |-> None, owner |-> None, slot |-> None,
           acquired |-> FALSE, launch |-> None, sid |-> None, todo |-> {},
           since |-> None]

Op == [pc: Steps, task: Tasks \cup {None}, owner: Members \cup {None},
       slot: Slots \cup {None}, acquired: BOOLEAN,
       launch: Launches \cup {None}, sid: Sessions \cup {None},
       todo: SUBSET (Slots \cup Sessions), since: 0 .. Budget \cup {None}]

Init ==
    /\ mf \in Teams
    /\ slot = [s \in Slots |-> "absent"]
    /\ dirty = {}
    /\ sess = <<>>
    /\ op = [o \in Operators |-> IdleOp]
    /\ spent = 0
    /\ left = {}
    /\ raced = FALSE

-----------------------------------------------------------------------------
(* Queries *)

Exists == mf # NoTeam
Has(t) == Exists /\ t \in CardsOf(mf)

On(s) == {x \in DOMAIN sess : sess[x].slot = s}
RunningOn(s) == {x \in On(s) : sess[x].status = "running"}
LiveOn(s) == {x \in On(s) : sess[x].status \notin Terminal}
EndedOn(s) == On(s) \ LiveOn(s)
WritersOn(s) == {x \in LiveOn(s) : ~sess[x].ro}
Gone(s) == slot[s] # "active"

\* list_sessions_for_slot has the newest first.
NewestOf(X) == CHOOSE x \in X : \A y \in X : y <= x

Idle(o) == op[o].pc = "idle"
At(o, pc) == op[o].pc = pc
Goto(o, pc) == op' = [op EXCEPT ![o].pc = pc]
Finish(o) == op' = [op EXCEPT ![o] = IdleOp]

Spend(c) ==
    /\ c \in Commands
    /\ spent + Price[c] <= Budget
    /\ spent' = spent + Price[c]

Gives(o, c) == Idle(o) /\ Spend(c)

\* write_team_manifest_unlocked: nothing invalid is written.
Save(m) == Valid(m) /\ mf' = m

\* A guarded change of the manifest and of nothing else.
Change(m) ==
    /\ Exists
    /\ Save(m)
    /\ UNCHANGED <<slot, dirty, sess, op>>

\* The slots that cards are bound to, and a command whose very purpose it is to
\* take all but S of them out of the manifest, whatever becomes of the slots.
Bound == IF Exists THEN TaskSlots(mf) ELSE {}
Drop(S) == left' = left \cup {s \in Bound \ S : ~Gone(s)}

\* A start that has looked up the slot of its card and has not bound one yet: it
\* races with a second start or a binding of the card.
BeforeBind(p) == op[p].pc \in {"mark", "slot", "bind"}
Starting(t) == \E p \in Operators : op[p].task = t /\ BeforeBind(p)
Race(t) == raced' = (raced \/ Starting(t))

-----------------------------------------------------------------------------
(* Commands that change the manifest in one guarded section *)

InitTeam(o) ==
    /\ Gives(o, "init")
    /\ mf' = Starter
    /\ Drop({})
    /\ UNCHANGED <<slot, dirty, sess, op, raced>>

MemberAdd(o, w) ==
    /\ Gives(o, "member") /\ Exists /\ CanAddMember(mf, w)
    /\ Change(AddMember(mf, w))
    /\ UNCHANGED <<left, raced>>

MemberRemove(o, w) ==
    /\ Gives(o, "member") /\ Exists /\ CanRemoveMember(mf, w)
    /\ Change(RemoveMember(mf, w))
    /\ UNCHANGED <<left, raced>>

LeadReplace(o, w) ==
    /\ Gives(o, "lead") /\ Exists /\ w \in MembersOf(mf) /\ w # mf.current
    /\ Change(PromoteLead(mf, w))
    /\ UNCHANGED <<left, raced>>

MemberAssignSlot(o, w, s) ==
    /\ Gives(o, "assign") /\ Exists /\ w \in MembersOf(mf) /\ slot[s] # "absent"
    /\ Change(AssignMemberSlot(mf, w, s))
    /\ UNCHANGED <<left, raced>>

PlanAdd(o, p, w) ==
    /\ Gives(o, "plan") /\ Exists /\ CanAddPlan(mf, p)
    /\ Change(AddPlan(mf, p, w))
    /\ UNCHANGED <<left, raced>>

PlanApprove(o, p) ==
    /\ Gives(o, "plan") /\ Exists /\ CanApprove(mf, p)
    /\ Change(Approve(mf, p))
    /\ UNCHANGED <<left, raced>>

PlanGenerate(o, p, t, w) ==
    /\ Gives(o, "plan") /\ Exists /\ CanGenerate(mf, p, t)
    /\ Change(Generate(mf, p, t, w))
    /\ UNCHANGED <<left, raced>>

\* run_team_task_add leaves the status of the team as it was; the TUI goes
\* through the same command.
TaskAdd(o, t, w) ==
    /\ Gives(o, "task") /\ Exists /\ CanAddTask(mf, t)
    /\ Change(AddTask(mf, t, w))
    /\ UNCHANGED <<left, raced>>

TaskBindSlot(o, t, s) ==
    /\ Gives(o, "bind") /\ Has(t) /\ slot[s] # "absent"
    /\ Change(BindTaskSlot(mf, t, s))
    /\ Drop(TaskSlots(BindTaskSlot(mf, t, s)))
    /\ Race(t)

TaskState(o, t, st) ==
    /\ Gives(o, "state") /\ Has(t) /\ mf.card[t].state # st
    /\ Change(SetState(mf, t, st))
    /\ UNCHANGED <<left, raced>>

TaskAccept(o, t) ==
    /\ Gives(o, "accept") /\ Has(t) /\ CanAccept(mf, t)
    /\ Change(Accept(mf, t))
    /\ UNCHANGED <<left, raced>>

TaskRework(o, t) ==
    /\ Gives(o, "rework") /\ Has(t) /\ CanRework(mf, t)
    /\ Change(Rework(mf, t))
    /\ UNCHANGED <<left, raced>>

\* ensure_task_has_no_live_sessions
NoLiveSessions(t) ==
    mf.card[t].slot # None => LiveOn(mf.card[t].slot) = {}

TaskCancel(o, t) ==
    /\ Gives(o, "cancel") /\ Has(t) /\ CanCancel(mf, t) /\ NoLiveSessions(t)
    /\ Change(CancelTask(mf, t))
    /\ UNCHANGED <<left, raced>>

TaskSupersede(o, t, r) ==
    /\ Gives(o, "cancel") /\ Has(t) /\ CanSupersede(mf, t, r) /\ NoLiveSessions(t)
    /\ Change(Supersede(mf, t, r))
    /\ UNCHANGED <<left, raced>>

TeamReset(o) ==
    /\ Gives(o, "reset") /\ Exists
    /\ Change(Reset(mf))
    /\ Drop({})
    /\ UNCHANGED raced

\* run_team_archive, what every front end calls: only the cards count.
TeamArchive(o) ==
    /\ Gives(o, "archive") /\ Exists /\ CanArchive(mf)
    /\ Change(Archive(mf))
    /\ UNCHANGED <<left, raced>>

\* run_team_delete, what every front end calls: no lock and no question asked.
TeamDelete(o) ==
    /\ Gives(o, "delete")
    /\ Exists
    /\ mf' = NoTeam
    /\ Drop({})
    /\ UNCHANGED <<slot, dirty, sess, op, raced>>

-----------------------------------------------------------------------------
(* Reconciliation *)

\* Nothing goes on in the slot of the card any more: the binding goes.
Unbound(c) ==
    IF Gone(c.slot) /\ LiveOn(c.slot) = {} THEN [c EXCEPT !.slot = None] ELSE c

JudgedAlways(c, t, bad) ==
    LET x == NewestOf(EndedOn(c.slot))
        next == IF sess[x].status # "completed" \/ t \in bad THEN "blocked" ELSE "review"
    IN  [c EXCEPT !.state = next, !.result = x]

\* The card in the light of the newest ended session on its slot.  bad: the
\* cards whose verification command fails, or cannot be run, this time.
Judged(c, t, bad) ==
    LET x == NewestOf(EndedOn(c.slot))
        finished == IF c.state \in {"done", "review"} THEN c.state ELSE "review"
        next == IF sess[x].status # "completed" \/ t \in bad THEN "blocked" ELSE finished
    IN  [c EXCEPT !.state = next, !.result = x]

ReconciledCardLive(c, t, bad) ==
    CASE c.slot = None -> c
      [] c.slot # None /\ c.state \in Retired -> Unbound(c)
      [] c.slot # None /\ c.state \notin Retired /\ LiveOn(c.slot) # {} ->
            [c EXCEPT !.state = "in_progress"]
      [] OTHER ->
            Unbound(IF EndedOn(c.slot) # {} THEN Judged(c, t, bad)
                    ELSE IF c.state = "in_progress" /\ Gone(c.slot)
                         THEN [c EXCEPT !.state = "blocked"]
                         ELSE c)

ReconciledCard(c, t, bad) ==
    CASE c.slot = None -> c
      [] c.slot # None /\ c.state \in Retired -> Unbound(c)
      [] c.slot # None /\ c.state \notin Retired /\ RunningOn(c.slot) # {} ->
            [c EXCEPT !.state = "in_progress"]
      [] OTHER ->
            Unbound(IF EndedOn(c.slot) # {} THEN Judged(c, t, bad)
                    ELSE IF c.state = "in_progress" /\ Gone(c.slot)
                         THEN [c EXCEPT !.state = "blocked"]
                         ELSE c)

\* should_clear_member_slot_binding, with the slots the cards are bound to.
KeepsSlot(s, held) == s \in held /\ (~Gone(s) \/ LiveOn(s) # {})

Reconciled(m, bad) ==
    LET cards == [t \in Tasks |-> ReconciledCard(m.card[t], t, bad)]
        held == {cards[t].slot : t \in Tasks} \ {None}
        leads == m.leadSession
    IN  [m EXCEPT !.card = cards,
           !.mslot = [w \in Members |-> IF KeepsSlot(@[w], held) THEN @[w] ELSE None],
           !.leadSession = IF leads # None /\ sess[leads].status \in Terminal
                           THEN None ELSE @]

\* A verification is run for every card that rests on a completed session.
Verifies(m, t) ==
    LET c == m.card[t]
    IN  /\ t \in Verified
        /\ c.slot # None
        /\ slot[c.slot] # "absent"
        /\ c.state \notin Retired
        /\ RunningOn(c.slot) = {}
        /\ EndedOn(c.slot) # {}
        /\ sess[NewestOf(EndedOn(c.slot))].status = "completed"

\* What reconciliation counts as a change: the result fields do not.
WithoutResults(m) == [m EXCEPT !.card = [t \in Tasks |-> [@[t] EXCEPT !.result = None]]]
Differs(m, n, bad) == bad # {} \/ WithoutResults(m) # WithoutResults(n)

Failing(m) == SUBSET {t \in CardsOf(m) : Verifies(m, t)}

\* What reconciliation leaves in the file.
AfterReconcile(m, bad) ==
    LET n == Reconciled(m, bad)
    IN  IF m.status # "archived" /\ Differs(m, n, bad) THEN Refreshed(n) ELSE m

Outcomes(m) == {AfterReconcile(m, bad) : bad \in Failing(m)}

Reconcile ==
    /\ UNCHANGED <<slot, dirty, sess, op, spent, left, raced>>
    /\ Exists
    /\ \E m \in Outcomes(mf) : Save(m)

-----------------------------------------------------------------------------
(* Slot and session commands (abstract: see module Workspace) *)

\* A warm slot is used again with its sessions still in the store; a new
\* slot has none.
CanAcquire(s) == slot[s] = "released" \/ (slot[s] = "absent" /\ On(s) = {})

CanRelease(s) == slot[s] = "active" /\ LiveOn(s) = {} /\ s \notin dirty

SlotReleased(s) ==
    /\ slot' = [slot EXCEPT ![s] = "released"]
    /\ left' = left \ {s}

\* A slot acquired outside the team: no card answers for it.
SlotAcquire(o, s) ==
    /\ Gives(o, "acquire")
    /\ CanAcquire(s)
    /\ slot' = [slot EXCEPT ![s] = "active"]
    /\ left' = left \cup {s}
    /\ UNCHANGED <<mf, dirty, sess, op, raced>>

SlotRelease(o, s) ==
    /\ Gives(o, "release")
    /\ CanRelease(s)
    /\ SlotReleased(s)
    /\ UNCHANGED <<mf, dirty, sess, op, raced>>

\* run_slot_delete: the sessions of the slot stay in the store.
SlotDelete(o, s) ==
    /\ Gives(o, "prune")
    /\ slot[s] = "released"
    /\ LiveOn(s) = {}
    /\ slot' = [slot EXCEPT ![s] = "absent"]
    /\ UNCHANGED <<mf, dirty, sess, op, left, raced>>

\* run_session_cancel refuses an ended session and a running one-shot.
CanCancelSession(x) ==
    \/ sess[x].status = "prepared"
    \/ sess[x].status = "running" /\ sess[x].launch # "oneshot"

SessionCancel(o, x) ==
    /\ Gives(o, "stop")
    /\ CanCancelSession(x)
    /\ sess' = [sess EXCEPT ![x].status = "cancelled"]
    /\ UNCHANGED <<mf, slot, dirty, op, left, raced>>

\* The operator commits what the agent left in the slot.
CommitWork(o, s) ==
    /\ Gives(o, "commit")
    /\ s \in dirty
    /\ dirty' = dirty \ {s}
    /\ UNCHANGED <<mf, slot, sess, op, left, raced>>

-----------------------------------------------------------------------------
(* Starting a card: execute_team_task *)

\* First section: checks, the slot to use as it is known now, and for a
\* delegation the new owner.  A dry run does not mark the card.
Begin(o, m, t, launch) ==
    LET w == m.card[t].owner
    IN  /\ w \notin Inline
        /\ m.card[t].state # "in_progress"
        /\ Save(m)
        /\ Race(t)
        /\ op' = [op EXCEPT ![o] =
              [IdleOp EXCEPT !.pc = IF launch = "dry" THEN "slot" ELSE "mark",
                             !.task = t, !.owner = w, !.launch = launch,
                             !.slot = IF m.card[t].slot # None THEN m.card[t].slot
                                      ELSE m.mslot[w]]]

TaskStart(o, t, launch) ==
    /\ Gives(o, "start")
    /\ Has(t)
    /\ Begin(o, mf, t, launch)
    /\ UNCHANGED <<slot, dirty, sess, left>>

Delegated(t, w) == [mf EXCEPT !.card[t].owner = w]

TaskDelegate(o, t, w, launch) ==
    /\ Gives(o, "delegate")
    /\ Has(t)
    /\ w \in MembersOf(mf)
    /\ mf.card[t].state = "todo"
    /\ Begin(o, Delegated(t, w), t, launch)
    /\ UNCHANGED <<slot, dirty, sess, left>>

\* Without auto_start only the owner changes.
TaskHandOver(o, t, w) ==
    /\ Gives(o, "delegate")
    /\ Has(t)
    /\ w \in MembersOf(mf) \ Inline
    /\ mf.card[t].state = "todo"
    /\ mf.card[t].owner # w
    /\ Change(Delegated(t, w))
    /\ UNCHANGED <<left, raced>>

\* An error here ends the command without recovery.
StartMark(o) ==
    /\ At(o, "mark")
    /\ IF Has(op[o].task)
       THEN Save(SetState(mf, op[o].task, "in_progress")) /\ Goto(o, "slot")
       ELSE Finish(o) /\ UNCHANGED mf
    /\ UNCHANGED <<slot, dirty, sess, spent, left, raced>>

\* Nothing says that the slot of the card or of its owner is still active.
StartUseSlot(o) ==
    /\ At(o, "slot")
    /\ op[o].slot # None
    /\ Goto(o, IF slot[op[o].slot] = "absent" THEN "block" ELSE "bind")
    /\ UNCHANGED <<mf, slot, dirty, sess, spent, left, raced>>

StartAcquire(o) ==
    /\ At(o, "slot")
    /\ op[o].slot = None
    /\ \/ \E s \in Slots :
            /\ CanAcquire(s)
            /\ slot' = [slot EXCEPT ![s] = "active"]
            /\ op' = [op EXCEPT ![o].slot = s, ![o].acquired = TRUE, ![o].pc = "bind"]
       \/ Goto(o, "block") /\ UNCHANGED slot
    /\ UNCHANGED <<mf, dirty, sess, spent, left, raced>>

BindBoth(m, t, w, s) == BindTaskSlot(AssignMemberSlot(m, w, s), t, s)
StartBind(o) ==
    /\ At(o, "bind")
    /\ IF Has(op[o].task) /\ op[o].owner \in MembersOf(mf)
       THEN /\ Save(BindBoth(mf, op[o].task, op[o].owner, op[o].slot))
            /\ Goto(o, "launch")
       ELSE Goto(o, "block") /\ UNCHANGED mf
    /\ UNCHANGED <<slot, dirty, sess, spent, left, raced>>

\* A session of the lead profile is read only, as the profile is.
ReadOnly(w) == w = Lead

CanLaunchAnywhere(s, ro) ==
    ro \/ (s \notin dirty /\ WritersOn(s) = {})

CanLaunch(s, ro) ==
    slot[s] = "active" /\ (ro \/ (s \notin dirty /\ WritersOn(s) = {}))

NewSession(o, status) ==
    Append(sess, [slot |-> op[o].slot, status |-> status, launch |-> op[o].launch,
                  ro |-> ReadOnly(op[o].owner), task |-> op[o].task])

\* A start that is refused leaves no session; a launch that fails leaves a
\* failed one.
StartLaunch(o) ==
    /\ At(o, "launch")
    /\ LET ok == CanLaunch(op[o].slot, ReadOnly(op[o].owner)) /\ Len(sess) < MaxSessions
           started == op' = [op EXCEPT ![o].sid = Len(sess) + 1,
                                ![o].pc = IF op[o].launch = "oneshot" THEN "wait" ELSE "settle"]
       IN  \/ ok /\ started
              /\ sess' = NewSession(o, IF op[o].launch = "dry" THEN "prepared" ELSE "running")
           \/ ok /\ Goto(o, "block") /\ sess' = NewSession(o, "failed")
           \/ Goto(o, "block") /\ UNCHANGED sess
    /\ UNCHANGED <<mf, slot, dirty, spent, left, raced>>

\* A one-shot is waited for.
StartWait(o) ==
    /\ At(o, "wait")
    /\ sess[op[o].sid].status \in Terminal
    /\ Goto(o, "settle")
    /\ UNCHANGED <<mf, slot, dirty, sess, spent, left, raced>>

\* The state that the status the launch returned stands for.
NextState(o) ==
    CASE op[o].launch = "oneshot" /\ sess[op[o].sid].status = "completed" -> "review"
      [] op[o].launch = "oneshot" /\ sess[op[o].sid].status = "failed" -> "blocked"
      [] OTHER -> "in_progress"

\* The lead's session is bound when the owner leads now.
LeadBound(m, o) ==
    IF m.current = op[o].owner THEN [m EXCEPT !.leadSession = op[o].sid] ELSE m

StartSettle(o) ==
    /\ At(o, "settle")
    /\ IF op[o].launch # "dry" /\ Has(op[o].task)
       THEN Save(LeadBound(SetState(ClearResult(mf, op[o].task), op[o].task, NextState(o)), o))
       ELSE UNCHANGED mf
    /\ Finish(o)
    /\ UNCHANGED <<slot, dirty, sess, spent, left, raced>>

RecoverBlockOnly(o) ==
    /\ At(o, "block")
    /\ IF Has(op[o].task) THEN Save(SetState(mf, op[o].task, "blocked")) ELSE UNCHANGED mf
    /\ Finish(o)
    /\ UNCHANGED <<slot, dirty, sess, spent, left, raced>>

\* recover_failed_start: the card is blocked, then a slot that this start has
\* acquired is released.
RecoverBlock(o) ==
    /\ At(o, "block")
    /\ IF Has(op[o].task) THEN Save(SetState(mf, op[o].task, "blocked")) ELSE UNCHANGED mf
    /\ IF op[o].acquired THEN Goto(o, "unslot") ELSE Finish(o)
    /\ UNCHANGED <<slot, dirty, sess, spent, left, raced>>

\* Somebody else has got into the slot, or got it released, since: the refusal
\* is logged with the name of the slot.
RecoverRelease(o) ==
    /\ At(o, "unslot")
    /\ IF CanRelease(op[o].slot)
       THEN SlotReleased(op[o].slot)
       ELSE left' = left \cup {op[o].slot} /\ UNCHANGED slot
    /\ Finish(o)
    /\ UNCHANGED <<mf, dirty, sess, spent, raced>>

-----------------------------------------------------------------------------
(* Teardown, and the archive and delete of AppCore *)

LiveOnBound(m) == UNION {LiveOn(s) : s \in BoundSlots(m)}
RunningOneshots(m) == {x \in LiveOnBound(m) : ~CanCancelSession(x)}

\* plan_team_teardown reconciles first.  A dirty flag in the store, which may
\* be out of date, is a blocker.
TeardownPlan(o) ==
    /\ Gives(o, "teardown")
    /\ Exists
    /\ \E m \in Outcomes(mf) :
          /\ Save(m)
          /\ \/ /\ RunningOneshots(m) = {}
                /\ op' = [op EXCEPT ![o] =
                      [IdleOp EXCEPT !.pc = "cancel", !.todo = LiveOnBound(m),
                          !.since = IF \A p \in Operators \ {o} : Idle(p)
                                    THEN spent' ELSE None]]
             \/ /\ RunningOneshots(m) # {} \/ BoundSlots(m) # {}
                /\ UNCHANGED op
    /\ UNCHANGED <<slot, dirty, sess, left, raced>>

\* A session that has ended since makes its cancellation, and with it the
\* teardown, fail.
TeardownCancel(o) ==
    /\ At(o, "cancel")
    /\ \/ /\ op[o].todo = {}
          /\ Goto(o, "collect")
          /\ UNCHANGED sess
       \/ \E x \in op[o].todo :
            IF CanCancelSession(x)
            THEN /\ sess' = [sess EXCEPT ![x].status = "cancelled"]
                 /\ op' = [op EXCEPT ![o].todo = @ \ {x}]
            ELSE Finish(o) /\ UNCHANGED sess
    /\ UNCHANGED <<mf, slot, dirty, spent, left, raced>>

TeardownCollect(o) ==
    /\ At(o, "collect")
    /\ Exists
    /\ \E m \in Outcomes(mf) :
          /\ Save(m)
          /\ op' = [op EXCEPT ![o].pc = "release", ![o].todo = BoundSlots(m)]
    /\ UNCHANGED <<slot, dirty, sess, spent, left, raced>>

TeardownReleaseSkips(o) ==
    /\ At(o, "release")
    /\ \/ /\ op[o].todo = {}
          /\ Goto(o, "reset")
          /\ UNCHANGED <<slot, left>>
       \/ \E s \in op[o].todo :
            /\ IF Gone(s) \/ ~CanRelease(s) THEN UNCHANGED <<slot, left>> ELSE SlotReleased(s)
            /\ op' = [op EXCEPT ![o].todo = @ \ {s}]
    /\ UNCHANGED <<mf, dirty, sess, spent, raced>>

\* A slot that cannot be released ends the teardown half way.
TeardownRelease(o) ==
    /\ At(o, "release")
    /\ \/ /\ op[o].todo = {}
          /\ Goto(o, "reset")
          /\ UNCHANGED <<slot, left>>
       \/ \E s \in op[o].todo :
            \/ /\ Gone(s) \/ CanRelease(s)
               /\ IF Gone(s) THEN UNCHANGED <<slot, left>> ELSE SlotReleased(s)
               /\ op' = [op EXCEPT ![o].todo = @ \ {s}]
            \/ /\ ~Gone(s) /\ ~CanRelease(s)
               /\ Finish(o)
               /\ UNCHANGED <<slot, left>>
    /\ UNCHANGED <<mf, dirty, sess, spent, raced>>

TeardownReset(o) ==
    /\ At(o, "reset")
    /\ Exists
    /\ Save(Reset(mf))
    /\ Drop({})
    /\ Finish(o)
    /\ UNCHANGED <<slot, dirty, sess, spent, raced>>

\* AppCore::archive_team, which no front end calls.
ArchiveTeam(o) ==
    /\ Gives(o, "core.archive")
    /\ Exists
    /\ \E m \in Outcomes(mf) :
          IF CanArchive(m) /\ LiveOnBound(m) = {} /\ \A s \in BoundSlots(m) : Gone(s)
          THEN Save(Archive(m))
          ELSE Save(m)
    /\ UNCHANGED <<slot, dirty, sess, op, left, raced>>

\* AppCore::delete_team, which no front end calls: a plan, then the removal.
DeletePlan(o) ==
    /\ Gives(o, "core.delete")
    /\ Exists
    /\ \E m \in Outcomes(mf) :
          /\ Save(m)
          /\ IF BoundSlots(m) = {} THEN Goto(o, "remove") ELSE UNCHANGED op
    /\ UNCHANGED <<slot, dirty, sess, left, raced>>

DeleteRemove(o) ==
    /\ At(o, "remove")
    /\ mf' = NoTeam
    /\ Drop({})
    /\ Finish(o)
    /\ UNCHANGED <<slot, dirty, sess, spent, raced>>

\* The manifest is gone in the middle of a teardown: it fails.
TeardownFails(o) ==
    /\ op[o].pc \in {"collect", "reset"}
    /\ ~Exists
    /\ Finish(o)
    /\ UNCHANGED <<mf, slot, dirty, sess, spent, left, raced>>

-----------------------------------------------------------------------------
(* The world *)

SessionEnd(x, how) ==
    /\ sess[x].status = "running"
    /\ sess' = [sess EXCEPT ![x].status = how]
    /\ UNCHANGED <<mf, slot, dirty, op, spent, left, raced>>

AgentWrites(x) ==
    /\ sess[x].status = "running"
    /\ ~sess[x].ro
    /\ sess[x].slot \notin dirty
    /\ dirty' = dirty \cup {sess[x].slot}
    /\ UNCHANGED <<mf, slot, sess, op, spent, left, raced>>

\* The process of an operator dies: what it holds in its hands is lost.
Crash(o) ==
    /\ ~Idle(o)
    /\ Spend("crash")
    /\ Finish(o)
    /\ left' = left \cup (IF op[o].acquired THEN {op[o].slot} ELSE {})
    /\ UNCHANGED <<mf, slot, dirty, sess, raced>>

-----------------------------------------------------------------------------
(* Specification *)

\* run_team of the command line, and the other front ends in its way: init;
\* the life of a team; its members, plans and cards.
TeamCommands(o) ==
    \/ TeamArchive(o) \/ TeamReset(o) \/ TeamDelete(o) \/ ArchiveTeam(o)
    \/ TeardownPlan(o) \/ DeletePlan(o)

MemberCommands(o) ==
    \/ \E w \in Workers : MemberAdd(o, w) \/ MemberRemove(o, w)
    \/ \E w \in Members : LeadReplace(o, w)
    \/ \E w \in Members, s \in Slots : MemberAssignSlot(o, w, s)

PlanCommands(o) ==
    \/ \E p \in Plans, w \in Members : PlanAdd(o, p, w)
    \/ \E p \in Plans : PlanApprove(o, p)
    \/ \E p \in Plans, t \in Tasks, w \in Members : PlanGenerate(o, p, t, w)

TaskCommands(o) ==
    \/ \E t \in Tasks, w \in Members : TaskAdd(o, t, w)
    \/ \E t \in Tasks, s \in Slots : TaskBindSlot(o, t, s)
    \/ \E t \in Tasks, st \in CardStates : TaskState(o, t, st)
    \/ \E t \in Tasks : TaskAccept(o, t) \/ TaskRework(o, t) \/ TaskCancel(o, t)
    \/ \E t, r \in Tasks : TaskSupersede(o, t, r)

Launch(o) ==
    \/ \E t \in Tasks, launch \in Launches : TaskStart(o, t, launch)
    \/ \E t \in Tasks, w \in Members, launch \in Launches : TaskDelegate(o, t, w, launch)
    \/ \E t \in Tasks, w \in Members : TaskHandOver(o, t, w)

RunTeam(o) ==
    \/ InitTeam(o) \/ TeamCommands(o) \/ MemberCommands(o) \/ PlanCommands(o)
    \/ TaskCommands(o) \/ Launch(o)

\* run_slot and run_session
SlotCommands(o) ==
    \E s \in Slots : SlotAcquire(o, s) \/ SlotRelease(o, s) \/ SlotDelete(o, s)
                    \/ CommitWork(o, s)

SessionCommands(o) == \E x \in DOMAIN sess : SessionCancel(o, x)

StartStep(o) ==
    \/ StartMark(o) \/ StartUseSlot(o) \/ StartAcquire(o) \/ StartBind(o)
    \/ StartLaunch(o) \/ StartWait(o) \/ StartSettle(o)
    \/ RecoverBlock(o) \/ RecoverRelease(o)

DownStep(o) ==
    \/ TeardownCancel(o) \/ TeardownCollect(o) \/ TeardownRelease(o)
    \/ TeardownReset(o) \/ TeardownFails(o) \/ DeleteRemove(o)

World ==
    \E x \in DOMAIN sess : AgentWrites(x) \/ \E how \in {"completed", "failed"} : SessionEnd(x, how)

Next ==
    \/ \E o \in Operators :
         \/ RunTeam(o) \/ SlotCommands(o) \/ SessionCommands(o)
         \/ StartStep(o) \/ DownStep(o) \/ Crash(o)
    \/ Reconcile
    \/ World

Spec == Init /\ [][Next]_vars

-----------------------------------------------------------------------------
(* Properties *)

\* What the manifest, the slots, the session records and the operators' commands
\* (team.rs, slot.rs, runtime.rs, app/team_ops.rs) hold.
TypeOK ==
    /\ mf \in Manifest \cup {NoTeam}
    /\ slot \in [Slots -> SlotStatuses]
    /\ dirty \subseteq Slots
    /\ sess \in Seq(Session) /\ Len(sess) <= MaxSessions
    /\ op \in [Operators -> Op]
    /\ spent \in 0 .. Budget
    /\ left \subseteq Slots
    /\ raced \in BOOLEAN

\* No command leaves a manifest that cannot be loaded, reconciled and reset:
\* a manifest whose reconciliation were invalid would make every snapshot fail.
Loadable ==
    /\ TypeOK
    /\ Exists => /\ Valid(mf)
                 /\ Valid(Reset(mf))
                 /\ \A m \in Outcomes(mf) : Valid(m)

\* A second reconciliation with nothing happening in between changes nothing,
\* and none leaves a card in progress whose sessions on its slot have ended:
\* dashboards that reconcile in turn agree.
Stale(m, t) ==
    /\ m.card[t].state = "in_progress"
    /\ m.card[t].slot # None
    /\ RunningOn(m.card[t].slot) = {}
    /\ EndedOn(m.card[t].slot) # {}

Settles ==
    Exists /\ mf.status # "archived" =>
       \A bad \in Failing(mf) :
          \A m \in {AfterReconcile(mf, bad)} :
             /\ AfterReconcile(m, {t \in bad : Verifies(m, t)}) = m
             /\ \A t \in CardsOf(m) : ~Stale(m, t)

\* An active slot that a start has acquired stays within reach, as long as no
\* card is started, or bound by hand, in the middle of a start of the same card:
\* a card is bound to it, a start holds it, or an operator took it out of the
\* manifest, died holding it or was refused its release and told so.  No start,
\* recovery, reconciliation or teardown loses it.  (Of two starts of one card
\* that overlap, the later one's binding does lose the slot of the other.)
Held == {op[o].slot : o \in {p \in Operators : op[p].acquired}}
NoSlotLost ==
    raced \/ \A s \in Slots : slot[s] = "active" => s \in Bound \cup Held \cup left

\* A teardown that reports success leaves no slot of the team active and no
\* session alive in one, although agents end and snapshots reconcile meanwhile;
\* unless somebody else gave a command in its middle.
TeardownClean ==
    [][\A o \in Operators :
          (At(o, "reset") /\ op[o].since = spent /\ op'[o].pc = "idle" /\ mf' # mf) =>
          /\ \A s \in BoundSlots(mf) : Gone(s)
          /\ LiveOnBound(mf) = {}]_vars

\* Work is accepted, retired or put back by operators only: a reconciliation
\* never does, nor does it bring a retired card back or ask for a second
\* review of an accepted one.
OnlyOperatorsDecide ==
    [][(spent' = spent /\ op' = op /\ Exists) =>
          \A t \in CardsOf(mf) :
             mf'.card[t].state # mf.card[t].state =>
                /\ mf'.card[t].state \notin Closed \cup {"todo"}
                /\ mf.card[t].state \notin Retired
                /\ ~(mf.card[t].state = "done" /\ mf'.card[t].state = "review")
                /\ mf.status # "archived"]_vars

\* A team is archived only when its slots are released and its sessions ended.
ArchiveSafe ==
    [][(Exists /\ mf.status # "archived" /\ mf' # NoTeam /\ mf'.status = "archived") =>
          /\ \A s \in BoundSlots(mf) : Gone(s)
          /\ LiveOnBound(mf) = {}]_vars

\* The row of a session in the store.
Seen(x) ==
    IF x \in DOMAIN sess
    THEN [slot |-> sess[x].slot, ro |-> sess[x].ro, status |-> sess[x].status]
    ELSE [status |-> "absent"]

Tables == INSTANCE SlotTables WITH
    repo <- TRUE,
    slot <- slot,
    sess <- [x \in Sessions |-> Seen(x)]

\* What is taken here for one step is what Workspace shows of a single caller
\* of commands: no start, recovery or teardown asks more of slots and sessions.
UsesTables == Tables!Spec

=============================================================================
