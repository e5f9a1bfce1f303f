-------------------------- MODULE Workspace_proofs --------------------------
(***************************************************************************)
(* Proofs about Workspace, for every value of its constants.               *)
(*                                                                         *)
(* With a single mutator: its types, one writer per slot, and occupancy:   *)
(* release, delete, prune and repo remove never take the slot of a pending *)
(* session away, and the removal of a repository leaves no slot and no     *)
(* pending session behind.  Without crashes, active worktrees are moreover *)
(* on their branches.                                                      *)
(*                                                                         *)
(* When nobody else synchronises sessions either, what the commands        *)
(* promise about agents, their work and the tables: no running agent is    *)
(* forgotten, outcomes are final, no uncommitted work is removed and every *)
(* command is atomic as SlotTables says; run workspace_stale_sync shows    *)
(* what a watcher does.                                                    *)
(***************************************************************************)
EXTENDS Workspace, TLAPS

(* Types *)

LEMMA IdleJobType == IdleJob \in Job /\ WellFormed(IdleJob)
  BY DEF IdleJob, Job, WellFormed, Steps, SyncSteps, StartSteps, CopySteps, NoSession

\* An actor that replaces its local state by a well-typed one keeps all typed.
LEMMA SetType ==
    ASSUME TypeInv, NEW a \in Actors, NEW j \in Job, WellFormed(j), Set(a, j)
    PROVE  job' \in [Actors -> Job] /\ \A b \in Actors : WellFormed(job'[b])
  BY DEF TypeInv, TypeOK, Set

LEMMA FinishType ==
    ASSUME TypeInv, NEW a \in Actors, Finish(a)
    PROVE  job' \in [Actors -> Job] /\ \A b \in Actors : WellFormed(job'[b])
  BY IdleJobType, SetType DEF Finish

\* Steps that read and write nothing but local state.
LEMMA PollType ==
    ASSUME TypeInv, NEW a \in Actors, Poll(a) PROVE TypeInv'
  <1> DEFINE j == [IdleJob EXCEPT !.pc = "sync.list"]
  <1>1. j \in Job /\ WellFormed(j)
    BY IdleJobType, ZenonT(60) DEF IdleJob, Job, WellFormed, Steps, SyncSteps, StartSteps, CopySteps
  <1>2. QED
    BY <1>1, SetType DEF Poll, TypeInv, TypeOK

LEMMA SlotRowType ==
    ASSUME TypeInv, NEW s \in Slots, slots[s].status # "absent"
    PROVE  slots[s] \in SlotRow
  BY DEF TypeInv, TypeOK, NoSlot

LEMMA SessionRowType ==
    ASSUME TypeInv, NEW x \in Sessions, sess[x].status # "absent"
    PROVE  sess[x] \in SessionRow
  BY DEF TypeInv, TypeOK, NoSession

LEMMA SlotRowUpdate ==
    ASSUME NEW r \in SlotRow
    PROVE  /\ \A st \in SlotStatuses, d \in BOOLEAN :
                [r EXCEPT !.status = st, !.dirty = d] \in SlotRow
           /\ \A st \in SlotStatuses, t \in Tasks :
                [r EXCEPT !.task = t, !.status = st] \in SlotRow
           /\ \A d \in BOOLEAN : [r EXCEPT !.dirty = d] \in SlotRow
  BY DEF SlotRow

\* A command that begins with a copy of one slot record.
LEMMA CopyJobType ==
    ASSUME NEW s \in Slots, NEW r \in SlotRow, NEW pc \in CopySteps \ StartSteps
    PROVE  LET j == [IdleJob EXCEPT !.pc = pc, !.slot = s, !.copy[s] = r]
           IN j \in Job /\ WellFormed(j)
  <1> DEFINE j == [IdleJob EXCEPT !.pc = pc, !.slot = s, !.copy[s] = r]
  <1>1. j.copy \in [Slots -> SlotRow \cup {NoSlot}] /\ j.copy[s] = r
    BY DEF IdleJob
  <1>2. pc \in Steps
    BY DEF Steps, CopySteps, StartSteps, SyncSteps
  <1>3. j \in Job
    BY <1>1, <1>2, IdleJobType DEF IdleJob, Job, NoSession
  <1>4. QED
    BY <1>1, <1>3 DEF WellFormed, IdleJob, CopySteps, StartSteps, SyncSteps

LEMMA AcquireType ==
    ASSUME TypeInv, NEW a \in Actors, NEW t \in Tasks, NEW strat \in Strategies,
           Acquire(a, t, strat)
    PROVE TypeInv'
  <1>1. PICK s \in Slots, pc \in {"acquire.reuse", "acquire.create"}, r \in SlotRow :
          Set(a, [IdleJob EXCEPT !.pc = pc, !.slot = s, !.copy[s] = r])
    <2>1. ASSUME NEW s \in Reusable
          PROVE  [slots[s] EXCEPT !.task = t, !.status = "active"] \in SlotRow
      BY <2>1, SlotRowType, SlotRowUpdate DEF Reusable, SlotStatuses
    <2>2. [task |-> t, strat |-> strat, status |-> "active", dirty |-> FALSE] \in SlotRow
      BY DEF SlotRow, SlotStatuses
    <2>3. QED
      BY <2>1, <2>2 DEF Acquire, Reusable
  <1>2. QED
    BY <1>1, CopyJobType, SetType DEF Acquire, TypeInv, TypeOK, CopySteps, StartSteps

LEMMA GotoType ==
    ASSUME TypeInv, NEW a \in Actors, NEW pc \in Steps, Goto(a, pc),
           WellFormed([job[a] EXCEPT !.pc = pc])
    PROVE  job' \in [Actors -> Job] /\ \A b \in Actors : WellFormed(job'[b])
  <1>1. [job[a] EXCEPT !.pc = pc] \in Job
    BY ZenonT(60) DEF TypeInv, TypeOK, Job
  <1>2. QED
    BY <1>1, SetType DEF Goto

\* A command that works through a queue of slots, or ends.
LEMMA NextSlotType ==
    ASSUME TypeInv, NEW a \in Actors, NextSlot(a, "delete.get")
    PROVE  job' \in [Actors -> Job] /\ \A b \in Actors : WellFormed(job'[b])
  <1>1. CASE Finish(a)
    BY <1>1, FinishType
  <1>2. CASE Set(a, [IdleJob EXCEPT !.pc = "delete.get", !.queue = job[a].queue])
    <2>1. [IdleJob EXCEPT !.pc = "delete.get", !.queue = job[a].queue] \in Job
      BY IdleJobType DEF TypeInv, TypeOK, Job, Steps
    <2>2. WellFormed([IdleJob EXCEPT !.pc = "delete.get", !.queue = job[a].queue])
      BY DEF WellFormed, IdleJob, CopySteps, StartSteps, SyncSteps
    <2>3. QED
      BY <1>2, <2>1, <2>2, SetType
  <1>3. QED
    BY <1>1, <1>2 DEF NextSlot

LEMMA ResumeType ==
    ASSUME TypeInv, NEW a \in Actors, job[a].pc \in SyncSteps,
           NEW rest \in SUBSET [id: Sessions, row: SessionRow], Resume(a, rest)
    PROVE  job' \in [Actors -> Job] /\ \A b \in Actors : WellFormed(job'[b])
  <1>1. job[a] \in Job /\ WellFormed(job[a])
    BY DEF TypeInv, TypeOK
  <1>2. CASE Finish(a)
    BY <1>2, FinishType
  <1>3. CASE Set(a, [job[a] EXCEPT !.pc = "sync.check", !.todo = rest,
                                   !.sid = "none", !.srow = NoSession])
    <2> DEFINE j == [job[a] EXCEPT !.pc = "sync.check", !.todo = rest,
                                   !.sid = "none", !.srow = NoSession]
    <2>1. j \in Job
      BY <1>1 DEF Job, Steps, SyncSteps
    <2>2. WellFormed(j)
      BY <1>1 DEF Job, WellFormed, CopySteps, StartSteps, SyncSteps
    <2>3. QED
      BY <1>3, <2>1, <2>2, SetType
  <1>4. CASE Set(a, [job[a] EXCEPT !.pc = job[a].ret, !.ret = "idle", !.todo = {},
                                   !.sid = "none", !.srow = NoSession])
    <2> DEFINE j == [job[a] EXCEPT !.pc = job[a].ret, !.ret = "idle", !.todo = {},
                                   !.sid = "none", !.srow = NoSession]
    <2>1. j \in Job
      BY <1>1 DEF Job, Steps, SyncSteps
    <2>2. WellFormed(j)
      BY <1>1 DEF Job, WellFormed, CopySteps, StartSteps, SyncSteps
    <2>3. QED
      BY <1>4, <2>1, <2>2, SetType
  <1>5. QED
    BY <1>2, <1>3, <1>4 DEF Resume

-----------------------------------------------------------------------------
(* Type correctness, one lemma per group of actions *)

LEMMA RepoType ==
    ASSUME TypeInv, NEW a \in Actors,
           RepoAdd(a) \/ RepoRemove(a) \/ RemoveSessions(a) \/ RemoveSlots(a)
             \/ RemoveRepo(a)
    PROVE  TypeInv'
  <1>1. ASSUME NEW pc \in {"remove.sessions", "remove.slots", "remove.repo"}
        PROVE  pc \in Steps /\ WellFormed([job[a] EXCEPT !.pc = pc])
    BY <1>1 DEF TypeInv, TypeOK, Job, WellFormed, Steps, CopySteps, StartSteps, SyncSteps
  <1>2. CASE RepoAdd(a)
    BY <1>2 DEF RepoAdd, TypeInv, TypeOK
  <1>3. CASE RepoRemove(a)
    BY <1>1, <1>3, GotoType DEF RepoRemove, TypeInv, TypeOK
  <1>4. CASE RemoveSessions(a)
    BY <1>1, <1>4, GotoType DEF RemoveSessions, TypeInv, TypeOK
  <1>5. CASE RemoveSlots(a)
    BY <1>1, <1>5, GotoType DEF RemoveSlots, TypeInv, TypeOK
  <1>6. CASE RemoveRepo(a)
    BY <1>6, FinishType DEF RemoveRepo, TypeInv, TypeOK
  <1>7. QED
    BY <1>2, <1>3, <1>4, <1>5, <1>6

LEMMA SyncListType ==
    ASSUME TypeInv, NEW a \in Actors, SyncList(a) PROVE TypeInv'
  <1> DEFINE listed == {[id |-> x, row |-> sess[x]] :
                          x \in {y \in Sessions : sess[y].status = "running"}}
  <1>1. listed \in SUBSET [id: Sessions, row: SessionRow]
    BY DEF TypeInv, TypeOK, NoSession
  <1>2. job[a].pc \in SyncSteps
    BY DEF SyncList, At, SyncSteps
  <1>3. QED
    BY <1>1, <1>2, ResumeType DEF SyncList, TypeInv, TypeOK

LEMMA SyncCheckType ==
    ASSUME TypeInv, NEW a \in Actors, SyncCheck(a) PROVE TypeInv'
  <1>1. job[a] \in Job /\ WellFormed(job[a]) /\ job[a].pc = "sync.check"
    BY DEF TypeInv, TypeOK, SyncCheck, At
  <1>2. job[a].pc \in SyncSteps
    BY <1>1 DEF SyncSteps
  <1>3. PICK p \in job[a].todo, st \in {"completed", "failed"} :
          /\ \/ Resume(a, job[a].todo \ {p})
             \/ Set(a, [job[a] EXCEPT !.pc = "sync.put", !.todo = @ \ {p}, !.sid = p.id,
                                      !.srow = [p.row EXCEPT !.status = st]])
          /\ \/ UNCHANGED proc
             \/ proc' = [proc EXCEPT ![p.id] = IF @ = "live" THEN "none" ELSE @]
    BY DEF SyncCheck, Verdict
  <1>4. p \in [id: Sessions, row: SessionRow]
    BY <1>1, <1>3 DEF Job
  <1>5. proc' \in [Sessions -> ProcStates]
    BY <1>3, <1>4 DEF TypeInv, TypeOK, ProcStates
  <1>6. CASE Resume(a, job[a].todo \ {p})
    <2>1. job[a].todo \ {p} \in SUBSET [id: Sessions, row: SessionRow]
      BY <1>1 DEF Job
    <2>2. QED
      BY <1>2, <1>5, <1>6, <2>1, ResumeType DEF SyncCheck, TypeInv, TypeOK
  <1>7. CASE Set(a, [job[a] EXCEPT !.pc = "sync.put", !.todo = @ \ {p}, !.sid = p.id,
                                   !.srow = [p.row EXCEPT !.status = st]])
    <2> DEFINE r == [p.row EXCEPT !.status = st]
               j == [job[a] EXCEPT !.pc = "sync.put", !.todo = @ \ {p}, !.sid = p.id,
                                   !.srow = r]
    <2>1. r \in SessionRow
      BY <1>3, <1>4 DEF SessionRow, SessionStatuses, Terminal
    <2>2. j \in Job
      BY <1>1, <1>4, <2>1 DEF Job, Steps, SyncSteps
    <2>3. WellFormed(j)
      BY <1>1, <1>4, <2>1 DEF Job, WellFormed, CopySteps, StartSteps, SyncSteps
    <2>4. QED
      BY <1>5, <1>7, <2>2, <2>3, SetType DEF SyncCheck, TypeInv, TypeOK
  <1>8. QED
    BY <1>3, <1>6, <1>7

LEMMA SyncPutType ==
    ASSUME TypeInv, NEW a \in Actors, SyncPut(a) PROVE TypeInv'
  <1>1. job[a] \in Job /\ WellFormed(job[a]) /\ job[a].pc = "sync.put"
    BY DEF TypeInv, TypeOK, SyncPut, At
  <1>2. job[a].srow \in SessionRow /\ job[a].pc \in SyncSteps
    BY <1>1 DEF WellFormed, SyncSteps
  <1>3. job[a].todo \in SUBSET [id: Sessions, row: SessionRow]
    BY <1>1 DEF Job
  <1>4. QED
    BY <1>2, <1>3, ResumeType DEF SyncPut, TypeInv, TypeOK

LEMMA AcquireStepsType ==
    ASSUME TypeInv, NEW a \in Actors,
           AcquireReuse(a) \/ AcquireCreate(a) \/ AcquirePut(a)
    PROVE  TypeInv'
  <1>1. job[a] \in Job /\ WellFormed(job[a])
    BY DEF TypeInv, TypeOK
  <1> DEFINE s == job[a].slot
  <1>2. s \in Slots /\ job[a].copy[s] \in SlotRow
    BY <1>1 DEF AcquireReuse, AcquireCreate, AcquirePut, At, WellFormed, CopySteps
  <1>3. job[a].copy[s].task \in Heads /\ job[a].copy[s].task \in Tasks
    BY <1>2 DEF SlotRow, Heads
  <1>4. "acquire.put" \in Steps /\ WellFormed([job[a] EXCEPT !.pc = "acquire.put"])
    BY <1>1, <1>2 DEF Job, WellFormed, Steps, CopySteps, StartSteps, SyncSteps
  <1>5. CASE AcquireReuse(a)
    <2>1. trees' \in [Slots -> Tree \cup {NoTree, LostTree}]
      BY <1>2, <1>3, <1>5
      DEF AcquireReuse, TypeInv, TypeOK, Tree, NoTree, LostTree, OnDisk
    <2>2. saved' \in [Slots -> SUBSET Tasks]
      BY <1>2, <1>5 DEF AcquireReuse, TypeInv, TypeOK
    <2>3. QED
      BY <1>4, <1>5, <2>1, <2>2, GotoType DEF AcquireReuse, TypeInv, TypeOK
  <1>6. CASE AcquireCreate(a)
    <2>1. trees' \in [Slots -> Tree \cup {NoTree, LostTree}]
      BY <1>2, <1>3, <1>6 DEF AcquireCreate, TypeInv, TypeOK, Tree
    <2>2. QED
      BY <1>4, <1>6, <2>1, GotoType DEF AcquireCreate, TypeInv, TypeOK
  <1>7. CASE AcquirePut(a)
    BY <1>2, <1>7, FinishType DEF AcquirePut, TypeInv, TypeOK
  <1>8. QED
    BY <1>5, <1>6, <1>7

LEMMA RefreshedType ==
    ASSUME NEW s \in Slots, NEW r \in SlotRow, TypeOK
    PROVE  Refreshed(r, s) \in SlotRow
  <1>1. DirtyTree(s) \in BOOLEAN
    BY DEF TypeOK, DirtyTree, OnDisk, Tree, NoTree, LostTree
  <1>2. QED
    BY <1>1, SlotRowUpdate DEF Refreshed, SlotStatuses

LEMMA ReleaseType ==
    ASSUME TypeInv, NEW a \in Actors, NEW s \in Slots, Release(a, s)
    PROVE  TypeInv'
  <1> DEFINE j == [IdleJob EXCEPT !.pc = "sync.list", !.ret = "release.check",
                          !.slot = s, !.copy[s] = slots[s]]
  <1>1. slots[s] \in SlotRow
    BY DEF Release, TypeInv, TypeOK
  <1>2. j.copy \in [Slots -> SlotRow \cup {NoSlot}] /\ j.copy[s] = slots[s]
    BY <1>1 DEF IdleJob
  <1>3. j \in Job
    BY <1>2, IdleJobType DEF IdleJob, Job, NoSession, Steps, SyncSteps
  <1>4. WellFormed(j)
    BY <1>1, <1>2, <1>3 DEF WellFormed, IdleJob, CopySteps, StartSteps, SyncSteps
  <1>5. QED
    BY <1>3, <1>4, SetType DEF Release, TypeInv, TypeOK

LEMMA ReleaseCheckType ==
    ASSUME TypeInv, NEW a \in Actors, ReleaseCheck(a) PROVE TypeInv'
  <1> DEFINE s == job[a].slot
             j == [job[a] EXCEPT !.pc = "release.git", !.copy[s] = Refreshed(@, s)]
  <1>1. job[a] \in Job /\ WellFormed(job[a])
    BY DEF TypeInv, TypeOK
  <1>2. s \in Slots /\ job[a].copy[s] \in SlotRow
    BY <1>1 DEF ReleaseCheck, At, WellFormed, CopySteps
  <1>3. Refreshed(job[a].copy[s], s) \in SlotRow
    BY <1>2, RefreshedType DEF TypeInv
  <1>4. j \in Job
    BY <1>1, <1>2, <1>3 DEF Job, Steps
  <1>5. WellFormed(j)
    BY <1>1, <1>2, <1>3 DEF Job, WellFormed, CopySteps, StartSteps, SyncSteps
  <1>6. QED
    BY <1>4, <1>5, FinishType, SetType DEF ReleaseCheck, TypeInv, TypeOK

LEMMA ReleaseGitType ==
    ASSUME TypeInv, NEW a \in Actors, ReleaseGit(a) PROVE TypeInv'
  <1> DEFINE s == job[a].slot
             r == [job[a].copy[s] EXCEPT !.status = "released", !.dirty = FALSE]
             j == [job[a] EXCEPT !.pc = "release.put", !.copy[s].status = "released",
                                 !.copy[s].dirty = FALSE]
  <1>1. job[a] \in Job /\ WellFormed(job[a])
    BY DEF TypeInv, TypeOK
  <1>2. s \in Slots /\ job[a].copy[s] \in SlotRow
    BY <1>1 DEF ReleaseGit, At, WellFormed, CopySteps
  <1>3. r \in SlotRow
    BY <1>2, SlotRowUpdate DEF SlotStatuses
  <1>4. j = [job[a] EXCEPT !.pc = "release.put", !.copy[s] = r]
    BY <1>1, <1>2 DEF Job
  <1>5. j \in Job
    BY <1>1, <1>2, <1>3, <1>4, ZenonT(60) DEF Job, Steps
  <1>6. WellFormed(j)
    BY <1>1, <1>2, <1>3, <1>4 DEF Job, WellFormed, CopySteps, StartSteps, SyncSteps
  <1>7. trees' \in [Slots -> Tree \cup {NoTree, LostTree}]
    BY <1>2 DEF ReleaseGit, TypeInv, TypeOK, OnDisk, Tree, NoTree, LostTree, Heads
  <1>8. QED
    BY <1>5, <1>6, <1>7, SetType DEF ReleaseGit, TypeInv, TypeOK

LEMMA ReleasePutType ==
    ASSUME TypeInv, NEW a \in Actors, ReleasePut(a) PROVE TypeInv'
  <1>1. job[a].slot \in Slots /\ job[a].copy[job[a].slot] \in SlotRow
    BY DEF ReleasePut, At, TypeInv, WellFormed, CopySteps
  <1>2. QED
    BY <1>1, FinishType DEF ReleasePut, TypeInv, TypeOK

\* A delete that has read its slot goes on with a sync.
LEMMA DeleteJobType ==
    ASSUME TypeInv, NEW s \in Slots, slots[s] # NoSlot,
           NEW known \in BOOLEAN, NEW queue \in SUBSET Slots
    PROVE  LET j == [IdleJob EXCEPT !.pc = "sync.list", !.ret = "delete.check", !.slot = s,
                          !.copy[s] = slots[s], !.known = known, !.queue = queue]
           IN j \in Job /\ WellFormed(j)
  <1> DEFINE j == [IdleJob EXCEPT !.pc = "sync.list", !.ret = "delete.check", !.slot = s,
                          !.copy[s] = slots[s], !.known = known, !.queue = queue]
  <1>1. slots[s] \in SlotRow
    BY DEF TypeInv, TypeOK
  <1>2. j.copy \in [Slots -> SlotRow \cup {NoSlot}] /\ j.copy[s] = slots[s]
    BY <1>1 DEF IdleJob
  <1>3. j \in Job
    BY <1>2, IdleJobType, ZenonT(60) DEF IdleJob, Job, NoSession, Steps, SyncSteps
  <1>4. QED
    BY <1>1, <1>2, <1>3 DEF WellFormed, IdleJob, CopySteps, StartSteps, SyncSteps

LEMMA DeleteGetType ==
    ASSUME TypeInv, NEW a \in Actors, DeleteGet(a) PROVE TypeInv'
  <1>1. PICK s \in job[a].queue :
          IF slots[s] # NoSlot
          THEN Set(a, [IdleJob EXCEPT !.pc = "sync.list", !.ret = "delete.check",
                           !.slot = s, !.copy[s] = slots[s], !.known = repo,
                           !.queue = job[a].queue \ {s}])
          ELSE \/ Finish(a)
               \/ Set(a, [IdleJob EXCEPT !.pc = "delete.get",
                                         !.queue = job[a].queue \ {s}])
    BY DEF DeleteGet
  <1>2. s \in Slots /\ job[a].queue \ {s} \in SUBSET Slots
    BY DEF TypeInv, TypeOK, Job
  <1>3. CASE slots[s] # NoSlot
    BY <1>1, <1>2, <1>3, DeleteJobType, SetType DEF DeleteGet, TypeInv, TypeOK
  <1>4. CASE Finish(a)
    BY <1>4, FinishType DEF DeleteGet, TypeInv, TypeOK
  <1>5. CASE Set(a, [IdleJob EXCEPT !.pc = "delete.get", !.queue = job[a].queue \ {s}])
    <2> DEFINE j == [IdleJob EXCEPT !.pc = "delete.get", !.queue = job[a].queue \ {s}]
    <2>1. j \in Job
      BY <1>2, IdleJobType DEF Job, Steps
    <2>2. WellFormed(j)
      BY DEF WellFormed, IdleJob, CopySteps, StartSteps, SyncSteps
    <2>3. QED
      BY <1>5, <2>1, <2>2, SetType DEF DeleteGet, TypeInv, TypeOK
  <1>6. QED
    BY <1>1, <1>3, <1>4, <1>5

LEMMA DeleteStepsType ==
    ASSUME TypeInv, NEW a \in Actors, DeleteCheck(a) \/ DeleteGit(a) \/ DeleteRow(a)
    PROVE  TypeInv'
  <1> DEFINE s == job[a].slot
  <1>1. job[a] \in Job /\ WellFormed(job[a])
    BY DEF TypeInv, TypeOK
  <1>2. s \in Slots /\ job[a].copy[s] \in SlotRow
    BY <1>1 DEF DeleteCheck, DeleteGit, DeleteRow, At, WellFormed, CopySteps
  <1>3. ASSUME NEW pc \in {"delete.git", "delete.row"}
        PROVE  pc \in Steps /\ WellFormed([job[a] EXCEPT !.pc = pc])
    BY <1>1, <1>2, <1>3 DEF Job, WellFormed, Steps, CopySteps, StartSteps, SyncSteps
  <1>4. CASE DeleteCheck(a)
    <2>1. \/ NextSlot(a, "delete.get")
          \/ \E pc \in {"delete.git", "delete.row"} : Goto(a, pc)
      BY <1>4 DEF DeleteCheck
    <2>2. QED
      BY <1>3, <1>4, <2>1, NextSlotType, GotoType DEF DeleteCheck, TypeInv, TypeOK
  <1>5. CASE DeleteGit(a)
    <2>1. trees' \in [Slots -> Tree \cup {NoTree, LostTree}]
      BY <1>5 DEF DeleteGit, TypeInv, TypeOK
    <2>2. QED
      BY <1>3, <1>5, <2>1, GotoType DEF DeleteGit, TypeInv, TypeOK
  <1>6. CASE DeleteRow(a)
    BY <1>6, NextSlotType DEF DeleteRow, TypeInv, TypeOK
  <1>7. QED
    BY <1>4, <1>5, <1>6

\* Commands that begin with nothing but a queue or a place to return to.
LEMMA BeginType ==
    ASSUME TypeInv, NEW a \in Actors,
           \/ Prune(a) \/ PruneList(a) \/ Review(a)
           \/ \E s \in Slots : Delete(a, s)
    PROVE  TypeInv'
  <1>1. ASSUME NEW queue \in SUBSET Slots
        PROVE  LET j == [IdleJob EXCEPT !.pc = "delete.get", !.queue = queue]
               IN j \in Job /\ WellFormed(j)
    BY IdleJobType, ZenonT(60) DEF IdleJob, Job, Steps, WellFormed, CopySteps, StartSteps, SyncSteps
  <1>2. ASSUME NEW ret \in {"prune.list", "review.list"}
        PROVE  LET j == [IdleJob EXCEPT !.pc = "sync.list", !.ret = ret]
               IN j \in Job /\ WellFormed(j)
    BY IdleJobType, ZenonT(60) DEF IdleJob, Job, Steps, WellFormed, CopySteps, StartSteps, SyncSteps
  <1>3. CASE Prune(a)
    BY <1>2, <1>3, SetType DEF Prune, TypeInv, TypeOK
  <1>4. CASE Review(a)
    BY <1>2, <1>4, SetType DEF Review, TypeInv, TypeOK
  <1>5. CASE PruneList(a)
    BY <1>1, <1>5, FinishType, SetType DEF PruneList, TypeInv, TypeOK
  <1>6. CASE \E s \in Slots : Delete(a, s)
    BY <1>1, <1>6, SetType DEF Delete, TypeInv, TypeOK
  <1>7. QED
    BY <1>3, <1>4, <1>5, <1>6

LEMMA RefreshType ==
    ASSUME TypeInv, NEW a \in Actors, NEW s \in Slots, Refresh(a, s)
    PROVE  TypeInv'
  <1> DEFINE j == [IdleJob EXCEPT !.pc = "refresh.git", !.queue = {s}, !.copy[s] = slots[s]]
  <1>1. slots[s] \in SlotRow
    BY DEF Refresh, TypeInv, TypeOK
  <1>2. j.copy \in [Slots -> SlotRow \cup {NoSlot}] /\ j.copy[s] = slots[s]
    BY <1>1 DEF IdleJob
  <1>3. j \in Job
    BY <1>2, IdleJobType, ZenonT(60) DEF IdleJob, Job, NoSession, Steps
  <1>4. WellFormed(j)
    BY <1>1, <1>2, <1>3 DEF WellFormed, IdleJob, CopySteps, StartSteps, SyncSteps
  <1>5. QED
    BY <1>3, <1>4, SetType DEF Refresh, TypeInv, TypeOK

LEMMA RefreshGitType ==
    ASSUME TypeInv, NEW a \in Actors, RefreshGit(a) PROVE TypeInv'
  <1>1. job[a] \in Job /\ WellFormed(job[a]) /\ job[a].pc = "refresh.git"
    BY DEF TypeInv, TypeOK, RefreshGit, At
  <1>2. "writeback" \in Steps /\ WellFormed([job[a] EXCEPT !.pc = "writeback"])
    BY <1>1 DEF Job, WellFormed, Steps, CopySteps, StartSteps, SyncSteps
  <1>3. Goto(a, "writeback") \/ Finish(a)
    BY DEF RefreshGit
  <1>4. trees' \in [Slots -> Tree \cup {NoTree, LostTree}]
    BY DEF RefreshGit, TypeInv, TypeOK, OnDisk, Tree, NoTree, LostTree, Heads
  <1>5. QED
    BY <1>2, <1>3, <1>4, FinishType, GotoType DEF RefreshGit, TypeInv, TypeOK

LEMMA ReviewListType ==
    ASSUME TypeInv, NEW a \in Actors, ReviewList(a) PROVE TypeInv'
  <1> DEFINE listed == {s \in Slots : slots[s].status \in {"active", "released"}}
             copy == [s \in Slots |-> IF s \in listed THEN slots[s] ELSE NoSlot]
             j == [IdleJob EXCEPT !.pc = "writeback", !.queue = listed, !.copy = copy]
  <1>1. \A s \in listed : copy[s] \in SlotRow
    BY SlotRowType
  <1>2. copy \in [Slots -> SlotRow \cup {NoSlot}]
    BY <1>1
  <1>3. j \in Job
    BY <1>2, IdleJobType DEF Job, Steps
  <1>4. WellFormed(j)
    BY <1>1, <1>3 DEF WellFormed, IdleJob, CopySteps, StartSteps, SyncSteps
  <1>5. QED
    BY <1>3, <1>4, FinishType, SetType DEF ReviewList, TypeInv, TypeOK

LEMMA WriteBackType ==
    ASSUME TypeInv, NEW a \in Actors, WriteBack(a) PROVE TypeInv'
  <1>1. job[a] \in Job /\ WellFormed(job[a]) /\ job[a].pc = "writeback"
    BY DEF TypeInv, TypeOK, WriteBack, At
  <1>2. PICK s \in job[a].queue :
          /\ slots' = [slots EXCEPT ![s] = Refreshed(job[a].copy[s], s)]
          /\ \/ Finish(a)
             \/ Set(a, [job[a] EXCEPT !.queue = @ \ {s}, !.copy[s] = NoSlot])
    BY DEF WriteBack
  <1>3. s \in Slots /\ job[a].copy[s] \in SlotRow
    BY <1>1 DEF Job, WellFormed
  <1>4. Refreshed(job[a].copy[s], s) \in SlotRow
    BY <1>3, RefreshedType DEF TypeInv
  <1>5. slots' \in [Slots -> SlotRow \cup {NoSlot}]
    BY <1>2, <1>3, <1>4 DEF TypeInv, TypeOK
  <1>6. [job[a] EXCEPT !.queue = @ \ {s}, !.copy[s] = NoSlot] \in Job
    BY <1>1, <1>3 DEF Job
  <1>7. WellFormed([job[a] EXCEPT !.queue = @ \ {s}, !.copy[s] = NoSlot])
    BY <1>1, <1>3 DEF Job, WellFormed, CopySteps, StartSteps, SyncSteps
  <1>8. QED
    BY <1>2, <1>5, <1>6, <1>7, FinishType, SetType DEF WriteBack, TypeInv, TypeOK

LEMMA StartType ==
    ASSUME TypeInv, NEW a \in Actors, NEW s \in Slots, NEW ro \in BOOLEAN,
           NEW mode \in Modes, Start(a, s, ro, mode)
    PROVE  TypeInv'
  <1> DEFINE r == [slot |-> s, ro |-> ro, mode |-> mode, started |-> FALSE,
                   status |-> IF mode = "dry" THEN "prepared" ELSE "running"]
             J(x) == [IdleJob EXCEPT !.pc = "start.refresh", !.slot = s,
                        !.copy[s] = slots[s], !.sid = x, !.srow = r]
  <1>1. PICK x \in Sessions : Set(a, J(x))
    BY DEF Start
  <1>2. r \in SessionRow
    BY DEF SessionRow, SessionStatuses
  <1>3. slots[s] \in SlotRow
    BY DEF Start, TypeInv, TypeOK
  <1>4. J(x).copy \in [Slots -> SlotRow \cup {NoSlot}] /\ J(x).copy[s] = slots[s]
    BY <1>3 DEF IdleJob
  <1>5. J(x) \in Job
    BY <1>2, <1>4, IdleJobType, ZenonT(60) DEF IdleJob, Job, Steps, StartSteps
  <1>6. WellFormed(J(x))
    BY <1>2, <1>3, <1>4, <1>5 DEF WellFormed, IdleJob, CopySteps, StartSteps, SyncSteps
  <1>7. QED
    BY <1>1, <1>5, <1>6, SetType DEF Start, TypeInv, TypeOK

LEMMA StartStepsType ==
    ASSUME TypeInv, NEW a \in Actors,
           \/ StartRefresh(a) \/ StartCheck(a) \/ StartInsert(a) \/ StartLaunch(a)
           \/ StartWait(a) \/ StartPut(a) \/ StartFail(a)
    PROVE  TypeInv'
  <1> DEFINE s == job[a].slot
             x == job[a].sid
             r == job[a].srow
  <1>1. job[a] \in Job /\ WellFormed(job[a]) /\ job[a].pc \in StartSteps
    BY DEF TypeInv, TypeOK, StartRefresh, StartCheck, StartInsert, StartLaunch,
           StartWait, StartPut, StartFail, At, StartSteps
  <1>2. s \in Slots /\ x \in Sessions /\ r \in SessionRow /\ r.slot = s
    BY <1>1 DEF WellFormed
  <1>3. ASSUME NEW pc \in StartSteps \ {"start.refresh"}
        PROVE  pc \in Steps /\ WellFormed([job[a] EXCEPT !.pc = pc])
    BY <1>1, <1>2, <1>3 DEF Job, WellFormed, Steps, CopySteps, StartSteps, SyncSteps
  <1>4. ASSUME NEW pc \in StartSteps \ {"start.refresh"}, Goto(a, pc)
        PROVE  job' \in [Actors -> Job] /\ \A b \in Actors : WellFormed(job'[b])
    BY <1>3, <1>4, GotoType
  <1>5. CASE StartRefresh(a)
    <2>1. job[a].copy[s] \in SlotRow
      BY <1>1, <1>5 DEF StartRefresh, At, WellFormed, CopySteps
    <2>2. slots' \in [Slots -> SlotRow \cup {NoSlot}]
      BY <1>2, <1>5, <2>1, RefreshedType DEF StartRefresh, TypeInv, TypeOK
    <2> DEFINE j == [job[a] EXCEPT !.pc = "start.check", !.copy[s] = NoSlot]
    <2>3. j \in Job
      BY <1>1, <1>2 DEF Job, Steps, StartSteps
    <2>4. WellFormed(j)
      BY <1>1, <1>2 DEF Job, WellFormed, CopySteps, StartSteps, SyncSteps
    <2>5. QED
      BY <1>5, <2>2, <2>3, <2>4, FinishType, SetType DEF StartRefresh, TypeInv, TypeOK
  <1>6. CASE StartCheck(a)
    BY <1>4, <1>6, FinishType DEF StartCheck, StartSteps, TypeInv, TypeOK
  <1>7. CASE StartInsert(a)
    <2>1. \E pc \in {"start.put", "start.launch"} : Goto(a, pc)
      BY <1>7 DEF StartInsert
    <2>2. sess' \in [Sessions -> SessionRow \cup {NoSession}]
      BY <1>2, <1>7 DEF StartInsert, TypeInv, TypeOK
    <2>3. proc' \in [Sessions -> ProcStates]
      BY <1>7 DEF StartInsert, TypeInv, TypeOK, ProcStates
    <2>4. QED
      BY <1>4, <1>7, <2>1, <2>2, <2>3 DEF StartInsert, StartSteps, TypeInv, TypeOK
  <1>8. CASE StartLaunch(a)
    <2>1. proc' \in [Sessions -> ProcStates]
      BY <1>8 DEF StartLaunch, TypeInv, TypeOK, ProcStates
    <2>2. PICK pc \in {"start.put", "start.wait"} :
            \/ Set(a, [job[a] EXCEPT !.srow.started = TRUE, !.pc = pc])
            \/ Goto(a, "start.fail")
      BY <1>8 DEF StartLaunch
    <2> DEFINE j == [job[a] EXCEPT !.srow.started = TRUE, !.pc = pc]
    <2>3. j.srow \in SessionRow /\ j.srow.slot = s
      BY <1>1, <1>2 DEF Job, SessionRow
    <2>4. j \in Job
      BY <1>1, <2>3 DEF Job, Steps, StartSteps
    <2>5. WellFormed(j)
      BY <1>1, <1>2, <2>3, <2>4 DEF Job, WellFormed, CopySteps, StartSteps, SyncSteps
    <2>6. QED
      BY <1>4, <1>8, <2>1, <2>2, <2>4, <2>5, SetType
      DEF StartLaunch, StartSteps, TypeInv, TypeOK
  <1>9. CASE StartWait(a)
    <2>1. proc' \in [Sessions -> ProcStates]
      BY <1>9 DEF StartWait, TypeInv, TypeOK, ProcStates
    <2>2. PICK st \in {"completed", "failed"} :
            Set(a, [job[a] EXCEPT !.pc = "start.put", !.srow.status = st])
      BY <1>9 DEF StartWait
    <2> DEFINE j == [job[a] EXCEPT !.pc = "start.put", !.srow.status = st]
    <2>3. j.srow \in SessionRow /\ j.srow.slot = s
      BY <1>1, <1>2 DEF Job, SessionRow, SessionStatuses, Terminal
    <2>4. j \in Job
      BY <1>1, <2>3 DEF Job, Steps, StartSteps
    <2>5. WellFormed(j)
      BY <1>1, <1>2, <2>3, <2>4 DEF Job, WellFormed, CopySteps, StartSteps, SyncSteps
    <2>6. QED
      BY <1>9, <2>1, <2>2, <2>4, <2>5, SetType DEF StartWait, TypeInv, TypeOK
  <1>10. CASE StartPut(a)
    BY <1>2, <1>10, FinishType DEF StartPut, TypeInv, TypeOK
  <1>11. CASE StartFail(a)
    <2>1. sess' \in [Sessions -> SessionRow \cup {NoSession}]
      BY <1>2, <1>11 DEF StartFail, TypeInv, TypeOK, SessionRow, SessionStatuses, Terminal
    <2>2. QED
      BY <1>11, <2>1, FinishType DEF StartFail, TypeInv, TypeOK
  <1>12. QED
    BY <1>5, <1>6, <1>7, <1>8, <1>9, <1>10, <1>11

LEMMA CancelType ==
    ASSUME TypeInv, NEW a \in Actors,
           \/ CancelPut(a)
           \/ \E x \in Sessions : Cancel(a, x) \/ DeleteSession(a, x)
    PROVE  TypeInv'
  <1>1. CASE CancelPut(a)
    <2>1. job[a].sid \in Sessions /\ job[a].srow \in SessionRow
      BY <1>1 DEF CancelPut, At, TypeInv, WellFormed
    <2>2. QED
      BY <1>1, <2>1, FinishType DEF CancelPut, TypeInv, TypeOK
  <1>2. ASSUME NEW x \in Sessions, Cancel(a, x)
        PROVE  TypeInv'
    <2> DEFINE r == [sess[x] EXCEPT !.status = "cancelled"]
               j == [IdleJob EXCEPT !.pc = "cancel.put", !.sid = x, !.srow = r]
    <2>1. sess[x] \in SessionRow
      <3>1. sess[x].status # "absent"
        BY <1>2 DEF Cancel, Pending
      <3>2. QED
        BY <3>1, SessionRowType
    <2>2. r \in SessionRow
      BY <2>1 DEF SessionRow, SessionStatuses, Terminal
    <2>3. j \in Job
      BY <2>2, IdleJobType DEF Job, Steps
    <2>4. WellFormed(j)
      BY <2>2, <2>3 DEF WellFormed, IdleJob, CopySteps, StartSteps, SyncSteps
    <2>5. QED
      BY <1>2, <2>3, <2>4, SetType DEF Cancel, TypeInv, TypeOK, ProcStates
  <1>3. ASSUME NEW x \in Sessions, DeleteSession(a, x)
        PROVE  TypeInv'
    BY <1>3 DEF DeleteSession, TypeInv, TypeOK
  <1>4. QED
    BY <1>1, <1>2, <1>3

LEMMA WorldType ==
    ASSUME TypeInv, World \/ \E a \in Actors : GitFails(a)
    PROVE  TypeInv'
  <1>1. ASSUME NEW x \in Sessions, Exit(x) PROVE TypeInv'
    BY <1>1 DEF Exit, TypeInv, TypeOK, ProcStates
  <1>2. ASSUME NEW s \in Slots, Edit(s) PROVE TypeInv'
    BY <1>2 DEF Edit, OnDisk, TypeInv, TypeOK, Tree, NoTree, LostTree
  <1>3. ASSUME NEW s \in Slots, Commit(s) PROVE TypeInv'
    <2>1. trees[s] \in Tree
      BY <1>3 DEF Commit, DirtyTree, OnDisk, TypeInv, TypeOK, NoTree, LostTree
    <2>2. {trees[s].head} \ {Detached} \subseteq Tasks
      BY <2>1 DEF Tree, Heads
    <2>3. QED
      BY <1>3, <2>1, <2>2 DEF Commit, TypeInv, TypeOK, Tree
  <1>4. ASSUME NEW s \in Slots, Lose(s) PROVE TypeInv'
    BY <1>4 DEF Lose, TypeInv, TypeOK
  <1>5. ASSUME NEW a \in Actors, Crash(a) PROVE TypeInv'
    BY <1>5, FinishType DEF Crash, TypeInv, TypeOK
  <1>6. ASSUME NEW a \in Actors, GitFails(a) PROVE TypeInv'
    BY <1>6, NextSlotType DEF GitFails, TypeInv, TypeOK
  <1>7. QED
    BY <1>1, <1>2, <1>3, <1>4, <1>5, <1>6 DEF World

LEMMA InitType == Init => TypeInv
  BY IdleJobType DEF Init, TypeInv, TypeOK, ProcStates

LEMMA NextType == TypeInv /\ [Next]_vars => TypeInv'
  <1> SUFFICES ASSUME TypeInv, [Next]_vars PROVE TypeInv'
    OBVIOUS
  <1>1. ASSUME NEW a \in Actors, Command(a) PROVE TypeInv'
    BY <1>1, RepoType, BeginType, AcquireType, ReleaseType, RefreshType, StartType,
       CancelType DEF Command
  <1>2. ASSUME NEW a \in Actors, Step(a) PROVE TypeInv'
    BY <1>2, RepoType, SyncListType, SyncCheckType, SyncPutType, AcquireStepsType,
       ReleaseCheckType, ReleaseGitType, ReleasePutType, BeginType, DeleteGetType,
       DeleteStepsType, RefreshGitType, ReviewListType, WriteBackType, StartStepsType,
       CancelType, WorldType DEF Step
  <1>3. CASE UNCHANGED vars
    BY <1>3 DEF vars, TypeInv, TypeOK
  <1>4. QED
    BY <1>1, <1>2, <1>3, PollType, WorldType DEF Next

\* Every table and every local record keeps its type, whatever the actors, the
\* faults and the interleaving: a record written back many steps after it was
\* read is still one the table may hold.
THEOREM TypeCorrect == Spec => []TypeOK
  <1>1. TypeInv => TypeOK
    BY DEF TypeInv
  <1>2. QED
    BY <1>1, InitType, NextType, PTL DEF Spec

-----------------------------------------------------------------------------
(* Writers.  With a single mutator (the daemon) and any number of actors   *)
(* that only take snapshots, at most one write-capable session is pending  *)
(* per slot: the half of IInv proved here.  Every fault the model knows is *)
(* allowed.  With two mutators it fails, as run workspace_race shows.      *)

\* At most one actor runs commands.
SingleMutator == \A a, b \in Mutators : a = b

-----------------------------------------------------------------------------
(* Control: what a snapshot or a cancel writes is terminal, and only       *)
(* mutators are inside a command                                           *)

\* Local state that keeps Control when actor a moves to it.
Controlled(a, j) ==
    /\ j.pc \in {"sync.put", "cancel.put"} => j.srow.status \in Terminal
    /\ a \in Mutators \/ (j.pc \in SyncSteps \cup {"idle"} /\ j.ret = "idle")

LEMMA SetControl ==
    ASSUME TypeInv, Control, NEW a \in Actors, NEW j, Set(a, j), Controlled(a, j)
    PROVE  Control'
  BY DEF TypeInv, TypeOK, Control, Controlled, WritesTerminal, Watching, Set

LEMMA FinishControl ==
    ASSUME TypeInv, Control, NEW a \in Actors, Finish(a)
    PROVE  Control'
  <1>1. Controlled(a, IdleJob)
    BY DEF Controlled, IdleJob, SyncSteps
  <1>2. QED
    BY <1>1, SetControl DEF Finish

\* An actor whose next step is not one of a sync is a mutator.
LEMMA InsideCommand ==
    ASSUME Control, NEW a \in Actors, job[a].pc \notin SyncSteps \cup {"idle"}
    PROVE  a \in Mutators
  BY DEF Control, Watching

LEMMA GotoControl ==
    ASSUME TypeInv, Control, NEW a \in Mutators, NEW pc, Goto(a, pc),
           pc \notin {"sync.put", "cancel.put"}
    PROVE  Control'
  <1>1. Controlled(a, [job[a] EXCEPT !.pc = pc])
    BY MutatorsAreActors DEF Controlled, TypeInv, TypeOK, Job
  <1>2. QED
    BY <1>1, SetControl, MutatorsAreActors DEF Goto

LEMMA NextSlotControl ==
    ASSUME TypeInv, Control, NEW a \in Mutators, NextSlot(a, "delete.get")
    PROVE  Control'
  <1>1. Controlled(a, [IdleJob EXCEPT !.pc = "delete.get", !.queue = job[a].queue])
    BY DEF Controlled, IdleJob
  <1>2. QED
    BY <1>1, SetControl, FinishControl, MutatorsAreActors DEF NextSlot

LEMMA ResumeControl ==
    ASSUME TypeInv, Control, NEW a \in Actors, job[a].pc \in SyncSteps,
           NEW rest, Resume(a, rest)
    PROVE  Control'
  <1>1. job[a] \in Job /\ (a \in Mutators \/ job[a].ret = "idle")
    BY DEF TypeInv, TypeOK, Control, Watching
  <1>2. Controlled(a, [job[a] EXCEPT !.pc = "sync.check", !.todo = rest,
                                     !.sid = "none", !.srow = NoSession])
    BY <1>1 DEF Controlled, Job, SyncSteps
  <1>3. job[a].ret # "idle" =>
          Controlled(a, [job[a] EXCEPT !.pc = job[a].ret, !.ret = "idle", !.todo = {},
                                       !.sid = "none", !.srow = NoSession])
    BY <1>1 DEF Controlled, Job
  <1>4. QED
    BY <1>2, <1>3, SetControl, FinishControl DEF Resume

LEMMA SyncControl ==
    ASSUME TypeInv, Control, NEW a \in Actors,
           Poll(a) \/ SyncList(a) \/ SyncCheck(a) \/ SyncPut(a)
    PROVE  Control'
  <1>1. CASE Poll(a)
    <2>1. Controlled(a, [IdleJob EXCEPT !.pc = "sync.list"])
      BY DEF Controlled, IdleJob, SyncSteps
    <2>2. QED
      BY <1>1, <2>1, SetControl DEF Poll
  <1>2. CASE SyncList(a)
    BY <1>2, ResumeControl, Zenon DEF SyncList, At, SyncSteps
  <1>3. CASE SyncCheck(a)
    <2>1. job[a] \in Job /\ job[a].pc \in SyncSteps
           /\ (a \in Mutators \/ job[a].ret = "idle")
      BY <1>3 DEF SyncCheck, At, SyncSteps, TypeInv, TypeOK, Control, Watching
    <2>2. ASSUME NEW p \in job[a].todo, NEW st \in {"completed", "failed"}
          PROVE  Controlled(a, [job[a] EXCEPT !.pc = "sync.put", !.todo = @ \ {p},
                                  !.sid = p.id, !.srow = [p.row EXCEPT !.status = st]])
      <3>1. p.row \in SessionRow
        BY <2>1 DEF Job
      <3>2. [p.row EXCEPT !.status = st].status \in Terminal
        BY <3>1 DEF SessionRow, Terminal
      <3>3. QED
        BY <2>1, <3>2 DEF Controlled, Job, SyncSteps
    <2>4. QED
      BY <1>3, <2>1, <2>2, SetControl, ResumeControl, ZenonT(60) DEF SyncCheck, Verdict
  <1>4. CASE SyncPut(a)
    BY <1>4, ResumeControl DEF SyncPut, At, SyncSteps
  <1>5. QED
    BY <1>1, <1>2, <1>3, <1>4

LEMMA CommandControl ==
    ASSUME TypeInv, Control, NEW a \in Actors, Command(a)
    PROVE  Control'
  <1>1. a \in Mutators
    BY DEF Command, RepoAdd, RepoRemove, Prune, Review, Acquire, Release, Delete, Refresh,
           Start, Cancel, DeleteSession, Ready
  <1>2. CASE UNCHANGED job
    BY <1>2 DEF Control, WritesTerminal, Watching
  <1>3. ASSUME NEW j, Set(a, j), j.pc \notin {"sync.put", "cancel.put"}
        PROVE  Control'
    BY <1>1, <1>3, SetControl DEF Controlled
  <1>4. CASE RepoRemove(a)
    BY <1>1, <1>4, GotoControl DEF RepoRemove
  <1>5. CASE Prune(a) \/ Review(a)
    BY <1>3, <1>5 DEF Prune, Review, IdleJob
  <1>6. ASSUME NEW t \in Tasks, NEW strat \in Strategies, Acquire(a, t, strat)
        PROVE  Control'
    BY <1>3, <1>6 DEF Acquire, IdleJob
  <1>7. ASSUME NEW s \in Slots, Release(a, s) \/ Delete(a, s) \/ Refresh(a, s)
        PROVE  Control'
    BY <1>3, <1>7 DEF Release, Delete, Refresh, IdleJob
  <1>8. ASSUME NEW s \in Slots, NEW ro \in BOOLEAN, NEW mode \in Modes,
               Start(a, s, ro, mode)
        PROVE  Control'
    BY <1>3, <1>8 DEF Start, IdleJob
  <1>9. ASSUME NEW x \in Sessions, Cancel(a, x)
        PROVE  Control'
    <2>1. sess[x].status # "absent"
      BY <1>9 DEF Cancel, Pending
    <2>2. sess[x] \in SessionRow
      BY <2>1, SessionRowType
    <2> DEFINE j == [IdleJob EXCEPT !.pc = "cancel.put", !.sid = x,
                                    !.srow = [sess[x] EXCEPT !.status = "cancelled"]]
    <2>3. j.srow.status = "cancelled"
      BY <2>2 DEF SessionRow, IdleJob
    <2>4. Controlled(a, j)
      BY <1>1, <2>3 DEF Controlled, Terminal
    <2>5. QED
      BY <1>9, <2>4, SetControl DEF Cancel
  <1>10. QED
    BY <1>2, <1>4, <1>5, <1>6, <1>7, <1>8, <1>9 DEF Command, RepoAdd, DeleteSession

LEMMA StepControl ==
    ASSUME TypeInv, Control, NEW a \in Actors, Step(a)
    PROVE  Control'
  <1>1. CASE SyncList(a) \/ SyncCheck(a) \/ SyncPut(a)
    BY <1>1, SyncControl
  <1>2. CASE ~(SyncList(a) \/ SyncCheck(a) \/ SyncPut(a))
    <2>1. a \in Mutators
      BY <1>2, InsideCommand, Zenon
      DEF Step, RemoveSessions, RemoveSlots, RemoveRepo, AcquireReuse, AcquireCreate,
          AcquirePut, ReleaseCheck, ReleaseGit, ReleasePut, PruneList, DeleteGet,
          DeleteCheck, DeleteGit, DeleteRow, RefreshGit, ReviewList, WriteBack,
          StartRefresh, StartCheck, StartInsert, StartLaunch, StartWait, StartPut,
          StartFail, CancelPut, GitFails, GitSteps, At, SyncSteps
    <2>2. ASSUME NEW j, Set(a, j), j.pc \notin {"sync.put", "cancel.put"}
          PROVE  Control'
      BY <2>1, <2>2, SetControl DEF Controlled
    <2>3. job[a] \in Job
      BY DEF TypeInv, TypeOK
    <2>4. CASE RemoveSessions(a) \/ RemoveSlots(a) \/ RemoveRepo(a)
      BY <2>1, <2>4, GotoControl, FinishControl DEF RemoveSessions, RemoveSlots, RemoveRepo
    <2>5. CASE AcquireReuse(a) \/ AcquireCreate(a) \/ AcquirePut(a)
      BY <2>1, <2>5, GotoControl, FinishControl DEF AcquireReuse, AcquireCreate, AcquirePut
    <2>6. CASE ReleaseCheck(a) \/ ReleaseGit(a) \/ ReleasePut(a)
      BY <2>2, <2>3, <2>6, FinishControl DEF ReleaseCheck, ReleaseGit, ReleasePut, Job
    <2>7. CASE PruneList(a) \/ DeleteGet(a)
      BY <2>2, <2>7, FinishControl DEF PruneList, DeleteGet, IdleJob
    <2>8. CASE DeleteCheck(a) \/ DeleteGit(a) \/ DeleteRow(a) \/ GitFails(a)
      BY <2>1, <2>8, GotoControl, NextSlotControl DEF DeleteCheck, DeleteGit, DeleteRow, GitFails
    <2>9. CASE RefreshGit(a) \/ ReviewList(a) \/ WriteBack(a)
      <3>1. CASE RefreshGit(a)
        BY <2>1, <3>1, GotoControl, FinishControl DEF RefreshGit
      <3>2. CASE ReviewList(a)
        BY <2>2, <3>2, FinishControl DEF ReviewList, IdleJob
      <3>3. CASE WriteBack(a)
        <4>1. job[a].pc = "writeback"
          BY <3>3 DEF WriteBack, At
        <4>2. QED
          BY <2>2, <2>3, <3>3, <4>1, FinishControl DEF WriteBack, Job
      <3>4. QED
        BY <2>9, <3>1, <3>2, <3>3
    <2>10. CASE StartRefresh(a) \/ StartCheck(a) \/ StartInsert(a)
      <3>1. CASE StartRefresh(a)
        BY <2>2, <2>3, <3>1, FinishControl DEF StartRefresh, Job
      <3>2. QED
        BY <2>1, <2>10, <3>1, GotoControl, FinishControl DEF StartCheck, StartInsert
    <2>11. CASE StartLaunch(a) \/ StartWait(a) \/ StartPut(a) \/ StartFail(a)
      <3>1. CASE StartLaunch(a)
        BY <2>1, <2>2, <2>3, <3>1, GotoControl DEF StartLaunch, Job
      <3>2. CASE StartWait(a)
        BY <2>2, <2>3, <3>2 DEF StartWait, Job
      <3>3. QED
        BY <2>11, <3>1, <3>2, FinishControl DEF StartPut, StartFail
    <2>12. CASE CancelPut(a)
      BY <2>12, FinishControl DEF CancelPut
    <2>13. QED
      BY <1>2, <2>4, <2>5, <2>6, <2>7, <2>8, <2>9, <2>10, <2>11, <2>12, Zenon DEF Step
  <1>3. QED
    BY <1>1, <1>2

LEMMA NextControl == TypeInv /\ Control /\ [Next]_vars => Control'
  <1> SUFFICES ASSUME TypeInv, Control, [Next]_vars PROVE Control'
    OBVIOUS
  <1>1. CASE UNCHANGED job
    BY <1>1 DEF Control, WritesTerminal, Watching
  <1>2. CASE World
    BY <1>1, <1>2, FinishControl DEF World, Exit, Edit, Commit, Lose, Crash
  <1>3. QED
    BY <1>1, <1>2, SyncControl, CommandControl, StepControl DEF Next, vars

-----------------------------------------------------------------------------
(* Exclusive: the sessions table                                           *)

\* No session becomes pending, and those that stay so keep their slot.
Fewer ==
    \A x \in Sessions : Pending(x)' =>
        Pending(x) /\ sess'[x].slot = sess[x].slot /\ sess'[x].ro = sess[x].ro

LEMMA FewerSubsets ==
    ASSUME Fewer, NEW s
    PROVE  PendingOn(s)' \subseteq PendingOn(s) /\ WritersOn(s)' \subseteq WritersOn(s)
  BY DEF Fewer, PendingOn, WritersOn

\* Storing a terminal record, or dropping a row, makes nothing pending.
LEMMA EndedFewer ==
    ASSUME TypeInv, NEW x \in Sessions, NEW r, r.status \notin {"prepared", "running"},
           sess' = [sess EXCEPT ![x] = r]
    PROVE  Fewer
  BY DEF TypeInv, TypeOK, Fewer, Pending

\* A step of an actor, its crash included; the other steps change neither the
\* tables nor what an actor is doing.
ActsNow(a) == Poll(a) \/ Command(a) \/ Step(a) \/ Crash(a)

LEMMA ActorOrWorld ==
    ASSUME [Next]_vars
    PROVE  (\E a \in Actors : ActsNow(a)) \/ UNCHANGED <<repo, slots, sess, job>>
  BY DEF Next, World, Exit, Edit, Commit, Lose, vars, ActsNow

\* The steps of an actor that store rows.
LEMMA RowsOfActor ==
    ASSUME NEW a \in Actors, ActsNow(a)
    PROVE  \/ UNCHANGED sess
           \/ SyncPut(a) \/ CancelPut(a) \/ StartPut(a) \/ StartInsert(a)
           \/ StartFail(a) \/ RemoveSessions(a) \/ \E x \in Sessions : DeleteSession(a, x)
<1>1. ASSUME Command(a), ~\E y \in Sessions : DeleteSession(a, y) PROVE UNCHANGED sess
  BY <1>1, Zenon DEF Command, RepoAdd, RepoRemove, Prune, Review, Acquire, Release, Delete,
              Refresh, Start, Cancel
<1>2. ASSUME Step(a),
             ~(\/ SyncPut(a) \/ CancelPut(a) \/ StartPut(a) \/ StartFail(a)
               \/ StartInsert(a) \/ RemoveSessions(a))
      PROVE  UNCHANGED sess
  <2>1. CASE \/ RemoveSlots(a) \/ RemoveRepo(a) \/ SyncList(a) \/ SyncCheck(a)
             \/ AcquireReuse(a) \/ AcquireCreate(a) \/ AcquirePut(a)
             \/ ReleaseCheck(a) \/ ReleaseGit(a) \/ ReleasePut(a)
    BY <2>1, ZenonT(60)
    DEF RemoveSlots, RemoveRepo, SyncList, SyncCheck, AcquireReuse, AcquireCreate,
        AcquirePut, ReleaseCheck, ReleaseGit, ReleasePut
  <2>2. CASE \/ PruneList(a) \/ DeleteGet(a) \/ DeleteCheck(a) \/ DeleteGit(a)
             \/ DeleteRow(a) \/ RefreshGit(a) \/ ReviewList(a) \/ WriteBack(a)
             \/ StartRefresh(a) \/ StartCheck(a) \/ StartLaunch(a) \/ StartWait(a)
             \/ GitFails(a)
    BY <2>2, Zenon DEF PruneList, DeleteGet, DeleteCheck, DeleteGit, DeleteRow, RefreshGit,
                ReviewList, WriteBack, StartRefresh, StartCheck, StartLaunch, StartWait,
                GitFails
  <2> QED
    BY <1>2, <2>1, <2>2 DEF Step
<1> QED
  BY <1>1, <1>2 DEF ActsNow, Poll, Crash

\* Only a start makes a session pending.
LEMMA SessionsOfStep ==
    ASSUME TypeInv, Control, [Next]_vars
    PROVE  Fewer \/ \E a \in Actors : StartInsert(a) \/ StartPut(a)
  <1>1. CASE UNCHANGED sess
    BY <1>1 DEF Fewer, Pending
  <1>2. ASSUME NEW a \in Actors, RemoveSessions(a) PROVE Fewer
    BY <1>2 DEF RemoveSessions, Fewer, Pending, NoSession
  <1>3. ASSUME NEW a \in Actors, SyncPut(a) \/ CancelPut(a) PROVE Fewer
    <2>1. job[a].srow.status \in Terminal /\ job[a].sid \in Sessions
      BY <1>3 DEF SyncPut, CancelPut, At, Control, WritesTerminal, TypeInv, WellFormed
    <2>2. QED
      BY <1>3, <2>1, EndedFewer DEF SyncPut, CancelPut, Terminal
  <1>4. ASSUME NEW a \in Actors, StartFail(a) PROVE Fewer
    <2>1. job[a].sid \in Sessions
      BY <1>4 DEF StartFail, At, TypeInv, WellFormed, StartSteps
    <2>2. QED
      BY <1>4, <2>1 DEF StartFail, TypeInv, TypeOK, SessionRow, NoSession, Fewer, Pending
  <1>5. ASSUME NEW a \in Actors, NEW x \in Sessions, DeleteSession(a, x) PROVE Fewer
    BY <1>5, EndedFewer DEF DeleteSession, NoSession
  <1>6. QED
    BY <1>1, <1>2, <1>3, <1>4, <1>5, ActorOrWorld, RowsOfActor

\* Past its check, a start was there before or has just passed its check.
Launching == {"start.insert", "start.launch", "start.wait", "start.put"}

\* How an actor comes to be past the check of a start: it stays there, it is
\* another actor's step that is taken, or it takes the check now.
LEMMA LaunchingStep ==
    ASSUME TypeInv, [Next]_vars, NEW b \in Actors, job'[b].pc \in Launching
    PROVE  \/ StartCheck(b)
           \/ /\ job[b].pc \in Launching
              /\ job'[b].slot = job[b].slot /\ job'[b].sid = job[b].sid
              /\ job'[b].srow.ro = job[b].srow.ro
  <1> DEFINE Kept == /\ job[b].pc \in Launching
                     /\ job'[b].slot = job[b].slot /\ job'[b].sid = job[b].sid
                     /\ job'[b].srow.ro = job[b].srow.ro
  <1>0. job \in [Actors -> Job] /\ \A a \in Actors : WellFormed(job[a])
    BY DEF TypeInv, TypeOK
  <1>1. CASE job'[b] = job[b]
    BY <1>1
  <1>2. ASSUME NEW a \in Actors, NEW j, Set(a, j), j.pc \notin Launching
        PROVE  Kept
    BY <1>0, <1>2 DEF Set
  <1>3. ASSUME NEW a \in Actors, Finish(a) PROVE Kept
    BY <1>2, <1>3 DEF Finish, IdleJob, Launching
  <1>4. ASSUME NEW a \in Actors, NEW pc, Goto(a, pc), pc \notin Launching PROVE Kept
    BY <1>0, <1>2, <1>4 DEF Goto, Job
  <1>5. ASSUME NEW a \in Actors, NextSlot(a, "delete.get") PROVE Kept
    BY <1>2, <1>3, <1>5 DEF NextSlot, IdleJob, Launching
  <1>6. ASSUME NEW a \in Actors, NEW rest, Resume(a, rest) PROVE Kept
    BY <1>0, <1>2, <1>3, <1>6 DEF Resume, Job, Launching
  <1>7. ASSUME NEW a \in Actors, Command(a) PROVE Kept
    <2>1. CASE \E x \in Sessions : Cancel(a, x)
      BY <1>2, <2>1 DEF Cancel, IdleJob, Launching
    <2>2. CASE \E s \in Slots, ro \in BOOLEAN, mode \in Modes : Start(a, s, ro, mode)
      BY <1>2, <2>2, ZenonT(60) DEF Start, IdleJob, Launching
    <2>3. CASE \E s \in Slots : Release(a, s) \/ Delete(a, s) \/ Refresh(a, s)
      BY <1>2, <2>3 DEF Release, Delete, Refresh, IdleJob, Launching
    <2>4. CASE \E t \in Tasks, strat \in Strategies : Acquire(a, t, strat)
      BY <1>2, <2>4 DEF Acquire, IdleJob, Launching
    <2>5. CASE RepoRemove(a) \/ Prune(a) \/ Review(a)
      BY <1>2, <1>4, <2>5 DEF RepoRemove, Prune, Review, IdleJob, Launching
    <2>6. QED
      BY <1>1, <1>7, <2>1, <2>2, <2>3, <2>4, <2>5 DEF Command, RepoAdd, DeleteSession
  <1>8. ASSUME NEW a \in Actors, StartLaunch(a) \/ StartWait(a) \/ StartInsert(a) PROVE Kept
    <2>1. job[a].srow \in SessionRow /\ job[a].pc \in Launching
      BY <1>0, <1>8 DEF StartLaunch, StartWait, StartInsert, At, WellFormed, StartSteps,
           Launching
    <2>2. CASE b # a
      BY <1>0, <1>1, <1>8, <2>2 DEF StartLaunch, StartWait, StartInsert, Set, Goto
    <2>3. job[a] \in Job
      BY <1>0
    <2> DEFINE Same(j) == /\ j.slot = job[a].slot /\ j.sid = job[a].sid
                          /\ j.srow.ro = job[a].srow.ro
    <2>4. ASSUME NEW pc, NEW st \in {"completed", "failed"}
          PROVE  /\ Same([job[a] EXCEPT !.pc = pc])
                 /\ Same([job[a] EXCEPT !.srow.started = TRUE, !.pc = pc])
                 /\ Same([job[a] EXCEPT !.pc = "start.put", !.srow.status = st])
      BY <2>1, <2>3 DEF Job, SessionRow
    <2>5. Same(job'[a])
      <3>1. ASSUME NEW j, Same(j), Set(a, j) PROVE Same(job'[a])
        BY <1>0, <3>1 DEF Set
      <3>2. CASE StartInsert(a)
        BY <2>4, <3>1, <3>2 DEF StartInsert, Goto
      <3>3. CASE StartLaunch(a)
        <4>1. PICK pc \in {"start.put", "start.wait"} :
                \/ Set(a, [job[a] EXCEPT !.srow.started = TRUE, !.pc = pc])
                \/ Goto(a, "start.fail")
          BY <3>3 DEF StartLaunch
        <4>2. QED
          BY <2>4, <3>1, <4>1 DEF Goto
      <3>4. CASE StartWait(a)
        <4>1. PICK st \in {"completed", "failed"} :
                Set(a, [job[a] EXCEPT !.pc = "start.put", !.srow.status = st])
          BY <3>4 DEF StartWait
        <4>2. QED
          BY <2>4, <3>1, <4>1
      <3>5. QED
        BY <1>8, <3>2, <3>3, <3>4
    <2>6. QED
      BY <2>1, <2>2, <2>5
  <1>9. ASSUME NEW a \in Actors, StartCheck(a) PROVE StartCheck(b) \/ Kept
    <2>1. CASE b # a
      BY <1>0, <1>1, <1>9, <2>1 DEF StartCheck, Set, Goto, Finish
    <2>2. QED
      BY <1>9, <2>1
  <1>10. ASSUME NEW a \in Actors, SyncList(a) \/ SyncCheck(a) \/ SyncPut(a) PROVE Kept
    <2>1. CASE SyncCheck(a)
      <3>1. ASSUME NEW p, NEW st,
                   Set(a, [job[a] EXCEPT !.pc = "sync.put", !.todo = @ \ {p}, !.sid = p.id,
                                         !.srow = [p.row EXCEPT !.status = st]])
            PROVE  Kept
        BY <1>0, <1>2, <3>1 DEF Job, Launching
      <3>2. QED
        BY <1>6, <2>1, <3>1 DEF SyncCheck
    <2>2. QED
      BY <1>6, <1>10, <2>1 DEF SyncList, SyncPut
  <1>11. ASSUME NEW a \in Actors,
                \/ RemoveSessions(a) \/ RemoveSlots(a) \/ RemoveRepo(a)
                \/ AcquireReuse(a) \/ AcquireCreate(a) \/ AcquirePut(a)
                \/ DeleteCheck(a) \/ DeleteGit(a) \/ DeleteRow(a) \/ GitFails(a)
                \/ StartPut(a) \/ StartFail(a) \/ CancelPut(a) \/ ReleasePut(a)
         PROVE  Kept
    BY <1>3, <1>4, <1>5, <1>11
    DEF RemoveSessions, RemoveSlots, RemoveRepo, AcquireReuse, AcquireCreate, AcquirePut,
        DeleteCheck, DeleteGit, DeleteRow, GitFails, StartPut, StartFail, CancelPut,
        ReleasePut, Launching
  <1>12. ASSUME NEW a \in Actors,
                \/ ReleaseCheck(a) \/ ReleaseGit(a) \/ PruneList(a) \/ DeleteGet(a)
                \/ RefreshGit(a) \/ ReviewList(a) \/ StartRefresh(a)
         PROVE  Kept
    BY <1>0, <1>2, <1>3, <1>4, <1>12, ZenonT(60)
    DEF ReleaseCheck, ReleaseGit, PruneList, DeleteGet, RefreshGit, ReviewList,
        StartRefresh, IdleJob, Job, Launching
  <1>13. ASSUME NEW a \in Actors, WriteBack(a) PROVE Kept
    BY <1>0, <1>2, <1>3, <1>13 DEF WriteBack, At, Job, Launching
  <1>14. CASE World
    BY <1>1, <1>3, <1>14 DEF World, Exit, Edit, Commit, Lose, Crash
  <1>15. ASSUME NEW a \in Actors, Poll(a) PROVE Kept
    BY <1>2, <1>15 DEF Poll, IdleJob, Launching
  <1>16. CASE UNCHANGED vars
    BY <1>1, <1>16 DEF vars
  <1>17. QED
    BY <1>7, <1>8, <1>9, <1>10, <1>11, <1>12, <1>13, <1>14, <1>15, <1>16 DEF Next, Step

LEMMA LaunchingMutator ==
    ASSUME TypeInv, Control, [Next]_vars, NEW b \in Actors, job'[b].pc \in Launching
    PROVE  b \in Mutators
  <1>1. job[b].pc = "start.check" \/ job[b].pc \in Launching
    BY LaunchingStep DEF StartCheck, At
  <1>2. QED
    BY <1>1, InsideCommand DEF Launching, SyncSteps

\* StartAlone in the next state, with the slot and the session named.
LEMMA StartAloneNext ==
    ASSUME NEW b \in Actors, NEW s, NEW x, job'[b].slot = s, job'[b].sid = x,
           WritersOn(s)' \subseteq {x}
    PROVE  StartAlone(b)'
  BY DEF StartAlone, WritersOn, PendingOn

\* Steps that make no session pending keep Exclusive: the check of a start is
\* made against a table that can only lose writers until it stores its row.
LEMMA ExclusiveFewer ==
    ASSUME TypeInv, Exclusive, [Next]_vars, Fewer
    PROVE  Exclusive'
  <1>1. OneWriter'
    BY DEF Exclusive, OneWriter, Fewer
  <1>2. ASSUME NEW b \in Actors PROVE StartAlone(b)'
    <2>1. SUFFICES ASSUME job'[b].pc \in Launching, ~job'[b].srow.ro
                   PROVE  StartAlone(b)'
      BY DEF StartAlone, Launching
    <2>2. PICK s, x : s = job[b].slot /\ x = job[b].sid
      OBVIOUS
    <2>3. CASE StartCheck(b)
      <3>1. job[b] \in Job /\ job \in [Actors -> Job]
        BY DEF TypeInv, TypeOK
      <3>2. ~Finish(b)
        BY <2>1, <3>1 DEF Finish, Set, IdleJob, Launching
      <3>3. Goto(b, "start.insert") /\ (job[b].srow.ro \/ WritersOn(s) = {})
        BY <2>2, <2>3, <3>2 DEF StartCheck
      <3>4. job'[b] = [job[b] EXCEPT !.pc = "start.insert"]
        BY <3>1, <3>3 DEF Goto, Set
      <3>5. job'[b].slot = s /\ job'[b].sid = x /\ job'[b].srow = job[b].srow
        BY <2>2, <3>1, <3>4 DEF Job
      <3>6. WritersOn(s)' \subseteq {x}
        BY <2>1, <3>3, <3>5, FewerSubsets
      <3>7. QED
        BY <3>5, <3>6, StartAloneNext
    <2>4. CASE /\ job[b].pc \in Launching
               /\ job'[b].slot = job[b].slot /\ job'[b].sid = job[b].sid
               /\ job'[b].srow.ro = job[b].srow.ro
      <3>1. WritersOn(s) \subseteq {x}
        BY <2>1, <2>2, <2>4 DEF Exclusive, StartAlone, Launching
      <3>2. WritersOn(s)' \subseteq {x}
        BY <3>1, FewerSubsets
      <3>3. QED
        BY <2>2, <2>4, <3>2, StartAloneNext
    <2>5. QED
      BY <2>1, <2>3, <2>4, LaunchingStep
  <1>3. QED
    BY <1>1, <1>2 DEF Exclusive

\* The two steps that may make a session pending are those of a start that is
\* alone, and with one mutator no other start is under way.
LEMMA ExclusiveStart ==
    ASSUME SingleMutator, TypeInv, Control, Exclusive, [Next]_vars, NEW a \in Actors,
           StartInsert(a) \/ StartPut(a)
    PROVE  Exclusive'
  <1> DEFINE x == job[a].sid
             r == job[a].srow
             s == job[a].slot
  <1>1. x \in Sessions /\ r \in SessionRow /\ r.slot = s /\ s \in Slots
        /\ job[a].pc \in Launching
    BY DEF StartInsert, StartPut, At, TypeInv, WellFormed, StartSteps, Launching
  <1>2. sess' = [sess EXCEPT ![x] = r] /\ DOMAIN sess = Sessions
    BY DEF StartInsert, StartPut, TypeInv, TypeOK
  <1>3. ~r.ro => WritersOn(s) \subseteq {x}
    BY <1>1 DEF Exclusive, StartAlone, Launching
  <1>4. OneWriter'
    <2>1. SUFFICES ASSUME NEW y \in Sessions, NEW z \in Sessions, y # z, Pending(y)',
                          Pending(z)', ~sess'[y].ro, ~sess'[z].ro, sess'[y].slot = sess'[z].slot
                   PROVE  FALSE
      BY DEF OneWriter
    <2>2. ASSUME NEW w \in Sessions, w # x, Pending(w)', ~sess'[w].ro, sess'[w].slot = s
          PROVE  w \in WritersOn(s)
      BY <1>2, <2>2 DEF WritersOn, PendingOn, Pending
    <2>3. sess'[x] = r
      BY <1>1, <1>2
    <2>4. CASE y = x
      BY <1>1, <1>3, <2>1, <2>2, <2>3, <2>4
    <2>5. CASE z = x
      BY <1>1, <1>3, <2>1, <2>2, <2>3, <2>5
    <2>6. CASE y # x /\ z # x
      BY <1>2, <2>1, <2>6 DEF Exclusive, OneWriter, Pending
    <2>7. QED
      BY <2>4, <2>5, <2>6
  <1>5. ASSUME NEW b \in Actors PROVE StartAlone(b)'
    <2>1. SUFFICES ASSUME job'[b].pc \in Launching, ~job'[b].srow.ro
                   PROVE  StartAlone(b)'
      BY DEF StartAlone, Launching
    <2>2. b = a
      <3>1. b \in Mutators
        BY <2>1, LaunchingMutator
      <3>2. a \in Mutators
        BY <1>1, InsideCommand DEF Launching, SyncSteps
      <3>3. QED
        BY <3>1, <3>2 DEF SingleMutator
    <2>3. ~StartCheck(b)
      BY <2>2 DEF StartInsert, StartPut, StartCheck, At
    <2>4. job'[b].slot = s /\ job'[b].sid = x /\ ~r.ro
      BY <2>1, <2>2, <2>3, LaunchingStep
    <2>5. PICK t, y : t = s /\ y = x
      OBVIOUS
    <2>6. ASSUME NEW w \in WritersOn(t)' PROVE w = y
      <3>1. w \in Sessions /\ (w # x => w \in WritersOn(s))
        BY <1>2, <2>5, <2>6 DEF WritersOn, PendingOn, Pending
      <3>2. QED
        BY <1>3, <2>4, <2>5, <3>1
    <2>7. QED
      BY <2>4, <2>5, <2>6, StartAloneNext
  <1>6. QED
    BY <1>4, <1>5 DEF Exclusive

LEMMA InitExclusive == Init => Control /\ Exclusive
  BY DEF Init, Control, WritesTerminal, Watching, Exclusive, OneWriter, StartAlone, IdleJob,
         NoSession, Pending, SyncSteps

LEMMA NextExclusive ==
    ASSUME SingleMutator, TypeInv, Control, Exclusive, [Next]_vars
    PROVE  Exclusive'
  BY SessionsOfStep, ExclusiveFewer, ExclusiveStart

\* With one mutator no two pending write-capable sessions ever share a slot,
\* whatever the snapshots of other actors write meanwhile and whatever fails.
THEOREM OneWriterAlways ==
    ASSUME SingleMutator
    PROVE  Spec => []OneWriter
  <1> DEFINE Inv == TypeInv /\ Control /\ Exclusive
  <1>1. Init => Inv
    BY InitType, InitExclusive
  <1>2. Inv /\ [Next]_vars => Inv'
    BY NextType, NextControl, NextExclusive
  <1>3. Inv => OneWriter
    BY DEF Exclusive
  <1>4. QED
    BY <1>1, <1>2, <1>3, PTL DEF Spec

-----------------------------------------------------------------------------
(* Holding in the next state, by the step the actor has come to            *)

\* Steps about which Holding says nothing.
Free(j) ==
    \/ j.pc \in {"idle", "prune.list", "review.list", "delete.get", "delete.check",
                 "cancel.put"}
    \/ j.pc \in SyncSteps /\ j.ret # "release.check"

LEMMA HoldingFree ==
    ASSUME NEW a \in Actors, Free(job'[a])
    PROVE  Holding(a)'
  BY DEF Free, Holding, GrantsActive, StartActive, Unoccupied, RemovalOrder, CopySteps,
         StartSteps, SyncSteps

LEMMA HoldingAcquire ==
    ASSUME NEW a \in Actors, job'[a].copy[job'[a].slot].status = "active", repo',
           job'[a].pc \in {"acquire.reuse", "acquire.create", "acquire.put"}
    PROVE  Holding(a)'
  BY DEF Holding, GrantsActive, StartActive, Unoccupied, RemovalOrder, StartSteps, SyncSteps

LEMMA HoldingRelease ==
    ASSUME NEW a \in Actors, NEW s, job'[a].slot = s, repo',
           \/ job'[a].pc = "release.check"
           \/ job'[a].pc \in SyncSteps
           \/ job'[a].pc \in {"release.git", "release.put"} /\ PendingOn(s)' = {}
    PROVE  Holding(a)'
  BY DEF Holding, GrantsActive, StartActive, Unoccupied, RemovalOrder, StartSteps, SyncSteps,
         PendingOn

LEMMA HoldingDelete ==
    ASSUME NEW a \in Actors, NEW s, job'[a].slot = s, PendingOn(s)' = {},
           job'[a].pc \in {"delete.git", "delete.row"}
    PROVE  Holding(a)'
  BY DEF Holding, GrantsActive, StartActive, Unoccupied, RemovalOrder, CopySteps, StartSteps,
         SyncSteps, PendingOn

LEMMA HoldingQueue ==
    ASSUME NEW a \in Actors, repo', job'[a].pc \in {"refresh.git", "writeback"},
           \A s \in job'[a].queue : job'[a].copy[s].status = "released" => PendingOn(s)' = {}
    PROVE  Holding(a)'
  BY DEF Holding, GrantsActive, StartActive, Unoccupied, RemovalOrder, StartSteps, SyncSteps,
         PendingOn

LEMMA HoldingStart ==
    ASSUME NEW a \in Actors, NEW s, job'[a].slot = s, repo', job'[a].pc \in StartSteps,
           \/ /\ job'[a].pc = "start.refresh"
              /\ job'[a].copy[s].status = "released" => PendingOn(s)' = {}
           \/ job'[a].pc # "start.refresh" /\ slots'[s].status = "active"
    PROVE  Holding(a)'
  BY DEF Holding, GrantsActive, StartActive, Unoccupied, RemovalOrder, StartSteps, SyncSteps,
         PendingOn

LEMMA HoldingRemove ==
    ASSUME NEW a \in Actors, \A x \in Sessions : ~Pending(x)',
           job'[a].pc \in {"remove.sessions", "remove.slots", "remove.repo"},
           job'[a].pc = "remove.repo" => \A s \in Slots : slots'[s] = NoSlot
    PROVE  Holding(a)'
  BY DEF Holding, GrantsActive, StartActive, Unoccupied, RemovalOrder, CopySteps, StartSteps,
         SyncSteps, PendingOn

\* An actor that does not move keeps what it relies on when no session becomes
\* pending and neither slots nor repositories change.
LEMMA HoldingStill ==
    ASSUME NEW a \in Actors, Holding(a), job'[a] = job[a], Fewer, UNCHANGED <<repo, slots>>
    PROVE  Holding(a)'
  BY DEF Holding, GrantsActive, StartActive, Unoccupied, RemovalOrder, Fewer, PendingOn

-----------------------------------------------------------------------------
(* The fields of an actor's local state after a step                       *)

LEMMA Moved ==
    ASSUME TypeInv, NEW a \in Actors, NEW j, Set(a, j)
    PROVE  job'[a] = j /\ \A b \in Actors \ {a} : job'[b] = job[b]
  BY DEF Set, TypeInv, TypeOK

LEMMA Finished ==
    ASSUME TypeInv, NEW a \in Actors, Finish(a)
    PROVE  Holding(a)'
  <1>1. Free(job'[a])
    BY Moved DEF Finish, IdleJob, Free
  <1>2. QED
    BY <1>1, HoldingFree

LEMMA GoneTo ==
    ASSUME TypeInv, NEW a \in Actors, NEW pc, Goto(a, pc)
    PROVE  /\ job'[a].pc = pc /\ job'[a].ret = job[a].ret /\ job'[a].slot = job[a].slot
           /\ job'[a].copy = job[a].copy /\ job'[a].queue = job[a].queue
           /\ job'[a].srow = job[a].srow /\ job'[a].sid = job[a].sid
  <1>1. job[a] \in Job /\ job'[a] = [job[a] EXCEPT !.pc = pc]
    BY Moved DEF Goto, TypeInv, TypeOK
  <1>2. QED
    BY <1>1 DEF Job

LEMMA NextSlotHolding ==
    ASSUME TypeInv, NEW a \in Actors, NextSlot(a, "delete.get")
    PROVE  Holding(a)'
  <1>1. CASE Set(a, [IdleJob EXCEPT !.pc = "delete.get", !.queue = job[a].queue])
    <2>1. Free(job'[a])
      BY <1>1, Moved, ZenonT(60) DEF IdleJob, Free
    <2>2. QED
      BY <2>1, HoldingFree
  <1>2. QED
    BY <1>1, Finished DEF NextSlot

\* With one mutator every other actor only watches.
LEMMA OthersHold ==
    ASSUME SingleMutator, Control', NEW a \in Mutators, NEW b \in Actors \ {a}
    PROVE  Holding(b)'
  <1>1. Watching(b)'
    BY DEF SingleMutator, Control
  <1>2. Free(job'[b])
    BY <1>1 DEF Watching, Free
  <1>3. QED
    BY <1>2, HoldingFree

\* Neither slots nor repositories change and no session becomes pending.
LEMMA QuietTables ==
    ASSUME Occupancy, Fewer, UNCHANGED <<repo, slots>>
    PROVE  SessionHoldsSlot' /\ NoOrphans'
  BY DEF Occupancy, SessionHoldsSlot, NoOrphans, Fewer

LEMMA QuietStep ==
    ASSUME SingleMutator, Control', Occupancy, NEW a \in Mutators, Fewer,
           UNCHANGED <<repo, slots>>, Holding(a)'
    PROVE  Occupancy'
  BY OthersHold, QuietTables DEF Occupancy

\* A slot whose stored record is not that of an active or missing slot has no
\* pending session.
LEMMA UnheldSlot ==
    ASSUME SessionHoldsSlot, NEW s, slots[s].status \notin {"active", "missing"}
    PROVE  PendingOn(s) = {}
  BY DEF SessionHoldsSlot, PendingOn

\* Storing a record for slot s keeps the pending sessions on slots they hold.
LEMMA StoredSlot ==
    ASSUME TypeInv, Occupancy, NEW s \in Slots, NEW r, slots' = [slots EXCEPT ![s] = r],
           UNCHANGED <<repo, sess>>,
           r.status \in {"active", "missing"} \/ PendingOn(s) = {},
           repo \/ r = NoSlot
    PROVE  SessionHoldsSlot' /\ NoOrphans'
  <1>1. SessionHoldsSlot'
    BY DEF TypeInv, TypeOK, Occupancy, SessionHoldsSlot, PendingOn, Pending
  <1>2. NoOrphans'
    BY DEF TypeInv, TypeOK, Occupancy, NoOrphans, Pending
  <1>3. QED
    BY <1>1, <1>2

-----------------------------------------------------------------------------
(* Steps of the mutator that leave slots and repositories alone            *)

\* The step may drop sessions but makes none pending.
Quiet == Fewer /\ UNCHANGED <<repo, slots>>

LEMMA SameSessionsFewer == UNCHANGED sess => Fewer
  BY DEF Fewer, Pending

LEMMA BeginHolding ==
    ASSUME TypeInv, Occupancy, NEW a \in Actors, UNCHANGED sess,
           \/ RepoRemove(a) \/ Prune(a) \/ Review(a)
           \/ \E s \in Slots : Release(a, s) \/ Delete(a, s) \/ Refresh(a, s)
           \/ \E x \in Sessions : Cancel(a, x)
    PROVE  Holding(a)'
  <1>1. CASE RepoRemove(a)
    <2>1. job'[a].pc = "remove.sessions" /\ \A x \in Sessions : ~Pending(x)'
      BY <1>1, GoneTo DEF RepoRemove, Pending
    <2>2. QED
      BY <2>1, HoldingRemove
  <1>2. CASE Prune(a) \/ Review(a)
    <2>1. PICK ret \in {"prune.list", "review.list"} :
            job'[a] = [IdleJob EXCEPT !.pc = "sync.list", !.ret = ret]
      BY <1>2, Moved DEF Prune, Review
    <2>2. Free(job'[a])
      BY <2>1 DEF Free, IdleJob, SyncSteps
    <2>3. QED
      BY <2>2, HoldingFree
  <1>3. ASSUME NEW s \in Slots, Release(a, s) PROVE Holding(a)'
    <2>1. job'[a] = [IdleJob EXCEPT !.pc = "sync.list", !.ret = "release.check",
                                    !.slot = s, !.copy[s] = slots[s]]
      BY <1>3, Moved DEF Release
    <2>2. repo' /\ job'[a].slot = s /\ job'[a].pc \in SyncSteps
      BY <1>3, <2>1 DEF Release, IdleJob, SyncSteps
    <2>3. QED
      BY <2>2, HoldingRelease
  <1>4. ASSUME NEW s \in Slots, Delete(a, s) PROVE Holding(a)'
    <2>1. job'[a] = [IdleJob EXCEPT !.pc = "delete.get", !.queue = {s}]
      BY <1>4, Moved DEF Delete
    <2>2. Free(job'[a])
      BY <2>1 DEF Free, IdleJob
    <2>3. QED
      BY <2>2, HoldingFree
  <1>5. ASSUME NEW s \in Slots, Refresh(a, s) PROVE Holding(a)'
    <2>1. job'[a] = [IdleJob EXCEPT !.pc = "refresh.git", !.queue = {s},
                                    !.copy[s] = slots[s]]
      BY <1>5, Moved DEF Refresh
    <2>2. repo'
      BY <1>5 DEF Refresh
    <2>3. job'[a].copy[s] = slots[s]
      BY <2>1 DEF IdleJob
    <2>4. job'[a].pc = "refresh.git" /\ job'[a].queue = {s}
      BY <2>1 DEF IdleJob
    <2>5. slots[s].status = "released" => PendingOn(s)' = {}
      BY UnheldSlot DEF Occupancy, PendingOn, Pending
    <2>6. QED
      BY <2>2, <2>3, <2>4, <2>5, HoldingQueue
  <1>6. ASSUME NEW x \in Sessions, Cancel(a, x) PROVE Holding(a)'
    <2>1. job'[a] = [IdleJob EXCEPT !.pc = "cancel.put", !.sid = x,
                                    !.srow = [sess[x] EXCEPT !.status = "cancelled"]]
      BY <1>6, Moved DEF Cancel
    <2>2. Free(job'[a])
      BY <2>1 DEF Free, IdleJob
    <2>3. QED
      BY <2>2, HoldingFree
  <1>7. QED
    BY <1>1, <1>2, <1>3, <1>4, <1>5, <1>6

LEMMA AcquireHolding ==
    ASSUME TypeInv, NEW a \in Actors, NEW t \in Tasks, NEW strat \in Strategies,
           Acquire(a, t, strat)
    PROVE  Holding(a)'
  <1> DEFINE J(pc, s, r) == [IdleJob EXCEPT !.pc = pc, !.slot = s, !.copy[s] = r]
  <1>0. PICK pc \in {"acquire.reuse", "acquire.create"}, s \in Slots :
          \E r : r.status = "active" /\ Set(a, J(pc, s, r))
    <2>1. ASSUME NEW s \in Reusable
          PROVE  [slots[s] EXCEPT !.task = t, !.status = "active"].status = "active"
      BY <2>1, SlotRowType DEF Reusable, SlotRow
    <2>2. QED
      BY <2>1 DEF Acquire, Reusable
  <1>1. PICK r : r.status = "active" /\ Set(a, J(pc, s, r))
    BY <1>0
  <1>2. job'[a] = J(pc, s, r)
    BY <1>1, Moved
  <1>3. job'[a].pc = pc /\ job'[a].slot = s /\ job'[a].copy[s] = r
    BY <1>2 DEF IdleJob
  <1>4. repo'
    BY DEF Acquire
  <1>5. QED
    BY <1>1, <1>3, <1>4, HoldingAcquire

LEMMA BeginStartHolding ==
    ASSUME TypeInv, Occupancy, NEW a \in Actors, NEW s \in Slots, NEW ro \in BOOLEAN,
           NEW mode \in Modes, Start(a, s, ro, mode)
    PROVE  Holding(a)'
  <1> DEFINE J(x) == [IdleJob EXCEPT
              !.pc = "start.refresh", !.slot = s, !.copy[s] = slots[s], !.sid = x,
              !.srow = [slot |-> s, ro |-> ro, mode |-> mode, started |-> FALSE,
                        status |-> IF mode = "dry" THEN "prepared" ELSE "running"]]
  <1>0. PICK x \in Sessions : job'[a] = J(x)
    BY Moved DEF Start
  <1>1. job'[a].pc = "start.refresh" /\ job'[a].slot = s /\ job'[a].copy[s] = slots[s]
    BY <1>0 DEF IdleJob
  <1>2. repo'
    BY DEF Start, Occupancy, NoOrphans, TypeInv, TypeOK
  <1>3. slots[s].status = "released" => PendingOn(s)' = {}
    BY UnheldSlot, SMTT(60) DEF Start, Occupancy, PendingOn, Pending
  <1>4. QED
    BY <1>1, <1>2, <1>3, HoldingStart DEF StartSteps

\* A sync goes on, or to what its command does next.
LEMMA SyncGoes ==
    ASSUME TypeInv, NEW a \in Actors, SyncList(a) \/ SyncCheck(a) \/ SyncPut(a)
    PROVE  /\ job'[a].pc \in SyncSteps \cup {job[a].ret, "idle"}
           /\ job'[a].pc \in SyncSteps => job'[a].ret = job[a].ret
           /\ job'[a].pc # "idle" =>
                job'[a].slot = job[a].slot /\ job'[a].copy = job[a].copy
  <1> DEFINE Goes(j) == /\ j.pc \in SyncSteps \cup {job[a].ret, "idle"}
                        /\ j.pc \in SyncSteps => j.ret = job[a].ret
                        /\ j.pc # "idle" => j.slot = job[a].slot /\ j.copy = job[a].copy
  <1>1. job[a] \in Job /\ job[a].pc \in SyncSteps
    BY DEF TypeInv, TypeOK, SyncList, SyncCheck, SyncPut, At, SyncSteps
  <1>2. ASSUME NEW rest, Resume(a, rest) PROVE Goes(job'[a])
    <2>1. CASE Finish(a)
      BY <2>1, Moved DEF Finish, IdleJob, SyncSteps
    <2>2. CASE Set(a, [job[a] EXCEPT !.pc = "sync.check", !.todo = rest, !.sid = "none",
                                     !.srow = NoSession])
      <3>1. job'[a] = [job[a] EXCEPT !.pc = "sync.check", !.todo = rest, !.sid = "none",
                                     !.srow = NoSession]
        BY <2>2, Moved
      <3>2. QED
        BY <1>1, <3>1 DEF Job, SyncSteps
    <2>3. CASE Set(a, [job[a] EXCEPT !.pc = job[a].ret, !.ret = "idle", !.todo = {},
                                     !.sid = "none", !.srow = NoSession])
      <3>1. job'[a] = [job[a] EXCEPT !.pc = job[a].ret, !.ret = "idle", !.todo = {},
                                     !.sid = "none", !.srow = NoSession]
        BY <2>3, Moved
      <3>2. QED
        BY <1>1, <3>1 DEF Job, SyncSteps
    <2>4. QED
      BY <1>2, <2>1, <2>2, <2>3 DEF Resume
  <1>3. ASSUME NEW p, NEW st,
               Set(a, [job[a] EXCEPT !.pc = "sync.put", !.todo = @ \ {p}, !.sid = p.id,
                                     !.srow = [p.row EXCEPT !.status = st]])
        PROVE  Goes(job'[a])
    <2>1. job'[a] = [job[a] EXCEPT !.pc = "sync.put", !.todo = @ \ {p}, !.sid = p.id,
                                   !.srow = [p.row EXCEPT !.status = st]]
      BY <1>3, Moved
    <2>2. QED
      BY <1>1, <2>1 DEF Job, SyncSteps
  <1>4. QED
    BY <1>2, <1>3, ZenonT(60) DEF SyncList, SyncCheck, SyncPut, SyncSteps

\* A sync that a release has begun goes on to its check or stays a sync.
LEMMA SyncHolding ==
    ASSUME TypeInv, Occupancy, NEW a \in Actors, Quiet,
           SyncList(a) \/ SyncCheck(a) \/ SyncPut(a)
    PROVE  Holding(a)'
  <1>1. job[a] \in Job /\ job[a].pc \in SyncSteps
    BY DEF TypeInv, TypeOK, SyncList, SyncCheck, SyncPut, At, SyncSteps
  <1>2. job[a].ret = "release.check" => repo'
    BY <1>1 DEF Occupancy, Holding, RemovalOrder, Quiet
  <1>3. /\ job'[a].pc \in SyncSteps \cup {job[a].ret, "idle"}
        /\ job'[a].pc \in SyncSteps => job'[a].ret = job[a].ret
    BY SyncGoes
  <1>4. CASE Free(job'[a])
    BY <1>4, HoldingFree
  <1>5. CASE ~Free(job'[a])
    <2>1. job'[a].pc \in SyncSteps \cup {"release.check"} /\ repo'
      BY <1>1, <1>2, <1>3, <1>5 DEF Free, Job
    <2>2. PICK s : s = job'[a].slot
      OBVIOUS
    <2>3. QED
      BY <2>1, <2>2, HoldingRelease
  <1>6. QED
    BY <1>4, <1>5, SMTT(60)

LEMMA AcquireStepsHolding ==
    ASSUME TypeInv, Occupancy, NEW a \in Actors, UNCHANGED repo,
           AcquireReuse(a) \/ AcquireCreate(a)
    PROVE  Holding(a)'
  <1>1. job[a].copy[job[a].slot].status = "active" /\ repo
    BY DEF AcquireReuse, AcquireCreate, At, Occupancy, Holding, GrantsActive, RemovalOrder,
           CopySteps
  <1>2. Goto(a, "acquire.put")
    BY DEF AcquireReuse, AcquireCreate
  <1>3. job'[a].pc = "acquire.put" /\ job'[a].copy[job'[a].slot].status = "active"
    BY <1>1, <1>2, GoneTo
  <1>4. QED
    BY <1>1, <1>3, HoldingAcquire

\* Release goes on only from a check that finds no pending session.
LEMMA ReleaseHolding ==
    ASSUME TypeInv, Occupancy, NEW a \in Actors, Quiet, UNCHANGED sess,
           ReleaseCheck(a) \/ ReleaseGit(a)
    PROVE  Holding(a)'
  <1> DEFINE t == job[a].slot
  <1>1. job[a] \in Job /\ repo'
    BY DEF ReleaseCheck, ReleaseGit, At, TypeInv, TypeOK, Occupancy, Holding, RemovalOrder,
           CopySteps
  <1>2. PICK s : s = t
    OBVIOUS
  <1>3. CASE ReleaseCheck(a) /\ ~Finish(a)
    <2>1. /\ PendingOn(s) = {}
          /\ Set(a, [job[a] EXCEPT !.pc = "release.git", !.copy[t] = Refreshed(@, t)])
      BY <1>2, <1>3 DEF ReleaseCheck
    <2>2. job'[a] = [job[a] EXCEPT !.pc = "release.git", !.copy[t] = Refreshed(@, t)]
      BY <2>1, Moved
    <2>3. job'[a].pc = "release.git" /\ job'[a].slot = s
      BY <1>1, <1>2, <2>2 DEF Job
    <2>4. PendingOn(s)' = {}
      BY <2>1, FewerSubsets DEF Quiet
    <2>5. QED
      BY <1>1, <2>3, <2>4, HoldingRelease
  <1>4. CASE ReleaseGit(a)
    <2>1. Set(a, [job[a] EXCEPT !.pc = "release.put", !.copy[t].status = "released",
                                !.copy[t].dirty = FALSE])
      BY <1>4 DEF ReleaseGit
    <2>2. job'[a] = [job[a] EXCEPT !.pc = "release.put", !.copy[t].status = "released",
                                   !.copy[t].dirty = FALSE]
      BY <2>1, Moved
    <2>3. job'[a].pc = "release.put" /\ job'[a].slot = s
      BY <1>1, <1>2, <2>2 DEF Job
    <2>4. PendingOn(s) = {}
      BY <1>2, <1>4 DEF ReleaseGit, At, Occupancy, Holding, Unoccupied
    <2>5. PendingOn(s)' = {}
      BY <2>4, FewerSubsets DEF Quiet
    <2>6. QED
      BY <1>1, <2>3, <2>5, HoldingRelease
  <1>5. QED
    BY <1>3, <1>4, Finished

LEMMA DeleteHolding ==
    ASSUME TypeInv, Occupancy, NEW a \in Actors, Quiet,
           PruneList(a) \/ DeleteGet(a) \/ DeleteCheck(a) \/ DeleteGit(a)
    PROVE  Holding(a)'
  <1>1. ASSUME NEW queue, Set(a, [IdleJob EXCEPT !.pc = "delete.get", !.queue = queue])
        PROVE  Holding(a)'
    <2>1. job'[a] = [IdleJob EXCEPT !.pc = "delete.get", !.queue = queue]
      BY <1>1, Moved
    <2>2. Free(job'[a])
      BY <2>1 DEF Free, IdleJob
    <2>3. QED
      BY <2>2, HoldingFree
  <1>2. ASSUME NEW s, NEW rest,
               Set(a, [IdleJob EXCEPT !.pc = "sync.list", !.ret = "delete.check", !.slot = s,
                         !.copy[s] = slots[s], !.known = repo, !.queue = rest])
        PROVE  Holding(a)'
    <2>1. job'[a] = [IdleJob EXCEPT !.pc = "sync.list", !.ret = "delete.check", !.slot = s,
                         !.copy[s] = slots[s], !.known = repo, !.queue = rest]
      BY <1>2, Moved
    <2>2. Free(job'[a])
      BY <2>1 DEF Free, IdleJob, SyncSteps
    <2>3. QED
      BY <2>2, HoldingFree
  <1>3. CASE PruneList(a)
    BY <1>1, <1>3, Finished, ZenonT(60) DEF PruneList
  <1>4. CASE DeleteGet(a)
    BY <1>1, <1>2, <1>4, Finished DEF DeleteGet
  <1>5. ASSUME NEW pc \in {"delete.git", "delete.row"}, Goto(a, pc),
               PendingOn(job[a].slot) = {}
        PROVE  Holding(a)'
    <2>1. PICK s : s = job[a].slot
      OBVIOUS
    <2>2. PendingOn(s)' = {}
      BY <1>5, <2>1, FewerSubsets DEF Quiet
    <2>3. QED
      BY <1>5, <2>1, <2>2, GoneTo, HoldingDelete
  <1>6. CASE DeleteCheck(a)
    BY <1>5, <1>6, NextSlotHolding DEF DeleteCheck
  <1>7. CASE DeleteGit(a)
    <2>1. PendingOn(job[a].slot) = {}
      BY <1>7 DEF DeleteGit, At, Occupancy, Holding, Unoccupied
    <2>2. QED
      BY <1>5, <1>7, <2>1 DEF DeleteGit
  <1>8. QED
    BY <1>3, <1>4, <1>6, <1>7

LEMMA RefreshHolding ==
    ASSUME TypeInv, Occupancy, NEW a \in Actors, Quiet, RefreshGit(a) \/ ReviewList(a)
    PROVE  Holding(a)'
  <1>1. CASE RefreshGit(a) /\ ~Finish(a)
    <2>1. Goto(a, "writeback") /\ repo'
      BY <1>1 DEF RefreshGit, At, Occupancy, Holding, RemovalOrder, Quiet
    <2>2. \A s \in job[a].queue : job[a].copy[s].status = "released" => PendingOn(s) = {}
      BY <1>1 DEF RefreshGit, At, Occupancy, Holding, Unoccupied
    <2>3. \A s \in job'[a].queue : job'[a].copy[s].status = "released" => PendingOn(s)' = {}
      BY <2>1, <2>2, GoneTo, FewerSubsets DEF Quiet
    <2>4. QED
      BY <2>1, <2>3, GoneTo, HoldingQueue
  <1>2. CASE ReviewList(a) /\ ~Finish(a)
    <2> DEFINE listed == {s \in Slots : slots[s].status \in {"active", "released"}}
               j == [IdleJob EXCEPT
                       !.pc = "writeback", !.queue = listed,
                       !.copy = [s \in Slots |-> IF s \in listed THEN slots[s] ELSE NoSlot]]
    <2>1. Set(a, j) /\ listed # {}
      BY <1>2 DEF ReviewList
    <2>2. job'[a] = j
      BY <2>1, Moved
    <2>3. job'[a].pc = "writeback" /\ job'[a].queue = listed
          /\ \A s \in listed : job'[a].copy[s] = slots[s]
      BY <2>2 DEF IdleJob
    <2>4. repo'
      BY <2>1 DEF Quiet, Occupancy, NoOrphans, NoSlot, TypeInv, TypeOK
    <2>5. \A s \in listed : slots[s].status = "released" => PendingOn(s)' = {}
      BY UnheldSlot, FewerSubsets DEF Occupancy, Quiet
    <2>6. QED
      BY <2>3, <2>4, <2>5, HoldingQueue
  <1>3. QED
    BY <1>1, <1>2, Finished

\* Past the refresh a start goes on on a slot that is active.
LEMMA StartHolding ==
    ASSUME TypeInv, Occupancy, NEW a \in Actors, UNCHANGED <<repo, slots>>,
           StartCheck(a) \/ StartLaunch(a) \/ StartWait(a) \/ StartInsert(a)
    PROVE  Holding(a)'
  <1>1. job[a] \in Job /\ job[a].pc \in StartSteps \ {"start.refresh"}
    BY DEF StartCheck, StartLaunch, StartWait, StartInsert, At, TypeInv, TypeOK, StartSteps
  <1>2. slots[job[a].slot].status = "active" /\ repo
    BY <1>1 DEF Occupancy, Holding, StartActive, RemovalOrder, StartSteps, CopySteps
  <1>3. PICK s : s = job[a].slot
    OBVIOUS
  <1>4. ASSUME job'[a].pc \in StartSteps \ {"start.refresh"}, job'[a].slot = s
        PROVE  Holding(a)'
    BY <1>2, <1>3, <1>4, HoldingStart
  <1>5. ASSUME NEW pc \in StartSteps \ {"start.refresh"}, Goto(a, pc)
        PROVE  Holding(a)'
    BY <1>3, <1>4, <1>5, GoneTo
  <1>6. CASE StartCheck(a) \/ StartInsert(a)
    BY <1>5, <1>6, Finished DEF StartCheck, StartInsert, StartSteps
  <1>7. CASE StartLaunch(a)
    <2>1. PICK pc \in {"start.put", "start.wait"} :
            \/ Set(a, [job[a] EXCEPT !.srow.started = TRUE, !.pc = pc])
            \/ Goto(a, "start.fail")
      BY <1>7 DEF StartLaunch
    <2>2. CASE Set(a, [job[a] EXCEPT !.srow.started = TRUE, !.pc = pc])
      <3>1. job'[a] = [job[a] EXCEPT !.srow.started = TRUE, !.pc = pc]
        BY <2>2, Moved
      <3>2. job'[a].pc = pc /\ job'[a].slot = s
        BY <1>1, <1>3, <3>1 DEF Job
      <3>3. QED
        BY <1>4, <3>2 DEF StartSteps
    <2>3. QED
      BY <1>5, <2>1, <2>2 DEF StartSteps
  <1>8. CASE StartWait(a)
    <2>1. PICK st \in {"completed", "failed"} :
            Set(a, [job[a] EXCEPT !.pc = "start.put", !.srow.status = st])
      BY <1>8 DEF StartWait
    <2>2. job'[a] = [job[a] EXCEPT !.pc = "start.put", !.srow.status = st]
      BY <2>1, Moved
    <2>3. job'[a].pc = "start.put" /\ job'[a].slot = s
      BY <1>1, <1>3, <2>2 DEF Job
    <2>4. QED
      BY <1>4, <2>3 DEF StartSteps
  <1>9. QED
    BY <1>6, <1>7, <1>8

-----------------------------------------------------------------------------
(* Steps of the mutator that write slots, repositories or pending sessions *)

\* The removal of a repository deletes sessions, slots and its own row in that
\* order, having found no pending session.
LEMMA RemovalKeeps ==
    ASSUME TypeInv, Occupancy, NEW a \in Actors,
           RepoAdd(a) \/ RemoveSessions(a) \/ RemoveSlots(a) \/ RemoveRepo(a)
    PROVE  SessionHoldsSlot' /\ NoOrphans' /\ Holding(a)'
  <1>1. CASE RepoAdd(a)
    <2>1. Free(job'[a])
      BY <1>1 DEF RepoAdd, Ready, Idle, At, Free
    <2>2. SessionHoldsSlot' /\ NoOrphans'
      BY <1>1 DEF RepoAdd, Occupancy, SessionHoldsSlot, NoOrphans, Pending
    <2>3. QED
      BY <2>1, <2>2, HoldingFree
  <1>2. CASE RemoveSessions(a)
    <2>1. \A x \in Sessions : ~Pending(x)'
      BY <1>2 DEF RemoveSessions, Pending, NoSession
    <2>2. SessionHoldsSlot' /\ NoOrphans'
      BY <1>2, <2>1 DEF RemoveSessions, Occupancy, SessionHoldsSlot, NoOrphans
    <2>3. job'[a].pc = "remove.slots"
      BY <1>2, GoneTo DEF RemoveSessions
    <2>4. QED
      BY <2>1, <2>2, <2>3, HoldingRemove
  <1>3. CASE RemoveSlots(a)
    <2>1. \A x \in Sessions : ~Pending(x)'
      BY <1>3 DEF RemoveSlots, At, Pending, Occupancy, Holding, RemovalOrder
    <2>2. \A s \in Slots : slots'[s] = NoSlot
      BY <1>3 DEF RemoveSlots
    <2>3. SessionHoldsSlot' /\ NoOrphans'
      BY <2>1, <2>2 DEF SessionHoldsSlot, NoOrphans
    <2>4. job'[a].pc = "remove.repo"
      BY <1>3, GoneTo DEF RemoveSlots
    <2>5. QED
      BY <2>1, <2>2, <2>3, <2>4, HoldingRemove
  <1>4. CASE RemoveRepo(a)
    <2>1. /\ \A x \in Sessions : ~Pending(x)'
          /\ \A s \in Slots : slots'[s] = NoSlot
      BY <1>4 DEF RemoveRepo, At, Pending, Occupancy, Holding, RemovalOrder
    <2>2. SessionHoldsSlot' /\ NoOrphans'
      BY <2>1 DEF SessionHoldsSlot, NoOrphans
    <2>3. QED
      BY <1>4, <2>2, Finished DEF RemoveRepo
  <1>5. QED
    BY <1>1, <1>2, <1>3, <1>4

LEMMA PutKeeps ==
    ASSUME TypeInv, Occupancy, NEW a \in Actors,
           AcquirePut(a) \/ ReleasePut(a) \/ DeleteRow(a)
    PROVE  SessionHoldsSlot' /\ NoOrphans' /\ Holding(a)'
  <1>1. job[a].slot \in Slots
    BY DEF AcquirePut, ReleasePut, DeleteRow, At, TypeInv, WellFormed, CopySteps
  <1>2. Holding(a)'
    BY Finished, NextSlotHolding DEF AcquirePut, ReleasePut, DeleteRow
  <1>3. CASE AcquirePut(a)
    <2>1. job[a].copy[job[a].slot].status = "active" /\ repo
      BY <1>3 DEF AcquirePut, At, Occupancy, Holding, GrantsActive, RemovalOrder, CopySteps
    <2>2. QED
      BY <1>1, <1>2, <1>3, <2>1, StoredSlot DEF AcquirePut
  <1>4. CASE ReleasePut(a)
    <2>1. PendingOn(job[a].slot) = {} /\ repo
      BY <1>4 DEF ReleasePut, At, Occupancy, Holding, Unoccupied, RemovalOrder, CopySteps
    <2>2. QED
      BY <1>1, <1>2, <1>4, <2>1, StoredSlot DEF ReleasePut
  <1>5. CASE DeleteRow(a)
    <2>1. PendingOn(job[a].slot) = {}
      BY <1>5 DEF DeleteRow, At, Occupancy, Holding, Unoccupied
    <2>2. QED
      BY <1>1, <1>2, <1>5, <2>1, StoredSlot DEF DeleteRow
  <1>6. QED
    BY <1>3, <1>4, <1>5

\* A recomputed record is missing or has the status it was read with.
LEMMA RefreshedStatus ==
    ASSUME NEW s, NEW r \in SlotRow
    PROVE  Refreshed(r, s).status \in {"missing", r.status}
  BY DEF Refreshed, SlotRow

LEMMA WriteBackKeeps ==
    ASSUME TypeInv, Occupancy, NEW a \in Actors, WriteBack(a)
    PROVE  SessionHoldsSlot' /\ NoOrphans' /\ Holding(a)'
  <1>1. job[a] \in Job /\ repo /\ repo' /\ job[a].pc = "writeback" /\ UNCHANGED sess
    BY DEF WriteBack, At, TypeInv, TypeOK, Occupancy, Holding, RemovalOrder
  <1>2. \A s \in job[a].queue : s \in Slots /\ job[a].copy[s] \in SlotRow
    BY <1>1 DEF TypeInv, WellFormed, Job
  <1>3. \A s \in job[a].queue : job[a].copy[s].status = "released" => PendingOn(s) = {}
    BY <1>1 DEF Occupancy, Holding, Unoccupied
  <1>4. PICK s \in job[a].queue :
          /\ slots' = [slots EXCEPT ![s] = Refreshed(job[a].copy[s], s)]
          /\ \/ Finish(a)
             \/ Set(a, [job[a] EXCEPT !.queue = @ \ {s}, !.copy[s] = NoSlot])
    BY DEF WriteBack
  <1>5. SessionHoldsSlot' /\ NoOrphans'
    <2>1. Refreshed(job[a].copy[s], s).status \in {"missing", job[a].copy[s].status}
      BY <1>2, RefreshedStatus
    <2>2. job[a].copy[s].status \in {"active", "released", "missing"}
      BY <1>2 DEF SlotRow, SlotStatuses
    <2>3. \/ Refreshed(job[a].copy[s], s).status \in {"active", "missing"}
          \/ PendingOn(s) = {}
      BY <1>3, <2>1, <2>2
    <2>4. QED
      BY <1>1, <1>2, <1>4, <2>3, StoredSlot DEF WriteBack
  <1>6. CASE Set(a, [job[a] EXCEPT !.queue = @ \ {s}, !.copy[s] = NoSlot])
    <2>1. job'[a] = [job[a] EXCEPT !.queue = @ \ {s}, !.copy[s] = NoSlot]
      BY <1>6, Moved
    <2>2. job'[a].pc = "writeback" /\ job'[a].queue = job[a].queue \ {s}
      BY <1>1, <2>1 DEF Job
    <2>3. \A t \in job'[a].queue : job'[a].copy[t] = job[a].copy[t]
      BY <1>1, <2>1, <2>2 DEF Job
    <2>4. \A t \in job'[a].queue : job'[a].copy[t].status = "released" => PendingOn(t)' = {}
      <3>1. \A t : PendingOn(t)' = PendingOn(t)
        BY <1>1 DEF PendingOn, Pending
      <3>2. QED
        BY <1>3, <2>2, <2>3, <3>1
    <2>5. QED
      BY <1>1, <1>5, <2>2, <2>4, HoldingQueue
  <1>7. QED
    BY <1>4, <1>5, <1>6, Finished

LEMMA StartRefreshKeeps ==
    ASSUME TypeInv, Occupancy, NEW a \in Actors, StartRefresh(a)
    PROVE  SessionHoldsSlot' /\ NoOrphans' /\ Holding(a)'
  <1> DEFINE s == job[a].slot
             r == Refreshed(job[a].copy[s], s)
  <1>1. job[a] \in Job /\ job[a].pc = "start.refresh"
    BY DEF StartRefresh, At, TypeInv, TypeOK
  <1>2. s \in Slots /\ job[a].copy[s] \in SlotRow
    BY <1>1 DEF TypeInv, WellFormed, CopySteps
  <1>3. repo /\ (job[a].copy[s].status = "released" => PendingOn(s) = {})
    BY <1>1 DEF Occupancy, Holding, Unoccupied, RemovalOrder, CopySteps
  <1>4. r.status \in {"active", "missing"} \/ PendingOn(s) = {}
    BY <1>2, <1>3, RefreshedStatus DEF SlotRow, SlotStatuses
  <1>5. slots' = [slots EXCEPT ![s] = r] /\ UNCHANGED <<repo, sess>>
    BY DEF StartRefresh
  <1>6. SessionHoldsSlot' /\ NoOrphans'
    BY <1>2, <1>3, <1>4, <1>5, StoredSlot
  <1>7. CASE /\ r.status = "active"
             /\ Set(a, [job[a] EXCEPT !.pc = "start.check", !.copy[s] = NoSlot])
    <2>1. job'[a] = [job[a] EXCEPT !.pc = "start.check", !.copy[s] = NoSlot]
      BY <1>7, Moved
    <2>2. job'[a].pc = "start.check" /\ job'[a].slot = s
      BY <1>1, <2>1 DEF Job
    <2>3. slots'[s].status = "active"
      BY <1>2, <1>5, <1>7 DEF TypeInv, TypeOK
    <2>4. PICK t : t = s
      OBVIOUS
    <2>5. QED
      BY <1>3, <1>5, <1>6, <2>2, <2>3, <2>4, HoldingStart DEF StartSteps
  <1>8. QED
    BY <1>6, <1>7, Finished DEF StartRefresh

\* Storing the row of a start makes a session pending on an active slot.
LEMMA StartPutKeeps ==
    ASSUME TypeInv, Occupancy, NEW a \in Actors, StartInsert(a) \/ StartPut(a)
    PROVE  SessionHoldsSlot' /\ NoOrphans' /\ Holding(a)'
  <1> DEFINE x == job[a].sid
             r == job[a].srow
  <1>1. job[a].pc \in StartSteps \ {"start.refresh"}
    BY DEF StartInsert, StartPut, At, StartSteps
  <1>2. x \in Sessions /\ r.slot = job[a].slot
    BY <1>1 DEF TypeInv, WellFormed
  <1>3. slots[r.slot].status = "active" /\ repo
    BY <1>1, <1>2 DEF Occupancy, Holding, StartActive, RemovalOrder, StartSteps, CopySteps
  <1>4. sess' = [sess EXCEPT ![x] = r] /\ UNCHANGED <<repo, slots>>
    BY DEF StartInsert, StartPut
  <1>5. SessionHoldsSlot'
    BY <1>2, <1>3, <1>4 DEF TypeInv, TypeOK, Occupancy, SessionHoldsSlot, Pending
  <1>6. NoOrphans'
    BY <1>3, <1>4 DEF NoOrphans
  <1>7. QED
    BY <1>4, <1>5, <1>6, Finished, StartHolding DEF StartPut

-----------------------------------------------------------------------------
(* The inductive step                                                      *)

\* Steps of actors that only watch, and of the world around the commands.
LEMMA WatchOccupancy ==
    ASSUME TypeInv, Control', Occupancy, Quiet,
           \/ World
           \/ \E a \in Actors : Poll(a)
           \/ \E a \in Actors \ Mutators : SyncList(a) \/ SyncCheck(a) \/ SyncPut(a)
    PROVE  Occupancy'
  <1>1. ASSUME NEW b \in Actors, job'[b] = job[b] PROVE Holding(b)'
    BY <1>1, HoldingStill DEF Occupancy, Quiet
  <1>2. ASSUME NEW a \in Actors, NEW b \in Actors, NEW j, Set(a, j), Holding(a)'
        PROVE  Holding(b)'
    BY <1>1, <1>2, Moved
  <1>3. ASSUME NEW a \in Actors \ Mutators, NEW b \in Actors,
               SyncList(a) \/ SyncCheck(a) \/ SyncPut(a)
        PROVE  Holding(b)'
    <2>1. Holding(a)'
      BY <1>3, SyncHolding
    <2>2. \E j : Set(a, j)
      BY <1>3 DEF SyncList, SyncCheck, SyncPut, Resume, Finish
    <2>3. QED
      BY <1>2, <2>1, <2>2
  <1>4. ASSUME NEW a \in Actors, NEW b \in Actors, Poll(a) PROVE Holding(b)'
    <2>1. job'[a] = [IdleJob EXCEPT !.pc = "sync.list"]
      BY <1>4, Moved DEF Poll
    <2>2. Free(job'[a])
      BY <2>1 DEF Free, IdleJob, SyncSteps
    <2>3. QED
      BY <1>2, <1>4, <2>2, HoldingFree DEF Poll
  <1>5. ASSUME World, NEW b \in Actors PROVE Holding(b)'
    <2>1. CASE UNCHANGED job
      BY <1>1, <2>1
    <2>2. ASSUME NEW a \in Actors, Crash(a) PROVE Holding(b)'
      BY <1>2, <2>2, Finished DEF Crash, Finish
    <2>3. QED
      BY <1>5, <2>1, <2>2 DEF World, Exit, Edit, Commit, Lose
  <1>6. QED
    BY <1>3, <1>4, <1>5, QuietTables DEF Occupancy, Quiet

\* Which steps are quiet.
LEMMA QuietSteps ==
    ASSUME TypeInv, Control, [Next]_vars,
           ~\E a \in Actors :
              \/ RepoAdd(a) \/ RemoveSlots(a) \/ RemoveRepo(a)
              \/ AcquirePut(a) \/ ReleasePut(a) \/ DeleteRow(a) \/ WriteBack(a)
              \/ StartRefresh(a) \/ StartInsert(a) \/ StartPut(a)
    PROVE  Quiet
  <1>1. Fewer
    BY SessionsOfStep, Zenon
  <1>2. ASSUME NEW a \in Actors, Command(a), ~RepoAdd(a) PROVE UNCHANGED <<repo, slots>>
    BY <1>2, Zenon DEF Command, RepoRemove, Prune, Review, Acquire, Release, Delete, Refresh, Start,
         Cancel, DeleteSession
  <1>3. ASSUME NEW a \in Actors, Step(a) PROVE UNCHANGED <<repo, slots>>
    <2>1. \/ RemoveSessions(a) \/ SyncList(a) \/ SyncCheck(a) \/ SyncPut(a)
          \/ AcquireReuse(a) \/ AcquireCreate(a) \/ ReleaseCheck(a) \/ ReleaseGit(a)
          \/ PruneList(a) \/ DeleteGet(a) \/ DeleteCheck(a) \/ DeleteGit(a)
          \/ RefreshGit(a) \/ ReviewList(a) \/ StartCheck(a) \/ StartLaunch(a)
          \/ StartWait(a) \/ StartFail(a) \/ CancelPut(a) \/ GitFails(a)
      BY <1>3, SMTT(60) DEF Step
    <2>2. ASSUME RemoveSessions(a) \/ SyncList(a) \/ SyncCheck(a) \/ SyncPut(a)
          PROVE  UNCHANGED <<repo, slots>>
      BY <2>2 DEF RemoveSessions, SyncList, SyncCheck, SyncPut
    <2>3. ASSUME AcquireReuse(a) \/ AcquireCreate(a) \/ ReleaseCheck(a) \/ ReleaseGit(a)
          PROVE  UNCHANGED <<repo, slots>>
      BY <2>3, SMTT(60) DEF AcquireReuse, AcquireCreate, ReleaseCheck, ReleaseGit
    <2>4. ASSUME PruneList(a) \/ DeleteGet(a) \/ DeleteCheck(a) \/ DeleteGit(a)
          PROVE  UNCHANGED <<repo, slots>>
      BY <2>4 DEF PruneList, DeleteGet, DeleteCheck, DeleteGit
    <2>5. ASSUME RefreshGit(a) \/ ReviewList(a) \/ StartCheck(a) \/ StartLaunch(a)
          PROVE  UNCHANGED <<repo, slots>>
      BY <2>5 DEF RefreshGit, ReviewList, StartCheck, StartLaunch
    <2>6. ASSUME StartWait(a) \/ StartFail(a) \/ CancelPut(a) \/ GitFails(a)
          PROVE  UNCHANGED <<repo, slots>>
      BY <2>6 DEF StartWait, StartFail, CancelPut, GitFails
    <2>7. QED
      BY <2>1, <2>2, <2>3, <2>4, <2>5, <2>6
  <1>4. ASSUME World \/ (\E a \in Actors : Poll(a)) \/ UNCHANGED vars
        PROVE  UNCHANGED <<repo, slots>>
    BY <1>4 DEF World, Exit, Edit, Commit, Lose, Crash, Poll, vars
  <1>5. QED
    BY <1>1, <1>2, <1>3, <1>4 DEF Next, Quiet

LEMMA CommandOccupancy ==
    ASSUME SingleMutator, TypeInv, Control', Occupancy, NEW a \in Mutators, Quiet,
           Command(a), ~RepoAdd(a)
    PROVE  Occupancy'
  <1>1. a \in Actors
    BY MutatorsAreActors
  <1>2. CASE \E x \in Sessions : DeleteSession(a, x)
    <2>1. Holding(a)'
      BY <1>1, <1>2, HoldingStill, Zenon DEF DeleteSession, Occupancy, Quiet
    <2>2. QED
      BY <2>1, QuietStep DEF Quiet
  <1>3. CASE ~\E x \in Sessions : DeleteSession(a, x)
    <2>1. UNCHANGED sess
      BY <1>3, Zenon DEF Command, RepoAdd, RepoRemove, Prune, Review, Acquire, Release, Delete,
           Refresh, Start, Cancel
    <2>2. Holding(a)'
      BY <1>1, <1>3, <2>1, BeginHolding, AcquireHolding, BeginStartHolding DEF Command
    <2>3. QED
      BY <2>2, QuietStep DEF Quiet
  <1>4. QED
    BY <1>2, <1>3

LEMMA StepOccupancy ==
    ASSUME SingleMutator, TypeInv, Control, Control', Occupancy, NEW a \in Mutators, Quiet,
           Step(a),
           ~(\/ RemoveSessions(a) \/ RemoveSlots(a) \/ RemoveRepo(a)
             \/ AcquirePut(a) \/ ReleasePut(a) \/ DeleteRow(a) \/ WriteBack(a)
             \/ StartRefresh(a) \/ StartInsert(a) \/ StartPut(a))
    PROVE  Occupancy'
  <1>1. a \in Actors
    BY MutatorsAreActors
  <1>2. Holding(a)'
    <2>1. CASE SyncList(a) \/ SyncCheck(a) \/ SyncPut(a)
      BY <1>1, <2>1, SyncHolding
    <2>2. CASE AcquireReuse(a) \/ AcquireCreate(a)
      BY <1>1, <2>2, AcquireStepsHolding, Zenon DEF Quiet
    <2>3. CASE ReleaseCheck(a) \/ ReleaseGit(a)
      BY <1>1, <2>3, ReleaseHolding, Zenon DEF ReleaseCheck, ReleaseGit
    <2>4. CASE PruneList(a) \/ DeleteGet(a) \/ DeleteCheck(a) \/ DeleteGit(a)
      BY <1>1, <2>4, DeleteHolding
    <2>5. CASE RefreshGit(a) \/ ReviewList(a)
      BY <1>1, <2>5, RefreshHolding
    <2>6. CASE StartCheck(a) \/ StartLaunch(a) \/ StartWait(a)
      BY <1>1, <2>6, StartHolding DEF Quiet
    <2>7. CASE StartFail(a) \/ CancelPut(a) \/ GitFails(a)
      BY <1>1, <2>7, Finished, NextSlotHolding DEF StartFail, CancelPut, GitFails
    <2>8. QED
      BY <2>1, <2>2, <2>3, <2>4, <2>5, <2>6, <2>7 DEF Step
  <1>3. QED
    BY <1>2, QuietStep DEF Quiet

LEMMA NextOccupancy ==
    ASSUME SingleMutator, TypeInv, Control, Control', Occupancy, [Next]_vars
    PROVE  Occupancy'
  <1>1. ASSUME NEW a \in Actors, SessionHoldsSlot' /\ NoOrphans' /\ Holding(a)', a \in Mutators
        PROVE  Occupancy'
    BY <1>1, OthersHold DEF Occupancy
  <1>2. ASSUME NEW a \in Actors,
               \/ RepoAdd(a) \/ RemoveSessions(a) \/ RemoveSlots(a) \/ RemoveRepo(a)
               \/ AcquirePut(a) \/ ReleasePut(a) \/ DeleteRow(a) \/ WriteBack(a)
               \/ StartRefresh(a) \/ StartInsert(a) \/ StartPut(a)
        PROVE  Occupancy'
    <2>1. a \in Mutators
      BY <1>2, InsideCommand
      DEF RepoAdd, Ready, RemoveSessions, RemoveSlots, RemoveRepo, AcquirePut, ReleasePut,
          DeleteRow, WriteBack, StartRefresh, StartInsert, StartPut, At, SyncSteps
    <2>2. QED
      BY <1>1, <1>2, <2>1, RemovalKeeps, PutKeeps, WriteBackKeeps, StartRefreshKeeps,
         StartPutKeeps, SMTT(60)
  <1>3. CASE ~\E a \in Actors :
                \/ RepoAdd(a) \/ RemoveSessions(a) \/ RemoveSlots(a) \/ RemoveRepo(a)
                \/ AcquirePut(a) \/ ReleasePut(a) \/ DeleteRow(a) \/ WriteBack(a)
                \/ StartRefresh(a) \/ StartInsert(a) \/ StartPut(a)
    <2>1. Quiet
      BY <1>3, QuietSteps
    <2>2. ASSUME NEW a \in Actors, Command(a) PROVE Occupancy'
      <3>1. a \in Mutators
        BY <2>2, Zenon DEF Command, RepoAdd, RepoRemove, Prune, Review, Acquire, Release, Delete,
             Refresh, Start, Cancel, DeleteSession, Ready
      <3>2. QED
        BY <1>3, <2>1, <2>2, <3>1, CommandOccupancy, Zenon
    <2>3. ASSUME NEW a \in Actors, Step(a) PROVE Occupancy'
      <3>1. CASE a \in Mutators
        BY <1>3, <2>1, <2>3, <3>1, StepOccupancy
      <3>2. CASE a \notin Mutators
        <4>1. job[a].pc \in SyncSteps \cup {"idle"}
          BY <3>2, InsideCommand, Zenon
        <4>2. SyncList(a) \/ SyncCheck(a) \/ SyncPut(a)
          BY <1>3, <2>3, <4>1, Zenon
          DEF Step, AcquireReuse, AcquireCreate, ReleaseCheck, ReleaseGit, PruneList,
              DeleteGet, DeleteCheck, DeleteGit, RefreshGit, ReviewList, StartCheck,
              StartLaunch, StartWait, StartFail, CancelPut, GitFails, GitSteps, At, SyncSteps
        <4>3. QED
          BY <2>1, <3>2, <4>2, WatchOccupancy
      <3>3. QED
        BY <3>1, <3>2
    <2>4. CASE UNCHANGED vars
      BY <2>1, <2>4, HoldingStill, QuietTables DEF vars, Occupancy, Quiet
    <2>5. QED
      BY <2>1, <2>2, <2>3, <2>4, WatchOccupancy DEF Next
  <1>4. QED
    BY <1>2, <1>3

LEMMA InitOccupancy == Init => Occupancy
  BY DEF Init, Occupancy, SessionHoldsSlot, NoOrphans, Pending, NoSession, Holding,
         GrantsActive, StartActive, Unoccupied, RemovalOrder, IdleJob, CopySteps, StartSteps,
         SyncSteps

\* The strengthening behind the safety properties below is invariant when one
\* actor runs the commands.
THEOREM IInvAlways ==
    ASSUME SingleMutator
    PROVE  Spec => []IInv
  <1>1. Init => IInv
    BY InitType, InitExclusive, InitOccupancy DEF IInv
  <1>2. IInv /\ [Next]_vars => IInv'
    BY NextType, NextControl, NextExclusive, NextOccupancy DEF IInv
  <1>3. QED
    BY <1>1, <1>2, PTL DEF Spec

\* With one mutator, release, delete, prune and repo remove never take its slot
\* from a pending session, although they check first and act several statements
\* later, and although snapshots write session rows in between.
THEOREM SessionHoldsSlotAlways ==
    ASSUME SingleMutator
    PROVE  Spec => []SessionHoldsSlot
  <1>1. IInv => SessionHoldsSlot
    BY DEF IInv, Occupancy
  <1>2. QED
    BY <1>1, IInvAlways, PTL

\* With one mutator, the three statements of delete_repository leave neither a
\* slot nor a pending session, even when a crash separates them.
THEOREM NoOrphansAlways ==
    ASSUME SingleMutator
    PROVE  Spec => []NoOrphans
  <1>1. IInv => NoOrphans
    BY DEF IInv, Occupancy
  <1>2. QED
    BY <1>1, IInvAlways, PTL

-----------------------------------------------------------------------------
(* One actor that runs commands: slots and branches                        *)

\* A record read earlier still says whom the slot is granted to.
OfSlot(r, s) == r.task = slots[s].task /\ r.status = slots[s].status

\* A slot that is being granted is nobody's, and then has its new branch.
Granting(a) ==
    LET s == job[a].slot
    IN /\ job[a].pc \in {"acquire.reuse", "acquire.create", "acquire.put"} =>
            slots[s].status # "active"
       /\ job[a].pc = "acquire.put" /\ OnDisk(s) => trees[s].head = job[a].copy[s].task

\* What is written back is what was read, up to its refresh.
Copying(a) ==
    /\ job[a].pc = "start.refresh" => OfSlot(job[a].copy[job[a].slot], job[a].slot)
    /\ job[a].pc \in {"refresh.git", "writeback"} =>
         \A s \in job[a].queue : OfSlot(job[a].copy[s], s)
    /\ job[a].pc = "release.put" => job[a].copy[job[a].slot].status = "released"

Branches == ActiveOnBranch /\ \A a \in Actors : Granting(a) /\ Copying(a)

LEMMA InitBranches == Init => Branches
  BY DEF Init, Branches, ActiveOnBranch, Granting, Copying, IdleJob, NoSlot

OnBranch(s) == slots[s].status = "active" /\ OnDisk(s) => trees[s].head = slots[s].task

\* Steps about which Granting and Copying say nothing.
Plain == Steps \ {"acquire.reuse", "acquire.create", "acquire.put", "release.put",
                  "refresh.git", "writeback", "start.refresh"}

LEMMA PlainHolds ==
    ASSUME NEW a \in Actors, job'[a].pc \in Plain
    PROVE  Granting(a)' /\ Copying(a)'
  BY DEF Plain, Granting, Copying

\* A step of the one mutator, unless it ends a release: what it leaves on its
\* branch counts, and so does what it begins to release.
LEMMA MutatorBranches ==
    ASSUME SingleMutator, TypeInv, Control', Branches, NEW a \in Mutators,
           \A b \in Actors \ {a} : job'[b] = job[b], ~At(a, "release.put"),
           \A s \in Slots : OnBranch(s) =>
              OnBranch(s)' \/ (job'[a].pc = "release.put" /\ job'[a].slot = s),
           Granting(a)', Copying(a)'
    PROVE  Branches'
<1>1. ASSUME NEW b \in Actors \ {a} PROVE Granting(b)' /\ Copying(b)'
  <2>1. job'[b].pc \in SyncSteps \cup {"idle"}
    BY DEF SingleMutator, Control, Watching
  <2>2. job'[b].pc \in Plain
    BY <2>1 DEF Plain, Steps, SyncSteps
  <2> QED
    BY <2>2, PlainHolds
<1>2. ActiveOnBranch'
  BY MutatorsAreActors DEF Branches, ActiveOnBranch, OnBranch, At
<1> QED
  BY <1>1, <1>2 DEF Branches

\* A step of anybody who has nothing to do with slots.
LEMMA PlainBranches ==
    ASSUME Branches, NEW a \in Actors, ~At(a, "release.put"),
           \A b \in Actors \ {a} : job'[b] = job[b],
           UNCHANGED <<slots, trees>>, job'[a].pc \in Plain
    PROVE  Branches'
<1>1. ASSUME NEW b \in Actors \ {a} PROVE Granting(b)' /\ Copying(b)'
  BY DEF Branches, Granting, Copying, OfSlot, OnDisk
<1>2. ActiveOnBranch'
  BY DEF Branches, ActiveOnBranch, OnDisk, At
<1> QED
  BY <1>1, <1>2, PlainHolds DEF Branches

LEMMA FinishPlain ==
    ASSUME TypeInv, NEW a \in Actors, Finish(a) \/ NextSlot(a, "delete.get")
    PROVE  job'[a].pc \in Plain
<1>1. CASE Finish(a)
  <2>1. job'[a] = IdleJob
    BY <1>1, Moved DEF Finish
  <2>2. job'[a].pc = "idle"
    BY <2>1 DEF IdleJob
  <2> QED
    BY <2>2 DEF Plain, Steps
<1>2. CASE Set(a, [IdleJob EXCEPT !.pc = "delete.get", !.queue = job[a].queue])
  <2>1. job'[a] = [IdleJob EXCEPT !.pc = "delete.get", !.queue = job[a].queue]
    BY <1>2, Moved
  <2>2. job'[a].pc = "delete.get"
    BY <2>1 DEF IdleJob
  <2> QED
    BY <2>2 DEF Plain, Steps
<1> QED
  BY <1>1, <1>2 DEF NextSlot

\* Commands that begin with nothing of a slot that they will store.
LEMMA BeginPlain ==
    ASSUME TypeInv, NEW a \in Actors,
           \/ Poll(a) \/ RepoAdd(a) \/ RepoRemove(a) \/ Prune(a) \/ Review(a)
           \/ \E s \in Slots : Release(a, s) \/ Delete(a, s)
           \/ \E x \in Sessions : Cancel(a, x) \/ DeleteSession(a, x)
    PROVE  job'[a].pc \in Plain /\ UNCHANGED <<slots, trees>>
<1>1. CASE RepoAdd(a) \/ \E x \in Sessions : DeleteSession(a, x)
  BY <1>1 DEF RepoAdd, DeleteSession, Ready, Idle, At, Plain, Steps
<1>2. CASE RepoRemove(a)
  BY <1>2, GoneTo DEF RepoRemove, Plain, Steps
<1>3. CASE Poll(a)
  <2>1. job'[a] = [IdleJob EXCEPT !.pc = "sync.list"]
    BY <1>3, Moved DEF Poll
  <2>2. job'[a].pc = "sync.list"
    BY <2>1 DEF IdleJob
  <2> QED
    BY <1>3, <2>2 DEF Poll, Plain, Steps, SyncSteps
<1>4. CASE Prune(a) \/ Review(a)
  <2>1. PICK ret : job'[a] = [IdleJob EXCEPT !.pc = "sync.list", !.ret = ret]
    BY <1>4, Moved DEF Prune, Review
  <2>2. job'[a].pc = "sync.list"
    BY <2>1 DEF IdleJob
  <2> QED
    BY <1>4, <2>2 DEF Prune, Review, Plain, Steps, SyncSteps
<1>5. ASSUME NEW s \in Slots, Release(a, s)
      PROVE  job'[a].pc \in Plain /\ UNCHANGED <<slots, trees>>
  <2>1. job'[a] = [IdleJob EXCEPT !.pc = "sync.list", !.ret = "release.check",
                                  !.slot = s, !.copy[s] = slots[s]]
    BY <1>5, Moved DEF Release
  <2>2. job'[a].pc = "sync.list"
    BY <2>1 DEF IdleJob
  <2> QED
    BY <1>5, <2>2 DEF Release, Plain, Steps, SyncSteps
<1>6. ASSUME NEW s \in Slots, Delete(a, s)
      PROVE  job'[a].pc \in Plain /\ UNCHANGED <<slots, trees>>
  <2>1. job'[a] = [IdleJob EXCEPT !.pc = "delete.get", !.queue = {s}]
    BY <1>6, Moved DEF Delete
  <2>2. job'[a].pc = "delete.get"
    BY <2>1 DEF IdleJob
  <2> QED
    BY <1>6, <2>2 DEF Delete, Plain, Steps
<1>7. ASSUME NEW x \in Sessions, Cancel(a, x)
      PROVE  job'[a].pc \in Plain /\ UNCHANGED <<slots, trees>>
  <2>1. job'[a] = [IdleJob EXCEPT !.pc = "cancel.put", !.sid = x,
                                  !.srow = [sess[x] EXCEPT !.status = "cancelled"]]
    BY <1>7, Moved DEF Cancel
  <2>2. job'[a].pc = "cancel.put"
    BY <2>1 DEF IdleJob
  <2> QED
    BY <1>7, <2>2 DEF Cancel, Plain, Steps
<1> QED
  BY <1>1, <1>2, <1>3, <1>4, <1>5, <1>6, <1>7

\* Steps that change neither slots nor trees.
LEMMA StepPlain ==
    ASSUME TypeInv, NEW a \in Actors,
           \/ RemoveSessions(a) \/ RemoveRepo(a)
           \/ SyncList(a) \/ SyncCheck(a) \/ SyncPut(a)
           \/ ReleaseCheck(a) \/ PruneList(a) \/ DeleteGet(a) \/ DeleteCheck(a)
           \/ StartCheck(a) \/ StartInsert(a) \/ StartLaunch(a) \/ StartWait(a)
           \/ StartPut(a) \/ StartFail(a) \/ CancelPut(a) \/ GitFails(a)
    PROVE  job'[a].pc \in Plain /\ UNCHANGED <<slots, trees>> /\ ~At(a, "release.put")
<1> USE DEF Plain, Steps, SyncSteps, StartSteps
<1>0. job[a] \in Job
  BY DEF TypeInv, TypeOK
<1>1. CASE RemoveSessions(a) \/ RemoveRepo(a)
  BY <1>1, GoneTo, FinishPlain DEF RemoveSessions, RemoveRepo, At
<1>2. CASE SyncList(a) \/ SyncCheck(a) \/ SyncPut(a)
  <2>1. job'[a].pc \in SyncSteps \cup {job[a].ret, "idle"}
    BY <1>2, SyncGoes
  <2> QED
    BY <1>0, <1>2, <2>1, Zenon DEF Job, SyncList, SyncCheck, SyncPut, At
<1>3. CASE ReleaseCheck(a)
  <2>1. CASE Set(a, [job[a] EXCEPT !.pc = "release.git",
                                   !.copy[job[a].slot] = Refreshed(@, job[a].slot)])
    <3>1. job'[a] = [job[a] EXCEPT !.pc = "release.git",
                                   !.copy[job[a].slot] = Refreshed(@, job[a].slot)]
      BY <2>1, Moved
    <3>2. job'[a].pc = "release.git"
      BY <1>0, <3>1 DEF Job
    <3> QED
      BY <1>3, <3>2 DEF ReleaseCheck, At
  <2> QED
    BY <1>3, <2>1, FinishPlain DEF ReleaseCheck, At
<1>4. CASE PruneList(a) \/ DeleteGet(a)
  <2>1. ASSUME NEW queue, Set(a, [IdleJob EXCEPT !.pc = "delete.get", !.queue = queue])
        PROVE  job'[a].pc \in Plain
    <3>1. job'[a] = [IdleJob EXCEPT !.pc = "delete.get", !.queue = queue]
      BY <2>1, Moved
    <3> QED
      BY <3>1 DEF IdleJob
  <2>2. ASSUME NEW s, NEW queue,
               Set(a, [IdleJob EXCEPT !.pc = "sync.list", !.ret = "delete.check", !.slot = s,
                         !.copy[s] = slots[s], !.known = repo, !.queue = queue])
        PROVE  job'[a].pc \in Plain
    <3>1. job'[a] = [IdleJob EXCEPT
                         !.pc = "sync.list", !.ret = "delete.check", !.slot = s,
                         !.copy[s] = slots[s], !.known = repo, !.queue = queue]
      BY <2>2, Moved
    <3> QED
      BY <3>1 DEF IdleJob
  <2> QED
    BY <1>4, <2>1, <2>2, FinishPlain, Zenon DEF PruneList, DeleteGet, At
<1>5. CASE DeleteCheck(a) \/ StartCheck(a) \/ StartInsert(a)
  BY <1>5, GoneTo, FinishPlain DEF DeleteCheck, StartCheck, StartInsert, At
<1>6. CASE StartLaunch(a)
  <2>1. ASSUME NEW pc \in {"start.put", "start.wait"},
               Set(a, [job[a] EXCEPT !.srow.started = TRUE, !.pc = pc])
        PROVE  job'[a].pc \in Plain
    <3>1. job'[a] = [job[a] EXCEPT !.srow.started = TRUE, !.pc = pc]
      BY <2>1, Moved
    <3>2. job'[a].pc = pc
      BY <1>0, <3>1 DEF Job
    <3> QED
      BY <3>2
  <2>2. \/ \E pc \in {"start.put", "start.wait"} :
              Set(a, [job[a] EXCEPT !.srow.started = TRUE, !.pc = pc])
        \/ Goto(a, "start.fail")
    BY <1>6 DEF StartLaunch
  <2>3. job'[a].pc \in Plain
    BY <2>1, <2>2, GoneTo
  <2> QED
    BY <1>6, <2>3 DEF StartLaunch, At
<1>7. CASE StartWait(a)
  <2>1. PICK st : Set(a, [job[a] EXCEPT !.pc = "start.put", !.srow.status = st])
    BY <1>7 DEF StartWait
  <2>2. job'[a] = [job[a] EXCEPT !.pc = "start.put", !.srow.status = st]
    BY <2>1, Moved
  <2>3. job'[a].pc = "start.put"
    BY <1>0, <2>2 DEF Job
  <2> QED
    BY <1>7, <2>3 DEF StartWait, At
<1>8. CASE StartPut(a) \/ StartFail(a) \/ CancelPut(a) \/ GitFails(a)
  BY <1>8, FinishPlain DEF StartPut, StartFail, CancelPut, GitFails, GitSteps, At
<1> QED
  BY <1>1, <1>2, <1>3, <1>4, <1>5, <1>6, <1>7, <1>8

-----------------------------------------------------------------------------
(* Steps that grant, release and remove slots                              *)

\* What an actor does is not done by another.
LEMMA Alone ==
    ASSUME TypeInv, NEW a \in Actors, \E j : Set(a, j)
    PROVE  \A b \in Actors \ {a} : job'[b] = job[b]
  BY Moved

LEMMA AcquireBranches ==
    ASSUME SingleMutator, TypeInv, Control', Branches, NEW a \in Mutators,
           NEW t \in Tasks, NEW strat \in Strategies, Acquire(a, t, strat)
    PROVE  Branches'
<1> DEFINE J(pc, s, r) == [IdleJob EXCEPT !.pc = pc, !.slot = s, !.copy[s] = r]
<1>0. a \in Actors
  BY MutatorsAreActors
<1>1. PICK pc \in {"acquire.reuse", "acquire.create"}, s \in Slots :
         slots[s].status # "active" /\ \E r : Set(a, J(pc, s, r))
  <2>1. \A s \in Slots : s \in Reusable \/ NewSlot(s) => slots[s].status # "active"
    BY DEF Reusable, NewSlot, NoSlot
  <2>2. \E pc \in {"acquire.reuse", "acquire.create"}, s \in Slots :
           (s \in Reusable \/ NewSlot(s)) /\ \E r : Set(a, J(pc, s, r))
    BY DEF Acquire, Reusable
  <2> QED
    BY <2>1, <2>2
<1>2. PICK r : Set(a, J(pc, s, r))
  BY <1>1
<1>3. job'[a] = J(pc, s, r)
  BY <1>0, <1>2, Moved
<1>4. job'[a].pc = pc /\ job'[a].slot = s
  BY <1>3 DEF IdleJob
<1>5. UNCHANGED <<slots, trees>> /\ ~At(a, "release.put")
  BY DEF Acquire, Ready, Idle, At
<1>6. Granting(a)' /\ Copying(a)'
  BY <1>1, <1>4, <1>5 DEF Granting, Copying
<1>7. \A x \in Slots : OnBranch(x) => OnBranch(x)'
  BY <1>5 DEF OnBranch, OnDisk
<1>8. \A b \in Actors \ {a} : job'[b] = job[b]
  BY <1>0, <1>2, Alone
<1> QED
  BY <1>5, <1>6, <1>7, <1>8, MutatorBranches

\* The branch is checked out before the grant is stored.
LEMMA CheckoutBranches ==
    ASSUME SingleMutator, TypeInv, Control', Branches, NEW a \in Mutators,
           AcquireReuse(a) \/ AcquireCreate(a)
    PROVE  Branches'
<1> DEFINE s == job[a].slot
<1>0. /\ a \in Actors /\ job[a] \in Job /\ s \in Slots
      /\ trees \in [Slots -> Tree \cup {NoTree, LostTree}]
  BY MutatorsAreActors
  DEF AcquireReuse, AcquireCreate, At, TypeInv, TypeOK, WellFormed, CopySteps
<1>1. slots[s].status # "active" /\ UNCHANGED slots /\ ~At(a, "release.put")
  BY <1>0 DEF AcquireReuse, AcquireCreate, At, Branches, Granting
<1>2. trees'[s].head = job[a].copy[s].task /\ \A x \in Slots \ {s} : trees'[x] = trees[x]
  <2>1. CASE AcquireReuse(a)
    <3>1. trees[s] \in Tree /\ trees' = [trees EXCEPT ![s].head = job[a].copy[s].task]
      BY <1>0, <2>1 DEF AcquireReuse, OnDisk, NoTree, LostTree
    <3> QED
      BY <1>0, <3>1 DEF Tree
  <2>2. CASE AcquireCreate(a)
    BY <1>0, <2>2 DEF AcquireCreate
  <2> QED
    BY <2>1, <2>2
<1>3. Goto(a, "acquire.put")
  BY DEF AcquireReuse, AcquireCreate
<1>4. job'[a].pc = "acquire.put" /\ job'[a].slot = s /\ job'[a].copy = job[a].copy
  BY <1>0, <1>3, GoneTo
<1>5. Granting(a)' /\ Copying(a)'
  BY <1>1, <1>2, <1>4 DEF Granting, Copying
<1>6. \A x \in Slots : OnBranch(x) => OnBranch(x)'
  BY <1>1, <1>2 DEF OnBranch, OnDisk
<1>7. \A b \in Actors \ {a} : job'[b] = job[b]
  BY <1>0, <1>3, Alone DEF Goto
<1> QED
  BY <1>1, <1>5, <1>6, <1>7, MutatorBranches

\* A slot is stored that is on its branch, or no slot at all.
LEMMA StoreBranches ==
    ASSUME SingleMutator, TypeInv, Control', Branches, NEW a \in Mutators,
           AcquirePut(a) \/ DeleteRow(a) \/ RemoveSlots(a)
    PROVE  Branches'
<1> DEFINE s == job[a].slot
<1>0. a \in Actors /\ UNCHANGED trees /\ ~At(a, "release.put")
  BY MutatorsAreActors DEF AcquirePut, DeleteRow, RemoveSlots, At
<1>1. job'[a].pc \in Plain
  BY <1>0, FinishPlain, GoneTo DEF AcquirePut, DeleteRow, RemoveSlots, Plain, Steps
<1>2. \A x \in Slots : OnBranch(x) => OnBranch(x)'
  <2>1. CASE AcquirePut(a)
    <3>1. s \in Slots /\ slots' = [slots EXCEPT ![s] = job[a].copy[s]]
      BY <1>0, <2>1 DEF AcquirePut, At, TypeInv, WellFormed, CopySteps
    <3>2. OnDisk(s) => trees[s].head = job[a].copy[s].task
      BY <1>0, <2>1 DEF AcquirePut, At, Branches, Granting
    <3> QED
      BY <1>0, <3>1, <3>2 DEF OnBranch, OnDisk, TypeInv, TypeOK
  <2>2. CASE DeleteRow(a)
    BY <1>0, <2>2 DEF DeleteRow, OnBranch, OnDisk, NoSlot, TypeInv, TypeOK
  <2>3. CASE RemoveSlots(a)
    BY <1>0, <2>3 DEF RemoveSlots, OnBranch, NoSlot
  <2> QED
    BY <2>1, <2>2, <2>3
<1>3. \A b \in Actors \ {a} : job'[b] = job[b]
  BY <1>0, Alone DEF AcquirePut, DeleteRow, RemoveSlots, NextSlot, Finish, Goto
<1> QED
  BY <1>0, <1>1, <1>2, <1>3, PlainHolds, MutatorBranches

\* A worktree that is detached is about to be released in the table, one that
\* is removed is not on disk.
LEMMA RemoveBranches ==
    ASSUME SingleMutator, TypeInv, Control', Branches, NEW a \in Mutators,
           ReleaseGit(a) \/ DeleteGit(a)
    PROVE  Branches'
<1> DEFINE s == job[a].slot
<1>0. /\ a \in Actors /\ job[a] \in Job /\ s \in Slots /\ job[a].copy[s] \in SlotRow
      /\ UNCHANGED slots /\ ~At(a, "release.put")
  BY MutatorsAreActors DEF ReleaseGit, DeleteGit, At, TypeInv, TypeOK, WellFormed, CopySteps
<1>1. \A x \in Slots \ {s} : OnBranch(x) => OnBranch(x)'
  BY <1>0 DEF ReleaseGit, DeleteGit, OnBranch, OnDisk, TypeInv, TypeOK
<1>2. CASE ReleaseGit(a)
  <2> DEFINE j == [job[a] EXCEPT !.pc = "release.put", !.copy[s].status = "released",
                                 !.copy[s].dirty = FALSE]
  <2>1. Set(a, j)
    BY <1>2 DEF ReleaseGit
  <2>2. job'[a] = j
    BY <1>0, <2>1, Moved
  <2>3. job'[a].pc = "release.put" /\ job'[a].slot = s
        /\ job'[a].copy[s] = [job[a].copy[s] EXCEPT !.status = "released", !.dirty = FALSE]
    BY <1>0, <2>2 DEF Job
  <2>4. Granting(a)' /\ Copying(a)'
    BY <1>0, <2>3 DEF Granting, Copying, SlotRow
  <2>5. \A b \in Actors \ {a} : job'[b] = job[b]
    BY <1>0, <2>1, Alone
  <2> QED
    BY <1>0, <1>1, <2>3, <2>4, <2>5, MutatorBranches
<1>3. CASE DeleteGit(a)
  <2>0. trees'[s] \in {NoTree, LostTree}
    BY <1>0, <1>3 DEF DeleteGit, TypeInv, TypeOK
  <2>1. \A x \in Slots : OnBranch(x) => OnBranch(x)'
    BY <1>1, <2>0 DEF OnBranch, OnDisk, NoTree, LostTree
  <2>2. job'[a].pc \in Plain
    BY <1>0, <1>3, GoneTo DEF DeleteGit, Plain, Steps
  <2>3. \A b \in Actors \ {a} : job'[b] = job[b]
    BY <1>0, <1>3, Alone DEF DeleteGit, Goto
  <2> QED
    BY <1>0, <2>1, <2>2, <2>3, PlainHolds, MutatorBranches
<1> QED
  BY <1>2, <1>3

LEMMA ReleaseBranches ==
    ASSUME SingleMutator, TypeInv, Control, Control', Branches, NEW a \in Mutators,
           ReleasePut(a)
    PROVE  Branches'
<1> DEFINE s == job[a].slot
<1>0. a \in Actors /\ s \in Slots /\ job[a].copy[s].status = "released"
  BY MutatorsAreActors
  DEF ReleasePut, At, TypeInv, WellFormed, CopySteps, Branches, Copying
<1>1. slots' = [slots EXCEPT ![s] = job[a].copy[s]] /\ UNCHANGED trees
  BY DEF ReleasePut
<1>2. \A b \in Actors \ {a} : job'[b] = job[b] /\ ~At(b, "release.put")
  <2>1. \A b \in Actors \ {a} : job'[b] = job[b]
    BY <1>0, Alone DEF ReleasePut, Finish
  <2>2. \A b \in Actors \ {a} : ~At(b, "release.put")
    BY InsideCommand DEF SingleMutator, At, SyncSteps
  <2> QED
    BY <2>1, <2>2
<1>3. ActiveOnBranch'
  <2>1. slots'[s].status = "released"
    BY <1>0, <1>1 DEF TypeInv, TypeOK
  <2>2. ASSUME NEW x \in Slots \ {s}, slots[x].status = "active", OnDisk(x)
        PROVE  trees[x].head = slots[x].task
    BY <1>2, <2>2 DEF Branches, ActiveOnBranch, At
  <2>3. \A x \in Slots \ {s} : slots'[x] = slots[x] /\ trees'[x] = trees[x]
    BY <1>1 DEF TypeInv, TypeOK
  <2> QED
    BY <2>1, <2>2, <2>3 DEF ActiveOnBranch, OnDisk
<1>4. ASSUME NEW b \in Actors PROVE job'[b].pc \in Plain
  <2>1. b = a => job'[b].pc \in Plain
    BY <1>0, FinishPlain DEF ReleasePut
  <2>2. b # a => job'[b].pc \in SyncSteps \cup {"idle"}
    BY <1>4 DEF SingleMutator, Control, Watching
  <2> QED
    BY <2>1, <2>2 DEF Plain, Steps, SyncSteps
<1> QED
  BY <1>3, <1>4, PlainHolds DEF Branches

-----------------------------------------------------------------------------
(* Steps that read slots and write them back                               *)

LEMMA ReadBranches ==
    ASSUME SingleMutator, TypeInv, Control', Branches, NEW a \in Mutators,
           \/ \E s \in Slots : Refresh(a, s)
           \/ ReviewList(a)
           \/ \E s \in Slots, ro \in BOOLEAN, mode \in Modes : Start(a, s, ro, mode)
    PROVE  Branches'
<1>0. a \in Actors /\ UNCHANGED <<slots, trees>> /\ ~At(a, "release.put")
  BY MutatorsAreActors DEF Refresh, ReviewList, Start, Ready, Idle, At
<1>1. \A x \in Slots : OnBranch(x) => OnBranch(x)'
  BY <1>0 DEF OnBranch, OnDisk
<1>2. \A b \in Actors \ {a} : job'[b] = job[b]
  BY <1>0, Alone DEF Refresh, ReviewList, Start, Finish
<1>3. ASSUME NEW s \in Slots, Refresh(a, s) PROVE Branches'
  <2>1. job'[a] = [IdleJob EXCEPT !.pc = "refresh.git", !.queue = {s}, !.copy[s] = slots[s]]
    BY <1>0, <1>3, Moved DEF Refresh
  <2>2. job'[a].pc = "refresh.git" /\ job'[a].queue = {s} /\ job'[a].copy[s] = slots[s]
    BY <2>1 DEF IdleJob
  <2>3. Granting(a)' /\ Copying(a)'
    BY <1>0, <2>2 DEF Granting, Copying, OfSlot
  <2> QED
    BY <1>0, <1>1, <1>2, <2>3, MutatorBranches
<1>4. CASE ReviewList(a)
  <2> DEFINE listed == {s \in Slots : slots[s].status \in {"active", "released"}}
             j == [IdleJob EXCEPT
                     !.pc = "writeback", !.queue = listed,
                     !.copy = [s \in Slots |-> IF s \in listed THEN slots[s] ELSE NoSlot]]
  <2>1. CASE Finish(a)
    BY <1>0, <1>2, <2>1, FinishPlain, PlainBranches
  <2>2. CASE Set(a, j)
    <3>1. job'[a] = j
      BY <1>0, <2>2, Moved
    <3>2. job'[a].pc = "writeback" /\ job'[a].queue = listed
          /\ \A s \in listed : job'[a].copy[s] = slots[s]
      BY <3>1 DEF IdleJob
    <3>3. Granting(a)' /\ Copying(a)'
      BY <1>0, <3>2 DEF Granting, Copying, OfSlot
    <3> QED
      BY <1>0, <1>1, <1>2, <3>3, MutatorBranches
  <2> QED
    BY <1>4, <2>1, <2>2 DEF ReviewList
<1>5. ASSUME NEW s \in Slots, NEW ro \in BOOLEAN, NEW mode \in Modes, Start(a, s, ro, mode)
      PROVE  Branches'
  <2> DEFINE J(x) == [IdleJob EXCEPT
              !.pc = "start.refresh", !.slot = s, !.copy[s] = slots[s], !.sid = x,
              !.srow = [slot |-> s, ro |-> ro, mode |-> mode, started |-> FALSE,
                        status |-> IF mode = "dry" THEN "prepared" ELSE "running"]]
  <2>1. PICK x \in Sessions : job'[a] = J(x)
    BY <1>0, <1>5, Moved DEF Start
  <2>2. job'[a].pc = "start.refresh" /\ job'[a].slot = s /\ job'[a].copy[s] = slots[s]
    BY <2>1 DEF IdleJob
  <2>3. Granting(a)' /\ Copying(a)'
    BY <1>0, <2>2 DEF Granting, Copying, OfSlot
  <2> QED
    BY <1>0, <1>1, <1>2, <2>3, MutatorBranches
<1> QED
  BY <1>3, <1>4, <1>5

\* A refresh detaches worktrees of released slots only.
LEMMA RefreshBranches ==
    ASSUME SingleMutator, TypeInv, Control', Branches, NEW a \in Mutators, RefreshGit(a)
    PROVE  Branches'
<1>0. a \in Actors /\ job[a] \in Job /\ UNCHANGED slots /\ ~At(a, "release.put")
  BY MutatorsAreActors DEF RefreshGit, At, TypeInv, TypeOK
<1>1. \A s \in job[a].queue : OfSlot(job[a].copy[s], s)
  BY <1>0 DEF RefreshGit, At, Branches, Copying
<1>2. \A x \in Slots : OnBranch(x) => OnBranch(x)'
  <2>1. \/ UNCHANGED trees
        \/ \E s \in job[a].queue : /\ job[a].copy[s].status = "released"
                                   /\ trees' = [trees EXCEPT ![s].head = Detached]
    BY DEF RefreshGit
  <2>2. CASE UNCHANGED trees
    BY <1>0, <2>2 DEF OnBranch, OnDisk
  <2>3. ASSUME NEW s \in job[a].queue, job[a].copy[s].status = "released",
               trees' = [trees EXCEPT ![s].head = Detached], NEW x \in Slots, OnBranch(x)
        PROVE  OnBranch(x)'
    <3>1. slots[s].status = "released"
      BY <1>1, <2>3 DEF OfSlot
    <3>2. x # s => trees'[x] = trees[x]
      BY <2>3 DEF TypeInv, TypeOK
    <3> QED
      BY <1>0, <2>3, <3>1, <3>2 DEF OnBranch, OnDisk
  <2> QED
    BY <2>1, <2>2, <2>3
<1>3. CASE Finish(a)
  <2>1. job'[a].pc \in Plain /\ \A b \in Actors \ {a} : job'[b] = job[b]
    BY <1>0, <1>3, FinishPlain, Alone DEF Finish
  <2> QED
    BY <1>0, <1>2, <2>1, PlainHolds, MutatorBranches
<1>4. CASE Goto(a, "writeback")
  <2>1. job'[a].pc = "writeback" /\ job'[a].queue = job[a].queue /\ job'[a].copy = job[a].copy
    BY <1>0, <1>4, GoneTo
  <2>2. Granting(a)' /\ Copying(a)'
    BY <1>0, <1>1, <2>1 DEF Granting, Copying, OfSlot
  <2>3. \A b \in Actors \ {a} : job'[b] = job[b]
    BY <1>0, <1>4, Alone DEF Goto
  <2> QED
    BY <1>0, <1>2, <2>2, <2>3, MutatorBranches
<1> QED
  BY <1>3, <1>4 DEF RefreshGit

\* A recomputed record keeps the task, and the status or none of interest.
LEMMA RefreshedOnBranch ==
    ASSUME TypeInv, NEW s \in Slots, NEW r \in SlotRow, OfSlot(r, s),
           slots' = [slots EXCEPT ![s] = Refreshed(r, s)], UNCHANGED trees
    PROVE  /\ \A x \in Slots : OnBranch(x) => OnBranch(x)'
           /\ \A x \in Slots \ {s} : slots'[x] = slots[x]
<1>1. \A x \in Slots \ {s} : slots'[x] = slots[x]
  BY DEF TypeInv, TypeOK
<1>2. slots'[s] = Refreshed(r, s)
  BY DEF TypeInv, TypeOK
<1>3. Refreshed(r, s).task = r.task /\ Refreshed(r, s).status \in {"missing", r.status}
  BY DEF Refreshed, SlotRow
<1>4. OnBranch(s) => OnBranch(s)'
  BY <1>2, <1>3, SMTT(60) DEF OnBranch, OnDisk, OfSlot
<1> QED
  BY <1>1, <1>4 DEF OnBranch, OnDisk

LEMMA WriteBranches ==
    ASSUME SingleMutator, TypeInv, Control', Branches, NEW a \in Mutators,
           WriteBack(a) \/ StartRefresh(a)
    PROVE  Branches'
<1>0. /\ a \in Actors /\ job[a] \in Job /\ UNCHANGED trees /\ ~At(a, "release.put")
      /\ Copying(a) /\ WellFormed(job[a])
  BY MutatorsAreActors DEF WriteBack, StartRefresh, At, TypeInv, TypeOK, Branches
<1>1. CASE StartRefresh(a)
  <2> DEFINE s == job[a].slot
  <2>1. s \in Slots /\ job[a].copy[s] \in SlotRow /\ OfSlot(job[a].copy[s], s)
    BY <1>0, <1>1 DEF StartRefresh, At, Copying, WellFormed, CopySteps
  <2>2. slots' = [slots EXCEPT ![s] = Refreshed(job[a].copy[s], s)]
    BY <1>1 DEF StartRefresh
  <2>3. \A x \in Slots : OnBranch(x) => OnBranch(x)'
    BY <1>0, <2>1, <2>2, RefreshedOnBranch
  <2>4. CASE Finish(a)
    <3>1. job'[a].pc \in Plain /\ \A b \in Actors \ {a} : job'[b] = job[b]
      BY <1>0, <2>4, FinishPlain, Alone DEF Finish
    <3> QED
      BY <1>0, <2>3, <3>1, PlainHolds, MutatorBranches
  <2>5. CASE Set(a, [job[a] EXCEPT !.pc = "start.check", !.copy[s] = NoSlot])
    <3>1. job'[a] = [job[a] EXCEPT !.pc = "start.check", !.copy[s] = NoSlot]
      BY <1>0, <2>5, Moved
    <3>2. job'[a].pc = "start.check"
      BY <1>0, <3>1 DEF Job
    <3>3. job'[a].pc \in Plain
      BY <3>2 DEF Plain, Steps, StartSteps
    <3>4. \A b \in Actors \ {a} : job'[b] = job[b]
      BY <1>0, <2>5, Alone
    <3> QED
      BY <1>0, <2>3, <3>3, <3>4, PlainHolds, MutatorBranches
  <2> QED
    BY <1>1, <2>4, <2>5 DEF StartRefresh
<1>2. CASE WriteBack(a)
  <2>1. PICK s \in job[a].queue :
          /\ slots' = [slots EXCEPT ![s] = Refreshed(job[a].copy[s], s)]
          /\ \/ Finish(a)
             \/ Set(a, [job[a] EXCEPT !.queue = @ \ {s}, !.copy[s] = NoSlot])
    BY <1>2 DEF WriteBack
  <2>2. \A x \in job[a].queue : /\ x \in Slots /\ job[a].copy[x] \in SlotRow
                               /\ OfSlot(job[a].copy[x], x)
    BY <1>0, <1>2 DEF WriteBack, At, Copying, WellFormed, Job
  <2>3. /\ \A x \in Slots : OnBranch(x) => OnBranch(x)'
        /\ \A x \in Slots \ {s} : slots'[x] = slots[x]
    BY <1>0, <2>1, <2>2, RefreshedOnBranch
  <2>4. CASE Finish(a)
    <3>1. job'[a].pc \in Plain /\ \A b \in Actors \ {a} : job'[b] = job[b]
      BY <1>0, <2>4, FinishPlain, Alone DEF Finish
    <3> QED
      BY <1>0, <2>3, <3>1, PlainHolds, MutatorBranches
  <2>5. CASE Set(a, [job[a] EXCEPT !.queue = @ \ {s}, !.copy[s] = NoSlot])
    <3>1. job'[a] = [job[a] EXCEPT !.queue = @ \ {s}, !.copy[s] = NoSlot]
      BY <1>0, <2>5, Moved
    <3>2. job'[a].pc = "writeback" /\ job'[a].queue = job[a].queue \ {s}
      BY <1>0, <1>2, <3>1 DEF WriteBack, At, Job
    <3>3. \A x \in job'[a].queue : job'[a].copy[x] = job[a].copy[x]
      BY <1>0, <3>1, <3>2 DEF Job
    <3>4. Granting(a)' /\ Copying(a)'
      BY <2>2, <2>3, <3>2, <3>3 DEF Granting, Copying, OfSlot
    <3>5. \A b \in Actors \ {a} : job'[b] = job[b]
      BY <1>0, <2>5, Alone
    <3> QED
      BY <1>0, <2>3, <3>4, <3>5, MutatorBranches
  <2> QED
    BY <2>1, <2>4, <2>5
<1> QED
  BY <1>1, <1>2

\* Edits, commits and losses leave heads alone.
LEMMA WorldBranches ==
    ASSUME TypeInv, Branches,
           \/ \E x \in Sessions : Exit(x)
           \/ \E s \in Slots : Edit(s) \/ Commit(s) \/ Lose(s)
    PROVE  Branches'
<1>0. UNCHANGED <<slots, job>>
  BY DEF Exit, Edit, Commit, Lose
<1>1. \A s \in Slots : OnDisk(s)' => OnDisk(s) /\ trees'[s].head = trees[s].head
  <2>1. CASE UNCHANGED trees
    BY <2>1 DEF OnDisk
  <2>2. ASSUME NEW t \in Slots, Edit(t) \/ Commit(t) \/ Lose(t), NEW s \in Slots, OnDisk(s)'
        PROVE  OnDisk(s) /\ trees'[s].head = trees[s].head
    <3>1. trees[t] \in Tree
      BY <2>2 DEF Edit, Commit, Lose, DirtyTree, OnDisk, NoTree, LostTree, TypeInv, TypeOK
    <3> QED
      BY <2>2, <3>1 DEF Edit, Commit, Lose, OnDisk, LostTree, Tree, TypeInv, TypeOK
  <2> QED
    BY <2>1, <2>2 DEF Exit
<1>2. ActiveOnBranch'
  BY <1>0, <1>1 DEF Branches, ActiveOnBranch, At
<1>3. ASSUME NEW a \in Actors PROVE Granting(a)' /\ Copying(a)'
  <2>1. Granting(a) /\ Copying(a)
    BY DEF Branches
  <2>2. job[a].pc = "acquire.put" => job[a].slot \in Slots
    BY DEF TypeInv, WellFormed, CopySteps
  <2> QED
    BY <1>0, <1>1, <2>1, <2>2 DEF Granting, Copying, OfSlot
<1> QED
  BY <1>2, <1>3 DEF Branches

LEMMA NextBranches ==
    ASSUME SingleMutator, "crash" \notin Faults, TypeInv, Control, Control', Branches,
           [Next]_vars
    PROVE  Branches'
<1>1. ASSUME NEW a \in Actors, job'[a].pc \in Plain, UNCHANGED <<slots, trees>>,
             ~At(a, "release.put"), UNCHANGED job \/ \E j : Set(a, j)
      PROVE  Branches'
  BY <1>1, Alone, PlainBranches
<1>2. ASSUME NEW a \in Actors, Poll(a) \/ Command(a) PROVE Branches'
  <2>1. CASE \/ Poll(a) \/ RepoAdd(a) \/ RepoRemove(a) \/ Prune(a) \/ Review(a)
             \/ \E s \in Slots : Release(a, s) \/ Delete(a, s)
             \/ \E x \in Sessions : Cancel(a, x) \/ DeleteSession(a, x)
    <3>1. job'[a].pc \in Plain /\ UNCHANGED <<slots, trees>>
      BY <2>1, BeginPlain, SMTT(60)
    <3>2. ~At(a, "release.put")
      BY <2>1, ZenonT(60) DEF Poll, RepoAdd, RepoRemove, Prune, Review, Release, Delete, Cancel,
                  DeleteSession, Ready, Idle, At
    <3>3. UNCHANGED job \/ \E j : Set(a, j)
      BY <2>1 DEF Poll, RepoAdd, RepoRemove, Prune, Review, Release, Delete, Cancel,
                  DeleteSession, Goto
    <3> QED
      BY <1>1, <3>1, <3>2, <3>3
  <2>2. ASSUME NEW t \in Tasks, NEW strat \in Strategies, Acquire(a, t, strat)
        PROVE  Branches'
    BY <2>2, AcquireBranches DEF Acquire, Ready
  <2>3. CASE \/ \E s \in Slots : Refresh(a, s)
             \/ \E s \in Slots, ro \in BOOLEAN, mode \in Modes : Start(a, s, ro, mode)
    BY <2>3, ReadBranches DEF Refresh, Start, Ready
  <2> QED
    BY <1>2, <2>1, <2>2, <2>3 DEF Command
<1>3. ASSUME NEW a \in Actors, Step(a) PROVE Branches'
  <2>1. CASE \/ RemoveSessions(a) \/ RemoveRepo(a)
             \/ SyncList(a) \/ SyncCheck(a) \/ SyncPut(a)
             \/ ReleaseCheck(a) \/ PruneList(a) \/ DeleteGet(a) \/ DeleteCheck(a)
             \/ StartCheck(a) \/ StartInsert(a) \/ StartLaunch(a) \/ StartWait(a)
             \/ StartPut(a) \/ StartFail(a) \/ CancelPut(a) \/ GitFails(a)
    <3>1. \E j : Set(a, j)
      BY <2>1, Zenon
      DEF RemoveSessions, RemoveRepo, SyncList, SyncCheck, SyncPut, ReleaseCheck, PruneList,
          DeleteGet, DeleteCheck, StartCheck, StartInsert, StartLaunch, StartWait, StartPut,
          StartFail, CancelPut, GitFails, NextSlot, Resume, Finish, Goto
    <3> QED
      BY <1>1, <2>1, <3>1, StepPlain
  <2>2. CASE \/ RemoveSlots(a) \/ AcquireReuse(a) \/ AcquireCreate(a) \/ AcquirePut(a)
             \/ ReleaseGit(a) \/ ReleasePut(a) \/ DeleteGit(a) \/ DeleteRow(a)
             \/ RefreshGit(a) \/ ReviewList(a) \/ WriteBack(a) \/ StartRefresh(a)
    <3>1. a \in Mutators
      BY <2>2, InsideCommand, Zenon
      DEF RemoveSlots, AcquireReuse, AcquireCreate, AcquirePut, ReleaseGit, ReleasePut,
          DeleteGit, DeleteRow, RefreshGit, ReviewList, WriteBack, StartRefresh, At, SyncSteps
    <3> QED
      BY <2>2, <3>1, StoreBranches, CheckoutBranches, RemoveBranches, ReleaseBranches,
         RefreshBranches, ReadBranches, WriteBranches
  <2> QED
    BY <1>3, <2>1, <2>2 DEF Step
<1>4. CASE World
  BY <1>4, WorldBranches DEF World, Crash
<1>5. CASE UNCHANGED vars
  BY <1>5 DEF vars, Branches, ActiveOnBranch, Granting, Copying, OfSlot, OnDisk, At
<1> QED
  BY <1>2, <1>3, <1>4, <1>5 DEF Next

\* When one actor runs the commands and does not crash, an active slot is on
\* the branch it was granted with, whatever git refuses and watchers write.
THEOREM ActiveOnBranchAlways ==
    ASSUME SingleMutator, "crash" \notin Faults
    PROVE  Spec => []ActiveOnBranch
<1>1. Init => Branches
  BY InitBranches
<1>2. IInv /\ IInv' /\ Branches /\ [Next]_vars => Branches'
  BY NextBranches DEF IInv
<1>3. Branches => ActiveOnBranch
  BY DEF Branches
<1> QED
  BY <1>1, <1>2, <1>3, IInvAlways, PTL DEF Spec

-----------------------------------------------------------------------------
(* One actor: rows and agents                                              *)

OneActor == \A a, b \in Actors : a = b

\* The sessions still to look at are in the table as they were listed.
Listed(a) ==
    /\ job[a].pc \in {"sync.check", "sync.put"} =>
         \A p \in job[a].todo : sess[p.id] = p.row /\ p.row.status = "running"
    /\ job[a].pc = "sync.put" => \A p \in job[a].todo : p.id # job[a].sid

\* A row that is about to become terminal is pending, and its agent has ended.
Ending(a) ==
    job[a].pc \in {"sync.put", "cancel.put", "start.fail"} =>
        Pending(job[a].sid) /\ proc[job[a].sid] # "live"

Meant(r) == IF r.mode = "dry" THEN "prepared" ELSE "running"

\* A start has no row and no agent, then a running row, then an agent.
Starting(a) ==
    LET x == job[a].sid
        r == job[a].srow
    IN /\ job[a].pc \in {"start.refresh", "start.check", "start.insert"} =>
            sess[x] = NoSession /\ proc[x] # "live" /\ r.status = Meant(r)
       /\ job[a].pc = "start.launch" => proc[x] # "live"
       /\ job[a].pc \in {"start.launch", "start.wait"} =>
            sess[x].status = "running" /\ r.status = "running"
       /\ job[a].pc = "start.put" =>
            /\ Pending(x)
            /\ proc[x] = "live" => sess[x].status = "running" /\ r.status = "running"

\* A worktree that is about to be removed has no changes.
Removing(a) ==
    \/ job[a].pc = "release.git"
    \/ job[a].pc = "delete.git" /\ job[a].known
    => ~DirtyTree(job[a].slot)

Tracking(a) == Listed(a) /\ Ending(a) /\ Starting(a) /\ Removing(a)

Tracked == AgentTracked /\ \A a \in Actors : Tracking(a)

LEMMA InitTracked == Init => Tracked
  BY DEF Init, Tracked, AgentTracked, Tracking, Listed, Ending, Starting, Removing, IdleJob

\* Steps about which Tracking says nothing.
Rest == Steps \ (StartSteps \cup {"sync.check", "sync.put", "cancel.put",
                                  "release.git", "delete.git"})

LEMMA RestStep ==
    ASSUME OneActor, NEW a \in Actors, AgentTracked', job'[a].pc \in Rest
    PROVE  Tracked'
<1>1. Tracking(a)'
  BY DEF Rest, StartSteps, Tracking, Listed, Ending, Starting, Removing
<1> QED
  BY <1>1 DEF OneActor, Tracked

LEMMA FinishRests ==
    ASSUME TypeInv, NEW a \in Actors, Finish(a) \/ NextSlot(a, "delete.get")
    PROVE  job'[a].pc \in Rest
<1>1. CASE Finish(a)
  <2>1. job'[a] = IdleJob
    BY <1>1, Moved DEF Finish
  <2>2. job'[a].pc = "idle"
    BY <2>1 DEF IdleJob
  <2> QED
    BY <2>2 DEF Rest, Steps, StartSteps, SyncSteps
<1>2. CASE Set(a, [IdleJob EXCEPT !.pc = "delete.get", !.queue = job[a].queue])
  <2>1. job'[a] = [IdleJob EXCEPT !.pc = "delete.get", !.queue = job[a].queue]
    BY <1>2, Moved
  <2>2. job'[a].pc = "delete.get"
    BY <2>1 DEF IdleJob
  <2> QED
    BY <2>2 DEF Rest, Steps, StartSteps, SyncSteps
<1> QED
  BY <1>1, <1>2 DEF NextSlot

LEMMA SameAgents ==
    ASSUME AgentTracked, UNCHANGED <<sess, proc>> PROVE AgentTracked'
  BY DEF AgentTracked

-----------------------------------------------------------------------------
(* Steps of commands that touch neither sessions nor agents                *)

LEMMA BeginRests ==
    ASSUME TypeInv, NEW a \in Actors,
           \/ Poll(a) \/ RepoAdd(a) \/ RepoRemove(a) \/ Prune(a) \/ Review(a)
           \/ \E t \in Tasks, strat \in Strategies : Acquire(a, t, strat)
           \/ \E s \in Slots : Release(a, s) \/ Delete(a, s) \/ Refresh(a, s)
    PROVE  job'[a].pc \in Rest /\ UNCHANGED <<sess, proc>>
<1> USE DEF Rest, Steps, StartSteps, SyncSteps
<1>1. CASE RepoAdd(a)
  BY <1>1 DEF RepoAdd, Ready, Idle, At
<1>2. CASE RepoRemove(a)
  BY <1>2, GoneTo DEF RepoRemove
<1>3. CASE Poll(a)
  <2>1. job'[a] = [IdleJob EXCEPT !.pc = "sync.list"]
    BY <1>3, Moved DEF Poll
  <2>2. job'[a].pc = "sync.list"
    BY <2>1 DEF IdleJob
  <2> QED
    BY <1>3, <2>2 DEF Poll
<1>4. CASE Prune(a) \/ Review(a)
  <2>1. PICK ret : job'[a] = [IdleJob EXCEPT !.pc = "sync.list", !.ret = ret]
    BY <1>4, Moved DEF Prune, Review
  <2>2. job'[a].pc = "sync.list"
    BY <2>1 DEF IdleJob
  <2> QED
    BY <1>4, <2>2 DEF Prune, Review
<1>5. ASSUME NEW t \in Tasks, NEW strat \in Strategies, Acquire(a, t, strat)
      PROVE  job'[a].pc \in Rest /\ UNCHANGED <<sess, proc>>
  <2> DEFINE J(pc, s, r) == [IdleJob EXCEPT !.pc = pc, !.slot = s, !.copy[s] = r]
  <2>1. PICK pc \in {"acquire.reuse", "acquire.create"}, s \in Slots :
           \E r : Set(a, J(pc, s, r))
    BY <1>5 DEF Acquire, Reusable
  <2>2. PICK r : job'[a] = J(pc, s, r)
    BY <2>1, Moved
  <2>3. job'[a].pc = pc
    BY <2>2 DEF IdleJob
  <2> QED
    BY <1>5, <2>3, ZenonT(60) DEF Acquire
<1>6. ASSUME NEW s \in Slots, Release(a, s)
      PROVE  job'[a].pc \in Rest /\ UNCHANGED <<sess, proc>>
  <2>1. job'[a] = [IdleJob EXCEPT !.pc = "sync.list", !.ret = "release.check",
                                  !.slot = s, !.copy[s] = slots[s]]
    BY <1>6, Moved DEF Release
  <2>2. job'[a].pc = "sync.list"
    BY <2>1 DEF IdleJob
  <2> QED
    BY <1>6, <2>2 DEF Release
<1>7. ASSUME NEW s \in Slots, Delete(a, s)
      PROVE  job'[a].pc \in Rest /\ UNCHANGED <<sess, proc>>
  <2>1. job'[a] = [IdleJob EXCEPT !.pc = "delete.get", !.queue = {s}]
    BY <1>7, Moved DEF Delete
  <2>2. job'[a].pc = "delete.get"
    BY <2>1 DEF IdleJob
  <2> QED
    BY <1>7, <2>2 DEF Delete
<1>8. ASSUME NEW s \in Slots, Refresh(a, s)
      PROVE  job'[a].pc \in Rest /\ UNCHANGED <<sess, proc>>
  <2>1. job'[a] = [IdleJob EXCEPT !.pc = "refresh.git", !.queue = {s},
                                  !.copy[s] = slots[s]]
    BY <1>8, Moved DEF Refresh
  <2>2. job'[a].pc = "refresh.git"
    BY <2>1 DEF IdleJob
  <2> QED
    BY <1>8, <2>2 DEF Refresh
<1> QED
  BY <1>1, <1>2, <1>3, <1>4, <1>5, <1>6, <1>7, <1>8

LEMMA StepRests ==
    ASSUME TypeInv, NEW a \in Actors,
           \/ RemoveSlots(a) \/ RemoveRepo(a)
           \/ AcquireReuse(a) \/ AcquireCreate(a) \/ AcquirePut(a)
           \/ ReleaseGit(a) \/ ReleasePut(a)
           \/ PruneList(a) \/ DeleteGet(a) \/ DeleteGit(a) \/ DeleteRow(a)
           \/ RefreshGit(a) \/ ReviewList(a) \/ WriteBack(a) \/ GitFails(a) \/ Crash(a)
    PROVE  job'[a].pc \in Rest /\ UNCHANGED <<sess, proc>>
<1> USE DEF Rest, Steps, StartSteps, SyncSteps
<1>0. job[a] \in Job
  BY DEF TypeInv, TypeOK
<1>1. CASE RemoveSlots(a) \/ RemoveRepo(a) \/ AcquireReuse(a) \/ AcquireCreate(a)
           \/ DeleteGit(a)
  BY <1>1, GoneTo, FinishRests
  DEF RemoveSlots, RemoveRepo, AcquireReuse, AcquireCreate, DeleteGit
<1>2. CASE AcquirePut(a) \/ ReleasePut(a) \/ DeleteRow(a) \/ GitFails(a) \/ Crash(a)
  BY <1>2, FinishRests DEF AcquirePut, ReleasePut, DeleteRow, GitFails, Crash
<1>3. CASE ReleaseGit(a)
  <2> DEFINE s == job[a].slot
             j == [job[a] EXCEPT !.pc = "release.put", !.copy[s].status = "released",
                                 !.copy[s].dirty = FALSE]
  <2>1. job'[a] = j
    BY <1>3, Moved DEF ReleaseGit
  <2>2. job'[a].pc = "release.put"
    BY <1>0, <2>1, Zenon DEF Job
  <2> QED
    BY <1>3, <2>2 DEF ReleaseGit
<1>4. CASE PruneList(a) \/ DeleteGet(a)
  <2>1. ASSUME NEW queue, Set(a, [IdleJob EXCEPT !.pc = "delete.get", !.queue = queue])
        PROVE  job'[a].pc \in Rest
    <3>1. job'[a] = [IdleJob EXCEPT !.pc = "delete.get", !.queue = queue]
      BY <2>1, Moved
    <3> QED
      BY <3>1 DEF IdleJob
  <2>2. ASSUME NEW s, NEW queue,
               Set(a, [IdleJob EXCEPT !.pc = "sync.list", !.ret = "delete.check", !.slot = s,
                         !.copy[s] = slots[s], !.known = repo, !.queue = queue])
        PROVE  job'[a].pc \in Rest
    <3>1. job'[a] = [IdleJob EXCEPT
                         !.pc = "sync.list", !.ret = "delete.check", !.slot = s,
                         !.copy[s] = slots[s], !.known = repo, !.queue = queue]
      BY <2>2, Moved
    <3> QED
      BY <3>1 DEF IdleJob
  <2> QED
    BY <1>4, <2>1, <2>2, FinishRests, Zenon DEF PruneList, DeleteGet
<1>5. CASE RefreshGit(a)
  BY <1>5, GoneTo, FinishRests, SMTT(60) DEF RefreshGit
<1>6. CASE ReviewList(a)
  <2>1. ASSUME NEW queue, NEW copy,
               Set(a, [IdleJob EXCEPT !.pc = "writeback", !.queue = queue, !.copy = copy])
        PROVE  job'[a].pc \in Rest
    <3>1. job'[a] = [IdleJob EXCEPT !.pc = "writeback", !.queue = queue, !.copy = copy]
      BY <2>1, Moved
    <3> QED
      BY <3>1 DEF IdleJob
  <2> QED
    BY <1>6, <2>1, FinishRests DEF ReviewList
<1>7. CASE WriteBack(a)
  <2>1. ASSUME NEW s, Set(a, [job[a] EXCEPT !.queue = @ \ {s}, !.copy[s] = NoSlot])
        PROVE  job'[a].pc \in Rest
    <3>1. job'[a] = [job[a] EXCEPT !.queue = @ \ {s}, !.copy[s] = NoSlot]
      BY <2>1, Moved
    <3>2. job'[a].pc = "writeback"
      BY <1>0, <1>7, <3>1 DEF Job, WriteBack, At
    <3> QED
      BY <3>2
  <2> QED
    BY <1>7, <2>1, FinishRests DEF WriteBack
<1> QED
  BY <1>1, <1>2, <1>3, <1>4, <1>5, <1>6, <1>7

-----------------------------------------------------------------------------
(* Synchronising sessions                                                  *)

LEMMA ResumeTracked ==
    ASSUME TypeInv, OneActor, NEW a \in Actors, job[a].pc \in SyncSteps, NEW rest,
           Resume(a, rest), AgentTracked',
           \A p \in rest : sess'[p.id] = p.row /\ p.row.status = "running"
    PROVE  Tracked'
<1>0. job[a] \in Job
  BY DEF TypeInv, TypeOK
<1>1. CASE Finish(a)
  BY <1>1, FinishRests, RestStep
<1>2. CASE Set(a, [job[a] EXCEPT !.pc = job[a].ret, !.ret = "idle", !.todo = {},
                                 !.sid = "none", !.srow = NoSession])
  <2>1. job'[a] = [job[a] EXCEPT !.pc = job[a].ret, !.ret = "idle", !.todo = {},
                                 !.sid = "none", !.srow = NoSession]
    BY <1>2, Moved
  <2>2. job'[a].pc = job[a].ret
    BY <1>0, <2>1 DEF Job
  <2>3. job'[a].pc \in Rest
    BY <1>0, <2>2 DEF Job, Rest, Steps, StartSteps, SyncSteps
  <2> QED
    BY <2>3, RestStep
<1>3. CASE Set(a, [job[a] EXCEPT !.pc = "sync.check", !.todo = rest, !.sid = "none",
                                 !.srow = NoSession])
  <2>1. job'[a] = [job[a] EXCEPT !.pc = "sync.check", !.todo = rest, !.sid = "none",
                                 !.srow = NoSession]
    BY <1>3, Moved
  <2>2. job'[a].pc = "sync.check" /\ job'[a].todo = rest
    BY <1>0, <2>1 DEF Job
  <2>3. Tracking(a)'
    BY <2>2 DEF Tracking, Listed, Ending, Starting, Removing
  <2> QED
    BY <2>3 DEF OneActor, Tracked
<1> QED
  BY <1>1, <1>2, <1>3 DEF Resume

\* A session that is found to have ended, or is stopped, has no agent any more.
LEMMA FoundTracked ==
    ASSUME TypeInv, OneActor, Tracked, NEW a \in Actors, At(a, "sync.check"),
           NEW p \in job[a].todo, NEW status,
           Set(a, [job[a] EXCEPT !.pc = "sync.put", !.todo = @ \ {p}, !.sid = p.id,
                                 !.srow = [p.row EXCEPT !.status = status]]),
           UNCHANGED sess, AgentTracked', proc'[p.id] # "live"
    PROVE  Tracked'
<1>0. job[a] \in Job /\ Listed(a)
  BY DEF TypeInv, TypeOK, Tracked, Tracking
<1>1. job'[a] = [job[a] EXCEPT !.pc = "sync.put", !.todo = @ \ {p}, !.sid = p.id,
                               !.srow = [p.row EXCEPT !.status = status]]
  BY Moved
<1>2. job'[a].pc = "sync.put" /\ job'[a].todo = job[a].todo \ {p} /\ job'[a].sid = p.id
  BY <1>0, <1>1 DEF Job
<1>3. \A q \in job[a].todo : sess[q.id] = q.row /\ q.row.status = "running"
  BY <1>0 DEF Listed, At
<1>4. \A q \in job[a].todo : q.id = p.id => q = p
  BY <1>0, <1>3 DEF Job
<1>5. Listed(a)' /\ Ending(a)'
  BY <1>2, <1>3, <1>4 DEF Listed, Ending, Pending
<1>6. Tracking(a)'
  BY <1>2, <1>5 DEF Tracking, Starting, Removing
<1> QED
  BY <1>6 DEF OneActor, Tracked

LEMMA SyncTracked ==
    ASSUME TypeInv, Control, OneActor, Tracked, NEW a \in Actors,
           SyncList(a) \/ SyncCheck(a) \/ SyncPut(a)
    PROVE  Tracked'
<1>0. job[a].pc \in SyncSteps /\ job[a] \in Job /\ Tracking(a) /\ AgentTracked
  BY DEF SyncList, SyncCheck, SyncPut, At, SyncSteps, TypeInv, TypeOK, Tracked
<1>1. CASE SyncList(a)
  <2> DEFINE rest == {[id |-> x, row |-> sess[x]] :
                        x \in {y \in Sessions : sess[y].status = "running"}}
  <2>1. \A p \in rest : sess'[p.id] = p.row /\ p.row.status = "running"
    BY <1>1 DEF SyncList
  <2> QED
    BY <1>0, <1>1, <2>1, SameAgents, ResumeTracked DEF SyncList
<1>2. CASE SyncCheck(a)
  <2>1. PICK p \in job[a].todo :
          \/ Resume(a, job[a].todo \ {p}) /\ UNCHANGED proc
          \/ \E status :
               /\ Set(a, [job[a] EXCEPT !.pc = "sync.put", !.todo = @ \ {p}, !.sid = p.id,
                                        !.srow = [p.row EXCEPT !.status = status]])
               /\ proc'[p.id] # "live"
               /\ \/ UNCHANGED proc
                  \/ proc' = [proc EXCEPT ![p.id] = IF @ = "live" THEN "none" ELSE @]
    <3>1. PICK p \in job[a].todo :
            \/ /\ proc[p.id] \in {"pending", "live"}
               /\ Resume(a, job[a].todo \ {p})
               /\ UNCHANGED proc
            \/ /\ proc[p.id] \notin {"pending", "live"}
               /\ Set(a, [job[a] EXCEPT !.pc = "sync.put", !.todo = @ \ {p}, !.sid = p.id,
                                        !.srow = [p.row EXCEPT !.status = Verdict(p.id)]])
               /\ UNCHANGED proc
            \/ /\ p.row.started
               /\ Set(a, [job[a] EXCEPT !.pc = "sync.put", !.todo = @ \ {p}, !.sid = p.id,
                                        !.srow = [p.row EXCEPT !.status = "failed"]])
               /\ proc' = [proc EXCEPT ![p.id] = IF @ = "live" THEN "none" ELSE @]
      BY <1>2, Zenon DEF SyncCheck
    <3>2. p.id \in Sessions
      BY <1>0 DEF Job
    <3>3. proc \in [Sessions -> ProcStates]
      BY DEF TypeInv, TypeOK
    <3> QED
      BY <3>1, <3>2, <3>3, Zenon
  <2>2. UNCHANGED sess /\ At(a, "sync.check")
    BY <1>2, Zenon DEF SyncCheck
  <2>3. AgentTracked'
    BY <1>0, <2>1, <2>2 DEF AgentTracked, TypeInv, TypeOK
  <2>4. CASE Resume(a, job[a].todo \ {p})
    <3>1. \A q \in job[a].todo : sess[q.id] = q.row /\ q.row.status = "running"
      BY <1>0, <2>2 DEF Tracking, Listed, At
    <3> QED
      BY <1>0, <2>2, <2>3, <2>4, <3>1, ResumeTracked
  <2> QED
    BY <2>1, <2>2, <2>3, <2>4, FoundTracked
<1>3. CASE SyncPut(a)
  <2> DEFINE x == job[a].sid
  <2>1. x \in Sessions /\ proc[x] # "live" /\ \A p \in job[a].todo : p.id # x
    BY <1>0, <1>3 DEF SyncPut, At, Tracking, Listed, Ending, TypeInv, WellFormed
  <2>2. sess' = [sess EXCEPT ![x] = job[a].srow] /\ UNCHANGED proc
    BY <1>3 DEF SyncPut
  <2>3. AgentTracked'
    BY <1>0, <2>1, <2>2 DEF AgentTracked, TypeInv, TypeOK
  <2>4. \A p \in job[a].todo : sess'[p.id] = p.row /\ p.row.status = "running"
    BY <1>0, <1>3, <2>1, <2>2 DEF SyncPut, At, Tracking, Listed, TypeInv, TypeOK, Job
  <2> QED
    BY <1>0, <1>3, <2>3, <2>4, ResumeTracked DEF SyncPut
<1> QED
  BY <1>1, <1>2, <1>3, SMTT(60)

-----------------------------------------------------------------------------
(* Starting a session                                                      *)

LEMMA StartBegins ==
    ASSUME TypeInv, OneActor, Tracked, NEW a \in Actors, NEW s \in Slots,
           NEW ro \in BOOLEAN, NEW mode \in Modes, Start(a, s, ro, mode)
    PROVE  Tracked'
<1> DEFINE r == [slot |-> s, ro |-> ro, mode |-> mode, started |-> FALSE,
                 status |-> IF mode = "dry" THEN "prepared" ELSE "running"]
<1>1. PICK x \in Sessions :
         /\ NewSession(x)
         /\ job'[a] = [IdleJob EXCEPT !.pc = "start.refresh", !.slot = s,
                                      !.copy[s] = slots[s], !.sid = x, !.srow = r]
  BY Moved DEF Start
<1>2. job'[a].pc = "start.refresh" /\ job'[a].sid = x /\ job'[a].srow = r
  BY <1>1 DEF IdleJob
<1>3. r.status = Meant(r)
  BY DEF Meant
<1>4. UNCHANGED <<sess, proc>> /\ sess[x] = NoSession /\ proc[x] # "live"
  BY <1>1 DEF NewSession, Start
<1>5. Starting(a)'
  BY <1>2, <1>3, <1>4 DEF Starting
<1>6. Tracking(a)'
  BY <1>2, <1>5 DEF Tracking, Listed, Ending, Removing
<1> QED
  BY <1>4, <1>6, SameAgents DEF OneActor, Tracked

\* Until its row is inserted a start only moves on, or ends.
LEMMA StartChecks ==
    ASSUME TypeInv, OneActor, Tracked, NEW a \in Actors, StartRefresh(a) \/ StartCheck(a)
    PROVE  Tracked'
<1> DEFINE early == {"start.refresh", "start.check", "start.insert"}
<1>0. job[a] \in Job /\ job[a].pc \in early /\ UNCHANGED <<sess, proc>> /\ Starting(a)
  BY DEF StartRefresh, StartCheck, At, TypeInv, TypeOK, Tracked, Tracking
<1>1. AgentTracked'
  BY <1>0, SameAgents DEF Tracked
<1>2. ASSUME job'[a].pc \in early, job'[a].sid = job[a].sid, job'[a].srow = job[a].srow
      PROVE  Tracked'
  <2>1. Starting(a)'
    BY <1>0, <1>2 DEF Starting, Meant
  <2>2. Tracking(a)'
    BY <1>2, <2>1 DEF Tracking, Listed, Ending, Removing
  <2> QED
    BY <1>1, <2>2 DEF OneActor, Tracked
<1>3. CASE Finish(a)
  BY <1>1, <1>3, FinishRests, RestStep
<1>4. CASE Set(a, [job[a] EXCEPT !.pc = "start.check", !.copy[job[a].slot] = NoSlot])
  <2>1. job'[a] = [job[a] EXCEPT !.pc = "start.check", !.copy[job[a].slot] = NoSlot]
    BY <1>4, Moved
  <2>2. /\ job'[a].pc = "start.check" /\ job'[a].sid = job[a].sid
        /\ job'[a].srow = job[a].srow
    BY <1>0, <2>1 DEF Job
  <2> QED
    BY <1>2, <2>2
<1>5. CASE Goto(a, "start.insert")
  <2>1. job'[a] = [job[a] EXCEPT !.pc = "start.insert"]
    BY <1>5, Moved DEF Goto
  <2>2. /\ job'[a].pc = "start.insert" /\ job'[a].sid = job[a].sid
        /\ job'[a].srow = job[a].srow
    BY <1>0, <2>1 DEF Job
  <2> QED
    BY <1>2, <2>2
<1> QED
  BY <1>3, <1>4, <1>5 DEF StartRefresh, StartCheck

\* The row is there before the agent is.
LEMMA StartInserts ==
    ASSUME TypeInv, OneActor, Tracked, NEW a \in Actors, StartInsert(a)
    PROVE  Tracked'
<1> DEFINE x == job[a].sid
           r == job[a].srow
<1>0. job[a] \in Job /\ x \in Sessions /\ r \in SessionRow /\ r.status = Meant(r)
  BY DEF StartInsert, At, TypeInv, TypeOK, WellFormed, StartSteps, Tracked, Tracking, Starting
<1>1. /\ sess' = [sess EXCEPT ![x] = r]
      /\ \E p \in {"pending", "none"} : proc' = [proc EXCEPT ![x] = p]
      /\ \E pc : Goto(a, pc) /\ pc = IF r.mode = "dry" THEN "start.put" ELSE "start.launch"
  BY DEF StartInsert
<1>2. sess'[x] = r /\ proc'[x] # "live"
  BY <1>0, <1>1 DEF TypeInv, TypeOK
<1>3. AgentTracked'
  BY <1>0, <1>1, <1>2 DEF Tracked, AgentTracked, TypeInv, TypeOK
<1>4. PICK pc : /\ job'[a] = [job[a] EXCEPT !.pc = pc]
                /\ pc = IF r.mode = "dry" THEN "start.put" ELSE "start.launch"
  BY <1>1, Moved DEF Goto
<1>5. job'[a].pc = pc /\ job'[a].sid = x /\ job'[a].srow = r
  BY <1>0, <1>4 DEF Job
<1>6. Starting(a)'
  BY <1>0, <1>2, <1>4, <1>5 DEF Starting, Meant, Pending
<1>7. Tracking(a)'
  BY <1>4, <1>5, <1>6 DEF Tracking, Listed, Ending, Removing
<1> QED
  BY <1>3, <1>7 DEF OneActor, Tracked

LEMMA StartLaunches ==
    ASSUME TypeInv, OneActor, Tracked, NEW a \in Actors, StartLaunch(a)
    PROVE  Tracked'
<1> DEFINE x == job[a].sid
<1>0. job[a] \in Job /\ x \in Sessions /\ job[a].srow \in SessionRow
  BY DEF StartLaunch, At, TypeInv, TypeOK, WellFormed, StartSteps
<1>1. sess[x].status = "running" /\ job[a].srow.status = "running" /\ UNCHANGED sess
  BY DEF StartLaunch, At, Tracked, Tracking, Starting
<1>2. PICK p \in ProcStates : proc' = [proc EXCEPT ![x] = p]
  BY DEF StartLaunch, ProcStates
<1>3. AgentTracked'
  BY <1>0, <1>1, <1>2 DEF Tracked, AgentTracked, TypeInv, TypeOK
<1>4. ASSUME NEW pc \in {"start.put", "start.wait"},
             Set(a, [job[a] EXCEPT !.srow.started = TRUE, !.pc = pc])
      PROVE  Tracked'
  <2>1. job'[a] = [job[a] EXCEPT !.srow.started = TRUE, !.pc = pc]
    BY <1>4, Moved
  <2>2. job'[a].pc = pc /\ job'[a].sid = x
        /\ job'[a].srow = [job[a].srow EXCEPT !.started = TRUE]
    BY <1>0, <2>1 DEF Job
  <2>3. job'[a].srow.status = "running"
    BY <1>0, <1>1, <2>2 DEF SessionRow
  <2>4. Starting(a)'
    BY <1>1, <2>2, <2>3 DEF Starting, Pending
  <2>5. Tracking(a)'
    BY <2>2, <2>4 DEF Tracking, Listed, Ending, Removing
  <2> QED
    BY <1>3, <2>5 DEF OneActor, Tracked
<1>5. ASSUME Goto(a, "start.fail"), proc'[x] # "live" PROVE Tracked'
  <2>1. job'[a] = [job[a] EXCEPT !.pc = "start.fail"]
    BY <1>5, Moved DEF Goto
  <2>2. job'[a].pc = "start.fail" /\ job'[a].sid = x
    BY <1>0, <2>1 DEF Job
  <2>3. Ending(a)'
    BY <1>1, <1>5, <2>2 DEF Ending, Pending
  <2>4. Tracking(a)'
    BY <2>2, <2>3 DEF Tracking, Listed, Starting, Removing
  <2> QED
    BY <1>3, <2>4 DEF OneActor, Tracked
<1>6. \/ \E pc \in {"start.put", "start.wait"} :
            Set(a, [job[a] EXCEPT !.srow.started = TRUE, !.pc = pc])
      \/ Goto(a, "start.fail") /\ proc'[x] # "live"
  <2>1. \/ \E pc \in {"start.put", "start.wait"} :
              Set(a, [job[a] EXCEPT !.srow.started = TRUE, !.pc = pc])
        \/ /\ Goto(a, "start.fail")
           /\ \E q \in {"none", "ok", "fail"} : proc' = [proc EXCEPT ![x] = q]
    BY DEF StartLaunch
  <2> QED
    BY <1>0, <2>1 DEF TypeInv, TypeOK
<1> QED
  BY <1>4, <1>5, <1>6

LEMMA StartWaits ==
    ASSUME TypeInv, OneActor, Tracked, NEW a \in Actors, StartWait(a)
    PROVE  Tracked'
<1> DEFINE x == job[a].sid
<1>0. job[a] \in Job /\ x \in Sessions
  BY DEF StartWait, At, TypeInv, TypeOK, WellFormed, StartSteps
<1>1. sess[x].status = "running" /\ UNCHANGED sess
  BY DEF StartWait, At, Tracked, Tracking, Starting
<1>2. PICK p \in {"ok", "fail"}, st \in {"completed", "failed"} :
         /\ proc' = [proc EXCEPT ![x] = p]
         /\ job'[a] = [job[a] EXCEPT !.pc = "start.put", !.srow.status = st]
  <2>1. \E p \in {"ok", "fail"}, st \in {"completed", "failed"} :
          /\ proc' = [proc EXCEPT ![x] = p]
          /\ Set(a, [job[a] EXCEPT !.pc = "start.put", !.srow.status = st])
    BY DEF StartWait
  <2> QED
    BY <2>1, Moved
<1>3. job'[a].pc = "start.put" /\ job'[a].sid = x
  BY <1>0, <1>2 DEF Job
<1>4. proc'[x] # "live"
  BY <1>0, <1>2 DEF TypeInv, TypeOK
<1>5. AgentTracked'
  BY <1>0, <1>1, <1>2 DEF Tracked, AgentTracked, TypeInv, TypeOK
<1>6. Tracking(a)'
  BY <1>1, <1>3, <1>4 DEF Tracking, Listed, Ending, Starting, Removing, Pending
<1> QED
  BY <1>5, <1>6 DEF OneActor, Tracked

-----------------------------------------------------------------------------
(* Ending sessions                                                         *)

\* Rows become terminal, or go, when there is no agent.
LEMMA RowsEnd ==
    ASSUME IInv, OneActor, Tracked, NEW a \in Actors,
           \/ RemoveSessions(a) \/ StartPut(a) \/ StartFail(a) \/ CancelPut(a)
           \/ \E x \in Sessions : DeleteSession(a, x)
    PROVE  Tracked'
<1>0. /\ TypeInv /\ AgentTracked /\ Tracking(a) /\ job[a] \in Job
      /\ job[a].pc \in StartSteps \cup {"cancel.put"} => job[a].sid \in Sessions
  BY DEF IInv, TypeInv, TypeOK, WellFormed, Tracked
<1>1. CASE RemoveSessions(a)
  <2>1. \A x \in Sessions : ~Pending(x)
    BY <1>1 DEF RemoveSessions, At, IInv, Occupancy, Holding, RemovalOrder
  <2>2. AgentTracked'
    BY <1>0, <1>1, <2>1 DEF AgentTracked, RemoveSessions, Pending
  <2>3. job'[a].pc \in Rest
    BY <1>0, <1>1, GoneTo DEF RemoveSessions, Rest, Steps, StartSteps, SyncSteps
  <2> QED
    BY <2>2, <2>3, RestStep
<1>2. CASE StartPut(a)
  <2>1. proc[job[a].sid] = "live" => job[a].srow.status = "running"
    BY <1>0, <1>2 DEF StartPut, At, Tracking, Starting
  <2>2. AgentTracked'
    BY <1>0, <1>2, <2>1 DEF AgentTracked, StartPut, TypeInv, TypeOK
  <2> QED
    BY <1>0, <1>2, <2>2, FinishRests, RestStep DEF StartPut
<1>3. CASE StartFail(a) \/ CancelPut(a)
  <2>1. proc[job[a].sid] # "live" /\ job[a].sid \in Sessions
    BY <1>0, <1>3 DEF StartFail, CancelPut, At, Tracking, Ending, StartSteps
  <2>2. \A x \in Sessions : x # job[a].sid => sess'[x] = sess[x]
    BY <1>0, <1>3 DEF StartFail, CancelPut, TypeInv, TypeOK
  <2>3. AgentTracked'
    BY <1>0, <1>3, <2>1, <2>2 DEF AgentTracked, StartFail, CancelPut
  <2> QED
    BY <1>0, <1>3, <2>3, FinishRests, RestStep DEF StartFail, CancelPut
<1>4. ASSUME NEW x \in Sessions, DeleteSession(a, x) PROVE Tracked'
  <2>1. AgentTracked'
    BY <1>0, <1>4 DEF AgentTracked, DeleteSession, Terminal, TypeInv, TypeOK
  <2>2. job'[a].pc \in Rest
    BY <1>4 DEF DeleteSession, Ready, Idle, At, Rest, Steps, StartSteps, SyncSteps
  <2> QED
    BY <2>1, <2>2, RestStep
<1> QED
  BY <1>1, <1>2, <1>3, <1>4

LEMMA CancelBegins ==
    ASSUME TypeInv, OneActor, Tracked, NEW a \in Actors, NEW x \in Sessions, Cancel(a, x)
    PROVE  Tracked'
<1>1. job'[a] = [IdleJob EXCEPT !.pc = "cancel.put", !.sid = x,
                                !.srow = [sess[x] EXCEPT !.status = "cancelled"]]
  BY Moved DEF Cancel
<1>2. job'[a].pc = "cancel.put" /\ job'[a].sid = x
  BY <1>1 DEF IdleJob
<1>3. proc' = [proc EXCEPT ![x] = IF @ = "live" THEN "none" ELSE @]
  BY DEF Cancel
<1>4. proc'[x] # "live" /\ \A y \in Sessions : proc'[y] = "live" => proc[y] = "live"
  BY <1>3 DEF TypeInv, TypeOK
<1>5. UNCHANGED sess /\ Pending(x)
  BY DEF Cancel
<1>6. AgentTracked'
  BY <1>4, <1>5 DEF Tracked, AgentTracked
<1>7. Ending(a)'
  BY <1>2, <1>4, <1>5 DEF Ending, Pending
<1>8. Tracking(a)'
  BY <1>2, <1>7 DEF Tracking, Listed, Starting, Removing
<1> QED
  BY <1>6, <1>8 DEF OneActor, Tracked

-----------------------------------------------------------------------------
(* Removing worktrees                                                      *)

LEMMA ChecksTracked ==
    ASSUME TypeInv, OneActor, Tracked, NEW a \in Actors, ReleaseCheck(a) \/ DeleteCheck(a)
    PROVE  Tracked'
<1> DEFINE s == job[a].slot
<1>0. job[a] \in Job /\ UNCHANGED <<sess, proc, trees>>
  BY DEF ReleaseCheck, DeleteCheck, TypeInv, TypeOK
<1>1. AgentTracked'
  BY <1>0, SameAgents DEF Tracked
<1>2. ASSUME job'[a].pc \in {"release.git", "delete.git"}, Removing(a)' PROVE Tracked'
  <2>1. Tracking(a)'
    BY <1>2 DEF Tracking, Listed, Ending, Starting, StartSteps
  <2> QED
    BY <1>1, <2>1 DEF OneActor, Tracked
<1>3. CASE Finish(a) \/ NextSlot(a, "delete.get")
  BY <1>1, <1>3, FinishRests, RestStep
<1>4. CASE ReleaseCheck(a) /\ ~Finish(a)
  <2>1. ~DirtyTree(s)
    BY <1>4 DEF ReleaseCheck
  <2>2. job'[a] = [job[a] EXCEPT !.pc = "release.git", !.copy[s] = Refreshed(@, s)]
    BY <1>4, Moved DEF ReleaseCheck
  <2>3. job'[a].pc = "release.git" /\ job'[a].slot = s
    BY <1>0, <2>2 DEF Job
  <2>4. Removing(a)'
    BY <1>0, <2>1, <2>3 DEF Removing, DirtyTree, OnDisk
  <2> QED
    BY <1>2, <2>3, <2>4
<1>5. CASE DeleteCheck(a) /\ ~NextSlot(a, "delete.get")
  <2>1. /\ job[a].known => ~DirtyTree(s)
        /\ Goto(a, "delete.git") \/ Goto(a, "delete.row")
    BY <1>5 DEF DeleteCheck
  <2>2. CASE Goto(a, "delete.git")
    <3>1. job'[a] = [job[a] EXCEPT !.pc = "delete.git"]
      BY <2>2, Moved DEF Goto
    <3>2. job'[a].pc = "delete.git" /\ job'[a].slot = s /\ job'[a].known = job[a].known
      BY <1>0, <3>1 DEF Job
    <3>3. Removing(a)'
      BY <1>0, <2>1, <3>2 DEF Removing, DirtyTree, OnDisk
    <3> QED
      BY <1>2, <3>2, <3>3
  <2>3. CASE Goto(a, "delete.row")
    <3>1. job'[a].pc \in Rest
      BY <2>3, GoneTo DEF Rest, Steps, StartSteps, SyncSteps
    <3> QED
      BY <1>1, <3>1, RestStep
  <2> QED
    BY <2>1, <2>2, <2>3
<1> QED
  BY <1>3, <1>4, <1>5 DEF ReleaseCheck, DeleteCheck

\* What happens around the commands ends agents and starts none, and nobody
\* edits a worktree that is about to be removed: no agent is left in its slot.
LEMMA WorldTracked ==
    ASSUME IInv, OneActor, Tracked,
           \/ \E x \in Sessions : Exit(x)
           \/ \E s \in Slots : Edit(s) \/ Commit(s) \/ Lose(s)
    PROVE  Tracked'
<1>0. TypeInv /\ AgentTracked /\ UNCHANGED <<sess, job>>
  BY DEF IInv, Tracked, Exit, Edit, Commit, Lose
<1>1. \A x \in Sessions : proc'[x] = "live" => proc[x] = "live"
  BY <1>0 DEF Exit, Edit, Commit, Lose, TypeInv, TypeOK
<1>2. AgentTracked'
  BY <1>0, <1>1 DEF AgentTracked
<1>3. ASSUME NEW a \in Actors PROVE Tracking(a)'
  <2>1. Tracking(a) /\ WellFormed(job[a])
    BY <1>0 DEF Tracked, TypeInv
  <2>2. Listed(a)'
    BY <1>0, <2>1 DEF Tracking, Listed
  <2>3. Ending(a)' /\ Starting(a)'
    BY <1>0, <1>1, <2>1
    DEF Tracking, Ending, Starting, WellFormed, Pending, Meant, StartSteps
  <2>4. Removing(a)'
    <3>1. CASE UNCHANGED trees
      BY <1>0, <2>1, <3>1 DEF Tracking, Removing, DirtyTree, OnDisk
    <3>2. ASSUME NEW s \in Slots, Commit(s) \/ Lose(s) PROVE Removing(a)'
      <4>1. \A t \in Slots : DirtyTree(t)' => DirtyTree(t)
        BY <1>0, <3>2 DEF Commit, Lose, DirtyTree, OnDisk, LostTree, TypeInv, TypeOK, Tree,
                          NoTree
      <4>2. job[a].pc \in {"release.git", "delete.git"} => job[a].slot \in Slots
        BY <2>1 DEF WellFormed, CopySteps
      <4> QED
        BY <1>0, <2>1, <4>1, <4>2 DEF Tracking, Removing
    <3>3. ASSUME NEW s \in Slots, Edit(s) PROVE Removing(a)'
      <4>1. CASE job[a].pc \in {"release.git", "delete.git"}
        <5>1. PendingOn(job[a].slot) = {}
          BY <4>1 DEF IInv, Occupancy, Holding, Unoccupied
        <5>2. job[a].slot # s
          BY <1>0, <3>3, <4>1, <5>1 DEF Edit, At, AgentTracked, PendingOn, Pending
        <5>3. trees'[job[a].slot] = trees[job[a].slot]
          BY <1>0, <2>1, <3>3, <4>1, <5>2 DEF Edit, WellFormed, CopySteps, TypeInv, TypeOK
        <5> QED
          BY <1>0, <2>1, <5>3 DEF Tracking, Removing, DirtyTree, OnDisk
      <4>2. CASE job[a].pc \notin {"release.git", "delete.git"}
        BY <1>0, <4>2 DEF Removing
      <4> QED
        BY <4>1, <4>2
    <3> QED
      BY <3>1, <3>2, <3>3 DEF Exit
  <2> QED
    BY <2>2, <2>3, <2>4 DEF Tracking
<1> QED
  BY <1>2, <1>3 DEF Tracked

-----------------------------------------------------------------------------
(* The inductive step, and what follows                                    *)

LEMMA NextTracked == OneActor /\ IInv /\ Tracked /\ [Next]_vars => Tracked'
<1> SUFFICES ASSUME OneActor, IInv, Tracked, [Next]_vars PROVE Tracked'
  OBVIOUS
<1>0. TypeInv /\ Control /\ AgentTracked
  BY DEF IInv, Tracked
<1>1. ASSUME NEW a \in Actors, job'[a].pc \in Rest /\ UNCHANGED <<sess, proc>>
      PROVE  Tracked'
  BY <1>0, <1>1, SameAgents, RestStep
<1>2. ASSUME NEW a \in Actors, Poll(a) \/ Command(a) PROVE Tracked'
  <2>1. ASSUME NEW x \in Sessions, Cancel(a, x) PROVE Tracked'
    BY <1>0, <2>1, CancelBegins
  <2>2. ASSUME NEW x \in Sessions, DeleteSession(a, x) PROVE Tracked'
    BY <2>2, RowsEnd
  <2>3. ASSUME NEW s \in Slots, NEW ro \in BOOLEAN, NEW mode \in Modes,
               Start(a, s, ro, mode)
        PROVE  Tracked'
    BY <1>0, <2>3, StartBegins
  <2> QED
    BY <1>0, <1>1, <1>2, <2>1, <2>2, <2>3, BeginRests DEF Command
<1>3. ASSUME NEW a \in Actors, Step(a) PROVE Tracked'
  <2>1. CASE RemoveSessions(a) \/ StartPut(a) \/ StartFail(a) \/ CancelPut(a)
    BY <2>1, RowsEnd
  <2>2. CASE SyncList(a) \/ SyncCheck(a) \/ SyncPut(a)
    BY <1>0, <2>2, SyncTracked
  <2>3. CASE ReleaseCheck(a) \/ DeleteCheck(a)
    BY <1>0, <2>3, ChecksTracked
  <2>4. CASE \/ StartRefresh(a) \/ StartCheck(a) \/ StartInsert(a) \/ StartLaunch(a)
             \/ StartWait(a)
    BY <1>0, <2>4, StartChecks, StartInserts, StartLaunches, StartWaits
  <2>5. CASE \/ RemoveSlots(a) \/ RemoveRepo(a)
             \/ AcquireReuse(a) \/ AcquireCreate(a) \/ AcquirePut(a)
             \/ ReleaseGit(a) \/ ReleasePut(a)
             \/ PruneList(a) \/ DeleteGet(a) \/ DeleteGit(a) \/ DeleteRow(a)
             \/ RefreshGit(a) \/ ReviewList(a) \/ WriteBack(a) \/ GitFails(a)
    BY <1>0, <1>1, <2>5, StepRests
  <2> QED
    BY <1>3, <2>1, <2>2, <2>3, <2>4, <2>5 DEF Step
<1>4. CASE World
  <2>1. ASSUME NEW a \in Actors, Crash(a) PROVE Tracked'
    BY <1>0, <1>1, <2>1, StepRests
  <2> QED
    BY <1>4, <2>1, WorldTracked DEF World
<1>5. CASE UNCHANGED vars
  BY <1>5
  DEF vars, Tracked, AgentTracked, Tracking, Listed, Ending, Starting, Removing, Pending,
      DirtyTree, OnDisk
<1> QED
  BY <1>2, <1>3, <1>4, <1>5 DEF Next

LEMMA TrackedInv == OneActor /\ Spec => [](IInv /\ Tracked)
<1>1. OneActor => SingleMutator
  BY MutatorsAreActors DEF OneActor, SingleMutator
<1>2. OneActor => (Spec => []IInv)
  BY <1>1, IInvAlways
<1> SUFFICES ASSUME OneActor PROVE Spec => [](IInv /\ Tracked)
  OBVIOUS
<1>3. IInv /\ Tracked /\ [Next]_vars => Tracked'
  BY NextTracked
<1> QED
  BY <1>2, <1>3, InitTracked, PTL DEF Spec

\* When one process at a time works on the store, no agent runs without a
\* running session in the table: not while it is launched, waited for,
\* cancelled or found overdue, nor after a crash at any step of that.
THEOREM AgentTrackedAlways ==
    ASSUME OneActor
    PROVE  Spec => []AgentTracked
<1>1. Tracked => AgentTracked
  BY DEF Tracked
<1> QED
  BY <1>1, TrackedInv, PTL

\* Then the exclusion of pending writers, which start checks in the table, is
\* one of processes in the worktree.
THEOREM OneLiveWriterAlways ==
    ASSUME OneActor
    PROVE  Spec => []OneLiveWriter
<1>1. IInv /\ Tracked => OneLiveWriter
  BY DEF IInv, Exclusive, OneWriter, Tracked, AgentTracked, OneLiveWriter, Pending
<1> QED
  BY <1>1, TrackedInv, PTL

LEMMA TerminalStep ==
    ASSUME IInv, Tracked, [Next]_vars, NEW x \in Sessions, sess[x].status \in Terminal
    PROVE  sess'[x].status \in {sess[x].status, "absent"}
<1>0. TypeInv
  BY DEF IInv
<1>1. CASE UNCHANGED sess
  BY <1>1
<1>2. ASSUME NEW a \in Actors, SyncPut(a) \/ CancelPut(a) \/ StartPut(a) \/ StartFail(a)
      PROVE  sess'[x] = sess[x]
  <2>1. Pending(job[a].sid)
    BY <1>2 DEF SyncPut, CancelPut, StartPut, StartFail, At, Tracked, Tracking, Ending,
                Starting
  <2>2. x # job[a].sid
    BY <2>1 DEF Pending, Terminal
  <2> QED
    BY <1>0, <1>2, <2>2 DEF SyncPut, CancelPut, StartPut, StartFail, TypeInv, TypeOK
<1>3. ASSUME NEW a \in Actors, StartInsert(a) PROVE sess'[x] = sess[x]
  <2>1. sess[job[a].sid] = NoSession
    BY <1>3 DEF StartInsert, At, Tracked, Tracking, Starting
  <2>2. x # job[a].sid
    BY <2>1 DEF NoSession, Terminal
  <2> QED
    BY <1>0, <1>3, <2>2 DEF StartInsert, TypeInv, TypeOK
<1>4. ASSUME NEW a \in Actors,
             RemoveSessions(a) \/ \E y \in Sessions : DeleteSession(a, y)
      PROVE  sess'[x] \in {sess[x], NoSession}
  BY <1>0, <1>4 DEF RemoveSessions, DeleteSession, TypeInv, TypeOK
<1> QED
  BY <1>1, <1>2, <1>3, <1>4, ActorOrWorld, RowsOfActor DEF NoSession

\* Then the outcome of a session is final: no record read before it ended is
\* written back over it.
THEOREM TerminalFinalAlways ==
    ASSUME OneActor
    PROVE  Spec => TerminalFinal
<1>1. IInv /\ Tracked /\ [Next]_vars =>
        [\A x \in Sessions : sess[x].status \in Terminal =>
           sess'[x].status \in {sess[x].status, "absent"}]_vars
  BY TerminalStep
<1> QED
  BY <1>1, TrackedInv, PTL DEF Spec, TerminalFinal

LEMMA TreesStep ==
    ASSUME TypeInv, Tracked, [Next]_vars, NEW s \in Slots, DirtyTree(s)
    PROVE  trees'[s].place # "absent"
<1>0. trees[s] \in Tree /\ trees \in [Slots -> Tree \cup {NoTree, LostTree}]
  BY DEF TypeInv, TypeOK, DirtyTree, OnDisk, NoTree, LostTree
<1>1. CASE UNCHANGED trees
  BY <1>0, <1>1 DEF Tree
<1>2. ASSUME NEW a \in Actors, ReleaseGit(a) \/ DeleteGit(a)
      PROVE  trees'[s].place # "absent"
  <2>1. job[a].slot = s => DeleteGit(a) /\ ~job[a].known
    BY <1>2 DEF ReleaseGit, DeleteGit, At, Tracked, Tracking, Removing
  <2> QED
    BY <1>0, <1>2, <2>1 DEF ReleaseGit, DeleteGit, LostTree, Tree
<1>3. ASSUME NEW a \in Actors, AcquireReuse(a) \/ RefreshGit(a)
      PROVE  trees'[s].place # "absent"
  <2>1. \/ UNCHANGED trees
        \/ \E t, head : trees' = [trees EXCEPT ![t].head = head]
    BY <1>3, Zenon DEF AcquireReuse, RefreshGit
  <2>2. trees'[s].place = "disk"
    BY <1>0, <2>1 DEF Tree
  <2> QED
    BY <2>2
<1>4. ASSUME NEW a \in Actors, AcquireCreate(a) PROVE trees'[s].place # "absent"
  BY <1>0, <1>4 DEF AcquireCreate, Tree
<1>5. ASSUME NEW t \in Slots, Edit(t) \/ Commit(t) \/ Lose(t)
      PROVE  trees'[s].place # "absent"
  BY <1>0, <1>5 DEF Edit, Commit, Lose, LostTree, Tree
<1>6. \/ UNCHANGED trees
      \/ \E a \in Actors : \/ ReleaseGit(a) \/ DeleteGit(a) \/ AcquireReuse(a)
                           \/ RefreshGit(a) \/ AcquireCreate(a)
      \/ \E t \in Slots : Edit(t) \/ Commit(t) \/ Lose(t)
  <2>1. ASSUME NEW a \in Actors, Poll(a) \/ Command(a) PROVE UNCHANGED trees
    BY <2>1, Zenon DEF Poll, Command, RepoAdd, RepoRemove, Prune, Review, Acquire, Release, Delete,
                Refresh, Start, Cancel, DeleteSession
  <2>2. ASSUME NEW a \in Actors, Step(a),
               ~(\/ ReleaseGit(a) \/ DeleteGit(a) \/ AcquireReuse(a) \/ RefreshGit(a)
                 \/ AcquireCreate(a))
        PROVE  UNCHANGED trees
    <3>1. CASE \/ RemoveSessions(a) \/ RemoveSlots(a) \/ RemoveRepo(a) \/ SyncList(a)
               \/ SyncCheck(a) \/ SyncPut(a) \/ AcquirePut(a) \/ ReleaseCheck(a)
               \/ ReleasePut(a) \/ PruneList(a) \/ DeleteGet(a) \/ DeleteCheck(a)
               \/ DeleteRow(a)
      BY <3>1, ZenonT(60)
      DEF RemoveSessions, RemoveSlots, RemoveRepo, SyncList, SyncCheck, SyncPut, AcquirePut,
          ReleaseCheck, ReleasePut, PruneList, DeleteGet, DeleteCheck, DeleteRow
    <3>2. CASE \/ ReviewList(a) \/ WriteBack(a) \/ StartRefresh(a) \/ StartCheck(a)
               \/ StartInsert(a) \/ StartLaunch(a) \/ StartWait(a) \/ StartPut(a)
               \/ StartFail(a) \/ CancelPut(a) \/ GitFails(a)
      BY <3>2, Zenon DEF ReviewList, WriteBack, StartRefresh, StartCheck, StartInsert, StartLaunch,
                  StartWait, StartPut, StartFail, CancelPut, GitFails
    <3> QED
      BY <2>2, <3>1, <3>2, Zenon DEF Step
  <2>3. (\E x \in Sessions : Exit(x)) \/ (\E a \in Actors : Crash(a)) \/ UNCHANGED vars
          => UNCHANGED trees
    BY DEF Exit, Crash, vars
  <2> QED
    BY <2>1, <2>2, <2>3 DEF Next, World
<1> QED
  BY <1>1, <1>2, <1>3, <1>4, <1>5, <1>6

\* Then no release, delete or prune removes a worktree with changes: no agent
\* can have made any since the command looked.
THEOREM NoWorkLostAlways ==
    ASSUME OneActor
    PROVE  Spec => NoWorkLost
<1>1. IInv /\ Tracked /\ [Next]_vars =>
        [\A s \in Slots : DirtyTree(s) => trees'[s].place # "absent"]_vars
  BY TreesStep DEF IInv
<1> QED
  BY <1>1, TrackedInv, PTL DEF Spec, NoWorkLost

-----------------------------------------------------------------------------
(* One actor: every command takes effect at one moment                     *)

\* What is going to be stored for a session is its row or a step on from it.
RowAgreed(a) ==
    LET x == job[a].sid
        r == job[a].srow
    IN /\ job[a].pc \in {"start.launch", "start.wait", "start.put", "sync.put", "cancel.put"} =>
            r.slot = sess[x].slot /\ r.ro = sess[x].ro
       /\ job[a].pc \in {"start.fail", "sync.put"} => sess[x].status = "running"
       /\ job[a].pc = "start.put" => \/ r.status = sess[x].status
                                     \/ sess[x].status = "running" /\ r.status \in Terminal
       /\ job[a].pc = "cancel.put" => r.status = "cancelled"

\* What has been read of a slot, and what was found when it was checked, is
\* what the table says.
SlotAgreed(a) ==
    LET s == job[a].slot
        current(t) == job[a].copy[t].status = slots[t].status
        doing(steps, ret) == \/ job[a].pc \in steps
                             \/ job[a].pc \in SyncSteps /\ job[a].ret = ret
    IN /\ job[a].pc \in {"remove.sessions", "remove.slots"} =>
            \A t \in Slots : slots[t].status # "active"
       /\ job[a].pc \in {"acquire.reuse", "acquire.create", "acquire.put"} =>
            slots[s].status \in {"absent", "released"}
       /\ doing({"release.check", "release.git", "release.put"}, "release.check") =>
            slots[s].status # "absent"
       /\ job[a].pc = "release.put" => job[a].copy[s].status = "released"
       /\ doing({"start.refresh", "delete.check"}, "delete.check") => current(s)
       /\ job[a].pc \in {"delete.git", "delete.row"} => slots[s].status # "active"
       /\ job[a].pc \in {"refresh.git", "writeback"} => \A t \in job[a].queue : current(t)

SlotsAgreed == \A a \in Actors : SlotAgreed(a)

Agreed == SlotsAgreed /\ \A a \in Actors : RowAgreed(a)

\* Steps before which a row has been read or prepared that is still to be stored.
RowSteps == {"start.launch", "start.wait", "start.put", "start.fail", "sync.put", "cancel.put"}

\* A step after which the slots that were read are still as they were read,
\* and no row is about to be stored.
SlotKept(a) == SlotAgreed(a)' /\ job'[a].pc \notin RowSteps

\* Steps about which neither of them says anything.
Silent == {"idle", "review.list", "prune.list", "delete.get", "remove.repo",
           "start.check", "start.insert"}

LEMMA SilentKept ==
    ASSUME NEW a \in Actors, job'[a].pc \in Silent PROVE SlotKept(a)
  BY DEF Silent, SlotKept, RowSteps, SlotAgreed, SyncSteps

LEMMA FinishKept ==
    ASSUME TypeInv, NEW a \in Actors, Finish(a) \/ NextSlot(a, "delete.get")
    PROVE  SlotKept(a)
<1>1. CASE Finish(a)
  <2>1. job'[a] = IdleJob
    BY <1>1, Moved DEF Finish
  <2>2. job'[a].pc = "idle"
    BY <2>1 DEF IdleJob
  <2> QED
    BY <2>2, SilentKept DEF Silent
<1>2. CASE Set(a, [IdleJob EXCEPT !.pc = "delete.get", !.queue = job[a].queue])
  <2>1. job'[a] = [IdleJob EXCEPT !.pc = "delete.get", !.queue = job[a].queue]
    BY <1>2, Moved
  <2>2. job'[a].pc = "delete.get"
    BY <2>1 DEF IdleJob
  <2> QED
    BY <2>2, SilentKept DEF Silent
<1> QED
  BY <1>1, <1>2 DEF NextSlot

\* A command begins with what it has just read.
LEMMA BeginKept ==
    ASSUME TypeInv, NEW a \in Actors, SlotAgreed(a),
           \/ Poll(a) \/ RepoAdd(a) \/ RepoRemove(a) \/ Prune(a) \/ Review(a)
           \/ \E t \in Tasks, strat \in Strategies : Acquire(a, t, strat)
           \/ \E s \in Slots : Release(a, s) \/ Delete(a, s) \/ Refresh(a, s)
    PROVE  SlotKept(a) /\ UNCHANGED <<slots, sess>>
<1> USE DEF SlotKept, RowSteps, SlotAgreed, SyncSteps
<1>0. slots \in [Slots -> SlotRow \cup {NoSlot}] /\ SlotAgreed(a)
  BY DEF TypeInv, TypeOK
<1>1. CASE RepoAdd(a)
  BY <1>0, <1>1 DEF RepoAdd, Ready, Idle, At
<1>2. CASE RepoRemove(a)
  <2>1. job'[a].pc = "remove.sessions"
    BY <1>2, GoneTo DEF RepoRemove
  <2> QED
    BY <1>2, <2>1 DEF RepoRemove
<1>3. CASE Poll(a)
  <2>1. job'[a] = [IdleJob EXCEPT !.pc = "sync.list"]
    BY <1>3, Moved DEF Poll
  <2>2. job'[a].pc = "sync.list" /\ job'[a].ret = "idle"
    BY <2>1 DEF IdleJob
  <2> QED
    BY <1>3, <2>2 DEF Poll
<1>4. CASE Prune(a) \/ Review(a)
  <2>1. PICK ret \in {"prune.list", "review.list"} :
           job'[a] = [IdleJob EXCEPT !.pc = "sync.list", !.ret = ret]
    BY <1>4, Moved DEF Prune, Review
  <2>2. job'[a].pc = "sync.list" /\ job'[a].ret = ret
    BY <2>1, SMTT(60) DEF IdleJob
  <2> QED
    BY <1>4, <2>2 DEF Prune, Review
<1>5. ASSUME NEW t \in Tasks, NEW strat \in Strategies, Acquire(a, t, strat)
      PROVE  SlotKept(a) /\ UNCHANGED <<slots, sess>>
  <2> DEFINE J(pc, s, r) == [IdleJob EXCEPT !.pc = pc, !.slot = s, !.copy[s] = r]
  <2>1. PICK pc \in {"acquire.reuse", "acquire.create"}, s \in Slots :
           slots[s].status \in {"absent", "released"} /\ \E r : Set(a, J(pc, s, r))
    <3>1. /\ \A s \in Slots : NewSlot(s) => slots[s].status = "absent"
          /\ \A s \in Reusable : s \in Slots /\ slots[s].status = "released"
      BY DEF NewSlot, NoSlot, Reusable
    <3> QED
      BY <1>5, <3>1 DEF Acquire
  <2>2. PICK r : job'[a] = J(pc, s, r)
    BY <2>1, Moved
  <2>3. job'[a].pc = pc /\ job'[a].slot = s
    BY <2>2 DEF IdleJob
  <2> QED
    BY <1>5, <2>1, <2>3, ZenonT(60) DEF Acquire
<1>6. ASSUME NEW s \in Slots, Release(a, s)
      PROVE  SlotKept(a) /\ UNCHANGED <<slots, sess>>
  <2>1. job'[a] = [IdleJob EXCEPT !.pc = "sync.list", !.ret = "release.check",
                                  !.slot = s, !.copy[s] = slots[s]]
    BY <1>6, Moved, ZenonT(60) DEF Release
  <2>2. job'[a].pc = "sync.list" /\ job'[a].ret = "release.check" /\ job'[a].slot = s
    BY <2>1 DEF IdleJob
  <2>3. slots[s] \in SlotRow
    BY <1>0, <1>6 DEF Release
  <2>4. slots[s].status # "absent"
    BY <2>3 DEF SlotRow, SlotStatuses
  <2> QED
    BY <1>6, <2>2, <2>4 DEF Release
<1>7. ASSUME NEW s \in Slots, Delete(a, s)
      PROVE  SlotKept(a) /\ UNCHANGED <<slots, sess>>
  <2>1. job'[a] = [IdleJob EXCEPT !.pc = "delete.get", !.queue = {s}]
    BY <1>7, Moved DEF Delete
  <2>2. job'[a].pc = "delete.get"
    BY <2>1 DEF IdleJob
  <2> QED
    BY <1>7, <2>2 DEF Delete
<1>8. ASSUME NEW s \in Slots, Refresh(a, s)
      PROVE  SlotKept(a) /\ UNCHANGED <<slots, sess>>
  <2>1. job'[a] = [IdleJob EXCEPT !.pc = "refresh.git", !.queue = {s},
                                  !.copy[s] = slots[s]]
    BY <1>8, Moved DEF Refresh
  <2>2. /\ job'[a].pc = "refresh.git" /\ job'[a].queue = {s}
        /\ job'[a].copy = [[u \in Slots |-> NoSlot] EXCEPT ![s] = slots[s]]
    BY <2>1 DEF IdleJob
  <2> QED
    BY <1>8, <2>2 DEF Refresh
<1> QED
  BY <1>1, <1>2, <1>3, <1>4, <1>5, <1>6, <1>7, <1>8

LEMMA StartKept ==
    ASSUME TypeInv, NEW a \in Actors,
           NEW s \in Slots, NEW ro \in BOOLEAN, NEW mode \in Modes, Start(a, s, ro, mode)
    PROVE  SlotKept(a) /\ UNCHANGED <<slots, sess>>
<1>1. PICK x \in Sessions :
         Set(a, [IdleJob EXCEPT
              !.pc = "start.refresh", !.slot = s, !.copy[s] = slots[s], !.sid = x,
              !.srow = [slot |-> s, ro |-> ro, mode |-> mode, started |-> FALSE,
                        status |-> IF mode = "dry" THEN "prepared" ELSE "running"]])
  BY DEF Start
<1>2. job'[a] = [IdleJob EXCEPT
              !.pc = "start.refresh", !.slot = s, !.copy[s] = slots[s], !.sid = x,
              !.srow = [slot |-> s, ro |-> ro, mode |-> mode, started |-> FALSE,
                        status |-> IF mode = "dry" THEN "prepared" ELSE "running"]]
  BY <1>1, Moved
<1>3. /\ job'[a].pc = "start.refresh" /\ job'[a].slot = s
      /\ job'[a].copy = [[u \in Slots |-> NoSlot] EXCEPT ![s] = slots[s]]
  BY <1>2 DEF IdleJob
<1>4. UNCHANGED <<slots, sess>>
  BY DEF Start
<1> QED
  BY <1>3, <1>4 DEF SlotKept, RowSteps, SlotAgreed, SyncSteps

LEMMA SilentSteps ==
    ASSUME TypeInv, NEW a \in Actors,
           \/ RemoveSlots(a) \/ RemoveRepo(a) \/ AcquirePut(a) \/ ReleasePut(a) \/ CancelPut(a)
           \/ StartRefresh(a) \/ StartCheck(a) \/ StartPut(a) \/ StartFail(a) \/ PruneList(a)
           \/ DeleteRow(a) \/ GitFails(a) \/ Crash(a) \/ \E x \in Sessions : DeleteSession(a, x)
    PROVE  SlotKept(a)
<1>1. CASE RemoveSlots(a) \/ StartCheck(a)
  BY <1>1, GoneTo, SilentKept, FinishKept DEF RemoveSlots, StartCheck, Silent
<1>2. CASE \/ RemoveRepo(a) \/ AcquirePut(a) \/ ReleasePut(a) \/ CancelPut(a) \/ StartPut(a)
           \/ StartFail(a) \/ DeleteRow(a) \/ GitFails(a) \/ Crash(a)
  BY <1>2, FinishKept
  DEF RemoveRepo, AcquirePut, ReleasePut, CancelPut, StartPut, StartFail, DeleteRow, GitFails,
      Crash
<1>3. CASE StartRefresh(a)
  <2>1. CASE Set(a, [job[a] EXCEPT !.pc = "start.check", !.copy[job[a].slot] = NoSlot])
    <3>1. job'[a] = [job[a] EXCEPT !.pc = "start.check", !.copy[job[a].slot] = NoSlot]
      BY <2>1, Moved
    <3>2. job'[a].pc = "start.check"
      BY <3>1 DEF TypeInv, TypeOK, Job
    <3> QED
      BY <3>2, SilentKept DEF Silent
  <2> QED
    BY <1>3, <2>1, FinishKept DEF StartRefresh
<1>4. CASE PruneList(a)
  <2>1. ASSUME NEW queue, Set(a, [IdleJob EXCEPT !.pc = "delete.get", !.queue = queue])
        PROVE  SlotKept(a)
    <3>1. job'[a] = [IdleJob EXCEPT !.pc = "delete.get", !.queue = queue]
      BY <2>1, Moved
    <3>2. job'[a].pc = "delete.get"
      BY <3>1 DEF IdleJob
    <3> QED
      BY <3>2, SilentKept DEF Silent
  <2> QED
    BY <1>4, <2>1, FinishKept DEF PruneList
<1>5. ASSUME NEW x \in Sessions, DeleteSession(a, x) PROVE SlotKept(a)
  BY <1>5, SilentKept DEF DeleteSession, Ready, Idle, At, Silent
<1> QED
  BY <1>1, <1>2, <1>3, <1>4, <1>5

\* From one step of a command to the next, what it has read stays true.
LEMMA GoingKept ==
    ASSUME TypeInv, NEW a \in Actors, SlotAgreed(a),
           \/ RemoveSessions(a) \/ AcquireReuse(a) \/ AcquireCreate(a) \/ DeleteGit(a)
           \/ RefreshGit(a)
    PROVE  SlotKept(a)
<1> USE DEF SlotKept, RowSteps, SlotAgreed, SyncSteps
<1>0. SlotAgreed(a)
  OBVIOUS
<1>1. CASE RemoveSessions(a)
  <2>1. job'[a].pc = "remove.slots"
    BY <1>1, GoneTo DEF RemoveSessions
  <2> QED
    BY <1>0, <1>1, <2>1 DEF RemoveSessions, At
<1>2. CASE AcquireReuse(a) \/ AcquireCreate(a)
  <2>1. job'[a].pc = "acquire.put" /\ job'[a].slot = job[a].slot
    BY <1>2, GoneTo DEF AcquireReuse, AcquireCreate
  <2> QED
    BY <1>0, <1>2, <2>1 DEF AcquireReuse, AcquireCreate, At
<1>3. CASE DeleteGit(a)
  <2>1. job'[a].pc = "delete.row" /\ job'[a].slot = job[a].slot
    BY <1>3, GoneTo DEF DeleteGit
  <2> QED
    BY <1>0, <1>3, <2>1 DEF DeleteGit, At
<1>4. CASE RefreshGit(a)
  <2>1. CASE Goto(a, "writeback")
    <3>1. job'[a].pc = "writeback" /\ job'[a].queue = job[a].queue /\ job'[a].copy = job[a].copy
      BY <2>1, GoneTo
    <3> QED
      BY <1>0, <1>4, <3>1 DEF RefreshGit, At
  <2> QED
    BY <1>4, <2>1, FinishKept DEF RefreshGit
<1> QED
  BY <1>1, <1>2, <1>3, <1>4

LEMMA ReleaseKept ==
    ASSUME TypeInv, NEW a \in Actors, SlotAgreed(a), ReleaseCheck(a) \/ ReleaseGit(a)
    PROVE  SlotKept(a)
<1> USE DEF SlotKept, RowSteps, SlotAgreed, SyncSteps
<1> DEFINE s == job[a].slot
<1>0. /\ job[a] \in Job /\ s \in Slots /\ job[a].copy[s] \in SlotRow
      /\ slots[s].status # "absent" /\ UNCHANGED <<slots, sess>>
  BY DEF TypeInv, TypeOK, WellFormed, CopySteps, ReleaseCheck, ReleaseGit, At
<1>1. CASE ReleaseCheck(a)
  <2>1. CASE Set(a, [job[a] EXCEPT !.pc = "release.git", !.copy[s] = Refreshed(@, s)])
    <3>1. job'[a] = [job[a] EXCEPT !.pc = "release.git", !.copy[s] = Refreshed(@, s)]
      BY <2>1, Moved
    <3>2. job'[a].pc = "release.git" /\ job'[a].slot = s
      BY <1>0, <3>1 DEF Job
    <3> QED
      BY <1>0, <3>2
  <2> QED
    BY <1>1, <2>1, FinishKept DEF ReleaseCheck
<1>2. CASE ReleaseGit(a)
  <2>1. job'[a] = [job[a] EXCEPT !.pc = "release.put", !.copy[s].status = "released",
                                 !.copy[s].dirty = FALSE]
    BY <1>2, Moved DEF ReleaseGit
  <2>2. job'[a].pc = "release.put" /\ job'[a].slot = s
    BY <1>0, <2>1 DEF Job
  <2>3. job'[a].copy[s].status = "released"
    BY <1>0, <2>1 DEF Job, SlotRow
  <2> QED
    BY <1>0, <2>2, <2>3
<1> QED
  BY <1>1, <1>2

LEMMA DeleteKept ==
    ASSUME TypeInv, NEW a \in Actors, SlotAgreed(a), DeleteGet(a) \/ DeleteCheck(a)
    PROVE  SlotKept(a)
<1> USE DEF SlotKept, RowSteps, SlotAgreed, SyncSteps
<1>0. job[a] \in Job /\ SlotAgreed(a)
  BY Zenon DEF TypeInv, TypeOK
<1>1. CASE DeleteGet(a)
  <2>1. ASSUME NEW queue, Set(a, [IdleJob EXCEPT !.pc = "delete.get", !.queue = queue])
        PROVE  SlotKept(a)
    <3>1. job'[a] = [IdleJob EXCEPT !.pc = "delete.get", !.queue = queue]
      BY <2>1, Moved
    <3>2. job'[a].pc = "delete.get"
      BY <3>1, SMTT(60) DEF IdleJob
    <3> QED
      BY <3>2, SilentKept DEF Silent
  <2>2. ASSUME NEW s \in Slots, NEW queue,
               Set(a, [IdleJob EXCEPT !.pc = "sync.list", !.ret = "delete.check", !.slot = s,
                         !.copy[s] = slots[s], !.known = repo, !.queue = queue])
        PROVE  SlotKept(a)
    <3>1. job'[a] = [IdleJob EXCEPT
                         !.pc = "sync.list", !.ret = "delete.check", !.slot = s,
                         !.copy[s] = slots[s], !.known = repo, !.queue = queue]
      BY <2>2, Moved
    <3>2. /\ job'[a].pc = "sync.list" /\ job'[a].ret = "delete.check" /\ job'[a].slot = s
          /\ job'[a].copy = [[u \in Slots |-> NoSlot] EXCEPT ![s] = slots[s]]
      BY <3>1 DEF IdleJob
    <3> QED
      BY <1>1, <3>2 DEF DeleteGet
  <2>3. job[a].queue \subseteq Slots
    BY <1>0 DEF Job
  <2> QED
    BY <1>1, <2>1, <2>2, <2>3, FinishKept, Zenon DEF DeleteGet
<1>2. CASE DeleteCheck(a)
  <2>1. ASSUME NEW pc \in {"delete.git", "delete.row"}, Goto(a, pc),
               job[a].copy[job[a].slot].status # "active"
        PROVE  SlotKept(a)
    <3>1. job'[a].pc = pc /\ job'[a].slot = job[a].slot
      BY <2>1, GoneTo
    <3>2. slots[job[a].slot].status # "active"
      BY <1>0, <1>2, <2>1 DEF DeleteCheck, At
    <3> QED
      BY <1>2, <3>1, <3>2 DEF DeleteCheck
  <2> QED
    BY <1>2, <2>1, FinishKept DEF DeleteCheck
<1> QED
  BY <1>1, <1>2

LEMMA WriteKept ==
    ASSUME TypeInv, NEW a \in Actors, SlotAgreed(a), ReviewList(a) \/ WriteBack(a)
    PROVE  SlotKept(a)
<1> USE DEF SlotKept, RowSteps, SlotAgreed, SyncSteps
<1>0. /\ job[a] \in Job /\ SlotAgreed(a) /\ UNCHANGED sess
      /\ slots \in [Slots -> SlotRow \cup {NoSlot}]
  BY DEF TypeInv, TypeOK, ReviewList, WriteBack
<1>1. CASE ReviewList(a)
  <2> DEFINE listed == {s \in Slots : slots[s].status \in {"active", "released"}}
             copy == [s \in Slots |-> IF s \in listed THEN slots[s] ELSE NoSlot]
  <2>1. CASE Set(a, [IdleJob EXCEPT !.pc = "writeback", !.queue = listed, !.copy = copy])
    <3> HIDE DEF listed, copy
    <3>1. job'[a] = [IdleJob EXCEPT !.pc = "writeback", !.queue = listed, !.copy = copy]
      BY <2>1, Moved
    <3>2. job'[a].pc = "writeback" /\ job'[a].queue = listed /\ job'[a].copy = copy
      BY <3>1 DEF IdleJob
    <3>3. \A t \in listed : copy[t].status = slots[t].status
      BY DEF listed, copy
    <3> QED
      BY <1>0, <1>1, <3>2, <3>3 DEF ReviewList
  <2> QED
    BY <1>1, <2>1, FinishKept DEF ReviewList
<1>2. CASE WriteBack(a)
  <2>1. PICK s \in job[a].queue :
          /\ slots' = [slots EXCEPT ![s] = Refreshed(job[a].copy[s], s)]
          /\ \/ Finish(a)
             \/ Set(a, [job[a] EXCEPT !.queue = @ \ {s}, !.copy[s] = NoSlot])
    BY <1>2 DEF WriteBack
  <2>2. CASE Set(a, [job[a] EXCEPT !.queue = @ \ {s}, !.copy[s] = NoSlot])
    <3>1. job'[a] = [job[a] EXCEPT !.queue = @ \ {s}, !.copy[s] = NoSlot]
      BY <2>2, Moved
    <3>2. /\ job'[a].pc = "writeback" /\ job'[a].queue = job[a].queue \ {s}
          /\ job'[a].copy = [job[a].copy EXCEPT ![s] = NoSlot]
      BY <1>0, <1>2, <3>1 DEF Job, WriteBack, At
    <3>3. \A t \in job[a].queue \ {s} :
            job'[a].copy[t] = job[a].copy[t] /\ slots'[t] = slots[t]
      BY <1>0, <2>1, <3>2 DEF Job
    <3>4. \A t \in job[a].queue : job[a].copy[t].status = slots[t].status
      BY <1>0, <1>2 DEF WriteBack, At
    <3> QED
      BY <1>0, <3>2, <3>3, <3>4
  <2> QED
    BY <2>1, <2>2, FinishKept
<1> QED
  BY <1>1, <1>2

\* A sync keeps what its command has read, and so do the steps of a session.
LEMMA SyncSlots ==
    ASSUME TypeInv, NEW a \in Actors, SlotAgreed(a),
           SyncList(a) \/ SyncCheck(a) \/ SyncPut(a)
    PROVE  SlotAgreed(a)' /\ UNCHANGED slots
<1>1. /\ job[a] \in Job /\ job[a].pc \in SyncSteps /\ UNCHANGED slots
  BY DEF SyncList, SyncCheck, SyncPut, At, SyncSteps, TypeInv, TypeOK
<1>2. job[a].ret \in {"idle", "release.check", "delete.check", "prune.list", "review.list"}
  BY <1>1 DEF Job
<1> QED
  BY <1>1, <1>2, SyncGoes, SMTT(60) DEF SlotAgreed, SyncSteps

LEMMA SessionSlots ==
    ASSUME TypeInv, NEW a \in Actors,
           \/ StartInsert(a) \/ StartLaunch(a) \/ StartWait(a)
           \/ \E x \in Sessions : Cancel(a, x)
    PROVE  SlotAgreed(a)' /\ UNCHANGED slots
<1>0. job[a] \in Job
  BY DEF TypeInv, TypeOK
<1>1. job'[a].pc \in {"start.launch", "start.wait", "start.put", "start.fail", "cancel.put"}
  <2>1. CASE StartInsert(a)
    BY <2>1, GoneTo DEF StartInsert
  <2>2. CASE StartLaunch(a)
    <3>1. ASSUME NEW pc, Set(a, [job[a] EXCEPT !.srow.started = TRUE, !.pc = pc])
          PROVE  job'[a].pc = pc
      <4>1. job'[a] = [job[a] EXCEPT !.srow.started = TRUE, !.pc = pc]
        BY <3>1, Moved
      <4> QED
        BY <1>0, <4>1 DEF Job
    <3> QED
      BY <2>2, <3>1, GoneTo DEF StartLaunch
  <2>3. CASE StartWait(a)
    <3>1. PICK st : Set(a, [job[a] EXCEPT !.pc = "start.put", !.srow.status = st])
      BY <2>3 DEF StartWait
    <3>2. job'[a] = [job[a] EXCEPT !.pc = "start.put", !.srow.status = st]
      BY <3>1, Moved
    <3> QED
      BY <1>0, <3>2 DEF Job
  <2>4. ASSUME NEW x \in Sessions, Cancel(a, x) PROVE job'[a].pc = "cancel.put"
    <3>1. job'[a] = [IdleJob EXCEPT !.pc = "cancel.put", !.sid = x,
                                    !.srow = [sess[x] EXCEPT !.status = "cancelled"]]
      BY <2>4, Moved DEF Cancel
    <3> QED
      BY <3>1 DEF IdleJob
  <2> QED
    BY <2>1, <2>2, <2>3, <2>4
<1>2. UNCHANGED slots
  BY DEF StartInsert, StartLaunch, StartWait, Cancel
<1> QED
  BY <1>1, <1>2 DEF SlotAgreed, SyncSteps

\* Whatever an actor does, it goes on with what it has read of slots, and what
\* it does to them only a mutator may.
LEMMA OwnSlots ==
    ASSUME TypeInv, NEW a \in Actors, SlotAgreed(a), ActsNow(a)
    PROVE  SlotAgreed(a)'
<1>1. CASE Poll(a) \/ Command(a)
  <2>1. ASSUME NEW s \in Slots, NEW ro \in BOOLEAN, NEW mode \in Modes,
               Start(a, s, ro, mode)
        PROVE  SlotAgreed(a)'
    BY <2>1, StartKept DEF SlotKept
  <2>2. ASSUME NEW x \in Sessions, Cancel(a, x) \/ DeleteSession(a, x) PROVE SlotAgreed(a)'
    BY <2>2, SessionSlots, SilentSteps DEF SlotKept
  <2> QED
    BY <1>1, <2>1, <2>2, BeginKept DEF Command, SlotKept
<1>2. CASE Step(a)
  <2>1. CASE \/ RemoveSlots(a) \/ RemoveRepo(a) \/ AcquirePut(a) \/ ReleasePut(a)
             \/ CancelPut(a) \/ StartRefresh(a) \/ StartCheck(a) \/ StartPut(a)
             \/ StartFail(a) \/ PruneList(a) \/ DeleteRow(a) \/ GitFails(a)
    BY <2>1, SilentSteps DEF SlotKept
  <2>2. CASE \/ RemoveSessions(a) \/ AcquireReuse(a) \/ AcquireCreate(a) \/ DeleteGit(a)
             \/ RefreshGit(a) \/ ReleaseCheck(a) \/ ReleaseGit(a)
    BY <2>2, GoingKept, ReleaseKept DEF SlotKept
  <2>3. CASE DeleteGet(a) \/ DeleteCheck(a) \/ ReviewList(a) \/ WriteBack(a)
    BY <2>3, DeleteKept, WriteKept DEF SlotKept
  <2>4. CASE \/ SyncList(a) \/ SyncCheck(a) \/ SyncPut(a)
             \/ StartInsert(a) \/ StartLaunch(a) \/ StartWait(a)
    BY <2>4, SyncSlots, SessionSlots
  <2> QED
    BY <1>2, <2>1, <2>2, <2>3, <2>4 DEF Step
<1>3. CASE Crash(a)
  BY <1>3, SilentSteps DEF SlotKept
<1> QED
  BY <1>1, <1>2, <1>3 DEF ActsNow

\* An actor that only watches does no more than sync.
LEMMA WatcherSteps ==
    ASSUME Control, NEW a \in Actors, ActsNow(a), a \notin Mutators
    PROVE  Poll(a) \/ Crash(a) \/ SyncList(a) \/ SyncCheck(a) \/ SyncPut(a)
<1>1. ~Command(a)
  BY Zenon DEF Command, RepoAdd, RepoRemove, Prune, Review, Acquire, Release, Delete, Refresh,
     Start, Cancel, DeleteSession, Ready
<1>2. job[a].pc \in SyncSteps \cup {"idle"}
  BY InsideCommand
<1>3. Step(a) => SyncList(a) \/ SyncCheck(a) \/ SyncPut(a)
  BY <1>2, ZenonT(60)
  DEF Step, RemoveSessions, RemoveSlots, RemoveRepo, AcquireReuse, AcquireCreate, AcquirePut,
      ReleaseCheck, ReleaseGit, ReleasePut, PruneList, DeleteGet, DeleteCheck, DeleteGit,
      DeleteRow, RefreshGit, ReviewList, WriteBack, StartRefresh, StartCheck, StartInsert,
      StartLaunch, StartWait, StartPut, StartFail, CancelPut, GitFails, GitSteps, At, SyncSteps
<1> QED
  BY <1>1, <1>3, Zenon DEF ActsNow

LEMMA OnlyMutatorsStore ==
    ASSUME Control, NEW a \in Actors, ActsNow(a)
    PROVE  a \in Mutators \/ UNCHANGED <<repo, slots>>
  BY WatcherSteps DEF Poll, Crash, SyncList, SyncCheck, SyncPut

\* Every step of an actor leaves what the others are doing alone.
LEMMA OnlyOwnJob ==
    ASSUME TypeInv, NEW a \in Actors, NEW b \in Actors \ {a},
           ActsNow(a)
    PROVE  job'[b] = job[b]
<1>1. ASSUME NEW j, Set(a, j) PROVE job'[b] = job[b]
  BY <1>1, Moved
<1>2. CASE Poll(a) \/ Crash(a)
  BY <1>1, <1>2, Zenon DEF Poll, Crash, Finish
<1>3. CASE Command(a)
  BY <1>1, <1>3, Zenon
  DEF Command, RepoAdd, RepoRemove, Prune, Review, Acquire, Release, Delete, Refresh, Start,
      Cancel, DeleteSession, Goto
<1>4. CASE Step(a)
  <2>1. CASE RemoveSessions(a) \/ RemoveSlots(a) \/ RemoveRepo(a)
    BY <1>1, <2>1 DEF RemoveSessions, RemoveSlots, RemoveRepo, Goto, Finish
  <2>2. CASE SyncList(a) \/ SyncCheck(a) \/ SyncPut(a)
    BY <1>1, <2>2 DEF SyncList, SyncCheck, SyncPut, Resume, Finish
  <2>3. CASE \/ AcquireReuse(a) \/ AcquireCreate(a) \/ AcquirePut(a) \/ ReleaseCheck(a)
             \/ ReleaseGit(a) \/ ReleasePut(a)
    BY <1>1, <2>3
    DEF AcquireReuse, AcquireCreate, AcquirePut, ReleaseCheck, ReleaseGit, ReleasePut, Goto,
        Finish
  <2>4. CASE PruneList(a) \/ DeleteGet(a) \/ DeleteCheck(a) \/ DeleteGit(a) \/ DeleteRow(a)
    BY <1>1, <2>4, Zenon
    DEF PruneList, DeleteGet, DeleteCheck, DeleteGit, DeleteRow, NextSlot, Goto, Finish
  <2>5. CASE RefreshGit(a) \/ ReviewList(a) \/ WriteBack(a) \/ StartRefresh(a) \/ StartCheck(a)
    BY <1>1, <2>5, Zenon
    DEF RefreshGit, ReviewList, WriteBack, StartRefresh, StartCheck, Goto, Finish
  <2>6. CASE \/ StartInsert(a) \/ StartLaunch(a) \/ StartWait(a) \/ StartPut(a) \/ StartFail(a)
             \/ CancelPut(a) \/ GitFails(a)
    BY <1>1, <2>6
    DEF StartInsert, StartLaunch, StartWait, StartPut, StartFail, CancelPut, GitFails,
        NextSlot, Goto, Finish
  <2> QED
    BY <1>4, <2>1, <2>2, <2>3, <2>4, <2>5, <2>6 DEF Step
<1> QED
  BY <1>2, <1>3, <1>4 DEF ActsNow

\* With one mutator no one else stores slots in between.
LEMMA NextSlots ==
    ASSUME SingleMutator, TypeInv, Control, Control', SlotsAgreed, [Next]_vars
    PROVE  SlotsAgreed'
<1>1. ASSUME NEW a \in Actors, ActsNow(a)
      PROVE  SlotsAgreed'
  <2>1. SlotAgreed(a)'
    BY <1>1, OwnSlots DEF SlotsAgreed
  <2>2. ASSUME NEW b \in Actors \ {a} PROVE SlotAgreed(b)'
    <3>1. CASE b \in Mutators
      <4>1. UNCHANGED slots
        BY <1>1, <3>1, OnlyMutatorsStore DEF SingleMutator
      <4> QED
        BY <1>1, <4>1, OnlyOwnJob DEF SlotsAgreed, SlotAgreed
    <3>2. CASE b \notin Mutators
      <4>1. Watching(b)'
        BY <3>2 DEF Control
      <4> QED
        BY <4>1 DEF Watching, SlotAgreed, SyncSteps
    <3> QED
      BY <3>1, <3>2
  <2> QED
    BY <2>1, <2>2 DEF SlotsAgreed
<1>2. CASE UNCHANGED <<slots, job>>
  BY <1>2 DEF SlotsAgreed, SlotAgreed
<1> QED
  BY <1>1, <1>2, ActorOrWorld

\* With one actor a row that is about to be stored is the row that was read.
LEMMA SyncRow ==
    ASSUME TypeInv, Tracked, NEW a \in Actors,
           SyncList(a) \/ SyncCheck(a) \/ SyncPut(a)
    PROVE  RowAgreed(a)'
<1>0. job[a] \in Job /\ job[a].pc \in SyncSteps /\ Listed(a)
  BY DEF SyncList, SyncCheck, SyncPut, At, SyncSteps, TypeInv, TypeOK, Tracked, Tracking
<1>1. CASE job'[a].pc = "sync.put"
  <2>1. PICK p \in job[a].todo, st \in Terminal :
           /\ job'[a] = [job[a] EXCEPT !.pc = "sync.put", !.todo = @ \ {p}, !.sid = p.id,
                                       !.srow = [p.row EXCEPT !.status = st]]
           /\ UNCHANGED sess /\ At(a, "sync.check")
    <3>1. ASSUME NEW rest, Resume(a, rest) PROVE job'[a].pc # "sync.put"
      <4>1. CASE Finish(a)
        <5>1. job'[a] = IdleJob
          BY <4>1, Moved DEF Finish
        <5> QED
          BY <5>1 DEF IdleJob
      <4>2. CASE Set(a, [job[a] EXCEPT !.pc = "sync.check", !.todo = rest,
                                       !.sid = "none", !.srow = NoSession])
        <5>1. job'[a] = [job[a] EXCEPT !.pc = "sync.check", !.todo = rest,
                                       !.sid = "none", !.srow = NoSession]
          BY <4>2, Moved
        <5> QED
          BY <1>0, <5>1 DEF Job
      <4>3. CASE Set(a, [job[a] EXCEPT !.pc = job[a].ret, !.ret = "idle", !.todo = {},
                                       !.sid = "none", !.srow = NoSession])
        <5>1. job'[a] = [job[a] EXCEPT !.pc = job[a].ret, !.ret = "idle", !.todo = {},
                                       !.sid = "none", !.srow = NoSession]
          BY <4>3, Moved
        <5> QED
          BY <1>0, <5>1 DEF Job
      <4> QED
        BY <3>1, <4>1, <4>2, <4>3 DEF Resume
    <3>2. SyncCheck(a)
      BY <1>1, <3>1, Zenon DEF SyncList, SyncPut
    <3>3. \E p \in job[a].todo, st \in Terminal :
            Set(a, [job[a] EXCEPT !.pc = "sync.put", !.todo = @ \ {p}, !.sid = p.id,
                                  !.srow = [p.row EXCEPT !.status = st]])
      BY <1>1, <3>1, <3>2, Zenon DEF SyncCheck, Verdict, Terminal
    <3>4. PICK p \in job[a].todo, st \in Terminal :
            Set(a, [job[a] EXCEPT !.pc = "sync.put", !.todo = @ \ {p}, !.sid = p.id,
                                  !.srow = [p.row EXCEPT !.status = st]])
      BY <3>3
    <3>5. job'[a] = [job[a] EXCEPT !.pc = "sync.put", !.todo = @ \ {p}, !.sid = p.id,
                                   !.srow = [p.row EXCEPT !.status = st]]
      BY <3>4, Moved
    <3> QED
      BY <3>2, <3>5 DEF SyncCheck
  <2>2. sess[p.id] = p.row /\ p.row.status = "running" /\ p.row \in SessionRow
    BY <1>0, <2>1 DEF Listed, At, Job
  <2>3. job'[a].sid = p.id /\ job'[a].srow = [p.row EXCEPT !.status = st]
    BY <1>0, <2>1 DEF Job
  <2>4. job'[a].srow.slot = p.row.slot /\ job'[a].srow.ro = p.row.ro
    BY <2>2, <2>3 DEF SessionRow
  <2> QED
    BY <1>1, <2>1, <2>2, <2>3, <2>4 DEF RowAgreed
<1>2. CASE job'[a].pc # "sync.put"
  <2>1. job'[a].pc \in {"sync.list", "sync.check", "idle", "release.check", "delete.check",
                        "prune.list", "review.list"}
    BY <1>0, <1>2, SyncGoes DEF Job, SyncSteps
  <2> QED
    BY <2>1 DEF RowAgreed
<1> QED
  BY <1>1, <1>2, SMTT(60)

LEMMA CancelRow ==
    ASSUME TypeInv, NEW a \in Actors, NEW x \in Sessions, Cancel(a, x)
    PROVE  RowAgreed(a)'
<1>1. job'[a] = [IdleJob EXCEPT !.pc = "cancel.put", !.sid = x,
                                !.srow = [sess[x] EXCEPT !.status = "cancelled"]]
  BY Moved DEF Cancel
<1>2. /\ job'[a].pc = "cancel.put" /\ job'[a].sid = x
      /\ job'[a].srow = [sess[x] EXCEPT !.status = "cancelled"]
  BY <1>1 DEF IdleJob
<1>3. sess[x] \in SessionRow
  BY DEF Cancel, Pending, TypeInv, TypeOK, NoSession
<1>4. /\ job'[a].srow.slot = sess[x].slot /\ job'[a].srow.ro = sess[x].ro
      /\ job'[a].srow.status = "cancelled"
  BY <1>2, <1>3 DEF SessionRow
<1>5. UNCHANGED sess
  BY DEF Cancel
<1> QED
  BY <1>2, <1>4, <1>5 DEF RowAgreed

\* A launch stores the row first and goes on with it.
LEMMA LaunchRow ==
    ASSUME TypeInv, Tracked, NEW a \in Actors, RowAgreed(a),
           StartInsert(a) \/ StartLaunch(a) \/ StartWait(a)
    PROVE  RowAgreed(a)'
<1> USE DEF RowAgreed
<1> DEFINE x == job[a].sid
           r == job[a].srow
<1>0. /\ job[a] \in Job /\ x \in Sessions /\ r \in SessionRow /\ RowAgreed(a)
      /\ Starting(a)
      /\ sess \in [Sessions -> SessionRow \cup {NoSession}]
  BY DEF TypeInv, TypeOK, WellFormed, StartSteps, Tracked, Tracking, StartInsert,
         StartLaunch, StartWait, At
<1>1. CASE StartInsert(a)
  <2>1. /\ job'[a].pc \in {"start.put", "start.launch"} /\ job'[a].sid = x
        /\ job'[a].srow = r
    BY <1>1, GoneTo DEF StartInsert
  <2>2. sess'[x] = r
    BY <1>0, <1>1 DEF StartInsert
  <2> QED
    BY <2>1, <2>2
<1>2. CASE StartLaunch(a)
  <2>0. /\ sess[x].status = "running" /\ r.status = "running" /\ UNCHANGED sess
        /\ r.slot = sess[x].slot /\ r.ro = sess[x].ro
    BY <1>0, <1>2 DEF StartLaunch, At, Starting
  <2>1. ASSUME NEW pc \in {"start.put", "start.wait"},
               Set(a, [job[a] EXCEPT !.srow.started = TRUE, !.pc = pc])
        PROVE  RowAgreed(a)'
    <3>1. job'[a] = [job[a] EXCEPT !.srow.started = TRUE, !.pc = pc]
      BY <2>1, Moved
    <3>2. /\ job'[a].pc = pc /\ job'[a].sid = x
          /\ job'[a].srow = [r EXCEPT !.started = TRUE]
      BY <1>0, <3>1 DEF Job
    <3>3. /\ job'[a].srow.slot = r.slot /\ job'[a].srow.ro = r.ro
          /\ job'[a].srow.status = r.status
      BY <1>0, <3>2 DEF SessionRow
    <3> QED
      BY <2>0, <3>2, <3>3
  <2>2. CASE Goto(a, "start.fail")
    <3>1. job'[a].pc = "start.fail" /\ job'[a].sid = x
      BY <2>2, GoneTo
    <3> QED
      BY <2>0, <3>1
  <2> QED
    BY <1>2, <2>1, <2>2 DEF StartLaunch
<1>3. CASE StartWait(a)
  <2>0. sess[x].status = "running" /\ UNCHANGED sess /\ r.slot = sess[x].slot /\ r.ro = sess[x].ro
    BY <1>0, <1>3 DEF StartWait, At, Starting
  <2>1. PICK st \in {"completed", "failed"} :
          Set(a, [job[a] EXCEPT !.pc = "start.put", !.srow.status = st])
    BY <1>3 DEF StartWait
  <2>2. job'[a] = [job[a] EXCEPT !.pc = "start.put", !.srow.status = st]
    BY <2>1, Moved
  <2>3. /\ job'[a].pc = "start.put" /\ job'[a].sid = x
        /\ job'[a].srow = [r EXCEPT !.status = st]
    BY <1>0, <2>2 DEF Job
  <2>4. job'[a].srow.slot = r.slot /\ job'[a].srow.ro = r.ro /\ job'[a].srow.status = st
    BY <1>0, <2>3 DEF SessionRow
  <2> QED
    BY <2>0, <2>3, <2>4 DEF Terminal
<1> QED
  BY <1>1, <1>2, <1>3

LEMMA NextAgreed ==
    ASSUME OneActor, IInv, IInv', Tracked, Agreed, [Next]_vars
    PROVE  Agreed'
<1>0. TypeInv /\ Control /\ Control' /\ SingleMutator
  BY MutatorsAreActors DEF IInv, OneActor, SingleMutator
<1>1. SlotsAgreed'
  BY <1>0, NextSlots DEF Agreed
<1>2. ASSUME NEW a \in Actors, SlotKept(a) PROVE RowAgreed(a)'
  BY <1>2 DEF SlotKept, RowSteps, RowAgreed
<1>3. ASSUME NEW a \in Actors, ActsNow(a) PROVE RowAgreed(a)'
  <2>0. SlotAgreed(a) /\ RowAgreed(a)
    BY DEF Agreed, SlotsAgreed
  <2>1. CASE Poll(a) \/ Command(a)
    <3>1. ASSUME NEW x \in Sessions, Cancel(a, x) \/ DeleteSession(a, x) PROVE RowAgreed(a)'
      BY <1>0, <1>2, <3>1, CancelRow, SilentSteps
    <3>2. ASSUME NEW s \in Slots, NEW ro \in BOOLEAN, NEW mode \in Modes,
                 Start(a, s, ro, mode)
          PROVE  RowAgreed(a)'
      BY <1>0, <1>2, <3>2, StartKept
    <3> QED
      BY <1>0, <1>2, <2>0, <2>1, <3>1, <3>2, BeginKept DEF Command
  <2>2. CASE \/ RemoveSlots(a) \/ RemoveRepo(a) \/ AcquirePut(a) \/ ReleasePut(a)
             \/ CancelPut(a) \/ StartRefresh(a) \/ StartCheck(a) \/ StartPut(a)
             \/ StartFail(a) \/ PruneList(a) \/ DeleteRow(a) \/ GitFails(a) \/ Crash(a)
    BY <1>0, <1>2, <2>2, SilentSteps
  <2>3. CASE \/ RemoveSessions(a) \/ AcquireReuse(a) \/ AcquireCreate(a) \/ DeleteGit(a)
             \/ RefreshGit(a) \/ ReleaseCheck(a) \/ ReleaseGit(a)
    BY <1>0, <1>2, <2>0, <2>3, GoingKept, ReleaseKept
  <2>4. CASE DeleteGet(a) \/ DeleteCheck(a) \/ ReviewList(a) \/ WriteBack(a)
    BY <1>0, <1>2, <2>0, <2>4, DeleteKept, WriteKept
  <2>5. CASE \/ SyncList(a) \/ SyncCheck(a) \/ SyncPut(a)
             \/ StartInsert(a) \/ StartLaunch(a) \/ StartWait(a)
    BY <1>0, <2>0, <2>5, SyncRow, LaunchRow
  <2> QED
    BY <1>3, <2>1, <2>2, <2>3, <2>4, <2>5 DEF ActsNow, Step
<1>4. CASE UNCHANGED <<sess, job>>
  BY <1>1, <1>4 DEF Agreed, RowAgreed
<1>5. ASSUME NEW a \in Actors, ActsNow(a) PROVE Agreed'
  BY <1>1, <1>3, <1>5 DEF OneActor, Agreed
<1> QED
  BY <1>4, <1>5, ActorOrWorld

LEMMA AgreedInv == OneActor /\ Spec => [](IInv /\ Tracked /\ Agreed)
<1> SUFFICES ASSUME OneActor PROVE Spec => [](IInv /\ Tracked /\ Agreed)
  OBVIOUS
<1>1. Init => Agreed
  BY DEF Init, Agreed, SlotsAgreed, RowAgreed, SlotAgreed, IdleJob, SyncSteps
<1>2. IInv /\ IInv' /\ Tracked /\ Agreed /\ [Next]_vars => Agreed'
  BY NextAgreed
<1> QED
  BY <1>1, <1>2, TrackedInv, PTL DEF Spec

\* How the stored records appear in the tables of SlotTables.
LEMMA SeenRow ==
    ASSUME TypeInv, NEW x \in Sessions
    PROVE  /\ Seen(sess[x]).status = sess[x].status
           /\ sess[x].status # "absent" =>
                Seen(sess[x]).slot = sess[x].slot /\ Seen(sess[x]).ro = sess[x].ro
  BY DEF TypeInv, TypeOK, Seen, NoSession

LEMMA FreeSlot ==
    ASSUME TypeInv, NEW s
    PROVE  Tables!LiveOn(s) = PendingOn(s) /\ (Tables!Free(s) <=> PendingOn(s) = {})
<1>1. Tables!LiveOn(s) = PendingOn(s)
  BY SeenRow DEF Tables!LiveOn, Tables!Live, PendingOn, Pending
<1> QED
  BY <1>1 DEF Tables!Free

LEMMA SameTables == UNCHANGED <<repo, slots, sess>> => UNCHANGED Tables!vars
  BY DEF Tables!vars

LEMMA StoredStatus ==
    ASSUME TypeInv, UNCHANGED <<repo, sess>>, NEW s \in Slots, NEW r,
           slots' = [slots EXCEPT ![s] = r], NEW status, r.status = status
    PROVE  Tables!ChangeSlot(s, status)
  BY DEF Tables!ChangeSlot, TypeInv, TypeOK

LEMMA StoredSeen ==
    ASSUME TypeInv, UNCHANGED <<repo, slots>>, NEW x \in Sessions, NEW r,
           sess' = [sess EXCEPT ![x] = r]
    PROVE  Tables!ChangeSession(x, Seen(r))
  BY DEF Tables!ChangeSession, TypeInv, TypeOK

LEMMA VacantSlots ==
    ASSUME TypeInv, \A x \in Sessions : ~Pending(x), \A s \in Slots : slots[s].status # "active"
    PROVE  Tables!Vacant
  BY FreeSlot DEF Tables!Vacant, PendingOn

TablesStep == Tables!Next \/ UNCHANGED Tables!vars

LEMMA RemovalSteps ==
    ASSUME TypeInv, Occupancy, SlotsAgreed, NEW a \in Actors,
           RepoAdd(a) \/ RemoveSessions(a) \/ RemoveSlots(a) \/ RemoveRepo(a)
    PROVE  TablesStep
<1>0. RemovalOrder(a) /\ SlotAgreed(a)
  BY DEF Occupancy, Holding, SlotsAgreed
<1>1. CASE RepoAdd(a)
  BY <1>1 DEF RepoAdd, TablesStep, Tables!Next, Tables!Register
<1>2. CASE RemoveSessions(a)
  <2>1. Tables!Vacant
    BY <1>0, <1>2, VacantSlots DEF RemoveSessions, At, RemovalOrder, SlotAgreed
  <2>2. Tables!ForgetAll
    BY <1>2, <2>1 DEF RemoveSessions, Tables!ForgetAll, Seen, Tables!Absent, NoSession
  <2> QED
    BY <2>2 DEF TablesStep, Tables!Next
<1>3. CASE RemoveSlots(a)
  <2>1. Tables!Vacant
    BY <1>0, <1>3, VacantSlots DEF RemoveSlots, At, RemovalOrder, SlotAgreed
  <2>2. Tables!DeleteAll
    BY <1>3, <2>1 DEF RemoveSlots, Tables!DeleteAll, NoSlot
  <2> QED
    BY <2>2 DEF TablesStep, Tables!Next
<1>4. CASE RemoveRepo(a)
  <2>1. \A s \in Slots : slots[s].status = "absent"
    BY <1>0, <1>4 DEF RemoveRepo, At, RemovalOrder, NoSlot
  <2>2. Tables!Vacant
    BY <1>0, <1>4, <2>1, VacantSlots DEF RemoveRepo, At, RemovalOrder
  <2>3. Tables!Unregister
    BY <1>4, <2>1, <2>2 DEF RemoveRepo, Tables!Unregister
  <2> QED
    BY <2>3 DEF TablesStep, Tables!Next
<1> QED
  BY <1>1, <1>2, <1>3, <1>4

LEMMA SlotSteps ==
    ASSUME TypeInv, Occupancy, SlotsAgreed, NEW a \in Actors,
           AcquirePut(a) \/ ReleasePut(a) \/ DeleteRow(a)
    PROVE  TablesStep
<1>0. PICK s \in Slots :
        /\ s = job[a].slot /\ Holding(a) /\ SlotAgreed(a) /\ SessionHoldsSlot
        /\ UNCHANGED <<repo, sess>>
  BY DEF Occupancy, SlotsAgreed, TypeInv, WellFormed, CopySteps, AcquirePut, ReleasePut,
         DeleteRow, At
<1>1. CASE AcquirePut(a)
  <2>1. Tables!ChangeSlot(s, "active")
    BY <1>0, <1>1, StoredStatus DEF AcquirePut, At, Holding, GrantsActive
  <2>2. repo /\ slots[s].status \in {"absent", "released"}
    BY <1>0, <1>1 DEF AcquirePut, At, Holding, RemovalOrder, CopySteps, SlotAgreed
  <2>3. Tables!Free(s)
    BY <1>0, <2>2, UnheldSlot, FreeSlot
  <2>4. Tables!Acquire(s)
    BY <1>0, <2>1, <2>2, <2>3 DEF Tables!Acquire
  <2> QED
    BY <1>0, <2>4 DEF TablesStep, Tables!Next
<1>2. CASE ReleasePut(a)
  <2>1. Tables!ChangeSlot(s, "released")
    BY <1>0, <1>2, StoredStatus DEF ReleasePut, At, SlotAgreed
  <2>2. repo /\ slots[s].status # "absent" /\ Tables!Free(s)
    BY <1>0, <1>2, FreeSlot
    DEF ReleasePut, At, Holding, RemovalOrder, Unoccupied, CopySteps, SlotAgreed
  <2>3. Tables!Release(s)
    BY <1>0, <2>1, <2>2 DEF Tables!Release
  <2> QED
    BY <1>0, <2>3 DEF TablesStep, Tables!Next
<1>3. CASE DeleteRow(a)
  <2>0. NoSlot.status = "absent"
    BY DEF NoSlot
  <2>1. Tables!ChangeSlot(s, "absent")
    BY <1>0, <1>3, <2>0, StoredStatus DEF DeleteRow
  <2>2. slots[s].status # "active" /\ Tables!Free(s)
    BY <1>0, <1>3, FreeSlot DEF DeleteRow, At, Holding, Unoccupied, SlotAgreed
  <2>3. CASE slots[s].status = "absent"
    BY <1>0, <2>1, <2>3 DEF TablesStep, Tables!ChangeSlot, Tables!vars
  <2>4. CASE slots[s].status # "absent"
    <3>1. slots[s].status \in {"released", "missing"}
      BY <1>0, <2>2, <2>4 DEF TypeInv, TypeOK, SlotRow, SlotStatuses, NoSlot
    <3>2. Tables!Delete(s)
      BY <1>0, <2>1, <2>2, <3>1 DEF Tables!Delete
    <3> QED
      BY <1>0, <3>2 DEF TablesStep, Tables!Next
  <2> QED
    BY <2>3, <2>4
<1> QED
  BY <1>1, <1>2, <1>3

\* A record that is written back changes nothing, or says the slot is missing.
LEMMA RewriteSteps ==
    ASSUME TypeInv, SlotsAgreed, NEW a \in Actors, WriteBack(a) \/ StartRefresh(a)
    PROVE  TablesStep
<1>0. SlotAgreed(a) /\ WellFormed(job[a]) /\ job[a] \in Job /\ UNCHANGED <<repo, sess>>
  BY DEF SlotsAgreed, TypeInv, TypeOK, WriteBack, StartRefresh
<1>1. PICK s \in Slots :
        /\ slots' = [slots EXCEPT ![s] = Refreshed(job[a].copy[s], s)]
        /\ job[a].copy[s] \in SlotRow /\ job[a].copy[s].status = slots[s].status
  <2>1. CASE WriteBack(a)
    BY <1>0, <2>1 DEF WriteBack, At, WellFormed, SlotAgreed, Job
  <2>2. CASE StartRefresh(a)
    BY <1>0, <2>2 DEF StartRefresh, At, WellFormed, SlotAgreed, CopySteps
  <2> QED
    BY <2>1, <2>2
<1>2. PICK status : status = Refreshed(job[a].copy[s], s).status
  OBVIOUS
<1>3. Tables!ChangeSlot(s, status)
  BY <1>0, <1>1, <1>2, StoredStatus
<1>4. status \in {"missing", slots[s].status} /\ slots[s].status # "absent"
  BY <1>1, <1>2, RefreshedStatus DEF SlotRow, SlotStatuses
<1>5. CASE status = "missing"
  <2>1. Tables!Miss(s)
    BY <1>3, <1>4, <1>5 DEF Tables!Miss
  <2> QED
    BY <2>1 DEF TablesStep, Tables!Next
<1>6. CASE status = slots[s].status
  BY <1>3, <1>6 DEF TablesStep, Tables!ChangeSlot, Tables!vars
<1> QED
  BY <1>4, <1>5, <1>6

\* A row that has ended is stored over one that had not.
LEMMA EndedRow ==
    ASSUME TypeInv, UNCHANGED <<repo, slots>>, NEW x \in Sessions, NEW r \in SessionRow,
           sess' = [sess EXCEPT ![x] = r],
           r.slot = sess[x].slot, r.ro = sess[x].ro, r.status \in Terminal,
           sess[x].status = "running" \/ (sess[x].status = "prepared" /\ r.status = "cancelled")
    PROVE  TablesStep
<1>1. sess[x] \in SessionRow /\ sess[x] # NoSession /\ r # NoSession
  BY DEF TypeInv, TypeOK, NoSession, Terminal
<1>2. PICK old \in [slot: Slots, ro: BOOLEAN, status: SessionStatuses] : old = Seen(sess[x])
  BY <1>1 DEF Seen, SessionRow
<1>3. PICK status \in Terminal : status = r.status
  OBVIOUS
<1>4. old.status = sess[x].status /\ Seen(r) = [old EXCEPT !.status = status]
  BY <1>1, <1>2, <1>3 DEF Seen
<1>5. PICK row : row = Seen(r)
  OBVIOUS
<1>6. Tables!ChangeSession(x, row)
  BY <1>5, StoredSeen
<1>7. Tables!End(x)
  BY <1>2, <1>3, <1>4, <1>5, <1>6 DEF Tables!End, Tables!Ended, Terminal, Tables!ChangeSession
<1> QED
  BY <1>7 DEF TablesStep, Tables!Next

LEMMA EndSteps ==
    ASSUME TypeInv, Control, Tracked, Agreed, NEW a \in Actors,
           SyncPut(a) \/ CancelPut(a) \/ StartPut(a) \/ StartFail(a)
    PROVE  TablesStep
<1>0. /\ WellFormed(job[a]) /\ WritesTerminal(a) /\ Ending(a) /\ Starting(a) /\ RowAgreed(a)
      /\ UNCHANGED <<repo, slots>>
  BY DEF TypeInv, Control, Tracked, Tracking, Agreed, SyncPut, CancelPut, StartPut, StartFail
<1>1. PICK x \in Sessions, r \in SessionRow : x = job[a].sid /\ r = job[a].srow
  BY <1>0 DEF WellFormed, StartSteps, SyncPut, CancelPut, StartPut, StartFail, At
<1>2. CASE SyncPut(a)
  <2>1. /\ r.slot = sess[x].slot /\ r.ro = sess[x].ro /\ r.status \in Terminal
        /\ sess[x].status = "running" /\ sess' = [sess EXCEPT ![x] = r]
    BY <1>0, <1>1, <1>2 DEF SyncPut, At, WritesTerminal, RowAgreed
  <2> QED
    BY <1>0, <2>1, EndedRow
<1>3. CASE CancelPut(a)
  <2>1. /\ r.slot = sess[x].slot /\ r.ro = sess[x].ro /\ r.status = "cancelled"
        /\ Pending(x) /\ sess' = [sess EXCEPT ![x] = r]
    BY <1>0, <1>1, <1>3 DEF CancelPut, At, Ending, RowAgreed
  <2> QED
    BY <1>0, <2>1, EndedRow DEF Pending, Terminal
<1>4. CASE StartPut(a)
  <2>1. /\ r.slot = sess[x].slot /\ r.ro = sess[x].ro /\ Pending(x)
        /\ \/ r.status = sess[x].status
           \/ sess[x].status = "running" /\ r.status \in Terminal
        /\ sess' = [sess EXCEPT ![x] = r]
    BY <1>0, <1>1, <1>4 DEF StartPut, At, Starting, RowAgreed
  <2>2. CASE r.status = sess[x].status
    <3>1. sess[x] \in SessionRow /\ sess[x] # NoSession /\ r # NoSession
      BY <2>1 DEF TypeInv, TypeOK, NoSession, Pending, SessionRow, SessionStatuses, Terminal
    <3>2. Seen(r) = Seen(sess[x])
      BY <2>1, <2>2, <3>1 DEF Seen
    <3>3. \A y \in Sessions : Seen(sess'[y]) = Seen(sess[y])
      BY <2>1, <3>2 DEF TypeInv, TypeOK
    <3> QED
      BY <1>0, <3>3 DEF TablesStep, Tables!vars
  <2> QED
    BY <1>0, <2>1, <2>2, EndedRow
<1>5. CASE StartFail(a)
  <2>1. /\ sess[x].status = "running"
        /\ \/ UNCHANGED sess
           \/ sess' = [sess EXCEPT ![x].status = "failed"]
    BY <1>0, <1>1, <1>5 DEF StartFail, At, RowAgreed
  <2>2. CASE UNCHANGED sess
    BY <1>0, <2>2, SameTables DEF TablesStep
  <2>3. CASE sess' = [sess EXCEPT ![x].status = "failed"]
    <3>1. sess[x] \in SessionRow
      BY <2>1 DEF TypeInv, TypeOK, NoSession
    <3>2. PICK f \in SessionRow : f = [sess[x] EXCEPT !.status = "failed"]
      BY <3>1 DEF SessionRow, SessionStatuses, Terminal
    <3>3. /\ f.slot = sess[x].slot /\ f.ro = sess[x].ro /\ f.status = "failed"
          /\ sess' = [sess EXCEPT ![x] = f]
      BY <2>3, <3>1, <3>2 DEF SessionRow
    <3> QED
      BY <1>0, <2>1, <3>3, EndedRow DEF Terminal
  <2> QED
    BY <2>1, <2>2, <2>3
<1> QED
  BY <1>2, <1>3, <1>4, <1>5

LEMMA StartStep ==
    ASSUME TypeInv, Exclusive, Occupancy, NEW a \in Actors, StartInsert(a),
           sess[job[a].sid] = NoSession, job[a].srow.status = Meant(job[a].srow)
    PROVE  TablesStep
<1>0. /\ WellFormed(job[a]) /\ StartAlone(a) /\ StartActive(a) /\ RemovalOrder(a)
      /\ UNCHANGED <<repo, slots>> /\ At(a, "start.insert")
  BY DEF TypeInv, Exclusive, Occupancy, Holding, StartInsert
<1>1. PICK x \in Sessions, r \in SessionRow, s \in Slots, ro \in BOOLEAN,
           status \in SessionStatuses :
        /\ x = job[a].sid /\ r = job[a].srow /\ s = job[a].slot /\ ro = r.ro
        /\ r.slot = s /\ status = r.status
  BY <1>0 DEF WellFormed, StartSteps, At, SessionRow
<1>2. /\ repo /\ slots[s].status = "active" /\ sess[x] = NoSession
      /\ status \in {"prepared", "running"}
  BY <1>0, <1>1 DEF At, StartSteps, StartActive, RemovalOrder, Meant
<1>3. ro \/ WritersOn(s) = {}
  BY <1>0, <1>1, <1>2 DEF At, StartAlone, WritersOn, PendingOn, Pending, NoSession
<1>4. ro \/ \A y \in PendingOn(s) : sess[y].ro
  BY <1>3 DEF WritersOn
<1>5. PICK row : row = Seen(r)
  OBVIOUS
<1>6. Tables!ChangeSession(x, row)
  BY <1>0, <1>1, <1>5, StoredSeen DEF StartInsert
<1>7. row = Tables!Row(s, ro, status)
  BY <1>1, <1>2, <1>5 DEF Seen, Tables!Row, NoSession
<1>8. ro \/ \A y \in Tables!LiveOn(s) : Seen(sess[y]).ro
  BY <1>4, FreeSlot, SeenRow DEF PendingOn, Pending
<1>9. Tables!Start(x, s, ro)
  BY <1>2, <1>6, <1>7, <1>8
  DEF Tables!Start, Tables!Live, Tables!LiveOn, Tables!Absent, Seen, NoSession
<1> QED
  BY <1>9 DEF TablesStep, Tables!Next

LEMMA ForgetStep ==
    ASSUME TypeInv, NEW a \in Actors, NEW x \in Sessions, DeleteSession(a, x)
    PROVE  TablesStep
<1>1. PICK row : row = Seen(NoSession)
  OBVIOUS
<1>2. Tables!ChangeSession(x, row)
  BY <1>1, StoredSeen DEF DeleteSession
<1>3. Tables!Forget(x)
  BY <1>1, <1>2, SeenRow DEF DeleteSession, Tables!Forget, Tables!Ended, Terminal, Seen,
     Tables!Absent, NoSession
<1> QED
  BY <1>3 DEF TablesStep, Tables!Next

\* But for the rows that are ended or put, a step takes effect when the slots
\* that were read are still what the table says.
LEMMA TablesSteps ==
    ASSUME TypeInv, Exclusive, Occupancy, SlotsAgreed, [Next]_vars
    PROVE  \/ TablesStep
           \/ \E a \in Actors :
                SyncPut(a) \/ CancelPut(a) \/ StartPut(a) \/ StartFail(a) \/ StartInsert(a)
<1>1. ASSUME UNCHANGED <<repo, slots, sess>> PROVE TablesStep
  BY <1>1, SameTables DEF TablesStep
<1>2. ASSUME NEW a \in Actors, Poll(a) \/ Command(a) PROVE TablesStep
  <2>1. CASE \/ Poll(a) \/ RepoRemove(a) \/ Prune(a) \/ Review(a)
             \/ \E t \in Tasks, strat \in Strategies : Acquire(a, t, strat)
             \/ \E s \in Slots : Release(a, s) \/ Delete(a, s) \/ Refresh(a, s)
             \/ \E s \in Slots, ro \in BOOLEAN, mode \in Modes : Start(a, s, ro, mode)
             \/ \E x \in Sessions : Cancel(a, x)
    BY <1>1, <2>1, Zenon
    DEF Poll, RepoRemove, Prune, Review, Acquire, Release, Delete, Refresh, Start, Cancel
  <2> QED
    BY <1>2, <2>1, RemovalSteps, ForgetStep DEF Command
<1>3. ASSUME NEW a \in Actors, Step(a),
             ~(SyncPut(a) \/ CancelPut(a) \/ StartPut(a) \/ StartFail(a) \/ StartInsert(a))
      PROVE  TablesStep
  <2>1. CASE RemoveSessions(a) \/ RemoveSlots(a) \/ RemoveRepo(a)
    BY <2>1, RemovalSteps
  <2>2. CASE AcquirePut(a) \/ ReleasePut(a) \/ DeleteRow(a) \/ WriteBack(a) \/ StartRefresh(a)
    BY <2>2, SlotSteps, RewriteSteps, Zenon
  <2>3. CASE \/ SyncList(a) \/ SyncCheck(a) \/ AcquireReuse(a) \/ AcquireCreate(a)
             \/ ReleaseCheck(a) \/ ReleaseGit(a) \/ PruneList(a) \/ DeleteGet(a)
             \/ DeleteCheck(a) \/ DeleteGit(a)
    BY <1>1, <2>3, Zenon
    DEF SyncList, SyncCheck, AcquireReuse, AcquireCreate, ReleaseCheck, ReleaseGit, PruneList,
        DeleteGet, DeleteCheck, DeleteGit
  <2>4. CASE \/ RefreshGit(a) \/ ReviewList(a) \/ StartCheck(a) \/ StartLaunch(a)
             \/ StartWait(a) \/ GitFails(a)
    BY <1>1, <2>4 DEF RefreshGit, ReviewList, StartCheck, StartLaunch, StartWait, GitFails
  <2> QED
    BY <1>3, <2>1, <2>2, <2>3, <2>4 DEF Step
<1>4. World \/ UNCHANGED vars => UNCHANGED <<repo, slots, sess>>
  BY DEF World, Exit, Edit, Commit, Lose, Crash, vars
<1> QED
  BY <1>1, <1>2, <1>3, <1>4 DEF Next

LEMMA TablesNext ==
    ASSUME IInv, Tracked, Agreed, [Next]_vars PROVE TablesStep
<1>0. TypeInv /\ Control /\ Exclusive /\ Occupancy /\ SlotsAgreed
  BY DEF IInv, Agreed
<1>1. ASSUME NEW a \in Actors, StartInsert(a) PROVE TablesStep
  <2>1. sess[job[a].sid] = NoSession /\ job[a].srow.status = Meant(job[a].srow)
    BY <1>1 DEF StartInsert, At, Tracked, Tracking, Starting
  <2> QED
    BY <1>0, <1>1, <2>1, StartStep
<1> QED
  BY <1>0, <1>1, EndSteps, TablesSteps

\* For a single caller every command is atomic: whatever it does on disk, to
\* agents and to its own records, and wherever it fails or crashes, it changes
\* the tables at one moment, and what they hold at that moment allows it.
THEOREM CommandsAreAtomic ==
    ASSUME OneActor
    PROVE  Spec => ImplementsTables
<1>1. Init => Tables!Init
  BY DEF Init, Tables!Init, Seen, Tables!Absent, NoSlot, NoSession
<1>2. IInv /\ Tracked /\ Agreed /\ [Next]_vars => [Tables!Next]_(Tables!vars)
  BY TablesNext DEF TablesStep
<1> QED
  BY <1>1, <1>2, AgreedInv, PTL DEF Spec, ImplementsTables, Tables!Spec

-----------------------------------------------------------------------------
(* One mutator beside watchers: what the records that are read and stored  *)
(* later still have in common with the tables                              *)

\* Steps with listed sessions still to look at, and with a row to be stored.
Listing == {"sync.check", "sync.put"}
RowHeld == StartSteps \cup {"sync.put", "cancel.put"}

\* An actor holds a record of session x.
Refers(a, x) ==
    \/ job[a].pc \in Listing /\ \E p \in job[a].todo : p.id = x
    \/ job[a].pc \in RowHeld /\ job[a].sid = x

\* Every record of a session, stored or held, has the slot and the access of
\* its first.
Same(r, q) == r.slot = q.slot /\ r.ro = q.ro
Firsts == [Sessions -> SessionRow \cup {NoSession}]
Stored(f) == \A x \in Sessions : sess[x] # NoSession => Same(sess[x], f[x])
Held(f, a) ==
    /\ job[a].pc \in Listing => \A p \in job[a].todo : Same(p.row, f[p.id])
    /\ job[a].pc \in RowHeld => Same(job[a].srow, f[job[a].sid])
Faithful(f) == Stored(f) /\ \A a \in Actors : Held(f, a)

\* A session that is being started is not known to anyone else.
Early == {"start.refresh", "start.check", "start.insert"}
Fresh(a) ==
    job[a].pc \in Early =>
        /\ sess[job[a].sid] = NoSession /\ job[a].srow.status = Meant(job[a].srow)
        /\ \A b \in Actors \ {a} : ~Refers(b, job[a].sid)

\* Once its row is stored it stays, though a snapshot may end it.
Launched(a) ==
    LET old == sess[job[a].sid].status
        new == job[a].srow.status
    IN job[a].pc \in {"start.launch", "start.wait", "start.put", "start.fail"} =>
        \/ job[a].pc = "start.put" /\ old = "prepared" /\ new = "prepared"
        \/ old \in {"running"} \cup Terminal /\ new \in {"running"} \cup Terminal

Cancelling(a) ==
    job[a].pc = "cancel.put" =>
        sess[job[a].sid] # NoSession /\ job[a].srow.status = "cancelled"

\* What a sync looks at has run.
Ran(a) ==
    /\ job[a].pc \in Listing => \A p \in job[a].todo : sess[p.id].status # "prepared"
    /\ job[a].pc = "sync.put" =>
         sess[job[a].sid].status # "prepared" /\ job[a].srow.status \in {"completed", "failed"}

Kept(a) == Fresh(a) /\ Launched(a) /\ Cancelling(a) /\ Ran(a)

Watched == (\E f \in Firsts : Faithful(f)) /\ \A a \in Actors : Kept(a)

LEMMA InitWatched == Init => Watched
<1> SUFFICES ASSUME Init PROVE Watched
  OBVIOUS
<1>1. \A a \in Actors : job[a].pc = "idle"
  BY DEF Init, IdleJob
<1>2. sess \in Firsts /\ Faithful(sess)
  BY <1>1 DEF Init, Firsts, Faithful, Stored, Held, Listing, RowHeld, StartSteps
<1>3. \A a \in Actors : Kept(a)
  BY <1>1 DEF Kept, Fresh, Early, Launched, Cancelling, Ran, Listing
<1> QED
  BY <1>2, <1>3 DEF Watched

\* Steps of which Watched says nothing of the actor itself.
Off == Steps \ (Listing \cup RowHeld)

LEMMA OffKept ==
    ASSUME NEW a \in Actors, job'[a].pc \in Off
    PROVE  /\ Kept(a)' /\ \A f : Held(f, a)'
           /\ \A x : ~Refers(a, x)'
  BY DEF Off, Listing, RowHeld, StartSteps, Kept, Fresh, Early, Launched, Cancelling, Ran,
         Held, Refers

\* Where a sync goes and what it takes with it.
LEMMA SyncTakes ==
    ASSUME TypeInv, NEW a \in Actors, SyncList(a) \/ SyncCheck(a) \/ SyncPut(a)
    PROVE  \/ job'[a].pc \in Off
           \/ /\ job'[a].pc = "sync.check" /\ SyncList(a)
              /\ \A p \in job'[a].todo : /\ p.id \in Sessions /\ p.row = sess[p.id]
                                         /\ p.row.status = "running"
           \/ /\ job'[a].pc = "sync.check" /\ job[a].pc \in Listing
              /\ job'[a].todo \subseteq job[a].todo
           \/ /\ job'[a].pc = "sync.put" /\ At(a, "sync.check") /\ UNCHANGED sess
              /\ job'[a].todo \subseteq job[a].todo
              /\ \E p \in job[a].todo, st \in {"completed", "failed"} :
                   job'[a].sid = p.id /\ job'[a].srow = [p.row EXCEPT !.status = st]
<1>0. job[a] \in Job
  BY DEF TypeInv, TypeOK
<1>1. ASSUME NEW rest, Resume(a, rest), job[a].pc \in SyncSteps
      PROVE  job'[a].pc \in Off \/ (job'[a].pc = "sync.check" /\ job'[a].todo = rest)
  <2>1. CASE Finish(a)
    <3>1. job'[a] = IdleJob
      BY <2>1, Moved DEF Finish
    <3> QED
      BY <3>1 DEF IdleJob, Off, Steps, Listing, RowHeld, StartSteps, SyncSteps
  <2>2. CASE Set(a, [job[a] EXCEPT !.pc = "sync.check", !.todo = rest,
                                   !.sid = "none", !.srow = NoSession])
    <3>1. job'[a] = [job[a] EXCEPT !.pc = "sync.check", !.todo = rest,
                                   !.sid = "none", !.srow = NoSession]
      BY <2>2, Moved
    <3> QED
      BY <1>0, <3>1 DEF Job
  <2>3. CASE Set(a, [job[a] EXCEPT !.pc = job[a].ret, !.ret = "idle", !.todo = {},
                                   !.sid = "none", !.srow = NoSession])
    <3>1. job'[a] = [job[a] EXCEPT !.pc = job[a].ret, !.ret = "idle", !.todo = {},
                                   !.sid = "none", !.srow = NoSession]
      BY <2>3, Moved
    <3>2. job'[a].pc = job[a].ret
      BY <1>0, <3>1 DEF Job
    <3> QED
      BY <1>0, <3>2 DEF Job, Off, Steps, Listing, RowHeld, StartSteps, SyncSteps
  <2> QED
    BY <1>1, <2>1, <2>2, <2>3 DEF Resume
<1>2. CASE SyncList(a)
  <2>1. PICK rest : /\ rest = {[id |-> x, row |-> sess[x]] :
                                 x \in {y \in Sessions : sess[y].status = "running"}}
                    /\ Resume(a, rest)
    BY <1>2 DEF SyncList
  <2>2. \A p \in rest : p.id \in Sessions /\ p.row = sess[p.id] /\ p.row.status = "running"
    BY <2>1
  <2>3. job'[a].pc \in Off \/ (job'[a].pc = "sync.check" /\ job'[a].todo = rest)
    BY <1>1, <1>2, <2>1 DEF SyncList, At, SyncSteps
  <2> QED
    BY <1>2, <2>2, <2>3
<1>3. CASE SyncCheck(a)
  <2>0. At(a, "sync.check") /\ UNCHANGED sess /\ job[a].pc \in SyncSteps \cap Listing
    BY <1>3 DEF SyncCheck, At, SyncSteps, Listing
  <2>1. PICK p \in job[a].todo :
          \/ Resume(a, job[a].todo \ {p})
          \/ \E st \in {"completed", "failed"} :
               Set(a, [job[a] EXCEPT !.pc = "sync.put", !.todo = @ \ {p}, !.sid = p.id,
                                     !.srow = [p.row EXCEPT !.status = st]])
    BY <1>3, Zenon DEF SyncCheck, Verdict
  <2>2. CASE Resume(a, job[a].todo \ {p})
    BY <1>1, <2>0, <2>2
  <2>3. ASSUME NEW st \in {"completed", "failed"},
               Set(a, [job[a] EXCEPT !.pc = "sync.put", !.todo = @ \ {p}, !.sid = p.id,
                                     !.srow = [p.row EXCEPT !.status = st]])
        PROVE  /\ job'[a].pc = "sync.put" /\ job'[a].todo \subseteq job[a].todo
               /\ job'[a].sid = p.id /\ job'[a].srow = [p.row EXCEPT !.status = st]
    <3>1. job'[a] = [job[a] EXCEPT !.pc = "sync.put", !.todo = @ \ {p}, !.sid = p.id,
                                   !.srow = [p.row EXCEPT !.status = st]]
      BY <2>3, Moved
    <3> QED
      BY <1>0, <3>1 DEF Job
  <2> QED
    BY <2>0, <2>1, <2>2, <2>3
<1>4. CASE SyncPut(a)
  <2>1. Resume(a, job[a].todo) /\ job[a].pc \in SyncSteps \cap Listing
    BY <1>4 DEF SyncPut, At, SyncSteps, Listing
  <2> QED
    BY <1>1, <2>1
<1> QED
  BY <1>2, <1>3, <1>4

-----------------------------------------------------------------------------
(* What a step does to the rows                                            *)

\* A row that is put is the one the actor holds.
LEMMA HeldRow ==
    ASSUME TypeInv, NEW a \in Actors,
           SyncPut(a) \/ CancelPut(a) \/ StartPut(a) \/ StartInsert(a)
    PROVE  /\ job[a].sid \in Sessions /\ job[a].srow \in SessionRow /\ job[a].pc \in RowHeld
           /\ sess' = [sess EXCEPT ![job[a].sid] = job[a].srow]
  BY DEF SyncPut, CancelPut, StartPut, StartInsert, At, TypeInv, WellFormed, StartSteps, RowHeld

LEMMA StoredStep ==
    ASSUME TypeInv, NEW f, Stored(f), NEW a \in Actors, Held(f, a), ActsNow(a)
    PROVE  Stored(f)'
<1>0. sess \in [Sessions -> SessionRow \cup {NoSession}]
  BY DEF TypeInv, TypeOK
<1>1. CASE UNCHANGED sess
  BY <1>1 DEF Stored
<1>2. CASE SyncPut(a) \/ CancelPut(a) \/ StartPut(a) \/ StartInsert(a)
  BY <1>0, <1>2, HeldRow DEF Stored, Held
<1>3. CASE StartFail(a)
  <2>1. \A y \in Sessions : sess'[y] # NoSession =>
            sess[y] # NoSession /\ Same(sess'[y], sess[y])
    BY <1>0, <1>3 DEF StartFail, Same, SessionRow, NoSession
  <2> QED
    BY <2>1 DEF Stored, Same
<1>4. CASE RemoveSessions(a) \/ \E x \in Sessions : DeleteSession(a, x)
  BY <1>0, <1>4 DEF RemoveSessions, DeleteSession, Stored
<1> QED
  BY <1>1, <1>2, <1>3, <1>4, RowsOfActor

\* Only the insertion of a row prepares a session.
LEMMA NonePrepared ==
    ASSUME TypeInv, NEW a \in Actors, Kept(a), ActsNow(a), NEW x \in Sessions,
           sess'[x].status = "prepared", sess[x].status # "prepared"
    PROVE  job[a].pc = "start.insert" /\ x = job[a].sid
<1>0. sess \in [Sessions -> SessionRow \cup {NoSession}]
  BY DEF TypeInv, TypeOK
<1>1. ~(SyncPut(a) \/ CancelPut(a) \/ StartPut(a))
  <2>1. ASSUME SyncPut(a) \/ CancelPut(a) \/ StartPut(a) PROVE FALSE
    <3>1. x = job[a].sid /\ job[a].srow.status = "prepared"
      BY <1>0, <2>1, HeldRow
    <3> QED
      BY <2>1, <3>1
      DEF SyncPut, CancelPut, StartPut, At, Kept, Launched, Cancelling, Ran, Terminal
  <2> QED
    BY <2>1
<1>2. ~StartFail(a)
  BY <1>0 DEF StartFail, SessionRow, NoSession
<1>3. ~(RemoveSessions(a) \/ \E y \in Sessions : DeleteSession(a, y))
  BY <1>0 DEF RemoveSessions, DeleteSession, NoSession
<1>4. StartInsert(a)
  BY <1>1, <1>2, <1>3, RowsOfActor
<1> QED
  BY <1>0, <1>4, HeldRow DEF StartInsert, At

-----------------------------------------------------------------------------
(* What a step leaves of the other actors' records                         *)

\* What was looked at by one has not become prepared through another.
LEMMA OthersRan ==
    ASSUME TypeInv, NEW a \in Actors, Kept(a), ActsNow(a),
           NEW b \in Actors \ {a}, Kept(b), job'[b] = job[b]
    PROVE  Ran(b)'
<1>1. job[b] \in Job /\ (job[b].pc = "sync.put" => job[b].sid \in Sessions)
  BY DEF TypeInv, TypeOK, WellFormed
<1>2. ASSUME NEW x \in Sessions, Refers(b, x), sess[x].status # "prepared"
      PROVE  sess'[x].status # "prepared"
  BY <1>2, NonePrepared DEF Kept, Fresh, Early
<1>3. ASSUME job[b].pc \in Listing, NEW p \in job[b].todo
      PROVE  p.id \in Sessions /\ Refers(b, p.id) /\ sess[p.id].status # "prepared"
  BY <1>1, <1>3 DEF Job, Refers, Kept, Ran
<1>4. job[b].pc = "sync.put" =>
        Refers(b, job[b].sid) /\ sess[job[b].sid].status # "prepared"
        /\ job[b].srow.status \in {"completed", "failed"}
  BY SMTT(60) DEF Refers, RowHeld, Kept, Ran
<1> QED
  BY <1>1, <1>2, <1>3, <1>4 DEF Ran

\* A watcher ends sessions that are known to it and have run.
LEMMA WatcherStores ==
    ASSUME TypeInv, Control, NEW a \in Actors \ Mutators, Kept(a), ActsNow(a),
           NEW x \in Sessions
    PROVE  \/ sess'[x] = sess[x]
           \/ /\ Refers(a, x) /\ sess[x].status # "prepared"
              /\ sess'[x] # NoSession /\ sess'[x].status \in Terminal
<1>1. CASE SyncPut(a)
  <2>1. /\ sess' = [sess EXCEPT ![job[a].sid] = job[a].srow] /\ job[a].srow \in SessionRow
        /\ job[a].pc = "sync.put"
    BY <1>1, HeldRow DEF SyncPut, At
  <2>2. job[a].srow.status \in Terminal /\ job[a].srow # NoSession
    BY <2>1 DEF Kept, Ran, Terminal, NoSession
  <2> QED
    BY <2>1, <2>2 DEF TypeInv, TypeOK, Refers, RowHeld, Kept, Ran
<1> QED
  BY <1>1, WatcherSteps DEF Poll, Crash, SyncList, SyncCheck

LEMMA WatcherRefers ==
    ASSUME TypeInv, Control, NEW a \in Actors \ Mutators, ActsNow(a),
           NEW x \in Sessions, Refers(a, x)'
    PROVE  Refers(a, x) \/ sess[x].status = "running"
<1>1. CASE SyncList(a) \/ SyncCheck(a) \/ SyncPut(a)
  <2>1. job'[a].pc \notin Off
    BY OffKept
  <2>2. CASE job'[a].pc = "sync.check"
    <3>1. \A p \in job'[a].todo : Refers(a, p.id) \/ sess[p.id].status = "running"
      BY <1>1, <2>1, <2>2, SyncTakes DEF Refers
    <3> QED
      BY <2>2, <3>1 DEF Refers, RowHeld, StartSteps
  <2>3. CASE job'[a].pc = "sync.put" /\ At(a, "sync.check")
    <3>1. job'[a].todo \subseteq job[a].todo /\ \E p \in job[a].todo : job'[a].sid = p.id
      BY <1>1, <2>1, <2>3, SyncTakes
    <3> QED
      BY <2>3, <3>1 DEF Refers, At, Listing
  <2> QED
    BY <1>1, <2>1, <2>2, <2>3, SyncTakes
<1>2. CASE Crash(a)
  <2>1. job'[a] = IdleJob
    BY <1>2, Moved DEF Crash, Finish
  <2> QED
    BY <2>1 DEF IdleJob, Refers, Listing, RowHeld, StartSteps
<1>3. CASE Poll(a)
  <2>1. job'[a] = [IdleJob EXCEPT !.pc = "sync.list"]
    BY <1>3, Moved DEF Poll
  <2> QED
    BY <2>1 DEF IdleJob, Refers, Listing, RowHeld, StartSteps
<1> QED
  BY <1>1, <1>2, <1>3, WatcherSteps

\* So everybody else's records remain what they were.
LEMMA OthersKept ==
    ASSUME SingleMutator, TypeInv, Control, NEW a \in Actors, ActsNow(a),
           \A b \in Actors : Kept(b), NEW b \in Actors \ {a}
    PROVE  Kept(b)'
<1>0. \A c \in Actors \ {a} : job'[c] = job[c]
  BY OnlyOwnJob
<1>1. Ran(b)'
  BY <1>0, OthersRan
<1>2. CASE b \notin Mutators
  <2>1. Watching(b)'
    BY <1>0, <1>2 DEF Control, Watching
  <2> QED
    BY <1>1, <2>1 DEF Kept, Watching, SyncSteps, Fresh, Early, Launched, Cancelling
<1>3. CASE b \in Mutators
  <2>0. a \in Actors \ Mutators
    BY <1>3 DEF SingleMutator
  <2>1. Fresh(b)'
    <3>1. ASSUME job[b].pc \in Early
          PROVE  \E x \in Sessions :
                    /\ x = job[b].sid /\ sess'[x] = NoSession
                    /\ \A c \in Actors \ {b} : ~Refers(c, x)'
      <4>1. PICK x \in Sessions :
              /\ x = job[b].sid /\ sess[x] = NoSession
              /\ \A c \in Actors \ {b} : ~Refers(c, x)
        BY <3>1 DEF Kept, Fresh, TypeInv, WellFormed, Early, StartSteps
      <4>2. sess'[x] = NoSession
        BY <2>0, <4>1, WatcherStores
      <4>3. ~Refers(a, x)'
        BY <2>0, <4>1, WatcherRefers DEF NoSession
      <4>4. \A c \in Actors \ {a, b} : ~Refers(c, x)'
        BY <1>0, <4>1 DEF Refers
      <4> QED
        BY <4>1, <4>2, <4>3, <4>4
    <3> QED
      BY <1>0, <3>1 DEF Fresh, Kept
  <2>2. Launched(b)' /\ Cancelling(b)'
    <3>1. ASSUME job[b].pc \in RowHeld PROVE job[b].sid \in Sessions
      BY <3>1 DEF RowHeld, TypeInv, WellFormed
    <3>2. CASE job[b].pc \notin RowHeld
      BY <1>0, <3>2 DEF RowHeld, StartSteps, Launched, Cancelling
    <3>3. CASE job[b].pc \in RowHeld
      <4>1. \/ sess'[job[b].sid] = sess[job[b].sid]
            \/ /\ sess[job[b].sid].status # "prepared"
               /\ sess'[job[b].sid] # NoSession /\ sess'[job[b].sid].status \in Terminal
        BY <2>0, <3>1, <3>3, WatcherStores
      <4> QED
        BY <1>0, <4>1 DEF Launched, Cancelling, Kept
    <3> QED
      BY <3>2, <3>3
  <2> QED
    BY <1>1, <2>1, <2>2 DEF Kept
<1> QED
  BY <1>2, <1>3

-----------------------------------------------------------------------------
(* What a step leaves of the actor's own records                           *)

LEMMA OffSteps ==
    ASSUME TypeInv, NEW a \in Actors, ActsNow(a)
    PROVE  \/ job'[a].pc \in Off
           \/ SyncList(a) \/ SyncCheck(a) \/ SyncPut(a)
           \/ StartRefresh(a) \/ StartCheck(a) \/ StartInsert(a) \/ StartLaunch(a) \/ StartWait(a)
           \/ \E x \in Sessions : Cancel(a, x)
           \/ \E s \in Slots, ro \in BOOLEAN, mode \in Modes : Start(a, s, ro, mode)
<1>0. /\ Rest \subseteq Off
      /\ {"remove.slots", "release.git", "delete.git", "delete.row"} \subseteq Off
  BY DEF Rest, Off, Steps, Listing, RowHeld, StartSteps, SyncSteps
<1>1. ASSUME Finish(a) \/ \E pc \in Off : Goto(a, pc) PROVE job'[a].pc \in Off
  BY <1>0, <1>1, FinishRests, GoneTo
<1>2. CASE RemoveSessions(a) \/ DeleteCheck(a)
  BY <1>0, <1>1, <1>2, FinishRests DEF RemoveSessions, DeleteCheck
<1>3. CASE ReleaseCheck(a)
  <2> DEFINE s == job[a].slot
  <2>1. CASE Set(a, [job[a] EXCEPT !.pc = "release.git", !.copy[s] = Refreshed(@, s)])
    <3>1. job'[a] = [job[a] EXCEPT !.pc = "release.git", !.copy[s] = Refreshed(@, s)]
      BY <2>1, Moved
    <3> QED
      BY <1>0, <3>1 DEF TypeInv, TypeOK, Job
  <2> QED
    BY <1>1, <1>3, <2>1 DEF ReleaseCheck
<1>4. CASE CancelPut(a) \/ StartPut(a) \/ StartFail(a)
  BY <1>1, <1>4 DEF CancelPut, StartPut, StartFail
<1>5. ASSUME NEW x \in Sessions, DeleteSession(a, x) PROVE job'[a].pc \in Off
  BY <1>5 DEF DeleteSession, Ready, Idle, At, Off, Steps, Listing, RowHeld, StartSteps, SyncSteps
<1>6. CASE Poll(a) \/ Command(a)
  BY <1>0, <1>5, <1>6, BeginRests DEF Command
<1>7. CASE Step(a) \/ Crash(a)
  BY <1>0, <1>2, <1>3, <1>4, <1>7, StepRests DEF Step
<1> QED
  BY <1>6, <1>7 DEF ActsNow

LEMMA SyncKept ==
    ASSUME TypeInv, NEW a \in Actors, NEW f, Stored(f), Held(f, a), Kept(a),
           SyncList(a) \/ SyncCheck(a) \/ SyncPut(a)
    PROVE  Held(f, a)' /\ Kept(a)'
<1>0. job[a] \in Job /\ ActsNow(a)
  BY DEF TypeInv, TypeOK, ActsNow, Step
<1>1. CASE job'[a].pc \in Off
  BY <1>1, OffKept
<1>2. ASSUME job'[a].pc \in Listing,
             \A p \in job'[a].todo : /\ p.id \in Sessions /\ Same(p.row, f[p.id])
                                     /\ sess[p.id].status # "prepared"
      PROVE  /\ \A p \in job'[a].todo : Same(p.row, f[p.id])
             /\ \A p \in job'[a].todo : sess'[p.id].status # "prepared"
  <2>1. job[a].pc # "start.insert"
    BY DEF SyncList, SyncCheck, SyncPut, At
  <2> QED
    BY <1>0, <1>2, <2>1, NonePrepared, ZenonT(60)
<1>3. CASE job'[a].pc = "sync.check"
  <2>1. \A p \in job'[a].todo : /\ p.id \in Sessions /\ Same(p.row, f[p.id])
                                /\ sess[p.id].status # "prepared"
    <3>1. CASE SyncList(a) /\ \A p \in job'[a].todo : /\ p.id \in Sessions /\ p.row = sess[p.id]
                                                      /\ p.row.status = "running"
      BY <3>1 DEF Stored, NoSession
    <3>2. CASE job[a].pc \in Listing /\ job'[a].todo \subseteq job[a].todo
      BY <1>0, <3>2 DEF Held, Kept, Ran, Job
    <3> QED
      BY <1>3, <3>1, <3>2, SyncTakes DEF Off, Listing
  <2>2. /\ \A p \in job'[a].todo : Same(p.row, f[p.id])
        /\ \A p \in job'[a].todo : sess'[p.id].status # "prepared"
    BY <1>2, <1>3, <2>1 DEF Listing
  <2> QED
    BY <1>3, <2>2 DEF Held, Kept, Fresh, Early, Launched, Cancelling, Ran, RowHeld, StartSteps
<1>4. CASE job'[a].pc = "sync.put"
  <2>1. /\ At(a, "sync.check") /\ UNCHANGED sess /\ job'[a].todo \subseteq job[a].todo
        /\ \E p \in job[a].todo, st \in {"completed", "failed"} :
             job'[a].sid = p.id /\ job'[a].srow = [p.row EXCEPT !.status = st]
    BY <1>4, SyncTakes DEF Off, Listing
  <2>2. PICK p \in job[a].todo, st \in {"completed", "failed"} :
             job'[a].sid = p.id /\ job'[a].srow = [p.row EXCEPT !.status = st]
    BY <2>1
  <2>3. \A q \in job[a].todo : /\ q.id \in Sessions /\ q.row \in SessionRow
                               /\ Same(q.row, f[q.id]) /\ sess[q.id].status # "prepared"
    BY <1>0, <2>1 DEF At, Listing, Held, Kept, Ran, Job
  <2>4. Same(job'[a].srow, p.row) /\ job'[a].srow.status = st
    BY <2>2, <2>3 DEF Same, SessionRow
  <2>5. Held(f, a)'
    BY <1>4, <2>1, <2>2, <2>3, <2>4 DEF Held, Same
  <2>6. Ran(a)'
    BY <1>4, <2>1, <2>2, <2>3, <2>4 DEF Ran
  <2> QED
    BY <1>4, <2>5, <2>6 DEF Kept, Fresh, Early, Launched, Cancelling
<1> QED
  BY <1>1, <1>3, <1>4, SyncTakes

LEMMA CancelKept ==
    ASSUME TypeInv, NEW a \in Actors, NEW f, Stored(f), NEW x \in Sessions, Cancel(a, x)
    PROVE  Held(f, a)' /\ Kept(a)'
<1>1. job'[a] = [IdleJob EXCEPT !.pc = "cancel.put", !.sid = x,
                                !.srow = [sess[x] EXCEPT !.status = "cancelled"]]
  BY Moved DEF Cancel
<1>2. /\ job'[a].pc = "cancel.put" /\ job'[a].sid = x
      /\ job'[a].srow = [sess[x] EXCEPT !.status = "cancelled"]
  BY <1>1 DEF IdleJob
<1>3. sess[x] \in SessionRow /\ sess[x] # NoSession /\ UNCHANGED sess
  BY DEF Cancel, Pending, TypeInv, TypeOK, NoSession
<1>4. Same(job'[a].srow, sess[x]) /\ job'[a].srow.status = "cancelled"
  BY <1>2, <1>3 DEF SessionRow, Same
<1>5. Held(f, a)'
  BY <1>2, <1>3, <1>4 DEF Held, Stored, Same, Listing
<1> QED
  BY <1>2, <1>3, <1>4, <1>5 DEF Kept, Fresh, Early, Launched, Cancelling, Ran, Listing

\* Until its row is inserted a start only moves on, or ends.
LEMMA EarlyKept ==
    ASSUME TypeInv, NEW a \in Actors, NEW f, Held(f, a), Kept(a),
           \A b \in Actors \ {a} : job'[b] = job[b], StartRefresh(a) \/ StartCheck(a)
    PROVE  Held(f, a)' /\ Kept(a)'
<1>0. job[a] \in Job /\ job[a].pc \in Early /\ UNCHANGED sess
  BY DEF StartRefresh, StartCheck, At, TypeInv, TypeOK, Early
<1>1. ASSUME job'[a].pc \in Early, job'[a].sid = job[a].sid, job'[a].srow = job[a].srow
      PROVE  Held(f, a)' /\ Kept(a)'
  <2>1. Held(f, a)'
    BY <1>0, <1>1 DEF Held, Early, RowHeld, StartSteps, Listing
  <2>2. Fresh(a)'
    BY <1>0, <1>1 DEF Kept, Fresh, Meant, Refers
  <2> QED
    BY <1>1, <2>1, <2>2 DEF Kept, Early, Launched, Cancelling, Ran, Listing
<1>2. CASE Finish(a)
  <2>1. job'[a].pc \in Off
    BY <1>2, FinishRests DEF Rest, Off, Steps, Listing, RowHeld, StartSteps, SyncSteps
  <2> QED
    BY <2>1, OffKept
<1>3. CASE Set(a, [job[a] EXCEPT !.pc = "start.check", !.copy[job[a].slot] = NoSlot])
  <2>1. job'[a] = [job[a] EXCEPT !.pc = "start.check", !.copy[job[a].slot] = NoSlot]
    BY <1>3, Moved
  <2>2. /\ job'[a].pc = "start.check" /\ job'[a].sid = job[a].sid
        /\ job'[a].srow = job[a].srow
    BY <1>0, <2>1 DEF Job
  <2> QED
    BY <1>1, <2>2 DEF Early
<1>4. CASE Goto(a, "start.insert")
  BY <1>1, <1>4, GoneTo DEF Early
<1> QED
  BY <1>2, <1>3, <1>4 DEF StartRefresh, StartCheck

\* Then the actor goes on with the row it has stored.
LEMMA LaunchKept ==
    ASSUME TypeInv, NEW a \in Actors, NEW f, Held(f, a), Kept(a),
           StartInsert(a) \/ StartLaunch(a) \/ StartWait(a)
    PROVE  Held(f, a)' /\ Kept(a)'
<1> DEFINE x == job[a].sid
           r == job[a].srow
           late == {"start.launch", "start.wait", "start.put", "start.fail"}
<1>0. /\ job[a] \in Job /\ x \in Sessions /\ r \in SessionRow /\ Same(r, f[x])
      /\ sess \in [Sessions -> SessionRow \cup {NoSession}]
  BY DEF TypeInv, TypeOK, WellFormed, StartSteps, RowHeld, Held, StartInsert, StartLaunch,
         StartWait, At
<1>1. ASSUME job'[a].pc \in late, job'[a].sid = x, Same(job'[a].srow, r), Launched(a)'
      PROVE  Held(f, a)' /\ Kept(a)'
  <2>1. Held(f, a)'
    BY <1>0, <1>1 DEF Held, Same, Listing
  <2> QED
    BY <1>1, <2>1 DEF Kept, Fresh, Early, Cancelling, Ran, Listing
<1>2. CASE StartInsert(a)
  <2>1. /\ job'[a].pc = IF r.mode = "dry" THEN "start.put" ELSE "start.launch"
        /\ job'[a].sid = x /\ job'[a].srow = r
    BY <1>2, GoneTo DEF StartInsert
  <2>2. sess'[x] = r /\ r.status = Meant(r)
    BY <1>0, <1>2 DEF StartInsert, At, Kept, Fresh, Early
  <2>3. Launched(a)'
    BY <2>1, <2>2 DEF Launched, Meant
  <2> QED
    BY <1>1, <2>1, <2>3 DEF Same
<1>3. CASE StartLaunch(a)
  <2>0. /\ UNCHANGED sess /\ sess[x].status \in {"running"} \cup Terminal
        /\ r.status \in {"running"} \cup Terminal
    BY <1>3 DEF StartLaunch, At, Kept, Launched
  <2>1. ASSUME NEW pc \in {"start.put", "start.wait"},
               Set(a, [job[a] EXCEPT !.srow.started = TRUE, !.pc = pc])
        PROVE  Held(f, a)' /\ Kept(a)'
    <3>1. job'[a] = [job[a] EXCEPT !.srow.started = TRUE, !.pc = pc]
      BY <2>1, Moved
    <3>2. /\ job'[a].pc = pc /\ job'[a].sid = x
          /\ job'[a].srow = [r EXCEPT !.started = TRUE]
      BY <1>0, <3>1 DEF Job
    <3>3. Same(job'[a].srow, r) /\ job'[a].srow.status = r.status
      BY <1>0, <3>2 DEF SessionRow, Same
    <3>4. Launched(a)'
      BY <2>0, <3>2, <3>3 DEF Launched
    <3> QED
      BY <1>1, <3>2, <3>3, <3>4
  <2>2. CASE Goto(a, "start.fail")
    <3>1. job'[a].pc = "start.fail" /\ job'[a].sid = x /\ job'[a].srow = r
      BY <2>2, GoneTo
    <3>2. Launched(a)'
      BY <2>0, <3>1 DEF Launched
    <3> QED
      BY <1>1, <3>1, <3>2 DEF Same
  <2> QED
    BY <1>3, <2>1, <2>2 DEF StartLaunch
<1>4. CASE StartWait(a)
  <2>0. UNCHANGED sess /\ sess[x].status \in {"running"} \cup Terminal
    BY <1>4 DEF StartWait, At, Kept, Launched
  <2>1. PICK st \in {"completed", "failed"} :
          Set(a, [job[a] EXCEPT !.pc = "start.put", !.srow.status = st])
    BY <1>4 DEF StartWait
  <2>2. job'[a] = [job[a] EXCEPT !.pc = "start.put", !.srow.status = st]
    BY <2>1, Moved
  <2>3. /\ job'[a].pc = "start.put" /\ job'[a].sid = x
        /\ job'[a].srow = [r EXCEPT !.status = st]
    BY <1>0, <2>2 DEF Job
  <2>4. Same(job'[a].srow, r) /\ job'[a].srow.status = st
    BY <1>0, <2>3 DEF SessionRow, Same
  <2>5. Launched(a)'
    BY <2>0, <2>3, <2>4 DEF Launched, Terminal
  <2> QED
    BY <1>1, <2>3, <2>4, <2>5
<1> QED
  BY <1>2, <1>3, <1>4

\* A start draws an id that no record refers to.
LEMMA StartFirst ==
    ASSUME TypeInv, NEW a \in Actors, NEW f \in Firsts, Faithful(f),
           NEW s \in Slots, NEW ro \in BOOLEAN, NEW mode \in Modes, Start(a, s, ro, mode)
    PROVE  (\E g \in Firsts : Faithful(g)') /\ Kept(a)'
<1> DEFINE r == [slot |-> s, ro |-> ro, mode |-> mode, started |-> FALSE,
                 status |-> IF mode = "dry" THEN "prepared" ELSE "running"]
<1>1. PICK x \in Sessions :
         /\ NewSession(x)
         /\ Set(a, [IdleJob EXCEPT !.pc = "start.refresh", !.slot = s,
                                   !.copy[s] = slots[s], !.sid = x, !.srow = r])
  BY DEF Start
<1>2. /\ job'[a] = [IdleJob EXCEPT !.pc = "start.refresh", !.slot = s,
                                   !.copy[s] = slots[s], !.sid = x, !.srow = r]
      /\ \A b \in Actors \ {a} : job'[b] = job[b]
  BY <1>1, Moved
<1>3. job'[a].pc = "start.refresh" /\ job'[a].sid = x /\ job'[a].srow = r
  BY <1>2 DEF IdleJob
<1>4. UNCHANGED sess /\ sess[x] = NoSession /\ \A b \in Actors : ~Refers(b, x)
  BY <1>1 DEF Start, NewSession, Refers
<1>5. PICK g \in Firsts : g = [f EXCEPT ![x] = r]
  <2>1. r \in SessionRow
    BY DEF SessionRow, SessionStatuses
  <2> QED
    BY <2>1 DEF Firsts
<1>6. g[x] = r /\ \A y \in Sessions \ {x} : g[y] = f[y]
  BY <1>5 DEF Firsts
<1>7. Stored(g)'
  BY <1>4, <1>6 DEF Faithful, Stored
<1>8. Held(g, a)'
  BY <1>3, <1>6 DEF Held, Listing, Same
<1>9. ASSUME NEW b \in Actors \ {a} PROVE Held(g, b)'
  <2>1. /\ job'[b] = job[b] /\ Held(f, b) /\ ~Refers(b, x)
        /\ job[b].pc \in RowHeld => job[b].sid \in Sessions
        /\ job[b] \in Job
    BY <1>2, <1>4 DEF Faithful, TypeInv, TypeOK, WellFormed, RowHeld
  <2>2. job[b].pc \in Listing => \A p \in job[b].todo : p.id \in Sessions \ {x}
    BY <2>1 DEF Refers, Job
  <2>3. job[b].pc \in RowHeld => job[b].sid \in Sessions \ {x}
    BY <2>1 DEF Refers
  <2> QED
    BY <1>6, <2>1, <2>2, <2>3 DEF Held
<1>10. Faithful(g)'
  BY <1>7, <1>8, <1>9 DEF Faithful
<1>11. Fresh(a)'
  BY <1>2, <1>3, <1>4 DEF Fresh, Meant, Refers
<1>12. Kept(a)'
  BY <1>3, <1>11 DEF Kept, Launched, Cancelling, Ran, Listing
<1> QED
  BY <1>10, <1>12

LEMMA NextWatched ==
    ASSUME SingleMutator, TypeInv, Control, Watched, [Next]_vars
    PROVE  Watched'
<1>0. PICK f \in Firsts : Faithful(f)
  BY DEF Watched
<1>1. CASE UNCHANGED <<sess, job>>
  <2>1. Faithful(f)' /\ \A a \in Actors : Kept(a)'
    BY <1>0, <1>1
    DEF Watched, Faithful, Stored, Held, Kept, Fresh, Launched, Cancelling, Ran, Refers
  <2> QED
    BY <2>1 DEF Watched
<1>2. ASSUME NEW a \in Actors, ActsNow(a) PROVE Watched'
  <2>0. /\ Kept(a) /\ Stored(f) /\ Held(f, a)
        /\ \A b \in Actors \ {a} : Kept(b)' /\ job'[b] = job[b]
    BY <1>0, <1>2, OthersKept, OnlyOwnJob DEF Watched, Faithful
  <2>1. ASSUME NEW s \in Slots, NEW ro \in BOOLEAN, NEW mode \in Modes, Start(a, s, ro, mode)
        PROVE  Watched'
    BY <1>0, <2>0, <2>1, StartFirst DEF Watched
  <2>2. ASSUME Held(f, a)', Kept(a)' PROVE Watched'
    <3>1. Stored(f)'
      BY <1>2, <2>0, StoredStep
    <3>2. \A b \in Actors \ {a} : Held(f, b)'
      BY <1>0, <2>0 DEF Faithful, Held
    <3> QED
      BY <2>0, <2>2, <3>1, <3>2 DEF Watched, Faithful
  <2>3. CASE SyncList(a) \/ SyncCheck(a) \/ SyncPut(a)
    BY <2>0, <2>2, <2>3, SyncKept
  <2>4. CASE StartRefresh(a) \/ StartCheck(a) \/ StartInsert(a) \/ StartLaunch(a) \/ StartWait(a)
    BY <2>0, <2>2, <2>4, EarlyKept, LaunchKept
  <2>5. ASSUME NEW x \in Sessions, Cancel(a, x) PROVE Watched'
    BY <2>0, <2>2, <2>5, CancelKept
  <2>6. CASE job'[a].pc \in Off
    BY <2>2, <2>6, OffKept
  <2> QED
    BY <1>2, <2>1, <2>3, <2>4, <2>5, <2>6, OffSteps
<1> QED
  BY <1>1, <1>2, ActorOrWorld

LEMMA WatchedInv == SingleMutator /\ Spec => [](IInv /\ SlotsAgreed /\ Watched)
<1> SUFFICES ASSUME SingleMutator PROVE Spec => [](IInv /\ SlotsAgreed /\ Watched)
  OBVIOUS
<1>1. Init => SlotsAgreed
  BY DEF Init, SlotsAgreed, SlotAgreed, IdleJob, SyncSteps
<1>2. IInv /\ IInv' /\ SlotsAgreed /\ Watched /\ [Next]_vars => (SlotsAgreed /\ Watched)'
  BY NextSlots, NextWatched DEF IInv
<1> QED
  BY <1>1, <1>2, InitWatched, IInvAlways, PTL DEF Spec

-----------------------------------------------------------------------------
(* One mutator beside watchers: what its commands still promise            *)

WatchedStep == Tables!WatchedNext \/ UNCHANGED Tables!vars

\* What has been told of a session before stays, but for its status.
LEMMA SameStored ==
    ASSUME TypeInv, Watched, NEW a \in Actors, NEW x \in Sessions, x = job[a].sid,
           job[a].pc \in RowHeld, sess[x] # NoSession
    PROVE  Same(job[a].srow, sess[x])
  BY DEF Watched, Faithful, Stored, Held, Same

\* A row that has ended is stored over one that has ended, or is gone.
LEMMA RewrittenRow ==
    ASSUME TypeInv, UNCHANGED <<repo, slots>>, NEW x \in Sessions, NEW r \in SessionRow,
           sess' = [sess EXCEPT ![x] = r], r.status \in Terminal,
           \/ sess[x] = NoSession /\ r.status # "cancelled"
           \/ sess[x].status \in Terminal /\ Same(r, sess[x])
    PROVE  WatchedStep
<1>1. PICK s \in Slots, ro \in BOOLEAN, status \in Terminal :
        s = r.slot /\ ro = r.ro /\ status = r.status
  BY DEF SessionRow
<1>2. PICK row : row = Seen(r) /\ Tables!ChangeSession(x, row) /\ row = Tables!Row(s, ro, status)
  <2>1. r # NoSession
    BY DEF NoSession, Terminal
  <2> QED
    BY <1>1, <2>1, StoredSeen DEF Seen, Tables!Row
<1>3. PICK old : old = Seen(sess[x])
  OBVIOUS
<1>4. \/ old = Tables!Absent /\ status # "cancelled"
      \/ old # Tables!Absent /\ old.status \in Terminal /\ old.slot = s /\ old.ro = ro
  <2>1. CASE sess[x] = NoSession
    BY <1>1, <1>3, <2>1 DEF Seen, Tables!Absent, NoSession, Terminal
  <2>2. CASE sess[x] # NoSession
    BY <1>1, <1>3, <2>2 DEF Seen, Tables!Absent, NoSession, Terminal, Same
  <2> QED
    BY <2>1, <2>2
<1>5. Tables!Rewrite(x)
  BY <1>1, <1>2, <1>3, <1>4 DEF Tables!Rewrite, Tables!Ended, Terminal, Tables!Absent
<1> QED
  BY <1>5 DEF WatchedStep, Tables!WatchedNext

\* So whatever ended row an actor stores, it ends the session or rewrites it.
LEMMA PutEnded ==
    ASSUME TypeInv, Watched, NEW a \in Actors, UNCHANGED <<repo, slots>>,
           NEW x \in Sessions, NEW r \in SessionRow, x = job[a].sid, r = job[a].srow,
           sess' = [sess EXCEPT ![x] = r], r.status \in Terminal, job[a].pc \in RowHeld,
           sess[x].status # "prepared" \/ r.status = "cancelled",
           sess[x] # NoSession \/ r.status # "cancelled"
    PROVE  WatchedStep
<1>1. CASE sess[x] = NoSession
  BY <1>1, RewrittenRow
<1>2. CASE sess[x] # NoSession
  <2>1. Same(r, sess[x]) /\ sess[x] \in SessionRow
    BY <1>2, SameStored DEF TypeInv, TypeOK
  <2>2. CASE sess[x].status \in Terminal
    BY <2>1, <2>2, RewrittenRow
  <2>3. CASE sess[x].status \in {"prepared", "running"}
    <3>1. TablesStep
      BY <2>1, <2>3, EndedRow DEF Same
    <3> QED
      BY <3>1 DEF TablesStep, WatchedStep, Tables!WatchedNext
  <2> QED
    BY <2>1, <2>2, <2>3 DEF SessionRow, SessionStatuses
<1> QED
  BY <1>1, <1>2

\* The row of a launch says it is running: it was so, or it had ended.
LEMMA PutRunning ==
    ASSUME TypeInv, Exclusive, Occupancy, Watched, NEW a \in Actors, StartPut(a),
           job[a].srow.status = "running", sess[job[a].sid].status \in Terminal
    PROVE  WatchedStep
<1>0. /\ WellFormed(job[a]) /\ StartAlone(a) /\ StartActive(a) /\ RemovalOrder(a)
      /\ UNCHANGED <<repo, slots>> /\ At(a, "start.put")
  BY DEF TypeInv, Exclusive, Occupancy, Holding, StartPut
<1>1. PICK x \in Sessions, r \in SessionRow, s \in Slots :
        /\ x = job[a].sid /\ r = job[a].srow /\ s = job[a].slot /\ r.slot = s
        /\ sess' = [sess EXCEPT ![x] = r]
  BY <1>0 DEF WellFormed, StartSteps, At, StartPut
<1>2. repo /\ slots[s].status = "active"
  BY <1>0, <1>1 DEF At, StartSteps, StartActive, RemovalOrder
<1>3. sess[x] # NoSession /\ sess[x].status \in Terminal /\ r.status = "running"
  BY <1>1 DEF NoSession, Terminal
<1>4. Same(r, sess[x])
  BY <1>0, <1>1, <1>3, SameStored DEF At, RowHeld, StartSteps
<1>5. r.ro \/ \A y \in PendingOn(s) : sess[y].ro
  BY <1>0, <1>1, <1>3 DEF At, StartAlone, WritersOn, PendingOn, Pending, Terminal
<1>6. PICK old \in [slot: Slots, ro: BOOLEAN, status: SessionStatuses] : old = Seen(sess[x])
  BY <1>3 DEF Seen, SessionRow, TypeInv, TypeOK
<1>7. /\ old.slot = s /\ old.ro = r.ro /\ old.status \in Terminal
      /\ Seen(r) = [old EXCEPT !.status = "running"]
  BY <1>1, <1>3, <1>4, <1>6 DEF Seen, Same, NoSession
<1>8. PICK row : row = Seen(r) /\ Tables!ChangeSession(x, row)
  BY <1>0, <1>1, StoredSeen
<1>9. r.ro \/ \A y \in Tables!LiveOn(s) : Seen(sess[y]).ro
  BY <1>5, FreeSlot, SeenRow DEF PendingOn, Pending
<1>10. Tables!Revive(x)
  BY <1>1, <1>2, <1>6, <1>7, <1>8, <1>9
  DEF Tables!Revive, Tables!Ended, Tables!LiveOn, Tables!ChangeSession, Terminal
<1> QED
  BY <1>10 DEF WatchedStep, Tables!WatchedNext

LEMMA StoreSteps ==
    ASSUME TypeInv, Control, Exclusive, Occupancy, Watched, NEW a \in Actors,
           SyncPut(a) \/ CancelPut(a) \/ StartPut(a) \/ StartFail(a)
    PROVE  WatchedStep
<1>0. Kept(a) /\ UNCHANGED <<repo, slots>>
  BY DEF Watched, SyncPut, CancelPut, StartPut, StartFail
<1>1. ASSUME SyncPut(a) \/ CancelPut(a) \/ StartPut(a)
      PROVE  \E x \in Sessions, r \in SessionRow :
                /\ x = job[a].sid /\ r = job[a].srow /\ job[a].pc \in RowHeld
                /\ sess' = [sess EXCEPT ![x] = r]
  BY <1>1, HeldRow
<1>2. CASE SyncPut(a)
  <2>1. /\ job[a].srow.status \in {"completed", "failed"}
        /\ sess[job[a].sid].status # "prepared"
    BY <1>0, <1>2 DEF SyncPut, At, Kept, Ran
  <2> QED
    BY <1>0, <1>1, <1>2, <2>1, PutEnded DEF Terminal
<1>3. CASE CancelPut(a)
  <2>1. job[a].srow.status = "cancelled" /\ sess[job[a].sid] # NoSession
    BY <1>0, <1>3 DEF CancelPut, At, Kept, Cancelling
  <2> QED
    BY <1>0, <1>1, <1>3, <2>1, PutEnded DEF Terminal
<1>4. CASE StartPut(a)
  <2>1. PICK x \in Sessions, r \in SessionRow :
                /\ x = job[a].sid /\ r = job[a].srow /\ job[a].pc \in RowHeld
                /\ sess' = [sess EXCEPT ![x] = r]
    BY <1>1, <1>4
  <2>2. \/ sess[x].status = "prepared" /\ r.status = "prepared"
        \/ sess[x].status \in {"running"} \cup Terminal /\ r.status \in {"running"} \cup Terminal
    BY <1>0, <1>4, <2>1 DEF StartPut, At, Kept, Launched
  <2>3. sess[x] # NoSession /\ r # NoSession
    BY <2>2 DEF NoSession, Terminal
  <2>4. CASE r.status = sess[x].status
    <3>1. Seen(r) = Seen(sess[x])
      BY <2>1, <2>3, <2>4, SameStored DEF Seen, Same
    <3>2. \A y \in Sessions : Seen(sess'[y]) = Seen(sess[y])
      BY <2>1, <3>1 DEF TypeInv, TypeOK
    <3> QED
      BY <1>0, <3>2 DEF WatchedStep, Tables!vars
  <2>5. CASE r.status \in Terminal
    BY <1>0, <2>1, <2>2, <2>3, <2>5, PutEnded DEF Terminal
  <2>6. CASE r.status = "running" /\ sess[x].status \in Terminal
    BY <1>4, <2>1, <2>6, PutRunning
  <2> QED
    BY <2>2, <2>4, <2>5, <2>6
<1>5. CASE StartFail(a)
  <2>1. PICK x \in Sessions :
          /\ x = job[a].sid
          /\ UNCHANGED sess \/ (sess[x] # NoSession /\ sess' = [sess EXCEPT ![x].status = "failed"])
    BY <1>5 DEF StartFail, At, TypeInv, WellFormed, StartSteps
  <2>2. CASE UNCHANGED sess
    BY <1>0, <2>2, SameTables DEF WatchedStep
  <2>3. CASE sess[x] # NoSession /\ sess' = [sess EXCEPT ![x].status = "failed"]
    <3>1. sess[x] \in SessionRow /\ sess[x].status \in {"running"} \cup Terminal
      BY <1>0, <1>5, <2>1, <2>3 DEF TypeInv, TypeOK, StartFail, At, Kept, Launched
    <3>2. PICK r \in SessionRow : r = [sess[x] EXCEPT !.status = "failed"]
      BY <3>1 DEF SessionRow, SessionStatuses, Terminal
    <3>3. Same(r, sess[x]) /\ r.status = "failed" /\ sess' = [sess EXCEPT ![x] = r]
      BY <2>3, <3>1, <3>2 DEF SessionRow, Same
    <3>4. CASE sess[x].status = "running"
      <4>1. TablesStep
        BY <1>0, <3>3, <3>4, EndedRow DEF Terminal, Same
      <4> QED
        BY <4>1 DEF TablesStep, WatchedStep, Tables!WatchedNext
    <3>5. CASE sess[x].status \in Terminal
      BY <1>0, <3>3, <3>5, RewrittenRow DEF Terminal
    <3> QED
      BY <3>1, <3>4, <3>5
  <2> QED
    BY <2>1, <2>2, <2>3
<1> QED
  BY <1>2, <1>3, <1>4, <1>5

\* Every step is one of those that are promised, or leaves the tables alone.
LEMMA WatchedTablesNext ==
    ASSUME IInv, SlotsAgreed, Watched, [Next]_vars PROVE WatchedStep
<1>0. TypeInv /\ Control /\ Exclusive /\ Occupancy
  BY DEF IInv
<1>1. CASE UNCHANGED <<repo, slots, sess>>
  BY <1>1, SameTables DEF WatchedStep
<1>2. ASSUME NEW a \in Actors, StartInsert(a) PROVE TablesStep
  <2>1. sess[job[a].sid] = NoSession /\ job[a].srow.status = Meant(job[a].srow)
    BY <1>2 DEF StartInsert, At, Watched, Kept, Fresh, Early
  <2> QED
    BY <1>0, <1>2, <2>1, StartStep
<1>3. ASSUME NEW a \in Actors, SyncPut(a) \/ CancelPut(a) \/ StartPut(a) \/ StartFail(a)
      PROVE  WatchedStep
  BY <1>0, <1>3, StoreSteps
<1>4. TablesStep => WatchedStep
  BY DEF TablesStep, WatchedStep, Tables!WatchedNext
<1> QED
  BY <1>0, <1>1, <1>2, <1>3, <1>4, TablesSteps

\* Beside watchers the commands on slots are atomic still, and what is told of
\* a session changes in the two more ways that WatchedSpec names, no other.
THEOREM CommandsAreAtomicBesideWatchers ==
    ASSUME SingleMutator
    PROVE  Spec => ImplementsWatchedTables
<1>1. Init => Tables!Init
  BY DEF Init, Tables!Init, Seen, Tables!Absent, NoSlot, NoSession
<1>2. IInv /\ SlotsAgreed /\ Watched /\ [Next]_vars => [Tables!WatchedNext]_(Tables!vars)
  BY WatchedTablesNext DEF WatchedStep
<1> QED
  BY <1>1, <1>2, WatchedInv, PTL DEF Spec, ImplementsWatchedTables, Tables!WatchedSpec

=============================================================================
