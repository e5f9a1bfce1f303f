----------------------------- MODULE Workspace -----------------------------
(***************************************************************************)
(* Slots, worktrees and sessions of one registered repository, as the      *)
(* command handlers of crates/awo-core/src/commands/{repo,slot,session,    *)
(* review}.rs drive them.                                                  *)
(*                                                                         *)
(* An actor is one caller of those handlers: a CLI process, the daemon,    *)
(* the TUI, one of its background threads, the MCP server.  Each has its   *)
(* own AppCore and its own copy of the records it has read; they share the *)
(* SQLite store, the worktrees on disk, the session sidecar files and the  *)
(* tmux server.  The store runs every statement on its own (there are no   *)
(* multi-statement transactions), so one action here is one store          *)
(* statement, one git or tmux invocation, or a run of reads between two of *)
(* them, and any other actor may act in between.                           *)
(*                                                                         *)
(* Abstracted: names, paths, prompts and logs; fingerprints (a start may   *)
(* be refused for staleness at any time); clocks (a session with a         *)
(* deadline may be found overdue at any time); the order of list queries.  *)
(***************************************************************************)
EXTENDS FiniteSets

CONSTANTS
    Actors,     \* callers of the command handlers
    Mutators,   \* those that run commands; the others only take snapshots
    Slots,      \* slot ids (with the path and branch suffix built from each)
    Sessions,   \* session ids
    Tasks,      \* task names, hence branches within a slot
    Modes,      \* launch modes in use, of "pty", "oneshot" and "dry"
    Faults      \* what may go wrong, of "crash", "lose", "edit" and "git"

ASSUME MutatorsAreActors == Mutators \subseteq Actors
ASSUME ModesKnown == Modes \subseteq {"pty", "oneshot", "dry"}
ASSUME FaultsKnown == Faults \subseteq {"crash", "lose", "edit", "git"}

VARIABLES
    repo,    \* is the repository registered?
    slots,   \* the slots table
    sess,    \* the sessions table
    trees,   \* the worktree of each slot
    saved,   \* the task branches of each slot that carry commits
    proc,    \* the agent process of each session, with its sidecar files
    job      \* what each actor is doing: a command and its local records

vars == <<repo, slots, sess, trees, saved, proc, job>>

-----------------------------------------------------------------------------
(* Records *)

Strategies == {"fresh", "warm"}
SlotStatuses == {"active", "released", "missing"}
Terminal == {"completed", "failed", "cancelled"}
SessionStatuses == {"prepared", "running"} \cup Terminal

\* The head of a worktree is a task's branch or the detached base commit.
Detached == "detached"
Heads == Tasks \cup {Detached}

SlotRow == [task: Tasks, strat: Strategies, status: SlotStatuses, dirty: BOOLEAN]
NoSlot == [status |-> "absent"]

\* started: the row carries started_at, so that a deadline is enforced.
SessionRow == [slot: Slots, ro: BOOLEAN, mode: Modes,
               status: SessionStatuses, started: BOOLEAN]
NoSession == [status |-> "absent"]

\* "lost": git still has the worktree registered, its directory is gone.
Tree == [place: {"disk"}, head: Heads, dirty: BOOLEAN]
NoTree == [place |-> "absent"]
LostTree == [place |-> "lost"]

\* "pending": the pid sidecar says so, nothing is spawned yet.  "reaped": the
\* child of a one-shot session has ended and its exit code is not written yet.
\* "ok", "fail": ended, with the exit code where a sync finds it.
ProcStates == {"none", "pending", "live", "reaped", "ok", "fail"}

SyncSteps == {"sync.list", "sync.check", "sync.put"}
StartSteps == {"start.refresh", "start.check", "start.insert", "start.launch",
               "start.wait", "start.put", "start.fail"}
Steps == SyncSteps \cup StartSteps \cup
    {"idle", "acquire.reuse", "acquire.create", "acquire.put",
     "release.check", "release.git", "release.put", "delete.get",
     "delete.check", "delete.git", "delete.row", "prune.list", "refresh.git",
     "review.list", "writeback", "cancel.put",
     "remove.sessions", "remove.slots", "remove.repo"}

\* Local state of a command.  slot, sid: what it works on.  copy, srow: the
\* records it has read and will write back.  known: get_repository found the
\* repository.  queue: slots still to visit.  todo: sessions listed by a sync
\* and not yet looked at.  ret: where to go on after the sync.
IdleJob == [pc |-> "idle", ret |-> "idle", slot |-> "none", sid |-> "none",
            copy |-> [s \in Slots |-> NoSlot], srow |-> NoSession,
            known |-> FALSE, queue |-> {}, todo |-> {}]

Init ==
    /\ repo = TRUE
    /\ slots = [s \in Slots |-> NoSlot]
    /\ sess = [x \in Sessions |-> NoSession]
    /\ trees = [s \in Slots |-> NoTree]
    /\ saved = [s \in Slots |-> {}]
    /\ proc = [x \in Sessions |-> "none"]
    /\ job = [a \in Actors |-> IdleJob]

-----------------------------------------------------------------------------
(* Queries *)

OnDisk(s) == trees[s].place = "disk"
DirtyTree(s) == OnDisk(s) /\ trees[s].dirty

\* SessionRecord::blocks_release, and with is_write_capable.
Pending(x) == sess[x].status \in {"prepared", "running"}
PendingOn(s) == {x \in Sessions : Pending(x) /\ sess[x].slot = s}
WritersStartedOn(s) == {x \in PendingOn(s) : ~sess[x].ro /\ sess[x].started}
WritersOn(s) == {x \in PendingOn(s) : ~sess[x].ro}

\* find_reusable_warm_slot; its order has a granularity of one second.
Reusable == {s \in Slots : /\ slots[s].status = "released"
                           /\ slots[s].strat = "warm"
                           /\ ~slots[s].dirty}

\* refresh_slot_state on a record r read earlier.
Refreshed(r, s) ==
    IF ~repo \/ (~OnDisk(s) /\ ~(r.status = "released" /\ r.strat = "fresh"))
    THEN [r EXCEPT !.status = "missing", !.dirty = FALSE]
    ELSE [r EXCEPT !.dirty = DirtyTree(s)]

\* Ids are unique in the code: an id of the pool is new when nothing uses it.
NewSlot(s) ==
    /\ slots[s] = NoSlot /\ trees[s] = NoTree /\ saved[s] = {}
    /\ \A x \in Sessions : sess[x] # NoSession => sess[x].slot # s
    /\ \A a \in Actors : job[a].copy[s] = NoSlot /\ s \notin job[a].queue
NewSession(x) ==
    /\ sess[x] = NoSession /\ proc[x] \notin {"pending", "live", "reaped"}
    /\ \A a \in Actors : job[a].sid # x /\ \A p \in job[a].todo : p.id # x

-----------------------------------------------------------------------------
(* Control within a command *)

At(a, pc) == job[a].pc = pc
Idle(a) == At(a, "idle")
Ready(a) == a \in Mutators /\ Idle(a)
Set(a, j) == job' = [job EXCEPT ![a] = j]
Goto(a, pc) == Set(a, [job[a] EXCEPT !.pc = pc])
Finish(a) == Set(a, IdleJob)

\* The caller of sync_runtime_state goes on once every listed session is seen.
Resume(a, rest) ==
    IF rest # {}
    THEN Set(a, [job[a] EXCEPT !.pc = "sync.check", !.todo = rest,
                               !.sid = "none", !.srow = NoSession])
    ELSE IF job[a].ret = "idle" THEN Finish(a)
    ELSE Set(a, [job[a] EXCEPT !.pc = job[a].ret, !.ret = "idle", !.todo = {},
                               !.sid = "none", !.srow = NoSession])

\* Delete, prune, refresh and review visit slots one after the other.  A
\* single delete that fails reports it, a prune skips the slot.
NextSlot(a, pc) ==
    IF job[a].queue = {} THEN Finish(a)
    ELSE Set(a, [IdleJob EXCEPT !.pc = pc, !.queue = job[a].queue])

-----------------------------------------------------------------------------
(* Repository *)

\* repo add, clone and fetch end in the same upsert.
RepoAdd(a) ==
    /\ Ready(a) /\ ~repo
    /\ repo' = TRUE
    /\ UNCHANGED <<slots, sess, trees, saved, proc, job>>

\* A team manifest that names the repository refuses the removal as well.
RepoRemove(a) ==
    /\ Ready(a) /\ repo
    /\ \A s \in Slots : slots[s].status # "active"
    /\ \A x \in Sessions : ~Pending(x)
    /\ Goto(a, "remove.sessions")
    /\ UNCHANGED <<repo, slots, sess, trees, saved, proc>>

RemoveSessionsRepoFirst(a) ==
    /\ At(a, "remove.sessions")
    /\ sess' = [x \in Sessions |-> NoSession]
    /\ repo' = FALSE
    /\ Goto(a, "remove.slots")
    /\ UNCHANGED <<slots, trees, saved, proc>>

RemoveSessions(a) ==
    /\ At(a, "remove.sessions")
    /\ sess' = [x \in Sessions |-> NoSession]
    /\ Goto(a, "remove.slots")
    /\ UNCHANGED <<repo, slots, trees, saved, proc>>

RemoveSlots(a) ==
    /\ At(a, "remove.slots")
    /\ slots' = [s \in Slots |-> NoSlot]
    /\ Goto(a, "remove.repo")
    /\ UNCHANGED <<repo, sess, trees, saved, proc>>

RemoveRepo(a) ==
    /\ At(a, "remove.repo")
    /\ repo' = FALSE
    /\ Finish(a)
    /\ UNCHANGED <<slots, sess, trees, saved, proc>>

-----------------------------------------------------------------------------
(* Synchronising session rows with the processes, at the start of many     *)
(* commands and on every snapshot, `slot list` and `session list`          *)

Poll(a) ==
    /\ Idle(a)
    /\ Set(a, [IdleJob EXCEPT !.pc = "sync.list"])
    /\ UNCHANGED <<repo, slots, sess, trees, saved, proc>>

SyncListPending(a) ==
    /\ At(a, "sync.list")
    /\ Resume(a, {[id |-> x, row |-> sess[x]] : x \in {y \in Sessions : Pending(y)}})
    /\ UNCHANGED <<repo, slots, sess, trees, saved, proc>>

SyncList(a) ==
    /\ At(a, "sync.list")
    /\ Resume(a, {[id |-> x, row |-> sess[x]] :
                    x \in {y \in Sessions : sess[y].status = "running"}})
    /\ UNCHANGED <<repo, slots, sess, trees, saved, proc>>

\* What sync_session makes of a running session that is not running any more.
Verdict(x) == IF proc[x] = "ok" THEN "completed" ELSE "failed"

SyncCheckAgain(a) ==
    /\ At(a, "sync.check")
    /\ \E p \in job[a].todo :
         LET found(status) ==
               Set(a, [job[a] EXCEPT !.pc = "sync.put", !.todo = @ \ {p}, !.sid = p.id,
                                     !.srow = [p.row EXCEPT !.status = status]])
         IN \/ /\ proc[p.id] \in {"pending", "live"}
               /\ Resume(a, job[a].todo)
               /\ UNCHANGED proc
            \/ /\ proc[p.id] \notin {"pending", "live"}
               /\ found(Verdict(p.id))
               /\ UNCHANGED proc
    /\ UNCHANGED <<repo, slots, sess, trees, saved>>

SyncCheck(a) ==
    /\ At(a, "sync.check")
    /\ \E p \in job[a].todo :
         LET found(status) ==
               Set(a, [job[a] EXCEPT !.pc = "sync.put", !.todo = @ \ {p}, !.sid = p.id,
                                     !.srow = [p.row EXCEPT !.status = status]])
         IN \/ /\ proc[p.id] \in {"pending", "live"}
               /\ Resume(a, job[a].todo \ {p})
               /\ UNCHANGED proc
            \/ /\ proc[p.id] \notin {"pending", "live"}
               /\ found(Verdict(p.id))
               /\ UNCHANGED proc
            \/ /\ p.row.started        \* the deadline has passed
               /\ found("failed")
               /\ proc' = [proc EXCEPT ![p.id] = IF @ = "live" THEN "none" ELSE @]
    /\ UNCHANGED <<repo, slots, sess, trees, saved>>

SyncPutSkipped(a) ==
    /\ At(a, "sync.put")
    /\ Resume(a, job[a].todo)
    /\ UNCHANGED <<repo, slots, sess, trees, saved, proc>>

SyncPut(a) ==
    /\ At(a, "sync.put")
    /\ sess' = [sess EXCEPT ![job[a].sid] = job[a].srow]
    /\ Resume(a, job[a].todo)
    /\ UNCHANGED <<repo, slots, trees, saved, proc>>

-----------------------------------------------------------------------------
(* Slot acquire *)

\* Choose a released warm slot, or a new id when there is none or when the
\* directory of the one found is gone.  The copy is the record to be stored.
Acquire(a, t, strat) ==
    /\ Ready(a) /\ repo
    /\ \/ /\ strat = "warm"
          /\ \E s \in Reusable :
               /\ OnDisk(s)
               /\ Set(a, [IdleJob EXCEPT
                    !.pc = "acquire.reuse", !.slot = s,
                    !.copy[s] = [slots[s] EXCEPT !.task = t, !.status = "active"]])
       \/ /\ strat = "warm" => Reusable = {} \/ \E s \in Reusable : ~OnDisk(s)
          /\ \E s \in Slots :
               /\ NewSlot(s)
               /\ Set(a, [IdleJob EXCEPT
                    !.pc = "acquire.create", !.slot = s,
                    !.copy[s] = [task |-> t, strat |-> strat,
                                 status |-> "active", dirty |-> FALSE]])
    /\ UNCHANGED <<repo, slots, sess, trees, saved, proc>>

AcquireReuseAsIs(a) ==
    /\ At(a, "acquire.reuse")
    /\ OnDisk(job[a].slot)
    /\ Goto(a, "acquire.put")
    /\ UNCHANGED <<repo, slots, sess, trees, saved, proc>>

\* git checkout -B: the branch is created at, or reset to, the base commit;
\* uncommitted changes stay in the directory.
AcquireReuse(a) ==
    LET s == job[a].slot
        t == job[a].copy[s].task
    IN /\ At(a, "acquire.reuse")
       /\ OnDisk(s)
       /\ trees' = [trees EXCEPT ![s].head = t]
       /\ saved' = [saved EXCEPT ![s] = @ \ {t}]
       /\ Goto(a, "acquire.put")
       /\ UNCHANGED <<repo, slots, sess, proc>>

\* git worktree add -b
AcquireCreate(a) ==
    LET s == job[a].slot
    IN /\ At(a, "acquire.create")
       /\ trees' = [trees EXCEPT ![s] = [place |-> "disk", head |-> job[a].copy[s].task,
                                         dirty |-> FALSE]]
       /\ Goto(a, "acquire.put")
       /\ UNCHANGED <<repo, slots, sess, saved, proc>>

AcquirePut(a) ==
    /\ At(a, "acquire.put")
    /\ slots' = [slots EXCEPT ![job[a].slot] = job[a].copy[job[a].slot]]
    /\ Finish(a)
    /\ UNCHANGED <<repo, sess, trees, saved, proc>>

-----------------------------------------------------------------------------
(* Slot release *)

Release(a, s) ==
    /\ Ready(a) /\ repo /\ slots[s] # NoSlot
    /\ Set(a, [IdleJob EXCEPT !.pc = "sync.list", !.ret = "release.check",
                              !.slot = s, !.copy[s] = slots[s]])
    /\ UNCHANGED <<repo, slots, sess, trees, saved, proc>>

ReleaseCheckWriters(a) ==
    LET s == job[a].slot
    IN /\ At(a, "release.check")
       /\ IF WritersOn(s) # {} \/ DirtyTree(s) THEN Finish(a)
          ELSE Set(a, [job[a] EXCEPT !.pc = "release.git",
                                     !.copy[s] = Refreshed(@, s)])
       /\ UNCHANGED <<repo, slots, sess, trees, saved, proc>>

ReleaseCheckByRow(a) ==
    LET s == job[a].slot
    IN /\ At(a, "release.check")
       /\ IF PendingOn(s) # {} \/ job[a].copy[s].dirty THEN Finish(a)
          ELSE Set(a, [job[a] EXCEPT !.pc = "release.git",
                                     !.copy[s] = Refreshed(@, s)])
       /\ UNCHANGED <<repo, slots, sess, trees, saved, proc>>

\* Refused with a pending session or with uncommitted changes.
ReleaseCheck(a) ==
    LET s == job[a].slot
    IN /\ At(a, "release.check")
       /\ IF PendingOn(s) # {} \/ DirtyTree(s) THEN Finish(a)
          ELSE Set(a, [job[a] EXCEPT !.pc = "release.git",
                                     !.copy[s] = Refreshed(@, s)])
       /\ UNCHANGED <<repo, slots, sess, trees, saved, proc>>

\* A warm worktree is kept and detached, a fresh one is removed by force.
ReleaseGit(a) ==
    LET s == job[a].slot
        released == Set(a, [job[a] EXCEPT !.pc = "release.put",
                                          !.copy[s].status = "released",
                                          !.copy[s].dirty = FALSE])
    IN /\ At(a, "release.git")
       /\ \/ /\ job[a].copy[s].strat = "warm" /\ OnDisk(s)
             /\ trees' = [trees EXCEPT ![s].head = Detached]
             /\ released
          \/ /\ job[a].copy[s].strat = "fresh" /\ trees[s] # NoTree
             /\ trees' = [trees EXCEPT ![s] = NoTree]
             /\ released
       /\ UNCHANGED <<repo, slots, sess, saved, proc>>

ReleasePut(a) ==
    /\ At(a, "release.put")
    /\ slots' = [slots EXCEPT ![job[a].slot] = job[a].copy[job[a].slot]]
    /\ Finish(a)
    /\ UNCHANGED <<repo, sess, trees, saved, proc>>

-----------------------------------------------------------------------------
(* Slot delete and prune *)

Delete(a, s) ==
    /\ Ready(a)
    /\ Set(a, [IdleJob EXCEPT !.pc = "delete.get", !.queue = {s}])
    /\ UNCHANGED <<repo, slots, sess, trees, saved, proc>>

Prune(a) ==
    /\ Ready(a)
    /\ Set(a, [IdleJob EXCEPT !.pc = "sync.list", !.ret = "prune.list"])
    /\ UNCHANGED <<repo, slots, sess, trees, saved, proc>>

PruneList(a) ==
    LET candidates == {s \in Slots : slots[s].status \in {"released", "missing"}}
    IN /\ At(a, "prune.list")
       /\ IF candidates = {} THEN Finish(a)
          ELSE Set(a, [IdleJob EXCEPT !.pc = "delete.get", !.queue = candidates])
       /\ UNCHANGED <<repo, slots, sess, trees, saved, proc>>

\* The slot and its repository are read before the sync.
DeleteGet(a) ==
    /\ At(a, "delete.get")
    /\ \E s \in job[a].queue :
         LET rest == job[a].queue \ {s}
         IN IF slots[s] # NoSlot
            THEN Set(a, [IdleJob EXCEPT !.pc = "sync.list", !.ret = "delete.check",
                             !.slot = s, !.copy[s] = slots[s], !.known = repo,
                             !.queue = rest])
            ELSE IF rest = {} THEN Finish(a)
            ELSE Set(a, [IdleJob EXCEPT !.pc = "delete.get", !.queue = rest])
    /\ UNCHANGED <<repo, slots, sess, trees, saved, proc>>

DeleteCheck(a) ==
    LET s == job[a].slot
        refused == \/ PendingOn(s) # {}
                   \/ job[a].copy[s].status = "active"
                   \/ job[a].known /\ DirtyTree(s)
    IN /\ At(a, "delete.check")
       /\ IF refused THEN NextSlot(a, "delete.get")
          ELSE Goto(a, IF OnDisk(s) THEN "delete.git" ELSE "delete.row")
       /\ UNCHANGED <<repo, slots, sess, trees, saved, proc>>

\* git worktree remove --force, or remove_dir_all when the repository is gone.
DeleteGit(a) ==
    LET s == job[a].slot
    IN /\ At(a, "delete.git")
       /\ IF job[a].known THEN trees[s] # NoTree ELSE OnDisk(s)
       /\ trees' = [trees EXCEPT ![s] = IF job[a].known THEN NoTree ELSE LostTree]
       /\ Goto(a, "delete.row")
       /\ UNCHANGED <<repo, slots, sess, saved, proc>>

DeleteRow(a) ==
    /\ At(a, "delete.row")
    /\ slots' = [slots EXCEPT ![job[a].slot] = NoSlot]
    /\ NextSlot(a, "delete.get")
    /\ UNCHANGED <<repo, sess, trees, saved, proc>>

-----------------------------------------------------------------------------
(* Slot refresh and review status: records read, recomputed and written    *)
(* back whole                                                              *)

Refresh(a, s) ==
    /\ Ready(a) /\ repo /\ slots[s] # NoSlot
    /\ Set(a, [IdleJob EXCEPT !.pc = "refresh.git", !.queue = {s},
                              !.copy[s] = slots[s]])
    /\ UNCHANGED <<repo, slots, sess, trees, saved, proc>>

\* A released warm worktree is detached again at the base commit, if it is
\* clean and the main checkout is clean (which may be refused at any time).
RefreshGit(a) ==
    /\ At(a, "refresh.git")
    /\ \E s \in job[a].queue :
         LET r == job[a].copy[s]
             resync == r.strat = "warm" /\ r.status = "released" /\ OnDisk(s)
         IN \/ /\ ~resync
               /\ Goto(a, "writeback")
               /\ UNCHANGED trees
            \/ /\ resync /\ ~trees[s].dirty
               /\ trees' = [trees EXCEPT ![s].head = Detached]
               /\ Goto(a, "writeback")
            \/ /\ resync
               /\ Finish(a)
               /\ UNCHANGED trees
    /\ UNCHANGED <<repo, slots, sess, saved, proc>>

Review(a) ==
    /\ Ready(a)
    /\ Set(a, [IdleJob EXCEPT !.pc = "sync.list", !.ret = "review.list"])
    /\ UNCHANGED <<repo, slots, sess, trees, saved, proc>>

ReviewListAll(a) ==
    /\ At(a, "review.list")
    /\ Set(a, [IdleJob EXCEPT !.pc = "writeback", !.queue = Slots, !.copy = slots])
    /\ UNCHANGED <<repo, slots, sess, trees, saved, proc>>

ReviewList(a) ==
    LET listed == {s \in Slots : slots[s].status \in {"active", "released"}}
    IN /\ At(a, "review.list")
       /\ IF listed = {} THEN Finish(a)
          ELSE Set(a, [IdleJob EXCEPT
                    !.pc = "writeback", !.queue = listed,
                    !.copy = [s \in Slots |-> IF s \in listed THEN slots[s] ELSE NoSlot]])
       /\ UNCHANGED <<repo, slots, sess, trees, saved, proc>>

WriteBack(a) ==
    /\ At(a, "writeback")
    /\ \E s \in job[a].queue :
         /\ slots' = [slots EXCEPT ![s] = Refreshed(job[a].copy[s], s)]
         /\ IF job[a].queue = {s} THEN Finish(a)
            ELSE Set(a, [job[a] EXCEPT !.queue = @ \ {s}, !.copy[s] = NoSlot])
    /\ UNCHANGED <<repo, sess, trees, saved, proc>>

-----------------------------------------------------------------------------
(* Session start; the id is drawn with the command *)

Start(a, s, ro, mode) ==
    /\ Ready(a) /\ slots[s] # NoSlot
    /\ \E x \in Sessions :
         /\ NewSession(x)
         /\ Set(a, [IdleJob EXCEPT
              !.pc = "start.refresh", !.slot = s, !.copy[s] = slots[s], !.sid = x,
              !.srow = [slot |-> s, ro |-> ro, mode |-> mode, started |-> FALSE,
                        status |-> IF mode = "dry" THEN "prepared" ELSE "running"]])
    /\ UNCHANGED <<repo, slots, sess, trees, saved, proc>>

\* The refreshed record is stored even when the start is then refused.  A
\* write-capable session may also be refused because the slot is stale.
StartRefresh(a) ==
    LET s == job[a].slot
        r == Refreshed(job[a].copy[s], s)
    IN /\ At(a, "start.refresh")
       /\ slots' = [slots EXCEPT ![s] = r]
       /\ \/ /\ r.status = "active" /\ (job[a].srow.ro \/ ~r.dirty)
             /\ Set(a, [job[a] EXCEPT !.pc = "start.check", !.copy[s] = NoSlot])
          \/ /\ r.status = "active" => ~job[a].srow.ro
             /\ Finish(a)
       /\ UNCHANGED <<repo, sess, trees, saved, proc>>

StartCheckRepoOnly(a) ==
    /\ At(a, "start.check")
    /\ IF ~repo THEN Finish(a) ELSE Goto(a, "start.insert")
    /\ UNCHANGED <<repo, slots, sess, trees, saved, proc>>

\* One pending write-capable session per slot.
StartCheck(a) ==
    /\ At(a, "start.check")
    /\ IF ~repo \/ (~job[a].srow.ro /\ WritersOn(job[a].slot) # {}) THEN Finish(a)
       ELSE Goto(a, "start.insert")
    /\ UNCHANGED <<repo, slots, sess, trees, saved, proc>>

StartInsertLater(a) ==
    /\ At(a, "start.insert")
    /\ Goto(a, IF job[a].srow.mode = "dry" THEN "start.put" ELSE "start.launch")
    /\ UNCHANGED <<repo, slots, sess, trees, saved, proc>>

\* prepare_session marks a one-shot pending, then the row is stored.
StartInsert(a) ==
    LET x == job[a].sid
        mode == job[a].srow.mode
    IN /\ At(a, "start.insert")
       /\ sess' = [sess EXCEPT ![x] = job[a].srow]
       /\ proc' = [proc EXCEPT ![x] = IF mode = "oneshot" THEN "pending" ELSE "none"]
       /\ Goto(a, IF mode = "dry" THEN "start.put" ELSE "start.launch")
       /\ UNCHANGED <<repo, slots, trees, saved>>

\* tmux new-session and set-option, or spawn.  A PTY agent that ends before
\* set-option reaches its session makes the launch fail.
StartLaunch(a) ==
    LET x == job[a].sid
        pty == job[a].srow.mode = "pty"
    IN /\ At(a, "start.launch")
       /\ \/ /\ proc' = [proc EXCEPT ![x] = "live"]
             /\ Set(a, [job[a] EXCEPT !.srow.started = TRUE,
                                      !.pc = IF pty THEN "start.put" ELSE "start.wait"])
          \/ /\ \E p \in {"none"} \cup (IF pty THEN {"ok", "fail"} ELSE {}) :
                  proc' = [proc EXCEPT ![x] = p]
             /\ Goto(a, "start.fail")
       /\ UNCHANGED <<repo, slots, sess, trees, saved>>

\* The launcher of a one-shot reaps it and writes the exit-code sidecar.
StartWait(a) ==
    LET x == job[a].sid
    IN /\ At(a, "start.wait")
       /\ proc[x] = "reaped"
       /\ \E p \in {"ok", "fail"} :
            /\ proc' = [proc EXCEPT ![x] = p]
            /\ Set(a, [job[a] EXCEPT
                 !.pc = "start.put",
                 !.srow.status = IF p = "ok" THEN "completed" ELSE "failed"])
       /\ UNCHANGED <<repo, slots, sess, trees, saved>>

StartPut(a) ==
    /\ At(a, "start.put")
    /\ sess' = [sess EXCEPT ![job[a].sid] = job[a].srow]
    /\ Finish(a)
    /\ UNCHANGED <<repo, slots, trees, saved, proc>>

\* The row is read again, and marked failed if it is still there.
StartFail(a) ==
    LET x == job[a].sid
    IN /\ At(a, "start.fail")
       /\ sess' = IF sess[x] = NoSession THEN sess
                  ELSE [sess EXCEPT ![x].status = "failed"]
       /\ Finish(a)
       /\ UNCHANGED <<repo, slots, trees, saved, proc>>

-----------------------------------------------------------------------------
(* Session cancel and delete *)

CancelAny(a, x) ==
    /\ Ready(a) /\ sess[x] # NoSession
    /\ sess[x].status = "running" => sess[x].mode # "oneshot"
    /\ proc' = [proc EXCEPT ![x] = IF @ = "live" THEN "none" ELSE @]
    /\ Set(a, [IdleJob EXCEPT !.pc = "cancel.put", !.sid = x,
                              !.srow = [sess[x] EXCEPT !.status = "cancelled"]])
    /\ UNCHANGED <<repo, slots, sess, trees, saved>>

\* A running one-shot cannot be cancelled; a prepared session has no process.
Cancel(a, x) ==
    /\ Ready(a) /\ Pending(x)
    /\ sess[x].status = "running" => sess[x].mode # "oneshot"
    /\ proc' = [proc EXCEPT ![x] = IF @ = "live" THEN "none" ELSE @]
    /\ Set(a, [IdleJob EXCEPT !.pc = "cancel.put", !.sid = x,
                              !.srow = [sess[x] EXCEPT !.status = "cancelled"]])
    /\ UNCHANGED <<repo, slots, sess, trees, saved>>

CancelPut(a) ==
    /\ At(a, "cancel.put")
    /\ sess' = [sess EXCEPT ![job[a].sid] = job[a].srow]
    /\ Finish(a)
    /\ UNCHANGED <<repo, slots, trees, saved, proc>>

DeleteSession(a, x) ==
    /\ Ready(a) /\ sess[x].status \in Terminal
    /\ sess' = [sess EXCEPT ![x] = NoSession]
    /\ UNCHANGED <<repo, slots, trees, saved, proc, job>>

-----------------------------------------------------------------------------
(* A git command or a directory operation fails, as it must when what it   *)
(* works on is not there                                                   *)

GitSteps == {"acquire.reuse", "acquire.create", "release.git", "delete.git"}

GitCanWork(a) ==
    LET s == job[a].slot
    IN CASE At(a, "acquire.reuse") -> OnDisk(s)
         [] At(a, "acquire.create") -> TRUE
         [] At(a, "release.git") -> IF job[a].copy[s].strat = "warm"
                                    THEN OnDisk(s) ELSE trees[s] # NoTree
         [] At(a, "delete.git") -> IF job[a].known
                                   THEN trees[s] # NoTree ELSE OnDisk(s)

GitFails(a) ==
    /\ job[a].pc \in GitSteps
    /\ "git" \in Faults \/ ~GitCanWork(a)
    /\ NextSlot(a, "delete.get")
    /\ UNCHANGED <<repo, slots, sess, trees, saved, proc>>

-----------------------------------------------------------------------------
(* The world around the commands *)

\* An agent ends: its tmux pane keeps the exit code, a one-shot is reaped.
Exit(x) ==
    /\ proc[x] = "live"
    /\ \E p \in {"ok", "fail", "reaped"} :
         /\ (p = "reaped") <=> (sess[x] # NoSession /\ sess[x].mode = "oneshot")
         /\ proc' = [proc EXCEPT ![x] = p]
    /\ UNCHANGED <<repo, slots, sess, trees, saved, job>>

\* A write-capable agent works in its slot.  With the fault a person does, in
\* any slot, but not between the last check of a command and its removal of the
\* worktree (a window the code leaves open).
Edit(s) ==
    /\ OnDisk(s) /\ ~trees[s].dirty
    /\ \/ /\ "edit" \in Faults
          /\ \A a \in Actors : ~At(a, "release.git") /\ ~At(a, "delete.git")
       \/ \E x \in Sessions : /\ proc[x] = "live" /\ sess[x] # NoSession
                              /\ sess[x].slot = s /\ ~sess[x].ro
    /\ trees' = [trees EXCEPT ![s].dirty = TRUE]
    /\ UNCHANGED <<repo, slots, sess, saved, proc, job>>

\* Somebody commits what the worktree holds.
Commit(s) ==
    /\ DirtyTree(s)
    /\ trees' = [trees EXCEPT ![s].dirty = FALSE]
    /\ saved' = [saved EXCEPT ![s] = @ \cup ({trees[s].head} \ {Detached})]
    /\ UNCHANGED <<repo, slots, sess, proc, job>>

\* The directory of a worktree is removed behind the program's back.
Lose(s) ==
    /\ "lose" \in Faults /\ OnDisk(s)
    /\ trees' = [trees EXCEPT ![s] = LostTree]
    /\ UNCHANGED <<repo, slots, sess, saved, proc, job>>

\* An actor's process dies; agents and everything on disk survive it.
Crash(a) ==
    /\ "crash" \in Faults /\ ~Idle(a)
    /\ Finish(a)
    /\ UNCHANGED <<repo, slots, sess, trees, saved, proc>>

-----------------------------------------------------------------------------

Command(a) ==
    \/ RepoAdd(a) \/ RepoRemove(a) \/ Prune(a) \/ Review(a)
    \/ \E t \in Tasks, strat \in Strategies : Acquire(a, t, strat)
    \/ \E s \in Slots : Release(a, s) \/ Delete(a, s) \/ Refresh(a, s)
    \/ \E s \in Slots, ro \in BOOLEAN, mode \in Modes : Start(a, s, ro, mode)
    \/ \E x \in Sessions : Cancel(a, x) \/ DeleteSession(a, x)

Step(a) ==
    \/ RemoveSessions(a) \/ RemoveSlots(a) \/ RemoveRepo(a)
    \/ SyncList(a) \/ SyncCheck(a) \/ SyncPut(a)
    \/ AcquireReuse(a) \/ AcquireCreate(a) \/ AcquirePut(a)
    \/ ReleaseCheck(a) \/ ReleaseGit(a) \/ ReleasePut(a)
    \/ PruneList(a) \/ DeleteGet(a) \/ DeleteCheck(a) \/ DeleteGit(a) \/ DeleteRow(a)
    \/ RefreshGit(a) \/ ReviewList(a) \/ WriteBack(a)
    \/ StartRefresh(a) \/ StartCheck(a) \/ StartInsert(a) \/ StartLaunch(a)
    \/ StartWait(a) \/ StartPut(a) \/ StartFail(a)
    \/ CancelPut(a) \/ GitFails(a)

World ==
    \/ \E x \in Sessions : Exit(x)
    \/ \E s \in Slots : Edit(s) \/ Commit(s) \/ Lose(s)
    \/ \E a \in Actors : Crash(a)

Next ==
    \/ \E a \in Actors : Poll(a) \/ Command(a) \/ Step(a)
    \/ World

Spec == Init /\ [][Next]_vars

\* The program's own steps are taken, agents end, and the snapshot of an
\* actor that only watches is refreshed again and again; commands are choices.
FairSpec ==
    /\ Spec
    /\ \A a \in Actors : WF_vars(Step(a))
    /\ \A a \in Actors \ Mutators : WF_vars(Poll(a))

-----------------------------------------------------------------------------
(* Type invariant *)

Job == [pc: Steps, ret: {"idle", "release.check", "delete.check", "prune.list",
                         "review.list"},
        slot: Slots \cup {"none"}, sid: Sessions \cup {"none"},
        copy: [Slots -> SlotRow \cup {NoSlot}], srow: SessionRow \cup {NoSession},
        known: BOOLEAN, queue: SUBSET Slots,
        todo: SUBSET [id: Sessions, row: SessionRow]]

\* Every column and every local record of a command stays in its type.
TypeOK ==
    /\ repo \in BOOLEAN
    /\ slots \in [Slots -> SlotRow \cup {NoSlot}]
    /\ sess \in [Sessions -> SessionRow \cup {NoSession}]
    /\ trees \in [Slots -> Tree \cup {NoTree, LostTree}]
    /\ saved \in [Slots -> SUBSET Tasks]
    /\ proc \in [Sessions -> ProcStates]
    /\ job \in [Actors -> Job]

-----------------------------------------------------------------------------
(* Safety *)

\* No two pending write-capable sessions share a slot: "one write-capable
\* worker per worktree slot".  Start checks this and stores the row later.
OneWriter ==
    \A x, y \in Sessions :
        /\ Pending(x) /\ Pending(y) /\ x # y
        /\ ~sess[x].ro /\ ~sess[y].ro
        => sess[x].slot # sess[y].slot

\* A pending session's slot is neither released nor deleted under it: release,
\* delete, prune and repo remove look for pending sessions before they act.
SessionHoldsSlot ==
    \A x \in Sessions :
        Pending(x) => slots[sess[x].slot].status \in {"active", "missing"}

\* A running agent is never forgotten: its row is stored before it is
\* launched and is not terminal before it has ended.
AgentTracked ==
    \A x \in Sessions : proc[x] = "live" => sess[x].status = "running"

\* At most one write-capable agent process works in a worktree.
OneLiveWriter ==
    \A x, y \in Sessions :
        /\ proc[x] = "live" /\ proc[y] = "live" /\ x # y
        /\ sess[x] # NoSession /\ sess[y] # NoSession
        /\ ~sess[x].ro /\ ~sess[y].ro
        => sess[x].slot # sess[y].slot

\* Slots and pending sessions are not left behind by the removal of their
\* repository, which three separate statements carry out.
NoOrphans ==
    ~repo => /\ \A s \in Slots : slots[s] = NoSlot
             /\ \A x \in Sessions : ~Pending(x)

\* An active slot's worktree is on the branch of the task it was granted for,
\* except while its release is between git and the store.
ActiveOnBranch ==
    \A s \in Slots :
        /\ slots[s].status = "active" /\ OnDisk(s)
        /\ \A a \in Actors : At(a, "release.put") => job[a].slot # s
        => trees[s].head = slots[s].task

\* No command removes a worktree with uncommitted changes in it.
NoWorkLost ==
    [][\A s \in Slots : DirtyTree(s) => trees'[s].place # "absent"]_vars

\* Acquire grants a slot that nobody holds.
NoDoubleGrant ==
    [][\A a \in Actors : At(a, "acquire.put") /\ ~At(a, "acquire.put")' =>
         slots[job[a].slot].status # "active"]_vars

\* A session that has ended does not come back or change its outcome.
TerminalFinal ==
    [][\A x \in Sessions : sess[x].status \in Terminal =>
         sess'[x].status \in {sess[x].status, "absent"}]_vars

\* What those who use the commands see of a session row.
Seen(r) ==
    IF r = NoSession THEN NoSession ELSE [slot |-> r.slot, ro |-> r.ro, status |-> r.status]

Tables == INSTANCE SlotTables WITH
    slot <- [s \in Slots |-> slots[s].status],
    sess <- [x \in Sessions |-> Seen(sess[x])]

\* Commands are atomic for those who use them (Team does): for a single caller,
\* whatever crashes in between, each changes the tables at one moment and only
\* as they then allow, although it read them several steps before.
ImplementsTables == Tables!Spec

\* For a caller beside watchers that is so of slots still.  A snapshot stores
\* what it has read several steps before, and may change a session that has
\* ended, or bring back one that was deleted; the launch it has mistaken for
\* an end makes its session running again.  No more than that.
ImplementsWatchedTables == Tables!WatchedSpec

-----------------------------------------------------------------------------
(* Liveness *)

\* Every command comes to its end, but for the launcher of a one-shot, which
\* waits for its agent.
CommandsEnd ==
    \A a \in Actors : ~Idle(a) ~> Idle(a) \/ At(a, "start.wait")

\* The end of an agent is noticed: its row does not stay "running".
EndNoticed ==
    \A x \in Sessions :
        proc[x] \in {"ok", "fail"} /\ sess[x].status = "running"
        ~> sess[x].status # "running"

-----------------------------------------------------------------------------
(* The inductive invariant behind the safety properties when one actor     *)
(* runs the commands (the daemon, say) and any number of others take       *)
(* snapshots                                                               *)

\* The steps of a command that hold a copy of the slot they work on.
CopySteps == {"acquire.reuse", "acquire.create", "acquire.put", "release.check",
              "release.git", "release.put", "delete.check", "delete.git",
              "delete.row", "start.refresh"}

\* The local records a step relies on have been read.
WellFormed(j) ==
    /\ \/ j.pc \in CopySteps
       \/ j.pc \in SyncSteps /\ j.ret \in {"release.check", "delete.check"}
       => j.slot \in Slots /\ j.copy[j.slot] \in SlotRow
    /\ j.pc \in {"refresh.git", "writeback"} => \A s \in j.queue : j.copy[s] \in SlotRow
    /\ j.pc \in StartSteps => j.slot \in Slots /\ j.srow.slot = j.slot
    /\ j.pc \in StartSteps \cup {"cancel.put", "sync.put"} =>
         j.sid \in Sessions /\ j.srow \in SessionRow

TypeInv == TypeOK /\ \A a \in Actors : WellFormed(job[a])

\* What a snapshot or a cancel writes to the sessions table is terminal.
WritesTerminal(a) ==
    job[a].pc \in {"sync.put", "cancel.put"} => job[a].srow.status \in Terminal

\* Only mutators are inside a command, apart from the sync of a snapshot.
Watching(a) == job[a].pc \in SyncSteps \cup {"idle"} /\ job[a].ret = "idle"

Control ==
    /\ \A a \in Actors : WritesTerminal(a)
    /\ \A a \in Actors \ Mutators : Watching(a)

\* Between its check and its last put, a write-capable start is alone.
StartAlone(a) ==
    /\ job[a].pc \in {"start.insert", "start.launch", "start.wait", "start.put"}
    /\ ~job[a].srow.ro
    => WritersOn(job[a].slot) \subseteq {job[a].sid}

Exclusive == OneWriter /\ \A a \in Actors : StartAlone(a)

\* The record an acquire is going to store is that of an active slot.
GrantsActive(a) ==
    job[a].pc \in {"acquire.reuse", "acquire.create", "acquire.put"} =>
        job[a].copy[job[a].slot].status = "active"

\* A start goes on only on a slot that is active.
StartActive(a) ==
    job[a].pc \in StartSteps \ {"start.refresh"} => slots[job[a].slot].status = "active"

\* Past its check, a release or delete works on a slot without a pending
\* session, and so does what may write a released record back.
Unoccupied(a) ==
    /\ \/ job[a].pc \in {"release.git", "release.put", "delete.git", "delete.row"}
       \/ job[a].pc = "start.refresh" /\ job[a].copy[job[a].slot].status = "released"
       => PendingOn(job[a].slot) = {}
    /\ job[a].pc \in {"refresh.git", "writeback"} =>
         \A s \in job[a].queue : job[a].copy[s].status = "released" => PendingOn(s) = {}

\* A command that will store a slot record runs on a registered repository,
\* and a removal goes on only without pending sessions.
RemovalOrder(a) ==
    /\ \/ job[a].pc \in (CopySteps \cup StartSteps \cup {"refresh.git", "writeback"})
                           \ {"delete.check", "delete.git", "delete.row"}
       \/ job[a].pc \in SyncSteps /\ job[a].ret = "release.check"
       => repo
    /\ job[a].pc \in {"remove.sessions", "remove.slots", "remove.repo"} =>
         \A x \in Sessions : ~Pending(x)
    /\ job[a].pc = "remove.repo" => \A s \in Slots : slots[s] = NoSlot

Holding(a) == GrantsActive(a) /\ StartActive(a) /\ Unoccupied(a) /\ RemovalOrder(a)

Occupancy == SessionHoldsSlot /\ NoOrphans /\ \A a \in Actors : Holding(a)

IInv == TypeInv /\ Control /\ Exclusive /\ Occupancy

=============================================================================
