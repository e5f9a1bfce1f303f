# A verification of awo

awo is an orchestrator of coding agents: it gives every agent a git worktree of
its own (a *slot*), runs the agent in it (a *session*), and lets a *team* of
agents work through task cards. This directory holds TLA+ modules that model
the program, TLC configurations that check them on small instances, and proofs
that TLAPS checks for all instances. Paths below are relative to `src/`;
`core/` stands for `crates/awo-core/src/`, `app/` for `crates/awo-app/src/`.

Contents: [the system](#1-the-system), [the plan](#2-the-plan),
[the modules](#3-the-modules-and-the-code), [the runs](#4-the-runs),
[fairness](#5-fairness), [the proofs](#6-the-proofs),
[what the models show about the code](#7-what-the-models-show-about-the-code),
[limits](#8-limits).

## 1. The system

### Components

| Component | State | Operations | What makes it correct |
|---|---|---|---|
| Slot commands `core/commands/slot.rs`, `core/slot.rs` | `slots` table; one worktree per slot, with its head, branch and changes | acquire (reuse a warm slot or create one), release, delete, prune, refresh | a slot is granted to one holder; a pending session keeps its slot; no command removes uncommitted changes; an active worktree is on its branch |
| Session commands `core/commands/session.rs` | `sessions` table | start, cancel, delete, list, log | one pending writer per slot; no agent runs unrecorded; an outcome is final |
| Session runtime `core/runtime.rs`, `core/runtime/supervisor*` | agent process, tmux session, sidecars `<sid>.pid` and `<sid>.exit` | prepare, launch, wait, synchronise, cancel, time out | the row follows the process; the end of an agent is noticed |
| Repository commands `core/commands/repo.rs` | `repositories` table | add, clone, fetch, remove | nothing outlives its repository |
| Review `core/commands/review.rs`, `core/snapshot.rs`, `core/snapshot/overlap.rs` | `slots.dirty`, `slots.status`; per `AppCore` a cache of changed files (5 s) | review status, snapshot, invalidate, overlap detection | no list older than the cache promises; lasting overlaps are reported; a refresh is seen |
| Store `core/store.rs` | SQLite in WAL mode, no transaction of more than one statement | upserts, deletes, queries | (shared state of all processes) |
| Event bus `core/events.rs` | ring of entries, next number, condition variable | publish, poll, wait | one numbered log; readers that keep up miss nothing; nobody sleeps over an event |
| Daemon `core/daemon.rs`, `app/awod.rs` | lock file, socket, pid file, shutdown flag | acquire, run, handle a connection, shut down, clean up | one daemon at a time; a command is carried out once at most |
| Clients of the daemon `core/daemon.rs`, `app/handlers.rs` | connection or direct mode | probe, spawn, wait, connect, call, stop | every invocation ends; nothing is retried that may have been done |
| RPC dispatch `core/dispatch.rs` | none | decode, execute, encode | one command after the other |
| Team manifest `core/team.rs`, `core/team/storage.rs`, `core/commands/team.rs` | one TOML file per team: members, task cards, plan items; one lock file each | some thirty edits, each read-modify-write | always a valid manifest; no lost edit, no half-read file |
| Team execution `core/app/team_ops.rs`, `core/team/reconcile.rs` | manifest, slots and sessions together | start and delegate a task, reconcile, tear down, archive | card, slot and session agree; no slot is lost; reconciliation takes no decision that is an operator's |
| Routing `core/routing.rs`, `core/capabilities.rs` | a pressure profile in the settings | choose a runtime, recommend one | preferences and pressure are respected; the start does what was recommended |
| TUI `app/tui.rs`, `app/tui/` | snapshot on the screen, cursors, dialog, embedded terminal; threads that read snapshots and run commands | keys, refresh, dialogs, prompts | acts on what it shows; never goes back in time; catches up |
| MCP server `crates/awo-mcp/src/` | subscriptions, queued notifications | tools, resources, subscriptions | answers in order; no known change goes untold |
| CLI `app/handlers.rs` | an `AppCore` per process | all of the above | |
| Context, skills, configuration, fingerprints | files | discovery and formatting | |

### How they interact

There is no server that owns the state. Every process, and every background
thread of the TUI (`app/tui.rs:820`, `:2331`), has an `AppCore` with its own
connection to the same SQLite file and works on the same worktrees, sidecars
and manifests. Only a command of the CLI that finds a healthy daemon
(`app/handlers.rs:111-198`) is executed by the daemon, which handles one
connection to its end before it accepts the next (`core/daemon.rs:158-181`);
the TUI, the MCP server and a CLI that found no daemon execute commands in
their own process. And *reading writes*: a snapshot, `slot list` or `session
list` synchronises the rows of running sessions first (`core/app.rs:106`,
`core/commands.rs:379-387`) and stores what it finds.

### What is hard

* **Interleaving.** A handler is a sequence of store statements, git and tmux
  commands; any other process runs in between. Records are read whole, changed
  locally and written back whole.
* **Crashes.** A process may die between any two steps; agents survive it.
* **The world.** Worktrees are edited, committed to and removed by agents and
  people; agents end at any moment; git and tmux fail.
* **The daemon's files.** Locks live on inodes, names are removed by several
  parties, process states are read from files that may be stale.
* **Timeouts.** A probe of 250 ms, a call of 30 s, waits of 3 and 5 s, session
  deadlines: all may fire while the answer is under way.
* **Bounded buffers.** The ring of events drops the oldest ones.
* **Long operations without a lock.** Starting a card or tearing a team down is
  a handful of locked edits with slot and session commands between them;
  every snapshot of every process reconciles the manifest meanwhile.
* **Stale views.** Dialogs, cursors, cached lists of files and subscribed
  resources all show what was there some time ago.

`PROJECT.json` lists each of these hazards at the line where it bites, with the
properties that watch over it, or the reason why none does yet.

## 2. The plan

Done:

1. `Workspace`: slots, worktrees, sessions, repository and review commands, for
   any number of callers. The core of the program; everything else calls it.
   Proofs in `Workspace_proofs`.
2. `Daemon`: the daemon's files, its life, and its clients. It decides whether
   the assumption *one caller of commands at a time* holds, on which the
   guarantees of `Workspace` rest. Proofs in `Daemon_proofs`.
3. `EventLog` and `EventBus`: the promise of the bus and its implementation.
4. `TeamManifest` and `Team`: every edit of a manifest, and the operations over
   manifest, slots and sessions, with the reconciliation that runs between
   their steps.
5. `TeamFile` and `TeamStorage`: what a manifest file promises to those who
   load and edit it, and how the lock file implements it.
6. `Tui` and `Mcp`: the two long-lived front ends.
7. `Review`: the cache of changed files, and the overlaps found with it.
8. `Routing`: the choice of a runtime, proved in `Advice_proofs`.
9. Proofs of the smaller state machines: `TeamStorage_proofs` (the refinement
   of `TeamFile` too), `EventBus_proofs`, `Advice_proofs` (of
   `Review`).
10. Proofs of the remaining safety properties of `Workspace`, about agents,
    uncommitted work and branches.
11. `SlotTables`, through which `Team` and `Workspace` are composed: `Workspace`
    implements it for one caller of commands, `Team` asks no more of it.
12. Proofs of every safety property of `Team` and of `Mcp`, of the readers of
    `EventBus` and of refreshes in `Review`.
13. Proofs of the safety properties of `Tui`: `Consistent`, `NeverBack`,
    `CursorStays`, `ActsOnNamed`, in `Tui_proofs`.
14. `SlotTables` beside any number of watchers, which weakens what a start and
    the end of a session promise (`WatchedSpec`), with its proof.

Next:

15. Two callers of commands that share one daemon: `Daemon` and `Workspace` in
    one state space.

## 3. The modules and the code

In every module some definitions have a *variant* next to them (`LockShared`
beside `Lock`, `StartCheckRepoOnly` beside `StartCheck`, ...), that no
specification uses: what the code would do with a plausible bug. `PROJECT.json`
names the property that each variant violates, as evidence that the property
can fail.

### Workspace

State: `repo` (is the repository registered), `slots` and `sess` (the two
tables, a row per id), `trees` (what is on disk: head, dirty, or lost), `saved`
(branches that carry commits), `proc` (the process of a session with its
sidecars) and `job`: what each actor is doing. `job[a]` has a program counter
(`"release.check"`), the records the handler has read and will write back
(`copy`, `srow`), and what it has still to visit (`queue`, `todo`).

An actor is a process or thread with an `AppCore`. An action is one store
statement, one git or tmux invocation, or a run of reads between two of them:

| Handler | Actions |
|---|---|
| `run_slot_acquire` | `Acquire`, then `AcquireReuse` or `AcquireCreate`, `AcquirePut` |
| `run_slot_release` | `Release`, sync, `ReleaseCheck`, `ReleaseGit`, `ReleasePut` |
| `run_slot_delete`, `_prune` | `Delete` or `Prune` and `PruneList`, then for each slot `DeleteGet`, sync, `DeleteCheck`, `DeleteGit`, `DeleteRow` |
| `run_slot_refresh` | `Refresh`, `RefreshGit`, `WriteBack` |
| `run_review_status` | `Review`, sync, `ReviewList`, `WriteBack` for each slot |
| `run_session_start` | `Start`, `StartRefresh`, `StartCheck`, `StartInsert`, `StartLaunch`, `StartWait` (one-shot), `StartPut` or `StartFail` |
| `run_session_cancel`, `_delete` | `Cancel`, `CancelPut`; `DeleteSession` |
| `sync_runtime_state` | `SyncList`, then for each running session `SyncCheck` and `SyncPut` |
| `run_repo_add`, `_remove` | `RepoAdd`; `RepoRemove`, `RemoveSessions`, `RemoveSlots`, `RemoveRepo` |
| `AppCore::snapshot` and the lists | `Poll`, sync |

Around them: `Exit` (an agent ends), `Edit`, `Commit`, `Lose` (of a worktree),
`Crash` (of an actor) and `GitFails`. Which of these may happen is the constant
`Faults`; who runs commands, and who only takes snapshots, is `Mutators` and
`Actors`.

Abstracted: names and paths; prompts and logs; fingerprints (a writer may be
refused for staleness at any start); clocks (a deadline may have passed at any
sync); the order of lists. One repository.

### SlotTables

The abstract specification of the slot, session and repository commands: `repo`,
the status of each `slot`, and slot, access and status of each row of `sess`.
Each command is one step with its condition (`Acquire`, `Release`, `Delete`,
`Start`, `End`, `Forget`, `Register`), except for the removal of a repository,
whose three deletes can be seen one by one (`ForgetAll`, `DeleteAll`,
`Unregister`); `Miss` is a worktree found to be gone. `ImplementsTables` is the
refinement by `Workspace`, whose tables are those of the store without what
nobody else looks at: a handler that reads in one step, checks in another,
runs git and launches an agent, and stores a record in a last one, changes
the tables at one moment and as they then allow. `UsesTables` is the same of
`Team`: its starts, recoveries and teardowns are made of such steps.

That is the promise for one process at a time. Beside watchers, whose snapshots
store what they have read several steps before, a caller of commands has
`WatchedSpec`: two more steps of a session. `Rewrite` stores an end over another
end, or over a row that was deleted in the meantime; `Revive` is the launch of a
session that a snapshot took for ended. Nothing more is lost: slots are granted,
released and deleted as before, no snapshot ends a session that was only
prepared, and the slot and access of a row do not change while it is there.
`ImplementsWatchedTables` is the refinement of it.

### Daemon

State: `file` (which process is behind the lock file, the socket and the pid
file), `fd` (the inode each daemon has opened and maybe locked, named after its
creator), `dpc` and `todo` (the daemon's program), `asked` (shutdown flags),
`busy` (whose connection it handles), `conn` (connections with an unfinished
request), `cli` (each client's program), and the history variable `calm`.

| Code | Actions |
|---|---|
| `DaemonServer::acquire` | `Open`, `Lock`, `ClearSocket`, `WritePid` |
| `DaemonServer::run` | `Bind`, `Accept`, `Shutdown` |
| `handle_connection`, `dispatch_rpc` | `Execute` |
| `cleanup` and `Drop` | `Remove`, once per file and per call |
| `get_daemon_status` | `StatusPid`, `StatusAlive`, `StatusProbe`, `Clean`; what each caller makes of the answer is `Concluded` |
| `bootstrap_daemon_transport`, `wait_for_daemon_client`, `spawn_daemon`, `wait_for_existing_daemon_start` | `Begin`, `Fork`, `Again`, `Connect` |
| `DaemonClient::call` | answered by `Execute`, or `CallFails` |
| direct mode | `Direct` |
| `stop_daemon` | `StopTerm`, `StopWatch`, `Clean` |
| `awo daemon start` | `Foreground` |

The lock is an attribute of an inode, not of a name: `Open` finds the inode
that has the name or creates one, `Remove` and `Clean` take the name away, and
`Lock` succeeds when no other process holds the same inode. `None` is the file
that does not exist. Abstracted: what a command does; all clocks (a probe may
fail, and a pid file may be young or old, at any time); a connection carries
one command. Unix only.

### EventLog and EventBus

`EventLog` is the abstract specification: an unbounded `log`, and for every
reader what it `got`, entries of the log under their own numbers, in order.
`EventBus` is `core/events.rs`: `ring`, `nextSeq`, publishers that notify after
they have released the mutex (`Publish`, `Notify`), readers that poll or wait
with a limit and go on from the `head_seq` they were given (`Request`, `Poll`,
`Wait`, `Timeout`, `Spurious`), as `app/tui.rs:845-869` and the clients of
`events.poll` do. `log` and `got` are history variables of `EventBus`; under
the identity mapping it implements `EventLog` (`ImplementsLog`).

### TeamManifest and Team

`TeamManifest` has the manifest as a record and the methods of `core/team.rs` as
operators on it: `AddTask`, `Accept`, `Supersede`, `Reset`, ... with a guard
`Can...` where the method refuses, and `Valid` for `validate`, which every save
and load runs. `Team` has one manifest file `mf`, the slots and sessions its
cards may use, and `op`: what each operator is doing. `left` and `raced` are
history: the slots taken out of the manifest, or not released, by somebody who
answers for it, and whether starts of one card have overlapped.

| Code | Actions |
|---|---|
| `core/commands/team.rs` | one action per command: `MemberAdd`, `PlanGenerate`, `TaskSupersede`, `TeamReset`, ...; a section between `TeamManifestGuard::load` and the drop of the guard is one step |
| `execute_team_task` | `TaskStart`, `TaskDelegate` or `TaskHandOver`, then `StartMark`, `StartUseSlot` or `StartAcquire`, `StartBind`, `StartLaunch`, `StartWait` (one-shot), `StartSettle`; `RecoverBlock` and `RecoverRelease` after a failure |
| `teardown_team`, `reset_team` | `TeardownPlan`, `TeardownCancel`, `TeardownCollect`, `TeardownRelease`, `TeardownReset`; `TeardownFails` |
| `archive_team`, `delete_team` of `AppCore` | `ArchiveTeam`; `DeletePlan`, `DeleteRemove` |
| `reconcile_team_manifest_state` | `Reconcile`: for each card `Gone`, `Judged` with the verification command's outcome, `Unbound`; for each member `KeepsSlot` |
| `app/handlers.rs`: `run_team`, `run_slot`, `run_session` | the groups `RunTeam`, `SlotCommands`, `SessionCommands` of what an operator may ask for |

Abstracted: names, prompts, scopes and reports; runtimes (see `Routing`); the
result fields of a card are one, the session they are about. A slot or session
command is one step: `Workspace` has what goes on inside it. One team: teams
share slots only when an operator binds them so.

### TeamFile and TeamStorage

`TeamStorage` is `core/team/storage.rs` at the level of system calls: `OpenLock`
(by name), `TakeLock` (by inode), `Read`, `Truncate` and `Write` (`fs::write`
does both), `Unlock`, the creation by `run_team_init`, the deletion that takes
no lock, and the death of a process at any of them. A manifest is the set of
edits made to it. `TeamFile` is what callers may rely on, a manifest that
changes edit by edit, and says what they may not: a crash may tear the file, an
edit under way may bring a deleted team back, a team may be created over
another. `Atomic` is the refinement, with `file <- Settled`, the file as it is
between saves.

### Tui

State: `w`, what a snapshot taken now would show, with a version; `snap` and
`teams`, what is on the screen; `ui`, the rest of `TuiState`; `reads` and
`jobs`, the background threads with their results; `bell`, the event watcher.
The loop has two steps: `Turn` takes the results that have come, asks for a new
snapshot (`Wants`), clamps the cursors, follows the log or terminal and draws;
then `Handle` handles a key or `NoKey` none. Each key that does something is an
action: `OpenPrompt`, `SubmitPrompt`, `OpenDialog`, `SubmitDialog`,
`CancelSession`, `ReleaseSlot`, `StartTask`, `OpenTerminal`, `TypeKey`, ... Jobs
run in any order with `ReadSnapshot`, `ReadTeams`, `Watch` and `Others`.
`last` is history: what the dialog opened last named then, and the command it
gave. Abstracted: one repository; two of the four panels and two of the four
panes of the dashboard, which move in the same way; filters, texts and layout.

### Mcp

State: the lines on the server's `input` and `output`; `server`, its loop, its
subscriptions and the notifications it has queued; the `client`, which sends
without waiting and reads again what it is told of; `stale`, the resources that
have changed since they were read, and `silent`, those whose last change has no
event. `Reading(method)` is one turn of the loop of `crates/awo-mcp/src/main.rs:39-78`; each
method has an action; `Events` and `Changes` say for each tool which events its
command returns and which resources it changes.

### Review

State: for each slot what git would list (`tree`), whether the worktree is
`there`, `stale` and `busy`; the `row` in the store, which only commands bring
up to date; and the `cache` of one long-lived `AppCore`. Commands may be given
`here`, through `AppCore::dispatch`, which drops the list of the slot, or by
another program. `Snapshot` is `AppSnapshot::load` with the review of all
repositories (cached lists) or of one (lists read anew); `shown` is what it
yields, and `Risky`, `Soft` and `Releasable` are what `detect_overlaps` and
`build_review_summary_impl` make of it. Time passes in ticks; git may fail on a
slot, and then its list is kept as an empty one.

### Routing

Pure operators: `Accepted` is `evaluate_target`, `Route` is `route_runtime`,
`Recommended` and `Launched` are the two uses of it. Reasons are left out, and
`CostTier` has of the table of capabilities what routing asks of it.

### MC modules

`MCWorkspace`, `MCDaemon`, `MCTeam` and `MCTeamStorage` add symmetry sets, used
in the runs without liveness properties; `MCTeam` has the teams to begin with
and the prices of commands (below); `MCTui`, `MCReview`, `MCMcp` and `MCEventBus`
name values.

## 4. The runs

Passing runs (states are distinct states):

| Run | Instance | Shows |
|---|---|---|
| `workspace_watch` | 1 caller and 1 TUI that takes snapshots, 1 slot, 1 session, 1 task, all launches, failing git, edits by people, fair; 121 k | `TypeOK`, `ActiveOnBranch`, `CommandsEnd`, `EndNoticed`, `ImplementsWatchedTables` |
| `workspace_crash` | 1 caller that may crash, 1 slot, 2 sessions that are launched in a PTY, lost worktrees; 908 k | `OneWriter`, `SessionHoldsSlot`, `AgentTracked`, `OneLiveWriter`, `NoOrphans`, `NoWorkLost`, `ImplementsTables` |
| `daemon` | 2 daemons (started by hand or by the client), 1 client, stops and crashes, fair; 93 k | `OneDaemon`, `Undisturbed`, `RanOnce`, `ClientsEnd`, `ShutdownWorks` |
| `events` | 2 publishers, 2 readers, 2 events, ring of 2, batches up to 2, 3 publications, limits 1 and 2, fair; 127 k | `RingIsTail`, `NothingMissed`, `ImplementsLog`, `WaitersWake` |
| `team` | 2 operators, 2 cards of which one depends on the other, 1 worker and the lead, 1 plan item, 2 slots, 2 sessions, all commands and a crash within a budget of 4; 274 k | `Loadable` (with its types), `Settles`, `NoSlotLost`, `TeardownClean`, `OnlyOperatorsDecide`, `UsesTables` |
| `team_storage` | 3 processes, 2 edits, deaths and a deletion at any step; 787 k | `Exclusive`, `Atomic` |
| `tui` | 2 slots, 2 sessions (one with an embedded terminal), 2 teams, 3 keys, 1 change by others, 1 failing snapshot, fair; 684 k | `Consistent`, `NeverBack`, `CursorStays`, `ActsOnNamed`, `Converges` |
| `mcp` | 2 resources, 3 tools (one with an event, one without, and the wait), 3 calls, 1 change by others, fair; 315 k | `AnsweredInOrder`, `Coherent`, `Rests` |
| `review` | 2 slots of one or two repositories, 3 files of which 2 share a directory, lists kept for 2 ticks, 6 steps, 1 failing read; 948 k | `Recent`, `OverlapsShown`, `RefreshIsSeen` |

Runs that end in a counterexample, each with one property that the
documentation, or a comment, states:

| Run | Property | See |
|---|---|---|
| `workspace_race` | `NoDoubleGrant` | two callers acquire the same warm slot |
| `workspace_stale_sync` | `OneLiveWriter` | a snapshot fails a session that is being launched |
| `team_archive` | `ArchiveSafe` | a team is archived over an active slot |

### Bounds

* Two slots or two sessions are enough for every property that relates two of
  them; a third adds no new relation. The two are not combined in one run of
  `Workspace`, which the number of interleavings forbids.
* `workspace_race` has two task names, for two grants; one is enough where a
  worktree that is released is told from one that is granted.
* `MaxTries` bounds the polls of a three-second wait to one; a wait that goes on
  repeats the same status steps in any state the other processes can reach.
* Two daemons are needed for the race to start one.
* `MaxEvents` is one more than the ring holds, so that eviction happens;
  `MaxBatch` makes a batch reach both sides of an eviction.
* `Team`: commands have a `Price` and `Budget` is what all of them may cost. The
  cheap ones (those that prepare a team, and `accept`) cost 1, the others 2: two
  commands with many steps overlap each other, or one of them any edits.
  Reconciliation, agents that end and failures are free.
* `Tui`: `MaxKeys` of three opens a prompt or dialog, submits it, and acts again;
  `MaxChanges` of one is a change that a snapshot can just miss.
* `Mcp`: three calls make a subscription, a tool and a read or a second tool.
* `Review`: two acquisitions, an edit in each worktree and a refresh are five
  steps; the sixth changes something after it. Time is not bounded, ages are
  counted up to the age at which a list expires.

Deadlock is checked, except in `team`, `team_archive`, `tui` and `mcp`: there a
user may quit, and operators, users and clients may run out of what the bounds
allow them to do.

## 5. Fairness

* `Workspace`: a process that has begun a command goes on (`WF` of `Step` for
  each actor): handlers have no locks and no loops without an end; SQLite's
  busy timeout is not modelled. A watcher goes on taking snapshots (`WF` of
  `Poll`), as the TUI does at every tick. Nothing is assumed of commands, which
  are a user's choice, nor of edits, agents and crashes: `EndNoticed` speaks
  only of agents that have ended, and `CommandsEnd` leaves out the launcher of a
  one-shot, which waits for its agent without a limit.
* `Daemon`: each process that runs goes on. A daemon that serves accepts
  connections as long as there are any, which is why `ShutdownWorks` is not
  obvious: it holds because the flag is looked at before every connection, and
  because a client ends its connection after one command or thirty seconds.
* `EventBus`: a publisher notifies what it has published; a reader that is not
  asleep goes on. No fairness of `Timeout`: `WaitersWake` must hold for waits
  without an end.
* `Tui`: the loop turns, a snapshot that was asked for is read, and time passes
  (`Elapse`: the snapshot on the screen gets older than two seconds). Nothing is
  assumed of the event watcher, whose trigger may be lost: `Converges` holds
  because of the two seconds alone. Nothing is assumed of keys.
* `Mcp`: the server's loop goes on, a wait ends with its timeout, and the client
  takes what it is sent and reads again what it is told of.

## 6. The proofs

All proofs are for any finite or infinite sets of processes, slots, sessions
and tasks (finite ones in `Tui`, whose lists are counted), and for all faults. The assumptions on the constants are those of
the `ASSUME`s in the modules, plus one hypothesis where it is named.

**Workspace.** `TypeCorrect` needs no hypothesis. It is not inductive with
`TypeOK` alone: a handler writes back a record it has read many steps before,
so `WellFormed` says which local records each step relies on (`TypeInv`).

The other theorems assume at least `SingleMutator`: any two actors that run commands are
the same. That is the situation of a daemon with TUIs or clients that only
read, or of one user without a daemon; `workspace_race` shows that it cannot be
dropped. Any number of watchers may synchronise sessions at any moment. The
inductive invariant `IInv` has four parts:

* `TypeInv`;
* `Control`: what a sync or a cancel is about to write is terminal, and
  watchers are nowhere but in a sync;
* `Exclusive`: besides `OneWriter`, nobody but the starting command itself can
  add a pending writer between its check and its insert;
* `Occupancy`: a slot with a pending session is not released, a release or
  delete that has passed its check has no pending session before it, the
  records held locally agree with the table, and a removed repository has left
  nothing behind.

`Workspace_proofs` proves the types and the part about writers
(`OneWriterAlways`) first, then the rest (`IInvAlways`,
`SessionHoldsSlotAlways`, `NoOrphansAlways`), with one lemma or step per
action. The watchers matter: a sync may turn a session terminal between any two
steps of the command, and the proof uses that this is all it can do.

Branches need one hypothesis more: no crash. With any number of watchers,
`Branches`, that the worktree is on the branch of the record a handler holds
(`Copying`), and is moved before the grant is stored (`Granting`), gives
`ActiveOnBranchAlways`. A crash between a release's detach and its store breaks
it.

The second half of the module is about what the tables promise of the world, and
to those who use them, from a stronger hypothesis, `OneActor`: nobody else
synchronises sessions either. A sync stores a status it has derived from a
record and a process it looked at earlier, and `workspace_stale_sync` shows a
watcher that fails a session while it is being launched. With one actor, crashes
included, there are two more invariants.

* `Tracked` says at every step what becomes of a row: one that is about to become
  terminal is pending and its agent has ended (`Ending`), a start has no row and
  no agent, then a row, then an agent (`Starting`), a release or delete past its
  checks meets neither an agent nor changes (`Removing`). From it follow
  `AgentTrackedAlways`, `OneLiveWriterAlways`, `TerminalFinalAlways` and
  `NoWorkLostAlways`, the last with what `Edit` excludes (section 8).
* `Agreed` says that what a handler has read is still so: the record it will
  store is a step on from the one in the table (`RowAgreed`), the status it has
  checked is the status of the slot (`SlotAgreed`). With it each store statement
  is a step of `SlotTables`, or changes nothing there, and every other action
  changes nothing: `CommandsAreAtomic`, which `TablesNext` proves action by
  action. It is here that `IInv`, `Tracked` and `Agreed` are all needed: `Start`
  takes the slot's status and the absence of a writer from `IInv`, the absence
  of a row from `Tracked`, and `End` its access and slot from `Agreed`.

The last section is the refinement that watchers leave:
`CommandsAreAtomicBesideWatchers`, for `SingleMutator` and any number of watchers,
crashes included. `Agreed` does not hold there: a watcher's record may be older
than the row it is stored over. Two invariants take its place.

* `SlotsAgreed` is the half of `Agreed` that is about the commands' slots, which
  watchers do not write (`OnlyMutatorsStore`).
* `Watched` says how old records stay harmless. One function from sessions to
  rows gives the slot and access of every record of a session, stored or held by
  anyone, even after the row was deleted (`Faithful`): without it the row that a
  sync brings back could be one of another slot. Besides, nobody holds a record of a
  session that is being started (`Fresh`), what a launch will store is a step on
  from a row that has left `prepared` (`Launched`), a row that is being
  cancelled is there (`Cancelling`), and a sync only knows sessions that have run
  (`Ran`).

Each step is then one of `WatchedSpec` or leaves the tables alone
(`WatchedTablesNext`); `TablesSteps`, which does the slots, is shared with
`TablesNext`.

**Daemon.** `Daemon_proofs` rests on `IInv`: types; `Locks`, that two holders of
a lock hold different inodes; and `CalmInv`, that as long as nobody was stopped
or killed every daemon has opened the file that still has the name, the pid
file and the socket belong to a daemon that has got that far, and no client has
seen a dead process. `Locks` alone gives nothing about *names*: only with
`CalmInv` two holders are one (`OneDaemonAlways`), and the winner keeps its
files (`UndisturbedAlways`). `calm` cannot be dropped: see *two daemons* in
section 7. `RanOnceAlways` has no such condition: its invariant is that a
connection stands for a command not yet carried out, whatever becomes of its
client.

**Routing.** `Advice_proofs` is about all targets, preferences and pressures.
`NothingBetter`: what is selected is on offer, and breaks the policy only when
everything on offer does. `RelaxingAccepts`: the demands of a policy do not
conflict, so relaxing one, or less pressure, never loses a target; it rests on
the order of the cost tiers (`HigherCeiling`). `StartFollowsCalmRecommendation`
and `StartIgnoresPressure` compare the two uses: a start launches what would be
recommended without pressure, whatever the pressure is.

**TeamStorage.** For any processes and edits, with deaths and deletions at any
moment. The lock alone does not make a save safe: `fs::write` truncates before
it writes, so `IInv` adds `Saving` (a process that has truncated the file has
the lock for itself, the file is torn meanwhile, and what it will write is one
edit on top of what was there) and `Copied` (what an editor has in memory is
what the file holds, or held when it was deleted). `LockExcludes` is the part
about locks. For the refinement, `SettledIsOld` says what the mapping gives while
a save is under way: the manifest that its only writer has read. `AtomicStep`
then takes each system call to a step of `TeamFile` or to none: a truncation and
a lock to none, a write to `Edit` or `Create`, a death between the two to a
tear (`StorageIsAtomic`). `LockExcludes` needs that the lock file, once created,
stays: `team delete` leaves it there, and `remove_team_manifest`, which unlinks
it under the lock (`core/team/storage.rs:102`), is reached by nobody; a deletion
that did so is the variant that breaks `Exclusive`.

**Team.** For any cards, members, slots, operators, prices and budgets. Five
parts make `IInv` inductive (`IInvAlways`):

* `TypeInv`: besides types, what each step of a start, a teardown or a removal
  relies on (`WorkFits`), and that the file is a manifest that loads (`Fits`):
  every edit yields one that `Valid` accepts, from whatever `Valid` accepts
  (`LoadableAlways`). The lemmas go along `TeamManifest`, method by method.
* `Quiet`: a slot that is not active has no live session.
* `Lone`: of the starts of a card at most one has not come to its binding, and
  the card is not bound while it has not; as long as no start has overlapped
  another, or a binding by hand, of the same card (`raced`). `NoSlotLost` is
  claimed that far and no further (section 7).
* `Reachable`: `NoSlotLost` with less to hold on to. A start answers for the slot
  it has acquired only where no card does, between its acquisition and its
  binding and after a failure (`Grasped`); once bound, only an operator's command
  takes the slot out of the manifest while it is active, which `left` notes. By
  `Lone` a start's own binding displaces no other (`BindKeeps`).
* `Cleared`: what a teardown has done so far is still done as long as nobody
  else has given a command (`Clearing`): sessions that end, and reconciliations,
  only shrink what is left to do. It gives `TeardownCleanAlways`. That nobody
  did is seen by what has been `spent`, so commands must cost something.

Two theorems are about reconciliation. `SettlesAlways`: the second one changes
nothing; that it finds the same session for a card rests on "the latest session
on a slot" being one (`MaxExists`, by well-founded induction on indexes), and
on unbound cards staying as they are (`CardSettles`).
`OnlyOperatorsDecideAlways` compares a card before and after (`Decides`), under
any outcome of its verification. `UsesTablesAlways` is the refinement: each
step does one thing to slots and sessions at most (`StoreSteps`), and with
`Quiet` that thing is a step of `SlotTables`.

**EventBus.** `RingHoldsNewest`, for any capacity, batches, publishers and
readers. `NewestOfNewest` is what makes eviction one event at a time right: the
newest of what was kept and what is new are the newest of all, so what is
evicted once need not be looked at again. `NumberedContinues` is the same for
numbers: a batch is numbered from where the log ended.

For a reader, `ReaderInv` adds that what it has got is a part of the log in the
order of its numbers and ends at its cursor (`Follows`), and is all of it unless
the ring or the limit has made it skip (`slow`). An answer continues that, because the
ring is the tail of the log (`AnswerFollows`): `NothingMissedAlways`. With the
same lemmas each step of the bus is one of `EventLog`, a publication an append,
an answer a delivery (`BusIsALog`).

**Review.** `ReviewsAreRecent` and `ReviewsShowOverlaps`, for any slots, files and
lifetime of a list. What is shown is right when the lists it is made of are, so
the invariant has `ListsRecent` and `ListsComplete` for the cache beside
`ShownRecent` and `ShownComplete` for the screen. The two halves go the opposite
ways: an entry too many must have become clean since the listing, an entry that
is missing must have become dirty since, and a list expires before either is
old. `RefreshesAreSeen` is of what did not change since a refresh: its row is
`Accurate`, and a list that is kept is right (`Told`), because a refresh through
the `AppCore` drops the list that was kept before it.

**Mcp.** For any resources and tools, any number of calls, and a client that
asks without waiting for answers.

* `AnsweredInOrderAlways`. What is under way is one sequence of numbers
  (`Numbers`): the answers on their way, the wait for events, the requests not
  read yet. The invariant says that this is, number by number, what the client
  waits for (`InStep`), and three lemmas are enough for all methods: a line
  without a number may come or go anywhere (`ZerosAside`), a number that is
  sent is the youngest the client waits for (`AskedLast`), and the first of
  those under way is the oldest (`AnsweredFirst`). A client takes a number that
  is not in use; that there is one is a pigeonhole argument (`FreeIdIsFree`).
* `CoherentAlways`. At rest nothing is said of the way there, so the invariant
  (`Informed`) is about a resource that is stale: the last answer about a
  subscription that is under way, or else the client's own notes, agree with
  the server (`Known`), and if the resource is subscribed to and its change has
  an event, the client is going to read it, or to hear that it should: through
  a notification queued or sent, or through the answer to its subscription
  (`Told`). Nothing of this is left when all is at rest but `Coherent`.

**Tui.** For any slots, sessions, teams and cards, and any number of keys, changes
and snapshots that fail. `IInv` has five parts beside types, the last is `Named`.

* `UiOk`: the panels exclude each other and a terminal that takes keys is shown.
  Every handler keeps it (`HandleKeeps`, key by key); most do so by leaving the
  screen `Like` it was, as far as threads are concerned.
* `Counted`: the flag and the count in the status line are those of the threads
  under way. A turn takes those that are back (`JobsTaken`, `OneRead`).
* `Forward`: what a thread has read lies between what is shown and the store.
  That only one thread reads at a time makes it inductive, and with it
  `NeverBackAlways`: the snapshot that replaces another was asked for after it.
* `Drawn`: from drawing to the next turn cursors are `Within` their lists, and a
  terminal that takes keys shows a session that the screen shows as running.
  The card cursor is clamped by the number of cards of the team that the clamped
  team cursor is on, hence the order in `ClampedOk`.

Cursors are numbers and teams are ids: that the two fit is `OrderedPlaced`, which
says that the elements of an ordered finite set fill the places from 0 on, each its
own (an injection into as many numbers is a surjection). From it a cursor inside
a list is on an element of it (`NthByNameIn`), and the cursor on a team's new
place is on that team (`NthByNameFinds`): `CursorStaysAlways`.
`ActsOnNamedAlways` rests on `Named`: a dialog on the screen is what `last.named`
recorded when it was opened. Every step that changes the screen, a turn with what
it takes and clamps, a reload after a command, a panel that is followed, has to
leave an open dialog alone (`SameDialog`, a part of `Like`).

**Only model-checked.** Liveness (`CommandsEnd`, `EndNoticed`, `ClientsEnd`,
`ShutdownWorks`, `WaitersWake`, `Converges`, `Rests`), which the provers do not
reach. Every safety property that a passing run checks is a theorem. Of recursive
definitions the provers see nothing, `SelectSeq` of the standard modules included:
`EventBus`, `Mcp` and `Tui` select from sequences by index for that reason.

## 7. What the models show about the code

Shown by a run or a theorem:

* *Double grant.* `run_slot_acquire` chooses a warm slot at
  `core/commands/slot.rs:28` and marks it active at `:79`; two processes get the
  same one (`workspace_race`).
* *Stale sync.* A snapshot that lists a session between the insert of its row
  (`core/commands/session.rs:107`) and the creation of its tmux session
  (`core/runtime.rs:451`) marks it failed; the slot then accepts a second
  writer beside the live one (`workspace_stale_sync`). Where two callers are
  assumed away, a watcher is enough for this one.
* *Archive without a look.* `team archive` checks cards, not slots and sessions
  (`core/commands/team.rs:681`, `team_archive`); the checks are in
  `AppCore::archive_team`, which no front end calls. So it is with `team delete`
  (`:708`): "Bound slots must already be gone" (`docs/team-manifest-spec.md:252`)
  holds of `AppCore::delete_team` only.
* *Pressure without effect.* `execute_team_task` routes with an empty context
  (`core/app/team_ops.rs:527`), so the profile set by `awo runtime pressure`
  changes recommendations and no start (theorem `StartIgnoresPressure`);
  `app/handlers.rs:388` says it is "triggering automatic fallback to other
  options".

Met while modelling; the sequences are short, and none of them has a run:

* *Lost commits, dirty reuse.* Reusing a warm slot for a task of the same name
  resets the branch (`core/git.rs:106`), and acquire trusts the dirty flag of
  the store (`core/store.rs:403`), not the worktree.
* *Two daemons.* `cleanup` (`core/daemon.rs:238`) unlinks the lock file under
  its own lock, and runs twice, at the end of `run` and in `Drop`: the second
  time it removes the files of a daemon that has started in between.
* *Skipped events.* `poll` returns the head of the bus with a limited list of
  entries (`core/events.rs:569`); clients told to go on from it skip the rest.
* *A slot lost.* Two starts of one card at the same time both pass the check at
  `core/app/team_ops.rs:481`; the second displaces the slot of the first
  (`:655-663`), which stays active, perhaps with a running agent, and is named
  by nothing and told to nobody. The same happens when a slot is bound by hand to
  a card that is being started. `NoSlotLost` does not hold of such behaviours:
  it is claimed, and proved, as long as `raced` is false, which notes any two
  that overlap.
* *Teams.* The slot of a
  failed start is not always released: where somebody else has started a session in it
  meanwhile, the release is refused, which is a line in the log
  (`core/app/team_ops.rs:416`) that `left` notes. A crash after the
  mark leaves a card in progress without a slot. A member's slot assigned by
  hand is cleared by the next reconciliation. A card that shares its slot with
  another may get the other's session as its result. A teardown's cancel fails
  when its session ended since the plan. `start` does not refuse cards that are
  done, cancelled or superseded, nor archived teams. Events of a start or
  delegation are published twice (`core/app.rs:246`, `:265`, `:288`).
* *Manifest files.* A save is not atomic on disk: after a crash between truncate
  and write the file does not parse, and every snapshot fails in reconciliation
  (`core/app.rs:108`). `run_team_init` looks for a team before it takes the lock.
* *TUI.* After the start prompt the oldest session is opened, even when the
  start failed. Keys that act on the main view act on its hidden cursor while
  the dashboard is shown. Prompts do not capture the slot they were opened for;
  confirmations do (`ActsOnNamed`).
* *MCP.* A delegation changes the team without an event for it, reads of
  `awo://teams` show the events of a listing, which has none, and `awo://events`
  shows the oldest hundred events of the ring under the name of a tail.
* *Reviews.* A list that git could not give is kept as an empty one for five
  seconds, and hides overlaps as long. `review status`, `prune` and the removal of
  a repository drop no list. Only `AppCore::dispatch` drops any: the daemon and
  the MCP server, which call the `Dispatcher` directly, never do.

What holds is as telling: with one caller of commands no interleaving with any
number of watchers, no crash and no failing git command gives a slot two
writers in the table, takes a slot from a pending session, or loses work that
was there when the command looked; losers of the race to start a daemon leave
the winner alone; a command that timed out is never carried out twice; no event
wakes fewer waiters than it should; reconciliation settles at once and never
decides for an operator; a failed start that no other start of its card overlaps
leaves its slot within reach or says in the log that it could not release it;
manifest edits are atomic as long as nobody dies in one; a confirmed dialog acts on what
it named, whatever was refreshed behind it.

## 8. Limits

* Not modelled, and why: context packs, skills, configuration, fingerprints,
  diagnostics and drawing (sequential, no shared state to interleave on);
  ConPTY and the named pipes of Windows (a stub, and a platform the daemon
  supports only in part); the schema of the store and its busy retries; the
  coding of requests.
* The modules are not composed into one state space. `Team` and `Workspace` meet
  in `SlotTables`, for one caller of commands without watchers; `Team` has two
  operators because their *team* commands are what it is about, and takes their
  slot and session commands as if a daemon carried them out. What a watcher adds
  is in `WatchedSpec` and `workspace_stale_sync`; `Team` does not use it. `Review` takes slot commands as single steps too.
  `Tui` has one version number for the store.
* tmux commands are assumed to do what they are asked, except for a launch; a
  `kill-session` that fails while the session lives on is not modelled.
* An edit by a person between the last check of a release or delete and its
  forced removal of the worktree is excluded (`Edit`): the code leaves that
  window open, and no order of its own steps could close it.
* Ids never collide in the model; in the code they end in six characters of a
  timestamp and a counter (`core/slot.rs:131`).
* `ActiveOnBranch` is checked and proved without crashes: after a crash between detaching a
  worktree and storing the release the slot is active on no branch until it is
  released again.
* A dead daemon counts as dead at once; as a zombie of the client that started
  it, it would still answer `kill(pid, 0)` until that client ends, and other
  clients would go to direct mode.
* In `Review` the two readings of a filtered review, one for the cache and one
  for the answer, are one step, and all slots are warm.
* In `Mcp` a client's reading of a resource tells it everything that has
  changed, which flatters resources that show only counts.
