---------------------------- MODULE TeamStorage -----------------------------
(***************************************************************************)
(* The manifest file of one team and the lock file beside it, as           *)
(* crates/awo-core/src/team/storage.rs reads and writes them for several   *)
(* processes: the CLI, the daemon, the TUI and its snapshot threads, the   *)
(* MCP server.                                                             *)
(*                                                                         *)
(* One action is one system call, or one run of them that no other process *)
(* can tell from one.  A save truncates the file and then writes it.  The  *)
(* system drops the lock of a process that dies.                           *)
(***************************************************************************)
EXTENDS Naturals

CONSTANTS
    Procs,
    Edits       \* a manifest is the set of the edits made to it

VARIABLES
    file,   \* the manifest file: Whole, None, or Torn while it is no TOML
    lock,   \* the lock file: whether its path exists, and its inode
    proc,   \* what each process is doing
    base,   \* the manifest deleted last (history)
    seen    \* what each process has read last (history)

vars == <<file, lock, proc, base, seen>>

-----------------------------------------------------------------------------

None == [is |-> "none", edits |-> {}]
Torn == [is |-> "torn", edits |-> {}]
Whole(edits) == [is |-> "whole", edits |-> edits]
Contents == {None, Torn} \cup {Whole(edits) : edits \in SUBSET Edits}

\* Guards edit, loads take the lock shared, and save_team_manifest is told
\* what to write.
Kinds == {"edit", "load", "init"}
Steps == {"idle", "open", "wait", "locked", "read", "write", "done"}

\* fd: the inode of the lock file it has open.  copy: the manifest in memory.
\* linked: the file it is writing is still the one under the path.  old: what
\* the file was before (history).
Proc == [pc: Steps, kind: Kinds, fd: Nat, copy: SUBSET Edits,
         linked: BOOLEAN, old: Contents]
IdleProc == [pc |-> "idle", kind |-> "load", fd |-> 0, copy |-> {},
             linked |-> FALSE, old |-> None]

Init ==
    /\ file = None
    /\ lock = [there |-> FALSE, ino |-> 0]
    /\ proc = [p \in Procs |-> IdleProc]
    /\ base = None
    /\ seen = [p \in Procs |-> None]

At(p, pc) == proc[p].pc = pc
Goto(p, pc) == proc' = [proc EXCEPT ![p].pc = pc]

Holds(p) == proc[p].pc \in {"locked", "read", "write", "done"}
Exclusively(p) == Holds(p) /\ proc[p].kind # "load"

-----------------------------------------------------------------------------
(* Operations *)

\* TeamManifestGuard::load and load_team_manifest begin
Begin(p) ==
    /\ At(p, "idle")
    /\ \E kind \in {"edit", "load"} :
          proc' = [proc EXCEPT ![p].pc = "open", ![p].kind = kind]
    /\ UNCHANGED <<file, lock, base, seen>>

\* run_team_init looks whether there is a manifest before it takes the lock.
InitTeam(p) ==
    /\ At(p, "idle")
    /\ \E force \in BOOLEAN : file = None \/ force
    /\ proc' = [proc EXCEPT ![p].pc = "open", ![p].kind = "init", ![p].copy = {}]
    /\ UNCHANGED <<file, lock, base, seen>>

\* open_team_manifest_lock: the lock file is created if it is not there.
OpenLock(p) ==
    /\ At(p, "open")
    /\ lock' = IF lock.there THEN lock ELSE [there |-> TRUE, ino |-> lock.ino + 1]
    /\ proc' = [proc EXCEPT ![p].pc = "wait", ![p].fd = lock'.ino]
    /\ UNCHANGED <<file, base, seen>>

\* lock_exclusive and lock_shared, of fs2: by inode.
CompatibleLoads(p, q) == proc[p].kind = "load"

Compatible(p, q) == proc[p].kind = "load" /\ ~Exclusively(q)

TakeLock(p) ==
    /\ At(p, "wait")
    /\ \A q \in Procs \ {p} : Holds(q) /\ proc[q].fd = proc[p].fd => Compatible(p, q)
    /\ Goto(p, "locked")
    /\ UNCHANGED <<file, lock, base, seen>>

\* read_team_manifest_unlocked: no file and a torn file are errors.
Read(p) ==
    /\ At(p, "locked") /\ proc[p].kind # "init"
    /\ seen' = [seen EXCEPT ![p] = file]
    /\ proc' = [proc EXCEPT ![p] = IF file.is # "whole" THEN IdleProc
                                   ELSE [@ EXCEPT !.pc = "read", !.copy = file.edits]]
    /\ UNCHANGED <<file, lock, base>>

\* write_team_manifest_unlocked: fs::write creates or truncates the file, then
\* writes it.
Truncate(p) ==
    /\ IF proc[p].kind = "init" THEN At(p, "locked")
       ELSE At(p, "read") /\ proc[p].kind = "edit"
    /\ \E copy \in (IF proc[p].kind = "init" THEN {{}}
                    ELSE {proc[p].copy \cup {e} : e \in Edits}) :
          proc' = [proc EXCEPT ![p].pc = "write", ![p].copy = copy,
                               ![p].linked = TRUE, ![p].old = file]
    /\ file' = Torn
    /\ UNCHANGED <<lock, base, seen>>

Write(p) ==
    /\ At(p, "write")
    /\ file' = IF proc[p].linked THEN Whole(proc[p].copy) ELSE file
    /\ proc' = [proc EXCEPT ![p].pc = "done", ![p].linked = FALSE, ![p].old = None]
    /\ UNCHANGED <<lock, base, seen>>

\* The guard or the lock file is dropped; nothing need have been saved.
Unlock(p) ==
    /\ At(p, "read") \/ At(p, "done")
    /\ proc' = [proc EXCEPT ![p] = IdleProc]
    /\ UNCHANGED <<file, lock, base, seen>>

-----------------------------------------------------------------------------
(* Deletion and death *)

\* The manifest as it is between saves.
Writing(p) == At(p, "write") /\ proc[p].linked
Settled ==
    IF \E p \in Procs : Writing(p) THEN proc[CHOOSE p \in Procs : Writing(p)].old
    ELSE file

\* As remove_team_manifest does, for AppCore::delete_team, which nobody calls.
DeleteUnlinks(p) ==
    /\ At(p, "idle")
    /\ file # None
    /\ \A q \in Procs : ~(Holds(q) /\ lock.there /\ proc[q].fd = lock.ino)
    /\ file' = None
    /\ lock' = [lock EXCEPT !.there = FALSE]
    /\ base' = file
    /\ UNCHANGED <<proc, seen>>

\* run_team_delete takes no lock.
Delete(p) ==
    /\ At(p, "idle")
    /\ file # None
    /\ file' = None
    /\ base' = Settled
    /\ proc' = [q \in Procs |-> [proc[q] EXCEPT !.linked = FALSE]]
    /\ UNCHANGED <<lock, seen>>

Crash(p) ==
    /\ ~At(p, "idle")
    /\ proc' = [proc EXCEPT ![p] = IdleProc]
    /\ UNCHANGED <<file, lock, base, seen>>

Step(p) ==
    \/ Begin(p) \/ InitTeam(p) \/ OpenLock(p) \/ TakeLock(p) \/ Read(p)
    \/ Truncate(p) \/ Write(p) \/ Unlock(p) \/ Delete(p) \/ Crash(p)

Next == \E p \in Procs : Step(p)

Spec == Init /\ [][Next]_vars

-----------------------------------------------------------------------------
(* Properties *)

\* The variables keep their types, and the lock file, once created, stays.
TypeOK ==
    /\ file \in Contents
    /\ lock \in {[there |-> FALSE, ino |-> 0], [there |-> TRUE, ino |-> 1]}
    /\ proc \in [Procs -> Proc]
    /\ base \in Contents
    /\ seen \in [Procs -> Contents]

\* Nobody holds the lock beside a process that may write the manifest, and
\* nobody waits for a lock file that newcomers do not see.
Exclusive ==
    /\ \A p, q \in Procs : Exclusively(p) /\ Holds(q) => p = q
    /\ \A p \in Procs : Holds(p) \/ At(p, "wait") => lock.there /\ proc[p].fd = lock.ino

\* Edits are atomic: none is lost under another one and no reader sees half
\* of one.
TF == INSTANCE TeamFile WITH
    Procs <- Procs, Edits <- Edits,
    file <- Settled, base <- base, seen <- seen

Atomic == TF!Spec

=============================================================================
