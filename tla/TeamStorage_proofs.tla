------------------------- MODULE TeamStorage_proofs -------------------------
(***************************************************************************)
(* That the lock of module TeamStorage excludes, for any processes, and    *)
(* that the manifest file it guards implements module TeamFile.            *)
(***************************************************************************)
EXTENDS TeamStorage, TLAPS

-----------------------------------------------------------------------------
(* The invariant *)

\* What the manifest was when it was read, or was when it was deleted since.
Under(p) == IF proc[p].old = None THEN base ELSE proc[p].old

Made(p) ==
    \/ proc[p].kind = "init" /\ proc[p].copy = {}
    \/ /\ proc[p].kind = "edit"
       /\ Under(p).is = "whole"
       /\ \E e \in Edits : proc[p].copy = Under(p).edits \cup {e}

\* A process that is writing has the lock for itself, its file is truncated,
\* and what it writes is one edit on top of what there was.
Saving ==
    \A p \in Procs :
       /\ At(p, "write") => proc[p].kind # "load"
       /\ proc[p].linked => At(p, "write") /\ file = Torn /\ Made(p)

\* What an editor has in memory is what there is, unless it was deleted.
Copied ==
    \A p \in Procs :
       At(p, "read") /\ proc[p].kind = "edit" =>
          \/ file = Whole(proc[p].copy)
          \/ file = None /\ base = Whole(proc[p].copy)

IInv == TypeOK /\ Exclusive /\ Saving /\ Copied

LEMMA InitIInv == Init => IInv
  BY DEF Init, IInv, TypeOK, Exclusive, Saving, Copied, IdleProc, Proc, Kinds, Steps,
         Contents, Holds, Exclusively, At

-----------------------------------------------------------------------------
(* Types *)

LEMMA TypeStep == TypeOK /\ Exclusive /\ [Next]_vars => TypeOK'
<1> SUFFICES ASSUME TypeOK, Exclusive, [Next]_vars PROVE TypeOK'
  OBVIOUS
<1> USE DEF TypeOK, At
<1>0. IdleProc \in Proc /\ None \in Contents /\ Torn \in Contents
  BY DEF IdleProc, Proc, Kinds, Steps, Contents
<1>1. CASE UNCHANGED vars
  BY <1>1 DEF vars
<1>2. ASSUME NEW p \in Procs, Step(p) PROVE TypeOK'
  <2>0. proc[p] \in Proc
    OBVIOUS
  <2>1. CASE Begin(p)
    <3>1. PICK kind \in {"edit", "load"} :
             proc' = [proc EXCEPT ![p].pc = "open", ![p].kind = kind]
      BY <2>1 DEF Begin
    <3>2. proc' \in [Procs -> Proc]
      BY <2>0, <3>1 DEF Proc, Kinds, Steps
    <3> QED
      BY <2>1, <3>2 DEF Begin
  <2>2. CASE InitTeam(p)
    BY <2>0, <2>2 DEF InitTeam, Proc, Kinds, Steps
  <2>3. CASE OpenLock(p)
    <3>1. lock' = [there |-> TRUE, ino |-> 1]
      <4>1. CASE lock = [there |-> FALSE, ino |-> 0]
        BY <2>3, <4>1 DEF OpenLock
      <4>2. CASE lock = [there |-> TRUE, ino |-> 1]
        BY <2>3, <4>2 DEF OpenLock
      <4> QED
        BY <4>1, <4>2
    <3>2. proc' = [proc EXCEPT ![p].pc = "wait", ![p].fd = 1]
      <4>1. lock'.ino = 1
        BY <3>1
      <4> QED
        BY <2>3, <4>1 DEF OpenLock
    <3>3. proc' \in [Procs -> Proc]
      BY <2>0, <3>2 DEF Proc, Kinds, Steps
    <3> QED
      BY <2>3, <3>1, <3>3 DEF OpenLock
  <2>4. CASE TakeLock(p)
    BY <2>0, <2>4 DEF TakeLock, Goto, Proc, Kinds, Steps
  <2>5. CASE Read(p)
    <3>1. file.is = "whole" => file.edits \in SUBSET Edits
      BY DEF Contents, None, Torn, Whole
    <3>2. proc' \in [Procs -> Proc]
      <4>1. CASE file.is = "whole"
        BY <2>0, <2>5, <3>1, <4>1 DEF Read, Proc, Kinds, Steps
      <4>2. CASE file.is # "whole"
        BY <1>0, <2>5, <4>2 DEF Read
      <4> QED
        BY <4>1, <4>2
    <3> QED
      BY <2>5, <3>2 DEF Read
  <2>6. CASE Truncate(p)
    <3>1. PICK copy \in SUBSET Edits :
             proc' = [proc EXCEPT ![p].pc = "write", ![p].copy = copy,
                                  ![p].linked = TRUE, ![p].old = file]
      <4>1. PICK copy \in (IF proc[p].kind = "init" THEN {{}}
                           ELSE {proc[p].copy \cup {e} : e \in Edits}) :
               proc' = [proc EXCEPT ![p].pc = "write", ![p].copy = copy,
                                    ![p].linked = TRUE, ![p].old = file]
        BY <2>6 DEF Truncate
      <4>2. copy \in SUBSET Edits
        BY <2>0, <4>1 DEF Proc
      <4> QED
        BY <4>1, <4>2
    <3>2. proc' \in [Procs -> Proc]
      BY <2>0, <3>1 DEF Proc, Kinds, Steps
    <3> QED
      BY <1>0, <2>6, <3>2 DEF Truncate
  <2>7. CASE Write(p)
    <3>1. Whole(proc[p].copy) \in Contents
      BY <2>0 DEF Proc, Contents
    <3>2. proc' \in [Procs -> Proc]
      BY <1>0, <2>0, <2>7 DEF Write, Proc, Kinds, Steps
    <3> QED
      BY <2>7, <3>1, <3>2 DEF Write
  <2>8. CASE Unlock(p)
    BY <1>0, <2>8 DEF Unlock
  <2>9. CASE Delete(p)
    <3>1. proc' \in [Procs -> Proc]
      <4>1. \A q \in Procs : [proc[q] EXCEPT !.linked = FALSE] \in Proc
        BY DEF Proc
      <4> QED
        BY <2>9, <4>1 DEF Delete
    <3>2. Settled \in Contents
      <4>1. CASE \E q \in Procs : Writing(q)
        <5>1. (CHOOSE q \in Procs : Writing(q)) \in Procs
          BY <4>1
        <5>2. proc[CHOOSE q \in Procs : Writing(q)].old \in Contents
          BY <5>1 DEF Proc
        <5> QED
          BY <4>1, <5>2 DEF Settled
      <4> QED
        BY <4>1 DEF Settled
    <3> QED
      BY <1>0, <2>9, <3>1, <3>2 DEF Delete
  <2>10. CASE Crash(p)
    BY <1>0, <2>10 DEF Crash
  <2> QED
    BY <1>2, <2>1, <2>2, <2>3, <2>4, <2>5, <2>6, <2>7, <2>8, <2>9, <2>10 DEF Step
<1> QED
  BY <1>1, <1>2 DEF Next

-----------------------------------------------------------------------------
(* Exclusion *)

\* The lock file is never unlinked, so there is one inode to lock.
LEMMA ExclusiveStep == TypeOK /\ Exclusive /\ Saving /\ [Next]_vars => Exclusive'
<1> SUFFICES ASSUME TypeOK, Exclusive, Saving, [Next]_vars PROVE Exclusive'
  OBVIOUS
<1> USE DEF TypeOK, Exclusive, Exclusively, Holds, At
<1>1. CASE UNCHANGED vars
  BY <1>1 DEF vars
<1>2. ASSUME NEW p \in Procs, Step(p) PROVE Exclusive'
  <2>0. \A q \in Procs : proc[q] \in Proc
    OBVIOUS
  <2>1. CASE Begin(p)
    BY <2>0, <2>1 DEF Begin, Proc
  <2>2. CASE InitTeam(p)
    BY <2>0, <2>2 DEF InitTeam, Proc
  <2>3. CASE OpenLock(p)
    <3>1. lock' = [there |-> TRUE, ino |-> 1]
      <4>1. CASE lock = [there |-> FALSE, ino |-> 0]
        BY <2>3, <4>1 DEF OpenLock
      <4>2. CASE lock = [there |-> TRUE, ino |-> 1]
        BY <2>3, <4>2 DEF OpenLock
      <4> QED
        BY <4>1, <4>2
    <3>2. proc' = [proc EXCEPT ![p].pc = "wait", ![p].fd = 1]
      <4>1. lock'.ino = 1
        BY <3>1
      <4> QED
        BY <2>3, <4>1 DEF OpenLock
    <3>3. \A q \in Procs : q # p => proc'[q] = proc[q]
      BY <3>2
    <3>4. proc'[p].pc = "wait" /\ proc'[p].fd = 1
      BY <2>0, <3>2 DEF Proc
    <3>5. \A q \in Procs : Holds(q)' => q # p /\ Holds(q)
      BY <3>3, <3>4
    <3>6. \A q \in Procs : (Holds(q) \/ At(q, "wait")) => lock.ino = 1
      OBVIOUS
    <3> QED
      BY <3>1, <3>3, <3>4, <3>5, <3>6
  <2>4. CASE TakeLock(p)
    <3>1. \A q \in Procs : q # p => proc'[q] = proc[q]
      BY <2>4 DEF TakeLock, Goto
    <3>2. /\ proc'[p].pc = "locked" /\ proc'[p].fd = proc[p].fd
          /\ proc'[p].kind = proc[p].kind
      BY <2>0, <2>4 DEF TakeLock, Goto, Proc
    <3>3. lock' = lock /\ proc[p].pc = "wait"
      BY <2>4 DEF TakeLock
    <3>4. \A q \in Procs : q # p /\ Holds(q) => proc[p].kind = "load" /\ proc[q].kind = "load"
      BY <2>4, <3>3 DEF TakeLock, Compatible
    <3> QED
      BY <3>1, <3>2, <3>3, <3>4
  <2>5. CASE Read(p)
    BY <2>0, <2>5 DEF Read, IdleProc, Proc
  <2>6. CASE Truncate(p)
    <3>1. PICK copy : proc' = [proc EXCEPT ![p].pc = "write", ![p].copy = copy,
                                           ![p].linked = TRUE, ![p].old = file]
      BY <2>6 DEF Truncate
    <3>2. proc[p].pc \in {"locked", "read"}
      BY <2>6 DEF Truncate
    <3> QED
      BY <2>0, <2>6, <3>1, <3>2 DEF Truncate, Proc
  <2>7. CASE Write(p)
    BY <2>0, <2>7 DEF Write, Proc
  <2>8. CASE Unlock(p)
    BY <2>0, <2>8 DEF Unlock, IdleProc, Proc
  <2>9. CASE Delete(p)
    BY <2>0, <2>9 DEF Delete, Proc
  <2>10. CASE Crash(p)
    BY <2>0, <2>10 DEF Crash, IdleProc, Proc
  <2> QED
    BY <1>2, <2>1, <2>2, <2>3, <2>4, <2>5, <2>6, <2>7, <2>8, <2>9, <2>10 DEF Step
<1> QED
  BY <1>1, <1>2 DEF Next

-----------------------------------------------------------------------------
(* What is saved *)

\* A process that holds the lock to write is the only one to hold it.
LEMMA SavingStep ==
    TypeOK /\ Exclusive /\ Saving /\ Copied /\ [Next]_vars => Saving' /\ Copied'
<1> SUFFICES ASSUME TypeOK, Exclusive, Saving, Copied, [Next]_vars
             PROVE  Saving' /\ Copied'
  OBVIOUS
<1> USE DEF Saving, Copied, Made, Under, At
<1>0. \A q \in Procs : proc[q] \in Proc
  BY DEF TypeOK
<1>1. CASE UNCHANGED vars
  BY <1>1 DEF vars
<1>2. ASSUME NEW p \in Procs, Step(p) PROVE Saving' /\ Copied'
  <2>0. /\ proc \in [Procs -> Proc]
        /\ \A q, r \in Procs : Exclusively(q) /\ Holds(r) => q = r
    BY DEF TypeOK, Exclusive
  \* The steps that write no manifest.
  <2>1. ASSUME UNCHANGED <<file, base>>,
               \A q \in Procs : q # p => proc'[q] = proc[q],
               proc'[p].pc \notin {"read", "write"}, ~proc'[p].linked
        PROVE  Saving' /\ Copied'
    BY <2>1
  <2>2. proc[p].pc # "write" => ~proc[p].linked
    OBVIOUS
  <2>3. CASE Begin(p)
    BY <1>0, <2>0, <2>1, <2>2, <2>3, SMTT(60) DEF Begin, Proc
  <2>4. CASE InitTeam(p)
    BY <1>0, <2>0, <2>1, <2>2, <2>4 DEF InitTeam, Proc
  <2>5. CASE OpenLock(p)
    BY <1>0, <2>0, <2>1, <2>2, <2>5, SMTT(60) DEF OpenLock, Proc
  <2>6. CASE TakeLock(p)
    BY <1>0, <2>0, <2>1, <2>2, <2>6 DEF TakeLock, Goto, Proc
  <2>7. CASE Read(p)
    <3>1. CASE file.is # "whole"
      BY <2>0, <2>1, <2>7, <3>1 DEF Read, IdleProc
    <3>2. CASE file.is = "whole"
      <4>1. /\ proc'[p].pc = "read" /\ proc'[p].copy = file.edits /\ ~proc'[p].linked
            /\ \A q \in Procs : q # p => proc'[q] = proc[q]
            /\ UNCHANGED <<file, base>>
        BY <1>0, <2>0, <2>2, <2>7, <3>2 DEF Read, Proc
      <4>2. file = Whole(proc'[p].copy)
        BY <3>2, <4>1 DEF TypeOK, Contents, None, Torn, Whole
      <4> QED
        BY <4>1, <4>2
    <3> QED
      BY <3>1, <3>2
  <2>8. CASE Truncate(p)
    <3>1. PICK copy \in (IF proc[p].kind = "init" THEN {{}}
                         ELSE {proc[p].copy \cup {e} : e \in Edits}) :
             proc' = [proc EXCEPT ![p].pc = "write", ![p].copy = copy,
                                  ![p].linked = TRUE, ![p].old = file]
      BY <2>8 DEF Truncate
    <3>2. /\ proc'[p].pc = "write" /\ proc'[p].copy = copy
          /\ proc'[p].kind = proc[p].kind /\ proc'[p].old = file
          /\ \A q \in Procs : q # p => proc'[q] = proc[q]
      BY <1>0, <2>0, <3>1 DEF Proc
    <3>3. file' = Torn /\ UNCHANGED base
      BY <2>8 DEF Truncate
    <3>4. proc[p].pc \in {"locked", "read"} /\ proc[p].kind \in {"init", "edit"}
      BY <2>8 DEF Truncate
    <3>5. Exclusively(p)
      BY <3>4 DEF Exclusively, Holds
    <3>6. \A q \in Procs : q # p => proc[q].pc \notin {"read", "write"}
      BY <2>0, <3>5 DEF Holds
    <3>7. Made(p)'
      <4>1. CASE proc[p].kind = "init"
        BY <3>1, <3>2, <4>1
      <4>2. CASE proc[p].kind = "edit"
        <5>1. proc[p].pc = "read"
          BY <2>8, <4>2 DEF Truncate
        <5>2. PICK e \in Edits : copy = proc[p].copy \cup {e}
          BY <3>1, <4>2
        <5>3. (IF file = None THEN base ELSE file) = Whole(proc[p].copy)
          BY <4>2, <5>1 DEF None, Whole
        <5>4. Under(p)' = Whole(proc[p].copy)
          BY <3>2, <3>3, <5>3 DEF None
        <5>5. Under(p)'.is = "whole" /\ Under(p)'.edits = proc[p].copy
          BY <5>4 DEF Whole
        <5> QED
          BY <3>2, <4>2, <5>2, <5>5
      <4> QED
        BY <3>4, <4>1, <4>2
    <3>8. Saving'
      BY <3>2, <3>3, <3>4, <3>6, <3>7
    <3> QED
      BY <3>2, <3>6, <3>8
  <2>9. CASE Write(p)
    <3>1. /\ proc'[p].pc = "done" /\ ~proc'[p].linked
          /\ \A q \in Procs : q # p => proc'[q] = proc[q]
          /\ UNCHANGED base
      BY <1>0, <2>0, <2>9 DEF Write, Proc
    <3>2. Exclusively(p)
      BY <2>9 DEF Write, Exclusively, Holds
    <3>3. \A q \in Procs : q # p => proc[q].pc \notin {"read", "write"}
      BY <2>0, <3>2 DEF Holds
    <3> QED
      BY <3>1, <3>3
  <2>10. CASE Unlock(p)
    BY <2>0, <2>1, <2>10 DEF Unlock, IdleProc
  <2>11. CASE Delete(p)
    <3>1. /\ file' = None /\ base' = Settled /\ file # None
          /\ \A q \in Procs : /\ proc'[q].pc = proc[q].pc
                               /\ proc'[q].kind = proc[q].kind
                               /\ proc'[q].copy = proc[q].copy
                               /\ ~proc'[q].linked
      BY <1>0, <2>11 DEF Delete, Proc
    <3>2. ASSUME NEW q \in Procs, proc[q].pc = "read", proc[q].kind = "edit"
          PROVE  base' = Whole(proc[q].copy)
      <4>1. Exclusively(q)
        BY <3>2 DEF Exclusively, Holds
      <4>2. \A r \in Procs : ~Writing(r)
        BY <2>0, <3>2, <4>1 DEF Writing, Holds
      <4>3. Settled = file
        BY <4>2 DEF Settled
      <4> QED
        BY <3>1, <3>2, <4>3
    <3> QED
      BY <3>1, <3>2
  <2>12. CASE Crash(p)
    BY <2>0, <2>1, <2>12 DEF Crash, IdleProc
  <2> QED
    BY <1>2, <2>3, <2>4, <2>5, <2>6, <2>7, <2>8, <2>9, <2>10, <2>11, <2>12 DEF Step
<1> QED
  BY <1>1, <1>2 DEF Next

\* The lock of storage.rs holds readers off a writer and writers off each
\* other, for any number of processes that come, edit, delete and die.
THEOREM LockExcludes == Spec => [](TypeOK /\ Exclusive)
<1>1. IInv /\ [Next]_vars => IInv'
  BY TypeStep, ExclusiveStep, SavingStep DEF IInv
<1>2. IInv => TypeOK /\ Exclusive
  BY DEF IInv
<1> QED
  BY InitIInv, <1>1, <1>2, PTL DEF Spec

-----------------------------------------------------------------------------
(* Atomicity *)

\* What a manifest counts as: what it was while somebody is writing it.
SettledIs ==
    /\ \A p \in Procs : Writing(p) => Settled = proc[p].old
    /\ (\A p \in Procs : ~Writing(p)) => Settled = file

LEMMA SettledIsOld == IInv => SettledIs
<1> SUFFICES ASSUME IInv PROVE SettledIs
  OBVIOUS
<1>1. ASSUME NEW p \in Procs, Writing(p) PROVE Settled = proc[p].old
  <2>1. \A q \in Procs : Writing(q) => q = p
    BY <1>1 DEF IInv, Exclusive, Saving, Exclusively, Holds, Writing, At
  <2>2. (CHOOSE q \in Procs : Writing(q)) = p
    BY <1>1, <2>1
  <2> QED
    BY <1>1, <2>2 DEF Settled
<1>2. (\A p \in Procs : ~Writing(p)) => Settled = file
  BY DEF Settled
<1> QED
  BY <1>1, <1>2 DEF SettledIs

\* A step of a process is an edit, a creation, a deletion, a loss or a load
\* of the whole manifest, or nothing to anyone else.
LEMMA AtomicStep ==
    IInv /\ SettledIs /\ SettledIs' /\ [Next]_vars => [TF!Next]_TF!vars
<1> SUFFICES ASSUME IInv, SettledIs, SettledIs', [Next]_vars PROVE [TF!Next]_TF!vars
  OBVIOUS
<1> USE DEF At
<1>0. /\ proc \in [Procs -> Proc] /\ \A q \in Procs : proc[q] \in Proc
      /\ \A q, r \in Procs : Exclusively(q) /\ Holds(r) => q = r
      /\ \A q \in Procs : proc[q].linked => proc[q].pc = "write"
  BY DEF IInv, TypeOK, Exclusive, Saving
<1>1. /\ \A p \in Procs : Writing(p) => Settled = proc[p].old
      /\ (\A p \in Procs : ~Writing(p)) => Settled = file
  BY DEF SettledIs
<1>2. /\ \A p \in Procs : Writing(p)' => Settled' = proc'[p].old
      /\ (\A p \in Procs : ~Writing(p)') => Settled' = file'
  BY DEF SettledIs
\* Steps that leave the file and those who write it alone.
<1>3. ASSUME file' = file,
             \A q \in Procs : Writing(q)' <=> Writing(q),
             \A q \in Procs : Writing(q) => proc'[q].old = proc[q].old
      PROVE  Settled' = Settled
  <2>1. CASE \E q \in Procs : Writing(q)
    BY <1>1, <1>2, <1>3, <2>1
  <2>2. CASE \A q \in Procs : ~Writing(q)
    BY <1>1, <1>2, <1>3, <2>2
  <2> QED
    BY <2>1, <2>2
<1>4. CASE UNCHANGED vars
  <2>1. Settled' = Settled
    BY <1>3, <1>4 DEF vars, Writing
  <2> QED
    BY <1>4, <2>1 DEF vars, TF!vars
<1>5. ASSUME NEW p \in Procs, Step(p) PROVE [TF!Next]_TF!vars
  \* The steps that neither write nor read the manifest.
  <2>1. ASSUME UNCHANGED <<file, base, seen>>,
               \A q \in Procs : q # p => proc'[q] = proc[q],
               ~proc[p].linked, ~proc'[p].linked
        PROVE  UNCHANGED TF!vars
    BY <1>3, <2>1 DEF Writing, TF!vars
  <2>2. proc[p].pc # "write" => ~proc[p].linked
    BY <1>0
  <2>3. CASE Begin(p)
    BY <1>0, <2>1, <2>2, <2>3 DEF Begin, Proc
  <2>4. CASE InitTeam(p)
    BY <1>0, <2>1, <2>2, <2>4 DEF InitTeam, Proc
  <2>5. CASE OpenLock(p)
    BY <1>0, <2>1, <2>2, <2>5 DEF OpenLock, Proc
  <2>6. CASE TakeLock(p)
    BY <1>0, <2>1, <2>2, <2>6 DEF TakeLock, Goto, Proc
  <2>7. CASE Read(p)
    <3>1. /\ \A q \in Procs : q # p => proc'[q] = proc[q]
          /\ ~proc[p].linked /\ ~proc'[p].linked
      BY <1>0, <2>2, <2>7 DEF Read, IdleProc, Proc
    <3>2. \A q \in Procs : ~Writing(q)
      BY <1>0, <2>7 DEF Read, Writing, Holds, Exclusively, IInv, Saving
    <3>3. Settled = file /\ Settled' = Settled
      BY <1>1, <1>3, <2>7, <3>1, <3>2 DEF Read, Writing
    <3> QED
      BY <2>7, <3>3 DEF Read, TF!Next, TF!Load
  <2>8. CASE Truncate(p)
    <3>1. PICK copy : proc' = [proc EXCEPT ![p].pc = "write", ![p].copy = copy,
                                           ![p].linked = TRUE, ![p].old = file]
      BY <2>8 DEF Truncate
    <3>2. Writing(p)' /\ proc'[p].old = file
      BY <1>0, <3>1 DEF Writing, Proc
    <3>3. Exclusively(p) /\ Holds(p) /\ proc[p].pc # "write"
      BY <2>8 DEF Truncate, Exclusively, Holds
    <3>4. \A q \in Procs : ~Writing(q)
      BY <1>0, <3>3 DEF Writing, Holds
    <3>5. Settled' = Settled
      BY <1>1, <1>2, <3>2, <3>4
    <3> QED
      BY <2>8, <3>5 DEF Truncate, TF!vars
  <2>9. CASE Write(p)
    <3>1. /\ proc'[p].pc = "done"
          /\ \A q \in Procs : q # p => proc'[q] = proc[q]
          /\ UNCHANGED <<base, seen>>
      BY <1>0, <2>9 DEF Write, Proc
    <3>2. proc[p].pc = "write" /\ proc[p].kind # "load"
      BY <2>9 DEF Write, IInv, Saving
    <3>3. \A q \in Procs : q # p => ~Writing(q)
      BY <1>0, <3>2 DEF Writing, Holds, Exclusively
    <3>4. Settled' = file'
      BY <1>2, <3>1, <3>3 DEF Writing
    <3>5. CASE ~proc[p].linked
      <4>1. Settled = file /\ file' = file
        BY <1>1, <2>9, <3>3, <3>5 DEF Write, Writing
      <4> QED
        BY <3>1, <3>4, <4>1 DEF TF!vars
    <3>6. CASE proc[p].linked
      <4>1. Settled = proc[p].old /\ Settled' = Whole(proc[p].copy)
        BY <1>1, <2>9, <3>2, <3>4, <3>6 DEF Write, Writing
      <4>2. Made(p)
        BY <3>6 DEF IInv, Saving
      <4>3. CASE proc[p].kind = "init"
        <5>1. TF!Create
          BY <3>1, <4>1, <4>2, <4>3 DEF Made, TF!Create, Whole, TF!Whole
        <5> QED
          BY <5>1 DEF TF!Next
      <4>4. CASE proc[p].kind = "edit"
        <5>1. Under(p) = TF!Base
          BY <4>1 DEF Under, TF!Base, None, TF!None
        <5>2. TF!Edit
          BY <3>1, <4>1, <4>2, <4>4, <5>1 DEF Made, TF!Edit, Whole, TF!Whole
        <5> QED
          BY <5>2 DEF TF!Next
      <4> QED
        BY <4>2, <4>3, <4>4 DEF Made
    <3> QED
      BY <1>0, <3>5, <3>6
  <2>10. CASE Unlock(p)
    BY <1>0, <2>1, <2>2, <2>10 DEF Unlock, IdleProc
  <2>11. CASE Delete(p)
    <3>1. \A q \in Procs : ~Writing(q)'
      BY <1>0, <2>11 DEF Delete, Writing, Proc
    <3>2. Settled' = None /\ base' = Settled /\ seen' = seen
      BY <1>2, <2>11, <3>1 DEF Delete
    <3> QED
      BY <3>2 DEF TF!Next, TF!Delete, None, TF!None
  <2>12. CASE Crash(p)
    <3>1. /\ \A q \in Procs : q # p => proc'[q] = proc[q]
          /\ ~proc'[p].linked /\ UNCHANGED <<file, base, seen>>
      BY <1>0, <2>12 DEF Crash, IdleProc
    <3>2. CASE ~proc[p].linked
      BY <2>1, <3>1, <3>2
    <3>3. CASE proc[p].linked
      <4>1. proc[p].pc = "write" /\ proc[p].kind # "load" /\ file = Torn
        BY <3>3 DEF IInv, Saving
      <4>2. \A q \in Procs : ~Writing(q)'
        BY <1>0, <3>1, <4>1 DEF Writing, Holds, Exclusively
      <4>3. Settled' = Torn
        BY <1>2, <3>1, <4>1, <4>2
      <4> QED
        BY <3>1, <4>3 DEF TF!Next, TF!Tear, Torn, TF!Torn
    <3> QED
      BY <1>0, <3>2, <3>3
  <2> QED
    BY <1>5, <2>3, <2>4, <2>5, <2>6, <2>7, <2>8, <2>9, <2>10, <2>11, <2>12 DEF Step
<1> QED
  BY <1>4, <1>5 DEF Next

\* Whoever loads, edits, creates or deletes a manifest does it at one instant,
\* although storage.rs opens, locks, reads, truncates and writes: no edit is
\* made to anything but the manifest as it is, nobody loads half of one, and
\* the manifest is torn by nothing but the death of its writer.
THEOREM StorageIsAtomic == Spec => Atomic
<1>1. IInv /\ [Next]_vars => IInv'
  BY TypeStep, ExclusiveStep, SavingStep DEF IInv
<1>2. Init => TF!Init
  <2> SUFFICES ASSUME Init PROVE TF!Init
    OBVIOUS
  <2>1. \A p \in Procs : ~Writing(p)
    BY DEF Init, Writing, At, IdleProc
  <2>2. Settled = None
    BY <2>1 DEF Init, Settled
  <2> QED
    BY <2>2 DEF Init, TF!Init, None, TF!None
<1> QED
  BY InitIInv, <1>1, <1>2, SettledIsOld, AtomicStep, PTL DEF Spec, Atomic, TF!Spec

=============================================================================
