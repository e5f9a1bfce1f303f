------------------------------ MODULE TeamFile ------------------------------
(***************************************************************************)
(* What the storage of team manifests promises its callers: the manifest   *)
(* of a team changes whole edit by whole edit, and those who load it see   *)
(* it between two of them.                                                 *)
(*                                                                         *)
(* Three things it does not promise.  A process that dies in a save leaves *)
(* a torn file.  A deletion does not wait for anybody, so an edit that is  *)
(* under way then brings the team back, with all its edits.  A team may be *)
(* created over another one.                                               *)
(***************************************************************************)
CONSTANTS
    Procs,
    Edits       \* a manifest is the set of the edits made to it

VARIABLES
    file,   \* the manifest, None or Torn
    base,   \* what was deleted last
    seen    \* what each process loaded last

vars == <<file, base, seen>>

None == [is |-> "none", edits |-> {}]
Torn == [is |-> "torn", edits |-> {}]
Whole(edits) == [is |-> "whole", edits |-> edits]

Init ==
    /\ file = None
    /\ base = None
    /\ seen = [p \in Procs |-> None]

Create == file' = Whole({}) /\ UNCHANGED <<base, seen>>

Base == IF file = None THEN base ELSE file

Edit ==
    /\ Base.is = "whole"
    /\ \E e \in Edits : file' = Whole(Base.edits \cup {e})
    /\ UNCHANGED <<base, seen>>

Delete == file' = None /\ base' = file /\ UNCHANGED seen

Tear == file' = Torn /\ UNCHANGED <<base, seen>>

Load(p) == seen' = [seen EXCEPT ![p] = file] /\ UNCHANGED <<file, base>>

Next == Create \/ Edit \/ Delete \/ Tear \/ \E p \in Procs : Load(p)

Spec == Init /\ [][Next]_vars

=============================================================================
