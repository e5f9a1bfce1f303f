----------------------------- MODULE SlotTables -----------------------------
(***************************************************************************)
(* What the commands on slots and sessions promise those who use them:     *)
(* each takes effect on the tables of the store in one step, or in the     *)
(* three of a repository's removal, and only when the tables then allow    *)
(* it.                                                                     *)
(*                                                                         *)
(* Module Workspace has the commands step by step and shows for which      *)
(* callers they keep the promise; module Team relies on it.                *)
(***************************************************************************)
CONSTANTS Slots, Sessions

VARIABLES
    repo,   \* is the repository registered?
    slot,   \* the status of each slot
    sess    \* the slot, the access and the status of each session

vars == <<repo, slot, sess>>

Live == {"prepared", "running"}
Ended == {"completed", "failed", "cancelled"}
Absent == [status |-> "absent"]
Row(s, ro, status) == [slot |-> s, ro |-> ro, status |-> status]

Init ==
    /\ repo = TRUE
    /\ slot = [s \in Slots |-> "absent"]
    /\ sess = [x \in Sessions |-> Absent]

LiveOn(s) == {x \in Sessions : sess[x].status \in Live /\ sess[x].slot = s}
Free(s) == LiveOn(s) = {}
Vacant == \A s \in Slots : slot[s] # "active" /\ Free(s)

ChangeSlot(s, status) == slot' = [slot EXCEPT ![s] = status] /\ UNCHANGED <<repo, sess>>
ChangeSession(x, row) == sess' = [sess EXCEPT ![x] = row] /\ UNCHANGED <<repo, slot>>

Acquire(s) == repo /\ slot[s] \in {"absent", "released"} /\ Free(s) /\ ChangeSlot(s, "active")

Release(s) == repo /\ slot[s] # "absent" /\ Free(s) /\ ChangeSlot(s, "released")

Delete(s) == slot[s] \in {"released", "missing"} /\ Free(s) /\ ChangeSlot(s, "absent")

\* A worktree is found to be gone.
Miss(s) == slot[s] # "absent" /\ ChangeSlot(s, "missing")

\* A launch may fail at once.
Start(x, s, ro) ==
    /\ repo /\ slot[s] = "active"
    /\ sess[x] = Absent
    /\ ro \/ \A y \in LiveOn(s) : sess[y].ro
    /\ \E status \in Live \cup {"failed"} : ChangeSession(x, Row(s, ro, status))

End(x) ==
    \E status \in Ended :
        /\ sess[x].status = "running" \/ (sess[x].status = "prepared" /\ status = "cancelled")
        /\ ChangeSession(x, [sess[x] EXCEPT !.status = status])

Forget(x) == sess[x].status \in Ended /\ ChangeSession(x, Absent)

\* The removal of a repository.
ForgetAll == Vacant /\ sess' = [x \in Sessions |-> Absent] /\ UNCHANGED <<repo, slot>>
DeleteAll == Vacant /\ slot' = [s \in Slots |-> "absent"] /\ UNCHANGED <<repo, sess>>
Unregister ==
    /\ Vacant /\ \A s \in Slots : slot[s] = "absent"
    /\ repo' = FALSE /\ UNCHANGED <<slot, sess>>
Register == repo' = TRUE /\ UNCHANGED <<slot, sess>>

Next ==
    \/ \E s \in Slots : Acquire(s) \/ Release(s) \/ Delete(s) \/ Miss(s)
    \/ \E x \in Sessions, s \in Slots, ro \in BOOLEAN : Start(x, s, ro)
    \/ \E x \in Sessions : End(x) \/ Forget(x)
    \/ ForgetAll \/ DeleteAll \/ Unregister \/ Register

Spec == Init /\ [][Next]_vars

-----------------------------------------------------------------------------
(* The promise that is left beside programs that take snapshots, each of   *)
(* which stores the end of sessions that it has read as running before.    *)
(* Slots keep theirs; what is told of a session may change once more.      *)

\* A session that has ended, or was forgotten, since it was read.
Rewrite(x) ==
    /\ sess[x].status \in Ended \cup {"absent"}
    /\ \E s \in Slots, ro \in BOOLEAN, status \in Ended :
         /\ IF sess[x] = Absent THEN status # "cancelled"
            ELSE sess[x].slot = s /\ sess[x].ro = ro
         /\ ChangeSession(x, Row(s, ro, status))

\* A launch that was found ended before it had begun.
Revive(x) ==
    LET s == sess[x].slot
    IN /\ repo /\ sess[x].status \in Ended
       /\ s \in Slots /\ slot[s] = "active"
       /\ sess[x].ro \/ \A y \in LiveOn(s) : sess[y].ro
       /\ ChangeSession(x, [sess[x] EXCEPT !.status = "running"])

WatchedNext == Next \/ \E x \in Sessions : Rewrite(x) \/ Revive(x)

WatchedSpec == Init /\ [][WatchedNext]_vars

=============================================================================
