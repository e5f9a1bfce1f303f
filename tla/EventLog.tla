------------------------------ MODULE EventLog ------------------------------
(***************************************************************************)
(* What the event bus promises: events get the numbers 1, 2, 3... in the   *)
(* order of their publication, and every reader receives events of this    *)
(* log under their own numbers, in order, none of them twice.  A reader    *)
(* may miss some: the bus is bounded, and a poll may be limited.           *)
(***************************************************************************)
EXTENDS Naturals, Sequences

CONSTANTS Events, Readers

VARIABLES
    log,    \* all events published so far
    got     \* what each reader has received, oldest first

Init ==
    /\ log = <<>>
    /\ got = [r \in Readers |-> <<>>]

Extended(old, new) == Len(old) <= Len(new) /\ SubSeq(new, 1, Len(old)) = old

\* A batch is appended at once.
Publish ==
    /\ log' \in Seq(Events) /\ Extended(log, log')
    /\ UNCHANGED got

\* More entries for a reader: from the log, and newer than any it has.
Genuine(entries) ==
    \A i \in DOMAIN entries : /\ entries[i].seq \in 1..Len(log)
                              /\ entries[i].event = log[entries[i].seq]
Ordered(entries) ==
    \A i, j \in DOMAIN entries : i < j => entries[i].seq < entries[j].seq

Read(r) ==
    /\ Extended(got[r], got'[r])
    /\ Genuine(got'[r]) /\ Ordered(got'[r])
    /\ got' = [got EXCEPT ![r] = got'[r]]
    /\ UNCHANGED log

Next == Publish \/ \E r \in Readers : Read(r)

Spec == Init /\ [][Next]_<<log, got>>

=============================================================================
