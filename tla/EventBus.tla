------------------------------ MODULE EventBus ------------------------------
(***************************************************************************)
(* The event bus of crates/awo-core/src/events.rs: a ring of the newest    *)
(* events behind a mutex, a condition variable for those who wait, and     *)
(* readers that keep a cursor (events.poll and events.wait, the watcher    *)
(* thread of the TUI).                                                     *)
(*                                                                         *)
(* One action is what happens under the mutex at once; a publisher         *)
(* notifies after it has released it.  Events are opaque.                  *)
(***************************************************************************)
EXTENDS Naturals, Sequences, FiniteSets

CONSTANTS
    Events,
    Readers,
    Publishers,
    Capacity,   \* of the ring
    Limits,     \* limits that readers pass
    MaxBatch,   \* bound: events published by one command
    MaxEvents   \* bound: events published altogether

ASSUME CapacityPositive == Capacity \in Nat \ {0}
ASSUME LimitsNatural == Limits \subseteq Nat
ASSUME BoundsNatural == MaxBatch \in Nat /\ MaxEvents \in Nat

VARIABLES
    ring,       \* the entries held, oldest first
    nextSeq,    \* the number of the next event
    pub,        \* where each publisher is
    rdr,        \* each reader with its cursor and the limit of its request
    log,        \* all events ever published (history)
    got,        \* what each reader received (history)
    slow        \* the readers that fell behind or cut a poll short (history)

vars == <<ring, nextSeq, pub, rdr, log, got, slow>>

EL == INSTANCE EventLog WITH Events <- Events, Readers <- Readers, log <- log, got <- got

-----------------------------------------------------------------------------

Entry == [seq: Nat \ {0}, event: Events]
Reader == [pc: {"idle", "poll", "wait", "waiting"}, since: Nat, limit: Limits \cup {0}]

NextSeqAsHead == nextSeq

HeadSeq == nextSeq - 1

Init ==
    /\ ring = <<>>
    /\ nextSeq = 1
    /\ pub = [p \in Publishers |-> "idle"]
    /\ rdr = [r \in Readers |-> [pc |-> "idle", since |-> 0, limit |-> 0]]
    /\ log = <<>>
    /\ got = [r \in Readers |-> <<>>]
    /\ slow = {}

\* The newest n entries of a sequence.
Newest(s, n) == IF Len(s) <= n THEN s ELSE SubSeq(s, Len(s) - n + 1, Len(s))

\* Numbering and eviction go entry by entry, which comes to this.
Evict(entries) == Newest(entries, Capacity)

NumberedSame(batch) == [i \in DOMAIN batch |-> [seq |-> nextSeq, event |-> batch[i]]]

Numbered(batch) == [i \in DOMAIN batch |-> [seq |-> nextSeq + i - 1, event |-> batch[i]]]

\* An empty batch takes no lock and wakes nobody.
Publish(p, batch) ==
    /\ pub[p] = "idle" /\ batch # <<>>
    /\ HeadSeq + Len(batch) <= MaxEvents
    /\ ring' = Evict(ring \o Numbered(batch))
    /\ nextSeq' = nextSeq + Len(batch)
    /\ log' = log \o batch
    /\ pub' = [pub EXCEPT ![p] = "notify"]
    /\ UNCHANGED <<rdr, got, slow>>

NotifyOne(p) ==
    /\ pub[p] = "notify"
    /\ pub' = [pub EXCEPT ![p] = "idle"]
    /\ LET waiting == {r \in Readers : rdr[r].pc = "waiting"}
       IN IF waiting = {} THEN UNCHANGED rdr
          ELSE \E r \in waiting : rdr' = [rdr EXCEPT ![r].pc = "wait"]
    /\ UNCHANGED <<ring, nextSeq, log, got, slow>>

Notify(p) ==
    /\ pub[p] = "notify"
    /\ pub' = [pub EXCEPT ![p] = "idle"]
    /\ rdr' = [r \in Readers |-> IF rdr[r].pc = "waiting"
                                 THEN [rdr[r] EXCEPT !.pc = "wait"] ELSE rdr[r]]
    /\ UNCHANGED <<ring, nextSeq, log, got, slow>>

-----------------------------------------------------------------------------

\* The entries of the ring at some indexes, in their order.
Nth(indexes, n) == CHOOSE i \in indexes : Cardinality({j \in indexes : j <= i}) = n

Selected(indexes) == [n \in 1..Cardinality(indexes) |-> ring[Nth(indexes, n)]]

NewerOrEqual(since) == Selected({i \in DOMAIN ring : ring[i].seq >= since})

Newer(since) == Selected({i \in DOMAIN ring : ring[i].seq > since})

\* EventBusInner::poll; the reader goes on from the head it is given.
Answer(r) ==
    LET newer == Newer(rdr[r].since)
        limit == rdr[r].limit
        cut == Len(newer) > limit
    IN /\ got' = [got EXCEPT ![r] = @ \o SubSeq(newer, 1, IF cut THEN limit ELSE Len(newer))]
       /\ slow' = IF cut \/ HeadSeq - rdr[r].since > Capacity THEN slow \cup {r} ELSE slow
       /\ rdr' = [rdr EXCEPT ![r].pc = "idle", ![r].since = HeadSeq, ![r].limit = 0]

\* Under the mutex throughout.
Poll(r) ==
    /\ rdr[r].pc = "poll"
    /\ Answer(r)
    /\ UNCHANGED <<ring, nextSeq, pub, log>>

\* Looks for news at first and whenever it is woken, and sleeps otherwise.
Wait(r) ==
    /\ rdr[r].pc = "wait"
    /\ IF HeadSeq <= rdr[r].since
       THEN rdr' = [rdr EXCEPT ![r].pc = "waiting"] /\ UNCHANGED <<got, slow>>
       ELSE Answer(r)
    /\ UNCHANGED <<ring, nextSeq, pub, log>>

\* The timeout of a wait is over; what is there is returned.
Timeout(r) ==
    /\ rdr[r].pc = "waiting"
    /\ Answer(r)
    /\ UNCHANGED <<ring, nextSeq, pub, log>>

Spurious(r) ==
    /\ rdr[r].pc = "waiting"
    /\ rdr' = [rdr EXCEPT ![r].pc = "wait"]
    /\ UNCHANGED <<ring, nextSeq, pub, log, got, slow>>

\* A reader calls poll or wait.
Request(r) ==
    /\ rdr[r].pc = "idle"
    /\ \E pc \in {"poll", "wait"}, limit \in Limits :
         rdr' = [rdr EXCEPT ![r].pc = pc, ![r].limit = limit]
    /\ UNCHANGED <<ring, nextSeq, pub, log, got, slow>>

-----------------------------------------------------------------------------

Batches == UNION {[1..n -> Events] : n \in 1..MaxBatch}

Next ==
    \/ \E p \in Publishers : Notify(p) \/ \E batch \in Batches : Publish(p, batch)
    \/ \E r \in Readers : Request(r) \/ Poll(r) \/ Wait(r) \/ Timeout(r) \/ Spurious(r)

Spec == Init /\ [][Next]_vars

\* A publisher notifies what it has published, a reader that runs goes on.
\* Nothing is assumed of the timeouts: a wait may be given a very long one.
FairSpec ==
    /\ Spec
    /\ \A p \in Publishers : WF_vars(Notify(p))
    /\ \A r \in Readers : WF_vars(Poll(r) \/ Wait(r))

-----------------------------------------------------------------------------

\* The bus, its callers and the history keep their types.
TypeOK ==
    /\ ring \in Seq(Entry) /\ Len(ring) <= Capacity
    /\ nextSeq \in Nat \ {0}
    /\ pub \in [Publishers -> {"idle", "notify"}]
    /\ rdr \in [Readers -> Reader]
    /\ log \in Seq(Events)
    /\ got \in [Readers -> Seq(Entry)]
    /\ slow \subseteq Readers

\* The ring holds the newest events of the log, as many as fit, each under its
\* own number: numbers have no gap and eviction takes the oldest.
RingIsTail ==
    /\ HeadSeq = Len(log)
    /\ ring = Newest([n \in 1..Len(log) |-> [seq |-> n, event |-> log[n]]], Capacity)

\* Numbers, order and single delivery: the bus implements the log.
ImplementsLog == EL!Spec

Received(r) == {got[r][i].seq : i \in DOMAIN got[r]}

\* A reader that never falls behind by more than the ring holds and never gets
\* less than is there receives every event up to its cursor.
NothingMissed ==
    \A r \in Readers \ slow : 1..rdr[r].since \subseteq Received(r)

\* An event wakes everyone who waits for it, without the help of a timeout.
WaitersWake ==
    \A r \in Readers : rdr[r].pc = "waiting" /\ HeadSeq > rdr[r].since ~> rdr[r].pc = "idle"

=============================================================================
