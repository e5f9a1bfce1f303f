-------------------------- MODULE EventBus_proofs --------------------------
(***************************************************************************)
(* That the ring of module EventBus holds the newest events under their    *)
(* own numbers, and that readers receive what EventLog promises, all of it *)
(* if they keep up, for every capacity and any publishers and readers.     *)
(***************************************************************************)
EXTENDS EventBus, FiniteSetTheorems, SequenceTheorems, TLAPS

-----------------------------------------------------------------------------
(* The newest entries of a sequence *)

\* x is the last n entries of s, or all of them.
IsTail(x, s, n) ==
    /\ Len(x) = IF Len(s) <= n THEN Len(s) ELSE n
    /\ \A i \in 1..Len(x) : x[i] = s[Len(s) - Len(x) + i]

\* x is s followed by t.
IsConcat(x, s, t) ==
    /\ Len(x) = Len(s) + Len(t)
    /\ \A i \in 1..Len(s) : x[i] = s[i]
    /\ \A i \in 1..Len(t) : x[Len(s) + i] = t[i]

LEMMA NewestEntries ==
    ASSUME NEW S, NEW s \in Seq(S), NEW n \in Nat
    PROVE  Newest(s, n) \in Seq(S) /\ IsTail(Newest(s, n), s, n)
<1>0. Len(s) \in Nat
  BY LenProperties
<1>1. CASE Len(s) <= n
  BY <1>0, <1>1 DEF Newest, IsTail
<1>2. CASE Len(s) > n
  <2>1. Newest(s, n) = SubSeq(s, Len(s) - n + 1, Len(s))
    BY <1>0, <1>2 DEF Newest
  <2>2. Len(s) - n + 1 \in Int /\ \A i \in (Len(s) - n + 1)..Len(s) : s[i] \in S
    BY <1>0, <1>2, ElementOfSeq
  <2>3. /\ SubSeq(s, Len(s) - n + 1, Len(s)) \in Seq(S)
        /\ Len(SubSeq(s, Len(s) - n + 1, Len(s))) = n
        /\ \A i \in 1..n : SubSeq(s, Len(s) - n + 1, Len(s))[i] = s[Len(s) - n + i]
    BY <1>0, <1>2, <2>2, SubSeqProperties
  <2> QED
    BY <1>0, <1>2, <2>1, <2>3 DEF IsTail
<1> QED
  BY <1>0, <1>1, <1>2

LEMMA ConcatEntries ==
    ASSUME NEW S, NEW s \in Seq(S), NEW t \in Seq(S)
    PROVE  s \o t \in Seq(S) /\ IsConcat(s \o t, s, t)
<1>1. Len(s) \in Nat /\ Len(t) \in Nat
  BY LenProperties
<1>2. /\ s \o t \in Seq(S)
      /\ Len(s \o t) = Len(s) + Len(t)
      /\ \A i \in 1..(Len(s) + Len(t)) :
            (s \o t)[i] = IF i <= Len(s) THEN s[i] ELSE t[i - Len(s)]
  BY ConcatProperties
<1>3. ASSUME NEW i \in 1..Len(s) PROVE (s \o t)[i] = s[i]
  BY <1>1, <1>2
<1>4. ASSUME NEW i \in 1..Len(t) PROVE (s \o t)[Len(s) + i] = t[i]
  <2>1. /\ Len(s) + i \in 1..(Len(s) + Len(t))
        /\ ~(Len(s) + i <= Len(s)) /\ Len(s) + i - Len(s) = i
    BY <1>1
  <2> QED
    BY <1>2, <2>1
<1> QED
  BY <1>2, <1>3, <1>4 DEF IsConcat

\* What is evicted once need not be looked at again.
LEMMA NewestOfNewest ==
    ASSUME NEW S, NEW s \in Seq(S), NEW t \in Seq(S), NEW n \in Nat
    PROVE  Newest(Newest(s, n) \o t, n) = Newest(s \o t, n)
<1>1. PICK k \in Seq(S) : k = Newest(s, n) /\ IsTail(k, s, n)
  BY NewestEntries
<1>2. PICK u \in Seq(S) : u = k \o t /\ IsConcat(u, k, t)
  BY ConcatEntries
<1>3. PICK w \in Seq(S) : w = s \o t /\ IsConcat(w, s, t)
  BY ConcatEntries
<1>4. PICK a \in Seq(S) : a = Newest(u, n) /\ IsTail(a, u, n)
  BY NewestEntries
<1>5. PICK b \in Seq(S) : b = Newest(w, n) /\ IsTail(b, w, n)
  BY NewestEntries
<1>6. PICK ls \in Nat, lt \in Nat, lk \in Nat, l \in Nat :
         ls = Len(s) /\ lt = Len(t) /\ lk = Len(k) /\ l = Len(a)
  BY LenProperties
<1>7. /\ lk = (IF ls <= n THEN ls ELSE n)
      /\ Len(u) = lk + lt /\ Len(w) = ls + lt
      /\ l = (IF lk + lt <= n THEN lk + lt ELSE n)
      /\ Len(b) = (IF ls + lt <= n THEN ls + lt ELSE n)
  BY <1>1, <1>2, <1>3, <1>4, <1>5, <1>6 DEF IsTail, IsConcat
<1>8. lk <= ls /\ l <= lk + lt /\ l = (IF ls + lt <= n THEN ls + lt ELSE n)
  BY <1>7
<1>9. Len(b) = l
  BY <1>7, <1>8
<1>10. ASSUME NEW i \in 1..l PROVE a[i] = b[i]
  <2>1. a[i] = u[lk + lt - l + i] /\ b[i] = w[ls + lt - l + i]
    <3>1. i \in 1..Len(a) /\ i \in 1..Len(b)
      BY <1>6, <1>9
    <3>2. a[i] = u[Len(u) - Len(a) + i]
      BY <1>4, <3>1 DEF IsTail
    <3>3. b[i] = w[Len(w) - Len(b) + i]
      BY <1>5, <3>1 DEF IsTail
    <3>4. Len(u) = lk + lt /\ Len(w) = ls + lt /\ Len(a) = l /\ Len(b) = l
      BY <1>6, <1>7, <1>9
    <3>5. Len(u) - Len(a) + i = lk + lt - l + i
      BY <3>4
    <3>6. Len(w) - Len(b) + i = ls + lt - l + i
      BY <3>4
    <3>7. a[i] = u[lk + lt - l + i]
      BY <3>2, <3>5
    <3>8. b[i] = w[ls + lt - l + i]
      BY <3>3, <3>6
    <3> QED
      BY <3>7, <3>8
  <2>2. PICK x \in Nat : x = lk + lt - l + i /\ x >= 1 /\ x <= lk + lt
    <3>1. /\ lk + lt - l + i \in Nat
          /\ lk + lt - l + i >= 1 /\ lk + lt - l + i <= lk + lt
      BY <1>8
    <3> QED
      BY <3>1
  <2>3. ls + lt - l + i = ls - lk + x
    BY <2>2
  <2>4. CASE x <= lk
    <3>1. x \in 1..lk /\ ls - lk + x \in 1..ls
      BY <1>8, <2>2, <2>4
    <3>2. u[x] = k[x] /\ k[x] = s[ls - lk + x] /\ w[ls - lk + x] = s[ls - lk + x]
      BY <1>1, <1>2, <1>3, <1>6, <3>1 DEF IsTail, IsConcat
    <3> QED
      BY <2>1, <2>2, <2>3, <3>2
  <2>5. CASE x > lk
    <3>1. PICK y \in 1..lt : x = lk + y
      <4>1. x - lk \in 1..lt /\ x = lk + (x - lk)
        BY <2>2, <2>5
      <4> QED
        BY <4>1
    <3>2. ls - lk + x = ls + y
      BY <3>1
    <3>3. u[lk + y] = t[y] /\ w[ls + y] = t[y]
      BY <1>2, <1>3, <1>6 DEF IsConcat
    <3> QED
      BY <2>1, <2>2, <2>3, <3>1, <3>2, <3>3
  <2> QED
    BY <2>4, <2>5
<1>11. a = b
  BY <1>6, <1>9, <1>10, SeqEqual
<1> QED
  BY <1>1, <1>2, <1>3, <1>4, <1>5, <1>11

-----------------------------------------------------------------------------
(* Numbers *)

\* The log with the number of each event.
Entries(l) == [n \in 1..Len(l) |-> [seq |-> n, event |-> l[n]]]

LEMMA EntriesTyped ==
    ASSUME NEW l \in Seq(Events)
    PROVE  Entries(l) \in Seq(Entry) /\ Len(Entries(l)) = Len(l)
<1>1. Len(l) \in Nat /\ \A n \in 1..Len(l) : l[n] \in Events
  BY LenProperties, ElementOfSeq
<1>2. Entries(l) \in [1..Len(l) -> Entry]
  BY <1>1 DEF Entries, Entry
<1> QED
  BY <1>1, <1>2, SeqDef DEF Entries

\* Publish numbers a batch as the continuation of the log.
LEMMA NumberedContinues ==
    ASSUME NEW l \in Seq(Events), NEW batch \in Seq(Events), nextSeq = Len(l) + 1
    PROVE  /\ Numbered(batch) \in Seq(Entry)
           /\ Entries(l) \o Numbered(batch) = Entries(l \o batch)
<1>1. /\ Len(l) \in Nat /\ Len(batch) \in Nat /\ DOMAIN batch = 1..Len(batch)
      /\ \A n \in 1..Len(batch) : batch[n] \in Events
  BY LenProperties, ElementOfSeq
<1>2. Numbered(batch) = [i \in 1..Len(batch) |-> [seq |-> Len(l) + i, event |-> batch[i]]]
  BY <1>1 DEF Numbered
<1>3. Numbered(batch) \in [1..Len(batch) -> Entry]
  BY <1>1, <1>2 DEF Entry
<1>4. Numbered(batch) \in Seq(Entry)
  BY <1>1, <1>3, SeqDef
<1>5. Len(Numbered(batch)) = Len(batch)
  BY <1>1, <1>2
<1>6. /\ Entries(l) \in Seq(Entry) /\ Len(Entries(l)) = Len(l)
      /\ l \o batch \in Seq(Events) /\ IsConcat(l \o batch, l, batch)
  BY EntriesTyped, ConcatEntries
<1>7. /\ Entries(l \o batch) \in Seq(Entry)
      /\ Len(Entries(l \o batch)) = Len(l) + Len(batch)
  BY <1>6, EntriesTyped DEF IsConcat
<1>8. /\ Entries(l) \o Numbered(batch) \in Seq(Entry)
      /\ IsConcat(Entries(l) \o Numbered(batch), Entries(l), Numbered(batch))
  BY <1>4, <1>6, ConcatEntries
<1>9. Len(Entries(l) \o Numbered(batch)) = Len(l) + Len(batch)
  BY <1>5, <1>6, <1>8 DEF IsConcat
<1>10. ASSUME NEW i \in 1..(Len(l) + Len(batch))
       PROVE  (Entries(l) \o Numbered(batch))[i] = Entries(l \o batch)[i]
  <2>1. Entries(l \o batch)[i] = [seq |-> i, event |-> (l \o batch)[i]]
    BY <1>6 DEF Entries, IsConcat
  <2>2. CASE i <= Len(l)
    <3>1. i \in 1..Len(l)
      BY <1>1, <2>2
    <3>2. Entries(l)[i] = [seq |-> i, event |-> l[i]] /\ (l \o batch)[i] = l[i]
      BY <1>6, <3>1 DEF Entries, IsConcat
    <3>3. (Entries(l) \o Numbered(batch))[i] = Entries(l)[i]
      BY <1>6, <1>8, <3>1 DEF IsConcat
    <3> QED
      BY <2>1, <3>2, <3>3
  <2>3. CASE ~(i <= Len(l))
    <3>1. PICK j \in 1..Len(batch) : i = Len(l) + j
      <4>1. i - Len(l) \in 1..Len(batch) /\ i = Len(l) + (i - Len(l))
        BY <1>1, <2>3
      <4> QED
        BY <4>1
    <3>2. Numbered(batch)[j] = [seq |-> i, event |-> batch[j]]
      BY <1>2, <3>1
    <3>3. (l \o batch)[i] = batch[j]
      BY <1>6, <3>1 DEF IsConcat
    <3>4. (Entries(l) \o Numbered(batch))[i] = Numbered(batch)[j]
      BY <1>5, <1>6, <1>8, <3>1 DEF IsConcat
    <3> QED
      BY <2>1, <3>2, <3>3, <3>4
  <2> QED
    BY <2>2, <2>3
<1>11. Entries(l) \o Numbered(batch) = Entries(l \o batch)
  BY <1>7, <1>8, <1>9, <1>10, SeqEqual
<1> QED
  BY <1>4, <1>11

-----------------------------------------------------------------------------
(* The ring *)

RingInv ==
    /\ log \in Seq(Events)
    /\ nextSeq = Len(log) + 1
    /\ ring = Newest(Entries(log), Capacity)

LEMMA BatchesAreSequences == ASSUME NEW batch \in Batches PROVE batch \in Seq(Events)
<1>1. PICK n \in 1..MaxBatch : batch \in [1..n -> Events]
  BY DEF Batches
<1>2. n \in Nat
  BY <1>1, BoundsNatural
<1> QED
  BY <1>1, <1>2, SeqDef

LEMMA RingStep == RingInv /\ [Next]_vars => RingInv'
<1> SUFFICES ASSUME RingInv, [Next]_vars PROVE RingInv'
  OBVIOUS
<1>1. CASE UNCHANGED <<ring, nextSeq, log>>
  BY <1>1 DEF RingInv, Entries
<1>2. ASSUME NEW p \in Publishers, NEW batch \in Batches, Publish(p, batch)
      PROVE  RingInv'
  <2>1. batch \in Seq(Events) /\ log \in Seq(Events) /\ nextSeq = Len(log) + 1
    BY BatchesAreSequences DEF RingInv
  <2>2. /\ log' = log \o batch /\ nextSeq' = nextSeq + Len(batch)
        /\ ring' = Newest(ring \o Numbered(batch), Capacity)
    BY <1>2 DEF Publish, Evict
  <2>3. /\ log' \in Seq(Events) /\ Len(log') = Len(log) + Len(batch)
        /\ Len(log) \in Nat /\ Len(batch) \in Nat
    BY <2>1, <2>2, ConcatProperties, LenProperties
  <2>4. /\ Entries(log) \in Seq(Entry) /\ Numbered(batch) \in Seq(Entry)
        /\ Entries(log) \o Numbered(batch) = Entries(log')
    BY <2>1, <2>2, EntriesTyped, NumberedContinues
  <2>5. Capacity \in Nat
    BY CapacityPositive
  <2>6. ring' = Newest(Entries(log) \o Numbered(batch), Capacity)
    BY <2>2, <2>4, <2>5, NewestOfNewest DEF RingInv
  <2>7. ring' = Newest(Entries(log'), Capacity)
    BY <2>4, <2>6
  <2>8. nextSeq' = Len(log') + 1
    BY <2>1, <2>2, <2>3
  <2> QED
    BY <2>3, <2>7, <2>8 DEF RingInv, Entries
<1>3. ASSUME NEW p \in Publishers, Notify(p) PROVE UNCHANGED <<ring, nextSeq, log>>
  BY <1>3 DEF Notify
<1>4. ASSUME NEW r \in Readers, Request(r) \/ Poll(r) \/ Wait(r) \/ Timeout(r) \/ Spurious(r)
      PROVE  UNCHANGED <<ring, nextSeq, log>>
  BY <1>4 DEF Request, Poll, Wait, Timeout, Spurious
<1>5. CASE UNCHANGED vars
  BY <1>1, <1>5 DEF vars
<1> QED
  BY <1>1, <1>2, <1>3, <1>4, <1>5 DEF Next

LEMMA RingInit == Init => RingInv
<1> SUFFICES ASSUME Init PROVE RingInv
  OBVIOUS
<1>1. <<>> \in Seq(Events) /\ Len(<<>>) = 0
  BY EmptySeq
<1>2. Capacity \in Nat
  BY CapacityPositive
<1>3. Entries(<<>>) \in Seq(Entry) /\ Len(Entries(<<>>)) = 0
  BY <1>1, EntriesTyped
<1>4. Newest(Entries(<<>>), Capacity) = Entries(<<>>)
  BY <1>2, <1>3 DEF Newest
<1>5. Entries(<<>>) = <<>>
  BY <1>3, EmptySeq
<1> QED
  BY <1>1, <1>4, <1>5 DEF Init, RingInv

\* The ring of events.rs holds the newest events, as many as its capacity
\* allows, numbered without a gap from the first on, however large the batches
\* are that are published.
THEOREM RingHoldsNewest == Spec => []RingIsTail
<1>1. RingInv => RingIsTail
  <2> SUFFICES ASSUME RingInv PROVE RingIsTail
    OBVIOUS
  <2>1. Len(log) \in Nat
    BY LenProperties DEF RingInv
  <2> QED
    BY <2>1 DEF RingInv, RingIsTail, HeadSeq, Entries
<1> QED
  BY RingInit, RingStep, <1>1, PTL DEF Spec

-----------------------------------------------------------------------------
(* What a poll returns *)

LogEntry(n) == [seq |-> n, event |-> log[n]]

\* What the ring holds, by the numbers of the log.
LEMMA RingEntries ==
    ASSUME RingInv
    PROVE  /\ Len(log) \in Nat /\ DOMAIN ring = 1..Len(ring)
           /\ Len(ring) = IF Len(log) <= Capacity THEN Len(log) ELSE Capacity
           /\ \A i \in 1..Len(ring) : ring[i] = LogEntry(Len(log) - Len(ring) + i)
<1>1. /\ Len(log) \in Nat /\ Capacity \in Nat /\ log \in Seq(Events)
      /\ Entries(log) \in Seq(Entry) /\ Len(Entries(log)) = Len(log)
  BY CapacityPositive, LenProperties, EntriesTyped DEF RingInv
<1>2. ring \in Seq(Entry) /\ IsTail(ring, Entries(log), Capacity)
  BY <1>1, NewestEntries DEF RingInv
<1>3. DOMAIN ring = 1..Len(ring)
  BY <1>2, LenProperties
<1>4. Len(ring) = IF Len(log) <= Capacity THEN Len(log) ELSE Capacity
  BY <1>1, <1>2 DEF IsTail
<1>5. ASSUME NEW i \in 1..Len(ring)
      PROVE  ring[i] = LogEntry(Len(log) - Len(ring) + i)
  <2>1. ring[i] = Entries(log)[Len(log) - Len(ring) + i]
    BY <1>1, <1>2 DEF IsTail
  <2>2. Len(log) - Len(ring) + i \in 1..Len(log)
    BY <1>1, <1>4
  <2> QED
    BY <2>1, <2>2 DEF Entries, LogEntry
<1> QED
  BY <1>1, <1>3, <1>4, <1>5

\* A selection of consecutive entries.
LEMMA IntervalSelected ==
    ASSUME NEW a \in Nat, NEW b \in Nat, a <= b
    PROVE  Selected((a+1)..b) = [n \in 1..(b-a) |-> ring[a+n]]
<1>1. ASSUME NEW i \in (a+1)..b
      PROVE  Cardinality({j \in (a+1)..b : j <= i}) = i - a
  <2>1. {j \in (a+1)..b : j <= i} = (a+1)..i
    OBVIOUS
  <2>2. a + 1 \in Int /\ i \in Int /\ ~(a + 1 > i)
    OBVIOUS
  <2>3. Cardinality((a+1)..i) = i - (a + 1) + 1
    BY <2>2, FS_Interval
  <2>4. i - (a + 1) + 1 = i - a
    BY <2>2
  <2> QED
    BY <2>1, <2>3, <2>4, Zenon
<1>2. Cardinality((a+1)..b) = b - a
  <2>1. a + 1 \in Int /\ b \in Int
    OBVIOUS
  <2>2. Cardinality((a+1)..b) = IF a + 1 > b THEN 0 ELSE b - (a + 1) + 1
    BY <2>1, FS_Interval
  <2> QED
    BY <2>2
<1>3. ASSUME NEW n \in 1..(b-a)
      PROVE  Nth((a+1)..b, n) = a + n
  <2>1. a + n \in (a+1)..b /\ (a + n) - a = n
    OBVIOUS
  <2>2. \A i \in (a+1)..b : Cardinality({j \in (a+1)..b : j <= i}) = n <=> i = a + n
    BY <1>1, <2>1
  <2> QED
    BY <2>1, <2>2 DEF Nth
<1> QED
  BY <1>2, <1>3 DEF Selected

\* How much of the log a reader is past, or the ring has lost.
Behind(since) == IF Len(log) - Len(ring) < since THEN since ELSE Len(log) - Len(ring)

\* What is newer than a cursor is a stretch of the log up to its end.
LEMMA NewerEntries ==
    ASSUME RingInv, NEW since \in Nat, since <= Len(log)
    PROVE  /\ Behind(since) \in Nat /\ since <= Behind(since) /\ Behind(since) <= Len(log)
           /\ Newer(since) = [i \in 1..(Len(log) - Behind(since)) |-> LogEntry(Behind(since) + i)]
<1>0. Len(log) \in Nat /\ Len(ring) \in Nat /\ Len(ring) <= Len(log)
  <2>1. Capacity \in Nat
    BY CapacityPositive
  <2>2. /\ Len(log) \in Nat
        /\ Len(ring) = IF Len(log) <= Capacity THEN Len(log) ELSE Capacity
    BY RingEntries
  <2> QED
    BY <2>1, <2>2
<1>1. PICK l \in Nat, m \in Nat : l = Len(log) /\ m = Len(ring) /\ m <= l
  BY <1>0
<1>2. PICK k \in Nat : k = Behind(since) /\ since <= k /\ k <= l
                       /\ k = IF l - m < since THEN since ELSE l - m
  BY <1>1 DEF Behind
<1>3. PICK a \in Nat : a = k - (l - m) /\ a <= m
  BY <1>1, <1>2, SMTT(60)
<1>4. ASSUME NEW i \in 1..m PROVE ring[i] = LogEntry(l - m + i) /\ ring[i].seq = l - m + i
  BY <1>1, RingEntries DEF LogEntry
<1>5. {i \in DOMAIN ring : ring[i].seq > since} = (a+1)..m
  <2>1. DOMAIN ring = 1..m
    BY <1>1, RingEntries
  <2>2. ASSUME NEW i \in 1..m PROVE ring[i].seq > since <=> i \in (a+1)..m
    BY <1>1, <1>2, <1>3, <1>4
  <2>3. (a+1)..m \subseteq 1..m
    BY <1>3
  <2> QED
    BY <2>1, <2>2, <2>3
<1>6. Newer(since) = [n \in 1..(m-a) |-> ring[a+n]]
  BY <1>3, <1>5, IntervalSelected DEF Newer
<1>7. m - a = l - k
  BY <1>1, <1>2, <1>3
<1>8. ASSUME NEW n \in 1..(m-a) PROVE ring[a+n] = LogEntry(k+n)
  <2>1. n \in Nat /\ n >= 1 /\ n <= m - a
    BY <1>1, <1>3
  <2>2. a + n \in 1..m
    BY <1>3, <2>1
  <2>3. l - m + (a + n) = k + n
    BY <1>1, <1>2, <1>3, <2>1
  <2> QED
    BY <1>4, <2>2, <2>3
<1> QED
  BY <1>1, <1>2, <1>6, <1>7, <1>8

\* Entries received up to a cursor: of the log, in its order.
Follows(g, cursor) ==
    /\ g \in Seq(Entry)
    /\ \A i \in 1..Len(g) : g[i].seq \in 1..cursor /\ g[i] = LogEntry(g[i].seq)
    /\ \A i, j \in 1..Len(g) : i < j => g[i].seq < g[j].seq

\* Everything in g, and the next m numbers after k, are in h.
Repeats(h, g) == \A i \in 1..Len(g) : \E j \in 1..Len(h) : h[j].seq = g[i].seq
Gives(h, k, m) == \A n \in 1..m : \E j \in 1..Len(h) : h[j].seq = k + n

\* An answer of m entries.
LEMMA AnswerFollows ==
    ASSUME RingInv, NEW c \in Nat, c <= Len(log), NEW g, Follows(g, c),
           NEW m \in Nat, m <= Len(log) - Behind(c),
           NEW h, h = g \o SubSeq(Newer(c), 1, m)
    PROVE  /\ Follows(h, Len(log)) /\ EL!Extended(g, h)
           /\ Repeats(h, g) /\ Gives(h, Behind(c), m)
<1>1. PICK l \in Nat, k \in Nat : l = Len(log) /\ k = Behind(c) /\ c <= k /\ k <= l /\ m <= l - k
  BY NewerEntries, RingEntries
<1>2. Newer(c) = [i \in 1..(l-k) |-> LogEntry(k+i)]
  BY <1>1, NewerEntries
<1>3. ASSUME NEW n \in 1..l PROVE LogEntry(n) \in Entry
  <2>1. log \in Seq(Events) /\ n \in 1..Len(log)
    BY <1>1 DEF RingInv
  <2>2. log[n] \in Events
    BY <2>1, ElementOfSeq
  <2> QED
    BY <2>2 DEF LogEntry, Entry
<1>4. ASSUME NEW i \in 1..m
      PROVE  Newer(c)[i] = LogEntry(k+i) /\ k + i \in 1..l /\ Newer(c)[i] \in Entry
  <2>1. i \in 1..(l-k) /\ k + i \in 1..l
    BY <1>1
  <2>2. Newer(c)[i] = LogEntry(k+i)
    BY <1>2, <2>1
  <2> QED
    BY <1>3, <2>1, <2>2
<1>5. PICK t : t = SubSeq(Newer(c), 1, m)
  OBVIOUS
<1>6. t \in Seq(Entry) /\ Len(t) = m /\ \A i \in 1..m : t[i] = LogEntry(k+i)
  <2>1. /\ SubSeq(Newer(c), 1, m) \in Seq(Entry)
        /\ Len(SubSeq(Newer(c), 1, m)) = IF 1 <= m THEN m - 1 + 1 ELSE 0
        /\ \A i \in 1..(m - 1 + 1) : SubSeq(Newer(c), 1, m)[i] = Newer(c)[1 + i - 1]
    <3>1. \A i \in 1..m : Newer(c)[i] \in Entry
      BY <1>4
    <3>2. 1 \in Int /\ m \in Int
      OBVIOUS
    <3> QED
      BY <3>1, <3>2, SubSeqProperties
  <2>2. Len(t) = m
    BY <1>5, <2>1
  <2>3. ASSUME NEW i \in 1..m PROVE t[i] = LogEntry(k+i)
    <3>1. i \in 1..(m - 1 + 1) /\ 1 + i - 1 = i
      OBVIOUS
    <3> QED
      BY <1>4, <1>5, <2>1, <3>1
  <2> QED
    BY <1>5, <2>1, <2>2, <2>3
<1>7. g \in Seq(Entry) /\ Len(g) \in Nat
  BY LenProperties DEF Follows
<1>8. h \in Seq(Entry) /\ IsConcat(h, g, t) /\ Len(h) = Len(g) + m
  BY <1>5, <1>6, <1>7, ConcatEntries DEF IsConcat
<1>9. /\ \A i \in 1..Len(g) : h[i] = g[i] /\ i \in 1..Len(h)
      /\ \A i \in 1..m : h[Len(g)+i] = LogEntry(k+i) /\ Len(g) + i \in 1..Len(h)
  BY <1>6, <1>7, <1>8 DEF IsConcat
<1>10. ASSUME NEW i \in 1..Len(h)
       PROVE  \/ i \in 1..Len(g) /\ h[i] = g[i]
              \/ \E n \in 1..m : i = Len(g) + n /\ h[i] = LogEntry(k+n)
  <2>1. CASE i <= Len(g)
    <3>1. i \in 1..Len(g)
      BY <1>7, <2>1
    <3> QED
      BY <1>9, <3>1
  <2>2. CASE ~(i <= Len(g))
    <3>1. PICK n \in 1..m : i = Len(g) + n
      <4>1. i - Len(g) \in 1..m /\ i = Len(g) + (i - Len(g))
        BY <1>7, <1>8, <2>2
      <4> QED
        BY <4>1
    <3> QED
      BY <1>9, <3>1
  <2> QED
    BY <2>1, <2>2
<1>11. ASSUME NEW i \in 1..Len(h)
       PROVE  h[i].seq \in 1..l /\ h[i] = LogEntry(h[i].seq)
  <2>1. CASE i \in 1..Len(g) /\ h[i] = g[i]
    BY <1>1, <2>1 DEF Follows
  <2>2. ASSUME NEW n \in 1..m, h[i] = LogEntry(k+n)
        PROVE  h[i].seq \in 1..l /\ h[i] = LogEntry(h[i].seq)
    <3>1. h[i].seq = k + n
      BY <2>2 DEF LogEntry
    <3> QED
      BY <1>4, <2>2, <3>1
  <2> QED
    BY <1>10, <2>1, <2>2
<1>12. ASSUME NEW i \in 1..Len(h), NEW j \in 1..Len(h), i < j
       PROVE  h[i].seq < h[j].seq
  <2>1. CASE j \in 1..Len(g) /\ h[j] = g[j]
    <3>1. i \in 1..Len(g)
      BY <1>7, <1>12, <2>1
    <3> QED
      BY <1>9, <1>12, <2>1, <3>1 DEF Follows
  <2>2. ASSUME NEW n \in 1..m, j = Len(g) + n, h[j] = LogEntry(k+n)
        PROVE  h[i].seq < h[j].seq
    <3>1. h[j].seq = k + n
      BY <2>2 DEF LogEntry
    <3>2. CASE i \in 1..Len(g) /\ h[i] = g[i]
      <4>1. PICK x \in 1..c : x = h[i].seq
        BY <3>2 DEF Follows
      <4>2. x < k + n
        BY <1>1
      <4> QED
        BY <3>1, <4>1, <4>2
    <3>3. ASSUME NEW o \in 1..m, i = Len(g) + o, h[i] = LogEntry(k+o)
          PROVE  h[i].seq < h[j].seq
      <4>1. h[i].seq = k + o
        BY <3>3 DEF LogEntry
      <4>2. k + o < k + n
        BY <1>1, <1>7, <1>12, <2>2, <3>3
      <4> QED
        BY <3>1, <4>1, <4>2
    <3> QED
      BY <1>10, <3>2, <3>3
  <2> QED
    BY <1>10, <2>1, <2>2
<1>13. Follows(h, Len(log))
  BY <1>1, <1>8, <1>11, <1>12 DEF Follows
<1>14. EL!Extended(g, h)
  <2>1. PICK u : u = SubSeq(h, 1, Len(g))
    OBVIOUS
  <2>2. \A i \in 1..Len(g) : h[i] \in Entry
    BY <1>7, <1>9, ElementOfSeq
  <2>3. /\ u \in Seq(Entry)
        /\ Len(u) = IF 1 <= Len(g) THEN Len(g) - 1 + 1 ELSE 0
        /\ \A i \in 1..(Len(g) - 1 + 1) : u[i] = h[1 + i - 1]
    <3>1. 1 \in Int /\ Len(g) \in Int
      BY <1>7
    <3> QED
      BY <2>1, <2>2, <3>1, SubSeqProperties
  <2>4. Len(u) = Len(g)
    BY <1>7, <2>3
  <2>5. ASSUME NEW i \in 1..Len(u) PROVE u[i] = g[i]
    <3>1. i \in 1..Len(g) /\ i \in 1..(Len(g) - 1 + 1) /\ 1 + i - 1 = i
      BY <1>7, <2>4
    <3> QED
      BY <1>9, <2>3, <3>1
  <2>6. u = g
    BY <1>7, <2>3, <2>4, <2>5, SeqEqual
  <2>7. Len(g) <= Len(h)
    BY <1>7, <1>8
  <2> QED
    BY <2>1, <2>6, <2>7 DEF EL!Extended
<1>15. ASSUME NEW n \in 1..m PROVE \E j \in 1..Len(h) : h[j].seq = k + n
  <2>1. Len(g) + n \in 1..Len(h) /\ h[Len(g)+n] = LogEntry(k+n)
    BY <1>9
  <2>2. h[Len(g)+n].seq = k + n
    BY <2>1 DEF LogEntry
  <2> QED
    BY <2>1, <2>2
<1>16. Gives(h, Behind(c), m)
  BY <1>1, <1>15 DEF Gives
<1>17. Repeats(h, g)
  BY <1>9 DEF Repeats
<1> QED
  BY <1>13, <1>14, <1>16, <1>17

-----------------------------------------------------------------------------
(* Readers *)

ReaderOk(r) ==
    /\ rdr[r].since <= Len(log)
    /\ Follows(got[r], rdr[r].since)
    /\ r \notin slow => 1..rdr[r].since \subseteq Received(r)

ReaderInv ==
    /\ RingInv
    /\ rdr \in [Readers -> Reader]
    /\ got \in [Readers -> Seq(Entry)]
    /\ \A r \in Readers : ReaderOk(r)

\* What has been received stays so when the log gets longer.
LEMMA OthersKeep ==
    ASSUME ReaderInv, NEW r \in Readers, RingInv', rdr'[r].since = rdr[r].since,
           got'[r] = got[r], r \in slow' <=> r \in slow,
           log' = log \/ \E batch \in Seq(Events) : log' = log \o batch
    PROVE  ReaderOk(r)'
<1>1. PICK c \in Nat : c = rdr[r].since /\ c <= Len(log) /\ Len(log) \in Nat
  BY RingEntries DEF ReaderInv, ReaderOk, Reader
<1>2. Len(log) <= Len(log') /\ \A n \in 1..Len(log) : log'[n] = log[n]
  <2>1. ASSUME NEW batch \in Seq(Events), log' = log \o batch
        PROVE  Len(log) <= Len(log') /\ \A n \in 1..Len(log) : log'[n] = log[n]
    <3>1. log \in Seq(Events)
      BY DEF ReaderInv, RingInv
    <3>2. IsConcat(log', log, batch) /\ Len(batch) \in Nat
      BY <2>1, <3>1, ConcatEntries, LenProperties
    <3> QED
      BY <1>1, <3>2 DEF IsConcat
  <2> QED
    BY <1>1, <2>1
<1>3. PICK g : g = got[r] /\ Follows(g, c)
  BY <1>1 DEF ReaderInv, ReaderOk
<1>4. ASSUME NEW i \in 1..Len(g)
      PROVE  g[i] = LogEntry(g[i].seq)'
  <2>1. g[i].seq \in 1..c /\ g[i] = LogEntry(g[i].seq)
    BY <1>3 DEF Follows
  <2>2. g[i].seq \in 1..Len(log)
    BY <1>1, <2>1
  <2> QED
    BY <1>2, <2>1, <2>2 DEF LogEntry
<1>5. Follows(got[r], rdr[r].since)'
  BY <1>1, <1>3, <1>4 DEF Follows
<1>6. Len(log) \in Nat /\ Len(log') \in Nat
  BY <1>1, LenProperties DEF RingInv
<1>7. rdr'[r].since <= Len(log')
  BY <1>1, <1>2, <1>6
<1>8. Received(r)' = Received(r)
  BY DEF Received
<1> QED
  BY <1>5, <1>7, <1>8 DEF ReaderInv, ReaderOk

\* EventBusInner::poll
LEMMA AnswerOk ==
    ASSUME ReaderInv, NEW r \in Readers, Answer(r), UNCHANGED <<ring, nextSeq, log>>
    PROVE  ReaderInv' /\ EL!Read(r)
<1>1. PICK l \in Nat, c \in Nat, limit \in Nat :
         l = Len(log) /\ c = rdr[r].since /\ limit = rdr[r].limit /\ c <= l /\ HeadSeq = l
  <2>1. Len(log) \in Nat /\ nextSeq = Len(log) + 1 /\ rdr[r] \in Reader
    BY RingEntries DEF ReaderInv, RingInv
  <2>2. rdr[r].since \in Nat /\ rdr[r].limit \in Nat
    <3>1. rdr[r].since \in Nat /\ rdr[r].limit \in Limits \cup {0}
      BY <2>1 DEF Reader
    <3>2. 0 \in Nat
      OBVIOUS
    <3> QED
      BY <3>1, <3>2, LimitsNatural, Zenon
  <2>3. rdr[r].since <= Len(log)
    BY DEF ReaderInv, ReaderOk
  <2>4. HeadSeq = Len(log)
    BY <2>1 DEF HeadSeq
  <2> QED
    BY <2>1, <2>2, <2>3, <2>4
<1>2. PICK k \in Nat : k = Behind(c) /\ c <= k /\ k <= l
  BY <1>1, NewerEntries DEF ReaderInv
<1>3. PICK len \in Nat : len = Len(Newer(c)) /\ len = l - k
  <2>1. Newer(c) = [i \in 1..(l-k) |-> LogEntry(k+i)]
    BY <1>1, <1>2, NewerEntries DEF ReaderInv
  <2>2. l - k \in Nat
    BY <1>2
  <2> QED
    BY <2>1, <2>2
<1>4. PICK m \in Nat : m = (IF len > limit THEN limit ELSE len) /\ m <= len
  BY <1>1, <1>3
<1>5. PICK g : g = got[r] /\ Follows(g, c) /\ g \in Seq(Entry)
  BY <1>1 DEF ReaderInv, ReaderOk
<1>6. PICK h : h = g \o SubSeq(Newer(c), 1, m)
  OBVIOUS
<1>7. Follows(h, l) /\ EL!Extended(g, h) /\ Repeats(h, g) /\ Gives(h, k, m)
  <2>1. RingInv /\ c \in Nat /\ c <= Len(log) /\ m \in Nat /\ m <= Len(log) - Behind(c)
    BY <1>1, <1>2, <1>3, <1>4 DEF ReaderInv
  <2> QED
    BY <1>1, <1>2, <1>5, <1>6, <2>1, AnswerFollows
<1>8. got' = [got EXCEPT ![r] = h]
  BY <1>1, <1>3, <1>4, <1>5, <1>6 DEF Answer
<1>9. slow' = IF len > limit \/ l - c > Capacity THEN slow \cup {r} ELSE slow
  BY <1>1, <1>3 DEF Answer
<1>10. rdr' = [rdr EXCEPT ![r].pc = "idle", ![r].since = l, ![r].limit = 0]
  BY <1>1 DEF Answer
<1>11. rdr' \in [Readers -> Reader] /\ rdr'[r].since = l
       /\ \A s \in Readers \ {r} : rdr'[s] = rdr[s]
  BY <1>10, ZenonT(60) DEF ReaderInv, Reader
<1>12. h \in Seq(Entry)
  BY <1>7 DEF Follows
<1>13. got' \in [Readers -> Seq(Entry)] /\ got'[r] = h
       /\ \A s \in Readers \ {r} : got'[s] = got[s]
  BY <1>8, <1>12 DEF ReaderInv
<1>14. RingInv'
  BY DEF ReaderInv, RingInv, Entries
<1>15. ASSUME NEW s \in Readers, s # r PROVE ReaderOk(s)'
  BY <1>9, <1>11, <1>13, <1>14, <1>15, OthersKeep
<1>16. ASSUME r \notin slow', NEW n \in 1..l
       PROVE  n \in Received(r)'
  <2>1. r \notin slow /\ ~(len > limit) /\ l - c <= Capacity
    <3>1. Capacity \in Nat
      BY CapacityPositive
    <3> QED
      BY <1>1, <1>9, <1>16, <3>1, SMTT(60)
  <2>2. k = c
    <3>1. Len(log) - Len(ring) <= c
      <4>1. /\ Len(ring) = IF l <= Capacity THEN l ELSE Capacity
        BY <1>1, RingEntries DEF ReaderInv
      <4>2. Capacity \in Nat
        BY CapacityPositive
      <4> QED
        BY <1>1, <2>1, <4>1, <4>2
    <3>2. Behind(c) \in {c, Len(log) - Len(ring)}
      BY DEF Behind
    <3> QED
      BY <1>2, <3>1, <3>2 DEF Behind
  <2>3. m = l - c
    BY <1>3, <1>4, <2>1, <2>2
  <2>4. \E j \in 1..Len(h) : h[j].seq = n
    <3>1. CASE n <= c
      <4>1. n \in Received(r)
        BY <1>1, <2>1, <3>1 DEF ReaderInv, ReaderOk
      <4>2. PICK i \in 1..Len(g) : g[i].seq = n
        BY <1>5, <4>1, LenProperties DEF Received
      <4> QED
        BY <1>7, <4>2 DEF Repeats
    <3>2. CASE n > c
      <4>1. n - c \in 1..m /\ k + (n - c) = n
        BY <2>2, <2>3, <3>2
      <4> QED
        BY <1>7, <4>1 DEF Gives
    <3> QED
      BY <1>1, <3>1, <3>2
  <2>5. DOMAIN h = 1..Len(h)
    BY <1>12, LenProperties
  <2> QED
    BY <1>13, <2>4, <2>5 DEF Received
<1>17. ReaderOk(r)'
  <2>1. rdr'[r].since <= Len(log')
    BY <1>1, <1>11
  <2>2. Follows(got[r], rdr[r].since)'
    BY <1>7, <1>11, <1>13 DEF Follows, LogEntry
  <2>3. r \notin slow' => 1..rdr'[r].since \subseteq Received(r)'
    BY <1>11, <1>16
  <2> QED
    BY <2>1, <2>2, <2>3 DEF ReaderOk
<1>18. ReaderInv'
  BY <1>11, <1>13, <1>14, <1>15, <1>17 DEF ReaderInv
<1>19. EL!Read(r)
  <2>1. DOMAIN h = 1..Len(h)
    BY <1>12, LenProperties
  <2>2. EL!Genuine(h)
    <3>1. ASSUME NEW i \in DOMAIN h
          PROVE  h[i].seq \in 1..Len(log) /\ h[i].event = log[h[i].seq]
      <4>1. h[i].seq \in 1..l /\ h[i] = LogEntry(h[i].seq)
        BY <1>7, <2>1 DEF Follows
      <4> QED
        BY <1>1, <4>1 DEF LogEntry
    <3> QED
      BY <3>1 DEF EL!Genuine
  <2>3. EL!Ordered(h)
    BY <1>7, <2>1 DEF Follows, EL!Ordered
  <2> QED
    BY <1>5, <1>7, <1>8, <1>13, <2>2, <2>3 DEF EL!Read
<1> QED
  BY <1>18, <1>19

\* The inductive step, and the step of EventLog that it is.
LEMMA ReaderStep ==
    ASSUME ReaderInv, [Next]_vars
    PROVE  ReaderInv' /\ [EL!Next]_<<log, got>>
<1>0. RingInv'
  BY RingStep DEF ReaderInv
<1>1. ASSUME UNCHANGED <<got, slow>>, rdr' \in [Readers -> Reader],
             \A r \in Readers : rdr'[r].since = rdr[r].since,
             log' = log \/ \E batch \in Seq(Events) : log' = log \o batch
      PROVE  ReaderInv'
  BY <1>0, <1>1, OthersKeep DEF ReaderInv
<1>2. ASSUME NEW p \in Publishers, NEW batch \in Batches, Publish(p, batch)
      PROVE  ReaderInv' /\ EL!Publish
  <2>1. batch \in Seq(Events) /\ log \in Seq(Events) /\ log' = log \o batch
    BY <1>2, BatchesAreSequences DEF Publish, ReaderInv, RingInv
  <2>2. ReaderInv'
    BY <1>1, <1>2, <2>1 DEF Publish, ReaderInv
  <2>3. log' \in Seq(Events) /\ Len(log) <= Len(log') /\ Len(log) \in Nat
        /\ \A i \in 1..Len(log) : log'[i] = log[i] /\ log[i] \in Events
    <3>1. IsConcat(log', log, batch) /\ Len(batch) \in Nat /\ Len(log) \in Nat
          /\ log' \in Seq(Events)
      BY <2>1, ConcatEntries, LenProperties
    <3>2. \A i \in 1..Len(log) : log[i] \in Events
      BY <2>1, ElementOfSeq
    <3> QED
      BY <3>1, <3>2 DEF IsConcat
  <2>4. SubSeq(log', 1, Len(log)) = log
    <3>1. PICK u : u = SubSeq(log', 1, Len(log))
      OBVIOUS
    <3>2. /\ u \in Seq(Events)
          /\ Len(u) = IF 1 <= Len(log) THEN Len(log) - 1 + 1 ELSE 0
          /\ \A i \in 1..(Len(log) - 1 + 1) : u[i] = log'[1 + i - 1]
      <4>1. 1 \in Int /\ Len(log) \in Int
        BY <2>3
      <4> QED
        BY <2>3, <3>1, <4>1, SubSeqProperties
    <3>3. Len(u) = Len(log)
      BY <2>3, <3>2
    <3>4. ASSUME NEW i \in 1..Len(u) PROVE u[i] = log[i]
      <4>1. i \in 1..Len(log) /\ i \in 1..(Len(log) - 1 + 1) /\ 1 + i - 1 = i
        BY <2>3, <3>3
      <4> QED
        BY <2>3, <3>2, <4>1
    <3> QED
      BY <2>1, <3>1, <3>2, <3>3, <3>4, SeqEqual
  <2>5. EL!Publish
    BY <1>2, <2>3, <2>4 DEF Publish, EL!Publish, EL!Extended
  <2> QED
    BY <2>2, <2>5
<1>3. ASSUME NEW p \in Publishers, Notify(p)
      PROVE  ReaderInv' /\ UNCHANGED <<log, got>>
  <2>1. /\ UNCHANGED <<log, got, slow>>
        /\ rdr' = [r \in Readers |-> IF rdr[r].pc = "waiting"
                                     THEN [rdr[r] EXCEPT !.pc = "wait"] ELSE rdr[r]]
    BY <1>3 DEF Notify
  <2>2. \A r \in Readers : rdr[r] \in Reader
    BY DEF ReaderInv
  <2>3. \A r \in Readers : rdr'[r] \in Reader /\ rdr'[r].since = rdr[r].since
    BY <2>1, <2>2 DEF Reader
  <2>4. rdr' \in [Readers -> Reader]
    BY <2>1, <2>3
  <2> QED
    BY <1>1, <2>1, <2>3, <2>4
<1>4. ASSUME NEW r \in Readers, Request(r) \/ Spurious(r)
      PROVE  ReaderInv' /\ UNCHANGED <<log, got>>
  <2>0. UNCHANGED <<log, got, slow>> /\ rdr \in [Readers -> Reader]
    BY <1>4 DEF Request, Spurious, ReaderInv
  <2>1. CASE Request(r)
    <3>1. PICK pc \in {"poll", "wait"}, limit \in Limits :
             rdr' = [rdr EXCEPT ![r].pc = pc, ![r].limit = limit]
      BY <2>1 DEF Request
    <3>2. rdr' \in [Readers -> Reader] /\ \A s \in Readers : rdr'[s].since = rdr[s].since
      BY <2>0, <3>1 DEF Reader
    <3> QED
      BY <1>1, <2>0, <3>2
  <2>2. CASE Spurious(r)
    <3>1. rdr' = [rdr EXCEPT ![r].pc = "wait"]
      BY <2>2 DEF Spurious
    <3>2. rdr' \in [Readers -> Reader] /\ \A s \in Readers : rdr'[s].since = rdr[s].since
      BY <2>0, <3>1 DEF Reader
    <3> QED
      BY <1>1, <2>0, <3>2
  <2> QED
    BY <1>4, <2>1, <2>2
<1>5. ASSUME NEW r \in Readers, Poll(r) \/ Wait(r) \/ Timeout(r)
      PROVE  ReaderInv' /\ (EL!Read(r) \/ UNCHANGED <<log, got>>)
  <2>1. UNCHANGED <<ring, nextSeq, log>>
    BY <1>5 DEF Poll, Wait, Timeout
  <2>2. CASE Answer(r)
    BY <2>1, <2>2, AnswerOk
  <2>3. CASE rdr' = [rdr EXCEPT ![r].pc = "waiting"] /\ UNCHANGED <<got, slow>>
    BY <1>1, <2>1, <2>3 DEF ReaderInv, Reader
  <2> QED
    BY <1>5, <2>2, <2>3 DEF Poll, Wait, Timeout
<1>6. CASE UNCHANGED vars
  BY <1>1, <1>6 DEF vars, ReaderInv
<1> QED
  BY <1>2, <1>3, <1>4, <1>5, <1>6 DEF Next, EL!Next, vars

LEMMA ReaderInit == Init => ReaderInv /\ EL!Init
<1> SUFFICES ASSUME Init PROVE ReaderInv /\ EL!Init
  OBVIOUS
<1>1. RingInv
  BY RingInit
<1>2. <<>> \in Seq(Entry) /\ Len(<<>>) = 0
  BY EmptySeq
<1>3. /\ rdr = [r \in Readers |-> [pc |-> "idle", since |-> 0, limit |-> 0]]
      /\ got = [r \in Readers |-> <<>>] /\ log = <<>>
  BY DEF Init
<1>4. rdr \in [Readers -> Reader] /\ got \in [Readers -> Seq(Entry)]
  BY <1>2, <1>3 DEF Reader
<1>5. ASSUME NEW r \in Readers PROVE ReaderOk(r)
  <2>1. rdr[r].since = 0 /\ got[r] = <<>> /\ Len(log) = 0
    BY <1>2, <1>3
  <2>2. 1..0 = {}
    OBVIOUS
  <2> QED
    BY <1>2, <2>1, <2>2 DEF ReaderOk, Follows
<1> QED
  BY <1>1, <1>3, <1>4, <1>5 DEF ReaderInv, EL!Init

\* A reader of events.poll or events.wait that never falls behind by more than
\* the ring holds, and whose limit never cuts an answer, receives every event
\* up to its cursor: none is lost between an answer and the next request.
THEOREM NothingMissedAlways == Spec => []NothingMissed
<1>1. ReaderInv => NothingMissed
  BY DEF ReaderInv, ReaderOk, NothingMissed
<1> QED
  BY ReaderInit, ReaderStep, <1>1, PTL DEF Spec

\* With any number of publishers and readers, batches and limits, the bus
\* implements EventLog: every answer is of the log, in its order and under its
\* numbers, and repeats nothing.
THEOREM BusIsALog == Spec => ImplementsLog
<1> QED
  BY ReaderInit, ReaderStep, PTL DEF Spec, ImplementsLog, EL!Spec

=============================================================================
