----------------------------- MODULE Mcp_proofs -----------------------------
(***************************************************************************)
(* That the server of module Mcp answers every request once and in order,  *)
(* and that a client that reads what it is told of is up to date when all  *)
(* is at rest, for any resources and tools and any number of messages and  *)
(* of changes by other programs.                                           *)
(***************************************************************************)
EXTENDS Mcp, FiniteSetTheorems, SequenceTheorems, TLAPS

-----------------------------------------------------------------------------
(* Numbers and waits *)

\* AnsweredInOrder, of any numbers and waits.
InStep(c, waits) ==
    /\ \A k \in 1..Len(c) : c[k] # 0 => \E i \in 1..Len(waits) : waits[i] = c[k]
    /\ \A i \in 1..Len(waits) : waits[i] # 0 /\ \E k \in 1..Len(c) : c[k] = waits[i]
    /\ \A i, j \in 1..Len(waits), k, m \in 1..Len(c) :
          waits[i] = c[k] /\ waits[j] = c[m] => (i < j <=> k < m)

\* d is c without the n zeros that begin at p.
Dropped(c, d, p, n) ==
    /\ p \in 1..(Len(d) + 1)
    /\ Len(c) = Len(d) + n
    /\ \A k \in p..(p + n - 1) : c[k] = 0
    /\ \A k \in 1..(p - 1) : d[k] = c[k]
    /\ \A k \in p..Len(d) : d[k] = c[k + n]

\* Lines without a number, wherever they are, change nothing.
LEMMA ZerosAside ==
    ASSUME NEW c \in Seq(Nat), NEW d \in Seq(Nat), NEW waits \in Seq(Nat),
           NEW p, NEW n \in Nat, Dropped(c, d, p, n)
    PROVE  InStep(c, waits) <=> InStep(d, waits)
<1>1. PICK lc \in Nat, ld \in Nat, lw \in Nat :
         lc = Len(c) /\ ld = Len(d) /\ lw = Len(waits)
  BY LenProperties
<1>2. p \in Nat /\ p >= 1 /\ p <= ld + 1 /\ lc = ld + n
  BY <1>1 DEF Dropped
<1>3. PICK g : g = [k \in 1..ld |-> IF k < p THEN k ELSE k + n]
  OBVIOUS
<1>4. ASSUME NEW k \in 1..ld PROVE g[k] \in 1..lc /\ d[k] = c[g[k]]
  <2>1. CASE k < p
    <3>1. k \in 1..(p - 1) /\ g[k] = k
      BY <1>2, <1>3, <2>1
    <3> QED
      BY <1>2, <3>1 DEF Dropped
  <2>2. CASE k >= p
    <3>1. k \in p..Len(d) /\ g[k] = k + n
      BY <1>1, <1>2, <1>3, <2>2
    <3> QED
      BY <1>2, <3>1 DEF Dropped
  <2> QED
    BY <1>2, <2>1, <2>2
<1>5. ASSUME NEW k \in 1..ld, NEW m \in 1..ld PROVE k < m <=> g[k] < g[m]
  BY <1>2, <1>3
<1>6. ASSUME NEW j \in 1..lc, c[j] # 0 PROVE \E k \in 1..ld : g[k] = j
  <2>1. CASE j < p
    <3>1. j \in 1..ld /\ g[j] = j
      BY <1>2, <1>3, <2>1
    <3> QED
      BY <3>1
  <2>2. CASE j >= p
    <3>1. ~(j \in p..(p + n - 1))
      BY <1>6 DEF Dropped
    <3>2. j - n \in 1..ld /\ j - n >= p
      BY <1>2, <2>2, <3>1
    <3>3. g[j - n] = j
      BY <1>2, <1>3, <3>2
    <3> QED
      BY <3>2, <3>3
  <2> QED
    BY <1>2, <2>1, <2>2
<1>7. ASSUME InStep(c, waits) PROVE InStep(d, waits)
  <2>1. ASSUME NEW k \in 1..ld, d[k] # 0 PROVE \E i \in 1..lw : waits[i] = d[k]
    <3>1. g[k] \in 1..lc /\ d[k] = c[g[k]]
      BY <1>4
    <3> QED
      BY <1>1, <1>7, <2>1, <3>1 DEF InStep
  <2>2. ASSUME NEW i \in 1..lw PROVE waits[i] # 0 /\ \E k \in 1..ld : d[k] = waits[i]
    <3>1. waits[i] # 0
      BY <1>1, <1>7 DEF InStep
    <3>2. PICK j \in 1..lc : c[j] = waits[i]
      BY <1>1, <1>7 DEF InStep
    <3>3. PICK k \in 1..ld : g[k] = j
      BY <1>6, <3>1, <3>2
    <3>4. d[k] = c[g[k]]
      BY <1>4
    <3> QED
      BY <3>1, <3>2, <3>3, <3>4
  <2>3. ASSUME NEW i \in 1..lw, NEW j \in 1..lw, NEW k \in 1..ld, NEW m \in 1..ld,
               waits[i] = d[k], waits[j] = d[m]
        PROVE  i < j <=> k < m
    <3>1. g[k] \in 1..lc /\ d[k] = c[g[k]] /\ g[m] \in 1..lc /\ d[m] = c[g[m]]
      BY <1>4
    <3>2. i < j <=> g[k] < g[m]
      <4>1. waits[i] = c[g[k]] /\ waits[j] = c[g[m]]
        BY <2>3, <3>1
      <4>2. PICK a \in 1..lc : a = g[k]
        BY <3>1
      <4>3. PICK b \in 1..lc : b = g[m]
        BY <3>1
      <4>4. waits[i] = c[a] /\ waits[j] = c[b] /\ i \in 1..Len(waits) /\ j \in 1..Len(waits)
            /\ a \in 1..Len(c) /\ b \in 1..Len(c)
        BY <1>1, <4>1, <4>2, <4>3
      <4>5. i < j <=> a < b
        BY <1>7, <4>4 DEF InStep
      <4> QED
        BY <4>2, <4>3, <4>5
    <3> QED
      BY <1>5, <3>2
  <2> QED
    BY <1>1, <2>1, <2>2, <2>3 DEF InStep
<1>8. ASSUME InStep(d, waits) PROVE InStep(c, waits)
  <2>1. ASSUME NEW j \in 1..lc, c[j] # 0 PROVE \E i \in 1..lw : waits[i] = c[j]
    <3>1. PICK k \in 1..ld : g[k] = j
      BY <1>6, <2>1
    <3>2. d[k] = c[j]
      BY <1>4, <3>1
    <3> QED
      BY <1>1, <1>8, <2>1, <3>2 DEF InStep
  <2>2. ASSUME NEW i \in 1..lw PROVE waits[i] # 0 /\ \E j \in 1..lc : c[j] = waits[i]
    <3>1. waits[i] # 0
      BY <1>1, <1>8 DEF InStep
    <3>2. PICK k \in 1..ld : d[k] = waits[i]
      BY <1>1, <1>8 DEF InStep
    <3>3. g[k] \in 1..lc /\ d[k] = c[g[k]]
      BY <1>4
    <3> QED
      BY <3>1, <3>2, <3>3
  <2>3. ASSUME NEW i \in 1..lw, NEW j \in 1..lw, NEW k \in 1..lc, NEW m \in 1..lc,
               waits[i] = c[k], waits[j] = c[m]
        PROVE  i < j <=> k < m
    <3>1. waits[i] # 0 /\ waits[j] # 0
      BY <1>1, <1>8 DEF InStep
    <3>2. PICK a \in 1..ld : g[a] = k
      BY <1>6, <2>3, <3>1
    <3>3. PICK b \in 1..ld : g[b] = m
      BY <1>6, <2>3, <3>1
    <3>4. d[a] = waits[i] /\ d[b] = waits[j]
      BY <1>4, <2>3, <3>2, <3>3
    <3>5. i < j <=> a < b
      BY <1>1, <1>8, <3>4 DEF InStep
    <3> QED
      BY <1>5, <3>2, <3>3, <3>5
  <2> QED
    BY <1>1, <2>1, <2>2, <2>3 DEF InStep
<1> QED
  BY <1>7, <1>8

\* What the client sends under a free number is the youngest wait.
LEMMA AskedLast ==
    ASSUME NEW c \in Seq(Nat), NEW waits \in Seq(Nat), NEW x \in Nat \ {0},
           \A i \in 1..Len(waits) : waits[i] # x, InStep(c, waits)
    PROVE  InStep(Append(c, x), Append(waits, x))
<1>1. PICK lc \in Nat, lw \in Nat : lc = Len(c) /\ lw = Len(waits)
  BY LenProperties
<1>2. PICK d : d = Append(c, x)
  OBVIOUS
<1>3. PICK v : v = Append(waits, x)
  OBVIOUS
<1>4. Len(d) = lc + 1 /\ d[lc + 1] = x /\ \A k \in 1..lc : d[k] = c[k]
  BY <1>1, <1>2, AppendProperties
<1>5. Len(v) = lw + 1 /\ v[lw + 1] = x /\ \A i \in 1..lw : v[i] = waits[i]
  BY <1>1, <1>3, AppendProperties
<1>6. ASSUME NEW k \in 1..lc PROVE c[k] # x
  <2>1. ASSUME c[k] = x PROVE FALSE
    <3>1. \E i \in 1..lw : waits[i] = x
      BY <1>1, <2>1 DEF InStep
    <3> QED
      BY <1>1, <3>1
  <2> QED
    BY <2>1
<1>7. ASSUME NEW k \in 1..(lc + 1), d[k] # 0 PROVE \E i \in 1..(lw + 1) : v[i] = d[k]
  <2>1. CASE k = lc + 1
    BY <1>4, <1>5, <2>1
  <2>2. CASE k \in 1..lc
    <3>1. PICK i \in 1..lw : waits[i] = c[k]
      BY <1>1, <1>4, <1>7, <2>2 DEF InStep
    <3> QED
      BY <1>4, <1>5, <2>2, <3>1
  <2> QED
    BY <2>1, <2>2
<1>8. ASSUME NEW i \in 1..(lw + 1)
      PROVE  v[i] # 0 /\ \E k \in 1..(lc + 1) : d[k] = v[i]
  <2>1. CASE i = lw + 1
    BY <1>4, <1>5, <2>1
  <2>2. CASE i \in 1..lw
    <3>1. PICK k \in 1..lc : waits[i] # 0 /\ c[k] = waits[i]
      BY <1>1, <2>2 DEF InStep
    <3> QED
      BY <1>4, <1>5, <2>2, <3>1
  <2> QED
    BY <2>1, <2>2
<1>9. ASSUME NEW i \in 1..(lw + 1), NEW j \in 1..(lw + 1),
             NEW k \in 1..(lc + 1), NEW m \in 1..(lc + 1),
             v[i] = d[k], v[j] = d[m]
      PROVE  i < j <=> k < m
  <2>1. i = lw + 1 <=> k = lc + 1
    <3>1. ASSUME i = lw + 1, k # lc + 1 PROVE FALSE
      <4>0. k \in 1..lc /\ i = lw + 1
        <5>1. k \in Int /\ k >= 1 /\ k <= lc + 1
          BY <1>1
        <5>2. k < lc + 1
          BY <1>1, <3>1, <5>1
        <5> QED
          BY <1>1, <3>1, <5>1, <5>2
      <4>1. k \in 1..lc /\ d[k] = c[k] /\ v[i] = x
        BY <1>4, <1>5, <4>0
      <4> QED
        BY <1>6, <1>9, <4>1
    <3>2. ASSUME i # lw + 1, k = lc + 1 PROVE FALSE
      <4>1. i \in 1..lw /\ v[i] = waits[i] /\ d[k] = x
        BY <1>1, <1>4, <1>5, <3>2, SMTT(60)
      <4> QED
        BY <1>1, <1>9, <4>1
    <3> QED
      BY <3>1, <3>2
  <2>2. j = lw + 1 <=> m = lc + 1
    <3>1. ASSUME j = lw + 1, m # lc + 1 PROVE FALSE
      <4>0. m \in 1..lc /\ j = lw + 1
        <5>1. m \in Int /\ m >= 1 /\ m <= lc + 1
          BY <1>1
        <5>2. m < lc + 1
          BY <1>1, <3>1, <5>1
        <5> QED
          BY <1>1, <3>1, <5>1, <5>2
      <4>1. m \in 1..lc /\ d[m] = c[m] /\ v[j] = x
        BY <1>4, <1>5, <4>0
      <4> QED
        BY <1>6, <1>9, <4>1
    <3>2. ASSUME j # lw + 1, m = lc + 1 PROVE FALSE
      <4>1. j \in 1..lw /\ v[j] = waits[j] /\ d[m] = x
        BY <1>1, <1>4, <1>5, <3>2, SMTT(60)
      <4> QED
        BY <1>1, <1>9, <4>1
    <3> QED
      BY <3>1, <3>2
  <2>3. CASE i \in 1..lw /\ j \in 1..lw
    <3>1. k \in 1..lc /\ m \in 1..lc /\ waits[i] = c[k] /\ waits[j] = c[m]
      BY <1>4, <1>5, <1>9, <2>1, <2>2, <2>3
    <3> QED
      BY <1>1, <2>3, <3>1 DEF InStep
  <2>4. CASE ~(i \in 1..lw /\ j \in 1..lw)
    <3>1. i = lw + 1 \/ j = lw + 1
      BY <1>1, <2>4, SMTT(60)
    <3>2. CASE i = lw + 1
      <4>1. k = lc + 1
        BY <2>1, <3>2
      <4>2. ~(i < j) /\ ~(k < m)
        BY <1>1, <3>2, <4>1
      <4> QED
        BY <4>2
    <3>3. CASE i # lw + 1
      <4>1. j = lw + 1 /\ m = lc + 1 /\ k # lc + 1
        BY <2>1, <2>2, <3>1, <3>3
      <4>2. i < j /\ k < m
        BY <1>1, <3>3, <4>1
      <4> QED
        BY <4>2
    <3> QED
      BY <3>2, <3>3
  <2> QED
    BY <2>3, <2>4
<1>10. InStep(d, v)
  BY <1>4, <1>5, <1>7, <1>8, <1>9 DEF InStep
<1> QED
  BY <1>2, <1>3, <1>10

\* The oldest number under way is the oldest wait.
LEMMA AnsweredFirst ==
    ASSUME NEW c \in Seq(Nat), NEW d \in Seq(Nat), NEW waits \in Seq(Nat), NEW x \in Nat \ {0},
           Len(c) = Len(d) + 1, c[1] = x, \A k \in 1..Len(d) : d[k] = c[k + 1],
           InStep(c, waits)
    PROVE  /\ RemoveFirst(waits, x) \in Seq(Nat)
           /\ InStep(d, RemoveFirst(waits, x))
<1>1. PICK ld \in Nat, lw \in Nat : ld = Len(d) /\ lw = Len(waits)
  BY LenProperties
<1>2. Len(c) = ld + 1 /\ 1 \in 1..(ld + 1)
  BY <1>1
<1>3. PICK a \in 1..lw : waits[a] = x
  BY <1>1, <1>2 DEF InStep
<1>4. ASSUME NEW i \in 1..lw PROVE i = 1 <=> waits[i] = x
  <2>1. a = 1
    <3>1. ASSUME 1 < a PROVE FALSE
      <4>1. 1 \in 1..lw
        BY <1>1, <3>1
      <4>2. PICK k \in 1..(ld + 1) : c[k] = waits[1]
        BY <1>1, <1>2, <4>1 DEF InStep
      <4>3. 1 < a <=> k < 1
        BY <1>1, <1>2, <1>3, <4>1, <4>2 DEF InStep
      <4> QED
        BY <1>1, <3>1, <4>2, <4>3
    <3> QED
      BY <1>1, <3>1
  <2>2. ASSUME waits[i] = x PROVE i = a
    <3>1. (a < i <=> 1 < 1) /\ (i < a <=> 1 < 1)
      BY <1>1, <1>2, <1>3, <2>2 DEF InStep
    <3> QED
      BY <1>1, <3>1
  <2> QED
    BY <1>3, <2>1, <2>2
<1>5. lw >= 1 /\ 1 \in 1..lw /\ waits[1] = x
  BY <1>1, <1>3, <1>4
<1>6. PICK e : e = RemoveFirst(waits, x)
  OBVIOUS
<1>7. e = SubSeq(waits, 1, 0) \o SubSeq(waits, 2, lw)
  <2>1. \E i \in 1..Len(waits) : waits[i] = x
    BY <1>1, <1>5
  <2>2. {i \in 1..Len(waits) : waits[i] = x} = {1}
    BY <1>1, <1>4, <1>5
  <2>3. SelectInSeq(waits, LAMBDA y : y = x) = 1
    <3>1. Min({1}) = 1
      BY DEF Min
    <3> QED
      BY <2>2, <3>1 DEF SelectInSeq
  <2>4. e = RemoveAt(waits, SelectInSeq(waits, LAMBDA y : y = x))
    BY <1>6, <2>1 DEF RemoveFirst
  <2>5. e = RemoveAt(waits, 1)
    BY <2>3, <2>4
  <2> QED
    BY <1>1, <2>5 DEF RemoveAt
<1>8. e \in Seq(Nat) /\ Len(e) = lw - 1 /\ \A i \in 1..(lw - 1) : e[i] = waits[i + 1]
  <2>1. SubSeq(waits, 1, 0) = <<>>
    BY SubSeqEmpty
  <2>2. /\ SubSeq(waits, 2, lw) \in Seq(Nat)
        /\ Len(SubSeq(waits, 2, lw)) = lw - 1
        /\ \A i \in 1..(lw - 1) : SubSeq(waits, 2, lw)[i] = waits[2 + i - 1]
    <3>1. \A i \in 2..lw : waits[i] \in Nat
      BY <1>1, ElementOfSeq
    <3>2. 2 \in Int /\ lw \in Int
      OBVIOUS
    <3>3. /\ SubSeq(waits, 2, lw) \in Seq(Nat)
          /\ Len(SubSeq(waits, 2, lw)) = IF 2 <= lw THEN lw - 2 + 1 ELSE 0
          /\ \A i \in 1..(lw - 2 + 1) : SubSeq(waits, 2, lw)[i] = waits[2 + i - 1]
      BY <3>1, <3>2, SubSeqProperties
    <3> QED
      BY <1>5, <3>3
  <2>3. e = SubSeq(waits, 2, lw)
    BY <1>7, <2>1, <2>2, ConcatEmptySeq
  <2> QED
    BY <2>2, <2>3
<1>9. ASSUME NEW k \in 1..ld, d[k] # 0 PROVE \E i \in 1..(lw - 1) : e[i] = d[k]
  <2>1. k + 1 \in 1..(ld + 1) /\ d[k] = c[k + 1]
    BY <1>1
  <2>2. PICK i \in 1..lw : waits[i] = c[k + 1]
    BY <1>1, <1>2, <1>9, <2>1 DEF InStep
  <2>3. i # 1
    <3>1. 1 < i <=> 1 < k + 1
      BY <1>1, <1>2, <1>5, <2>1, <2>2 DEF InStep
    <3> QED
      BY <3>1
  <2>4. i - 1 \in 1..(lw - 1) /\ (i - 1) + 1 = i
    BY <2>3
  <2>5. e[i - 1] = waits[i]
    BY <1>8, <2>4
  <2> QED
    BY <2>1, <2>2, <2>4, <2>5
<1>10. ASSUME NEW i \in 1..(lw - 1) PROVE e[i] # 0 /\ \E k \in 1..ld : d[k] = e[i]
  <2>0. i + 1 \in 1..lw /\ i + 1 # 1
    BY <1>1
  <2>1. i + 1 \in 1..lw /\ i + 1 # 1 /\ e[i] = waits[i + 1]
    BY <1>8, <2>0
  <2>2. PICK k \in 1..(ld + 1) : waits[i + 1] # 0 /\ c[k] = waits[i + 1]
    BY <1>1, <1>2, <2>1 DEF InStep
  <2>3. k # 1
    BY <1>4, <2>1, <2>2
  <2>4. k - 1 \in 1..ld /\ (k - 1) + 1 = k
    BY <2>3
  <2>5. d[k - 1] = c[k]
    BY <1>1, <2>4
  <2> QED
    BY <2>1, <2>2, <2>4, <2>5
<1>11. ASSUME NEW i \in 1..(lw - 1), NEW j \in 1..(lw - 1), NEW k \in 1..ld, NEW m \in 1..ld,
              e[i] = d[k], e[j] = d[m]
       PROVE  i < j <=> k < m
  <2>0. i + 1 \in 1..lw /\ j + 1 \in 1..lw
    BY <1>1
  <2>1. /\ i + 1 \in 1..lw /\ j + 1 \in 1..lw
        /\ e[i] = waits[i + 1] /\ e[j] = waits[j + 1]
    BY <1>8, <2>0
  <2>2. /\ k + 1 \in 1..(ld + 1) /\ m + 1 \in 1..(ld + 1)
        /\ d[k] = c[k + 1] /\ d[m] = c[m + 1]
    BY <1>1
  <2>3. i + 1 < j + 1 <=> k + 1 < m + 1
    BY <1>1, <1>2, <1>11, <2>1, <2>2, ZenonT(60) DEF InStep
  <2> QED
    BY <2>3
<1>12. InStep(d, e)
  BY <1>1, <1>8, <1>9, <1>10, <1>11 DEF InStep
<1> QED
  BY <1>6, <1>8, <1>12

\* What travels between the client and the server.
Methods == {"plain", "notification", "garbage", "subscribe", "unsubscribe", "read", "call",
            "updated", "parse error"}
Args == Resources \cup Listing \cup Changing \cup Bus \cup {""}
AnyLine == [id : Nat, method : Methods, arg : Args]

\* c are the numbers of the lines o, of the wait w and of the lines i.
IsNumbers(c, o, w, i) ==
    /\ c \in Seq(Nat)
    /\ Len(c) = Len(o) + 1 + Len(i)
    /\ \A k \in 1..Len(o) : c[k] = o[k].id
    /\ c[Len(o) + 1] = w
    /\ \A k \in 1..Len(i) : c[Len(o) + 1 + k] = i[k].id

LEMMA IdsEntries ==
    ASSUME NEW s \in Seq(AnyLine)
    PROVE  /\ Ids(s) \in Seq(Nat) /\ Len(Ids(s)) = Len(s)
           /\ \A k \in 1..Len(s) : Ids(s)[k] = s[k].id
<1>1. PICK n \in Nat : n = Len(s) /\ DOMAIN s = 1..n
  BY LenProperties
<1>2. ASSUME NEW k \in 1..n PROVE s[k].id \in Nat
  <2>1. s[k] \in AnyLine
    BY <1>1, ElementOfSeq
  <2> QED
    BY <2>1 DEF AnyLine
<1>3. Ids(s) = [k \in 1..n |-> s[k].id]
  BY <1>1 DEF Ids
<1>4. Ids(s) \in [1..n -> Nat]
  BY <1>2, <1>3
<1>5. Ids(s) \in Seq(Nat)
  BY <1>1, <1>4, SeqDef
<1>6. DOMAIN Ids(s) = 1..n /\ DOMAIN Ids(s) = 1..Len(Ids(s)) /\ Len(Ids(s)) \in Nat
  BY <1>4, <1>5, LenProperties
<1>7. Len(Ids(s)) = n
  BY <1>1, <1>5, <1>6
<1> QED
  BY <1>1, <1>3, <1>5, <1>7

LEMMA NumbersEntries ==
    ASSUME NEW o \in Seq(AnyLine), NEW w \in Nat, NEW i \in Seq(AnyLine)
    PROVE  IsNumbers(Ids(o) \o <<w>> \o Ids(i), o, w, i)
<1>1. PICK a \in Seq(Nat) : a = Ids(o) /\ Len(a) = Len(o) /\ \A k \in 1..Len(o) : a[k] = o[k].id
  BY IdsEntries
<1>2. PICK b \in Seq(Nat) : b = Ids(i) /\ Len(b) = Len(i) /\ \A k \in 1..Len(i) : b[k] = i[k].id
  BY IdsEntries
<1>3. PICK x : x = <<w>> /\ x \in Seq(Nat) /\ Len(x) = 1 /\ x[1] = w
  <2>1. <<w>> \in Seq(Nat) /\ Len(<<w>>) = 1 /\ <<w>>[1] = w
    OBVIOUS
  <2> QED
    BY <2>1
<1>4. PICK lo \in Nat, li \in Nat : lo = Len(o) /\ li = Len(i)
  BY LenProperties
<1>5. PICK y : y = a \o x
  OBVIOUS
<1>6. /\ y \in Seq(Nat) /\ Len(y) = lo + 1
      /\ \A k \in 1..(lo + 1) : y[k] = IF k <= lo THEN a[k] ELSE x[k - lo]
  BY <1>1, <1>3, <1>4, <1>5, ConcatProperties
<1>7. PICK c : c = y \o b
  OBVIOUS
<1>8. /\ c \in Seq(Nat) /\ Len(c) = lo + 1 + li
      /\ \A k \in 1..(lo + 1 + li) : c[k] = IF k <= lo + 1 THEN y[k] ELSE b[k - (lo + 1)]
  <2>1. Len(b) = li /\ Len(y) = lo + 1
    BY <1>2, <1>4, <1>6
  <2>0. y \in Seq(Nat) /\ b \in Seq(Nat)
    BY <1>2, <1>6
  <2>2. /\ y \o b \in Seq(Nat) /\ Len(y \o b) = Len(y) + Len(b)
        /\ \A k \in 1..(Len(y) + Len(b)) :
              (y \o b)[k] = IF k <= Len(y) THEN y[k] ELSE b[k - Len(y)]
    BY <2>0, ConcatProperties
  <2> QED
    BY <1>7, <2>1, <2>2
<1>9. ASSUME NEW k \in 1..lo PROVE c[k] = o[k].id
  <2>1. k \in 1..(lo + 1) /\ k \in 1..(lo + 1 + li) /\ k <= lo /\ k <= lo + 1
    BY <1>4
  <2>2. c[k] = y[k] /\ y[k] = a[k]
    BY <1>6, <1>8, <2>1
  <2> QED
    BY <1>1, <1>4, <2>2
<1>10. c[lo + 1] = w
  <2>1. /\ lo + 1 \in 1..(lo + 1) /\ lo + 1 \in 1..(lo + 1 + li) /\ ~(lo + 1 <= lo)
        /\ lo + 1 <= lo + 1 /\ (lo + 1) - lo = 1
    BY <1>4
  <2>2. c[lo + 1] = y[lo + 1] /\ y[lo + 1] = x[(lo + 1) - lo]
    BY <1>6, <1>8, <2>1
  <2> QED
    BY <1>3, <2>1, <2>2
<1>11. ASSUME NEW k \in 1..li PROVE c[lo + 1 + k] = i[k].id
  <2>1. /\ lo + 1 + k \in 1..(lo + 1 + li) /\ ~(lo + 1 + k <= lo + 1)
        /\ (lo + 1 + k) - (lo + 1) = k
    BY <1>4
  <2>2. c[lo + 1 + k] = b[(lo + 1 + k) - (lo + 1)]
    BY <1>8, <2>1
  <2> QED
    BY <1>2, <1>4, <2>1, <2>2
<1>12. c = Ids(o) \o <<w>> \o Ids(i)
  BY <1>1, <1>2, <1>3, <1>5, <1>7
<1>13. IsNumbers(c, o, w, i)
  BY <1>4, <1>8, <1>9, <1>10, <1>11 DEF IsNumbers
<1> QED
  BY <1>12, <1>13

LEMMA FirstAndRest ==
    ASSUME NEW s \in Seq(AnyLine), s # <<>>
    PROVE  /\ Head(s) \in AnyLine /\ Head(s) = s[1] /\ Len(s) >= 1
           /\ Tail(s) \in Seq(AnyLine) /\ Len(Tail(s)) = Len(s) - 1
           /\ \A k \in 1..(Len(s) - 1) : Tail(s)[k] = s[k + 1]
<1>1. Len(s) \in Nat /\ Len(s) # 0
  BY EmptySeq
<1>2. /\ Head(s) \in AnyLine /\ Tail(s) \in Seq(AnyLine)
      /\ Len(Tail(s)) = Len(s) - 1
      /\ \A k \in 1..Len(Tail(s)) : Tail(s)[k] = s[k + 1]
  BY HeadTailProperties
<1>3. Head(s) = s[1]
  OBVIOUS
<1> QED
  BY <1>1, <1>2, <1>3

-----------------------------------------------------------------------------
(* What a step does to the numbers *)

\* A line without a number is taken from the input.
LEMMA NumberlessRead ==
    ASSUME NEW o \in Seq(AnyLine), NEW w, NEW i \in Seq(AnyLine), i # <<>>,
           Head(i).id = 0, NEW c, NEW d, NEW waits \in Seq(Nat), w = 0,
           IsNumbers(c, o, w, i), IsNumbers(d, o, w, Tail(i)), InStep(c, waits)
    PROVE  InStep(d, waits)
<1>1. PICK lo \in Nat, li \in Nat : lo = Len(o) /\ li = Len(i)
  BY LenProperties
<1>2. /\ li >= 1 /\ Head(i) = i[1] /\ Len(Tail(i)) = li - 1
      /\ \A k \in 1..(li - 1) : Tail(i)[k] = i[k + 1]
  BY <1>1, FirstAndRest
<1>3. /\ c \in Seq(Nat) /\ d \in Seq(Nat)
      /\ Len(c) = lo + 1 + li /\ Len(d) = lo + li
  BY <1>1, <1>2 DEF IsNumbers
<1>4. ASSUME NEW k \in 1..(lo + 1) PROVE d[k] = c[k]
  <2>1. CASE k \in 1..lo
    BY <1>1, <2>1 DEF IsNumbers
  <2>2. CASE k = lo + 1
    BY <1>1, <2>2 DEF IsNumbers
  <2> QED
    BY <1>1, <2>1, <2>2, SMTT(60)
<1>5. ASSUME NEW k \in (lo + 2)..(lo + li) PROVE d[k] = c[k + 1]
  <2>1. PICK j \in 1..(li - 1) : k = lo + 1 + j
    <3>1. k - lo - 1 \in 1..(li - 1) /\ k = lo + 1 + (k - lo - 1)
      BY <1>1
    <3> QED
      BY <3>1
  <2>2. d[lo + 1 + j] = Tail(i)[j] .id
    BY <1>1, <1>2 DEF IsNumbers
  <2>3. j + 1 \in 1..li /\ k + 1 = lo + 1 + (j + 1)
    BY <1>1, <2>1
  <2>4. c[lo + 1 + (j + 1)] = i[j + 1].id
    BY <1>1, <2>3 DEF IsNumbers
  <2> QED
    BY <1>2, <2>1, <2>2, <2>3, <2>4
<1>6. c[lo + 2] = 0
  <2>1. c[lo + 1 + 1] = i[1].id
    BY <1>1, <1>2 DEF IsNumbers
  <2> QED
    BY <1>1, <1>2, <2>1
<1>7. Dropped(c, d, lo + 2, 1)
  <2>1. lo + 2 \in 1..(Len(d) + 1) /\ Len(c) = Len(d) + 1
    BY <1>1, <1>2, <1>3, SMTT(60)
  <2>2. \A k \in (lo + 2)..(lo + 2 + 1 - 1) : c[k] = 0
    BY <1>1, <1>6
  <2>3. \A k \in 1..(lo + 2 - 1) : d[k] = c[k]
    BY <1>1, <1>4
  <2>4. \A k \in (lo + 2)..Len(d) : d[k] = c[k + 1]
    BY <1>3, <1>5
  <2> QED
    BY <2>1, <2>2, <2>3, <2>4 DEF Dropped
<1> QED
  BY <1>3, <1>7, ZerosAside

\* A request is set aside to wait.
LEMMA RequestWaits ==
    ASSUME NEW o \in Seq(AnyLine), NEW i \in Seq(AnyLine), i # <<>>,
           NEW c, NEW d, NEW waits \in Seq(Nat),
           IsNumbers(c, o, 0, i), IsNumbers(d, o, Head(i).id, Tail(i)), InStep(c, waits)
    PROVE  InStep(d, waits)
<1>1. PICK lo \in Nat, li \in Nat : lo = Len(o) /\ li = Len(i)
  BY LenProperties
<1>2. /\ li >= 1 /\ Head(i) = i[1] /\ Len(Tail(i)) = li - 1
      /\ \A k \in 1..(li - 1) : Tail(i)[k] = i[k + 1]
  BY <1>1, FirstAndRest
<1>3. /\ c \in Seq(Nat) /\ d \in Seq(Nat)
      /\ Len(c) = lo + 1 + li /\ Len(d) = lo + li
  BY <1>1, <1>2 DEF IsNumbers
<1>4. ASSUME NEW k \in 1..lo PROVE d[k] = c[k]
  BY <1>1 DEF IsNumbers
<1>5. ASSUME NEW k \in (lo + 1)..(lo + li) PROVE d[k] = c[k + 1]
  <2>1. CASE k = lo + 1
    <3>1. d[lo + 1] = i[1].id
      BY <1>1, <1>2 DEF IsNumbers
    <3>2. c[lo + 1 + 1] = i[1].id
      BY <1>1, <1>2 DEF IsNumbers
    <3> QED
      BY <2>1, <3>1, <3>2
  <2>2. CASE k # lo + 1
    <3>1. PICK j \in 1..(li - 1) : k = lo + 1 + j
      <4>1. k - lo - 1 \in 1..(li - 1) /\ k = lo + 1 + (k - lo - 1)
        BY <1>1, <2>2
      <4> QED
        BY <4>1
    <3>2. d[lo + 1 + j] = Tail(i)[j].id
      BY <1>1, <1>2 DEF IsNumbers
    <3>3. j + 1 \in 1..li /\ k + 1 = lo + 1 + (j + 1)
      BY <1>1, <3>1
    <3>4. c[lo + 1 + (j + 1)] = i[j + 1].id
      BY <1>1, <3>3 DEF IsNumbers
    <3> QED
      BY <1>2, <3>1, <3>2, <3>3, <3>4
  <2> QED
    BY <2>1, <2>2
<1>6. c[lo + 1] = 0
  BY <1>1 DEF IsNumbers
<1>7. Dropped(c, d, lo + 1, 1)
  <2>1. lo + 1 \in 1..(Len(d) + 1) /\ Len(c) = Len(d) + 1
    BY <1>1, <1>2, <1>3, SMTT(60)
  <2>2. \A k \in (lo + 1)..(lo + 1 + 1 - 1) : c[k] = 0
    BY <1>1, <1>6
  <2>3. \A k \in 1..(lo + 1 - 1) : d[k] = c[k]
    BY <1>1, <1>4
  <2>4. \A k \in (lo + 1)..Len(d) : d[k] = c[k + 1]
    BY <1>3, <1>5
  <2> QED
    BY <2>1, <2>2, <2>3, <2>4 DEF Dropped
<1> QED
  BY <1>3, <1>7, ZerosAside

\* The wait ends with an answer.
LEMMA WaitAnswered ==
    ASSUME NEW o \in Seq(AnyLine), NEW i \in Seq(AnyLine), NEW line \in AnyLine,
           NEW c, NEW d, NEW waits \in Seq(Nat),
           IsNumbers(c, o, line.id, i), IsNumbers(d, Append(o, line), 0, i), InStep(c, waits)
    PROVE  InStep(d, waits)
<1>1. PICK lo \in Nat, li \in Nat : lo = Len(o) /\ li = Len(i)
  BY LenProperties
<1>2. /\ Len(Append(o, line)) = lo + 1 /\ Append(o, line)[lo + 1] = line
      /\ \A k \in 1..lo : Append(o, line)[k] = o[k]
  BY <1>1, AppendProperties
<1>3. /\ c \in Seq(Nat) /\ d \in Seq(Nat)
      /\ Len(c) = lo + 1 + li /\ Len(d) = lo + 1 + 1 + li
  BY <1>1, <1>2 DEF IsNumbers
<1>4. ASSUME NEW k \in 1..(lo + 1) PROVE c[k] = d[k]
  <2>1. d[k] = Append(o, line)[k].id
    BY <1>1, <1>2 DEF IsNumbers
  <2>2. CASE k = lo + 1
    BY <1>1, <1>2, <2>1, <2>2 DEF IsNumbers
  <2>3. CASE k \in 1..lo
    <3>1. c[k] = o[k].id
      BY <1>1, <2>3 DEF IsNumbers
    <3> QED
      BY <1>2, <2>1, <2>3, <3>1
  <2> QED
    BY <1>1, <2>2, <2>3, SMTT(60)
<1>5. ASSUME NEW k \in (lo + 2)..(lo + 1 + li) PROVE c[k] = d[k + 1]
  <2>1. PICK j \in 1..li : k = lo + 1 + j
    <3>1. k - lo - 1 \in 1..li /\ k = lo + 1 + (k - lo - 1)
      BY <1>1
    <3> QED
      BY <3>1
  <2>2. c[lo + 1 + j] = i[j].id /\ d[lo + 1 + 1 + j] = i[j].id
    BY <1>1, <1>2 DEF IsNumbers
  <2>3. k + 1 = lo + 1 + 1 + j
    BY <1>1, <2>1
  <2> QED
    BY <2>1, <2>2, <2>3
<1>6. d[lo + 2] = 0
  <2>1. d[lo + 1 + 1] = 0
    BY <1>1, <1>2 DEF IsNumbers
  <2> QED
    BY <1>1, <2>1
<1>7. Dropped(d, c, lo + 2, 1)
  <2>1. lo + 2 \in 1..(Len(c) + 1) /\ Len(d) = Len(c) + 1
    BY <1>1, <1>2, <1>3, SMTT(60)
  <2>2. \A k \in (lo + 2)..(lo + 2 + 1 - 1) : d[k] = 0
    BY <1>1, <1>6
  <2>3. \A k \in 1..(lo + 2 - 1) : c[k] = d[k]
    BY <1>1, <1>4
  <2>4. \A k \in (lo + 2)..Len(c) : c[k] = d[k + 1]
    BY <1>3, <1>5
  <2> QED
    BY <2>1, <2>2, <2>3, <2>4 DEF Dropped
<1> QED
  BY <1>3, <1>7, ZerosAside

\* A line is answered at once, or one without a number by one without.
LEMMA LineAnswered ==
    ASSUME NEW o \in Seq(AnyLine), NEW i \in Seq(AnyLine), i # <<>>, NEW line \in AnyLine,
           line.id = Head(i).id, NEW c, NEW d, NEW waits \in Seq(Nat),
           IsNumbers(c, o, 0, i), IsNumbers(d, Append(o, line), 0, Tail(i)), InStep(c, waits)
    PROVE  InStep(d, waits)
<1>1. Head(i).id \in Nat /\ Tail(i) \in Seq(AnyLine)
  BY FirstAndRest DEF AnyLine
<1>2. PICK e : e = Ids(o) \o <<line.id>> \o Ids(Tail(i))
  OBVIOUS
<1>3. IsNumbers(e, o, Head(i).id, Tail(i)) /\ IsNumbers(e, o, line.id, Tail(i))
  BY <1>1, <1>2, NumbersEntries
<1>4. InStep(e, waits)
  BY <1>3, RequestWaits
<1> QED
  BY <1>1, <1>3, <1>4, WaitAnswered

\* Lines without numbers are written.
LEMMA NumberlessWritten ==
    ASSUME NEW o \in Seq(AnyLine), NEW w, NEW i \in Seq(AnyLine), NEW new \in Seq(AnyLine),
           \A k \in 1..Len(new) : new[k].id = 0, NEW c, NEW d, NEW waits \in Seq(Nat),
           IsNumbers(c, o, w, i), IsNumbers(d, o \o new, w, i), InStep(c, waits)
    PROVE  InStep(d, waits)
<1>1. PICK lo \in Nat, li \in Nat, n \in Nat : lo = Len(o) /\ li = Len(i) /\ n = Len(new)
  BY LenProperties
<1>2. /\ Len(o \o new) = lo + n
      /\ \A k \in 1..(lo + n) : (o \o new)[k] = IF k <= lo THEN o[k] ELSE new[k - lo]
  BY <1>1, ConcatProperties
<1>3. /\ c \in Seq(Nat) /\ d \in Seq(Nat)
      /\ Len(c) = lo + 1 + li /\ Len(d) = lo + n + 1 + li
  BY <1>1, <1>2 DEF IsNumbers
<1>4. ASSUME NEW k \in 1..lo PROVE c[k] = d[k]
  <2>1. k \in 1..(lo + n) /\ k <= lo
    BY <1>1
  <2>2. (o \o new)[k] = o[k]
    BY <1>2, <2>1
  <2>3. d[k] = (o \o new)[k].id /\ c[k] = o[k].id
    BY <1>1, <1>2, <2>1 DEF IsNumbers
  <2> QED
    BY <2>2, <2>3
<1>5. ASSUME NEW k \in (lo + 1)..(lo + 1 + n - 1) PROVE d[k] = 0
  <2>1. k \in 1..(lo + n) /\ ~(k <= lo) /\ k - lo \in 1..n
    BY <1>1
  <2>2. (o \o new)[k] = new[k - lo]
    BY <1>2, <2>1
  <2>3. d[k] = (o \o new)[k].id
    BY <1>1, <1>2, <2>1 DEF IsNumbers
  <2> QED
    BY <1>1, <2>1, <2>2, <2>3
<1>6. ASSUME NEW k \in (lo + 1)..(lo + 1 + li) PROVE c[k] = d[k + n]
  <2>1. CASE k = lo + 1
    <3>1. c[lo + 1] = w /\ d[lo + n + 1] = w
      BY <1>1, <1>2 DEF IsNumbers
    <3>2. k + n = lo + n + 1
      BY <1>1, <2>1
    <3> QED
      BY <2>1, <3>1, <3>2
  <2>2. CASE k # lo + 1
    <3>1. PICK j \in 1..li : k = lo + 1 + j
      <4>1. k - lo - 1 \in 1..li /\ k = lo + 1 + (k - lo - 1)
        BY <1>1, <2>2
      <4> QED
        BY <4>1
    <3>2. c[lo + 1 + j] = i[j].id /\ d[lo + n + 1 + j] = i[j].id
      BY <1>1, <1>2 DEF IsNumbers
    <3>3. k + n = lo + n + 1 + j
      BY <1>1, <3>1
    <3> QED
      BY <3>1, <3>2, <3>3
  <2> QED
    BY <2>1, <2>2
<1>7. Dropped(d, c, lo + 1, n)
  <2>1. lo + 1 \in 1..(Len(c) + 1) /\ Len(d) = Len(c) + n
    BY <1>1, <1>3, SMTT(60)
  <2>2. \A k \in 1..(lo + 1 - 1) : c[k] = d[k]
    BY <1>1, <1>4
  <2> QED
    <3>1. \A k \in (lo + 1)..(lo + 1 + n - 1) : d[k] = 0
      BY <1>5
    <3>2. \A k \in (lo + 1)..Len(c) : c[k] = d[k + n]
      BY <1>3, <1>6
    <3> QED
      BY <2>1, <2>2, <3>1, <3>2 DEF Dropped
<1> QED
  BY <1>1, <1>3, <1>7, ZerosAside

\* The client sends a line, with a number that nobody waits for or with none.
LEMMA LineSent ==
    ASSUME NEW o \in Seq(AnyLine), NEW w, NEW i \in Seq(AnyLine), NEW line \in AnyLine,
           NEW c, NEW d, NEW waits \in Seq(Nat),
           \A k \in 1..Len(waits) : waits[k] # line.id,
           IsNumbers(c, o, w, i), IsNumbers(d, o, w, Append(i, line)), InStep(c, waits)
    PROVE  InStep(d, IF line.id = 0 THEN waits ELSE Append(waits, line.id))
<1>1. PICK lo \in Nat, li \in Nat : lo = Len(o) /\ li = Len(i)
  BY LenProperties
<1>2. /\ Len(Append(i, line)) = li + 1 /\ Append(i, line)[li + 1] = line
      /\ \A k \in 1..li : Append(i, line)[k] = i[k]
  BY <1>1, AppendProperties
<1>3. /\ c \in Seq(Nat) /\ d \in Seq(Nat)
      /\ Len(c) = lo + 1 + li /\ Len(d) = lo + 1 + (li + 1)
  BY <1>1, <1>2 DEF IsNumbers
<1>4. line.id \in Nat
  BY DEF AnyLine
<1>5. ASSUME NEW k \in 1..(lo + 1 + li) PROVE d[k] = c[k]
  <2>0. PICK top \in Nat : top = lo + 1 + li /\ k \in Nat /\ 1 <= k /\ k <= top
    BY <1>1
  <2>1. CASE k \in 1..lo
    BY <1>1, <2>1 DEF IsNumbers
  <2>2. CASE k = lo + 1
    BY <1>1, <2>2 DEF IsNumbers
  <2>3. CASE k > lo + 1
    <3>1. PICK j \in 1..li : k = lo + 1 + j
      <4>1. k - lo - 1 \in 1..li /\ k = lo + 1 + (k - lo - 1)
        BY <1>1, <2>0, <2>3
      <4> QED
        BY <4>1
    <3>2. j \in 1..(li + 1)
      BY <1>1
    <3>3. c[lo + 1 + j] = i[j].id /\ d[lo + 1 + j] = Append(i, line)[j].id
      BY <1>1, <1>2, <3>2 DEF IsNumbers
    <3> QED
      BY <1>2, <3>1, <3>3
  <2>4. k \in 1..lo \/ k = lo + 1 \/ k > lo + 1
    BY <1>1, <2>0
  <2> QED
    BY <2>1, <2>2, <2>3, <2>4
<1>6. d[lo + 1 + li + 1] = line.id
  <2>1. li + 1 \in 1..(li + 1) /\ lo + 1 + (li + 1) = lo + 1 + li + 1
    BY <1>1
  <2>2. d[lo + 1 + (li + 1)] = Append(i, line)[li + 1].id
    BY <1>1, <1>2, <2>1 DEF IsNumbers
  <2> QED
    BY <1>2, <2>1, <2>2
<1>7. CASE line.id = 0
  <2>1. Dropped(d, c, lo + 1 + li + 1, 1)
    <3>1. lo + 1 + li + 1 \in 1..(Len(c) + 1) /\ Len(d) = Len(c) + 1
      BY <1>1, <1>3
    <3>2. \A k \in (lo + 1 + li + 1)..(lo + 1 + li + 1 + 1 - 1) : d[k] = 0
      BY <1>1, <1>6, <1>7
    <3>3. \A k \in 1..(lo + 1 + li + 1 - 1) : c[k] = d[k]
      BY <1>1, <1>5
    <3>4. \A k \in (lo + 1 + li + 1)..Len(c) : c[k] = d[k + 1]
      BY <1>1, <1>3
    <3> QED
      BY <3>1, <3>2, <3>3, <3>4 DEF Dropped
  <2>2. InStep(d, waits)
    BY <1>3, <2>1, ZerosAside
  <2> QED
    BY <1>7, <2>2
<1>8. CASE line.id # 0
  <2>1. InStep(Append(c, line.id), Append(waits, line.id))
    BY <1>3, <1>4, <1>8, AskedLast
  <2>2. /\ Append(c, line.id) \in Seq(Nat) /\ Len(Append(c, line.id)) = lo + 1 + li + 1
        /\ \A k \in 1..(lo + 1 + li) : Append(c, line.id)[k] = c[k]
        /\ Append(c, line.id)[lo + 1 + li + 1] = line.id
    <3>0. c \in Seq(Nat) /\ line.id \in Nat
      BY <1>3, <1>4
    <3>1. /\ Append(c, line.id) \in Seq(Nat) /\ Len(Append(c, line.id)) = Len(c) + 1
          /\ \A k \in 1..Len(c) : Append(c, line.id)[k] = c[k]
          /\ Append(c, line.id)[Len(c) + 1] = line.id
      BY <3>0, AppendProperties
    <3>2. Len(c) = lo + 1 + li
      BY <1>3
    <3> QED
      BY <3>1, <3>2
  <2>3. ASSUME NEW k \in 1..(lo + 1 + li + 1) PROVE d[k] = Append(c, line.id)[k]
    <3>1. k \in 1..(lo + 1 + li) \/ k = lo + 1 + li + 1
      BY <1>1, SMTT(60)
    <3> QED
      BY <1>5, <1>6, <2>2, <3>1
  <2>4. Len(d) = lo + 1 + li + 1
    BY <1>1, <1>3
  <2>5. d = Append(c, line.id)
    BY <1>3, <2>2, <2>3, <2>4, SeqEqual
  <2> QED
    BY <1>8, <2>1, <2>5
<1> QED
  BY <1>7, <1>8

\* The client takes the oldest line: its number, if it has one, is the oldest wait.
LEMMA LineReceived ==
    ASSUME NEW o \in Seq(AnyLine), o # <<>>, NEW w, NEW i \in Seq(AnyLine),
           NEW c, NEW d, NEW waits \in Seq(Nat), NEW v,
           v = IF Head(o).id = 0 THEN waits ELSE RemoveFirst(waits, Head(o).id),
           IsNumbers(c, o, w, i), IsNumbers(d, Tail(o), w, i), InStep(c, waits)
    PROVE  v \in Seq(Nat) /\ InStep(d, v)
<1>1. PICK lo \in Nat, li \in Nat : lo = Len(o) /\ li = Len(i)
  BY LenProperties
<1>2. /\ lo >= 1 /\ Head(o) = o[1] /\ Len(Tail(o)) = lo - 1 /\ Head(o).id \in Nat
      /\ \A k \in 1..(lo - 1) : Tail(o)[k] = o[k + 1]
  BY <1>1, FirstAndRest DEF AnyLine
<1>3. /\ c \in Seq(Nat) /\ d \in Seq(Nat)
      /\ Len(c) = lo + 1 + li /\ Len(d) = lo + li
  BY <1>1, <1>2 DEF IsNumbers
<1>4. c[1] = Head(o).id
  BY <1>1, <1>2, SMTT(60) DEF IsNumbers
<1>5. ASSUME NEW k \in 1..(lo + li) PROVE d[k] = c[k + 1]
  <2>1. CASE k \in 1..(lo - 1)
    <3>1. k + 1 \in 1..lo
      BY <1>1, <2>1
    <3>2. d[k] = Tail(o)[k].id /\ c[k + 1] = o[k + 1].id
      BY <1>1, <1>2, <2>1, <3>1 DEF IsNumbers
    <3> QED
      BY <1>2, <2>1, <3>2
  <2>2. CASE k = lo
    <3>1. d[lo - 1 + 1] = w /\ c[lo + 1] = w /\ lo - 1 + 1 = lo
      BY <1>1, <1>2 DEF IsNumbers
    <3> QED
      BY <2>2, <3>1
  <2>3. CASE k > lo
    <3>1. PICK j \in 1..li : k = lo + j
      <4>1. k - lo \in 1..li /\ k = lo + (k - lo)
        BY <1>1, <2>3
      <4> QED
        BY <4>1
    <3>2. lo - 1 + 1 + j = k /\ lo + 1 + j = k + 1
      BY <1>1, <3>1
    <3>3. d[lo - 1 + 1 + j] = i[j].id /\ c[lo + 1 + j] = i[j].id
      BY <1>1, <1>2 DEF IsNumbers
    <3> QED
      BY <3>2, <3>3
  <2> QED
    BY <1>1, <2>1, <2>2, <2>3
<1>6. CASE Head(o).id = 0
  <2>1. Dropped(c, d, 1, 1)
    <3>1. 1 \in 1..(Len(d) + 1) /\ Len(c) = Len(d) + 1
      BY <1>1, <1>3
    <3>2. \A k \in 1..(1 + 1 - 1) : c[k] = 0
      BY <1>4, <1>6
    <3>3. \A k \in 1..(1 - 1) : d[k] = c[k]
      OBVIOUS
    <3> QED
      BY <1>3, <1>5, <3>1, <3>2, <3>3 DEF Dropped
  <2> QED
    BY <1>3, <1>6, <2>1, ZerosAside
<1>7. CASE Head(o).id # 0
  <2>1. Len(c) = Len(d) + 1 /\ \A k \in 1..Len(d) : d[k] = c[k + 1]
    BY <1>1, <1>3, <1>5
  <2>2. Head(o).id \in Nat \ {0}
    BY <1>2, <1>7
  <2> QED
    BY <1>3, <1>4, <1>7, <2>1, <2>2, AnsweredFirst
<1> QED
  BY <1>6, <1>7

-----------------------------------------------------------------------------
(* Types *)

TypeInv ==
    /\ input \in Seq(AnyLine) /\ output \in Seq(AnyLine)
    /\ server \in [pc : {"read", "flush", "wait"}, subscribed : SUBSET Args,
                   pending : Seq(Args), waiting : Nat, published : BOOLEAN]
    /\ client \in [sent : Nat, waits : Seq(Nat), wants : SUBSET Args, again : SUBSET Args]

\* Requests have a number, notifications and what is no JSON have none.
Counted(lines) ==
    \A k \in 1..Len(lines) : lines[k].method \in {"notification", "garbage"} <=> lines[k].id = 0

\* The loop is where its state says: it waits for a number, and what is queued
\* is written before the next line is read.
Control ==
    /\ Counted(input)
    /\ server.waiting # 0 <=> server.pc = "wait"
    /\ server.pc # "flush" => server.pending = <<>>

\* A finite set is listed in full.
LEMMA SetListed ==
    ASSUME NEW S, IsFiniteSet(S)
    PROVE  /\ SetToSeq(S) \in Seq(S)
           /\ \A x \in S : \E k \in 1..Len(SetToSeq(S)) : SetToSeq(S)[k] = x
<1>1. PICK n \in Nat : n = Cardinality(S) /\ ExistsBijection(1..n, S)
  BY FS_CardinalityType
<1>2. PICK f \in [1..n -> S] : IsInjective(f)
  BY <1>1 DEF ExistsBijection, Bijection, Injection
<1>3. PICK g : g = SetToSeq(S)
  OBVIOUS
<1>4. g \in [1..n -> S] /\ IsInjective(g)
  BY <1>1, <1>2, <1>3 DEF SetToSeq
<1>5. g \in Injection(1..n, S)
  BY <1>4 DEF Injection
<1>6. Cardinality(1..n) = n
  BY <1>1, FS_Interval
<1>7. g \in Surjection(1..n, S)
  BY <1>1, <1>5, <1>6, FS_Injection
<1>8. g \in Seq(S) /\ Len(g) = n
  BY <1>4, SeqDef, LenProperties
<1>9. \A x \in S : \E k \in 1..n : g[k] = x
  BY <1>7 DEF Surjection
<1> QED
  BY <1>3, <1>8, <1>9

LEMMA AnnouncedFinite ==
    ASSUME NEW tool
    PROVE  Announced(tool) \subseteq Resources /\ IsFiniteSet(Announced(tool))
<1>1. Events(tool) \subseteq {"command", "repo", "slot", "session", "review", "team"}
  BY DEF Events
<1>2. ASSUME NEW kind \in {"command", "repo", "slot", "session", "review", "team"}
      PROVE  UrisOf(kind) \subseteq Resources
  BY DEF UrisOf, Resources
<1>3. Announced(tool) \subseteq Resources
  BY <1>1, <1>2 DEF Announced
<1>4. IsFiniteSet(Resources)
  <2>1. IsFiniteSet({"repos"})
    BY FS_Singleton
  <2>2. IsFiniteSet({"repos"} \cup {"slots"})
    BY <2>1, FS_AddElement
  <2>3. IsFiniteSet({"repos"} \cup {"slots"} \cup {"sessions"})
    BY <2>2, FS_AddElement
  <2>4. IsFiniteSet({"repos"} \cup {"slots"} \cup {"sessions"} \cup {"review"})
    BY <2>3, FS_AddElement
  <2>5. IsFiniteSet({"repos"} \cup {"slots"} \cup {"sessions"} \cup {"review"} \cup {"teams"})
    BY <2>4, FS_AddElement
  <2>6. IsFiniteSet(({"repos"} \cup {"slots"} \cup {"sessions"} \cup {"review"} \cup {"teams"})
                      \cup {"events"})
    BY <2>5, FS_AddElement
  <2>7. Resources = ({"repos"} \cup {"slots"} \cup {"sessions"} \cup {"review"} \cup {"teams"})
                      \cup {"events"}
    BY DEF Resources
  <2> QED
    BY <2>6, <2>7
<1> QED
  BY <1>3, <1>4, FS_Subset

LEMMA ResourcesNamed == Resources \subseteq Args
  BY DEF Args

\* What a tool announces is queued behind what is queued already, in full.
LEMMA QueueTyped ==
    ASSUME TypeInv, NEW tool
    PROVE  /\ Queued(tool) \in Seq(Args)
           /\ \A k \in 1..Len(server.pending) :
                 \E j \in 1..Len(Queued(tool)) : Queued(tool)[j] = server.pending[k]
           /\ \A uri \in Announced(tool) \cap server.subscribed :
                 \E j \in 1..Len(Queued(tool)) : Queued(tool)[j] = uri
<1>1. PICK S : S = Announced(tool) \cap server.subscribed
  OBVIOUS
<1>2. IsFiniteSet(S) /\ S \subseteq Args
  BY <1>1, AnnouncedFinite, ResourcesNamed, FS_Subset
<1>3. PICK s : s = SetToSeq(S)
  OBVIOUS
<1>4. s \in Seq(Args) /\ \A x \in S : \E k \in 1..Len(s) : s[k] = x
  BY <1>2, <1>3, SetListed, SeqMonotonic
<1>5. PICK p \in Seq(Args) : p = server.pending
  BY DEF TypeInv
<1>6. PICK q : q = p \o s
  OBVIOUS
<1>7. PICK lp \in Nat, ls \in Nat : lp = Len(p) /\ ls = Len(s)
  BY <1>4, LenProperties
<1>8. /\ q \in Seq(Args) /\ Len(q) = lp + ls
      /\ \A k \in 1..(lp + ls) : q[k] = IF k <= lp THEN p[k] ELSE s[k - lp]
  BY <1>4, <1>6, <1>7, ConcatProperties
<1>9. ASSUME NEW k \in 1..lp PROVE \E j \in 1..Len(q) : q[j] = p[k]
  <2>1. k \in 1..(lp + ls) /\ k <= lp
    BY <1>7
  <2> QED
    BY <1>8, <2>1
<1>10. ASSUME NEW x \in S PROVE \E j \in 1..Len(q) : q[j] = x
  <2>1. PICK k \in 1..ls : s[k] = x
    BY <1>4, <1>7
  <2>2. k + lp \in 1..(lp + ls) /\ ~(k + lp <= lp) /\ (k + lp) - lp = k
    BY <1>7
  <2>3. q[k + lp] = s[(k + lp) - lp]
    BY <1>8, <2>2
  <2> QED
    BY <1>8, <2>1, <2>2, <2>3
<1>11. Queued(tool) = q
  BY <1>1, <1>3, <1>5, <1>6 DEF Queued
<1> QED
  BY <1>1, <1>5, <1>7, <1>8, <1>9, <1>10, <1>11

LEMMA RestCounted ==
    ASSUME NEW s \in Seq(AnyLine), s # <<>>, Counted(s)
    PROVE  /\ Counted(Tail(s))
           /\ Head(s).method \in {"notification", "garbage"} <=> Head(s).id = 0
<1>1. PICK n \in Nat : n = Len(s)
  BY LenProperties
<1>2. /\ Head(s) = s[1] /\ n >= 1 /\ Len(Tail(s)) = n - 1
      /\ \A k \in 1..(n - 1) : Tail(s)[k] = s[k + 1]
  BY <1>1, FirstAndRest
<1>3. ASSUME NEW k \in 1..(n - 1)
      PROVE  Tail(s)[k].method \in {"notification", "garbage"} <=> Tail(s)[k].id = 0
  <2>1. k + 1 \in 1..n
    BY <1>1
  <2> QED
    BY <1>1, <1>2, <2>1 DEF Counted
<1>4. 1 \in 1..n
  BY <1>1, <1>2
<1> QED
  BY <1>1, <1>2, <1>3, <1>4 DEF Counted

LEMMA MoreCounted ==
    ASSUME NEW s \in Seq(AnyLine), NEW line \in AnyLine, Counted(s),
           line.method \in {"notification", "garbage"} <=> line.id = 0
    PROVE  Counted(Append(s, line))
<1>1. PICK n \in Nat : n = Len(s)
  BY LenProperties
<1>2. /\ Len(Append(s, line)) = n + 1 /\ Append(s, line)[n + 1] = line
      /\ \A k \in 1..n : Append(s, line)[k] = s[k]
  BY <1>1, AppendProperties
<1>3. ASSUME NEW k \in 1..(n + 1)
      PROVE  Append(s, line)[k].method \in {"notification", "garbage"}
                <=> Append(s, line)[k].id = 0
  <2>1. k \in 1..n \/ k = n + 1
    BY <1>1
  <2> QED
    BY <1>1, <1>2, <2>1 DEF Counted
<1> QED
  BY <1>2, <1>3 DEF Counted

\* There is always a number that the client does not wait for.
LEMMA FreeIdIsFree ==
    ASSUME TypeInv
    PROVE  /\ FreeId \in Nat \ {0}
           /\ \A i \in 1..Len(client.waits) : client.waits[i] # FreeId
<1>1. PICK waits \in Seq(Nat) : waits = client.waits
  BY DEF TypeInv
<1>2. PICK n \in Nat : n = Len(waits) /\ DOMAIN waits = 1..n
  BY LenProperties
<1>3. \E x \in 1..(n + 1) : \A i \in 1..n : waits[i] # x
  <2>1. SUFFICES ASSUME \A x \in 1..(n + 1) : \E i \in 1..n : waits[i] = x
                 PROVE  FALSE
    OBVIOUS
  <2>2. PICK f : f = [x \in 1..(n + 1) |-> CHOOSE i \in 1..n : waits[i] = x]
    OBVIOUS
  <2>3. ASSUME NEW x \in 1..(n + 1) PROVE f[x] \in 1..n /\ waits[f[x]] = x
    BY <2>1, <2>2
  <2>4. f \in [1..(n + 1) -> 1..n]
    BY <2>2, <2>3
  <2>5. /\ IsFiniteSet(1..n) /\ Cardinality(1..n) = n
        /\ IsFiniteSet(1..(n + 1)) /\ Cardinality(1..(n + 1)) = n + 1
    <3>1. 1 \in Int /\ n \in Int /\ n + 1 \in Int /\ ~(1 > n + 1)
      BY <1>2
    <3>2. /\ IsFiniteSet(1..n) /\ Cardinality(1..n) = IF 1 > n THEN 0 ELSE n - 1 + 1
          /\ IsFiniteSet(1..(n + 1))
          /\ Cardinality(1..(n + 1)) = IF 1 > n + 1 THEN 0 ELSE (n + 1) - 1 + 1
      BY <3>1, FS_Interval
    <3> QED
      BY <1>2, <3>1, <3>2
  <2>6. Cardinality(1..n) < Cardinality(1..(n + 1))
    BY <1>2, <2>5
  <2>7. PICK x \in 1..(n + 1), y \in 1..(n + 1) : x # y /\ f[x] = f[y]
    BY <2>4, <2>5, <2>6, FS_PigeonHole
  <2> QED
    BY <2>3, <2>7
<1>4. FreeId \in 1..(n + 1) /\ \A i \in 1..n : waits[i] # FreeId
  BY <1>1, <1>2, <1>3 DEF FreeId
<1> QED
  BY <1>1, <1>2, <1>4

-----------------------------------------------------------------------------
(* Answers come in the order of the requests *)

OrderInv == TypeInv /\ Control /\ InStep(Numbers, client.waits)

ServerStates == [pc : {"read", "flush", "wait"}, subscribed : SUBSET Args,
                 pending : Seq(Args), waiting : Nat, published : BOOLEAN]
ClientStates == [sent : Nat, waits : Seq(Nat), wants : SUBSET Args, again : SUBSET Args]

LEMMA NumbersNow ==
    ASSUME TypeInv
    PROVE  /\ IsNumbers(Numbers, output, server.waiting, input) /\ server.waiting \in Nat
           /\ client.waits \in Seq(Nat)
<1>1. server.waiting \in Nat /\ client.waits \in Seq(Nat)
  BY DEF TypeInv
<1>2. IsNumbers(Ids(output) \o <<server.waiting>> \o Ids(input), output, server.waiting, input)
  BY <1>1, NumbersEntries DEF TypeInv
<1> QED
  BY <1>1, <1>2 DEF Numbers

LEMMA NumbersNext ==
    ASSUME TypeInv'
    PROVE  IsNumbers(Numbers', output', server'.waiting, input')
<1>1. server'.waiting \in Nat
  BY DEF TypeInv
<1>2. IsNumbers(Ids(output') \o <<server'.waiting>> \o Ids(input'), output', server'.waiting,
                input')
  BY <1>1, NumbersEntries DEF TypeInv
<1> QED
  BY <1>2 DEF Numbers

LEMMA OrderInStep ==
    ASSUME TypeInv
    PROVE  InStep(Numbers, client.waits) => AnsweredInOrder
<1>1. PICK c \in Seq(Nat) : c = Numbers
  BY NumbersNow DEF IsNumbers
<1>2. PICK waits \in Seq(Nat) : waits = client.waits
  BY DEF TypeInv
<1>3. DOMAIN c = 1..Len(c) /\ DOMAIN waits = 1..Len(waits)
  BY LenProperties
<1>4. ASSUME InStep(c, waits) PROVE AnsweredInOrder
  <2>1. {c[k] : k \in {k \in DOMAIN c : c[k] # 0}} = ToSet(waits)
    <3>1. ASSUME NEW x \in {c[k] : k \in {k \in DOMAIN c : c[k] # 0}} PROVE x \in ToSet(waits)
      <4>1. PICK k \in DOMAIN c : c[k] # 0 /\ x = c[k]
        BY <3>1
      <4>2. PICK i \in 1..Len(waits) : waits[i] = c[k]
        BY <1>3, <1>4, <4>1 DEF InStep
      <4> QED
        BY <1>3, <4>1, <4>2 DEF ToSet
    <3>2. ASSUME NEW x \in ToSet(waits) PROVE x \in {c[k] : k \in {k \in DOMAIN c : c[k] # 0}}
      <4>1. PICK i \in 1..Len(waits) : x = waits[i]
        BY <1>3, <3>2 DEF ToSet
      <4>2. PICK k \in 1..Len(c) : waits[i] # 0 /\ c[k] = waits[i]
        BY <1>4 DEF InStep
      <4> QED
        BY <1>3, <4>1, <4>2
    <3> QED
      BY <3>1, <3>2
  <2>2. \A i, j \in DOMAIN waits, k, m \in {k \in DOMAIN c : c[k] # 0} :
           waits[i] = c[k] /\ waits[j] = c[m] => (i < j <=> k < m)
    BY <1>3, <1>4 DEF InStep
  <2> QED
    BY <1>1, <1>2, <2>1, <2>2 DEF AnsweredInOrder, Numbered
<1> QED
  BY <1>1, <1>2, <1>4

\* What is read next.
LEMMA NextLine ==
    ASSUME TypeInv, Control, input # <<>>
    PROVE  /\ Line \in AnyLine /\ Line.id \in Nat /\ Line.arg \in Args
           /\ Tail(input) \in Seq(AnyLine) /\ Counted(Tail(input))
           /\ Line.method \in {"notification", "garbage"} <=> Line.id = 0
<1>1. /\ Line \in AnyLine /\ Tail(input) \in Seq(AnyLine) /\ Counted(Tail(input))
      /\ Line.method \in {"notification", "garbage"} <=> Line.id = 0
  BY FirstAndRest, RestCounted DEF TypeInv, Control, Line
<1> QED
  BY <1>1 DEF AnyLine

\* A request is answered before the next one is read.
LEMMA AnswerInOrder ==
    ASSUME OrderInv, server.pc = "read", input # <<>>, input' = Tail(input), Answer,
           client' = client, server' \in ServerStates, server'.pc = "flush",
           server'.waiting = server.waiting
    PROVE  OrderInv'
<1>1. TypeInv /\ Control /\ InStep(Numbers, client.waits)
  BY DEF OrderInv
<1>2. /\ Line \in AnyLine /\ Tail(input) \in Seq(AnyLine) /\ Counted(Tail(input))
      /\ Line = Head(input)
  BY <1>1, NextLine DEF Line
<1>3. server.waiting = 0
  BY <1>1 DEF Control
<1>4. output' = Append(output, Line) /\ output' \in Seq(AnyLine)
  BY <1>1, <1>2, AppendProperties DEF Answer, TypeInv
<1>5. TypeInv'
  BY <1>1, <1>2, <1>4 DEF TypeInv, ServerStates
<1>6. Control'
  BY <1>2, <1>3 DEF Control
<1>7. InStep(Numbers', client.waits)
  <2>1. IsNumbers(Numbers, output, 0, input) /\ client.waits \in Seq(Nat)
    BY <1>1, <1>3, NumbersNow
  <2>2. IsNumbers(Numbers', Append(output, Line), 0, Tail(input))
    BY <1>3, <1>4, <1>5, NumbersNext
  <2>3. output \in Seq(AnyLine) /\ input \in Seq(AnyLine) /\ Line.id = Head(input).id
    BY <1>1, <1>2 DEF TypeInv
  <2> QED
    BY <1>1, <1>2, <2>1, <2>2, <2>3, LineAnswered
<1> QED
  BY <1>5, <1>6, <1>7 DEF OrderInv

LEMMA IgnoreInOrder ==
    ASSUME OrderInv, Ignore
    PROVE  OrderInv'
<1>1. TypeInv /\ Control /\ InStep(Numbers, client.waits)
  BY DEF OrderInv
<1>2. /\ server.pc = "read" /\ input # <<>> /\ input' = Tail(input) /\ client' = client
      /\ server' = [server EXCEPT !.pc = "flush"] /\ output' = output
      /\ Line.method = "notification"
  BY DEF Ignore, Reading, Flush
<1>3. /\ Tail(input) \in Seq(AnyLine) /\ Counted(Tail(input)) /\ Head(input).id = 0
  BY <1>1, <1>2, NextLine DEF Line
<1>4. server.waiting = 0
  BY <1>1, <1>2 DEF Control
<1>5. server' \in ServerStates /\ server'.pc = "flush" /\ server'.waiting = 0
  BY <1>1, <1>2, <1>4 DEF TypeInv, ServerStates
<1>6. TypeInv'
  BY <1>1, <1>2, <1>3, <1>5 DEF TypeInv, ServerStates
<1>7. Control'
  BY <1>2, <1>3, <1>5 DEF Control
<1>8. InStep(Numbers', client.waits)
  <2>1. IsNumbers(Numbers, output, 0, input) /\ client.waits \in Seq(Nat)
    BY <1>1, <1>4, NumbersNow
  <2>2. IsNumbers(Numbers', output, 0, Tail(input))
    BY <1>2, <1>5, <1>6, NumbersNext
  <2>3. output \in Seq(AnyLine) /\ input \in Seq(AnyLine)
    BY <1>1 DEF TypeInv
  <2> QED
    BY <1>1, <1>2, <1>3, <2>1, <2>2, <2>3, NumberlessRead
<1> QED
  BY <1>2, <1>6, <1>7, <1>8 DEF OrderInv

LEMMA GarbageInOrder ==
    ASSUME OrderInv, Garbage
    PROVE  OrderInv'
<1>1. TypeInv /\ Control /\ InStep(Numbers, client.waits)
  BY DEF OrderInv
<1>2. /\ server.pc = "read" /\ input # <<>> /\ input' = Tail(input) /\ client' = client
      /\ server' = server /\ output' = Append(output, ParseError)
      /\ Line.method = "garbage"
  BY DEF Garbage, Reading
<1>3. /\ Tail(input) \in Seq(AnyLine) /\ Counted(Tail(input)) /\ Head(input).id = 0
  BY <1>1, <1>2, NextLine DEF Line
<1>4. ParseError \in AnyLine /\ ParseError.id = 0
  BY DEF ParseError, Message, AnyLine, Methods, Args
<1>5. server.waiting = 0
  BY <1>1, <1>2 DEF Control
<1>6. output' \in Seq(AnyLine)
  BY <1>1, <1>2, <1>4, AppendProperties DEF TypeInv
<1>7. TypeInv'
  BY <1>1, <1>2, <1>3, <1>6 DEF TypeInv
<1>8. Control'
  BY <1>1, <1>2, <1>3 DEF Control
<1>9. InStep(Numbers', client.waits)
  <2>1. IsNumbers(Numbers, output, 0, input) /\ client.waits \in Seq(Nat)
    BY <1>1, <1>5, NumbersNow
  <2>2. IsNumbers(Numbers', Append(output, ParseError), 0, Tail(input))
    BY <1>2, <1>5, <1>7, NumbersNext
  <2>3. output \in Seq(AnyLine) /\ input \in Seq(AnyLine) /\ ParseError.id = Head(input).id
    BY <1>1, <1>3, <1>4 DEF TypeInv
  <2> QED
    BY <1>1, <1>2, <1>4, <2>1, <2>2, <2>3, LineAnswered
<1> QED
  BY <1>2, <1>7, <1>8, <1>9 DEF OrderInv

LEMMA WaitEventsInOrder ==
    ASSUME OrderInv, WaitEvents
    PROVE  OrderInv'
<1>1. TypeInv /\ Control /\ InStep(Numbers, client.waits)
  BY DEF OrderInv
<1>2. /\ server.pc = "read" /\ input # <<>> /\ input' = Tail(input) /\ client' = client
      /\ Line.method = "call"
  BY DEF WaitEvents, Reading
<1>3. server.waiting = 0 /\ server.pending = <<>>
  BY <1>1, <1>2 DEF Control
<1>4. CASE Answer /\ server' = [server EXCEPT !.pc = "flush"]
  <2>1. server' \in ServerStates /\ server'.pc = "flush" /\ server'.waiting = server.waiting
    BY <1>1, <1>4 DEF TypeInv, ServerStates
  <2> QED
    BY <1>2, <1>4, <2>1, AnswerInOrder
<1>5. CASE output' = output /\ server' = [server EXCEPT !.pc = "wait", !.waiting = Line.id]
  <2>1. /\ Tail(input) \in Seq(AnyLine) /\ Counted(Tail(input)) /\ Line = Head(input)
        /\ Line.id \in Nat /\ Line.id # 0
    BY <1>1, <1>2, NextLine DEF Line
  <2>2. /\ server' \in ServerStates /\ server'.pc = "wait" /\ server'.waiting = Line.id
        /\ server'.pending = <<>>
    BY <1>1, <1>3, <1>5, <2>1 DEF TypeInv, ServerStates
  <2>3. TypeInv'
    BY <1>1, <1>2, <1>5, <2>1, <2>2 DEF TypeInv, ServerStates
  <2>4. Control'
    BY <1>2, <2>1, <2>2 DEF Control
  <2>5. IsNumbers(Numbers, output, 0, input) /\ client.waits \in Seq(Nat)
    BY <1>1, <1>3, NumbersNow
  <2>6. IsNumbers(Numbers', output, Head(input).id, Tail(input))
    BY <1>2, <1>5, <2>1, <2>2, <2>3, NumbersNext
  <2>7. output \in Seq(AnyLine) /\ input \in Seq(AnyLine)
    BY <1>1 DEF TypeInv
  <2>8. InStep(Numbers', client.waits)
    BY <1>1, <1>2, <2>5, <2>6, <2>7, RequestWaits
  <2> QED
    BY <1>2, <2>3, <2>4, <2>8 DEF OrderInv
<1> QED
  BY <1>4, <1>5 DEF WaitEvents, Flush

LEMMA WaitTimeoutInOrder ==
    ASSUME OrderInv, WaitTimeout
    PROVE  OrderInv'
<1>1. TypeInv /\ Control /\ InStep(Numbers, client.waits)
  BY DEF OrderInv
<1>2. PICK line : line = Message(server.waiting, "call", "wait_events")
  OBVIOUS
<1>3. /\ server.waiting # 0 /\ output' = Append(output, line)
      /\ server' = [[server EXCEPT !.pc = "flush"] EXCEPT !.waiting = 0]
      /\ input' = input /\ client' = client
  BY <1>2 DEF WaitTimeout, Flush
<1>4. line \in AnyLine /\ line.id = server.waiting
  <2>1. server.waiting \in Nat
    BY <1>1 DEF TypeInv
  <2> QED
    BY <1>2, <2>1 DEF Message, AnyLine, Methods, Args, Bus
<1>5. server' \in ServerStates /\ server'.pc = "flush" /\ server'.waiting = 0
  BY <1>1, <1>3 DEF TypeInv, ServerStates
<1>6. output' \in Seq(AnyLine)
  BY <1>1, <1>3, <1>4, AppendProperties DEF TypeInv
<1>7. TypeInv'
  BY <1>1, <1>3, <1>5, <1>6 DEF TypeInv, ServerStates
<1>8. Control'
  BY <1>1, <1>3, <1>5 DEF Control
<1>9. InStep(Numbers', client.waits)
  <2>1. IsNumbers(Numbers, output, line.id, input) /\ client.waits \in Seq(Nat)
    BY <1>1, <1>4, NumbersNow
  <2>2. IsNumbers(Numbers', Append(output, line), 0, input)
    BY <1>3, <1>5, <1>7, NumbersNext
  <2>3. output \in Seq(AnyLine) /\ input \in Seq(AnyLine)
    BY <1>1 DEF TypeInv
  <2> QED
    BY <1>1, <1>4, <2>1, <2>2, <2>3, WaitAnswered
<1> QED
  BY <1>3, <1>7, <1>8, <1>9 DEF OrderInv

\* What WriteNotifications writes.
Notices(pending) == [i \in DOMAIN pending |-> Updated(pending[i])]

LEMMA NoticesTyped ==
    ASSUME NEW pending \in Seq(Args)
    PROVE  /\ Notices(pending) \in Seq(AnyLine) /\ Len(Notices(pending)) = Len(pending)
           /\ \A k \in 1..Len(pending) : /\ Notices(pending)[k].id = 0
                                         /\ Notices(pending)[k].method = "updated"
                                         /\ Notices(pending)[k].arg = pending[k]
<1>1. PICK n \in Nat : n = Len(pending) /\ DOMAIN pending = 1..n
  BY LenProperties
<1>2. PICK s : s = Notices(pending)
  OBVIOUS
<1>3. s = [k \in 1..n |-> Updated(pending[k])]
  BY <1>1, <1>2 DEF Notices
<1>4. ASSUME NEW k \in 1..n
      PROVE  s[k] \in AnyLine /\ s[k].id = 0 /\ s[k].method = "updated" /\ s[k].arg = pending[k]
  <2>1. pending[k] \in Args
    BY <1>1, ElementOfSeq
  <2>2. s[k] = [id |-> 0, method |-> "updated", arg |-> pending[k]]
    BY <1>3 DEF Updated, Message
  <2> QED
    BY <2>1, <2>2 DEF AnyLine, Methods
<1>5. s \in [1..n -> AnyLine]
  BY <1>3, <1>4
<1>6. s \in Seq(AnyLine) /\ Len(s) = n
  BY <1>5, SeqDef, LenProperties
<1> QED
  BY <1>1, <1>2, <1>4, <1>6

LEMMA WriteInOrder ==
    ASSUME OrderInv, WriteNotifications
    PROVE  OrderInv'
<1>1. TypeInv /\ Control /\ InStep(Numbers, client.waits)
  BY DEF OrderInv
<1>2. PICK new : new = Notices(server.pending)
  OBVIOUS
<1>3. /\ server.pc = "flush" /\ output' = output \o new
      /\ server' = [server EXCEPT !.pc = "read", !.pending = <<>>]
      /\ input' = input /\ client' = client
  BY <1>2 DEF WriteNotifications, Notices
<1>4. new \in Seq(AnyLine) /\ \A k \in 1..Len(new) : new[k].id = 0
  <2>1. server.pending \in Seq(Args)
    BY <1>1 DEF TypeInv
  <2> QED
    BY <1>2, <2>1, NoticesTyped
<1>5. output' \in Seq(AnyLine)
  BY <1>1, <1>3, <1>4, ConcatProperties DEF TypeInv
<1>6. /\ server' \in ServerStates /\ server'.pc = "read" /\ server'.waiting = server.waiting
      /\ server'.pending = <<>>
  <2>1. <<>> \in Seq(Args)
    BY EmptySeq
  <2> QED
    BY <1>1, <1>3, <2>1 DEF TypeInv, ServerStates
<1>7. TypeInv'
  BY <1>1, <1>3, <1>5, <1>6 DEF TypeInv, ServerStates
<1>8. Control'
  BY <1>1, <1>3, <1>6 DEF Control
<1>9. InStep(Numbers', client.waits)
  <2>1. IsNumbers(Numbers, output, server.waiting, input) /\ client.waits \in Seq(Nat)
    BY <1>1, NumbersNow
  <2>2. IsNumbers(Numbers', output \o new, server.waiting, input)
    BY <1>3, <1>6, <1>7, NumbersNext
  <2>3. output \in Seq(AnyLine) /\ input \in Seq(AnyLine)
    BY <1>1 DEF TypeInv
  <2> QED
    BY <1>1, <1>4, <2>1, <2>2, <2>3, NumberlessWritten
<1> QED
  BY <1>3, <1>7, <1>8, <1>9 DEF OrderInv

LEMMA SendsInOrder ==
    ASSUME OrderInv, NEW c \in ClientStates, c.waits = client.waits,
           NEW method \in Methods, NEW arg \in Args, Sends(c, method, arg)
    PROVE  OrderInv'
<1>1. TypeInv /\ Control /\ InStep(Numbers, client.waits)
  BY DEF OrderInv
<1>2. PICK id : id = IF method \in {"notification", "garbage"} THEN 0 ELSE FreeId
  OBVIOUS
<1>3. PICK line : line = Message(id, method, arg)
  OBVIOUS
<1>4. /\ input' = Append(input, line)
      /\ client' = IF id = 0 THEN c ELSE [c EXCEPT !.waits = Append(@, id)]
      /\ output' = output /\ server' = server
  BY <1>2, <1>3 DEF Sends
<1>5. PICK waits \in Seq(Nat) : waits = client.waits
  BY <1>1 DEF TypeInv
<1>6. id \in Nat /\ (id = 0 <=> method \in {"notification", "garbage"})
  BY <1>1, <1>2, FreeIdIsFree
<1>7. \A i \in 1..Len(waits) : waits[i] # id
  <2>1. CASE id = 0
    BY <1>1, <1>5, <2>1, NumbersNow DEF InStep
  <2>2. CASE id # 0
    <3>1. id = FreeId
      BY <1>2, <2>2
    <3> QED
      BY <1>1, <1>5, <3>1, FreeIdIsFree
  <2> QED
    BY <2>1, <2>2
<1>8. line \in AnyLine /\ line.id = id /\ line.method = method
  BY <1>3, <1>6 DEF Message, AnyLine
<1>9. PICK v : v = IF id = 0 THEN waits ELSE Append(waits, id)
  OBVIOUS
<1>10. v \in Seq(Nat) /\ client' \in ClientStates /\ client'.waits = v
  <2>1. v \in Seq(Nat)
    BY <1>5, <1>6, <1>9, AppendProperties
  <2>2. client' = [c EXCEPT !.waits = v]
    BY <1>4, <1>5, <1>9 DEF ClientStates
  <2> QED
    BY <2>1, <2>2 DEF ClientStates
<1>11. input' \in Seq(AnyLine)
  BY <1>1, <1>4, <1>8, AppendProperties DEF TypeInv
<1>12. TypeInv'
  BY <1>1, <1>4, <1>10, <1>11 DEF TypeInv, ClientStates
<1>13. Control'
  <2>1. Counted(Append(input, line))
    BY <1>1, <1>6, <1>8, MoreCounted DEF TypeInv, Control
  <2> QED
    BY <1>1, <1>4, <2>1 DEF Control
<1>14. InStep(Numbers', v)
  <2>1. IsNumbers(Numbers, output, server.waiting, input)
    BY <1>1, NumbersNow
  <2>2. IsNumbers(Numbers', output, server.waiting, Append(input, line))
    BY <1>4, <1>12, NumbersNext
  <2>3. output \in Seq(AnyLine) /\ input \in Seq(AnyLine)
    BY <1>1 DEF TypeInv
  <2>4. InStep(Numbers, waits)
    BY <1>1, <1>5
  <2>5. \A k \in 1..Len(waits) : waits[k] # line.id
    BY <1>7, <1>8
  <2>6. InStep(Numbers', IF line.id = 0 THEN waits ELSE Append(waits, line.id))
    BY <1>8, <2>1, <2>2, <2>3, <2>4, <2>5, LineSent
  <2> QED
    BY <1>8, <1>9, <2>6
<1> QED
  BY <1>10, <1>12, <1>13, <1>14 DEF OrderInv

\* What Receive does to the client besides ending a wait.
Heard(c, line) ==
    CASE line.method = "updated" ->
           [c EXCEPT !.again = @ \cup ({line.arg} \cap c.wants)]
      [] line.method = "subscribe" ->
           [c EXCEPT !.wants = @ \cup {line.arg}, !.again = @ \cup {line.arg}]
      [] line.method = "unsubscribe" ->
           [c EXCEPT !.wants = @ \ {line.arg}, !.again = @ \ {line.arg}]
      [] OTHER -> c

LEMMA HeardTyped ==
    ASSUME NEW c \in ClientStates, NEW line \in AnyLine
    PROVE  Heard(c, line) \in ClientStates /\ Heard(c, line).waits = c.waits
<1>1. line.arg \in Args
  BY DEF AnyLine
<1>2. CASE line.method = "updated"
  BY <1>1, <1>2 DEF Heard, ClientStates
<1>3. CASE line.method = "subscribe"
  BY <1>1, <1>3 DEF Heard, ClientStates
<1>4. CASE line.method = "unsubscribe"
  BY <1>1, <1>4 DEF Heard, ClientStates
<1>5. CASE ~(line.method \in {"updated", "subscribe", "unsubscribe"})
  BY <1>5 DEF Heard
<1> QED
  BY <1>2, <1>3, <1>4, <1>5

LEMMA ReceiveInOrder ==
    ASSUME OrderInv, Receive
    PROVE  OrderInv'
<1>1. TypeInv /\ Control /\ InStep(Numbers, client.waits)
  BY DEF OrderInv
<1>2. PICK line : line = Head(output)
  OBVIOUS
<1>3. PICK c : c = IF line.id = 0 THEN client
                   ELSE [client EXCEPT !.waits = RemoveFirst(@, line.id)]
  OBVIOUS
<1>4. /\ output # <<>> /\ output' = Tail(output) /\ input' = input /\ server' = server
      /\ client' = Heard(c, line)
  BY <1>2, <1>3 DEF Receive, Heard
<1>5. line \in AnyLine /\ Tail(output) \in Seq(AnyLine)
  BY <1>1, <1>2, <1>4, FirstAndRest DEF TypeInv
<1>6. PICK waits \in Seq(Nat) : waits = client.waits
  BY <1>1 DEF TypeInv
<1>7. PICK v : v = IF Head(output).id = 0 THEN waits ELSE RemoveFirst(waits, Head(output).id)
  OBVIOUS
<1>8. PICK d : d = Ids(Tail(output)) \o <<server.waiting>> \o Ids(input)
  OBVIOUS
<1>9. IsNumbers(d, Tail(output), server.waiting, input)
  BY <1>1, <1>5, <1>8, NumbersNow, NumbersEntries DEF TypeInv
<1>10. v \in Seq(Nat) /\ InStep(d, v)
  <2>1. IsNumbers(Numbers, output, server.waiting, input)
    BY <1>1, NumbersNow
  <2>2. output \in Seq(AnyLine) /\ input \in Seq(AnyLine)
    BY <1>1 DEF TypeInv
  <2>3. InStep(Numbers, waits)
    BY <1>1, <1>6
  <2> QED
    BY <1>4, <1>6, <1>7, <1>9, <2>1, <2>2, <2>3, LineReceived
<1>11. c \in ClientStates /\ c.waits = v
  <2>1. client \in ClientStates
    BY <1>1 DEF TypeInv, ClientStates
  <2>2. c = [client EXCEPT !.waits = v]
    BY <1>2, <1>3, <1>6, <1>7, <2>1 DEF ClientStates
  <2> QED
    BY <1>10, <2>1, <2>2 DEF ClientStates
<1>12. client' \in ClientStates /\ client'.waits = v
  BY <1>4, <1>5, <1>11, HeardTyped
<1>13. TypeInv'
  BY <1>1, <1>4, <1>5, <1>12 DEF TypeInv, ClientStates
<1>14. Control'
  BY <1>1, <1>4 DEF Control
<1>15. Numbers' = d
  BY <1>4, <1>8 DEF Numbers
<1> QED
  BY <1>10, <1>12, <1>13, <1>14, <1>15 DEF OrderInv

LEMMA StepInOrder ==
    ASSUME OrderInv, [Next]_vars
    PROVE  OrderInv'
<1>1. TypeInv /\ Control /\ InStep(Numbers, client.waits)
  BY DEF OrderInv
<1>2. server \in ServerStates /\ client \in ClientStates
  BY <1>1 DEF TypeInv, ServerStates, ClientStates
<1>3. ASSUME input # <<>> PROVE Line.arg \in Args
  BY <1>1, <1>3, NextLine
<1>4. CASE Ignore
  BY <1>4, IgnoreInOrder
<1>5. CASE Garbage
  BY <1>5, GarbageInOrder
<1>6. CASE Plain
  <2>1. /\ server.pc = "read" /\ input # <<>> /\ input' = Tail(input) /\ client' = client
        /\ Answer /\ server' = [server EXCEPT !.pc = "flush"]
    BY <1>6 DEF Plain, Reading, Flush
  <2>2. server' \in ServerStates /\ server'.pc = "flush" /\ server'.waiting = server.waiting
    BY <1>2, <2>1 DEF ServerStates
  <2> QED
    BY <2>1, <2>2, AnswerInOrder
<1>7. CASE Subscribe
  <2>1. /\ server.pc = "read" /\ input # <<>> /\ input' = Tail(input) /\ client' = client
        /\ Answer
        /\ server' = [[server EXCEPT !.pc = "flush"] EXCEPT !.subscribed = Subscribed(Line.arg)]
    BY <1>7 DEF Subscribe, Reading, Flush
  <2>2. Subscribed(Line.arg) \in SUBSET Args
    BY <1>2, <1>3, <2>1 DEF Subscribed, ServerStates
  <2>3. server' \in ServerStates /\ server'.pc = "flush" /\ server'.waiting = server.waiting
    BY <1>2, <2>1, <2>2 DEF ServerStates
  <2> QED
    BY <2>1, <2>3, AnswerInOrder
<1>8. CASE Unsubscribe
  <2>1. /\ server.pc = "read" /\ input # <<>> /\ input' = Tail(input) /\ client' = client
        /\ Answer
        /\ server' = [[server EXCEPT !.pc = "flush"] EXCEPT !.subscribed = @ \ {Line.arg}]
    BY <1>8 DEF Unsubscribe, Reading, Flush
  <2>2. server' \in ServerStates /\ server'.pc = "flush" /\ server'.waiting = server.waiting
    BY <1>2, <2>1 DEF ServerStates
  <2> QED
    BY <2>1, <2>2, AnswerInOrder
<1>9. CASE ReadResource
  <2>1. PICK p : p = (server.published \/ Published(ListOf(Line.arg)) # {})
    OBVIOUS
  <2>2. /\ server.pc = "read" /\ input # <<>> /\ input' = Tail(input) /\ client' = client
        /\ Answer
        /\ server' = [[server EXCEPT !.pc = "flush"] EXCEPT !.pending = server.pending,
                                                            !.published = p]
    BY <1>2, <1>9, <2>1 DEF ReadResource, QueuedAfterRead, Reading, Flush, ServerStates
  <2>3. p \in BOOLEAN
    BY <2>1
  <2>4. server' \in ServerStates /\ server'.pc = "flush" /\ server'.waiting = server.waiting
    BY <1>2, <2>2, <2>3 DEF ServerStates
  <2> QED
    BY <2>2, <2>4, AnswerInOrder
<1>10. CASE CallTool
  <2>1. PICK p : p = (server.published \/ Published(Line.arg) # {})
    OBVIOUS
  <2>2. PICK q \in Seq(Args) : q = Queued(Line.arg)
    BY <1>1, QueueTyped
  <2>3. /\ server.pc = "read" /\ input # <<>> /\ input' = Tail(input) /\ client' = client
        /\ Answer
        /\ server' = [[server EXCEPT !.pc = "flush"] EXCEPT !.pending = q, !.published = p]
    BY <1>2, <1>10, <2>1, <2>2 DEF CallTool, Reading, Flush, ServerStates
  <2>4. p \in BOOLEAN
    BY <2>1
  <2>5. server' \in ServerStates /\ server'.pc = "flush" /\ server'.waiting = server.waiting
    BY <1>2, <2>2, <2>3, <2>4 DEF ServerStates
  <2> QED
    BY <2>3, <2>5, AnswerInOrder
<1>11. CASE CallFails
  <2>1. /\ server.pc = "read" /\ input # <<>> /\ input' = Tail(input) /\ client' = client
        /\ Answer /\ server' = [server EXCEPT !.pc = "flush"]
    BY <1>11 DEF CallFails, Reading, Flush
  <2>2. server' \in ServerStates /\ server'.pc = "flush" /\ server'.waiting = server.waiting
    BY <1>2, <2>1 DEF ServerStates
  <2> QED
    BY <2>1, <2>2, AnswerInOrder
<1>12. CASE WaitEvents
  BY <1>12, WaitEventsInOrder
<1>13. CASE WaitTimeout
  BY <1>13, WaitTimeoutInOrder
<1>14. CASE WriteNotifications
  BY <1>14, WriteInOrder
<1>15. CASE Call
  <2>1. PICK c : c = [client EXCEPT !.sent = @ + 1]
    OBVIOUS
  <2>2. c \in ClientStates /\ c.waits = client.waits
    BY <1>2, <2>1 DEF ClientStates
  <2>3. "" \in Args /\ Uris \subseteq Args /\ Tools \subseteq Args
    BY UrisKnown, ToolsKnown DEF Args
  <2>4. \E method \in Methods, arg \in Args : Sends(c, method, arg)
    <3>1. CASE \E method \in {"plain", "notification", "garbage"} : Sends(c, method, "")
      BY <2>3, <3>1 DEF Methods
    <3>2. CASE \E method \in {"subscribe", "unsubscribe", "read"}, uri \in Uris :
                  Sends(c, method, uri)
      BY <2>3, <3>2 DEF Methods
    <3>3. CASE \E tool \in Tools : Sends(c, "call", tool)
      BY <2>3, <3>3 DEF Methods
    <3> QED
      BY <1>15, <2>1, <3>1, <3>2, <3>3 DEF Call
  <2> QED
    BY <2>2, <2>4, SendsInOrder
<1>16. CASE ReadAgain
  <2>1. PICK uri \in client.again :
           Sends([client EXCEPT !.again = @ \ {uri}], "read", uri)
    BY <1>16 DEF ReadAgain
  <2>2. PICK c : c = [client EXCEPT !.again = @ \ {uri}]
    OBVIOUS
  <2>3. c \in ClientStates /\ c.waits = client.waits /\ uri \in Args /\ "read" \in Methods
    BY <1>2, <2>2 DEF ClientStates, Methods
  <2>4. Sends(c, "read", uri)
    BY <2>1, <2>2
  <2> QED
    BY <2>3, <2>4, SendsInOrder
<1>17. CASE Receive
  BY <1>17, ReceiveInOrder
<1>18. CASE Others
  BY <1>1, <1>18 DEF Others, OrderInv, TypeInv, Control, Numbers
<1>19. CASE UNCHANGED vars
  BY <1>1, <1>19 DEF vars, OrderInv, TypeInv, Control, Numbers
<1> QED
  BY <1>4, <1>5, <1>6, <1>7, <1>8, <1>9, <1>10, <1>11, <1>12, <1>13, <1>14, <1>15, <1>16,
     <1>17, <1>18, <1>19 DEF Next, Server

LEMMA InitInOrder ==
    ASSUME Init
    PROVE  OrderInv
<1>1. <<>> \in Seq(AnyLine) /\ <<>> \in Seq(Args) /\ <<>> \in Seq(Nat) /\ Len(<<>>) = 0
  BY EmptySeq
<1>2. TypeInv
  BY <1>1 DEF Init, TypeInv
<1>3. Control
  BY <1>1 DEF Init, Control, Counted
<1>4. InStep(Numbers, client.waits)
  <2>1. IsNumbers(Numbers, <<>>, 0, <<>>) /\ client.waits = <<>>
    BY <1>2, NumbersNow DEF Init
  <2>2. Len(Numbers) = 1 /\ Numbers[1] = 0
    BY <1>1, <2>1 DEF IsNumbers
  <2> QED
    BY <1>1, <2>1, <2>2 DEF InStep
<1> QED
  BY <1>2, <1>3, <1>4 DEF OrderInv

\* Requests are answered once each and in their order, whatever the client
\* sends without waiting, and whatever other programs do.
THEOREM AnsweredInOrderAlways == Spec => []AnsweredInOrder
<1>1. Init => OrderInv
  BY InitInOrder
<1>2. OrderInv /\ [Next]_vars => OrderInv'
  BY StepInOrder
<1>3. OrderInv => AnsweredInOrder
  BY OrderInStep DEF OrderInv
<1> QED
  BY <1>1, <1>2, <1>3, PTL DEF Spec

-----------------------------------------------------------------------------
(* What a client knows, or is being told *)

\* A line that changes what the client takes itself to be subscribed to.
IsAbout(line, uri) == line.method \in {"subscribe", "unsubscribe"} /\ line.arg = uri

\* The last such line on its way to the client says whether it is subscribed.
LastSays(o, uri, on) ==
    \E k \in 1..Len(o) :
       /\ IsAbout(o[k], uri) /\ (o[k].method = "subscribe" <=> on)
       /\ \A m \in 1..Len(o) : IsAbout(o[m], uri) => m <= k

\* Once it has what is on its way, the client knows what it is subscribed to.
Known(o, wants, on, uri) ==
    \/ LastSays(o, uri, on)
    \/ /\ \A m \in 1..Len(o) : ~IsAbout(o[m], uri)
       /\ uri \in wants <=> on

Has(lines, methods, uri) ==
    \E k \in 1..Len(lines) : lines[k].method \in methods /\ lines[k].arg = uri
Queues(pending, uri) == \E k \in 1..Len(pending) : pending[k] = uri

\* The client is going to read the resource, or to be told that it should.
Told(uri, again, i, o, pending) ==
    \/ uri \in again
    \/ Has(i, {"read"}, uri)
    \/ Has(o, {"subscribe", "updated"}, uri)
    \/ Queues(pending, uri)

LEMMA KnownBehind ==
    ASSUME NEW o \in Seq(AnyLine), NEW new \in Seq(AnyLine), NEW uri, NEW wants, NEW on,
           \A k \in 1..Len(new) : ~IsAbout(new[k], uri), Known(o, wants, on, uri)
    PROVE  Known(o \o new, wants, on, uri)
<1>1. PICK lo \in Nat, n \in Nat : lo = Len(o) /\ n = Len(new)
  BY LenProperties
<1>2. PICK r : r = o \o new
  OBVIOUS
<1>3. Len(r) = lo + n /\ \A k \in 1..(lo + n) : r[k] = IF k <= lo THEN o[k] ELSE new[k - lo]
  BY <1>1, <1>2, ConcatProperties
<1>4. ASSUME NEW k \in 1..lo PROVE k \in 1..(lo + n) /\ r[k] = o[k]
  <2>1. k \in 1..(lo + n) /\ k <= lo
    BY <1>1
  <2> QED
    BY <1>3, <2>1
<1>5. ASSUME NEW k \in 1..(lo + n), IsAbout(r[k], uri) PROVE k \in 1..lo /\ IsAbout(o[k], uri)
  <2>1. CASE k <= lo
    <3>1. k \in 1..lo
      BY <1>1, <2>1
    <3> QED
      BY <1>4, <1>5, <3>1
  <2>2. CASE ~(k <= lo)
    <3>1. k - lo \in 1..n
      BY <1>1, <2>2
    <3>2. r[k] = new[k - lo]
      BY <1>3, <2>2
    <3> QED
      BY <1>1, <1>5, <3>1, <3>2
  <2> QED
    BY <2>1, <2>2
<1>6. CASE LastSays(o, uri, on)
  <2>1. PICK k \in 1..lo : /\ IsAbout(o[k], uri) /\ (o[k].method = "subscribe" <=> on)
                           /\ \A m \in 1..lo : IsAbout(o[m], uri) => m <= k
    BY <1>1, <1>6 DEF LastSays
  <2>2. k \in 1..Len(r) /\ IsAbout(r[k], uri) /\ (r[k].method = "subscribe" <=> on)
    BY <1>3, <1>4, <2>1
  <2>3. \A m \in 1..Len(r) : IsAbout(r[m], uri) => m <= k
    BY <1>3, <1>5, <2>1
  <2> QED
    BY <1>2, <2>2, <2>3 DEF Known, LastSays
<1>7. CASE (\A m \in 1..Len(o) : ~IsAbout(o[m], uri)) /\ (uri \in wants <=> on)
  <2>1. \A m \in 1..Len(r) : ~IsAbout(r[m], uri)
    BY <1>1, <1>3, <1>5, <1>7
  <2> QED
    BY <1>2, <1>7, <2>1 DEF Known
<1> QED
  BY <1>6, <1>7 DEF Known

LEMMA KnownBefore ==
    ASSUME NEW o \in Seq(AnyLine), NEW line \in AnyLine, NEW uri, NEW wants, NEW on,
           ~IsAbout(line, uri), Known(o, wants, on, uri)
    PROVE  Known(Append(o, line), wants, on, uri)
<1>1. Append(o, line) = o \o <<line>>
  BY AppendIsConcat
<1>2. <<line>> \in Seq(AnyLine) /\ Len(<<line>>) = 1 /\ <<line>>[1] = line
  OBVIOUS
<1>3. \A k \in 1..Len(<<line>>) : ~IsAbout(<<line>>[k], uri)
  BY <1>2
<1>4. Known(o \o <<line>>, wants, on, uri)
  BY <1>2, <1>3, KnownBehind
<1> QED
  BY <1>1, <1>4

LEMMA KnownAnew ==
    ASSUME NEW o \in Seq(AnyLine), NEW line \in AnyLine, NEW uri, NEW wants, NEW on,
           IsAbout(line, uri), line.method = "subscribe" <=> on
    PROVE  Known(Append(o, line), wants, on, uri)
<1>1. PICK lo \in Nat : lo = Len(o)
  BY LenProperties
<1>2. Len(Append(o, line)) = lo + 1 /\ Append(o, line)[lo + 1] = line
  BY <1>1, AppendProperties
<1>3. lo + 1 \in 1..(lo + 1) /\ \A m \in 1..(lo + 1) : m <= lo + 1
  BY <1>1
<1> QED
  BY <1>2, <1>3 DEF Known, LastSays

\* The client takes a line: what it says of a subscription is so from then on.
LEMMA KnownHeard ==
    ASSUME NEW o \in Seq(AnyLine), o # <<>>, NEW uri, NEW wants, NEW heard, NEW on,
           Known(o, wants, on, uri),
           uri \in heard <=> IF IsAbout(Head(o), uri) THEN Head(o).method = "subscribe"
                             ELSE uri \in wants
    PROVE  Known(Tail(o), heard, on, uri)
<1>1. PICK lo \in Nat : lo = Len(o)
  BY LenProperties
<1>2. /\ lo >= 1 /\ Head(o) = o[1] /\ Len(Tail(o)) = lo - 1
      /\ \A k \in 1..(lo - 1) : Tail(o)[k] = o[k + 1]
  BY <1>1, FirstAndRest
<1>3. ASSUME NEW m \in 1..(lo - 1) PROVE m + 1 \in 1..lo /\ Tail(o)[m] = o[m + 1]
  BY <1>1, <1>2
<1>4. CASE LastSays(o, uri, on)
  <2>1. PICK k \in 1..lo : /\ IsAbout(o[k], uri) /\ (o[k].method = "subscribe" <=> on)
                           /\ \A m \in 1..lo : IsAbout(o[m], uri) => m <= k
    BY <1>1, <1>4 DEF LastSays
  <2>2. CASE k = 1
    <3>1. ASSUME NEW m \in 1..(lo - 1), IsAbout(Tail(o)[m], uri) PROVE FALSE
      <4>1. m + 1 \in 1..lo /\ IsAbout(o[m + 1], uri)
        BY <1>3, <3>1
      <4>2. m + 1 <= k
        BY <2>1, <4>1
      <4> QED
        BY <2>2, <4>2
    <3>2. uri \in heard <=> on
      BY <1>2, <2>1, <2>2
    <3> QED
      BY <1>2, <3>1, <3>2 DEF Known
  <2>3. CASE k # 1
    <3>1. k - 1 \in 1..(lo - 1) /\ (k - 1) + 1 = k
      BY <1>1, <2>3
    <3>2. Tail(o)[k - 1] = o[k]
      BY <1>2, <3>1
    <3>3. ASSUME NEW m \in 1..(lo - 1), IsAbout(Tail(o)[m], uri) PROVE m <= k - 1
      <4>1. m + 1 \in 1..lo /\ IsAbout(o[m + 1], uri)
        BY <1>3, <3>3
      <4>2. m + 1 <= k
        BY <2>1, <4>1
      <4> QED
        BY <1>1, <3>1, <4>2
    <3> QED
      BY <1>2, <2>1, <3>1, <3>2, <3>3 DEF Known, LastSays
  <2> QED
    BY <2>2, <2>3
<1>5. CASE (\A m \in 1..Len(o) : ~IsAbout(o[m], uri)) /\ (uri \in wants <=> on)
  <2>1. \A m \in 1..(lo - 1) : ~IsAbout(Tail(o)[m], uri)
    BY <1>1, <1>3, <1>5
  <2>2. ~IsAbout(Head(o), uri)
    BY <1>1, <1>2, <1>5
  <2> QED
    BY <1>2, <1>5, <2>1, <2>2 DEF Known
<1> QED
  BY <1>4, <1>5 DEF Known

LEMMA HasMore ==
    ASSUME NEW s \in Seq(AnyLine), NEW line \in AnyLine, NEW methods, NEW uri
    PROVE  /\ Has(s, methods, uri) => Has(Append(s, line), methods, uri)
           /\ line.method \in methods /\ line.arg = uri => Has(Append(s, line), methods, uri)
<1>1. PICK n \in Nat : n = Len(s)
  BY LenProperties
<1>2. /\ Len(Append(s, line)) = n + 1 /\ Append(s, line)[n + 1] = line
      /\ \A k \in 1..n : Append(s, line)[k] = s[k]
  BY <1>1, AppendProperties
<1>3. n + 1 \in 1..(n + 1) /\ \A k \in 1..n : k \in 1..(n + 1)
  BY <1>1
<1>4. ASSUME Has(s, methods, uri) PROVE Has(Append(s, line), methods, uri)
  <2>1. PICK k \in 1..n : s[k].method \in methods /\ s[k].arg = uri
    BY <1>1, <1>4 DEF Has
  <2> QED
    BY <1>2, <1>3, <2>1 DEF Has
<1>5. ASSUME line.method \in methods /\ line.arg = uri PROVE Has(Append(s, line), methods, uri)
  BY <1>2, <1>3, <1>5 DEF Has
<1> QED
  BY <1>4, <1>5

LEMMA HasRest ==
    ASSUME NEW s \in Seq(AnyLine), s # <<>>, NEW methods, NEW uri, Has(s, methods, uri),
           ~(Head(s).method \in methods /\ Head(s).arg = uri)
    PROVE  Has(Tail(s), methods, uri)
<1>1. PICK n \in Nat : n = Len(s)
  BY LenProperties
<1>2. /\ n >= 1 /\ Head(s) = s[1] /\ Len(Tail(s)) = n - 1
      /\ \A k \in 1..(n - 1) : Tail(s)[k] = s[k + 1]
  BY <1>1, FirstAndRest
<1>3. PICK k \in 1..n : s[k].method \in methods /\ s[k].arg = uri
  BY <1>1 DEF Has
<1>4. k # 1
  BY <1>2, <1>3
<1>5. k - 1 \in 1..(n - 1) /\ (k - 1) + 1 = k
  BY <1>1, <1>4
<1>6. Tail(s)[k - 1] = s[k]
  BY <1>2, <1>5
<1> QED
  BY <1>2, <1>3, <1>5, <1>6 DEF Has

LEMMA HasBoth ==
    ASSUME NEW s \in Seq(AnyLine), NEW new \in Seq(AnyLine), NEW methods, NEW uri,
           Has(s, methods, uri) \/ Has(new, methods, uri)
    PROVE  Has(s \o new, methods, uri)
<1>1. PICK n \in Nat, m \in Nat : n = Len(s) /\ m = Len(new)
  BY LenProperties
<1>2. PICK r : r = s \o new
  OBVIOUS
<1>3. Len(r) = n + m /\ \A k \in 1..(n + m) : r[k] = IF k <= n THEN s[k] ELSE new[k - n]
  BY <1>1, <1>2, ConcatProperties
<1>4. CASE Has(s, methods, uri)
  <2>1. PICK k \in 1..n : s[k].method \in methods /\ s[k].arg = uri
    BY <1>1, <1>4 DEF Has
  <2>2. k \in 1..(n + m) /\ k <= n
    BY <1>1
  <2> QED
    BY <1>2, <1>3, <2>1, <2>2 DEF Has
<1>5. CASE Has(new, methods, uri)
  <2>1. PICK k \in 1..m : new[k].method \in methods /\ new[k].arg = uri
    BY <1>1, <1>5 DEF Has
  <2>2. n + k \in 1..(n + m) /\ ~(n + k <= n) /\ (n + k) - n = k
    BY <1>1
  <2>3. r[n + k] = new[(n + k) - n]
    BY <1>3, <2>2
  <2> QED
    BY <1>2, <1>3, <2>1, <2>2, <2>3 DEF Has
<1> QED
  BY <1>4, <1>5

\* The server takes a line that is no read of the resource.
LEMMA ToldStill ==
    ASSUME NEW i \in Seq(AnyLine), i # <<>>, NEW o \in Seq(AnyLine), NEW line \in AnyLine,
           NEW uri, NEW again, NEW p, NEW q, Told(uri, again, i, o, p),
           ~(Head(i).method = "read" /\ Head(i).arg = uri), Queues(p, uri) => Queues(q, uri)
    PROVE  /\ Told(uri, again, Tail(i), o, q)
           /\ Told(uri, again, Tail(i), Append(o, line), q)
<1>1. Has(i, {"read"}, uri) => Has(Tail(i), {"read"}, uri)
  BY HasRest
<1>2. Has(o, {"subscribe", "updated"}, uri)
        => Has(Append(o, line), {"subscribe", "updated"}, uri)
  BY HasMore
<1> QED
  BY <1>1, <1>2 DEF Told

-----------------------------------------------------------------------------
(* Coherent at rest *)

\* Of a resource that has changed with an event, the client is going to hear.
Informed(uri) ==
    /\ Known(output, client.wants, uri \in server.subscribed, uri)
    /\ uri \in server.subscribed /\ uri \in stale /\ uri \notin silent
         => Told(uri, client.again, input, output, server.pending)

CoherenceInv == OrderInv /\ \A uri \in Args : Informed(uri)

\* A line is read that is about no subscription to the resource.
LEMMA ReadInformed ==
    ASSUME OrderInv, NEW uri, Informed(uri), input # <<>>, input' = Tail(input),
           NEW line \in AnyLine, output' = output \/ output' = Append(output, line),
           client' = client, ~IsAbout(line, uri),
           uri \in server'.subscribed <=> uri \in server.subscribed,
           uri \in stale' /\ uri \notin silent' =>
              \/ /\ uri \in stale /\ uri \notin silent
                 /\ ~(Line.method = "read" /\ Line.arg = uri)
                 /\ Queues(server.pending, uri) => Queues(server'.pending, uri)
              \/ uri \in server.subscribed => Queues(server'.pending, uri)
    PROVE  Informed(uri)'
<1>1. input \in Seq(AnyLine) /\ output \in Seq(AnyLine)
  BY DEF OrderInv, TypeInv
<1>2. Known(output', client'.wants, uri \in server'.subscribed, uri)
  <2>1. Known(output, client.wants, uri \in server'.subscribed, uri)
    BY DEF Informed, Known, LastSays
  <2>2. Known(Append(output, line), client.wants, uri \in server'.subscribed, uri)
    BY <1>1, <2>1, KnownBefore
  <2> QED
    BY <2>1, <2>2
<1>3. ASSUME uri \in server'.subscribed, uri \in stale', uri \notin silent'
      PROVE  Told(uri, client'.again, input', output', server'.pending)
  <2>1. uri \in server.subscribed
    BY <1>3
  <2>2. CASE /\ uri \in stale /\ uri \notin silent
             /\ ~(Line.method = "read" /\ Line.arg = uri)
             /\ Queues(server.pending, uri) => Queues(server'.pending, uri)
    <3>1. Told(uri, client.again, input, output, server.pending)
      BY <2>1, <2>2 DEF Informed
    <3>2. /\ Told(uri, client.again, Tail(input), output, server'.pending)
          /\ Told(uri, client.again, Tail(input), Append(output, line), server'.pending)
      BY <1>1, <2>2, <3>1, ToldStill DEF Line
    <3> QED
      BY <3>2
  <2>3. CASE uri \in server.subscribed => Queues(server'.pending, uri)
    BY <2>1, <2>3 DEF Told
  <2> QED
    BY <1>3, <2>2, <2>3
<1> QED
  BY <1>2, <1>3 DEF Informed

LEMMA SubscribeInformed ==
    ASSUME OrderInv, NEW uri, Informed(uri), Subscribe \/ Unsubscribe
    PROVE  Informed(uri)'
<1>1. input # <<>> /\ input' = Tail(input) /\ client' = client /\ stale' = stale /\ silent' = silent
      /\ output' = Append(output, Line) /\ Line.method \in {"subscribe", "unsubscribe"}
  BY DEF Subscribe, Unsubscribe, Reading, Answer, Unchanged
<1>2. TypeInv /\ Control
  BY DEF OrderInv
<1>3. Line \in AnyLine /\ Line.arg \in Args /\ output \in Seq(AnyLine) /\ server \in ServerStates
  BY <1>1, <1>2, NextLine DEF TypeInv, ServerStates
<1>4. PICK S : S = IF Line.method = "subscribe" THEN server.subscribed \cup {Line.arg}
                   ELSE server.subscribed \ {Line.arg}
  OBVIOUS
<1>5. server'.subscribed = S /\ server'.pending = server.pending
  <2>1. CASE Subscribe
    <3>1. Line.method = "subscribe"
      BY <2>1 DEF Subscribe, Reading
    <3>2. server' = [[server EXCEPT !.pc = "flush"] EXCEPT !.subscribed = S]
      BY <1>4, <2>1, <3>1 DEF Subscribe, Subscribed, Flush
    <3> QED
      BY <1>3, <3>2 DEF ServerStates
  <2>2. CASE Unsubscribe
    <3>1. Line.method = "unsubscribe"
      BY <2>2 DEF Unsubscribe, Reading
    <3>2. server' = [[server EXCEPT !.pc = "flush"] EXCEPT !.subscribed = S]
      BY <1>3, <1>4, <2>2, <3>1 DEF Unsubscribe, Flush, ServerStates
    <3> QED
      BY <1>3, <3>2 DEF ServerStates
  <2> QED
    BY <2>1, <2>2
<1>6. CASE Line.arg # uri
  <2>1. ~IsAbout(Line, uri) /\ (uri \in server'.subscribed <=> uri \in server.subscribed)
    BY <1>4, <1>5, <1>6 DEF IsAbout
  <2> QED
    BY <1>1, <1>3, <1>5, <1>6, <2>1, ReadInformed
<1>7. CASE Line.arg = uri
  <2>1. IsAbout(Line, uri) /\ (Line.method = "subscribe" <=> uri \in server'.subscribed)
    BY <1>1, <1>4, <1>5, <1>7 DEF IsAbout
  <2>2. Known(Append(output, Line), client.wants, uri \in server'.subscribed, uri)
    BY <1>3, <2>1, KnownAnew
  <2>3. ASSUME uri \in server'.subscribed
        PROVE  Told(uri, client.again, input', Append(output, Line), server'.pending)
    <3>1. Line.method \in {"subscribe", "updated"}
      BY <2>1, <2>3
    <3>2. Has(Append(output, Line), {"subscribe", "updated"}, uri)
      BY <1>3, <1>7, <3>1, HasMore
    <3> QED
      BY <3>2 DEF Told
  <2> QED
    BY <1>1, <2>2, <2>3 DEF Informed
<1> QED
  BY <1>6, <1>7

\* What a read clears is current, or out of date without an event.
LEMMA ReadResourceInformed ==
    ASSUME OrderInv, NEW uri, Informed(uri), ReadResource
    PROVE  Informed(uri)'
<1>1. TypeInv /\ Control
  BY DEF OrderInv
<1>2. PICK P : P = Published(ListOf(Line.arg))
  OBVIOUS
<1>3. PICK p : p = (server.published \/ P # {})
  OBVIOUS
<1>4. /\ input # <<>> /\ input' = Tail(input) /\ client' = client
      /\ output' = Append(output, Line) /\ Line.method = "read"
      /\ stale' = (stale \ {Line.arg}) \cup P /\ silent' = (silent \ {Line.arg}) \cup P
      /\ server' = [[server EXCEPT !.pc = "flush"] EXCEPT !.pending = server.pending,
                                                          !.published = p]
  BY <1>1, <1>2, <1>3 DEF ReadResource, QueuedAfterRead, Reading, Flush, Answer, TypeInv
<1>5. Line \in AnyLine /\ server \in ServerStates
  BY <1>1, <1>4, NextLine DEF TypeInv, ServerStates
<1>6. server'.subscribed = server.subscribed /\ server'.pending = server.pending
  BY <1>4, <1>5 DEF ServerStates
<1>7. ~IsAbout(Line, uri)
  BY <1>4 DEF IsAbout
<1>8. uri \in stale' /\ uri \notin silent' =>
         uri \in stale /\ uri \notin silent /\ ~(Line.method = "read" /\ Line.arg = uri)
  BY <1>4
<1> QED
  BY <1>4, <1>5, <1>6, <1>7, <1>8, ReadInformed

LEMMA CallToolInformed ==
    ASSUME OrderInv, NEW uri, Informed(uri), CallTool
    PROVE  Informed(uri)'
<1>1. TypeInv /\ Control
  BY DEF OrderInv
<1>2. PICK p : p = (server.published \/ Published(Line.arg) # {})
  OBVIOUS
<1>3. PICK q : /\ q = Queued(Line.arg)
               /\ Queues(server.pending, uri) => Queues(q, uri)
               /\ uri \in Announced(Line.arg) /\ uri \in server.subscribed => Queues(q, uri)
  BY <1>1, QueueTyped DEF Queues
<1>4. PICK S, T : S = Changes(Line.arg) \cup Published(Line.arg) /\ T = Announced(Line.arg)
  OBVIOUS
<1>5. /\ input # <<>> /\ input' = Tail(input) /\ client' = client
      /\ output' = Append(output, Line) /\ Line.method = "call"
      /\ stale' = stale \cup S /\ silent' = (silent \ (S \cap T)) \cup (S \ T)
      /\ server' = [[server EXCEPT !.pc = "flush"] EXCEPT !.pending = q, !.published = p]
  BY <1>1, <1>2, <1>3, <1>4 DEF CallTool, Changed, Reading, Flush, Answer, TypeInv
<1>6. Line \in AnyLine /\ server \in ServerStates
  BY <1>1, <1>5, NextLine DEF TypeInv, ServerStates
<1>7. server'.subscribed = server.subscribed /\ server'.pending = q
  BY <1>5, <1>6 DEF ServerStates
<1>8. ~IsAbout(Line, uri)
  BY <1>5 DEF IsAbout
<1>9. uri \in stale' /\ uri \notin silent' => (uri \in stale /\ uri \notin silent) \/ uri \in T
  BY <1>5
<1>10. ~(Line.method = "read" /\ Line.arg = uri)
  BY <1>5
<1> QED
  BY <1>3, <1>4, <1>5, <1>6, <1>7, <1>8, <1>9, <1>10, ReadInformed

\* A line is read that changes nothing a client is told of, except without an event.
LEMMA QuietInformed ==
    ASSUME OrderInv, NEW uri, Informed(uri),
           Ignore \/ Garbage \/ Plain \/ CallFails \/ WaitEvents
    PROVE  Informed(uri)'
<1>1. TypeInv /\ Control
  BY DEF OrderInv
<1>2. /\ input # <<>> /\ input' = Tail(input) /\ client' = client
      /\ Line.method \in {"notification", "garbage", "plain", "call"}
      /\ \/ output' = output \/ output' = Append(output, Line)
         \/ output' = Append(output, ParseError)
  BY DEF Ignore, Garbage, Plain, CallFails, WaitEvents, Reading, Answer
<1>3. PICK line \in AnyLine : /\ output' = output \/ output' = Append(output, line)
                              /\ ~(line.method \in {"subscribe", "unsubscribe"})
  <2>1. ParseError \in AnyLine /\ ParseError.method = "parse error"
    BY DEF ParseError, Message, AnyLine, Methods, Args
  <2>2. Line \in AnyLine
    BY <1>1, <1>2, NextLine
  <2> QED
    BY <1>2, <2>1, <2>2
<1>4. server \in ServerStates
  BY <1>1 DEF TypeInv, ServerStates
<1>5. server'.subscribed = server.subscribed /\ server'.pending = server.pending
  <2>1. \/ server' = server \/ server' = [server EXCEPT !.pc = "flush"]
        \/ server' = [server EXCEPT !.pc = "wait", !.waiting = Line.id]
    BY DEF Ignore, Garbage, Plain, CallFails, WaitEvents, Flush
  <2> QED
    BY <1>4, <2>1 DEF ServerStates
<1>6. uri \in stale' /\ uri \notin silent' => uri \in stale /\ uri \notin silent
  <2>1. CASE CallFails
    <3>1. PICK S : Changed(S, {})
      BY <2>1 DEF CallFails
    <3> QED
      BY <3>1 DEF Changed
  <2>2. CASE ~CallFails
    BY <2>2 DEF Ignore, Garbage, Plain, WaitEvents, Unchanged
  <2> QED
    BY <2>1, <2>2
<1>7. ~IsAbout(line, uri) /\ ~(Line.method = "read" /\ Line.arg = uri)
  BY <1>2, <1>3 DEF IsAbout
<1> QED
  BY <1>2, <1>3, <1>5, <1>6, <1>7, ReadInformed

LEMMA TimeoutInformed ==
    ASSUME OrderInv, NEW uri, Informed(uri), WaitTimeout
    PROVE  Informed(uri)'
<1>1. TypeInv
  BY DEF OrderInv
<1>2. PICK line : line = Message(server.waiting, "call", "wait_events")
  OBVIOUS
<1>3. /\ output' = Append(output, line) /\ stale' = stale /\ silent' = silent
      /\ server' = [[server EXCEPT !.pc = "flush"] EXCEPT !.waiting = 0]
      /\ input' = input /\ client' = client
  BY <1>2 DEF WaitTimeout, Flush
<1>4. line \in AnyLine /\ line.method = "call"
  <2>1. server.waiting \in Nat
    BY <1>1 DEF TypeInv
  <2> QED
    BY <1>2, <2>1 DEF Message, AnyLine, Methods, Args, Bus
<1>5. server'.subscribed = server.subscribed /\ server'.pending = server.pending
  BY <1>1, <1>3 DEF TypeInv
<1>6. output \in Seq(AnyLine)
  BY <1>1 DEF TypeInv
<1>7. Known(Append(output, line), client.wants, uri \in server.subscribed, uri)
  BY <1>4, <1>6, KnownBefore DEF Informed, IsAbout
<1>8. ASSUME Told(uri, client.again, input, output, server.pending)
      PROVE  Told(uri, client.again, input, Append(output, line), server.pending)
  BY <1>4, <1>6, <1>8, HasMore DEF Told
<1> QED
  BY <1>3, <1>5, <1>7, <1>8 DEF Informed

LEMMA WriteInformed ==
    ASSUME OrderInv, NEW uri, Informed(uri), WriteNotifications
    PROVE  Informed(uri)'
<1>1. TypeInv
  BY DEF OrderInv
<1>2. PICK new : new = Notices(server.pending)
  OBVIOUS
<1>3. /\ output' = output \o new /\ stale' = stale /\ silent' = silent
      /\ server' = [server EXCEPT !.pc = "read", !.pending = <<>>]
      /\ input' = input /\ client' = client
  BY <1>2 DEF WriteNotifications, Notices
<1>4. server.pending \in Seq(Args) /\ output \in Seq(AnyLine)
  BY <1>1 DEF TypeInv
<1>5. /\ new \in Seq(AnyLine) /\ Len(new) = Len(server.pending)
      /\ \A k \in 1..Len(new) : new[k].method = "updated" /\ new[k].arg = server.pending[k]
  BY <1>2, <1>4, NoticesTyped
<1>6. server'.subscribed = server.subscribed
  BY <1>1, <1>3 DEF TypeInv
<1>7. Known(output \o new, client.wants, uri \in server.subscribed, uri)
  <2>1. \A k \in 1..Len(new) : ~IsAbout(new[k], uri)
    BY <1>5 DEF IsAbout
  <2> QED
    BY <1>4, <1>5, <2>1, KnownBehind DEF Informed
<1>8. ASSUME Told(uri, client.again, input, output, server.pending)
      PROVE  Told(uri, client.again, input, output \o new, server'.pending)
  <2>1. CASE Queues(server.pending, uri)
    <3>1. Has(new, {"subscribe", "updated"}, uri)
      BY <1>5, <2>1 DEF Queues, Has
    <3> QED
      BY <1>4, <1>5, <3>1, HasBoth DEF Told
  <2>2. CASE Has(output, {"subscribe", "updated"}, uri)
    BY <1>4, <1>5, <2>2, HasBoth DEF Told
  <2> QED
    BY <1>8, <2>1, <2>2 DEF Told
<1> QED
  BY <1>3, <1>6, <1>7, <1>8 DEF Informed

LEMMA SendsInformed ==
    ASSUME OrderInv, NEW uri, Informed(uri), NEW c \in ClientStates, NEW method \in Methods,
           NEW arg \in Args, Sends(c, method, arg), c.wants = client.wants,
           uri \in client.again => uri \in c.again \/ (method = "read" /\ arg = uri)
    PROVE  Informed(uri)'
<1>1. TypeInv
  BY DEF OrderInv
<1>2. PICK id : id = IF method \in {"notification", "garbage"} THEN 0 ELSE FreeId
  OBVIOUS
<1>3. PICK line : line = Message(id, method, arg)
  OBVIOUS
<1>4. /\ input' = Append(input, line)
      /\ client' = IF id = 0 THEN c ELSE [c EXCEPT !.waits = Append(@, id)]
      /\ output' = output /\ server' = server /\ stale' = stale /\ silent' = silent
  BY <1>2, <1>3 DEF Sends
<1>5. line \in AnyLine /\ line.method = method /\ line.arg = arg
  <2>1. id \in Nat
    BY <1>1, <1>2, FreeIdIsFree
  <2> QED
    BY <1>3, <2>1 DEF Message, AnyLine
<1>6. client'.wants = client.wants /\ client'.again = c.again
  BY <1>4 DEF ClientStates
<1>7. ASSUME Told(uri, client.again, input, output, server.pending)
      PROVE  Told(uri, c.again, Append(input, line), output, server.pending)
  <2>1. input \in Seq(AnyLine)
    BY <1>1 DEF TypeInv
  <2>2. Has(input, {"read"}, uri) => Has(Append(input, line), {"read"}, uri)
    BY <1>5, <2>1, HasMore
  <2>3. method = "read" /\ arg = uri => Has(Append(input, line), {"read"}, uri)
    BY <1>5, <2>1, HasMore
  <2> QED
    BY <1>7, <2>2, <2>3 DEF Told
<1> QED
  BY <1>4, <1>6, <1>7 DEF Informed

\* What an update or an answer says is heard in time: the client asks again, or
\* a later line says that it need not, or must.
LEMMA ReceiveInformed ==
    ASSUME OrderInv, NEW uri, Informed(uri), Receive
    PROVE  Informed(uri)'
<1>1. TypeInv
  BY DEF OrderInv
<1>2. PICK line : line = Head(output)
  OBVIOUS
<1>3. PICK c : c = IF line.id = 0 THEN client
                   ELSE [client EXCEPT !.waits = RemoveFirst(@, line.id)]
  OBVIOUS
<1>4. /\ output # <<>> /\ output' = Tail(output) /\ input' = input /\ server' = server
      /\ client' = Heard(c, line) /\ stale' = stale /\ silent' = silent
  BY <1>2, <1>3 DEF Receive, Heard
<1>5. /\ c.wants = client.wants /\ c.again = client.again /\ DOMAIN c = DOMAIN client
      /\ c = [sent |-> c.sent, waits |-> c.waits, wants |-> c.wants, again |-> c.again]
  BY <1>1, <1>3 DEF TypeInv
<1>6. output \in Seq(AnyLine) /\ line \in AnyLine
  BY <1>1, <1>2, <1>4, FirstAndRest DEF TypeInv
<1>7. PICK wants, again : wants = client.wants /\ again = client.again
  OBVIOUS
<1>8. /\ client'.wants = CASE line.method = "subscribe" -> wants \cup {line.arg}
                           [] line.method = "unsubscribe" -> wants \ {line.arg}
                           [] OTHER -> wants
      /\ client'.again = CASE line.method = "updated" -> again \cup ({line.arg} \cap wants)
                           [] line.method = "subscribe" -> again \cup {line.arg}
                           [] line.method = "unsubscribe" -> again \ {line.arg}
                           [] OTHER -> again
  <2>1. CASE line.method = "updated"
    BY <1>4, <1>5, <1>7, <2>1 DEF Heard
  <2>2. CASE line.method = "subscribe"
    BY <1>4, <1>5, <1>7, <2>2 DEF Heard
  <2>3. CASE line.method = "unsubscribe"
    BY <1>4, <1>5, <1>7, <2>3 DEF Heard
  <2>4. CASE ~(line.method \in {"updated", "subscribe", "unsubscribe"})
    BY <1>4, <1>5, <1>7, <2>4 DEF Heard
  <2> QED
    BY <2>1, <2>2, <2>3, <2>4
<1>9. Known(output, wants, uri \in server.subscribed, uri)
  BY <1>7 DEF Informed
<1>11. Known(Tail(output), client'.wants, uri \in server.subscribed, uri)
  <2>1. uri \in client'.wants <=> IF IsAbout(line, uri) THEN line.method = "subscribe"
                                  ELSE uri \in wants
    BY <1>8 DEF IsAbout
  <2> QED
    BY <1>2, <1>4, <1>6, <1>9, <2>1, KnownHeard
<1>12. ASSUME uri \in server.subscribed, Told(uri, again, input, output, server.pending)
       PROVE  Told(uri, client'.again, input, Tail(output), server.pending)
  <2>1. CASE Has(Tail(output), {"subscribe", "updated"}, uri)
    BY <2>1 DEF Told
  <2>2. CASE ~Has(Tail(output), {"subscribe", "updated"}, uri)
    <3>1. uri \in client'.wants
      \* no later line says so, so it is so after this one
      <4>1. ~LastSays(Tail(output), uri, uri \in server.subscribed)
        BY <1>12, <2>2 DEF LastSays, Has, IsAbout
      <4> QED
        BY <1>11, <1>12, <4>1 DEF Known
    <3>2. CASE line.method \in {"subscribe", "updated"} /\ line.arg = uri
      <4>1. uri \in client'.again
        <5>1. CASE line.method = "subscribe"
          BY <1>8, <3>2, <5>1
        <5>2. CASE line.method = "updated"
          BY <1>8, <3>1, <3>2, <5>2
        <5> QED
          BY <3>2, <5>1, <5>2
      <4> QED
        BY <4>1 DEF Told
    <3>3. CASE ~(line.method \in {"subscribe", "updated"} /\ line.arg = uri)
      <4>1. ~Has(output, {"subscribe", "updated"}, uri)
        BY <1>2, <1>4, <1>6, <2>2, <3>3, HasRest
      <4>2. ~(line.method = "unsubscribe" /\ line.arg = uri)
        BY <1>8, <3>1
      <4>3. uri \in again => uri \in client'.again
        BY <1>8, <4>2
      <4> QED
        BY <1>12, <4>1, <4>3 DEF Told
    <3> QED
      BY <3>2, <3>3
  <2> QED
    BY <2>1, <2>2
<1> QED
  BY <1>4, <1>7, <1>11, <1>12 DEF Informed

LEMMA StepInformed ==
    ASSUME OrderInv, NEW uri \in Args, Informed(uri), [Next]_vars
    PROVE  Informed(uri)'
<1>1. client \in ClientStates
  BY DEF OrderInv, TypeInv, ClientStates
<1>2. CASE Ignore \/ Garbage \/ Plain \/ CallFails \/ WaitEvents
  BY <1>2, QuietInformed
<1>3. CASE Subscribe \/ Unsubscribe
  BY <1>3, SubscribeInformed
<1>4. CASE ReadResource
  BY <1>4, ReadResourceInformed
<1>5. CASE CallTool
  BY <1>5, CallToolInformed
<1>6. CASE WaitTimeout
  BY <1>6, TimeoutInformed
<1>7. CASE WriteNotifications
  BY <1>7, WriteInformed
<1>8. CASE Call
  <2>1. PICK c : c = [client EXCEPT !.sent = @ + 1]
    OBVIOUS
  <2>2. c \in ClientStates /\ c.wants = client.wants /\ c.again = client.again
    BY <1>1, <2>1 DEF ClientStates
  <2>3. "" \in Args /\ Uris \subseteq Args /\ Tools \subseteq Args
    BY UrisKnown, ToolsKnown DEF Args
  <2>4. \E method \in Methods, arg \in Args : Sends(c, method, arg)
    <3>1. CASE \E method \in {"plain", "notification", "garbage"} : Sends(c, method, "")
      BY <2>3, <3>1 DEF Methods
    <3>2. CASE \E method \in {"subscribe", "unsubscribe", "read"}, x \in Uris :
                  Sends(c, method, x)
      BY <2>3, <3>2 DEF Methods
    <3>3. CASE \E tool \in Tools : Sends(c, "call", tool)
      BY <2>3, <3>3 DEF Methods
    <3> QED
      BY <1>8, <2>1, <3>1, <3>2, <3>3 DEF Call
  <2> QED
    BY <2>2, <2>4, SendsInformed
<1>9. CASE ReadAgain
  <2>1. PICK x \in client.again :
           Sends([client EXCEPT !.again = @ \ {x}], "read", x)
    BY <1>9 DEF ReadAgain
  <2>2. PICK c : c = [client EXCEPT !.again = @ \ {x}]
    OBVIOUS
  <2>3. /\ c \in ClientStates /\ c.wants = client.wants /\ c.again = client.again \ {x}
        /\ x \in Args /\ "read" \in Methods
    BY <1>1, <2>2 DEF ClientStates, Methods
  <2>4. Sends(c, "read", x)
    BY <2>1, <2>2
  <2>5. uri \in client.again => uri \in c.again \/ x = uri
    BY <2>3
  <2> QED
    BY <2>3, <2>4, <2>5, SendsInformed
<1>10. CASE Receive
  BY <1>10, ReceiveInformed
<1>11. CASE Others
  <2>1. PICK r : Changed({r}, {})
    BY <1>11 DEF Others
  <2>2. uri \in stale' /\ uri \notin silent' => uri \in stale /\ uri \notin silent
    BY <2>1 DEF Changed
  <2> QED
    BY <1>11, <2>2 DEF Others, Informed
<1>12. CASE UNCHANGED vars
  BY <1>12 DEF vars, Informed
<1> QED
  BY <1>2, <1>3, <1>4, <1>5, <1>6, <1>7, <1>8, <1>9, <1>10, <1>11, <1>12 DEF Next, Server

LEMMA InitInformed ==
    ASSUME Init, NEW uri
    PROVE  Informed(uri)
<1>1. Len(<<>>) = 0
  OBVIOUS
<1> QED
  BY <1>1 DEF Init, Informed, Known

LEMMA InformedAtRest ==
    ASSUME CoherenceInv
    PROVE  Coherent
<1>1. SUFFICES ASSUME AtRest, NEW uri \in client.wants, uri \in stale
               PROVE  uri \in silent
  BY DEF Coherent
<1>2. output = <<>> /\ input = <<>> /\ server.pc = "read" /\ client.again = {}
  BY <1>1 DEF AtRest
<1>3. server.pending = <<>> /\ client.wants \subseteq Args
  BY <1>2 DEF CoherenceInv, OrderInv, Control, TypeInv
<1>4. Informed(uri)
  BY <1>1, <1>3 DEF CoherenceInv
<1>5. Len(<<>>) = 0
  OBVIOUS
<1>6. uri \in server.subscribed
  BY <1>1, <1>2, <1>4, <1>5 DEF Informed, Known, LastSays
<1>7. ~Told(uri, client.again, input, output, server.pending)
  BY <1>2, <1>3, <1>5 DEF Told, Has, Queues
<1> QED
  BY <1>1, <1>4, <1>6, <1>7 DEF Informed

\* At rest a client that reads what it is told of is up to date with every
\* change that had an event.
THEOREM CoherentAlways == Spec => []Coherent
<1>1. Init => CoherenceInv
  BY InitInOrder, InitInformed DEF CoherenceInv
<1>2. CoherenceInv /\ [Next]_vars => CoherenceInv'
  <2>1. SUFFICES ASSUME CoherenceInv, [Next]_vars PROVE CoherenceInv'
    OBVIOUS
  <2>2. OrderInv'
    BY <2>1, StepInOrder DEF CoherenceInv
  <2>3. ASSUME NEW uri \in Args PROVE Informed(uri)'
    BY <2>1, StepInformed DEF CoherenceInv
  <2> QED
    BY <2>2, <2>3 DEF CoherenceInv
<1>3. CoherenceInv => Coherent
  BY InformedAtRest
<1> QED
  BY <1>1, <1>2, <1>3, PTL DEF Spec

=============================================================================
