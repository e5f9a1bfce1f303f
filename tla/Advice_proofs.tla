---------------------------- MODULE Advice_proofs ----------------------------
(***************************************************************************)
(* Proofs about what awo tells those who ask it for advice: Review, which  *)
(* says what has changed where and what overlaps, and Routing, which says  *)
(* what to run.                                                            *)
(*                                                                         *)
(* Reviews: none shows work that has been gone for longer than lists of    *)
(* changed files are kept, nor misses an overlap that has been there for   *)
(* as long, and a review shows what a refresh has found, for any slots,    *)
(* files, and lifetime of lists.                                           *)
(*                                                                         *)
(* Routing, for all models, members, cards, preferences and pressures:     *)
(* when the fallback is taken, that nothing better was on offer, that      *)
(* relaxing a policy never spoils a choice, and how far a start follows    *)
(* the recommendation.                                                     *)
(***************************************************************************)
EXTENDS Review, Routing, TLAPS

-----------------------------------------------------------------------------
(* Reviews: the invariant *)

ListEntry == [files: SUBSET Files, age: 0..TTL, ok: BOOLEAN]

Typed ==
    /\ tree \in [Slots -> SUBSET Files]
    /\ cache \in [Slots -> ListEntry]
    /\ age \in [Slots -> [Files -> 0..TTL]]

\* A file that is listed but clean has become so since it was listed.
ListsRecent ==
    \A s \in Slots : /\ cache[s].files # {} => cache[s].age < TTL
                     /\ \A f \in cache[s].files : f \in tree[s] \/ age[s][f] <= cache[s].age

ShownRecent ==
    /\ shown.slots \subseteq Slots
    /\ \A s \in shown.slots : \A f \in shown.files[s] : f \in tree[s] \/ age[s][f] < TTL

\* A file that is changed but not listed has been changed since the listing.
ListsComplete ==
    \A s \in Slots : cache[s].age < TTL /\ cache[s].ok =>
       \A f \in tree[s] : age[s][f] > cache[s].age => f \in cache[s].files

ShownComplete ==
    \A s \in Dirty(shown) : \A f \in Files : Lasting(s, f) => f \in shown.files[s]

IInv == Typed /\ ListsRecent /\ ListsComplete /\ ShownRecent /\ ShownComplete

LEMMA NoEntryTyped == NoEntry \in ListEntry /\ NoEntry.files = {} /\ ~(NoEntry.age < TTL)
  BY BoundsNatural DEF NoEntry, ListEntry

LEMMA NothingShown == shown' = NoReview => ShownRecent' /\ ShownComplete'
  BY DEF NoReview, ShownRecent, ShownComplete, Dirty

\* Commands leave the worktrees' files alone and may drop a list.
LEMMA CommandsKeep ==
    ASSUME IInv, UNCHANGED <<tree, age>>, shown' = NoReview,
           \/ cache' = cache
           \/ \E s \in Slots : cache' = [cache EXCEPT ![s] = NoEntry]
    PROVE  IInv'
<1>1. CASE cache' = cache
  BY <1>1, NothingShown DEF IInv, Typed, ListsRecent, ListsComplete
<1>2. ASSUME NEW s \in Slots, cache' = [cache EXCEPT ![s] = NoEntry] PROVE IInv'
  <2>1. Typed'
    BY <1>2, NoEntryTyped DEF IInv, Typed
  <2>2. ASSUME NEW r \in Slots PROVE cache'[r] = cache[r] \/ cache'[r] = NoEntry
    BY <1>2 DEF IInv, Typed
  <2>3. ListsRecent'
    BY <2>2, NoEntryTyped DEF IInv, ListsRecent
  <2>4. ListsComplete'
    BY <2>2, NoEntryTyped DEF IInv, ListsComplete
  <2> QED
    BY <2>1, <2>3, <2>4, NothingShown DEF IInv
<1> QED
  BY <1>1, <1>2

\* Work in a worktree makes the files it touches new.
LEMMA WorkKeeps ==
    ASSUME IInv, Typed', cache' = cache, shown' = NoReview,
           \A s \in Slots, f \in Files :
              age'[s][f] = 0 \/ ((f \in tree[s] <=> f \in tree'[s]) /\ age'[s][f] = age[s][f])
    PROVE  IInv'
<1>1. ASSUME NEW s \in Slots, NEW f \in cache[s].files
      PROVE  f \in tree'[s] \/ age'[s][f] <= cache[s].age
  <2>1. f \in Files /\ cache[s].age \in 0..TTL
    BY DEF IInv, Typed, ListEntry
  <2>2. f \in tree[s] \/ age[s][f] <= cache[s].age
    BY DEF IInv, ListsRecent
  <2>3. TTL \in Nat
    BY BoundsNatural
  <2> QED
    BY <2>1, <2>2, <2>3
<1>2. ASSUME NEW s \in Slots, cache[s].age < TTL, cache[s].ok,
             NEW f \in tree'[s], age'[s][f] > cache[s].age
      PROVE  f \in cache[s].files
  <2>1. f \in Files /\ cache[s].age \in 0..TTL
    BY DEF IInv, Typed, ListEntry
  <2>2. TTL \in Nat
    BY BoundsNatural
  <2>3. f \in tree[s] /\ age[s][f] > cache[s].age
    BY <1>2, <2>1, <2>2
  <2> QED
    BY <1>2, <2>3 DEF IInv, ListsComplete
<1>3. ListsComplete'
  BY <1>2 DEF ListsComplete
<1> QED
  BY <1>1, <1>3, NothingShown DEF IInv, ListsRecent

LEMMA ReviewStep == IInv /\ [Next]_vars => IInv'
<1> SUFFICES ASSUME IInv, [Next]_vars PROVE IInv'
  OBVIOUS
<1>0. /\ TTL \in Nat \ {0}
      /\ tree \in [Slots -> SUBSET Files] /\ cache \in [Slots -> ListEntry]
      /\ age \in [Slots -> [Files -> 0..TTL]]
  BY BoundsNatural DEF IInv, Typed
<1>1. CASE UNCHANGED vars
  BY <1>1 DEF vars, IInv, Typed, ListsRecent, ListsComplete, ShownRecent, ShownComplete,
              Dirty, Lasting
<1>2. ASSUME NEW here \in BOOLEAN, Command(here) PROVE IInv'
  <2>1. PICK s \in Slots :
           \/ SlotAcquire(here, s) \/ SlotRelease(here, s) \/ SlotRefresh(here, s)
           \/ \E c \in {"delete", "prune"} : SlotDelete(here, c, s)
    BY <1>2 DEF Command
  <2>2. PICK c : Given(here, c, s) /\ UNCHANGED <<tree, age>>
    <3>1. CASE SlotAcquire(here, s)
      BY <3>1 DEF SlotAcquire
    <3>2. CASE SlotRelease(here, s)
      BY <3>2 DEF SlotRelease
    <3>3. CASE SlotRefresh(here, s)
      BY <3>3 DEF SlotRefresh
    <3>4. CASE \E c \in {"delete", "prune"} : SlotDelete(here, c, s)
      BY <3>4 DEF SlotDelete
    <3> QED
      BY <2>1, <3>1, <3>2, <3>3, <3>4
  <2>3. shown' = NoReview
    BY <2>2 DEF Given, Step
  <2>4. cache' = cache \/ cache' = [cache EXCEPT ![s] = NoEntry]
    BY <2>2 DEF Given, Invalidated
  <2> QED
    BY <2>2, <2>3, <2>4, CommandsKeep
<1>3. ASSUME NEW r, ReviewStatus(r) PROVE IInv'
  BY <1>3, CommandsKeep DEF ReviewStatus, Step
<1>4. ASSUME NEW s \in Slots, NEW f \in Files, Work(s, f) PROVE IInv'
  <2>1. /\ tree' = [tree EXCEPT ![s] = IF f \in tree[s] THEN tree[s] \ {f} ELSE tree[s] \cup {f}]
        /\ age' = [age EXCEPT ![s] = [age[s] EXCEPT ![f] = 0]]
        /\ cache' = cache /\ shown' = NoReview
    BY <1>4 DEF Work, Step
  <2>2. Typed'
    BY <1>0, <2>1 DEF Typed
  <2>3. ASSUME NEW r \in Slots, NEW g \in Files
        PROVE  age'[r][g] = 0 \/ ((g \in tree[r] <=> g \in tree'[r]) /\ age'[r][g] = age[r][g])
    BY <1>0, <2>1
  <2> QED
    BY <2>1, <2>2, <2>3, WorkKeeps
<1>5. ASSUME NEW s \in Slots, Commit(s) \/ Vanish(s) PROVE IInv'
  <2>1. /\ tree' = [tree EXCEPT ![s] = {}]
        /\ age' = [age EXCEPT ![s] = [f \in Files |-> IF f \in tree[s] THEN 0 ELSE age[s][f]]]
        /\ cache' = cache /\ shown' = NoReview
    BY <1>5 DEF Commit, Vanish, Step
  <2>2. Typed'
    BY <1>0, <2>1 DEF Typed
  <2>3. ASSUME NEW r \in Slots, NEW g \in Files
        PROVE  age'[r][g] = 0 \/ ((g \in tree[r] <=> g \in tree'[r]) /\ age'[r][g] = age[r][g])
    BY <1>0, <2>1
  <2> QED
    BY <2>1, <2>2, <2>3, WorkKeeps
<1>6. ASSUME NEW s \in Slots, Sessions(s) PROVE IInv'
  BY <1>6, CommandsKeep DEF Sessions, Step
<1>7. ASSUME NEW r \in Repos, RepoMoves(r) PROVE IInv'
  BY <1>7, CommandsKeep DEF RepoMoves, Step
<1>8. ASSUME NEW filter, Snapshot(filter) PROVE IInv'
  <2>1. PICK bad \in SUBSET Flagged :
           /\ cache' = CacheAfter(bad)
           /\ shown' = [slots |-> {s \in Known : filter \in {repo[s], "all"}},
                        files |-> [s \in Slots |->
                                     IF s \notin Flagged THEN {}
                                     ELSE IF filter = "all" THEN cache'[s].files
                                     ELSE Listed(s, bad)],
                        unread |-> IF filter = "all" THEN {s \in Flagged : ~cache'[s].ok}
                                   ELSE bad]
    BY <1>8 DEF Snapshot
  <2>2. UNCHANGED <<tree, age>>
    BY <1>8 DEF Snapshot
  <2>3. ASSUME NEW s \in Slots
        PROVE  /\ cache'[s] \in ListEntry
               /\ cache'[s].files # {} => cache'[s].age < TTL
               /\ \A f \in cache'[s].files : f \in tree[s] \/ age[s][f] <= cache'[s].age
    <3>0. /\ cache[s] \in ListEntry
          /\ cache[s].files # {} => cache[s].age < TTL
          /\ \A f \in cache[s].files : f \in tree[s] \/ age[s][f] <= cache[s].age
      BY <1>0 DEF IInv, ListsRecent
    <3>1. CASE cache'[s] = cache[s]
      BY <3>0, <3>1
    <3>2. CASE cache'[s] = NoEntry
      BY <3>2, NoEntryTyped
    <3>3. CASE cache'[s] = [files |-> Listed(s, bad), age |-> 0, ok |-> s \notin bad]
      <4>1. Listed(s, bad) \subseteq tree[s] /\ tree[s] \subseteq Files
        BY <1>0 DEF Listed
      <4> QED
        BY <1>0, <3>3, <4>1 DEF ListEntry
    <3> QED
      BY <2>1, <3>1, <3>2, <3>3 DEF CacheAfter, Entry
  <2>4. cache' \in [Slots -> ListEntry]
    <3>1. cache' = [s \in Slots |-> cache'[s]]
      BY <2>1 DEF CacheAfter
    <3> QED
      BY <2>3, <3>1
  <2>5. Typed' /\ ListsRecent'
    BY <1>0, <2>2, <2>3, <2>4 DEF Typed, ListsRecent
  <2>6. ASSUME NEW s \in shown'.slots, NEW f \in shown'.files[s]
        PROVE  s \in Slots /\ (f \in tree[s] \/ age[s][f] < TTL)
    <3>1. s \in Slots
      BY <2>1 DEF Known
    <3>2. f \in cache'[s].files \/ f \in Listed(s, bad)
      BY <2>1, <3>1
    <3>3. CASE f \in Listed(s, bad)
      BY <3>1, <3>3 DEF Listed
    <3>4. CASE f \in cache'[s].files
      <4>1. f \in Files /\ cache'[s].age \in 0..TTL /\ cache'[s].age < TTL
        BY <2>3, <3>1, <3>4 DEF ListEntry
      <4>2. f \in tree[s] \/ age[s][f] <= cache'[s].age
        BY <2>3, <3>1, <3>4
      <4> QED
        BY <1>0, <3>1, <4>1, <4>2
    <3> QED
      BY <3>1, <3>2, <3>3, <3>4
  <2>7. ShownRecent'
    <3>1. shown'.slots \subseteq Slots
      BY <2>1 DEF Known
    <3> QED
      BY <2>2, <2>6, <3>1 DEF ShownRecent
  <2>8. ASSUME NEW s \in Slots, cache'[s].age < TTL, cache'[s].ok,
               NEW f \in tree[s], age[s][f] > cache'[s].age
        PROVE  f \in cache'[s].files
    <3>1. CASE cache'[s] = cache[s]
      BY <2>8, <3>1 DEF IInv, ListsComplete
    <3>2. CASE cache'[s] = NoEntry
      BY <2>8, <3>2, NoEntryTyped
    <3>3. CASE cache'[s] = [files |-> Listed(s, bad), age |-> 0, ok |-> s \notin bad]
      <4>1. cache'[s].ok = (s \notin bad) /\ cache'[s].files = Listed(s, bad)
        BY <3>3
      <4>2. s \notin bad
        BY <2>8, <4>1, Zenon
      <4> QED
        BY <2>8, <4>1, <4>2 DEF Listed
    <3> QED
      BY <2>1, <3>1, <3>2, <3>3 DEF CacheAfter, Entry
  <2>9. ListsComplete'
    BY <2>2, <2>8 DEF ListsComplete
  <2>10. ASSUME NEW s \in Dirty(shown)', NEW f \in Files, Lasting(s, f)'
         PROVE  f \in shown'.files[s]
    <3>1. s \in Flagged /\ s \in Slots /\ row' = row
      BY <1>8, <2>1, <2>10 DEF Snapshot, Dirty, Flagged, Known
    <3>2. f \in tree[s] /\ age[s][f] = TTL /\ s \notin shown'.unread
      BY <2>2, <2>10 DEF Lasting
    <3>3. CASE filter # "all"
      BY <2>1, <3>1, <3>2, <3>3 DEF Listed
    <3>4. CASE filter = "all"
      <4>1. cache'[s].ok /\ shown'.files[s] = cache'[s].files
        BY <2>1, <3>1, <3>2, <3>4
      <4>2. cache'[s] = Entry(s, bad)
        BY <2>1, <3>1 DEF CacheAfter
      <4>3. cache'[s].age < TTL
        BY <1>0, <4>2 DEF Entry, Kept
      <4> QED
        BY <2>8, <3>1, <3>2, <4>1, <4>3
    <3> QED
      BY <3>3, <3>4
  <2>11. ShownComplete'
    BY <2>10 DEF ShownComplete
  <2> QED
    BY <2>5, <2>7, <2>9, <2>11 DEF IInv
<1>9. CASE Tick
  <2>1. /\ cache' = [s \in Slots |-> IF cache[s].age < TTL - 1
                                     THEN [cache[s] EXCEPT !.age = cache[s].age + 1]
                                     ELSE NoEntry]
        /\ age' = [s \in Slots |-> [f \in Files |-> Older(age[s][f])]]
        /\ shown' = NoReview /\ tree' = tree
    BY <1>9 DEF Tick
  <2>2. \A n \in 0..TTL : Older(n) \in 0..TTL /\ Older(n) <= n + 1
    BY <1>0 DEF Older
  <2>3. age' \in [Slots -> [Files -> 0..TTL]]
    BY <1>0, <2>1, <2>2
  <2>4. ASSUME NEW s \in Slots
        PROVE  /\ cache'[s] \in ListEntry
               /\ cache'[s].files # {} => cache'[s].age < TTL
               /\ \A f \in cache'[s].files : f \in tree[s] \/ age'[s][f] <= cache'[s].age
    <3>0. /\ cache[s] \in ListEntry /\ cache[s].age \in 0..TTL
          /\ \A f \in cache[s].files : f \in Files /\ (f \in tree[s] \/ age[s][f] <= cache[s].age)
      BY <1>0 DEF IInv, ListsRecent, ListEntry
    <3>1. CASE cache[s].age < TTL - 1
      <4>1. /\ cache'[s].files = cache[s].files /\ cache'[s].age = cache[s].age + 1
            /\ cache'[s].ok = cache[s].ok
            /\ cache'[s] = [cache[s] EXCEPT !.age = cache[s].age + 1]
        BY <2>1, <3>0, <3>1 DEF ListEntry
      <4>2. cache[s].age + 1 \in 0..TTL /\ cache[s].age + 1 < TTL
        BY <1>0, <3>0, <3>1
      <4>3. cache'[s] \in ListEntry
        BY <3>0, <4>1, <4>2 DEF ListEntry
      <4>4. ASSUME NEW f \in cache[s].files
            PROVE  f \in tree[s] \/ age'[s][f] <= cache[s].age + 1
        <5>1. f \in Files /\ age[s][f] \in 0..TTL /\ age'[s][f] = Older(age[s][f])
          BY <1>0, <2>1, <3>0
        <5>2. age'[s][f] \in 0..TTL /\ age'[s][f] <= age[s][f] + 1
          BY <2>2, <5>1
        <5> QED
          BY <1>0, <3>0, <5>1, <5>2
      <4> QED
        BY <4>1, <4>2, <4>3, <4>4
    <3>2. CASE ~(cache[s].age < TTL - 1)
      BY <2>1, <3>2, NoEntryTyped
    <3> QED
      BY <3>1, <3>2
  <2>5. cache' \in [Slots -> ListEntry]
    BY <2>1, <2>4
  <2>6. ASSUME NEW s \in Slots, cache'[s].age < TTL, cache'[s].ok,
               NEW f \in tree[s], age'[s][f] > cache'[s].age
        PROVE  f \in cache'[s].files
    <3>1. cache[s].age < TTL - 1
      BY <2>1, <2>6, NoEntryTyped
    <3>2. cache[s] \in ListEntry /\ cache[s].age \in 0..TTL
      BY <1>0 DEF ListEntry
    <3>3. /\ cache'[s].files = cache[s].files /\ cache'[s].age = cache[s].age + 1
          /\ cache'[s].ok = cache[s].ok
      BY <2>1, <3>1, <3>2 DEF ListEntry
    <3>4. f \in Files /\ age[s][f] \in 0..TTL /\ age'[s][f] = Older(age[s][f])
      BY <1>0, <2>1
    <3>5. Older(age[s][f]) <= age[s][f] + 1 /\ Older(age[s][f]) \in 0..TTL
      BY <2>2, <3>4
    <3>6. age[s][f] > cache[s].age
      BY <1>0, <2>6, <3>2, <3>3, <3>4, <3>5
    <3> QED
      BY <1>0, <2>6, <3>1, <3>2, <3>3, <3>6 DEF IInv, ListsComplete
  <2>7. ListsComplete'
    BY <2>1, <2>6 DEF ListsComplete
  <2> QED
    BY <1>0, <2>1, <2>3, <2>4, <2>5, <2>7, NothingShown DEF IInv, Typed, ListsRecent
<1> QED
  BY <1>1, <1>2, <1>3, <1>4, <1>5, <1>6, <1>7, <1>8, <1>9 DEF Next, World

LEMMA InitIInv == Init => IInv
<1> SUFFICES ASSUME Init PROVE IInv
  OBVIOUS
<1>1. Typed
  BY NoEntryTyped, BoundsNatural DEF Init, Typed
<1> QED
  BY <1>1, NoEntryTyped DEF Init, IInv, ListsRecent, ListsComplete, ShownRecent,
                            ShownComplete, Dirty, NoReview

\* A review that AppSnapshot::load makes from lists it has kept names no file
\* as changed that has been clean for as long as lists are kept.
THEOREM ReviewsAreRecent == Spec => []Recent
<1>1. IInv => Recent
  BY DEF IInv, ShownRecent, Recent
<1> QED
  BY InitIInv, ReviewStep, <1>1, PTL DEF Spec

\* Nor does it miss two slots of one repository that have had files changed
\* side by side for that long: overlap.rs reports the file, or the directory,
\* whether by the risky overlaps or by the soft ones that it keeps apart.
THEOREM ReviewsShowOverlaps == Spec => []OverlapsShown
<1>1. IInv => OverlapsShown
  <2> SUFFICES ASSUME IInv, NEW a \in Dirty(shown), NEW b \in Dirty(shown),
                      NEW f \in Files, NEW g \in Files,
                      a # b, repo[a] = repo[b], Lasting(a, f), Lasting(b, g)
               PROVE  /\ f = g => /\ <<a, b>> \in Compared(shown)
                                 /\ f \in Risky(shown.files[a], shown.files[b])
                      /\ (DirOf[f] = DirOf[g] /\ DirOf[f] # "") =>
                           /\ <<a, b>> \in Compared(shown)
                           /\ DirOf[f] \in Soft(shown.files[a], shown.files[b])
                                 \cup {DirOf[x] : x \in Risky(shown.files[a], shown.files[b])}
    BY ZenonT(60) DEF OverlapsShown
  <2>1. f \in shown.files[a] /\ g \in shown.files[b]
    BY DEF IInv, ShownComplete
  <2>2. <<a, b>> \in Compared(shown)
    BY <2>1 DEF Compared
  <2>3. ASSUME DirOf[f] = DirOf[g], DirOf[f] # "",
               DirOf[f] \notin Soft(shown.files[a], shown.files[b])
        PROVE  DirOf[f] \in {DirOf[x] : x \in Risky(shown.files[a], shown.files[b])}
    <3>1. DirOf[f] \in Dirs(shown.files[a]) \cap Dirs(shown.files[b])
      BY <2>1, <2>3 DEF Dirs
    <3>2. In(DirOf[f], shown.files[a]) = In(DirOf[f], shown.files[b])
      BY <2>3, <3>1 DEF Soft
    <3>3. f \in In(DirOf[f], shown.files[a])
      BY <2>1 DEF In
    <3>4. f \in shown.files[b]
      BY <3>2, <3>3 DEF In
    <3> QED
      BY <2>1, <3>4 DEF Risky
  <2> QED
    BY <2>1, <2>2, <2>3 DEF Risky
<1> QED
  BY InitIInv, ReviewStep, <1>1, PTL DEF Spec

-----------------------------------------------------------------------------
(* Reviews: what a refresh has found *)

Rows == [status: {"none", "active", "released", "missing", "deleted"},
         dirty: BOOLEAN, stale: BOOLEAN]

\* What a row says of its worktree is so.
Accurate(r, s) ==
    /\ r \in Rows
    /\ s \in there => (r.dirty <=> tree[s] # {}) /\ (r.stale <=> s \in stale)
    /\ s \notin there => r.status = "missing" /\ ~r.dirty

SlotsTyped ==
    /\ row \in [Slots -> Rows]
    /\ quiet \subseteq Slots
    /\ \A s \in Slots : s \notin there => tree[s] = {}

\* The row of a slot refreshed and not touched since is so, and a list of its
\* files that is kept is right.
Told ==
    \A s \in quiet : /\ Accurate(row[s], s)
                     /\ cache[s].age < TTL => cache[s].files = tree[s]

Seen == SlotsTyped /\ Told /\ RefreshIsSeen

\* refresh_slot_state
LEMMA RefreshedAccurate ==
    ASSUME SlotsTyped, NEW s \in Slots
    PROVE  Accurate(Refreshed(s), s)
<1>1. row[s] \in Rows
  BY DEF SlotsTyped
<1>2. CASE s \notin there
  BY <1>2 DEF Refreshed, Accurate, Rows
<1>3. CASE s \in there
  <2>1. PICK d \in BOOLEAN : d <=> tree[s] # {}
    OBVIOUS
  <2>2. PICK z \in BOOLEAN : z <=> s \in stale
    OBVIOUS
  <2>3. d = (tree[s] # {}) /\ z = (s \in stale)
    BY <2>1, <2>2, Zenon
  <2>4. Refreshed(s) = [row[s] EXCEPT !.dirty = d, !.stale = z]
    BY <1>3, <2>3, Zenon DEF Refreshed
  <2>5. /\ Refreshed(s) \in Rows
        /\ Refreshed(s).dirty = d /\ Refreshed(s).stale = z
    BY <1>1, <2>4 DEF Rows
  <2> QED
    BY <1>3, <2>1, <2>2, <2>5, Zenon DEF Accurate
<1> QED
  BY <1>2, <1>3

\* A step after which nothing is shown, and that leaves slots as they are that
\* have been refreshed and stay quiet.
LEMMA QuietStays ==
    ASSUME Seen, SlotsTyped', shown' = NoReview,
           \A s \in quiet' :
              \/ /\ s \in quiet /\ row'[s] = row[s] /\ tree'[s] = tree[s]
                 /\ s \in there' <=> s \in there
                 /\ s \in stale' <=> s \in stale
                 /\ cache'[s] = cache[s] \/ ~(cache'[s].age < TTL)
              \/ Accurate(row[s], s)' /\ s \in quiet /\ tree'[s] = tree[s] /\ cache'[s] = cache[s]
              \/ Accurate(row[s], s)' /\ ~(cache'[s].age < TTL)
    PROVE  Seen'
<1>1. ASSUME NEW s \in quiet'
      PROVE  Accurate(row[s], s)' /\ (cache'[s].age < TTL => cache'[s].files = tree'[s])
  BY <1>1 DEF Seen, Told, Accurate
<1>2. Told'
  BY <1>1 DEF Told
<1>3. RefreshIsSeen'
  BY DEF RefreshIsSeen, NoReview
<1> QED
  BY <1>2, <1>3 DEF Seen

\* What a command does to the lists of files.
LEMMA GivenKeeps ==
    ASSUME IInv, NEW here \in BOOLEAN, NEW c, NEW s \in Slots, Given(here, c, s)
    PROVE  /\ shown' = NoReview
           /\ \A t \in Slots \ {s} : cache'[t] = cache[t]
           /\ cache'[s] = cache[s] \/ ~(cache'[s].age < TTL)
           /\ (here /\ c = "refresh") => ~(cache'[s].age < TTL)
<1>1. cache \in [Slots -> ListEntry]
  BY DEF IInv, Typed
<1>2. cache' = cache \/ cache' = [cache EXCEPT ![s] = NoEntry]
  BY DEF Given, Invalidated
<1>3. (here /\ c = "refresh") => cache' = [cache EXCEPT ![s] = NoEntry]
  BY DEF Given, Invalidated
<1> QED
  BY <1>1, <1>2, <1>3, NoEntryTyped DEF Given, Step

\* A command that takes the slot it is about out of the quiet ones.
LEMMA CommandTouches ==
    ASSUME IInv, Seen, SlotsTyped', NEW here \in BOOLEAN, NEW c, NEW s \in Slots,
           Given(here, c, s), quiet' = quiet \ {s},
           \A t \in Slots \ {s} : /\ row'[t] = row[t] /\ tree'[t] = tree[t]
                                  /\ t \in there' <=> t \in there
                                  /\ t \in stale' <=> t \in stale
    PROVE  Seen'
<1>1. ASSUME NEW t \in quiet' PROVE t \in quiet /\ t \in Slots \ {s}
  BY DEF Seen, SlotsTyped
<1> QED
  BY <1>1, GivenKeeps, QuietStays

LEMMA NoRowTyped ==
    /\ Acquired \in Rows /\ [NoRow EXCEPT !.status = "deleted"] \in Rows
  BY DEF NoRow, Acquired, Rows

\* The commands, one by one.
LEMMA AcquireSeen ==
    ASSUME IInv, Seen, NEW here \in BOOLEAN, NEW s \in Slots, SlotAcquire(here, s)
    PROVE  Seen'
<1>1. SlotsTyped'
  BY NoRowTyped DEF SlotAcquire, Seen, SlotsTyped
<1>2. ASSUME NEW t \in Slots \ {s}
      PROVE  /\ row'[t] = row[t] /\ tree'[t] = tree[t]
             /\ t \in there' <=> t \in there
             /\ t \in stale' <=> t \in stale
  BY DEF SlotAcquire, Seen, SlotsTyped
<1> QED
  BY <1>1, <1>2, CommandTouches DEF SlotAcquire

LEMMA ReleaseSeen ==
    ASSUME IInv, Seen, NEW here \in BOOLEAN, NEW s \in Slots, SlotRelease(here, s)
    PROVE  Seen'
<1>0. Given(here, "release", s) /\ UNCHANGED <<tree, there, busy, age>>
  BY DEF SlotRelease
<1>1. CASE CanRelease(s)
  <2>1. PICK r : r = [Refreshed(s) EXCEPT !.status = "released"]
    OBVIOUS
  <2>2. r \in Rows
    BY <2>1, RefreshedAccurate DEF Seen, Accurate, Rows
  <2>3. /\ row' = [row EXCEPT ![s] = r] /\ quiet' = quiet \ {s}
        /\ stale' \in {stale, stale \ {s}}
    BY <1>1, <2>1 DEF SlotRelease
  <2>4. SlotsTyped'
    BY <1>0, <2>2, <2>3 DEF Seen, SlotsTyped
  <2>5. ASSUME NEW t \in Slots \ {s}
        PROVE  /\ row'[t] = row[t] /\ tree'[t] = tree[t]
               /\ t \in there' <=> t \in there
               /\ t \in stale' <=> t \in stale
    BY <1>0, <2>3 DEF Seen, SlotsTyped
  <2> QED
    BY <1>0, <2>3, <2>4, <2>5, CommandTouches
<1>2. CASE ~CanRelease(s)
  <2>1. UNCHANGED <<row, stale, quiet>>
    BY <1>2 DEF SlotRelease
  <2>2. SlotsTyped'
    BY <1>0, <2>1 DEF Seen, SlotsTyped
  <2>3. ASSUME NEW t \in quiet'
        PROVE  cache'[t] = cache[t] \/ ~(cache'[t].age < TTL)
    BY <1>0, <2>1, GivenKeeps DEF Seen, SlotsTyped
  <2> QED
    BY <1>0, <2>1, <2>2, <2>3, GivenKeeps, QuietStays
<1> QED
  BY <1>1, <1>2

LEMMA DeleteSeen ==
    ASSUME IInv, Seen, NEW here \in BOOLEAN, NEW s \in Slots, NEW c, SlotDelete(here, c, s)
    PROVE  Seen'
<1>1. SlotsTyped'
  BY NoRowTyped DEF SlotDelete, Seen, SlotsTyped
<1>2. ASSUME NEW t \in Slots \ {s}
      PROVE  /\ row'[t] = row[t] /\ tree'[t] = tree[t]
             /\ t \in there' <=> t \in there
             /\ t \in stale' <=> t \in stale
  BY DEF SlotDelete, Seen, SlotsTyped
<1> QED
  BY <1>1, <1>2, CommandTouches DEF SlotDelete

LEMMA RefreshSeen ==
    ASSUME IInv, Seen, NEW here \in BOOLEAN, NEW s \in Slots, SlotRefresh(here, s)
    PROVE  Seen'
<1>0. Given(here, "refresh", s) /\ UNCHANGED <<tree, there, busy, age>>
  BY DEF SlotRefresh
<1>1. /\ shown' = NoReview
      /\ \A t \in Slots \ {s} : cache'[t] = cache[t]
      /\ cache'[s] = cache[s] \/ ~(cache'[s].age < TTL)
      /\ here => ~(cache'[s].age < TTL)
  BY <1>0, GivenKeeps
<1>t. /\ row \in [Slots -> Rows] /\ quiet \subseteq Slots
      /\ \A t \in Slots : t \notin there => tree[t] = {}
  BY DEF Seen, SlotsTyped
<1>2. CASE UNCHANGED <<row, stale, quiet>>
  <2>1. SlotsTyped'
    BY <1>0, <1>2 DEF Seen, SlotsTyped
  <2> QED
    BY <1>0, <1>1, <1>2, <1>t, <2>1, QuietStays
<1>3. CASE /\ row' = [row EXCEPT ![s] = Refreshed(s)]
           /\ quiet' = IF here THEN quiet \cup {s} ELSE quiet
           /\ UNCHANGED stale
  <2>1. Accurate(Refreshed(s), s)
    BY RefreshedAccurate DEF Seen
  <2>2. row' \in [Slots -> Rows] /\ row'[s] = Refreshed(s)
        /\ \A t \in Slots \ {s} : row'[t] = row[t]
    BY <1>3, <1>t, <2>1 DEF Accurate
  <2>3. SlotsTyped'
    BY <1>0, <1>3, <1>t, <2>2 DEF SlotsTyped
  <2>4. Accurate(row[s], s)'
    BY <1>0, <1>3, <2>1, <2>2 DEF Accurate
  <2>5. ASSUME NEW t \in quiet', t # s
        PROVE  /\ t \in quiet /\ row'[t] = row[t] /\ tree'[t] = tree[t]
               /\ t \in there' <=> t \in there
               /\ t \in stale' <=> t \in stale
               /\ cache'[t] = cache[t]
    BY <1>0, <1>1, <1>3, <1>t, <2>2, <2>5
  <2>6. s \in quiet' => ~(cache'[s].age < TTL)
                        \/ (s \in quiet /\ tree'[s] = tree[s] /\ cache'[s] = cache[s])
    BY <1>0, <1>1, <1>3
  <2> QED
    BY <1>1, <2>3, <2>4, <2>5, <2>6, QuietStays
<1>4. CASE /\ row[s].status = "released" /\ s \in there /\ tree[s] = {}
           /\ stale' \in {stale, stale \ {s}}
           /\ row' = [row EXCEPT ![s].dirty = FALSE, ![s].stale = s \in stale']
           /\ quiet' = IF here THEN quiet \cup {s} ELSE quiet \ {s}
  <2>1. PICK z \in BOOLEAN : z <=> s \in stale'
    OBVIOUS
  <2>2. z = (s \in stale')
    BY <2>1, Zenon
  <2>3. row' = [row EXCEPT ![s].dirty = FALSE, ![s].stale = z]
    BY <1>4, <2>2, Zenon
  <2>4. PICK r : r = [row[s] EXCEPT !.dirty = FALSE, !.stale = z]
    OBVIOUS
  <2>5. r \in Rows /\ r.dirty = FALSE /\ r.stale = z
    BY <1>t, <2>4 DEF Rows
  <2>6. row' = [row EXCEPT ![s] = r]
    BY <1>t, <2>3, <2>4 DEF Rows
  <2>7. /\ row' \in [Slots -> Rows] /\ row'[s] = r
        /\ \A t \in Slots \ {s} : row'[t] = row[t]
    BY <1>t, <2>5, <2>6
  <2>8. SlotsTyped'
    BY <1>0, <1>4, <1>t, <2>7 DEF SlotsTyped
  <2>9. Accurate(row[s], s)'
    BY <1>0, <1>4, <2>1, <2>5, <2>7, Zenon DEF Accurate
  <2>10. ASSUME NEW t \in quiet', t # s
         PROVE  /\ t \in quiet /\ row'[t] = row[t] /\ tree'[t] = tree[t]
                /\ t \in there' <=> t \in there
                /\ t \in stale' <=> t \in stale
                /\ cache'[t] = cache[t]
    BY <1>0, <1>1, <1>4, <1>t, <2>7, <2>10
  <2>11. s \in quiet' => here
    BY <1>4
  <2> QED
    BY <1>1, <2>8, <2>9, <2>10, <2>11, QuietStays
<1> QED
  BY <1>2, <1>3, <1>4 DEF SlotRefresh

\* run_review_status says of every slot what is so.
LEMMA StatusSeen ==
    ASSUME IInv, Seen, NEW r, ReviewStatus(r)
    PROVE  Seen'
<1>0. /\ UNCHANGED <<tree, there, stale, cache, quiet>> /\ shown' = NoReview
      /\ row' = [s \in Slots |-> IF row[s].status \in {"active", "released"} /\ repo[s] \in r
                                 THEN Refreshed(s) ELSE row[s]]
  BY DEF ReviewStatus, Step
<1>1. ASSUME NEW s \in Slots
      PROVE  row'[s] \in Rows /\ (row'[s] = row[s] \/ Accurate(row[s], s)')
  <2>1. Accurate(Refreshed(s), s)
    BY RefreshedAccurate DEF Seen
  <2>2. row'[s] = row[s] \/ row'[s] = Refreshed(s)
    BY <1>0
  <2>3. CASE row'[s] = row[s]
    BY <2>3 DEF Seen, SlotsTyped
  <2>4. CASE row'[s] = Refreshed(s)
    BY <1>0, <2>1, <2>4 DEF Accurate
  <2> QED
    BY <2>2, <2>3, <2>4
<1>2. row' = [s \in Slots |-> row'[s]]
  BY <1>0
<1>3. SlotsTyped'
  BY <1>0, <1>1, <1>2 DEF Seen, SlotsTyped
<1> QED
  BY <1>0, <1>1, <1>3, QuietStays DEF Seen, SlotsTyped

\* What goes on in the worktrees, and time.
LEMMA WorldSeen ==
    ASSUME IInv, Seen, World \/ Tick
    PROVE  Seen'
<1>t. /\ row \in [Slots -> Rows] /\ quiet \subseteq Slots
      /\ \A t \in Slots : t \notin there => tree[t] = {}
      /\ tree \in [Slots -> SUBSET Files] /\ cache \in [Slots -> ListEntry]
  BY DEF Seen, SlotsTyped, IInv, Typed
<1>1. ASSUME NEW s \in Slots, NEW f \in Files, Work(s, f) PROVE Seen'
  <2>1. SlotsTyped'
    BY <1>1, <1>t DEF Work, SlotsTyped
  <2> QED
    BY <1>1, <1>t, <2>1, QuietStays DEF Work, Step
<1>2. ASSUME NEW s \in Slots, Commit(s) PROVE Seen'
  <2>1. SlotsTyped'
    BY <1>2, <1>t DEF Commit, SlotsTyped
  <2> QED
    BY <1>2, <1>t, <2>1, QuietStays DEF Commit, Step
<1>3. ASSUME NEW s \in Slots, Vanish(s) PROVE Seen'
  <2>1. SlotsTyped'
    BY <1>3, <1>t DEF Vanish, SlotsTyped
  <2> QED
    BY <1>3, <1>t, <2>1, QuietStays DEF Vanish, Step
<1>4. ASSUME NEW s \in Slots, Sessions(s) PROVE Seen'
  <2>1. SlotsTyped'
    BY <1>4, <1>t DEF Sessions, SlotsTyped
  <2> QED
    BY <1>4, <1>t, <2>1, QuietStays DEF Sessions, Step
<1>5. ASSUME NEW r \in Repos, RepoMoves(r) PROVE Seen'
  <2>1. SlotsTyped'
    BY <1>5, <1>t DEF RepoMoves, SlotsTyped
  <2>2. \A s \in quiet' : s \in quiet /\ (s \in stale' <=> s \in stale)
    BY <1>5 DEF RepoMoves
  <2> QED
    BY <1>5, <1>t, <2>1, <2>2, QuietStays DEF RepoMoves, Step
<1>6. CASE Tick
  <2>1. UNCHANGED <<tree, there, stale, row, quiet>> /\ shown' = NoReview
    BY <1>6 DEF Tick
  <2>2. SlotsTyped'
    BY <1>t, <2>1 DEF SlotsTyped
  <2>3. ASSUME NEW s \in quiet'
        PROVE  Accurate(row[s], s)' /\ (cache'[s].age < TTL => cache'[s].files = tree'[s])
    <3>1. s \in Slots /\ s \in quiet /\ cache[s] \in ListEntry
      BY <1>t, <2>1
    <3>2. Accurate(row[s], s) /\ (cache[s].age < TTL => cache[s].files = tree[s])
      BY <3>1 DEF Seen, Told
    <3>3. Accurate(row[s], s)'
      BY <2>1, <3>2 DEF Accurate
    <3>4. cache'[s] = IF cache[s].age < TTL - 1
                      THEN [cache[s] EXCEPT !.age = cache[s].age + 1] ELSE NoEntry
      BY <1>6, <3>1 DEF Tick
    <3>5. CASE cache[s].age < TTL - 1
      <4>1. cache'[s].files = cache[s].files
        BY <3>1, <3>4, <3>5 DEF ListEntry
      <4>2. cache[s].age < TTL
        BY <3>1, <3>5, BoundsNatural DEF ListEntry
      <4> QED
        BY <2>1, <3>2, <3>3, <4>1, <4>2
    <3>6. CASE ~(cache[s].age < TTL - 1)
      BY <3>3, <3>4, <3>6, NoEntryTyped
    <3> QED
      BY <3>5, <3>6
  <2>4. Told'
    BY <2>3 DEF Told
  <2>5. RefreshIsSeen'
    BY <2>1 DEF RefreshIsSeen, NoReview
  <2> QED
    BY <2>2, <2>4, <2>5 DEF Seen
<1> QED
  BY <1>1, <1>2, <1>3, <1>4, <1>5, <1>6 DEF World

\* A review made here of a slot that is quiet.
LEMMA SnapshotSeen ==
    ASSUME IInv, Seen, NEW filter, Snapshot(filter)
    PROVE  Seen'
<1>0. UNCHANGED <<tree, there, stale, busy, row>>
  BY DEF Snapshot
<1>1. PICK bad \in SUBSET Flagged :
         /\ cache' = CacheAfter(bad)
         /\ shown' = [slots |-> {s \in Known : filter \in {repo[s], "all"}},
                      files |-> [s \in Slots |->
                                   IF s \notin Flagged THEN {}
                                   ELSE IF filter = "all" THEN cache'[s].files
                                   ELSE Listed(s, bad)],
                      unread |-> IF filter = "all" THEN {s \in Flagged : ~cache'[s].ok}
                                 ELSE bad]
         /\ quiet' = quiet \ bad
  BY DEF Snapshot
<1>2. SlotsTyped'
  BY <1>0, <1>1 DEF Seen, SlotsTyped
<1>3. ASSUME NEW s \in quiet'
      PROVE  /\ s \in Slots /\ s \in quiet /\ s \notin bad
             /\ Accurate(row[s], s)
             /\ cache'[s].age < TTL => cache'[s].files = tree[s]
             /\ s \in Flagged => cache'[s].files = tree[s]
  <2>1. /\ s \in Slots /\ s \in quiet /\ s \notin bad
        /\ Accurate(row[s], s) /\ (cache[s].age < TTL => cache[s].files = tree[s])
    BY <1>1 DEF Seen, SlotsTyped, Told
  <2>2. s \in Flagged => cache'[s] = Entry(s, bad)
    BY <1>1, <2>1 DEF CacheAfter
  <2>3. s \in Flagged => cache'[s].files = tree[s]
    BY <2>1, <2>2 DEF Entry, Kept, Listed
  <2>4. s \notin Flagged => cache'[s] \in {cache[s], NoEntry}
    BY <1>1, <2>1 DEF CacheAfter
  <2> QED
    BY <2>1, <2>3, <2>4, NoEntryTyped
<1>4. Told'
  BY <1>0, <1>3 DEF Told, Accurate
<1>5. ASSUME NEW s \in quiet', s \in shown'.slots
      PROVE  /\ shown'.files[s] = tree[s]
             /\ s \in Active(shown)' =>
                  (s \in Releasable(shown)' <=> CanRelease(s) /\ s \notin stale)
  <2>1. s \in Known /\ s \in Slots
    BY <1>1, <1>3, <1>5
  <2>2. row[s].dirty <=> tree[s] # {}
    BY <1>3, <2>1 DEF Accurate, Seen, SlotsTyped
  <2>3. s \in Flagged <=> tree[s] # {}
    BY <2>1, <2>2 DEF Flagged
  <2>4. shown'.files[s] = tree[s]
    BY <1>1, <1>3, <2>1, <2>3 DEF Listed
  <2>5. ASSUME s \in Active(shown)'
        PROVE  s \in Releasable(shown)' <=> CanRelease(s) /\ s \notin stale
    <3>1. row[s].status = "active"
      BY <1>0, <2>5 DEF Active
    <3>2. s \in there /\ (row[s].stale <=> s \in stale)
      BY <1>3, <3>1 DEF Accurate
    <3>3. s \in Releasable(shown)' <=> ~row[s].dirty /\ ~row[s].stale /\ s \notin busy
      BY <1>0, <1>5, <2>5 DEF Releasable, Dirty, Stale
    <3> QED
      BY <2>2, <3>2, <3>3 DEF CanRelease
  <2> QED
    BY <2>4, <2>5
<1>6. RefreshIsSeen'
  BY <1>0, <1>5 DEF RefreshIsSeen, CanRelease
<1> QED
  BY <1>2, <1>4, <1>6 DEF Seen

\* Whatever other programs and agents do, a review made here shows of a slot
\* refreshed here and not touched since exactly what lies in its worktree:
\* AppCore::dispatch has dropped the list of files that the cache kept.
THEOREM RefreshesAreSeen == Spec => []RefreshIsSeen
<1>1. Init => Seen
  BY DEF Init, Seen, SlotsTyped, Told, RefreshIsSeen, NoReview, NoRow, Rows
<1>2. IInv /\ Seen /\ [Next]_vars => Seen'
  <2> SUFFICES ASSUME IInv, Seen, [Next]_vars PROVE Seen'
    OBVIOUS
  <2>1. CASE UNCHANGED vars
    BY <2>1 DEF vars, Seen, SlotsTyped, Told, Accurate, RefreshIsSeen, Active, Releasable,
                Dirty, Stale, CanRelease
  <2>2. ASSUME NEW here \in BOOLEAN, Command(here) PROVE Seen'
    BY <2>2, AcquireSeen, ReleaseSeen, DeleteSeen, RefreshSeen DEF Command
  <2>3. ASSUME NEW r, ReviewStatus(r) PROVE Seen'
    BY <2>3, StatusSeen
  <2>4. ASSUME NEW filter, Snapshot(filter) PROVE Seen'
    BY <2>4, SnapshotSeen
  <2>5. CASE World \/ Tick
    BY <2>5, WorldSeen
  <2> QED
    BY <2>1, <2>2, <2>3, <2>4, <2>5 DEF Next
<1>3. Seen => RefreshIsSeen
  BY DEF Seen
<1> QED
  BY InitIInv, ReviewStep, <1>1, <1>2, <1>3, PTL DEF Spec

-----------------------------------------------------------------------------
(* Routing: what is offered, and policies *)

\* What is offered, in the order of preference.
Offered(primary, fallback, preferences) ==
    {primary} \cup {f \in {fallback} : f # NotGiven /\ preferences.allow_fallback}

\* A policy that allows at least what p allows: it has fewer demands, a higher
\* ceiling or none.  A calmer context presses no runtime harder than c does.
Higher(limit, ceiling) ==
    \/ limit = None
    \/ /\ ceiling # None /\ ceiling # "unknown" /\ limit # "unknown"
       /\ CostRank(ceiling) <= CostRank(limit)

Relaxes(q, p) ==
    /\ q.prefer_local => p.prefer_local
    /\ q.avoid_metered => p.avoid_metered
    /\ Higher(q.max_cost_tier, p.max_cost_tier) \/ q.max_cost_tier = p.max_cost_tier

Calmer(d, c) ==
    \A r \in Runtimes : d[r] \in {"hard_limit", "unavailable"} =>
                        c[r] \in {"hard_limit", "unavailable"}

-----------------------------------------------------------------------------
(* Routing: the choice *)

\* The fallback is taken exactly when it is given, allowed and accepted and the
\* primary target is rejected: an accepted primary target is never passed over.
THEOREM FallbackWhenNeeded ==
  ASSUME NEW primary, NEW fallback, NEW preferences, NEW context
  PROVE  Route(primary, fallback, preferences, context).source = "fallback" <=>
            /\ ~Accepted(primary, preferences, context)
            /\ preferences.allow_fallback
            /\ fallback # NotGiven
            /\ Accepted(fallback, preferences, context)
  BY DEF Route, Primary, Fallback

\* What is proposed is on offer, and when it breaks the policy or lies on a
\* runtime under pressure then so does everything else on offer: route_runtime
\* returns a rejected primary target only for want of a better one.
THEOREM NothingBetter ==
  ASSUME NEW primary, NEW fallback, NEW preferences, NEW context
  PROVE  LET chosen == Route(primary, fallback, preferences, context).selected
             offered == Offered(primary, fallback, preferences)
         IN  /\ chosen \in offered
             /\ ~Accepted(chosen, preferences, context) =>
                   \A target \in offered : ~Accepted(target, preferences, context)
  <1>1. CASE Route(primary, fallback, preferences, context) = Fallback(fallback)
             /\ preferences.allow_fallback /\ fallback # NotGiven
             /\ Accepted(fallback, preferences, context)
    BY <1>1 DEF Offered, Fallback
  <1>2. CASE Route(primary, fallback, preferences, context) = Primary(primary)
             /\ \/ Accepted(primary, preferences, context)
                \/ ~preferences.allow_fallback
                \/ fallback = NotGiven
                \/ ~Accepted(fallback, preferences, context)
    BY <1>2 DEF Offered, Primary
  <1> QED
    BY <1>1, <1>2 DEF Route

-----------------------------------------------------------------------------
(* Routing: relaxing a policy *)

\* A ceiling that is at least as high keeps every tier that was under it.
LEMMA HigherCeiling ==
  ASSUME NEW tier \in CostTiers, NEW limit \in CostTiers, NEW ceiling \in CostTiers,
         Higher(limit, ceiling) \/ limit = ceiling, CostWithinLimit(tier, ceiling)
  PROVE  CostWithinLimit(tier, limit)
  <1>1. \A c \in CostTiers \ {"unknown"} : CostRank(c) \in Nat
    BY DEF CostTiers, CostRank
  <1>2. None \notin CostTiers
    BY DEF None, CostTiers
  <1> QED
    BY <1>1, <1>2 DEF Higher, CostWithinLimit

\* A runtime that has no ceiling over it, or a known one, has a known tier.
LEMMA TierKnown == \A r \in Runtimes : CostTier(r) \in CostTiers
  BY DEF Runtimes, CostTier, CostTiers

\* A target that is accepted stays accepted when the policy is relaxed and the
\* pressure falls: evaluate_target has no demand that conflicts with another.
THEOREM RelaxingAccepts ==
  ASSUME NEW target \in Target, NEW p \in Preferences, NEW q \in Preferences,
         NEW c \in Context, NEW d \in Context,
         Relaxes(q, p), Calmer(d, c), Accepted(target, p, c)
  PROVE  Accepted(target, q, d)
  <1>1. target.runtime \in Runtimes
    BY DEF Target
  <1>2. d[target.runtime] \notin {"hard_limit", "unavailable"}
    BY <1>1 DEF Calmer, Accepted
  <1>3. ASSUME q.max_cost_tier # None
        PROVE  CostWithinLimit(CostTier(target.runtime), q.max_cost_tier)
    <2>1. p.max_cost_tier # None
      BY <1>3 DEF Relaxes, Higher
    <2>2. CostWithinLimit(CostTier(target.runtime), p.max_cost_tier)
      BY <2>1 DEF Accepted
    <2>3. p.max_cost_tier \in CostTiers /\ q.max_cost_tier \in CostTiers
      BY <1>3, <2>1 DEF Preferences
    <2>4. Higher(q.max_cost_tier, p.max_cost_tier) \/ q.max_cost_tier = p.max_cost_tier
      BY DEF Relaxes
    <2> QED
      BY <1>1, <2>2, <2>3, <2>4, HigherCeiling, TierKnown
  <1>4. q.prefer_local => CostTier(target.runtime) = "local"
    BY DEF Relaxes, Accepted
  <1>5. q.avoid_metered => ~ApiMetered(target.runtime)
    BY DEF Relaxes, Accepted
  <1> QED
    BY <1>2, <1>3, <1>4, <1>5 DEF Accepted

-----------------------------------------------------------------------------
(* Routing: the recommendation and the start *)

\* Whether a target is accepted is a matter of its runtime, not of its model.
LEMMA RuntimeDecides ==
  ASSUME NEW s \in Target, NEW t \in Target, s.runtime = t.runtime,
         NEW preferences, NEW context
  PROVE  Accepted(s, preferences, context) = Accepted(t, preferences, context)
  BY DEF Accepted

\* A start without preferences of its own launches the runtime that would have
\* been recommended had there been no pressure on any; the model may be another
\* one, which recommend_team_routing leaves aside, but only on the primary
\* target and only when the card names it.
THEOREM StartFollowsCalmRecommendation ==
  ASSUME NEW w \in Member, NEW t \in Card, NEW team \in Preferences \cup {NotGiven},
         Routable(w, t)
  PROVE  LET r == Recommended(w, t, team, NoPressure)
             l == Launched(NotGiven, w, t, team)
         IN  /\ l.selected.runtime = r.selected.runtime
             /\ l.source = r.source
             /\ l.selected.model # r.selected.model =>
                   l.source = "primary" /\ l.selected.model = t.model
  <1> DEFINE prefs == EffectivePreferences(NotGiven, w, team)
             a == [runtime |-> PrimaryRuntime(w, t), model |-> w.model]
             b == [runtime |-> PrimaryRuntime(w, t), model |-> Name(t.model, w.model)]
             f == FallbackTarget(w)
  <1>1. Accepted(a, prefs, NoPressure) = Accepted(b, prefs, NoPressure)
    BY DEF Accepted
  <1>2. Recommended(w, t, team, NoPressure) = Route(a, f, prefs, NoPressure)
    BY DEF Recommended
  <1>3. Launched(NotGiven, w, t, team) = Route(b, f, prefs, NoPressure)
    BY DEF Launched
  <1>4. b.model # a.model => b.model = t.model
    BY DEF Name
  <1> HIDE DEF prefs, f
  <1> QED
    BY <1>1, <1>2, <1>3, <1>4 DEF Route, Primary, Fallback

\* The pressure profile does not reach a start: a card can be launched on a
\* runtime that the profile says is unavailable although the recommendation
\* for it, under the same policy, is the member's fallback.
THEOREM StartIgnoresPressure ==
  \E w \in Member, t \in Card, context \in Context :
     /\ Recommended(w, t, NotGiven, context).source = "fallback"
     /\ context[Launched(NotGiven, w, t, NotGiven).selected.runtime] = "unavailable"
  <1> DEFINE w == [runtime |-> "claude", model |-> None, fallback_runtime |-> "codex",
                   fallback_model |-> None, preferences |-> NotGiven]
             t == [runtime |-> None, model |-> None]
             context == PressureSet(NoPressure, "claude", "unavailable")
  <1>1. w \in Member /\ t \in Card
    BY DEF Member, Card, Runtimes
  <1>2. context \in Context /\ context["claude"] = "unavailable" /\ context["codex"] = "none"
    BY DEF Context, PressureSet, NoPressure, Runtimes, Pressures
  <1>3. /\ FallbackTarget(w) = [runtime |-> "codex", model |-> None]
        /\ FallbackTarget(w) # NotGiven
    BY DEF FallbackTarget, None, NotGiven
  <1>4. t # NotGiven
    BY DEF NotGiven
  <1>5. PrimaryRuntime(w, t) = "claude"
    BY <1>4 DEF PrimaryRuntime, Name
  <1>6. EffectivePreferences(NotGiven, w, NotGiven) = DefaultPreferences
    BY DEF EffectivePreferences, OrElse
  <1>7. \A x : x.runtime = "codex" => Accepted(x, DefaultPreferences, context)
    BY <1>2 DEF Accepted, DefaultPreferences
  <1>8. \A x : x.runtime = "claude" => ~Accepted(x, DefaultPreferences, context)
    BY <1>2 DEF Accepted
  <1>9. \A x : x.runtime = "claude" => Accepted(x, DefaultPreferences, NoPressure)
    BY DEF Accepted, DefaultPreferences, NoPressure, Runtimes
  <1> HIDE DEF w, t, context
  <1>10. Recommended(w, t, NotGiven, context).source = "fallback"
    <2> DEFINE p == [runtime |-> PrimaryRuntime(w, t), model |-> w.model]
               f == FallbackTarget(w)
    <2>1. ~Accepted(p, DefaultPreferences, context)
      BY <1>5, <1>8
    <2>2. Accepted(f, DefaultPreferences, context)
      BY <1>3, <1>7
    <2>3. DefaultPreferences.allow_fallback
      BY DEF DefaultPreferences
    <2>4. Recommended(w, t, NotGiven, context) = Route(p, f, DefaultPreferences, context)
      BY <1>6 DEF Recommended
    <2> HIDE DEF p, f
    <2>5. f # NotGiven
      BY <1>3 DEF f
    <2> QED
      BY <2>1, <2>2, <2>3, <2>4, <2>5, FallbackWhenNeeded
  <1>11. Launched(NotGiven, w, t, NotGiven).selected.runtime = "claude"
    BY <1>5, <1>6, <1>9 DEF Launched, Route, Primary
  <1> QED
    BY <1>1, <1>2, <1>10, <1>11

=============================================================================
