----------------------------- MODULE Tui_proofs ------------------------------
(***************************************************************************)
(* Proofs about Tui, for any slots, sessions, teams and cards, any number  *)
(* of keys, changes and failing snapshots: what is drawn is consistent,    *)
(* the screen never goes back in time, a refresh does not move the cursor  *)
(* of the dashboard to another team, and a dialog's command acts on what   *)
(* the dialog named.                                                       *)
(*                                                                         *)
(* The invariant IInv is what is drawn, what holds of the screen between   *)
(* drawing and the next turn, what is on its way to it, and that an open   *)
(* dialog is as it was opened.                                             *)
(***************************************************************************)
EXTENDS Tui, FiniteSetTheorems, SequenceTheorems, WellFoundedInduction, TLAPS

-----------------------------------------------------------------------------
(* Places in lists *)

\* A set of numbers has a least one.
LEMMA LeastExists ==
    ASSUME NEW S, S \subseteq Nat, S # {}
    PROVE  \E x \in S : \A y \in S : x <= y
<1>1. PICK x \in S : \A y \in S : ~(<<y, x>> \in OpToRel(<, Nat))
  BY WFMin, NatLessThanWellFounded
<1>2. \A y \in S : ~(y < x)
  BY <1>1 DEF OpToRel
<1> QED BY <1>2

\* Of any two elements of a set one comes before the other.
Ordered(S, before) ==
    /\ before \in [S -> SUBSET S]
    /\ \A x \in S : x \notin before[x]
    /\ \A x, y \in S : x # y => \/ x \in before[y] /\ before[x] \subseteq before[y]
                                \/ y \in before[x] /\ before[y] \subseteq before[x]

\* Their places, counted from 0, are as many as they are, and all different.
Placed(S, before) ==
    /\ \A x \in S : /\ Cardinality(before[x]) \in Nat
                    /\ Cardinality(before[x]) < Cardinality(S)
    /\ \A x, y \in S : Cardinality(before[x]) = Cardinality(before[y]) => x = y
    /\ \A i \in Nat : i < Cardinality(S) => \E x \in S : Cardinality(before[x]) = i

\* Elements fill the places from 0 on, each its own.
LEMMA OrderedPlaced ==
    ASSUME NEW S, IsFiniteSet(S), NEW before, Ordered(S, before)
    PROVE  Placed(S, before)
<1>1. PICK n \in Nat : n = Cardinality(S)
  BY FS_CardinalityType
<1>2. PICK place : place = [x \in S |-> Cardinality(before[x])]
  OBVIOUS
<1>3. ASSUME NEW x \in S
      PROVE  IsFiniteSet(before[x]) /\ Cardinality(before[x]) \in 0..(n - 1)
  <2>1. before[x] \subseteq S \ {x}
    BY DEF Ordered
  <2>2. IsFiniteSet(S \ {x}) /\ Cardinality(S \ {x}) = n - 1
    BY <1>1, FS_RemoveElement
  <2>3. IsFiniteSet(before[x]) /\ Cardinality(before[x]) <= n - 1
    BY <2>1, <2>2, FS_Subset
  <2> QED BY <1>1, <2>3, FS_CardinalityType
<1>4. ASSUME NEW x \in S, NEW y \in S, x \in before[y], before[x] \subseteq before[y]
      PROVE  place[x] # place[y]
  <2>1. before[x] # before[y]
    BY <1>4 DEF Ordered
  <2>2. Cardinality(before[x]) # Cardinality(before[y])
    BY <1>3, <1>4, <2>1, FS_Subset
  <2> QED BY <1>2, <2>2
<1>5. place \in [S -> 0..(n - 1)]
  BY <1>2, <1>3
<1>6. \A x, y \in S : place[x] = place[y] => x = y
  BY <1>4 DEF Ordered
<1>7. place \in Injection(S, 0..(n - 1))
  BY <1>5, <1>6 DEF Injection, IsInjective
<1>8. IsFiniteSet(0..(n - 1)) /\ Cardinality(0..(n - 1)) = n
  <2>1. 0 \in Int /\ n - 1 \in Int /\ (IF 0 > n - 1 THEN 0 ELSE n - 1 - 0 + 1) = n
    BY <1>1
  <2> QED BY <2>1, FS_Interval
<1>9. place \in Surjection(S, 0..(n - 1))
  BY <1>1, <1>7, <1>8, FS_Injection
<1>10. ASSUME NEW i \in Nat, i < Cardinality(S)
       PROVE  \E x \in S : Cardinality(before[x]) = i
  <2>1. i \in 0..(n - 1)
    BY <1>1, <1>10
  <2>2. PICK x \in S : place[x] = i
    BY <1>9, <2>1 DEF Surjection
  <2> QED BY <1>2, <2>2
<1>11. \A x \in S : Cardinality(before[x]) \in Nat /\ Cardinality(before[x]) < Cardinality(S)
  BY <1>1, <1>3
<1>12. \A x, y \in S : Cardinality(before[x]) = Cardinality(before[y]) => x = y
  BY <1>2, <1>6
<1> QED BY <1>10, <1>11, <1>12 DEF Placed

\* What comes before in a list by name, and in one by age.
Below(S, x) == {y \in S : y < x}
Above(S, x) == {y \in S : y > x}

\* The places of a list by name.
LEMMA PlacesByName ==
    ASSUME NEW S, S \subseteq Nat, IsFiniteSet(S)
    PROVE  /\ \A x \in S : /\ Cardinality(Below(S, x)) \in Nat
                           /\ Cardinality(Below(S, x)) < Cardinality(S)
           /\ \A x, y \in S : Cardinality(Below(S, x)) = Cardinality(Below(S, y)) => x = y
           /\ \A i \in Nat : i < Cardinality(S) => \E x \in S : Cardinality(Below(S, x)) = i
<1>1. PICK before : before = [x \in S |-> Below(S, x)]
  OBVIOUS
<1>2. before \in [S -> SUBSET S] /\ \A x \in S : x \notin before[x]
  BY <1>1 DEF Below
<1>3. ASSUME NEW x \in S, NEW y \in S, x < y
      PROVE  x \in before[y] /\ before[x] \subseteq before[y]
  <2>1. \A z \in S : z < x => z < y
    BY <1>3
  <2> QED BY <1>1, <1>3, <2>1 DEF Below
<1>4. \A x, y \in S : x # y => x < y \/ y < x
  OBVIOUS
<1>5. Placed(S, before)
  BY <1>2, <1>3, <1>4, OrderedPlaced, ZenonT(60) DEF Ordered
<1> QED BY <1>1, <1>5 DEF Placed

\* The places of a list by age.
LEMMA PlacesByAge ==
    ASSUME NEW S, S \subseteq Nat, IsFiniteSet(S)
    PROVE  \A i \in Nat : i < Cardinality(S) => \E x \in S : Cardinality(Above(S, x)) = i
<1>1. PICK before : before = [x \in S |-> Above(S, x)]
  OBVIOUS
<1>2. before \in [S -> SUBSET S] /\ \A x \in S : x \notin before[x]
  BY <1>1 DEF Above
<1>3. ASSUME NEW x \in S, NEW y \in S, x > y
      PROVE  x \in before[y] /\ before[x] \subseteq before[y]
  <2>1. \A z \in S : z > x => z > y
    BY <1>3
  <2> QED BY <1>1, <1>3, <2>1 DEF Above
<1>4. \A x, y \in S : x # y => x > y \/ y > x
  OBVIOUS
<1>5. Placed(S, before)
  BY <1>2, <1>3, <1>4, OrderedPlaced DEF Ordered
<1> QED BY <1>1, <1>5 DEF Placed

\* A cursor inside a list is on an element of it.
LEMMA NthByNameIn ==
    ASSUME NEW S, S \subseteq Nat, IsFiniteSet(S),
           NEW i \in Nat, i < Cardinality(S)
    PROVE  NthByName(S, i) \in S
  BY PlacesByName DEF NthByName, Below

\* The same of a list by age.
LEMMA NthNewestIn ==
    ASSUME NEW S, S \subseteq Nat, IsFiniteSet(S),
           NEW i \in Nat, i < Cardinality(S)
    PROVE  NthNewest(S, i) \in S
  BY PlacesByAge DEF NthNewest, Above

\* A cursor on the place of an element is on that element.
LEMMA NthByNameFinds ==
    ASSUME NEW S, S \subseteq Nat, IsFiniteSet(S), NEW t \in S
    PROVE  NthByName(S, Cardinality(Below(S, t))) = t
<1>1. \A x \in S : Cardinality(Below(S, x)) = Cardinality(Below(S, t)) => x = t
  BY PlacesByName
<1> QED BY <1>1 DEF NthByName, Below

-----------------------------------------------------------------------------
(* The screen *)

\* What the store, the lists on the screen and the rest of the state hold
\* between any two steps.
UiOk(u) ==
    /\ u \in UiState
    /\ u.mode # Normal /\ u.mode.act \in Confirms => u.mode.on \in Nat
    /\ ~(u.showLog /\ u.showTerm)
    /\ u.showTerm => u.term # None
    /\ u.input => u.showTerm

\* A dialog that is open was open before, about the same.
SameDialog(v, u) == v.mode.act \in Confirms => v.mode = u.mode

\* A step that leaves the counts of threads alone, and opens no dialog.
Like(v, u) ==
    UiOk(v) /\ v.inFlight = u.inFlight /\ v.pending = u.pending /\ SameDialog(v, u)

\* The types of the fields.
LEMMA UiFields ==
    ASSUME NEW u, UiOk(u)
    PROVE  /\ u.focus \in Focuses /\ u.selected \in [Lists -> Nat]
           /\ u.time \in {"none", "fresh", "old"} /\ u.inFlight \in BOOLEAN /\ u.pending \in Nat
           /\ u.showLog \in BOOLEAN /\ u.logOf \in SessionIds \cup {None}
           /\ u.showTerm \in BOOLEAN /\ u.term \in SessionIds \cup {None}
           /\ u.input \in BOOLEAN /\ u.follow \in BOOLEAN
  BY DEF UiOk, UiState

\* One field at a time.
LEMMA FocusOk ==
    ASSUME NEW u, UiOk(u), NEW f \in Focuses
    PROVE  Like([u EXCEPT !.focus = f], u)
  BY DEF Like, SameDialog, UiOk, UiState

LEMMA SelectedOk ==
    ASSUME NEW u, UiOk(u), NEW c \in [Lists -> Nat]
    PROVE  Like([u EXCEPT !.selected = c], u)
  BY DEF Like, SameDialog, UiOk, UiState

LEMMA CursorOk ==
    ASSUME NEW u, UiOk(u), NEW l \in Lists, NEW i \in Nat
    PROVE  Like([u EXCEPT !.selected[l] = i], u)
<1>1. [u EXCEPT !.selected[l] = i] = [u EXCEPT !.selected = [u.selected EXCEPT ![l] = i]]
  OBVIOUS
<1>2. [u.selected EXCEPT ![l] = i] \in [Lists -> Nat]
  BY UiFields
<1> QED BY <1>1, <1>2, SelectedOk

LEMMA FollowOk ==
    ASSUME NEW u, UiOk(u), NEW b \in BOOLEAN
    PROVE  Like([u EXCEPT !.follow = b], u)
  BY DEF Like, SameDialog, UiOk, UiState

LEMMA TimeOk ==
    ASSUME NEW u, UiOk(u), NEW t \in {"none", "fresh", "old"}
    PROVE  Like([u EXCEPT !.time = t], u)
  BY DEF Like, SameDialog, UiOk, UiState

LEMMA InputOk ==
    ASSUME NEW u, UiOk(u), NEW b \in BOOLEAN, b => u.showTerm
    PROVE  Like([u EXCEPT !.input = b], u)
  BY DEF Like, SameDialog, UiOk, UiState

LEMMA ModeOk ==
    ASSUME NEW u, UiOk(u),
           NEW m \in {Normal} \cup [act: Confirms \cup Prompts, on: Nat \cup {None}],
           m.act \notin Confirms
    PROVE  Like([u EXCEPT !.mode = m], u)
  BY DEF Like, SameDialog, UiOk, UiState

-----------------------------------------------------------------------------
(* Panels *)

\* Nothing is about a dialog in the normal mode.
LEMMA NormalApart == Normal.act \notin Confirms
  BY NoneIsApart DEF Normal

\* Ids are numbers, and None is none of them.
LEMMA IdsTyped ==
    /\ SlotIds \subseteq Nat /\ SessionIds \subseteq Nat /\ TeamIds \subseteq Nat
    /\ None \notin SlotIds /\ None \notin SessionIds /\ None \notin TeamIds
  BY NumberedIds, NoneIsApart

\* fetch_session_log and fetch_slot_diff
LEMMA LogFetched ==
    ASSUME NEW u, UiOk(u), NEW x \in SessionIds \cup {None}, NEW ok \in BOOLEAN
    PROVE  /\ Like(FetchedLog(u, x, ok), u)
           /\ FetchedLog(u, x, ok).selected = u.selected
           /\ FetchedLog(u, x, ok).input => u.input /\ FetchedLog(u, x, ok) = u
<1>1. CASE ok
  BY <1>1 DEF FetchedLog, Like, SameDialog, UiOk, UiState
<1>2. CASE ~ok
  BY <1>2 DEF FetchedLog, Like, SameDialog
<1> QED BY <1>1, <1>2

\* fetch_session_terminal
LEMMA TermFetched ==
    ASSUME NEW u, UiOk(u), NEW x \in SessionIds, NEW ok \in BOOLEAN
    PROVE  /\ Like(FetchedTerm(u, x, ok), u)
           /\ FetchedTerm(u, x, ok).selected = u.selected
           /\ FetchedTerm(u, x, ok).input => FetchedTerm(u, x, ok).term = x
<1>1. CASE ok
  <2>1. PICK b \in BOOLEAN : b = (u.follow \/ u.term # x)
    OBVIOUS
  <2>2. PICK v : v = [u EXCEPT !.term = x, !.showTerm = TRUE, !.showLog = FALSE, !.follow = b]
    OBVIOUS
  <2>3. FetchedTerm(u, x, ok) = v
    BY <1>1, <2>1, <2>2 DEF FetchedTerm
  <2>4. v \in UiState
    BY <2>2 DEF UiOk, UiState
  <2>5. /\ v.mode = u.mode /\ v.term = x /\ v.showTerm /\ ~v.showLog /\ v.input = u.input
        /\ v.selected = u.selected /\ v.inFlight = u.inFlight /\ v.pending = u.pending
    BY <2>2 DEF UiOk, UiState
  <2>6. Like(v, u) /\ v.selected = u.selected /\ v.term = x
    BY <2>4, <2>5, IdsTyped DEF Like, SameDialog, UiOk
  <2> QED BY <2>3, <2>6
<1>2. CASE ~ok
  BY <1>2 DEF FetchedTerm, Like, SameDialog, UiOk, UiState
<1> QED BY <1>1, <1>2

\* open_session_surface
LEMMA SurfaceOpened ==
    ASSUME NEW u, UiOk(u), NEW x \in SessionIds, NEW ok \in BOOLEAN
    PROVE  Like(Opened(u, x, ok), u) /\ Opened(u, x, ok).selected = u.selected
<1>1. CASE x \in Embedded
  <2>1. PICK v : v = FetchedTerm(u, x, ok)
    OBVIOUS
  <2>2. Like(v, u) /\ v.selected = u.selected
    BY <2>1, TermFetched
  <2>3. Opened(u, x, ok) = [v EXCEPT !.focus = "terminal", !.follow = TRUE]
    BY <1>1, <2>1 DEF Opened
  <2> QED BY <2>2, <2>3, ZenonT(60) DEF Like, SameDialog, UiOk, UiState, Focuses
<1>2. CASE x \notin Embedded
  <2>1. PICK v : v = FetchedLog(u, x, ok)
    OBVIOUS
  <2>2. Like(v, u) /\ v.selected = u.selected
    BY <2>1, LogFetched
  <2>3. Opened(u, x, ok) = [v EXCEPT !.focus = "sessions"]
    BY <1>2, <2>1 DEF Opened
  <2> QED BY <2>2, <2>3 DEF Like, SameDialog, UiOk, UiState, Focuses
<1> QED BY <1>1, <1>2

\* What the panels are in a turn: keys go into a terminal that is shown, of a
\* session that runs.
LEMMA LogFollowed ==
    ASSUME NEW u, UiOk(u), NEW s \in Store, NEW ok \in BOOLEAN
    PROVE  /\ Like(LogRefetched(u, s, ok), u)
           /\ LogRefetched(u, s, ok).selected = u.selected
           /\ LogRefetched(u, s, ok).term = u.term
<1>1. CASE u.showLog /\ u.logOf \in s.live
  <2>1. PICK v : v = FetchedLog(u, u.logOf, ok)
    OBVIOUS
  <2>2. Like(v, u) /\ v.selected = u.selected
    BY <2>1, LogFetched, UiFields
  <2>3. LogRefetched(u, s, ok) = [v EXCEPT !.time = "none"]
    BY <1>1, <2>1 DEF LogRefetched
  <2>4. v.term = u.term
    BY <2>1 DEF FetchedLog, UiOk, UiState
  <2> QED BY <2>2, <2>3, <2>4 DEF Like, SameDialog, UiOk, UiState
<1>2. CASE ~(u.showLog /\ u.logOf \in s.live)
  BY <1>2 DEF LogRefetched, Like, SameDialog
<1> QED BY <1>1, <1>2

\* The same of the terminal panel, which alone takes keys.
LEMMA TermFollowed ==
    ASSUME NEW u, UiOk(u), NEW s \in Store, NEW ok \in BOOLEAN
    PROVE  /\ Like(TerminalFollowed(u, s, ok), u)
           /\ TerminalFollowed(u, s, ok).selected = u.selected
           /\ TerminalFollowed(u, s, ok).input =>
                 TerminalFollowed(u, s, ok).term \in s.live \cap Embedded
<1>1. CASE ~u.showTerm
  BY <1>1 DEF TerminalFollowed, Like, SameDialog, UiOk
<1>2. CASE u.showTerm /\ u.term \notin SessionsOf(s)
  <2>1. TerminalFollowed(u, s, ok) = [u EXCEPT !.showTerm = FALSE, !.input = FALSE, !.term = None]
    BY <1>2 DEF TerminalFollowed
  <2> QED BY <2>1 DEF Like, SameDialog, UiOk, UiState
<1>3. CASE u.showTerm /\ u.term \in SessionsOf(s) /\ u.term \in s.live \cap Embedded /\ u.follow
  <2>1. TerminalFollowed(u, s, ok) = FetchedTerm(u, u.term, ok)
    BY <1>3 DEF TerminalFollowed
  <2>2. u.term \in SessionIds
    BY <1>3, EmbeddedSessions
  <2> QED BY <1>3, <2>1, <2>2, TermFetched
<1>4. CASE u.showTerm /\ u.term \in SessionsOf(s) /\ ~(u.term \in s.live \cap Embedded /\ u.follow)
  <2>1. TerminalFollowed(u, s, ok) = [u EXCEPT !.input = FALSE]
    BY <1>4 DEF TerminalFollowed
  <2> QED BY <2>1 DEF Like, SameDialog, UiOk, UiState
<1> QED BY <1>1, <1>2, <1>3, <1>4

-----------------------------------------------------------------------------
(* Lists and cursors *)

\* The lists are finite sets of numbers.
LEMMA ListsFinite ==
    ASSUME NEW s \in Store, NEW d \in Loaded
    PROVE  /\ IsFiniteSet(s.slots) /\ Cardinality(s.slots) \in Nat /\ s.slots \subseteq Nat
           /\ IsFiniteSet(SessionsOf(s)) /\ Cardinality(SessionsOf(s)) \in Nat
           /\ SessionsOf(s) \subseteq Nat
           /\ IsFiniteSet(d.teams) /\ Cardinality(d.teams) \in Nat /\ d.teams \subseteq Nat
<1>1. s.slots \subseteq SlotIds /\ SessionsOf(s) \subseteq SessionIds /\ d.teams \subseteq TeamIds
  BY DEF Store, Loaded, SessionsOf
<1>2. IsFiniteSet(s.slots) /\ IsFiniteSet(SessionsOf(s)) /\ IsFiniteSet(d.teams)
  BY <1>1, FiniteIds, FS_Subset
<1> QED BY <1>1, <1>2, IdsTyped, FS_CardinalityType

\* The length of a list.
LEMMA CountTyped ==
    ASSUME NEW u, u.selected \in [Lists -> Nat], NEW s \in Store, NEW d \in Loaded,
           NEW l \in Lists
    PROVE  Count(l, s, d, u) \in Nat
<1>1. CASE l = "slots"
  BY <1>1, ListsFinite DEF Count
<1>2. CASE l = "sessions"
  BY <1>2, ListsFinite DEF Count
<1>3. CASE l = "team"
  BY <1>3, ListsFinite DEF Count
<1>4. CASE l = "card"
  <2>1. Count(l, s, d, u) = IF u.selected["team"] < Cardinality(d.teams)
                            THEN Cards[NthByName(d.teams, u.selected["team"])] ELSE 0
    BY <1>4 DEF Count
  <2>2. u.selected["team"] \in Nat
    BY DEF Lists
  <2>3. CASE u.selected["team"] < Cardinality(d.teams)
    <3>1. NthByName(d.teams, u.selected["team"]) \in d.teams
      BY <2>2, <2>3, ListsFinite, NthByNameIn
    <3>2. NthByName(d.teams, u.selected["team"]) \in TeamIds
      BY <3>1 DEF Loaded
    <3> QED BY <2>1, <2>3, <3>2, CardsOfTeams
  <2> QED BY <2>1, <2>3
<1> QED BY <1>1, <1>2, <1>3, <1>4 DEF Lists

\* The counts of a list depend on the state by the cursor of the teams alone.
LEMMA CountBySelected ==
    ASSUME NEW u, NEW v, NEW s, NEW d, NEW l \in Lists,
           v.selected["team"] = u.selected["team"]
    PROVE  Count(l, s, d, v) = Count(l, s, d, u)
  BY DEF Count, Lists

\* A clamped cursor lies in its list.
LEMMA LeastTyped ==
    ASSUME NEW i \in Nat, NEW n \in Nat
    PROVE  Least(i, n) \in Nat /\ Least(i, n) <= (IF n = 0 THEN 0 ELSE n - 1)
  BY DEF Least

\* Cursors lie in their lists.
Within(u, s, d) ==
    \A l \in Lists : u.selected[l] <= IF Count(l, s, d, u) = 0 THEN 0 ELSE Count(l, s, d, u) - 1

\* Nothing but cursors decides whether they lie in their lists.
LEMMA WithinKept ==
    ASSUME NEW u, NEW v, NEW s, NEW d, Within(u, s, d), v.selected = u.selected
    PROVE  Within(v, s, d)
  BY CountBySelected DEF Within

\* clamp_selection
LEMMA ClampedOk ==
    ASSUME NEW u, UiOk(u), NEW s \in Store, NEW d \in Loaded
    PROVE  /\ Like(Clamped(u, s, d), u) /\ Within(Clamped(u, s, d), s, d)
           /\ Clamped(u, s, d).selected["team"] = Least(u.selected["team"], Cardinality(d.teams))
<1>1. PICK c : c = [l \in Lists |-> Least(u.selected[l], Count(l, s, d, u))]
  OBVIOUS
<1>2. PICK v : v = [u EXCEPT !.selected = c]
  OBVIOUS
<1>3. u.selected \in [Lists -> Nat]
  BY UiFields
<1>4. \A l \in Lists : u.selected[l] \in Nat /\ Count(l, s, d, u) \in Nat
  BY <1>3, CountTyped
<1>5. c \in [Lists -> Nat]
  BY <1>1, <1>4, LeastTyped
<1>6. Like(v, u)
  BY <1>2, <1>5, SelectedOk
<1>7. v.selected = c
  BY <1>2 DEF UiOk, UiState
<1>8. PICK n \in Nat : n = Count("card", s, d, v)
  BY <1>5, <1>7, CountTyped DEF Lists
<1>9. PICK m \in Nat : m = Least(u.selected["card"], n)
  BY <1>4, LeastTyped DEF Lists
<1>10. PICK x : x = [v EXCEPT !.selected["card"] = m]
  OBVIOUS
<1>11. Clamped(u, s, d) = x
  BY <1>1, <1>2, <1>8, <1>9, <1>10 DEF Clamped
<1>12. Like(x, v)
  BY <1>6, <1>10, CursorOk DEF Like, Lists
<1>13. x.selected = [c EXCEPT !["card"] = m]
  BY <1>6, <1>7, <1>10 DEF Like, UiOk, UiState
<1>14. /\ x.selected["team"] = c["team"] /\ x.selected["slots"] = c["slots"]
       /\ x.selected["sessions"] = c["sessions"] /\ x.selected["card"] = m
  BY <1>5, <1>13 DEF Lists
<1>15. \A l \in Lists : Count(l, s, d, x) = Count(l, s, d, v)
  BY <1>7, <1>14, CountBySelected
<1>16. \A l \in {"slots", "sessions", "team"} : Count(l, s, d, v) = Count(l, s, d, u)
  BY DEF Count
<1>17. ASSUME NEW l \in {"slots", "sessions", "team"}
       PROVE  x.selected[l] <= IF Count(l, s, d, x) = 0 THEN 0 ELSE Count(l, s, d, x) - 1
  <2>1. l \in Lists /\ Count(l, s, d, x) = Count(l, s, d, u)
    BY <1>15, <1>16 DEF Lists
  <2>2. x.selected[l] = Least(u.selected[l], Count(l, s, d, u))
    BY <1>1, <1>14, <2>1
  <2> QED BY <1>4, <2>1, <2>2, LeastTyped, ZenonT(60)
<1>18. x.selected["card"] <= IF Count("card", s, d, x) = 0 THEN 0 ELSE Count("card", s, d, x) - 1
  <2>1. Count("card", s, d, x) = n /\ u.selected["card"] \in Nat
    BY <1>4, <1>8, <1>15 DEF Lists
  <2> QED BY <1>9, <1>14, <2>1, LeastTyped
<1>19. Within(x, s, d)
  BY <1>17, <1>18 DEF Within, Lists
<1>20. x.selected["team"] = Least(u.selected["team"], Cardinality(d.teams))
  BY <1>1, <1>14 DEF Lists, Count
<1>21. Like(x, u)
  BY <1>6, <1>12 DEF Like, SameDialog
<1> QED BY <1>11, <1>19, <1>20, <1>21

\* What a cursor is on.
LEMMA SelectionTyped ==
    ASSUME NEW u, u.selected \in [Lists -> Nat], NEW s \in Store, NEW d \in Loaded
    PROVE  /\ Has("slots", s, d, u) => NthNewest(s.slots, u.selected["slots"]) \in SlotIds
           /\ Has("sessions", s, d, u) =>
                 NthNewest(SessionsOf(s), u.selected["sessions"]) \in SessionIds
           /\ Has("team", s, d, u) => SelectedTeam(u, d) \in d.teams \cap TeamIds
           /\ Has("card", s, d, u) => Has("team", s, d, u)
<1>1. \A l \in Lists : u.selected[l] \in Nat
  OBVIOUS
<1>2. s.slots \subseteq SlotIds /\ SessionsOf(s) \subseteq SessionIds /\ d.teams \subseteq TeamIds
  BY DEF Store, Loaded, SessionsOf
<1>3. Has("slots", s, d, u) => NthNewest(s.slots, u.selected["slots"]) \in SlotIds
  BY <1>1, <1>2, ListsFinite, NthNewestIn DEF Has, Count, Lists
<1>4. Has("sessions", s, d, u) => NthNewest(SessionsOf(s), u.selected["sessions"]) \in SessionIds
  BY <1>1, <1>2, ListsFinite, NthNewestIn DEF Has, Count, Lists
<1>5. Has("team", s, d, u) => SelectedTeam(u, d) \in d.teams \cap TeamIds
  BY <1>1, <1>2, ListsFinite, NthByNameIn DEF Has, Count, Lists, SelectedTeam
<1>6. Has("card", s, d, u) => Has("team", s, d, u)
  <2>1. u.selected["card"] \in Nat
    BY <1>1 DEF Lists
  <2> QED BY <2>1 DEF Has, Count
<1> QED BY <1>3, <1>4, <1>5, <1>6

\* preserve_team_dashboard_selection
LEMMA PreservedOk ==
    ASSUME NEW u, UiOk(u), NEW old \in Loaded, NEW new \in Loaded, snap \in Store
    PROVE  /\ Like(Preserved(u, old, new), u)
           /\ Has("team", snap, old, u) /\ SelectedTeam(u, old) \in new.teams =>
                 Preserved(u, old, new).selected["team"]
                    = Cardinality(Below(new.teams, SelectedTeam(u, old)))
<1>1. CASE ~Has("team", snap, old, u)
  BY <1>1 DEF Preserved, Like, SameDialog
<1>2. CASE Has("team", snap, old, u)
  <2>1. PICK t : t = SelectedTeam(u, old)
    OBVIOUS
  <2>2. PICK i : i = IF t \in new.teams THEN Cardinality(Below(new.teams, t)) ELSE 0
    OBVIOUS
  <2>3. i \in Nat
    BY <2>2, ListsFinite, PlacesByName
  <2>4. Preserved(u, old, new) = [u EXCEPT !.selected["team"] = i]
    BY <1>2, <2>1, <2>2 DEF Preserved, Below
  <2>5. [u EXCEPT !.selected["team"] = i].selected["team"] = i
    BY DEF UiOk, UiState, Lists
  <2>6. Like([u EXCEPT !.selected["team"] = i], u)
    BY <2>3, CursorOk DEF Lists
  <2> QED BY <2>1, <2>2, <2>4, <2>5, <2>6
<1> QED BY <1>1, <1>2

-----------------------------------------------------------------------------
(* The store and the threads *)

\* An id that is free.
LEMMA NextIdTyped ==
    ASSUME NEW S, S \subseteq Nat, NEW used, S \ used # {}
    PROVE  NextId(S, used) \in S
<1>1. \E x \in S \ used : \A y \in S \ used : x <= y
  BY LeastExists
<1> QED BY <1>1 DEF NextId

\* The store after a change.
Changed(r, s) == r \in Store /\ r.ver = s.ver + 1

\* A command makes one store of another, newer by one.
LEMMA EffectsTyped ==
    ASSUME NEW c, NEW s \in Store, s.ver < MaxChanges, NEW r \in Effects(c, s)
    PROVE  Changed(r, s)
<1>0. PICK n \in 0 .. MaxChanges : n = s.ver + 1
  BY BoundsNatural DEF Store
<1>1. PICK x : x = [s EXCEPT !.ver = n]
  OBVIOUS
<1>2. /\ x \in Store /\ x.ver = n /\ x.slots = s.slots /\ x.live = s.live /\ x.ended = s.ended
      /\ x.teams = s.teams
  BY <1>1 DEF Store
<1>3. ASSUME NEW id \in SlotIds PROVE Changed([x EXCEPT !.slots = @ \cup {id}], s)
  BY <1>0, <1>2 DEF Changed, Store
<1>4. ASSUME NEW id PROVE Changed([x EXCEPT !.slots = @ \ {id}], s)
  BY <1>0, <1>2 DEF Changed, Store
<1>5. ASSUME NEW id \in SessionIds PROVE Changed([x EXCEPT !.live = @ \cup {id}], s)
  BY <1>0, <1>2 DEF Changed, Store
<1>6. ASSUME NEW id \in s.live
      PROVE  Changed([x EXCEPT !.live = @ \ {id}, !.ended = @ \cup {id}], s)
  BY <1>0, <1>2 DEF Changed, Store
<1>7. Changed(x, s)
  BY <1>0, <1>2 DEF Changed
<1>8. SlotIds \ s.slots # {} => NextId(SlotIds, s.slots) \in SlotIds
  BY IdsTyped, NextIdTyped
<1>9. SessionIds \ SessionsOf(s) # {} => NextId(SessionIds, SessionsOf(s)) \in SessionIds
  BY IdsTyped, NextIdTyped
<1>10. \/ SlotIds \ s.slots # {} /\ r = [x EXCEPT !.slots = @ \cup {NextId(SlotIds, s.slots)}]
       \/ r = [x EXCEPT !.slots = @ \ {c.on}]
       \/ r = x
       \/ /\ SessionIds \ SessionsOf(s) # {}
          /\ r = [x EXCEPT !.live = @ \cup {NextId(SessionIds, SessionsOf(s))}]
       \/ c.on \in s.live /\ r = [x EXCEPT !.live = @ \ {c.on}, !.ended = @ \cup {c.on}]
  BY <1>0, <1>1 DEF Effects
<1> QED
  BY <1>3, <1>4, <1>5, <1>6, <1>7, <1>8, <1>9, <1>10

\* So it does within the bound of changes.
LEMMA PossibleTyped ==
    ASSUME w \in Store, NEW c, NEW r \in Possible(c)
    PROVE  Changed(r, w)
  BY EffectsTyped DEF Possible

\* The threads that have not sent their results.
LEMMA AwayTyped ==
    ASSUME NEW T, NEW threads \in Seq(T)
    PROVE  /\ Away(threads) \in Seq(T)
           /\ Cardinality(Back(threads)) \in Nat
           /\ Len(Away(threads)) = Len(threads) - Cardinality(Back(threads))
           /\ \A n \in 1..Len(Away(threads)) :
                 \E i \in 1..Len(threads) : threads[i].at # "sent" /\ Away(threads)[n] = threads[i]
<1>1. PICK k \in Nat : k = Len(threads)
  BY LenProperties
<1>2. PICK out : out = (1..k) \ Back(threads)
  OBVIOUS
<1>3. DOMAIN threads = 1..k
  BY <1>1, LenProperties
<1>4. IsFiniteSet(1..k) /\ Cardinality(1..k) = k
  <2>1. 1 \in Int /\ k \in Int /\ (IF 1 > k THEN 0 ELSE k - 1 + 1) = k
    OBVIOUS
  <2> QED BY <2>1, FS_Interval
<1>5. Back(threads) \subseteq 1..k
  BY <1>3 DEF Back
<1>6. IsFiniteSet(out) /\ IsFiniteSet(Back(threads))
  BY <1>2, <1>4, <1>5, FS_Subset
<1>7. PICK m \in Nat, b \in Nat : m = Cardinality(out) /\ b = Cardinality(Back(threads))
  BY <1>6, FS_CardinalityType
<1>8. m = k - b
  <2>1. out \cup Back(threads) = 1..k /\ out \cap Back(threads) = {}
    BY <1>2, <1>5
  <2>2. Cardinality(1..k) = Cardinality(out) + Cardinality(Back(threads)) - Cardinality({})
    BY <1>6, <2>1, FS_Union
  <2> QED BY <1>4, <1>7, <2>2, FS_EmptySet
<1>9. ASSUME NEW n \in 1..m
      PROVE  NthByName(out, n - 1) \in out
  <2>1. n - 1 \in Nat /\ n - 1 < m
    OBVIOUS
  <2>2. out \subseteq Nat
    BY <1>2
  <2> QED BY <1>6, <1>7, <2>1, <2>2, NthByNameIn
<1>10. Away(threads) = [n \in 1..m |-> threads[NthByName(out, n - 1)]]
  BY <1>2, <1>3, <1>7 DEF Away
<1>11. \A n \in 1..m : threads[NthByName(out, n - 1)] \in T
  BY <1>2, <1>9, <1>1, ElementOfSeq
<1>12. Away(threads) \in [1..m -> T]
  BY <1>10, <1>11
<1>13. Away(threads) \in Seq(T) /\ Len(Away(threads)) = m
  BY <1>12, SeqDef, LenProperties
<1>14. ASSUME NEW n \in 1..m
       PROVE  \E i \in 1..k : threads[i].at # "sent" /\ Away(threads)[n] = threads[i]
  <2>1. NthByName(out, n - 1) \in out /\ Away(threads)[n] = threads[NthByName(out, n - 1)]
    BY <1>9, <1>10
  <2> QED BY <1>2, <1>3, <2>1 DEF Back
<1> QED BY <1>1, <1>7, <1>8, <1>13, <1>14

-----------------------------------------------------------------------------
(* The invariant *)

ReadThread == [at: {"asked", "read", "sent"}, ok: BOOLEAN, snap: Store, teams: Loaded]
JobThread == [at: {"run", "sent"}, cmd: Command]

\* What has been read is no older than what is shown, and nothing is newer than
\* the store.
Forward ==
    /\ snap.ver <= w.ver
    /\ \A i \in 1..Len(reads) : snap.ver <= reads[i].snap.ver /\ reads[i].snap.ver <= w.ver

\* Between drawing and the next turn, the screen is what was drawn.
Drawn ==
    pc = "key" => /\ Within(ui, snap, teams)
                  /\ ui.input => ui.term \in snap.live \cap Embedded

Counted ==
    /\ Len(reads) = IF ui.inFlight THEN 1 ELSE 0
    /\ ui.pending = Len(jobs)

\* A dialog on the screen names what it named when it was opened, which is what
\* its command was given, if it has been given.
Named ==
    /\ ui.mode.act \in Confirms => last.named = ui.mode
    /\ ActsOnNamed

IInv == TypeOK /\ UiOk(ui) /\ Counted /\ Drawn /\ Forward /\ Named

\* The invariant is stronger than the property.
LEMMA InvConsistent == IInv => Consistent
  BY DEF IInv, UiOk, Counted, Drawn, Within, Consistent

\* The threads, with at most one snapshot on its way.
LEMMA Threads ==
    ASSUME IInv
    PROVE  /\ reads \in Seq(ReadThread) /\ jobs \in Seq(JobThread)
           /\ Len(reads) \in 0..1
           /\ \A i \in 1..Len(reads) : reads[i] \in ReadThread
<1>1. reads \in Seq(ReadThread) /\ jobs \in Seq(JobThread)
  BY DEF IInv, TypeOK, ReadThread, JobThread
<1>2. \A i \in 1..Len(reads) : reads[i] \in ReadThread
  BY <1>1, ElementOfSeq
<1> QED BY <1>1, <1>2 DEF IInv, Counted

\* The store changes, or does not.
Moves == w' = w \/ Changed(w', w)

\* A newer store makes nothing on its way too new.
LEMMA ForwardKept ==
    ASSUME IInv, Moves, UNCHANGED <<snap, reads>>
    PROVE  Forward' /\ w' \in Store
<1>1. w' \in Store /\ w'.ver \in Nat /\ w.ver \in Nat /\ w.ver <= w'.ver
  BY BoundsNatural DEF Moves, Changed, IInv, TypeOK, Store
<1>2. snap.ver \in Nat
  BY DEF IInv, TypeOK, Store
<1>3. \A i \in 1..Len(reads) : reads[i].snap.ver \in Nat
  BY Threads DEF ReadThread, Store
<1> QED BY <1>1, <1>2, <1>3 DEF IInv, Forward

\* A key that starts no background command.
KeyDone ==
    /\ pc' \in {"turn", "off"}
    /\ keys' \in 0 .. MaxKeys
    /\ UNCHANGED <<snap, reads, errors>>
    /\ Moves
    /\ teams' \in Loaded
    /\ bell' \in [unseen: BOOLEAN, trigger: BOOLEAN]

\* What a key does to the history of dialogs: nothing, or a command is given.
Given ==
    \/ UNCHANGED last
    \/ ui.mode.act \in Confirms /\ last' = [last EXCEPT !.given = ui.mode]

\* What is known of dialogs is kept.
LEMMA NamedKept ==
    ASSUME IInv, Given, SameDialog(ui', ui)
    PROVE  Named' /\ last' \in [named: Dialog, given: Dialog]
<1>1. last \in [named: Dialog, given: Dialog] /\ Named
  BY DEF IInv, TypeOK
<1>2. CASE UNCHANGED last
  BY <1>1, <1>2 DEF Named, SameDialog, ActsOnNamed
<1>3. CASE ui.mode.act \in Confirms /\ last' = [last EXCEPT !.given = ui.mode]
  <2>1. last.named = ui.mode /\ ui.mode \in Dialog
    BY <1>1, <1>3 DEF Named
  <2>2. last'.named = ui.mode /\ last'.given = ui.mode
        /\ last' \in [named: Dialog, given: Dialog]
    BY <1>1, <1>3, <2>1
  <2> QED BY <2>2 DEF Named, SameDialog, ActsOnNamed
<1> QED BY <1>2, <1>3 DEF Given

\* Such a key keeps the invariant.
LEMMA ScreenKeeps ==
    ASSUME IInv, KeyDone, UNCHANGED jobs,
           UiOk(ui'), ui'.inFlight = ui.inFlight, ui'.pending = ui.pending,
           Named', last' \in [named: Dialog, given: Dialog]
    PROVE  IInv'
<1>1. Forward' /\ w' \in Store
  BY ForwardKept DEF KeyDone
<1>2. UiOk(ui)' /\ Counted'
  BY DEF IInv, KeyDone, Counted
<1>3. Drawn'
  BY DEF KeyDone, Drawn
<1>4. TypeOK'
  BY <1>1, <1>2 DEF IInv, TypeOK, KeyDone, UiOk
<1> QED BY <1>1, <1>2, <1>3, <1>4 DEF IInv

LEMMA KeyKeeps ==
    ASSUME IInv, KeyDone, Given, Like(ui', ui), UNCHANGED jobs
    PROVE  IInv'
  BY NamedKept, ScreenKeeps DEF Like

\* dispatch_in_background
LEMMA BackgroundKeeps ==
    ASSUME IInv, KeyDone, NEW u, Like(u, ui), NEW c \in Command, InBackground(c, u)
    PROVE  IInv'
<1>1. Forward' /\ w' \in Store
  BY ForwardKept DEF KeyDone
<1>2. PICK p \in Nat : p = u.pending
  BY UiFields DEF Like
<1>3. ui' = [u EXCEPT !.pending = p + 1]
  BY <1>2 DEF InBackground
<1>4. /\ UiOk(ui') /\ ui'.pending = ui.pending + 1 /\ ui'.inFlight = ui.inFlight
      /\ ui'.mode = u.mode
  BY <1>2, <1>3 DEF Like, UiOk, UiState
<1>5. jobs' = Append(jobs, [at |-> "run", cmd |-> c]) /\ jobs \in Seq(JobThread)
  BY DEF InBackground, IInv, TypeOK, JobThread
<1>6. [at |-> "run", cmd |-> c] \in JobThread
  BY DEF JobThread
<1>7. jobs' \in Seq(JobThread) /\ Len(jobs') = Len(jobs) + 1
  BY <1>5, <1>6, AppendProperties
<1>8. Counted'
  BY <1>4, <1>7 DEF IInv, Counted, KeyDone
<1>9. Drawn'
  BY DEF KeyDone, Drawn
<1>10. TypeOK'
  BY <1>1, <1>4, <1>7 DEF IInv, TypeOK, KeyDone, InBackground, UiOk, JobThread
<1>11. Named'
  BY <1>4, NamedKept DEF InBackground, Given, SameDialog, Like
<1> QED BY <1>1, <1>4, <1>8, <1>9, <1>10, <1>11 DEF IInv

-----------------------------------------------------------------------------
(* Keys *)

\* The parts of a key.
LEMMA PressDone ==
    ASSUME IInv, NEW to \in {"turn", "off"}, Press(to)
    PROVE  /\ pc' \in {"turn", "off"} /\ keys' \in 0 .. MaxKeys
           /\ UNCHANGED <<snap, reads, errors>>
<1>1. keys \in Nat /\ MaxKeys \in Nat
  BY BoundsNatural DEF IInv, TypeOK
<1> QED BY <1>1 DEF Press, IInv, TypeOK

\* A key that changes the screen only.
LEMMA OnlyUiKeeps ==
    ASSUME IInv, NEW to \in {"turn", "off"}, Press(to), NEW u, OnlyUi(u), Like(u, ui)
    PROVE  IInv'
<1>1. KeyDone
  BY PressDone DEF OnlyUi, KeyDone, Moves, IInv, TypeOK
<1>2. UNCHANGED jobs /\ ui' = u /\ Given
  BY DEF OnlyUi, Given
<1> QED BY <1>1, <1>2, KeyKeeps

\* refresh_team_dashboard_data
LEMMA LoadTyped == \A s \in Store : LoadTeams(s) \in Loaded
  BY DEF Store, LoadTeams, Loaded

\* After a command the teams are loaded again, or not.
LEMMA SettledLike ==
    ASSUME IInv, Moves, NEW u, Like(u, ui), NEW reload, Settled(u, reload)
    PROVE  Like(ui', ui) /\ teams' \in Loaded
<1>1. w' \in Store
  BY DEF Moves, Changed, IInv, TypeOK
<1>2. teams \in Loaded /\ snap \in Store /\ UiOk(u)
  BY DEF IInv, TypeOK, Like
<1>3. CASE reload
  <2>1. teams' = LoadTeams(w') /\ ui' = Preserved(u, teams, LoadTeams(w'))
    BY <1>3 DEF Settled, Reloaded
  <2>2. LoadTeams(w') \in Loaded
    BY <1>1, LoadTyped
  <2>3. Like(Preserved(u, teams, LoadTeams(w')), u)
    BY <1>2, <2>2, PreservedOk
  <2> QED BY <2>1, <2>2, <2>3 DEF Like, SameDialog
<1>4. CASE ~reload
  BY <1>2, <1>4 DEF Settled
<1> QED BY <1>3, <1>4

\* A command that succeeds.
LEMMA SucceedsKeeps ==
    ASSUME IInv, Press("turn"), NEW c, NEW u, Like(u, ui), NEW reload, Succeeds(c, u, reload),
           Given
    PROVE  IInv'
<1>1. Moves
  BY PossibleTyped DEF Succeeds, Moves, IInv, TypeOK
<1>2. Like([u EXCEPT !.time = "none"], ui)
  BY TimeOk DEF Like, SameDialog
<1>3. Like(ui', ui) /\ teams' \in Loaded
  BY <1>1, <1>2, SettledLike DEF Succeeds
<1>4. bell' \in [unseen: BOOLEAN, trigger: BOOLEAN] /\ UNCHANGED jobs
  BY DEF Succeeds, IInv, TypeOK
<1>5. KeyDone
  BY <1>1, <1>3, <1>4, PressDone DEF KeyDone
<1> QED BY <1>3, <1>4, <1>5, KeyKeeps

\* A command that fails.
LEMMA FailsKeeps ==
    ASSUME IInv, Press("turn"), NEW u, Like(u, ui), NEW reload, Fails(u, reload),
           Given
    PROVE  IInv'
<1>1. Moves /\ UNCHANGED <<bell, jobs>>
  BY DEF Fails, Moves
<1>2. Like(ui', ui) /\ teams' \in Loaded
  BY <1>1, SettledLike DEF Fails
<1>3. KeyDone
  BY <1>1, <1>2, PressDone DEF KeyDone, IInv, TypeOK
<1> QED BY <1>1, <1>2, <1>3, KeyKeeps

\* Whether something could be read is yes or no.
LEMMA OutcomesTyped ==
    ASSUME NEW x, NEW ok \in LogOutcomes(x) \cup TermOutcomes(x)
    PROVE  ok \in BOOLEAN
  BY DEF LogOutcomes, TermOutcomes

\* The screen between two steps.
LEMMA Itself == IInv => Like(ui, ui) /\ UiOk(ui)
  BY DEF IInv, Like, SameDialog

\* Key by key, the invariant is kept.
LEMMA MoveFocusKeeps == IInv /\ MoveFocus => IInv'
<1> SUFFICES ASSUME IInv, MoveFocus PROVE IInv'
  OBVIOUS
<1>1. PICK f \in Around(ui.focus) : OnlyUi([ui EXCEPT !.focus = f])
  BY DEF MoveFocus
<1>2. f \in Focuses
  <2>1. ui.focus \in Focuses
    BY Itself, UiFields
  <2> QED BY <2>1 DEF Around, Focuses
<1>3. Like([ui EXCEPT !.focus = f], ui)
  BY <1>2, Itself, FocusOk
<1> QED BY <1>1, <1>3, OnlyUiKeeps DEF MoveFocus, Key

LEMMA MoveSelectionKeeps == IInv /\ MoveSelection => IInv'
<1> SUFFICES ASSUME IInv, MoveSelection PROVE IInv'
  OBVIOUS
<1>0. ui.selected \in [Lists -> Nat] /\ UiOk(ui) /\ snap \in Store /\ teams \in Loaded
  BY Itself, UiFields DEF IInv, TypeOK
<1>1. PICK l \in ListsOf(ui.focus) :
         \E i \in {ui.selected[l] + 1, ui.selected[l] - 1} \cap 0 .. Count(l, snap, teams, ui) :
            OnlyUi(Clamped([ui EXCEPT !.selected[l] = i,
                                      !.selected["card"] = IF l = "team" THEN 0
                                                           ELSE IF l = "card" THEN i ELSE @],
                           snap, teams))
  BY DEF MoveSelection
<1>2. l \in Lists
  BY DEF ListsOf, Lists
<1>3. PICK i \in {ui.selected[l] + 1, ui.selected[l] - 1} \cap 0 .. Count(l, snap, teams, ui) :
            OnlyUi(Clamped([ui EXCEPT !.selected[l] = i,
                                      !.selected["card"] = IF l = "team" THEN 0
                                                           ELSE IF l = "card" THEN i ELSE @],
                           snap, teams))
  BY <1>1
<1>4. i \in Nat
  BY <1>0, <1>2, <1>3, CountTyped
<1>5. PICK v : v = [ui EXCEPT !.selected[l] = i]
  OBVIOUS
<1>6. PICK j : j = IF l = "team" THEN 0 ELSE IF l = "card" THEN i ELSE v.selected["card"]
  OBVIOUS
<1>7. Like(v, ui)
  BY <1>0, <1>2, <1>4, <1>5, CursorOk
<1>8. j \in Nat
  BY <1>4, <1>6, <1>7, UiFields DEF Like, Lists
<1>9. PICK x : x = [v EXCEPT !.selected["card"] = j]
  OBVIOUS
<1>10. Like(x, v)
  BY <1>7, <1>8, <1>9, CursorOk DEF Like, Lists
<1>11. Like(Clamped(x, snap, teams), x)
  BY <1>0, <1>10, ClampedOk DEF Like
<1>12. OnlyUi(Clamped(x, snap, teams))
  BY <1>3, <1>5, <1>6, <1>9
<1>13. Like(Clamped(x, snap, teams), ui)
  BY <1>7, <1>10, <1>11 DEF Like, SameDialog
<1> QED BY <1>12, <1>13, OnlyUiKeeps DEF MoveSelection, Key

LEMMA ScrollKeeps == IInv /\ (Scroll \/ Quit \/ Interact) => IInv'
<1> SUFFICES ASSUME IInv, Scroll \/ Quit \/ Interact PROVE IInv'
  OBVIOUS
<1>1. CASE Scroll
  <2>1. PICK b \in BOOLEAN : OnlyUi([ui EXCEPT !.follow = b])
    BY <1>1 DEF Scroll
  <2>2. Like([ui EXCEPT !.follow = b], ui)
    BY Itself, FollowOk
  <2> QED BY <1>1, <2>1, <2>2, OnlyUiKeeps DEF Scroll, Key
<1>2. CASE Quit
  BY <1>2, Itself, OnlyUiKeeps DEF Quit
<1>3. CASE Interact
  <2>1. Like([ui EXCEPT !.input = TRUE], ui)
    BY <1>3, Itself, InputOk DEF Interact
  <2> QED BY <1>3, <2>1, OnlyUiKeeps DEF Interact, Key
<1> QED BY <1>1, <1>2, <1>3

LEMMA EscapeKeeps == IInv /\ Escape => IInv'
<1> SUFFICES ASSUME IInv, Escape PROVE IInv'
  OBVIOUS
<1>1. PICK u : /\ OnlyUi(u)
               /\ u = CASE ui.focus = "terminal" ->
                     [ui EXCEPT !.focus = "sessions", !.showTerm = FALSE, !.input = FALSE,
                                !.term = None, !.follow = TRUE]
                [] ui.focus = "dashboard" -> [ui EXCEPT !.focus = "slots"]
                [] OTHER -> [ui EXCEPT !.showLog = FALSE]
  BY DEF Escape
<1>2. Like([ui EXCEPT !.focus = "sessions", !.showTerm = FALSE, !.input = FALSE,
                      !.term = None, !.follow = TRUE], ui)
  <2>1. PICK v : v = [ui EXCEPT !.focus = "sessions", !.showTerm = FALSE, !.input = FALSE,
                                !.term = None, !.follow = TRUE]
    OBVIOUS
  <2>2. v \in UiState
    BY <2>1, Itself DEF UiOk, UiState, Focuses
  <2>3. /\ v.mode = ui.mode /\ ~v.showTerm /\ ~v.input
        /\ v.inFlight = ui.inFlight /\ v.pending = ui.pending
    BY <2>1, Itself DEF UiOk, UiState
  <2>4. Like(v, ui)
    BY <2>2, <2>3, Itself DEF Like, SameDialog, UiOk
  <2> QED BY <2>1, <2>4
<1>3. Like([ui EXCEPT !.focus = "slots"], ui)
  BY Itself, FocusOk DEF Focuses
<1>4. Like([ui EXCEPT !.showLog = FALSE], ui)
  BY Itself DEF Like, SameDialog, UiOk, UiState
<1>5. Like(u, ui)
  BY <1>1, <1>2, <1>3, <1>4
<1> QED BY <1>1, <1>5, OnlyUiKeeps DEF Escape, Key

LEMMA ToggleDashboardKeeps == IInv /\ ToggleDashboard => IInv'
<1> SUFFICES ASSUME IInv, ToggleDashboard PROVE IInv'
  OBVIOUS
<1>1. CASE ui.focus = "dashboard"
  <2>1. OnlyUi([ui EXCEPT !.focus = "slots"])
    BY <1>1 DEF ToggleDashboard
  <2>2. Like([ui EXCEPT !.focus = "slots"], ui)
    BY Itself, FocusOk DEF Focuses
  <2> QED BY <2>1, <2>2, OnlyUiKeeps DEF ToggleDashboard, Key
<1>2. CASE ui.focus # "dashboard"
  <2>1. /\ teams' = LoadTeams(w)
        /\ \E t \in {Preserved(ui, teams, teams').selected["team"]} \cup
                       0 .. Cardinality(w.teams) - 1 :
                ui' = [ui EXCEPT !.focus = "dashboard", !.selected["team"] = t]
        /\ UNCHANGED <<w, jobs, bell, last>>
    BY <1>2 DEF ToggleDashboard
  <2>2. teams' \in Loaded /\ teams \in Loaded /\ snap \in Store /\ UiOk(ui)
    BY <2>1, LoadTyped, Itself DEF IInv, TypeOK
  <2>3. UiOk(Preserved(ui, teams, teams'))
    BY <2>2, PreservedOk DEF Like
  <2>4. PICK t : /\ t \in {Preserved(ui, teams, teams').selected["team"]} \cup
                             0 .. Cardinality(w.teams) - 1
                 /\ ui' = [ui EXCEPT !.focus = "dashboard", !.selected["team"] = t]
    BY <2>1
  <2>5. t \in Nat
    <3>1. Preserved(ui, teams, teams').selected["team"] \in Nat
      BY <2>3, UiFields DEF Lists
    <3>2. \A n : n \in 0 .. Cardinality(w.teams) - 1 => n \in Nat
      OBVIOUS
    <3> QED BY <2>4, <3>1, <3>2
  <2>6. PICK v : v = [ui EXCEPT !.focus = "dashboard"]
    OBVIOUS
  <2>7. Like(v, ui)
    BY <2>2, <2>6, FocusOk DEF Focuses
  <2>8. ui' = [v EXCEPT !.selected["team"] = t]
    BY <2>4, <2>6
  <2>9. Like(ui', v)
    BY <2>5, <2>7, <2>8, CursorOk DEF Like, Lists
  <2>10. KeyDone
    BY <2>1, <2>2, PressDone DEF ToggleDashboard, Key, KeyDone, Moves, IInv, TypeOK
  <2>11. Like(ui', ui) /\ Given
    BY <2>1, <2>7, <2>9 DEF Like, SameDialog, Given
  <2> QED BY <2>1, <2>10, <2>11, KeyKeeps
<1> QED BY <1>1, <1>2

LEMMA OpenPromptKeeps == IInv /\ OpenPrompt => IInv'
<1> SUFFICES ASSUME IInv, OpenPrompt PROVE IInv'
  OBVIOUS
<1>1. PICK act \in Prompts : OnlyUi([ui EXCEPT !.mode = [act |-> act, on |-> None]])
  BY DEF OpenPrompt
<1>2. PICK m : m = [act |-> act, on |-> None]
  OBVIOUS
<1>3. m \in [act: Confirms \cup Prompts, on: Nat \cup {None}] /\ m.act \notin Confirms
  BY <1>2 DEF Prompts, Confirms
<1>4. Like([ui EXCEPT !.mode = m], ui)
  BY <1>3, Itself, ModeOk
<1> QED BY <1>1, <1>2, <1>4, OnlyUiKeeps DEF OpenPrompt, Key

LEMMA OpenDialogKeeps == IInv /\ OpenDialog => IInv'
<1> SUFFICES ASSUME IInv, OpenDialog PROVE IInv'
  OBVIOUS
<1>1. PICK act \in Confirms :
          LET m == [act |-> act, on |-> IF act = "delete" THEN CardSlot[SelectedTeam(ui, teams)]
                                        ELSE SelectedCard(ui)]
          IN  ui' = [ui EXCEPT !.mode = m] /\ last' = [named |-> m, given |-> Normal]
  BY DEF OpenDialog
<1>2. PICK on : on = IF act = "delete" THEN CardSlot[SelectedTeam(ui, teams)] ELSE SelectedCard(ui)
  OBVIOUS
<1>3. ui.selected \in [Lists -> Nat] /\ snap \in Store /\ teams \in Loaded
  BY Itself, UiFields DEF IInv, TypeOK
<1>4. SelectedTeam(ui, teams) \in TeamIds
  BY <1>3, SelectionTyped DEF OpenDialog
<1>5. SelectedTeam(ui, teams) \in Nat /\ CardSlot[SelectedTeam(ui, teams)] \in Nat
  BY <1>4, IdsTyped, CardsOfTeams
<1>6. ui.selected["card"] \in Nat
  BY <1>3 DEF Lists
<1>7. on \in Nat
  BY <1>2, <1>5, <1>6 DEF SelectedCard
<1>8. PICK m : m = [act |-> act, on |-> on]
  OBVIOUS
<1>9. m \in [act: Confirms, on: Nat] /\ ui' = [ui EXCEPT !.mode = m]
      /\ last' = [named |-> m, given |-> Normal]
  BY <1>1, <1>2, <1>7, <1>8
<1>10. /\ UiOk(ui') /\ ui'.mode = m
       /\ ui'.inFlight = ui.inFlight /\ ui'.pending = ui.pending
  BY <1>9, Itself DEF UiOk, UiState
<1>11. KeyDone /\ UNCHANGED jobs
  BY PressDone DEF OpenDialog, Key, KeyDone, Moves, IInv, TypeOK
<1>12. Named' /\ last' \in [named: Dialog, given: Dialog]
  BY <1>9, <1>10 DEF Named, ActsOnNamed, Dialog
<1> QED BY <1>10, <1>11, <1>12, ScreenKeeps

\* The dialog or prompt is closed.
LEMMA ClosedLike == IInv => Like([ui EXCEPT !.mode = Normal], ui)
  BY Itself, ModeOk, NormalApart

LEMMA CloseDialogKeeps == IInv /\ CloseDialog => IInv'
  BY ClosedLike, OnlyUiKeeps DEF CloseDialog

LEMMA SubmitPromptKeeps == IInv /\ SubmitPrompt => IInv'
<1> SUFFICES ASSUME IInv, SubmitPrompt PROVE IInv'
  OBVIOUS
<1>0. Press("turn") /\ Like([ui EXCEPT !.mode = Normal], ui)
  BY ClosedLike DEF SubmitPrompt
<1>1. CASE InBackground([act |-> "acquire", on |-> None], [ui EXCEPT !.mode = Normal])
  <2>1. [act |-> "acquire", on |-> None] \in Command
    BY DEF Command, Prompts
  <2>2. KeyDone
    BY <1>0, <1>1, PressDone DEF InBackground, KeyDone, Moves, IInv, TypeOK
  <2> QED BY <1>0, <1>1, <2>1, <2>2, BackgroundKeeps
<1>2. CASE OnlyUi([ui EXCEPT !.mode = Normal])
  BY <1>0, <1>2, OnlyUiKeeps
<1>3. CASE /\ w' \in Possible([act |-> "start", on |-> SelectedSlot(ui)]) \cup {w}
           /\ bell' = [bell EXCEPT !.unseen = @ \/ w' # w]
           /\ LET all == SessionsOf(w')
                  u == [ui EXCEPT !.mode = Normal, !.time = IF w' = w THEN @ ELSE "none"]
                  oldest == NthNewest(all, Cardinality(all) - 1)
                  readable == IF oldest \in Embedded \ w'.live THEN {FALSE} ELSE BOOLEAN
              IN  ui' \in IF all = {} THEN {u} ELSE {Opened(u, oldest, ok) : ok \in readable}
           /\ UNCHANGED <<teams, jobs, last>>
  <2>1. Moves /\ w' \in Store
    BY <1>3, PossibleTyped DEF Moves, Changed, IInv, TypeOK
  <2>2. PICK n \in BOOLEAN : n = (w' # w)
    OBVIOUS
  <2>3. bell' \in [unseen: BOOLEAN, trigger: BOOLEAN]
    <3>1. PICK b \in BOOLEAN : b = (bell.unseen \/ n)
      OBVIOUS
    <3>2. bell' = [bell EXCEPT !.unseen = b]
      BY <1>3, <2>2, <3>1
    <3> QED BY <3>2 DEF IInv, TypeOK
  <2>4. PICK v : v = [ui EXCEPT !.mode = Normal]
    OBVIOUS
  <2>5. PICK t : t = IF w' = w THEN v.time ELSE "none"
    OBVIOUS
  <2>6. UiOk(v) /\ v.time = ui.time
    BY <1>0, <2>4 DEF Like, UiOk, UiState
  <2>7. t \in {"none", "fresh", "old"}
    BY <2>5, <2>6, UiFields
  <2>8. PICK u : u = [v EXCEPT !.time = t]
    OBVIOUS
  <2>9. Like(u, ui)
    BY <1>0, <2>4, <2>6, <2>7, <2>8, TimeOk, ZenonT(60) DEF Like, SameDialog
  <2>10. [ui EXCEPT !.mode = Normal, !.time = IF w' = w THEN @ ELSE "none"] = u
    BY <2>4, <2>5, <2>6, <2>8
  <2>11. PICK all : all = SessionsOf(w')
    OBVIOUS
  <2>12. CASE all = {}
    <3>1. ui' = u
      BY <1>3, <2>10, <2>11, <2>12
    <3>2. KeyDone
      BY <1>0, <1>3, <2>1, <2>3, PressDone DEF KeyDone, IInv, TypeOK
    <3> QED BY <1>3, <2>9, <3>1, <3>2, KeyKeeps DEF Given
  <2>13. CASE all # {}
    <3>1. PICK oldest : oldest = NthNewest(all, Cardinality(all) - 1)
      OBVIOUS
    <3>2. oldest \in all
      <4>1. IsFiniteSet(all) /\ Cardinality(all) \in Nat /\ all \subseteq Nat
        BY <2>1, <2>11, ListsFinite, LoadTyped
      <4>2. Cardinality(all) # 0
        BY <2>13, <4>1, FS_EmptySet
      <4>3. Cardinality(all) - 1 \in Nat /\ Cardinality(all) - 1 < Cardinality(all)
        BY <4>1, <4>2
      <4> QED BY <3>1, <4>1, <4>3, NthNewestIn
    <3>3. oldest \in SessionIds
      BY <2>1, <2>11, <3>2 DEF Store, SessionsOf
    <3>4. PICK ok \in BOOLEAN : ui' = Opened(u, oldest, ok)
      BY <1>3, <2>10, <2>11, <2>13, <3>1
    <3>5. Like(ui', ui)
      BY <2>9, <3>3, <3>4, SurfaceOpened DEF Like, SameDialog
    <3>6. KeyDone
      BY <1>0, <1>3, <2>1, <2>3, PressDone DEF KeyDone, IInv, TypeOK
    <3> QED BY <1>3, <3>5, <3>6, KeyKeeps DEF Given
  <2> QED BY <2>12, <2>13
<1> QED BY <1>1, <1>2, <1>3 DEF SubmitPrompt

LEMMA SubmitDialogKeeps == IInv /\ SubmitDialog => IInv'
<1> SUFFICES ASSUME IInv, SubmitDialog PROVE IInv'
  OBVIOUS
<1>1. Press("turn") /\ Given
  BY DEF SubmitDialog, Given
<1>2. Like([ui EXCEPT !.mode = Normal], ui) /\ Like(ui, ui)
  BY ClosedLike, Itself
<1>3. CASE Succeeds(ui.mode, [ui EXCEPT !.mode = Normal], TRUE)
  BY <1>1, <1>2, <1>3, SucceedsKeeps
<1>4. CASE Fails([ui EXCEPT !.mode = Normal], TRUE)
  BY <1>1, <1>2, <1>4, FailsKeeps
<1>5. CASE Fails(ui, FALSE)
  BY <1>1, <1>2, <1>5, FailsKeeps
<1> QED BY <1>3, <1>4, <1>5 DEF SubmitDialog

LEMMA CancelSessionKeeps == IInv /\ CancelSession => IInv'
<1> SUFFICES ASSUME IInv, CancelSession PROVE IInv'
  OBVIOUS
<1>1. Press("turn") /\ Like(ui, ui) /\ Given
  BY Itself DEF CancelSession, Key, Given
<1>2. PICK c : Succeeds(c, ui, FALSE) \/ Fails(ui, FALSE)
  BY DEF CancelSession
<1> QED BY <1>1, <1>2, SucceedsKeeps, FailsKeeps

LEMMA RefreshKeeps == IInv /\ Refresh => IInv'
<1> SUFFICES ASSUME IInv, Refresh PROVE IInv'
  OBVIOUS
<1>1. Press("turn") /\ Like(ui, ui) /\ Given
  BY Itself DEF Refresh, Key, Given
<1>2. PICK reload \in BOOLEAN : \E c : Succeeds(c, ui, reload) \/ Fails(ui, reload)
  BY DEF Refresh
<1>3. PICK c : Succeeds(c, ui, reload) \/ Fails(ui, reload)
  BY <1>2
<1> QED BY <1>1, <1>3, SucceedsKeeps, FailsKeeps

LEMMA ReleaseSlotKeeps == IInv /\ ReleaseSlot => IInv'
<1> SUFFICES ASSUME IInv, ReleaseSlot PROVE IInv'
  OBVIOUS
<1>1. ui.selected \in [Lists -> Nat] /\ snap \in Store /\ teams \in Loaded
  BY Itself, UiFields DEF IInv, TypeOK
<1>2. ASSUME NEW s \in SlotIds, InBackground([act |-> "release", on |-> s], ui)
      PROVE  IInv'
  <2>1. [act |-> "release", on |-> s] \in Command
    BY IdsTyped DEF Command
  <2>2. KeyDone
    BY <1>2, PressDone DEF ReleaseSlot, Key, InBackground, KeyDone, Moves, IInv, TypeOK
  <2> QED BY <1>2, <2>1, <2>2, Itself, BackgroundKeeps
<1>3. Has("card", snap, teams, ui) => CardSlot[SelectedTeam(ui, teams)] \in SlotIds
  BY <1>1, SelectionTyped, CardsOfTeams
<1>4. Has("slots", snap, teams, ui) => SelectedSlot(ui) \in SlotIds
  BY <1>1, SelectionTyped DEF SelectedSlot
<1> QED BY <1>2, <1>3, <1>4 DEF ReleaseSlot

LEMMA StartTaskKeeps == IInv /\ StartTask => IInv'
<1> SUFFICES ASSUME IInv, StartTask PROVE IInv'
  OBVIOUS
<1>1. Moves /\ w' \in Store
  BY PossibleTyped DEF StartTask, Moves, Changed, IInv, TypeOK
<1>2. bell' \in [unseen: BOOLEAN, trigger: BOOLEAN]
  <2>1. PICK b \in BOOLEAN : b = (bell.unseen \/ w' # w)
    OBVIOUS
  <2>2. bell' = [bell EXCEPT !.unseen = b]
    BY <2>1 DEF StartTask
  <2> QED BY <2>2 DEF IInv, TypeOK
<1>3. SessionsOf(w') \subseteq SessionIds
  BY <1>1 DEF Store, SessionsOf
<1>4. PICK reload \in BOOLEAN :
         \/ Settled(ui, reload)
         \/ \E x \in SessionsOf(w') \ SessionsOf(w), ok \in BOOLEAN :
               Settled(Opened(ui, x, ok), reload)
  BY DEF StartTask
<1>5. PICK u : Like(u, ui) /\ Settled(u, reload)
  BY <1>3, <1>4, Itself, SurfaceOpened
<1>6. Like(ui', ui) /\ teams' \in Loaded
  BY <1>1, <1>5, SettledLike
<1>7. KeyDone
  BY <1>1, <1>2, <1>6, PressDone DEF StartTask, Key, KeyDone, IInv, TypeOK
<1> QED BY <1>6, <1>7, KeyKeeps DEF StartTask, Given

LEMMA OpenLogKeeps == IInv /\ OpenLog => IInv'
<1> SUFFICES ASSUME IInv, OpenLog PROVE IInv'
  OBVIOUS
<1>1. Press("turn") /\ UiOk(ui) /\ ui.selected \in [Lists -> Nat] /\ snap \in Store
      /\ teams \in Loaded
  BY Itself, UiFields DEF OpenLog, Key, IInv, TypeOK
<1>2. CASE /\ Has("sessions", snap, teams, ui)
           /\ \E ok \in LogOutcomes(SelectedSession(ui)) :
                OnlyUi(FetchedLog(ui, SelectedSession(ui), ok))
  <2>1. PICK ok \in LogOutcomes(SelectedSession(ui)) :
           OnlyUi(FetchedLog(ui, SelectedSession(ui), ok))
    BY <1>2
  <2>2. SelectedSession(ui) \in SessionIds /\ ok \in BOOLEAN
    BY <1>1, <1>2, SelectionTyped, OutcomesTyped DEF SelectedSession
  <2>3. Like(FetchedLog(ui, SelectedSession(ui), ok), ui)
    BY <1>1, <2>2, LogFetched
  <2> QED BY <1>1, <2>1, <2>3, OnlyUiKeeps
<1>3. CASE \E x \in {ui.term, None} : \E ok \in LogOutcomes(ui.term) :
              OnlyUi([FetchedLog(ui, x, ok) EXCEPT !.focus = "sessions"])
  <2>1. PICK x \in {ui.term, None}, ok \in LogOutcomes(ui.term) :
           OnlyUi([FetchedLog(ui, x, ok) EXCEPT !.focus = "sessions"])
    BY <1>3
  <2>2. x \in SessionIds \cup {None} /\ ok \in BOOLEAN
    BY <1>1, UiFields, OutcomesTyped
  <2>3. PICK v : v = FetchedLog(ui, x, ok)
    OBVIOUS
  <2>4. Like(v, ui)
    BY <1>1, <2>2, <2>3, LogFetched
  <2>5. Like([v EXCEPT !.focus = "sessions"], ui)
    BY <2>4, FocusOk DEF Like, SameDialog, Focuses
  <2>6. OnlyUi([v EXCEPT !.focus = "sessions"])
    BY <2>1, <2>3
  <2> QED BY <1>1, <2>5, <2>6, OnlyUiKeeps
<1>4. CASE \E x \in SessionIds \cup {None} : \E ok \in {x = None} \cup LogOutcomes(x) :
              OnlyUi(FetchedLog(ui, x, ok))
  <2>0. PICK x \in SessionIds \cup {None} :
           \E ok \in {x = None} \cup LogOutcomes(x) : OnlyUi(FetchedLog(ui, x, ok))
    BY <1>4
  <2>1. PICK ok \in {x = None} \cup LogOutcomes(x) : OnlyUi(FetchedLog(ui, x, ok))
    BY <2>0
  <2>2. ok \in BOOLEAN
    <3>1. (x = None) \in BOOLEAN
      OBVIOUS
    <3>2. ok = (x = None) \/ ok \in LogOutcomes(x)
      BY Zenon
    <3> QED BY <3>1, <3>2, OutcomesTyped, Zenon
  <2>3. Like(FetchedLog(ui, x, ok), ui)
    BY <1>1, <2>2, LogFetched
  <2> QED BY <1>1, <2>1, <2>3, OnlyUiKeeps
<1> QED BY <1>2, <1>3, <1>4 DEF OpenLog

LEMMA OpenTerminalKeeps == IInv /\ OpenTerminal => IInv'
<1> SUFFICES ASSUME IInv, OpenTerminal PROVE IInv'
  OBVIOUS
<1>1. Press("turn") /\ UiOk(ui) /\ ui.selected \in [Lists -> Nat] /\ snap \in Store
      /\ teams \in Loaded
  BY Itself, UiFields DEF OpenTerminal, Key, IInv, TypeOK
<1>2. CASE /\ Has("sessions", snap, teams, ui)
           /\ \E ok \in TermOutcomes(SelectedSession(ui)) :
                OnlyUi([FetchedTerm(ui, SelectedSession(ui), ok)
                           EXCEPT !.focus = "terminal", !.follow = TRUE])
  <2>1. PICK ok \in TermOutcomes(SelectedSession(ui)) :
                OnlyUi([FetchedTerm(ui, SelectedSession(ui), ok)
                           EXCEPT !.focus = "terminal", !.follow = TRUE])
    BY <1>2
  <2>2. SelectedSession(ui) \in SessionIds /\ ok \in BOOLEAN
    BY <1>1, <1>2, SelectionTyped, OutcomesTyped DEF SelectedSession
  <2>3. PICK v : v = FetchedTerm(ui, SelectedSession(ui), ok)
    OBVIOUS
  <2>4. Like(v, ui)
    BY <1>1, <2>2, <2>3, TermFetched
  <2>5. PICK x : x = [v EXCEPT !.focus = "terminal"]
    OBVIOUS
  <2>6. Like(x, v)
    BY <2>4, <2>5, FocusOk DEF Like, Focuses
  <2>7. Like([x EXCEPT !.follow = TRUE], ui)
    BY <2>4, <2>6, FollowOk DEF Like, SameDialog
  <2>8. OnlyUi([x EXCEPT !.follow = TRUE])
    BY <2>1, <2>3, <2>5
  <2> QED BY <1>1, <2>7, <2>8, OnlyUiKeeps
<1>3. CASE \E x \in SessionsOf(snap) : \E ok \in LogOutcomes(x) :
                OnlyUi(Opened(ui, x, ok /\ (x \in Embedded => x \in w.live)))
  <2>0. PICK x \in SessionsOf(snap) : \E ok \in LogOutcomes(x) :
                OnlyUi(Opened(ui, x, ok /\ (x \in Embedded => x \in w.live)))
    BY <1>3
  <2>1. PICK ok \in LogOutcomes(x) :
                OnlyUi(Opened(ui, x, ok /\ (x \in Embedded => x \in w.live)))
    BY <2>0
  <2>2. x \in SessionIds
    BY <1>1 DEF Store, SessionsOf
  <2>3. PICK b \in BOOLEAN : b = (ok /\ (x \in Embedded => x \in w.live))
    OBVIOUS
  <2>4. Like(Opened(ui, x, b), ui)
    BY <1>1, <2>2, <2>3, SurfaceOpened
  <2>5. OnlyUi(Opened(ui, x, b))
    BY <2>1, <2>3, Zenon
  <2> QED BY <1>1, <2>4, <2>5, OnlyUiKeeps
<1>4. CASE /\ ui.term # None
           /\ \E ok \in TermOutcomes(ui.term) :
                OnlyUi(FetchedTerm([ui EXCEPT !.follow = TRUE], ui.term, ok))
  <2>1. PICK ok \in TermOutcomes(ui.term) :
                OnlyUi(FetchedTerm([ui EXCEPT !.follow = TRUE], ui.term, ok))
    BY <1>4
  <2>2. ui.term \in SessionIds /\ ok \in BOOLEAN
    BY <1>1, <1>4, UiFields, OutcomesTyped
  <2>3. Like([ui EXCEPT !.follow = TRUE], ui)
    BY <1>1, FollowOk
  <2>4. Like(FetchedTerm([ui EXCEPT !.follow = TRUE], ui.term, ok), ui)
    BY <2>2, <2>3, TermFetched DEF Like, SameDialog
  <2> QED BY <1>1, <2>1, <2>4, OnlyUiKeeps
<1> QED BY <1>2, <1>3, <1>4 DEF OpenTerminal

LEMMA TypeKeyKeeps == IInv /\ TypeKey => IInv'
<1> SUFFICES ASSUME IInv, TypeKey PROVE IInv'
  OBVIOUS
<1>1. Press("turn") /\ UiOk(ui) /\ ui.input
  BY Itself DEF TypeKey
<1>2. CASE OnlyUi([ui EXCEPT !.input = FALSE])
  BY <1>1, <1>2, InputOk, OnlyUiKeeps
<1>3. CASE \E ok \in TermOutcomes(ui.term) :
             OnlyUi(IF ok THEN FetchedTerm(ui, ui.term, ok) ELSE ui)
  <2>1. PICK ok \in TermOutcomes(ui.term) :
             OnlyUi(IF ok THEN FetchedTerm(ui, ui.term, ok) ELSE ui)
    BY <1>3
  <2>2. ok \in BOOLEAN /\ ui.term \in SessionIds
    BY <1>1, UiFields, OutcomesTyped DEF UiOk
  <2>3. Like(FetchedTerm(ui, ui.term, ok), ui) /\ Like(ui, ui)
    BY <1>1, <2>2, TermFetched, Itself
  <2>4. PICK u : u = IF ok THEN FetchedTerm(ui, ui.term, ok) ELSE ui
    OBVIOUS
  <2>5. OnlyUi(u) /\ Like(u, ui)
    BY <2>1, <2>3, <2>4
  <2> QED BY <1>1, <2>5, OnlyUiKeeps
<1> QED BY <1>2, <1>3 DEF TypeKey

\* All keys together.
LEMMA HandleKeeps == IInv /\ Handle => IInv'
  BY MoveFocusKeeps, MoveSelectionKeeps, ScrollKeeps, EscapeKeeps, ToggleDashboardKeeps,
     OpenPromptKeeps, OpenDialogKeeps, CloseDialogKeeps, SubmitPromptKeeps, SubmitDialogKeeps,
     CancelSessionKeeps, ReleaseSlotKeeps, RefreshKeeps, StartTaskKeeps, OpenLogKeeps,
     OpenTerminalKeeps, TypeKeyKeeps DEF Handle

-----------------------------------------------------------------------------
(* The turn of the loop *)

\* After the results of background commands the status line counts the rest.
LEMMA JobsTaken ==
    ASSUME IInv
    PROVE  /\ UiOk(AfterJobs(ui)) /\ AfterJobs(ui).pending = Len(Away(jobs))
           /\ AfterJobs(ui).inFlight = ui.inFlight /\ AfterJobs(ui).selected = ui.selected
           /\ AfterJobs(ui).mode = ui.mode
           /\ Away(jobs) \in Seq(JobThread)
<1>1. PICK n \in Nat, p \in Nat :
         n = Cardinality(Back(jobs)) /\ p = Len(Away(jobs)) /\ Len(jobs) = p + n
  <2>1. jobs \in Seq(JobThread)
    BY Threads
  <2>2. /\ Away(jobs) \in Seq(JobThread) /\ Cardinality(Back(jobs)) \in Nat
        /\ Len(Away(jobs)) = Len(jobs) - Cardinality(Back(jobs))
    BY <2>1, AwayTyped
  <2>3. Len(jobs) \in Nat /\ Len(Away(jobs)) \in Nat
    BY <2>1, <2>2, LenProperties
  <2> QED BY <2>2, <2>3
<1>2. Away(jobs) \in Seq(JobThread)
  BY Threads, AwayTyped
<1>3. ui.pending = p + n /\ UiOk(ui)
  BY <1>1 DEF IInv, Counted
<1>4. CASE Back(jobs) = {}
  <2>1. n = 0
    BY <1>1, <1>4, FS_EmptySet
  <2> QED BY <1>1, <1>2, <1>3, <1>4, <2>1 DEF AfterJobs
<1>5. CASE Back(jobs) # {}
  <2>1. PICK x : x = [ui EXCEPT !.pending = p, !.time = "none"]
    OBVIOUS
  <2>2. AfterJobs(ui) = x
    <3>1. ui.pending - Cardinality(Back(jobs)) = p
      BY <1>1, <1>3
    <3> QED BY <1>5, <2>1, <3>1 DEF AfterJobs
  <2>3. x \in UiState
    BY <1>3, <2>1 DEF UiOk, UiState
  <2>4. /\ x.mode = ui.mode /\ x.showLog = ui.showLog /\ x.showTerm = ui.showTerm
        /\ x.term = ui.term /\ x.input = ui.input /\ x.inFlight = ui.inFlight
        /\ x.selected = ui.selected /\ x.pending = p
    BY <1>3, <2>1 DEF UiOk, UiState
  <2>5. UiOk(x)
    BY <1>3, <2>3, <2>4 DEF UiOk
  <2> QED BY <1>1, <1>2, <2>2, <2>4, <2>5
<1> QED BY <1>4, <1>5

\* The flag of the snapshot on its way.
LEMMA FlightOk ==
    ASSUME NEW u, UiOk(u), NEW b \in BOOLEAN
    PROVE  /\ UiOk([u EXCEPT !.inFlight = b]) /\ [u EXCEPT !.inFlight = b].inFlight = b
           /\ [u EXCEPT !.inFlight = b].pending = u.pending
           /\ [u EXCEPT !.inFlight = b].selected = u.selected
           /\ [u EXCEPT !.inFlight = b].mode = u.mode
  BY DEF UiOk, UiState

\* No snapshot is on its way, or one, whose result has come or has not.
LEMMA OneRead ==
    ASSUME IInv
    PROVE  /\ Away(reads) \in Seq(ReadThread)
           /\ Results = {} => Len(Away(reads)) = IF ui.inFlight THEN 1 ELSE 0
           /\ Results # {} => /\ Results = {1} /\ Result = reads[1] /\ reads[1] \in ReadThread
                              /\ 1 \in 1..Len(reads) /\ Len(Away(reads)) = 0
<1>1. PICK k \in 0..1 : k = Len(reads)
  BY Threads
<1>2. Away(reads) \in Seq(ReadThread) /\ Len(Away(reads)) = k - Cardinality(Results)
  BY <1>1, Threads, AwayTyped DEF Results
<1>3. Results \subseteq 1..k
  BY <1>1, Threads, LenProperties DEF Results, Back
<1>4. CASE Results = {}
  <2>1. Cardinality(Results) = 0
    BY <1>4, FS_EmptySet
  <2> QED BY <1>1, <1>2, <1>4, <2>1 DEF IInv, Counted
<1>5. CASE Results # {}
  <2>1. k = 1 /\ Results = {1}
    <3>0. PICK e : e \in Results
      BY <1>5
    <3>1. k # 0
      BY <1>3, <3>0
    <3>2. k = 1 /\ \A i \in 1..k : i = 1
      BY <3>1
    <3> QED BY <1>3, <1>5, <3>2
  <2>2. Cardinality(Results) = 1
    BY <2>1, FS_Singleton
  <2>3. (CHOOSE i \in Results : \A j \in Results : j <= i) = 1
    BY <2>1
  <2>4. Result = reads[1]
    BY <2>3 DEF Result
  <2>5. reads[1] \in ReadThread
    BY <1>1, <2>1, Threads
  <2> QED BY <1>1, <1>2, <1>5, <2>1, <2>2, <2>4, <2>5
<1> QED BY <1>4, <1>5

\* After its result the flag says whether a snapshot is still on its way.
LEMMA ReadTaken ==
    ASSUME IInv, NEW x, UiOk(x), x.inFlight = ui.inFlight
    PROVE  /\ UiOk(AfterRead(x)) /\ AfterRead(x).pending = x.pending
           /\ SameDialog(AfterRead(x), x)
           /\ Len(Away(reads)) = IF AfterRead(x).inFlight THEN 1 ELSE 0
           /\ ~Arrived => AfterRead(x).selected = x.selected
           /\ Arrived => AfterRead(x).selected = Preserved(x, teams, Result.teams).selected
<1>1. CASE Results = {}
  BY <1>1, OneRead DEF AfterRead, Arrived, SameDialog
<1>2. CASE Results # {} /\ ~Arrived
  <2>1. AfterRead(x) = [x EXCEPT !.inFlight = FALSE]
    BY <1>2 DEF AfterRead
  <2> QED BY <1>2, <2>1, FlightOk, OneRead DEF SameDialog
<1>3. CASE Results # {} /\ Arrived
  <2>1. teams \in Loaded /\ Result.teams \in Loaded /\ snap \in Store
    BY <1>3, OneRead DEF ReadThread, IInv, TypeOK
  <2>2. PICK y : y = Preserved(x, teams, Result.teams)
    OBVIOUS
  <2>3. UiOk(y) /\ y.pending = x.pending /\ SameDialog(y, x)
    BY <2>1, <2>2, PreservedOk DEF Like
  <2>4. PICK z : z = [y EXCEPT !.inFlight = FALSE]
    OBVIOUS
  <2>5. /\ UiOk(z) /\ z.pending = x.pending /\ ~z.inFlight /\ z.selected = y.selected
        /\ z.mode = y.mode
    BY <2>3, <2>4, FlightOk
  <2>6. AfterRead(x) = [z EXCEPT !.time = "fresh"]
    BY <1>3, <2>2, <2>4 DEF AfterRead
  <2>7. Like([z EXCEPT !.time = "fresh"], z) /\ [z EXCEPT !.time = "fresh"].selected = z.selected
    BY <2>5, TimeOk DEF UiOk, UiState
  <2> QED BY <1>3, <2>2, <2>3, <2>5, <2>6, <2>7, OneRead DEF Like, SameDialog
<1> QED BY <1>1, <1>2, <1>3 DEF Arrived

\* The dashboard's cursor is on the place its team has now.
TeamKept ==
    Has("team", snap, teams, ui) /\ SelectedTeam(ui, teams) \in teams'.teams =>
       ui'.selected["team"] = Cardinality(Below(teams'.teams, SelectedTeam(ui, teams)))

\* Which team a cursor is on, and where it goes, depend on the cursor alone.
LEMMA TeamBySelected ==
    ASSUME NEW u, NEW v, v.selected = u.selected, NEW s, NEW d
    PROVE  /\ Has("team", s, d, v) = Has("team", s, d, u)
           /\ SelectedTeam(v, d) = SelectedTeam(u, d)
  BY DEF Has, Count, SelectedTeam

\* A place in a list is left alone by clamping.
LEMMA LeastOfPlace ==
    ASSUME NEW d \in Loaded, NEW t \in d.teams
    PROVE  /\ Cardinality(Below(d.teams, t)) < Cardinality(d.teams)
           /\ Least(Cardinality(Below(d.teams, t)), Cardinality(d.teams))
                = Cardinality(Below(d.teams, t))
<1>1. d.teams \subseteq Nat /\ IsFiniteSet(d.teams)
  BY IdsTyped, FiniteIds, FS_Subset DEF Loaded
<1>2. PICK n \in Nat : n = Cardinality(d.teams)
  BY <1>1, FS_CardinalityType
<1>3. PICK i \in Nat : i = Cardinality(Below(d.teams, t)) /\ i < n
  BY <1>1, <1>2, PlacesByName
<1>4. Least(i, n) = i
  BY <1>3 DEF Least
<1> QED BY <1>2, <1>3, <1>4

\* The screen after a turn: what was taken, with cursors in line.
LEMMA Turned ==
    ASSUME IInv, Turn
    PROVE  /\ UiOk(ui') /\ SameDialog(ui', ui) /\ Within(ui', snap', teams')
           /\ ui'.input => ui'.term \in snap'.live \cap Embedded
           /\ snap' \in Store /\ teams' \in Loaded
           /\ Counted' /\ jobs' \in Seq(JobThread) /\ reads' \in Seq(ReadThread)
           /\ Forward' /\ snap.ver <= snap'.ver
           /\ teams' # teams => TeamKept
<1>1. PICK x : x = AfterJobs(ui)
  OBVIOUS
<1>2. /\ UiOk(x) /\ x.pending = Len(Away(jobs)) /\ x.inFlight = ui.inFlight
      /\ x.selected = ui.selected /\ x.mode = ui.mode /\ Away(jobs) \in Seq(JobThread)
  BY <1>1, JobsTaken
<1>3. PICK u : u = AfterRead(x)
  OBVIOUS
<1>4. /\ UiOk(u) /\ SameDialog(u, x) /\ u.pending = Len(Away(jobs))
      /\ Len(Away(reads)) = IF u.inFlight THEN 1 ELSE 0
      /\ ~Arrived => u.selected = ui.selected
      /\ Arrived => u.selected = Preserved(x, teams, Result.teams).selected
  BY <1>2, <1>3, ReadTaken
<1>5. PICK s : s = IF Arrived THEN Result.snap ELSE snap
  OBVIOUS
<1>6. PICK d : d = IF Arrived THEN Result.teams ELSE teams
  OBVIOUS
<1>7. s \in Store /\ d \in Loaded /\ snap.ver <= s.ver /\ s.ver <= w.ver
      /\ \A n \in 1..Len(Away(reads)) :
            s.ver <= Away(reads)[n].snap.ver /\ Away(reads)[n].snap.ver <= w.ver
  <2>1. snap \in Store /\ teams \in Loaded /\ snap.ver \in Nat
    BY DEF IInv, TypeOK, Store
  <2>2. CASE Arrived
    <3>1. Result \in ReadThread /\ Len(Away(reads)) = 0 /\ 1 \in 1..Len(reads)
          /\ Result = reads[1]
      BY <2>2, OneRead DEF Arrived
    <3>2. snap.ver <= Result.snap.ver /\ Result.snap.ver <= w.ver
      BY <3>1 DEF IInv, Forward
    <3> QED BY <1>5, <1>6, <2>2, <3>1, <3>2 DEF ReadThread
  <2>3. CASE ~Arrived
    <3>1. s = snap /\ d = teams
      BY <1>5, <1>6, <2>3
    <3>2. \A n \in 1..Len(Away(reads)) : \E i \in 1..Len(reads) : Away(reads)[n] = reads[i]
      BY Threads, AwayTyped
    <3> QED BY <2>1, <3>1, <3>2 DEF IInv, Forward
  <2> QED BY <2>2, <2>3
<1>8. PICK want \in BOOLEAN : want = Wants(u)
  BY DEF Wants
<1>9. PICK a : a = IF want THEN [u EXCEPT !.inFlight = TRUE] ELSE u
  OBVIOUS
<1>10. /\ UiOk(a) /\ a.pending = u.pending /\ a.selected = u.selected
       /\ a.inFlight = (want \/ u.inFlight) /\ a.mode = u.mode
  <2>1. CASE want
    BY <1>4, <1>9, <2>1, FlightOk
  <2>2. CASE ~want
    BY <1>4, <1>9, <2>2, UiFields
  <2> QED BY <2>1, <2>2
<1>11. PICK v : v = Clamped(a, s, d)
  OBVIOUS
<1>12. Like(v, a) /\ Within(v, s, d)
       /\ v.selected["team"] = Least(u.selected["team"], Cardinality(d.teams))
  BY <1>7, <1>10, <1>11, ClampedOk
<1>13. /\ jobs' = Away(jobs) /\ snap' = s /\ teams' = d
       /\ reads' = IF want THEN Append(Away(reads),
                                       [at |-> "asked", ok |-> TRUE, snap |-> s, teams |-> d])
                   ELSE Away(reads)
       /\ \E okLog \in LogOutcomes(v.logOf), okTerm \in TermOutcomes(v.term) :
             ui' = TerminalFollowed(LogRefetched(v, s, okLog), s, okTerm)
       /\ UNCHANGED w
  BY <1>1, <1>3, <1>5, <1>6, <1>8, <1>9, <1>11, ZenonT(60) DEF Turn
<1>14. PICK okLog \in LogOutcomes(v.logOf), okTerm \in TermOutcomes(v.term) :
          ui' = TerminalFollowed(LogRefetched(v, s, okLog), s, okTerm)
  BY <1>13
<1>15. okLog \in BOOLEAN /\ okTerm \in BOOLEAN
  BY OutcomesTyped
<1>16. PICK y : y = LogRefetched(v, s, okLog)
  OBVIOUS
<1>17. Like(y, v) /\ y.selected = v.selected
  BY <1>7, <1>12, <1>15, <1>16, LogFollowed DEF Like
<1>18. /\ Like(ui', y) /\ ui'.selected = y.selected
       /\ ui'.input => ui'.term \in s.live \cap Embedded
  BY <1>7, <1>14, <1>15, <1>16, <1>17, TermFollowed DEF Like
<1>19. UiOk(ui') /\ Within(ui', snap', teams')
  BY <1>12, <1>13, <1>17, <1>18, WithinKept DEF Like
<1>20. ui'.pending = Len(jobs') /\ jobs' \in Seq(JobThread)
  BY <1>2, <1>4, <1>10, <1>12, <1>13, <1>17, <1>18 DEF Like
<1>21. ui'.inFlight = (want \/ u.inFlight)
  BY <1>10, <1>12, <1>17, <1>18 DEF Like
<1>22. Away(reads) \in Seq(ReadThread)
  BY OneRead
<1>23. PICK r : r = [at |-> "asked", ok |-> TRUE, snap |-> s, teams |-> d]
  OBVIOUS
<1>24. r \in ReadThread /\ r.snap = s
  BY <1>7, <1>23 DEF ReadThread
<1>25. Counted' /\ reads' \in Seq(ReadThread) /\ Forward'
  <2>1. CASE want
    <3>1. ~u.inFlight
      BY <1>8, <2>1 DEF Wants
    <3>2. Len(Away(reads)) = 0
      BY <1>4, <3>1
    <3>3. reads' = Append(Away(reads), r)
      BY <1>13, <1>23, <2>1
    <3>4. reads' \in Seq(ReadThread) /\ Len(reads') = 1 /\ reads'[1] = r
      BY <1>22, <1>24, <3>2, <3>3, AppendProperties
    <3>5. Counted'
      BY <1>20, <1>21, <2>1, <3>4 DEF Counted
    <3>6. snap' = s /\ w' = w /\ s.ver <= s.ver
      BY <1>7, <1>13 DEF Store
    <3>7. Forward'
      BY <1>7, <1>24, <3>4, <3>6 DEF Forward
    <3> QED BY <3>4, <3>5, <3>7
  <2>2. CASE ~want
    <3>1. reads' = Away(reads)
      BY <1>13, <2>2
    <3>2. Counted'
      BY <1>4, <1>20, <1>21, <2>2, <3>1 DEF Counted
    <3>3. Forward'
      BY <1>7, <1>13, <3>1 DEF Forward
    <3> QED BY <1>22, <3>1, <3>2, <3>3
  <2> QED BY <2>1, <2>2
<1>26. ASSUME teams' # teams
       PROVE  TeamKept
  <2>1. Arrived /\ d = Result.teams
    BY <1>6, <1>13, <1>26
  <2>2. SUFFICES ASSUME Has("team", snap, teams, ui), SelectedTeam(ui, teams) \in d.teams
                 PROVE  ui'.selected["team"]
                           = Cardinality(Below(d.teams, SelectedTeam(ui, teams)))
    BY <1>13 DEF TeamKept
  <2>3. Has("team", snap, teams, x) /\ SelectedTeam(x, teams) = SelectedTeam(ui, teams)
    BY <1>2, <2>2, TeamBySelected
  <2>4. snap \in Store /\ teams \in Loaded
    BY DEF IInv, TypeOK
  <2>5. u.selected["team"] = Cardinality(Below(d.teams, SelectedTeam(ui, teams)))
    BY <1>2, <1>4, <1>7, <2>1, <2>2, <2>3, <2>4, PreservedOk
  <2>6. v.selected["team"] = Cardinality(Below(d.teams, SelectedTeam(ui, teams)))
    BY <1>7, <1>12, <2>2, <2>5, LeastOfPlace
  <2> QED BY <1>17, <1>18, <2>6
<1>27. snap' \in Store /\ teams' \in Loaded /\ snap.ver <= snap'.ver
  BY <1>7, <1>13
<1>28. ui'.input => ui'.term \in snap'.live \cap Embedded
  BY <1>13, <1>18
<1>29. SameDialog(ui', ui)
  BY <1>2, <1>4, <1>10, <1>12, <1>17, <1>18 DEF Like, SameDialog
<1> QED BY <1>19, <1>20, <1>25, <1>26, <1>27, <1>28, <1>29

\* A turn keeps the invariant.
LEMMA TurnKeeps == IInv /\ Turn => IInv'
<1> SUFFICES ASSUME IInv, Turn PROVE IInv'
  OBVIOUS
<1>1. pc' = "key" /\ UNCHANGED <<w, last, keys, errors>>
  BY DEF Turn
<1>2. bell' \in [unseen: BOOLEAN, trigger: BOOLEAN]
  BY DEF Turn, IInv, TypeOK
<1>3. Drawn' /\ UiOk(ui)' /\ Counted' /\ Forward' /\ Named'
  BY <1>1, Turned, NamedKept DEF Drawn, Given
<1>4. TypeOK'
  <2>1. w' \in Store /\ snap' \in Store /\ teams' \in Loaded /\ ui' \in UiState
    BY <1>1, Turned DEF IInv, TypeOK, UiOk
  <2>2. reads' \in Seq(ReadThread) /\ jobs' \in Seq(JobThread)
    BY Turned
  <2> QED BY <1>1, <1>2, <2>1, <2>2 DEF IInv, TypeOK, ReadThread, JobThread
<1> QED BY <1>3, <1>4 DEF IInv

-----------------------------------------------------------------------------
(* The rest of the steps *)

\* A turn without a key.
LEMMA NoKeyKeeps == IInv /\ NoKey => IInv'
<1> SUFFICES ASSUME IInv, NoKey PROVE IInv'
  OBVIOUS
<1>1. pc' = "turn" /\ UNCHANGED <<w, snap, teams, ui, reads, jobs, bell, last, keys, errors>>
  BY DEF NoKey
<1>2. TypeOK' /\ UiOk(ui)' /\ Counted'
  BY <1>1 DEF IInv, TypeOK, Counted
<1>3. Drawn' /\ Forward' /\ Named'
  BY <1>1, ForwardKept DEF Drawn, Moves, IInv, Named, ActsOnNamed
<1> QED BY <1>2, <1>3 DEF IInv

\* The store moves under an unchanged screen.
LEMMA ScreenStays ==
    ASSUME IInv, Moves, bell' \in [unseen: BOOLEAN, trigger: BOOLEAN],
           UNCHANGED <<snap, teams, ui, pc, reads, jobs, last, keys, errors>>
    PROVE  IInv'
<1>1. Forward' /\ w' \in Store
  BY ForwardKept
<1>2. TypeOK' /\ UiOk(ui)' /\ Counted' /\ Drawn' /\ Named'
  BY <1>1 DEF IInv, TypeOK, Counted, Drawn, Named, ActsOnNamed
<1> QED BY <1>1, <1>2 DEF IInv

\* The watcher of the bus sets the trigger.
LEMMA WatchKeeps == IInv /\ (Watch \/ UNCHANGED vars) => IInv'
<1> SUFFICES ASSUME IInv, Watch \/ UNCHANGED vars PROVE IInv'
  OBVIOUS
<1>1. bell' \in [unseen: BOOLEAN, trigger: BOOLEAN]
  <2>1. bell \in [unseen: BOOLEAN, trigger: BOOLEAN]
    BY DEF IInv, TypeOK
  <2>2. CASE Watch
    BY <2>2 DEF Watch
  <2>3. CASE UNCHANGED vars
    BY <2>1, <2>3 DEF vars
  <2> QED BY <2>2, <2>3
<1> QED BY <1>1, ScreenStays DEF Watch, vars, Moves

\* Other programs change the store.
LEMMA OthersKeeps == IInv /\ Others => IInv'
<1> SUFFICES ASSUME IInv, Others PROVE IInv'
  OBVIOUS
<1>1. w \in Store /\ w.ver < MaxChanges
  BY DEF IInv, TypeOK, Others
<1>2. PICK n \in 0 .. MaxChanges : n = w.ver + 1
  BY <1>1, BoundsNatural DEF Store
<1>3. PICK s : s = [w EXCEPT !.ver = n]
  OBVIOUS
<1>4. s \in Store /\ s.ver = n
  BY <1>1, <1>3 DEF Store
<1>5. \/ \E c : w' \in Effects(c, w)
      \/ \E x : w' = [s EXCEPT !.ended = @ \ {x}]
      \/ \E t \in TeamIds : w' = [s EXCEPT !.teams = IF t \in @ THEN @ \ {t} ELSE @ \cup {t}]
  BY <1>2, <1>3 DEF Others
<1>6. Moves
  <2>1. CASE \E c : w' \in Effects(c, w)
    BY <1>1, <2>1, EffectsTyped DEF Moves
  <2>2. CASE \E x : w' = [s EXCEPT !.ended = @ \ {x}]
    BY <1>2, <1>4, <2>2 DEF Store, Moves, Changed
  <2>3. CASE \E t \in TeamIds : w' = [s EXCEPT !.teams = IF t \in @ THEN @ \ {t} ELSE @ \cup {t}]
    <3>1. PICK t \in TeamIds :
             w' = [s EXCEPT !.teams = IF t \in @ THEN @ \ {t} ELSE @ \cup {t}]
      BY <2>3
    <3>2. PICK T \in SUBSET TeamIds : T = IF t \in s.teams THEN s.teams \ {t} ELSE s.teams \cup {t}
      BY <1>4 DEF Store
    <3>3. w' = [s EXCEPT !.teams = T]
      BY <3>1, <3>2
    <3> QED BY <1>2, <1>4, <3>3 DEF Store, Moves, Changed
  <2> QED BY <1>5, <2>1, <2>2, <2>3
<1>7. UNCHANGED <<snap, teams, ui, pc, reads, jobs, bell, last, keys, errors>>
  BY DEF Others
<1> QED BY <1>6, <1>7, ScreenStays DEF IInv, TypeOK

\* The snapshot grows old.
LEMMA ElapseKeeps == IInv /\ Elapse => IInv'
<1> SUFFICES ASSUME IInv, Elapse PROVE IInv'
  OBVIOUS
<1>1. UNCHANGED <<w, snap, teams, pc, reads, jobs, bell, last, keys, errors>>
      /\ ui' = [ui EXCEPT !.time = "old"]
  BY DEF Elapse
<1>2. Like(ui', ui)
  BY <1>1, Itself, TimeOk
<1>3. ui'.selected = ui.selected /\ ui'.input = ui.input /\ ui'.term = ui.term
  BY <1>1, Itself DEF UiOk, UiState
<1>4. UiOk(ui)' /\ ui' \in UiState /\ Counted'
  BY <1>1, <1>2 DEF Like, UiOk, IInv, Counted
<1>5. TypeOK'
  BY <1>1, <1>4 DEF IInv, TypeOK
<1>6. Within(ui, snap, teams) => Within(ui', snap, teams)
  BY <1>3, WithinKept
<1>7. Drawn'
  BY <1>1, <1>3, <1>6 DEF IInv, Drawn
<1>8. Forward' /\ Named'
  BY <1>1, <1>2, ForwardKept, NamedKept DEF Moves, Like, Given
<1> QED BY <1>4, <1>5, <1>7, <1>8 DEF IInv

\* A snapshot thread takes a step.
LEMMA ReadReplaced ==
    ASSUME IInv, NEW i \in 1..Len(reads), NEW x \in ReadThread,
           snap.ver <= x.snap.ver, x.snap.ver <= w.ver,
           reads' = [reads EXCEPT ![i] = x], errors' \in 0 .. MaxErrors,
           UNCHANGED <<w, snap, teams, ui, pc, jobs, bell, last, keys>>
    PROVE  IInv'
<1>1. reads \in Seq(ReadThread)
  BY Threads
<1>2. /\ reads' \in Seq(ReadThread) /\ Len(reads') = Len(reads)
      /\ \A j \in 1..Len(reads) : reads'[j] = IF j = i THEN x ELSE reads[j]
  BY <1>1, ExceptSeq
<1>3. UiOk(ui)' /\ Counted' /\ Drawn' /\ Named'
  BY <1>2 DEF IInv, Counted, Drawn, Named, ActsOnNamed
<1>4. Forward'
  BY <1>2 DEF IInv, Forward
<1>5. TypeOK'
  BY <1>2 DEF IInv, TypeOK, ReadThread
<1> QED BY <1>3, <1>4, <1>5 DEF IInv

\* Snapshot threads.
LEMMA ReadingKeeps == IInv /\ Reading => IInv'
<1> SUFFICES ASSUME IInv, NEW i \in DOMAIN reads, ReadSnapshot(i) \/ ReadTeams(i) PROVE IInv'
  BY DEF Reading
<1>1. /\ i \in 1..Len(reads) /\ reads \in Seq(ReadThread) /\ reads[i] \in ReadThread
      /\ w \in Store /\ w.ver \in Nat /\ errors \in 0 .. MaxErrors
  BY Threads, LenProperties DEF IInv, TypeOK, Store
<1>2. snap.ver <= w.ver /\ snap.ver <= reads[i].snap.ver /\ reads[i].snap.ver <= w.ver
  BY <1>1 DEF IInv, Forward
<1>3. LoadTeams(w) \in Loaded
  BY <1>1, LoadTyped
<1>4. PICK r \in ReadThread : r = reads[i]
  BY <1>1
<1>5. UNCHANGED <<w, snap, teams, ui, pc, jobs, bell, last, keys>>
  BY DEF ReadSnapshot, ReadTeams
<1>6. CASE reads' = [reads EXCEPT ![i].at = "read", ![i].snap = w] /\ UNCHANGED errors
  <2>1. PICK x : x = [r EXCEPT !.at = "read", !.snap = w]
    OBVIOUS
  <2>2. x \in ReadThread /\ x.snap = w
    BY <1>1, <2>1 DEF ReadThread
  <2>3. reads' = [reads EXCEPT ![i] = x]
    BY <1>1, <1>4, <1>6, <2>1
  <2>4. w.ver <= w.ver /\ errors' \in 0 .. MaxErrors
    BY <1>1, <1>6
  <2> QED BY <1>1, <1>2, <1>5, <2>2, <2>3, <2>4, ReadReplaced
<1>7. CASE /\ errors < MaxErrors /\ errors' = errors + 1
           /\ reads' = [reads EXCEPT ![i].at = "sent", ![i].ok = FALSE]
  <2>1. PICK x : x = [r EXCEPT !.at = "sent", !.ok = FALSE]
    OBVIOUS
  <2>2. x \in ReadThread /\ x.snap = r.snap
    BY <2>1 DEF ReadThread
  <2>3. reads' = [reads EXCEPT ![i] = x]
    BY <1>1, <1>4, <1>7, <2>1
  <2>4. errors' \in 0 .. MaxErrors
    BY <1>1, <1>7, BoundsNatural
  <2> QED BY <1>1, <1>2, <1>4, <1>5, <2>2, <2>3, <2>4, ReadReplaced
<1>8. CASE ReadTeams(i)
  <2>1. PICK x : x = [r EXCEPT !.at = "sent", !.teams = LoadTeams(w)]
    OBVIOUS
  <2>2. x \in ReadThread /\ x.snap = r.snap
    BY <1>3, <2>1 DEF ReadThread
  <2>3. reads' = [reads EXCEPT ![i].at = "sent", ![i].teams = LoadTeams(w)]
        /\ errors' \in 0 .. MaxErrors
    BY <1>1, <1>8 DEF ReadTeams
  <2>4. reads' = [reads EXCEPT ![i] = x]
    BY <1>1, <1>4, <2>1, <2>3
  <2> QED BY <1>1, <1>2, <1>4, <1>5, <2>2, <2>3, <2>4, ReadReplaced
<1> QED BY <1>6, <1>7, <1>8 DEF ReadSnapshot

\* Background commands.
LEMMA WorkingKeeps == IInv /\ Working => IInv'
<1> SUFFICES ASSUME IInv, NEW i \in DOMAIN jobs, JobRuns(i) PROVE IInv'
  BY DEF Working
<1>1. jobs \in Seq(JobThread) /\ i \in 1..Len(jobs) /\ jobs[i] \in JobThread
  BY Threads, LenProperties, ElementOfSeq
<1>2. jobs' = [jobs EXCEPT ![i].at = "sent"] /\ w' \in Possible(jobs[i].cmd) \cup {w}
      /\ UNCHANGED <<snap, teams, ui, pc, reads, bell, last, keys, errors>>
  BY DEF JobRuns
<1>3. PICK x \in JobThread : x = [jobs[i] EXCEPT !.at = "sent"]
  BY <1>1 DEF JobThread
<1>4. jobs' = [jobs EXCEPT ![i] = x]
  BY <1>2, <1>3
<1>5. jobs' \in Seq(JobThread) /\ Len(jobs') = Len(jobs)
  BY <1>1, <1>4, ExceptSeq
<1>6. Moves
  BY <1>2, PossibleTyped DEF Moves, IInv, TypeOK
<1>7. Forward' /\ w' \in Store
  BY <1>2, <1>6, ForwardKept
<1>8. UiOk(ui)' /\ Counted' /\ Drawn' /\ Named'
  BY <1>2, <1>5 DEF IInv, Counted, Drawn, Named, ActsOnNamed
<1>9. TypeOK'
  BY <1>2, <1>5, <1>7 DEF IInv, TypeOK, JobThread
<1> QED BY <1>7, <1>8, <1>9 DEF IInv

-----------------------------------------------------------------------------
(* The invariant holds *)

\* At the start.
LEMMA InitInv == Init => IInv
<1> SUFFICES ASSUME Init PROVE IInv
  OBVIOUS
<1>1. /\ w \in Store /\ w.ver = 0 /\ snap = w /\ teams = LoadTeams(w) /\ teams \in Loaded
      /\ ui = Clamped(StartUi, w, teams)
  BY StartsAreStores, LoadTyped DEF Init
<1>2. UiOk(StartUi)
  <2>1. StartUi.selected \in [Lists -> Nat]
    BY DEF StartUi
  <2> QED BY <2>1 DEF StartUi, UiOk, UiState, Focuses
<1>3. UiOk(ui) /\ ~ui.inFlight /\ ui.pending = 0 /\ ui.mode.act \notin Confirms
  BY <1>1, <1>2, ClampedOk, NormalApart DEF Like, SameDialog, StartUi
<1>4. /\ reads = <<>> /\ jobs = <<>> /\ pc = "turn" /\ keys = 0 /\ errors = 0
      /\ bell = [unseen |-> FALSE, trigger |-> FALSE]
      /\ last = [named |-> Normal, given |-> Normal]
  BY DEF Init
<1>5. Counted /\ Drawn /\ Forward /\ Named
  BY <1>1, <1>3, <1>4 DEF Counted, Drawn, Forward, Named, ActsOnNamed
<1>6. TypeOK
  BY <1>1, <1>3, <1>4, BoundsNatural DEF TypeOK, UiOk, Dialog
<1> QED BY <1>3, <1>5, <1>6 DEF IInv

\* In every step.
LEMMA NextInv == IInv /\ [Next]_vars => IInv'
  BY TurnKeeps, NoKeyKeeps, ScrollKeeps, HandleKeeps, ElapseKeeps, ReadingKeeps, WorkingKeeps,
     WatchKeeps, OthersKeeps DEF Next

\* Always.
LEMMA InvAlways == Spec => []IInv
  BY InitInv, NextInv, PTL DEF Spec

\* Cursors in their lists, one panel at a time, keys only into a terminal that
\* is shown of a session shown as running, one snapshot on its way at most, and
\* a true count of background commands: clamp_selection and the panels' order in
\* the loop of tui.rs keep the screen consistent, for any store and any keys.
THEOREM ConsistentAlways == Spec => []Consistent
  BY InvAlways, InvConsistent, PTL

\* handle_confirm_key and submit_form give the command what the dialog named when
\* it was opened: turns, snapshots and reloads of the teams leave an open dialog
\* alone.
THEOREM ActsOnNamedAlways == Spec => []ActsOnNamed
<1>1. IInv => ActsOnNamed
  BY DEF IInv, Named
<1> QED BY <1>1, InvAlways, PTL

-----------------------------------------------------------------------------
(* What a step may never do *)

\* The snapshot on the screen is that of the last turn.
LEMMA SnapOfTurn ==
    ASSUME [Next]_vars, ~Turn
    PROVE  snap' = snap
<1>1. CASE Handle
  BY <1>1, ZenonT(60)
  DEF Handle, MoveFocus, MoveSelection, Scroll, Escape, ToggleDashboard, OpenPrompt,
     OpenDialog, CloseDialog, SubmitPrompt, SubmitDialog, CancelSession, ReleaseSlot, Refresh,
     StartTask, OpenLog, OpenTerminal, Interact, TypeKey, Key, Press
<1>2. CASE Reading \/ Working
  BY <1>2, Zenon DEF Reading, Working, ReadSnapshot, ReadTeams, JobRuns
<1>3. CASE NoKey \/ Quit \/ Elapse \/ Watch \/ Others
  BY <1>3 DEF NoKey, Quit, Press, Elapse, Watch, Others
<1> QED BY <1>1, <1>2, <1>3 DEF Next, vars

\* apply_snapshot_refresh_result puts no snapshot on the screen that is older
\* than the one it replaces: one is read at a time, and only of what is there.
THEOREM NeverBackAlways == Spec => NeverBack
<1>1. IInv /\ [Next]_vars => snap'.ver >= snap.ver
  <2> SUFFICES ASSUME IInv, [Next]_vars PROVE snap'.ver >= snap.ver
    OBVIOUS
  <2>1. snap.ver \in Nat
    BY DEF IInv, TypeOK, Store
  <2>2. CASE Turn
    <3>1. snap.ver <= snap'.ver /\ snap' \in Store
      BY <2>2, Turned
    <3>2. snap'.ver \in Nat
      BY <3>1 DEF Store
    <3> QED BY <2>1, <3>1, <3>2
  <2>3. CASE ~Turn
    BY <2>1, <2>3, SnapOfTurn
  <2> QED BY <2>2, <2>3
<1>2. IInv /\ [Next]_vars => [snap'.ver >= snap.ver]_vars
  BY <1>1
<1> QED BY <1>2, InvAlways, PTL DEF Spec, NeverBack

-----------------------------------------------------------------------------
(* The cursor of the dashboard *)

\* A cursor on the place of its team is on its team.
LEMMA KeptOnTeam ==
    ASSUME teams' \in Loaded, TeamKept, Has("team", snap, teams, ui),
           SelectedTeam(ui, teams) \in teams'.teams
    PROVE  /\ Has("team", snap', teams', ui')
           /\ SelectedTeam(ui', teams') = SelectedTeam(ui, teams)
<1>1. PICK t \in teams'.teams : t = SelectedTeam(ui, teams)
  OBVIOUS
<1>2. teams'.teams \subseteq Nat /\ IsFiniteSet(teams'.teams)
  BY IdsTyped, FiniteIds, FS_Subset DEF Loaded
<1>3. ui'.selected["team"] = Cardinality(Below(teams'.teams, t))
  BY <1>1 DEF TeamKept
<1>4. Cardinality(Below(teams'.teams, t)) < Cardinality(teams'.teams)
  BY LeastOfPlace
<1>5. Has("team", snap', teams', ui')
  BY <1>3, <1>4 DEF Has, Count
<1>6. NthByName(teams'.teams, Cardinality(Below(teams'.teams, t))) = t
  BY <1>2, NthByNameFinds
<1> QED BY <1>1, <1>3, <1>5, <1>6 DEF SelectedTeam

\* refresh_team_dashboard_data keeps the cursor on its team.
LEMMA SettledKept ==
    ASSUME IInv, Moves, NEW u, Like(u, ui), u.selected = ui.selected, NEW reload,
           Settled(u, reload), teams' # teams
    PROVE  TeamKept
<1>1. /\ teams' = LoadTeams(w') /\ ui' = Preserved(u, teams, LoadTeams(w'))
      /\ teams \in Loaded /\ snap \in Store
  BY DEF Settled, Reloaded, IInv, TypeOK
<1>2. teams' \in Loaded
  BY SettledLike
<1>3. PICK d \in Loaded : d = LoadTeams(w')
  BY <1>1, <1>2
<1>4. Has("team", snap, teams, u) = Has("team", snap, teams, ui)
      /\ SelectedTeam(u, teams) = SelectedTeam(ui, teams)
  BY TeamBySelected
<1>5. Has("team", snap, teams, u) /\ SelectedTeam(u, teams) \in d.teams =>
         Preserved(u, teams, d).selected["team"]
            = Cardinality(Below(d.teams, SelectedTeam(u, teams)))
  BY <1>1, PreservedOk DEF Like
<1> QED BY <1>1, <1>3, <1>4, <1>5 DEF TeamKept

\* The keys that reload the teams.
LEMMA ReloadsKept ==
    ASSUME IInv, SubmitDialog \/ CancelSession \/ Refresh \/ StartTask, teams' # teams
    PROVE  TeamKept
<1>1. UiOk(ui) /\ Like(ui, ui)
  BY Itself
<1>2. [ui EXCEPT !.mode = Normal].selected = ui.selected /\ Like([ui EXCEPT !.mode = Normal], ui)
  BY <1>1, ClosedLike DEF UiOk, UiState
<1>3. ASSUME NEW c, NEW u, Like(u, ui), u.selected = ui.selected, NEW reload,
             Succeeds(c, u, reload)
      PROVE  TeamKept
  <2>1. Moves
    BY <1>3, PossibleTyped DEF Succeeds, Moves, IInv, TypeOK
  <2>2. PICK v : v = [u EXCEPT !.time = "none"]
    OBVIOUS
  <2>3. Like(v, ui)
    BY <1>3, <2>2, TimeOk DEF Like, SameDialog
  <2>4. v.selected = ui.selected
    BY <1>3, <2>2 DEF Like, UiOk, UiState
  <2>5. Settled(v, reload)
    BY <1>3, <2>2 DEF Succeeds
  <2> QED BY <2>1, <2>3, <2>4, <2>5, SettledKept
<1>4. ASSUME NEW u, Like(u, ui), u.selected = ui.selected, NEW reload, Fails(u, reload)
      PROVE  TeamKept
  BY <1>4, SettledKept DEF Fails, Moves
<1>5. CASE SubmitDialog
  BY <1>1, <1>2, <1>3, <1>4, <1>5 DEF SubmitDialog
<1>6. CASE CancelSession \/ Refresh
  BY <1>1, <1>3, <1>4, <1>6 DEF CancelSession, Refresh
<1>7. CASE StartTask
  <2>1. Moves /\ w' \in Store
    BY <1>7, PossibleTyped DEF StartTask, Moves, Changed, IInv, TypeOK
  <2>2. SessionsOf(w') \subseteq SessionIds
    BY <2>1 DEF Store, SessionsOf
  <2>3. PICK reload \in BOOLEAN :
           \/ Settled(ui, reload)
           \/ \E x \in SessionsOf(w') \ SessionsOf(w), ok \in BOOLEAN :
                 Settled(Opened(ui, x, ok), reload)
    BY <1>7 DEF StartTask
  <2>4. PICK u : Like(u, ui) /\ u.selected = ui.selected /\ Settled(u, reload)
    BY <1>1, <2>2, <2>3, SurfaceOpened
  <2> QED BY <2>1, <2>4, SettledKept
<1> QED BY <1>5, <1>6, <1>7

\* preserve_team_dashboard_selection keeps the dashboard on its team whenever
\* teams are loaded, by a thread or on the spot, if the team is still there.
THEOREM CursorStaysAlways == Spec => CursorStays
<1>1. ASSUME IInv, [Next]_vars, teams' # teams,
             ui'.focus = "dashboard" => ui.focus = "dashboard",
             Has("team", snap, teams, ui), SelectedTeam(ui, teams) \in teams'.teams
      PROVE  /\ Has("team", snap', teams', ui')
             /\ SelectedTeam(ui', teams') = SelectedTeam(ui, teams)
  <2>1. teams' \in Loaded
    BY <1>1, NextInv DEF IInv, TypeOK
  <2>2. ~ToggleDashboard
    <3>1. ui'.focus = "dashboard" => ~ToggleDashboard
      BY <1>1 DEF ToggleDashboard, OnlyUi
    <3>2. ToggleDashboard => ui'.focus = "dashboard"
      BY <1>1, Itself DEF ToggleDashboard, OnlyUi, UiOk, UiState
    <3> QED BY <3>1, <3>2
  <2>3. TeamKept
    <3>1. CASE Turn
      BY <1>1, <3>1, Turned
    <3>2. CASE SubmitDialog \/ CancelSession \/ Refresh \/ StartTask
      BY <1>1, <3>2, ReloadsKept, ZenonT(60)
    <3>3. ~(Reading \/ Working)
      BY <1>1, Zenon DEF Reading, Working, ReadSnapshot, ReadTeams, JobRuns
    <3>4. ~(NoKey \/ Quit \/ Elapse \/ Watch \/ Others)
      BY <1>1 DEF NoKey, Quit, OnlyUi, Elapse, Watch, Others
    <3>5. CASE Handle
      BY <1>1, <2>2, <3>2, <3>5 DEF Handle, MoveFocus, MoveSelection, Scroll, Escape,
         OpenPrompt, OpenDialog, CloseDialog, SubmitPrompt, ReleaseSlot, OpenLog, OpenTerminal,
         Interact, TypeKey, OnlyUi, InBackground
    <3> QED BY <1>1, <3>1, <3>3, <3>4, <3>5 DEF Next, vars
  <2> QED BY <1>1, <2>1, <2>3, KeptOnTeam
<1>2. IInv /\ [Next]_vars =>
         [LET t == SelectedTeam(ui, teams)
          IN  (/\ teams' # teams
               /\ ui'.focus = "dashboard" => ui.focus = "dashboard"
               /\ Has("team", snap, teams, ui)
               /\ t \in teams'.teams) =>
                 Has("team", snap', teams', ui') /\ SelectedTeam(ui', teams') = t]_vars
  BY <1>1
<1> QED BY <1>2, InvAlways, PTL DEF Spec, CursorStays

=============================================================================
