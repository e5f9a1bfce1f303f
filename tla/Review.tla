-------------------------------- MODULE Review --------------------------------
(***************************************************************************)
(* What an operator is shown of the slots for review: the dirty flags and  *)
(* fingerprints in the store, which only commands bring up to date, the    *)
(* lists of changed files that AppSnapshot::load keeps for some seconds    *)
(* (crates/awo-core/src/snapshot.rs), and the warnings of overlapping work *)
(* that are derived from them (snapshot/overlap.rs).                       *)
(*                                                                         *)
(* One long-lived AppCore with its DirtyFileCache is "here"; the same      *)
(* commands are given by other programs as well, and agents work in the    *)
(* worktrees.  Commands are one step each: module Workspace has what goes  *)
(* on inside them.  Time passes in ticks, TTL of which are                 *)
(* DIRTY_CACHE_TTL; ages are counted up to TTL only.                       *)
(***************************************************************************)
EXTENDS Naturals, FiniteSets

CONSTANTS
    Slots,
    Repos,
    Layouts,    \* which slot is of which repository: one of these
    Files,      \* names that git status lists
    DirOf,      \* the directory of each file, "" at the root
    TTL,        \* ticks that a list of files is kept
    MaxSteps,   \* bound: commands given and changes in worktrees
    MaxErrors   \* bound: inspections that fail although the worktree is there

ASSUME LayoutsTyped == Layouts \subseteq [Slots -> Repos]
ASSUME DirOfTyped == DOMAIN DirOf = Files
ASSUME BoundsNatural == TTL \in Nat \ {0} /\ MaxSteps \in Nat /\ MaxErrors \in Nat

VARIABLES
    repo,       \* the repository of each slot
    tree,       \* the changed files in each worktree
    there,      \* slots whose worktree exists
    stale,      \* slots whose fingerprint is not that of their repository
    busy,       \* slots with a pending session
    row,        \* the slots in the store
    cache,      \* the lists of files kept here
    shown,      \* the review just made here, until something happens
    age,        \* ticks since each file became as it is (history)
    quiet,      \* slots refreshed here and not touched since (history)
    steps,      \* steps taken (bound)
    errors      \* inspections failed (bound)

vars == <<repo, tree, there, stale, busy, row, cache, shown, age, quiet, steps, errors>>

-----------------------------------------------------------------------------
(* Records *)

NoRow == [status |-> "none", dirty |-> FALSE, stale |-> FALSE]
Acquired == [status |-> "active", dirty |-> FALSE, stale |-> FALSE]

\* A list that is TTL old is as good as none; ok: git answered.
NoEntry == [files |-> {}, age |-> TTL, ok |-> TRUE]

\* unread: slots for which git failed, whose list of files is taken to be empty.
NoReview == [slots |-> {}, files |-> [s \in Slots |-> {}], unread |-> {}]

Init ==
    /\ repo \in Layouts
    /\ tree = [s \in Slots |-> {}]
    /\ there = {}
    /\ stale = {}
    /\ busy = {}
    /\ row = [s \in Slots |-> NoRow]
    /\ cache = [s \in Slots |-> NoEntry]
    /\ shown = NoReview
    /\ age = [s \in Slots |-> [f \in Files |-> TTL]]
    /\ quiet = {}
    /\ steps = 0
    /\ errors = 0

Known == {s \in Slots : row[s].status \notin {"none", "deleted"}}
Flagged == {s \in Known : row[s].dirty}

\* Something happens: what was shown is not looked at any more.
Step ==
    /\ steps < MaxSteps
    /\ steps' = steps + 1
    /\ shown' = NoReview
    /\ UNCHANGED <<repo, errors>>

-----------------------------------------------------------------------------
(* Commands, given here or by another program *)

\* refresh_slot_state: without its worktree a released slot stays as it is
\* only when it was fresh, and here all slots are warm.
Refreshed(s) ==
    IF s \in there
    THEN [row[s] EXCEPT !.dirty = tree[s] # {}, !.stale = s \in stale]
    ELSE [status |-> "missing", dirty |-> FALSE, stale |-> FALSE]

\* AppCore::dispatch drops the list of the slot before the command is run.
InvalidatedWhenReleased(c, s) == [cache EXCEPT ![s] = IF c = "refresh" THEN @ ELSE NoEntry]

Invalidated(c, s) == [cache EXCEPT ![s] = NoEntry]

Given(here, c, s) ==
    /\ Step
    /\ cache' = IF here /\ c \in {"release", "delete", "refresh"} THEN Invalidated(c, s)
                ELSE cache

\* A new worktree, or that of a warm slot with what lies uncommitted in it.
SlotAcquire(here, s) ==
    /\ row[s].status = "none" \/ (row[s].status = "released" /\ s \in there)
    /\ Given(here, "acquire", s)
    /\ row' = [row EXCEPT ![s] = Acquired]
    /\ there' = there \cup {s}
    /\ stale' = stale \ {s}
    /\ quiet' = quiet \ {s}
    /\ UNCHANGED <<tree, busy, age>>

CanRelease(s) == s \in there /\ s \notin busy /\ tree[s] = {}

\* Nothing is stored when the release is refused.
SlotRelease(here, s) ==
    /\ s \in Known
    /\ Given(here, "release", s)
    /\ IF CanRelease(s)
       THEN /\ row' = [row EXCEPT ![s] = [Refreshed(s) EXCEPT !.status = "released"]]
            /\ stale' \in {stale, stale \ {s}}
            /\ quiet' = quiet \ {s}
       ELSE UNCHANGED <<row, stale, quiet>>
    /\ UNCHANGED <<tree, there, busy, age>>

\* Also prune, which drops no list.
SlotDelete(here, c, s) ==
    /\ c \in {"delete", "prune"}
    /\ row[s].status \in {"released", "missing"}
    /\ Given(here, c, s)
    /\ IF s \notin busy /\ (s \in there => tree[s] = {})
       THEN /\ row' = [row EXCEPT ![s] = [NoRow EXCEPT !.status = "deleted"]]
            /\ there' = there \ {s}
       ELSE UNCHANGED <<row, there>>
    /\ quiet' = quiet \ {s}
    /\ UNCHANGED <<tree, stale, busy, age>>

\* A released worktree that is clean is brought up to date first; one that is
\* not, or a repository that is not, ends the command.
SlotRefresh(here, s) ==
    /\ s \in Known
    /\ Given(here, "refresh", s)
    /\ LET resync == row[s].status = "released" /\ s \in there
       IN  \/ /\ ~resync
              /\ row' = [row EXCEPT ![s] = Refreshed(s)]
              /\ quiet' = IF here THEN quiet \cup {s} ELSE quiet
              /\ UNCHANGED stale
           \/ /\ resync /\ tree[s] = {}
              /\ stale' \in {stale, stale \ {s}}
              /\ row' = [row EXCEPT ![s].dirty = FALSE, ![s].stale = s \in stale']
              /\ quiet' = IF here THEN quiet \cup {s} ELSE quiet \ {s}
           \/ /\ resync
              /\ UNCHANGED <<row, stale, quiet>>
    /\ UNCHANGED <<tree, there, busy, age>>

\* run_review_status: every slot's row, and no list.
ReviewStatus(r) ==
    /\ Step
    /\ row' = [s \in Slots |-> IF row[s].status \in {"active", "released"} /\ repo[s] \in r
                               THEN Refreshed(s) ELSE row[s]]
    /\ UNCHANGED <<tree, there, stale, busy, cache, age, quiet>>

-----------------------------------------------------------------------------
(* DirtyFileCache *)

\* get_or_refresh: what is kept, or else what git lists.
Kept(s) == cache[s].age < TTL

Listed(s, bad) == IF s \in bad THEN {} ELSE tree[s]

EntrySliding(s, bad) ==
    IF Kept(s) THEN [cache[s] EXCEPT !.age = 0]
    ELSE [files |-> Listed(s, bad), age |-> 0, ok |-> s \notin bad]

\* A list that could not be read is kept as an empty one.
Entry(s, bad) ==
    IF Kept(s) THEN cache[s]
    ELSE [files |-> Listed(s, bad), age |-> 0, ok |-> s \notin bad]

\* After the load, retain_slots drops what is not in the store.
CacheAfter(bad) ==
    [s \in Slots |-> IF s \in Flagged THEN Entry(s, bad)
                     ELSE IF s \in Known THEN cache[s] ELSE NoEntry]

-----------------------------------------------------------------------------
(* Reviews *)

\* AppSnapshot::load, and review_for_repo of the snapshot: for all repositories
\* with the lists that are kept, for one with lists read anew.
Snapshot(filter) ==
    /\ \E bad \in SUBSET Flagged :
          /\ Flagged \ there \subseteq bad
          /\ errors' = errors + Cardinality(bad \cap there)
          /\ errors' <= MaxErrors
          /\ cache' = CacheAfter(bad)
          /\ shown' = [slots |-> {s \in Known : filter \in {repo[s], "all"}},
                       files |-> [s \in Slots |->
                                    IF s \notin Flagged THEN {}
                                    ELSE IF filter = "all" THEN cache'[s].files
                                    ELSE Listed(s, bad)],
                       unread |-> IF filter = "all" THEN {s \in Flagged : ~cache'[s].ok} ELSE bad]
          /\ quiet' = quiet \ bad
    /\ UNCHANGED <<repo, tree, there, stale, busy, row, age, steps>>

\* build_review_summary_impl, the counts as sets of slots.
Active(v) == {s \in v.slots : row[s].status = "active"}
Dirty(v) == {s \in v.slots : row[s].dirty}
Stale(v) == {s \in v.slots : row[s].stale}
Releasable(v) == Active(v) \ (Dirty(v) \cup Stale(v) \cup busy)

\* detect_overlaps
Compared(v) ==
    {p \in Dirty(v) \X Dirty(v) :
        /\ p[1] # p[2]
        /\ repo[p[1]] = repo[p[2]]
        /\ v.files[p[1]] # {} /\ v.files[p[2]] # {}}

RiskyInAllFiles(a, b) == IF a = b THEN a ELSE {}

Risky(a, b) == a \cap b

In(dir, files) == {f \in files : DirOf[f] = dir}
Dirs(files) == {DirOf[f] : f \in files} \ {""}

\* Directories where both have changed files, but not the same ones.
Soft(a, b) == {d \in Dirs(a) \cap Dirs(b) : In(d, a) # In(d, b)}

-----------------------------------------------------------------------------
(* The world *)

\* An agent changes a file, or commits or reverts it.
Work(s, f) ==
    /\ Step
    /\ s \in there
    /\ tree' = [tree EXCEPT ![s] = IF f \in @ THEN @ \ {f} ELSE @ \cup {f}]
    /\ age' = [age EXCEPT ![s][f] = 0]
    /\ quiet' = quiet \ {s}
    /\ UNCHANGED <<there, stale, busy, row, cache>>

\* A commit leaves nothing behind.
Commit(s) ==
    /\ Step
    /\ tree[s] # {}
    /\ tree' = [tree EXCEPT ![s] = {}]
    /\ age' = [age EXCEPT ![s] = [f \in Files |-> IF f \in tree[s] THEN 0 ELSE @[f]]]
    /\ quiet' = quiet \ {s}
    /\ UNCHANGED <<there, stale, busy, row, cache>>

\* Somebody removes a worktree by hand.
Vanish(s) ==
    /\ Step
    /\ s \in there
    /\ there' = there \ {s}
    /\ tree' = [tree EXCEPT ![s] = {}]
    /\ age' = [age EXCEPT ![s] = [f \in Files |-> IF f \in tree[s] THEN 0 ELSE @[f]]]
    /\ quiet' = quiet \ {s}
    /\ UNCHANGED <<stale, busy, row, cache>>

\* The repository gets another fingerprint.
RepoMoves(r) ==
    /\ Step
    /\ stale' = stale \cup {s \in there : repo[s] = r}
    /\ quiet' = {s \in quiet : repo[s] # r}
    /\ UNCHANGED <<tree, there, busy, row, cache, age>>

Sessions(s) ==
    /\ Step
    /\ row[s].status = "active"
    /\ busy' = IF s \in busy THEN busy \ {s} ELSE busy \cup {s}
    /\ UNCHANGED <<tree, there, stale, row, cache, age, quiet>>

Older(n) == IF n < TTL THEN n + 1 ELSE n
Tick ==
    /\ cache' = [s \in Slots |-> IF cache[s].age < TTL - 1 THEN [cache[s] EXCEPT !.age = @ + 1]
                                 ELSE NoEntry]
    /\ age' = [s \in Slots |-> [f \in Files |-> Older(age[s][f])]]
    /\ shown' = NoReview
    /\ UNCHANGED <<repo, tree, there, stale, busy, row, quiet, steps, errors>>

-----------------------------------------------------------------------------
(* Specification *)

Command(here) ==
    \E s \in Slots :
       \/ SlotAcquire(here, s) \/ SlotRelease(here, s) \/ SlotRefresh(here, s)
       \/ \E c \in {"delete", "prune"} : SlotDelete(here, c, s)

World ==
    \/ \E s \in Slots : Commit(s) \/ Vanish(s) \/ Sessions(s)
    \/ \E s \in Slots, f \in Files : Work(s, f)
    \/ \E r \in Repos : RepoMoves(r)

Next ==
    \/ \E here \in BOOLEAN : Command(here)
    \/ \E r \in {{x} : x \in Repos} \cup {Repos} : ReviewStatus(r)
    \/ \E filter \in Repos \cup {"all"} : Snapshot(filter)
    \/ World
    \/ Tick

Spec == Init /\ [][Next]_vars

-----------------------------------------------------------------------------
(* Properties *)

\* No review names a file that has been clean for as long as lists are kept.
Recent ==
    \A s \in shown.slots : \A f \in shown.files[s] : f \in tree[s] \/ age[s][f] < TTL

\* Two slots of one repository whose rows are dirty are reported in every
\* review when both have had files changed for as long as lists are kept: a
\* file changed in both as a risky overlap, files in the same directory as one
\* or the other.  It may be missing only when git failed on one of them.
Lasting(s, f) == f \in tree[s] /\ age[s][f] = TTL /\ s \notin shown.unread
OverlapsShown ==
    \A a, b \in Dirty(shown) : \A f, g \in Files :
       (a # b /\ repo[a] = repo[b] /\ Lasting(a, f) /\ Lasting(b, g)) =>
          LET risky == Risky(shown.files[a], shown.files[b])
              soft == Soft(shown.files[a], shown.files[b])
          IN  /\ f = g => <<a, b>> \in Compared(shown) /\ f \in risky
              /\ (DirOf[f] = DirOf[g] /\ DirOf[f] # "") =>
                    /\ <<a, b>> \in Compared(shown)
                    /\ DirOf[f] \in soft \cup {DirOf[x] : x \in risky}

\* What a refresh given here has found is what the reviews here show from then
\* on, until the slot is touched: exactly its changed files, and the slot
\* releasable just when a release would succeed and it is up to date.
RefreshIsSeen ==
    \A s \in quiet \cap shown.slots :
       /\ shown.files[s] = tree[s]
       /\ s \in Active(shown) => (s \in Releasable(shown) <=> CanRelease(s) /\ s \notin stale)

=============================================================================
