-------------------------------- MODULE Tui ---------------------------------
(***************************************************************************)
(* The terminal UI of crates/awo-app/src/tui.rs and tui/action_router.     *)
(* One thread turns a loop: it takes the results of background threads,    *)
(* asks for a new snapshot when the one shown is old, brings cursors and   *)
(* panels in line with it, draws, and handles at most one key.  Threads    *)
(* read snapshots and dispatch slow commands; other programs, and agents,  *)
(* change the store at any time.                                           *)
(*                                                                         *)
(* Abstracted: one repository; the repository and team panels of the main  *)
(* view, and the plan and member panes of the dashboard, whose cursors     *)
(* move and are clamped as those of slots and cards do; the filter; texts, *)
(* layouts and scroll offsets.  Slots and sessions are numbered by age and *)
(* listed with the newest first, teams by name.                            *)
(***************************************************************************)
EXTENDS Integers, FiniteSets, Sequences

CONSTANTS
    SlotIds, SessionIds, TeamIds,  \* finite sets of numbers
    Cards,       \* how many task cards each team has
    CardSlot,    \* slot the cards of a team are bound to
    Starts,      \* stores the UI may be started on
    Embedded,    \* sessions with an embedded terminal
    MaxChanges,  \* bound: changes of the store
    MaxKeys,     \* bound: keys pressed
    MaxErrors,   \* bound: snapshots that fail
    None

ASSUME NumberedIds == SlotIds \cup SessionIds \cup TeamIds \subseteq Nat
ASSUME FiniteIds == IsFiniteSet(SlotIds) /\ IsFiniteSet(SessionIds) /\ IsFiniteSet(TeamIds)
ASSUME CardsOfTeams == Cards \in [TeamIds -> Nat] /\ CardSlot \in [TeamIds -> SlotIds]
ASSUME EmbeddedSessions == Embedded \subseteq SessionIds
ASSUME BoundsNatural == {MaxChanges, MaxKeys, MaxErrors} \subseteq Nat

VARIABLES
    w,      \* the store: what a snapshot taken now would show
    snap,   \* last_snapshot
    teams,  \* team_dashboard.teams, with the moment they were loaded
    ui,     \* the rest of TuiState
    pc,     \* where the loop is
    reads,  \* snapshot threads and their results
    jobs,   \* background commands and their results
    bell,   \* events on the bus: seen by the watcher, trigger sent
    last,   \* the dialog last opened: what it named, what it gave (history)
    keys, errors \* counted (bounds)

vars == <<w, snap, teams, ui, pc, reads, jobs, bell, last, keys, errors>>

-----------------------------------------------------------------------------
(* Records *)

Store == [ver: 0 .. MaxChanges, slots: SUBSET SlotIds,
          live: SUBSET SessionIds, ended: SUBSET SessionIds, teams: SUBSET TeamIds]
SessionsOf(s) == s.live \cup s.ended

Loaded == [ver: 0 .. MaxChanges, teams: SUBSET TeamIds]
LoadTeams(s) == [ver |-> s.ver, teams |-> s.teams]

Confirms == {"accept", "delete", "delegate"}
Prompts == {"acquire", "start"}
Command == [act: Confirms \cup Prompts \cup {"cancel", "release", "next", "review"},
            on: Nat \cup {None}]

\* input_mode: nothing, a prompt, or a dialog about something.
Normal == [act |-> None, on |-> None]
ASSUME NoneIsApart == None \notin Nat \cup Confirms

Dialog == {Normal} \cup [act: Confirms, on: Nat]
Lists == {"slots", "sessions", "team", "card"}
Focuses == {"slots", "sessions", "terminal", "dashboard"}

UiState ==
    [focus: Focuses, selected: [Lists -> Nat],
     mode: {Normal} \cup [act: Confirms \cup Prompts, on: Nat \cup {None}],
     time: {"none", "fresh", "old"},     \* last_snapshot_time
     inFlight: BOOLEAN, pending: Nat,
     showLog: BOOLEAN, logOf: SessionIds \cup {None},
     showTerm: BOOLEAN, term: SessionIds \cup {None},
     input: BOOLEAN, follow: BOOLEAN]

StartUi ==
    [focus |-> "slots", selected |-> [l \in Lists |-> 0], mode |-> Normal,
     time |-> "fresh", inFlight |-> FALSE, pending |-> 0,
     showLog |-> FALSE, logOf |-> None, showTerm |-> FALSE, term |-> None,
     input |-> FALSE, follow |-> TRUE]

ASSUME StartsAreStores == Starts \subseteq {s \in Store : s.ver = 0 /\ s.live \cap s.ended = {}}

-----------------------------------------------------------------------------
(* Lists and cursors *)

\* The i-th of S, counted from 0, with the newest or the first (name) first.
NthNewest(S, i) == CHOOSE x \in S : Cardinality({y \in S : y > x}) = i
NthByName(S, i) == CHOOSE x \in S : Cardinality({y \in S : y < x}) = i

Count(l, s, d, u) ==
    CASE l = "slots" -> Cardinality(s.slots)
      [] l = "sessions" -> Cardinality(SessionsOf(s))
      [] l = "team" -> Cardinality(d.teams)
      [] l = "card" -> IF u.selected["team"] < Cardinality(d.teams)
                       THEN Cards[NthByName(d.teams, u.selected["team"])] ELSE 0

Least(i, n) == IF n = 0 THEN 0 ELSE IF i < n THEN i ELSE n - 1

\* clamp_selection: the card cursor after that of its team.
Clamped(u, s, d) ==
    LET v == [u EXCEPT !.selected = [l \in Lists |-> Least(@[l], Count(l, s, d, u))]]
    IN  [v EXCEPT !.selected["card"] = Least(u.selected["card"], Count("card", s, d, v))]

Has(l, s, d, u) == u.selected[l] < Count(l, s, d, u)
SelectedSlot(u) == NthNewest(snap.slots, u.selected["slots"])
SelectedSession(u) == NthNewest(SessionsOf(snap), u.selected["sessions"])
SelectedTeam(u, d) == NthByName(d.teams, u.selected["team"])
\* A card is named by its team and its place.
SelectedCard(u) == 10 * SelectedTeam(u, teams) + u.selected["card"]

\* preserve_team_dashboard_selection: the cursor stays with its team.
PreservedForgets(u, old, new) == u

Preserved(u, old, new) ==
    IF ~Has("team", snap, old, u) THEN u
    ELSE LET t == SelectedTeam(u, old)
         IN  [u EXCEPT !.selected["team"] =
                IF t \in new.teams THEN Cardinality({x \in new.teams : x < t}) ELSE 0]

-----------------------------------------------------------------------------
(* Panels *)

\* fetch_session_log and fetch_slot_diff (x is None for a diff): an error
\* changes the status line only.
FetchedLog(u, x, ok) ==
    IF ok THEN [u EXCEPT !.showLog = TRUE, !.logOf = x, !.showTerm = FALSE, !.input = FALSE]
    ELSE u

\* fetch_session_terminal
FetchedTerm(u, x, ok) ==
    IF ok THEN [u EXCEPT !.term = x, !.showTerm = TRUE, !.showLog = FALSE,
                         !.follow = @ \/ u.term # x]
    ELSE [u EXCEPT !.input = FALSE]

\* open_session_surface
Opened(u, x, ok) ==
    IF x \in Embedded
    THEN [FetchedTerm(u, x, ok) EXCEPT !.focus = "terminal", !.follow = TRUE]
    ELSE [FetchedLog(u, x, ok) EXCEPT !.focus = "sessions"]

\* The log panel of a running session is fetched again in every turn.
LogRefetched(u, s, ok) ==
    IF u.showLog /\ u.logOf \in s.live
    THEN [FetchedLog(u, u.logOf, ok) EXCEPT !.time = "none"]
    ELSE u

\* The terminal panel is followed while its session runs, and goes with it.
TerminalFollowedStays(u, s, ok) ==
    IF ~u.showTerm THEN u
    ELSE IF u.term \notin SessionsOf(s)
         THEN [u EXCEPT !.showTerm = FALSE, !.input = FALSE, !.term = None]
    ELSE IF u.term \in s.live \cap Embedded /\ u.follow
         THEN FetchedTerm(u, u.term, ok)
    ELSE u

TerminalFollowed(u, s, ok) ==
    IF ~u.showTerm THEN u
    ELSE IF u.term \notin SessionsOf(s)
         THEN [u EXCEPT !.showTerm = FALSE, !.input = FALSE, !.term = None]
    ELSE IF u.term \in s.live \cap Embedded /\ u.follow
         THEN FetchedTerm(u, u.term, ok)
    ELSE [u EXCEPT !.input = FALSE]

\* Whether the store lets a log, or a terminal, be read now.
LogOutcomes(x) == {ok \in BOOLEAN : ok => x \in SessionsOf(w)}
TermOutcomes(x) == {ok \in BOOLEAN : ok => x \in w.live \cap Embedded}

-----------------------------------------------------------------------------
(* The turn of the loop, up to drawing *)

Init ==
    /\ w \in Starts
    /\ snap = w
    /\ teams = LoadTeams(w)
    /\ ui = Clamped(StartUi, w, LoadTeams(w))
    /\ pc = "turn"
    /\ reads = <<>>
    /\ jobs = <<>>
    /\ bell = [unseen |-> FALSE, trigger |-> FALSE]
    /\ last = [named |-> Normal, given |-> Normal]
    /\ keys = 0
    /\ errors = 0

\* The threads that have sent their results, and the others in their order.
Back(threads) == {i \in DOMAIN threads : threads[i].at = "sent"}
Away(threads) ==
    LET out == DOMAIN threads \ Back(threads)
    IN  [n \in 1 .. Cardinality(out) |-> threads[NthByName(out, n - 1)]]

\* Results of background commands: the snapshot is out of date.
AfterJobs(u) ==
    IF Back(jobs) = {} THEN u
    ELSE [u EXCEPT !.pending = @ - Cardinality(Back(jobs)), !.time = "none"]

\* The result of the snapshot thread, if there is one.
Results == Back(reads)
Result == reads[CHOOSE i \in Results : \A j \in Results : j <= i]
Arrived == Results # {} /\ Result.ok

\* apply_snapshot_refresh_result
AfterReadRenames(u) ==
    IF Results = {} THEN u
    ELSE IF ~Arrived THEN [u EXCEPT !.inFlight = FALSE]
    ELSE LET v == Preserved(u, teams, Result.teams)
             card == IF Has("team", snap, Result.teams, v) /\ v.mode.act \in {"accept", "delegate"}
                     THEN 10 * SelectedTeam(v, Result.teams) + v.selected["card"]
                     ELSE v.mode.on
         IN  [v EXCEPT !.inFlight = FALSE, !.time = "fresh", !.mode.on = card]

AfterRead(u) ==
    IF Results = {} THEN u
    ELSE IF ~Arrived THEN [u EXCEPT !.inFlight = FALSE]
    ELSE [Preserved(u, teams, Result.teams) EXCEPT !.inFlight = FALSE, !.time = "fresh"]

\* A trigger, or the age of the snapshot, asks for a new one; what comes
\* while one is under way is dropped.
WantsWhenRung(u) == bell.trigger \/ (~u.inFlight /\ u.time # "fresh")

WantsTold(u) == ~u.inFlight /\ (bell.trigger \/ u.time = "none")

Wants(u) == ~u.inFlight /\ (bell.trigger \/ u.time # "fresh")

Turn ==
    LET u == AfterRead(AfterJobs(ui))
        s == IF Arrived THEN Result.snap ELSE snap
        d == IF Arrived THEN Result.teams ELSE teams
        v == Clamped(IF Wants(u) THEN [u EXCEPT !.inFlight = TRUE] ELSE u, s, d)
    IN  /\ pc = "turn"
        /\ pc' = "key"
        /\ jobs' = Away(jobs)
        /\ reads' = IF Wants(u)
                    THEN Append(Away(reads),
                                [at |-> "asked", ok |-> TRUE, snap |-> s, teams |-> d])
                    ELSE Away(reads)
        /\ snap' = s
        /\ teams' = d
        /\ \E okLog \in LogOutcomes(v.logOf), okTerm \in TermOutcomes(v.term) :
              ui' = TerminalFollowed(LogRefetched(v, s, okLog), s, okTerm)
        /\ bell' = [bell EXCEPT !.trigger = FALSE]
        /\ UNCHANGED <<w, last, keys, errors>>

\* No key within the poll's time.
NoKey ==
    /\ pc = "key"
    /\ pc' = "turn"
    /\ UNCHANGED <<w, snap, teams, ui, reads, jobs, bell, last, keys, errors>>

-----------------------------------------------------------------------------
(* Commands *)

NextId(S, used) == CHOOSE x \in S \ used : \A y \in S \ used : x <= y

\* What a command makes of the store, none if it is refused.
Effects(c, s) ==
    LET changed == [s EXCEPT !.ver = @ + 1]
    IN  CASE c.act = "acquire" /\ SlotIds \ s.slots # {} ->
               {[changed EXCEPT !.slots = @ \cup {NextId(SlotIds, s.slots)}]}
          [] c.act = "delete" /\ c.on \in s.slots ->
               {[changed EXCEPT !.slots = @ \ {c.on}]}
          [] c.act = "release" /\ c.on \in s.slots -> {changed}
          [] c.act = "start" /\ c.on \in s.slots /\ SessionIds \ SessionsOf(s) # {} ->
               {[changed EXCEPT !.live = @ \cup {NextId(SessionIds, SessionsOf(s))}]}
          [] c.act = "next" /\ s.teams # {} /\ SessionIds \ SessionsOf(s) # {} ->
               {[changed EXCEPT !.live = @ \cup {NextId(SessionIds, SessionsOf(s))}]}
          [] c.act = "cancel" /\ c.on \in s.live ->
               {[changed EXCEPT !.live = @ \ {c.on}, !.ended = @ \cup {c.on}]}
          [] c.act \in {"accept", "delegate"} /\ s.teams # {} -> {changed}
          [] OTHER -> {}

Possible(c) == IF w.ver < MaxChanges THEN Effects(c, w) ELSE {}

\* refresh_team_dashboard_data: the manifests are read on the spot.
Reloaded(u) == teams' = LoadTeams(w') /\ ui' = Preserved(u, teams, LoadTeams(w'))
Settled(u, reload) == IF reload THEN Reloaded(u) ELSE ui' = u /\ UNCHANGED teams

\* apply_command and apply_form_command.  A command that changes nothing of
\* the store ("review") still invalidates the snapshot.
Succeeds(c, u, reload) ==
    /\ w' \in Possible(c) \cup (IF c.act = "review" THEN {w} ELSE {})
    /\ bell' = [bell EXCEPT !.unseen = TRUE]
    /\ Settled([u EXCEPT !.time = "none"], reload)
    /\ UNCHANGED jobs

Fails(u, reload) ==
    /\ UNCHANGED <<w, bell, jobs>>
    /\ Settled(u, reload)

\* dispatch_in_background
InBackground(c, u) ==
    /\ jobs' = Append(jobs, [at |-> "run", cmd |-> c])
    /\ ui' = [u EXCEPT !.pending = @ + 1]
    /\ UNCHANGED <<w, teams, bell, last>>

JobRuns(i) ==
    /\ jobs[i].at = "run"
    /\ w' \in Possible(jobs[i].cmd) \cup {w}
    /\ jobs' = [jobs EXCEPT ![i].at = "sent"]
    /\ UNCHANGED <<snap, teams, ui, pc, reads, bell, last, keys, errors>>

-----------------------------------------------------------------------------
(* Keys: handle_key_event *)

Press(to) ==
    /\ pc = "key"
    /\ keys < MaxKeys
    /\ keys' = keys + 1
    /\ pc' = to
    /\ UNCHANGED <<snap, reads, errors>>

\* A key in the normal mode.
Key == ui.mode = Normal /\ ~ui.input /\ Press("turn")

OnlyUi(u) == ui' = u /\ UNCHANGED <<w, teams, jobs, bell, last>>

Quit == ui.mode = Normal /\ ~ui.input /\ Press("off") /\ OnlyUi(ui)

\* Tab and BackTab, T: the panels in reach of each other.
Around(f) ==
    CASE f = "slots" -> {"sessions"} \cup (IF ui.showTerm THEN {"terminal"} ELSE {})
      [] f = "sessions" -> {"slots"} \cup (IF ui.showTerm THEN {"terminal"} ELSE {})
      [] f = "terminal" -> {"slots", "sessions"}
      [] f = "dashboard" -> {"dashboard"}

MoveFocus == Key /\ \E f \in Around(ui.focus) : OnlyUi([ui EXCEPT !.focus = f])

ListsOf(f) == IF f = "dashboard" THEN {"team", "card"} ELSE {f} \cap Lists

\* Up and down; another team is shown from its first card.
MoveSelection ==
    /\ Key
    /\ ~ui.showLog
    /\ \E l \in ListsOf(ui.focus) :
         \E i \in {ui.selected[l] + 1, ui.selected[l] - 1} \cap 0 .. Count(l, snap, teams, ui) :
            OnlyUi(Clamped([ui EXCEPT !.selected[l] = i,
                                      !.selected["card"] = IF l = "team" THEN 0
                                                           ELSE IF l = "card" THEN i ELSE @],
                           snap, teams))

\* Page keys, Home, End, g, G, f, a search: whether the terminal follows its
\* output.
Scroll == Key /\ ui.focus = "terminal" /\ \E b \in BOOLEAN : OnlyUi([ui EXCEPT !.follow = b])

\* Esc closes what has the focus, else the log panel.
Escape ==
    /\ Key
    /\ OnlyUi(CASE ui.focus = "terminal" ->
                     [ui EXCEPT !.focus = "sessions", !.showTerm = FALSE, !.input = FALSE,
                                !.term = None, !.follow = TRUE]
                [] ui.focus = "dashboard" -> [ui EXCEPT !.focus = "slots"]
                [] OTHER -> [ui EXCEPT !.showLog = FALSE])

\* T: the dashboard opens on the team selected in the main view, or stays.
ToggleDashboard ==
    /\ Key
    /\ \/ /\ ui.focus = "dashboard"
          /\ OnlyUi([ui EXCEPT !.focus = "slots"])
       \/ /\ ui.focus # "dashboard"
          /\ teams' = LoadTeams(w)
          /\ \E t \in {Preserved(ui, teams, teams').selected["team"]} \cup
                       0 .. Cardinality(w.teams) - 1 :
                ui' = [ui EXCEPT !.focus = "dashboard", !.selected["team"] = t]
          /\ UNCHANGED <<w, jobs, bell, last>>

\* s outside the dashboard, and Enter on a slot.
OpenPrompt ==
    /\ Key
    /\ \E act \in Prompts :
          /\ act = "acquire" => ui.focus # "dashboard"
          /\ act = "start" => ui.focus = "slots" /\ Has("slots", snap, teams, ui)
          /\ OnlyUi([ui EXCEPT !.mode = [act |-> act, on |-> None]])

\* A, K, D and the like on the dashboard: the dialog keeps what it is about.
OpenDialog ==
    /\ Key
    /\ ui.focus = "dashboard"
    /\ Has("card", snap, teams, ui)
    /\ \E act \in Confirms :
          LET m == [act |-> act, on |-> IF act = "delete" THEN CardSlot[SelectedTeam(ui, teams)]
                                        ELSE SelectedCard(ui)]
          IN  /\ ui' = [ui EXCEPT !.mode = m]
              /\ last' = [named |-> m, given |-> Normal]
    /\ UNCHANGED <<w, teams, jobs, bell>>

CloseDialog == Press("turn") /\ ui.mode # Normal /\ OnlyUi([ui EXCEPT !.mode = Normal])

\* The repository and the slot of a prompt are those selected when it is
\* submitted.  After a start, be it refused, the last session of the list, the
\* oldest one, is opened.
SubmitPrompt ==
    /\ Press("turn")
    /\ \/ /\ ui.mode.act = "acquire"
          /\ InBackground([act |-> "acquire", on |-> None], [ui EXCEPT !.mode = Normal])
       \/ /\ ui.mode.act = "start" /\ ~Has("slots", snap, teams, ui)
          /\ OnlyUi([ui EXCEPT !.mode = Normal])
       \/ /\ ui.mode.act = "start" /\ Has("slots", snap, teams, ui)
          /\ w' \in Possible([act |-> "start", on |-> SelectedSlot(ui)]) \cup {w}
          /\ bell' = [bell EXCEPT !.unseen = @ \/ w' # w]
          /\ LET all == SessionsOf(w')
                 u == [ui EXCEPT !.mode = Normal, !.time = IF w' = w THEN @ ELSE "none"]
                 oldest == NthNewest(all, Cardinality(all) - 1)
                 readable == IF oldest \in Embedded \ w'.live THEN {FALSE} ELSE BOOLEAN
             IN  ui' \in IF all = {} THEN {u} ELSE {Opened(u, oldest, ok) : ok \in readable}
          /\ UNCHANGED <<teams, jobs, last>>

\* handle_confirm_key, and submit_form, whose form stays open on an error.
SubmitDialog ==
    /\ Press("turn")
    /\ ui.mode.act \in Confirms
    /\ last' = [last EXCEPT !.given = ui.mode]
    /\ LET closed == [ui EXCEPT !.mode = Normal]
       IN  \/ Succeeds(ui.mode, closed, TRUE)
           \/ Fails(closed, TRUE) /\ ui.mode.act # "delegate"
           \/ Fails(ui, FALSE) /\ ui.mode.act = "delegate"

\* x acts on the session selected in the main view, shown or not.
CancelSession ==
    /\ Key
    /\ Has("sessions", snap, teams, ui)
    /\ LET c == [act |-> "cancel", on |-> SelectedSession(ui)]
       IN  Succeeds(c, ui, FALSE) \/ Fails(ui, FALSE)
    /\ UNCHANGED last

\* X
ReleaseSlot ==
    /\ Key
    /\ \/ /\ ui.focus = "dashboard" /\ Has("card", snap, teams, ui)
          /\ InBackground([act |-> "release", on |-> CardSlot[SelectedTeam(ui, teams)]], ui)
       \/ /\ Has("slots", snap, teams, ui)
          /\ InBackground([act |-> "release", on |-> SelectedSlot(ui)], ui)

\* r, c, d, n; R and P also reload the teams.
Refresh ==
    /\ Key
    /\ \E reload \in BOOLEAN :
          LET c == [act |-> "review", on |-> None]
          IN  Succeeds(c, ui, reload) \/ Fails(ui, reload)
    /\ UNCHANGED last

\* s on a card, and t, which reloads the teams: start_team_task does not
\* invalidate the snapshot.  The session it has started is opened.
StartTask ==
    /\ Key
    /\ w' \in Possible([act |-> "next", on |-> None]) \cup {w}
    /\ bell' = [bell EXCEPT !.unseen = @ \/ w' # w]
    /\ LET new == SessionsOf(w') \ SessionsOf(w)
       IN  \E reload \in BOOLEAN :
              /\ ui.focus # "dashboard" => reload
              /\ \/ new = {} /\ Settled(ui, reload)
                 \/ \E x \in new, ok \in BOOLEAN : Settled(Opened(ui, x, ok), reload)
    /\ UNCHANGED <<jobs, last>>

\* Enter on a session, o, v
OpenLog ==
    /\ Key
    /\ \/ /\ ui.focus = "sessions" /\ Has("sessions", snap, teams, ui)
          /\ \E ok \in LogOutcomes(SelectedSession(ui)) :
                OnlyUi(FetchedLog(ui, SelectedSession(ui), ok))
       \/ /\ ui.focus = "terminal" /\ ui.term # None
          /\ \E x \in {ui.term, None} : \E ok \in LogOutcomes(ui.term) :
                OnlyUi([FetchedLog(ui, x, ok) EXCEPT !.focus = "sessions"])
       \/ /\ ui.focus = "dashboard" /\ Has("card", snap, teams, ui)
          /\ \E x \in SessionIds \cup {None} : \E ok \in {x = None} \cup LogOutcomes(x) :
                OnlyUi(FetchedLog(ui, x, ok))

\* e, also on a card with a result, and r on a terminal
OpenTerminal ==
    /\ Key
    /\ \/ /\ ui.focus = "sessions" /\ Has("sessions", snap, teams, ui)
          /\ SelectedSession(ui) \in Embedded
          /\ \E ok \in TermOutcomes(SelectedSession(ui)) :
                OnlyUi([FetchedTerm(ui, SelectedSession(ui), ok)
                           EXCEPT !.focus = "terminal", !.follow = TRUE])
       \/ /\ ui.focus = "dashboard"
          /\ \E x \in SessionsOf(snap) : \E ok \in LogOutcomes(x) :
                OnlyUi(Opened(ui, x, ok /\ (x \in Embedded => x \in w.live)))
       \/ /\ ui.focus = "terminal" /\ ui.term # None
          /\ \E ok \in TermOutcomes(ui.term) :
                OnlyUi(FetchedTerm([ui EXCEPT !.follow = TRUE], ui.term, ok))

\* i
Interact ==
    /\ Key
    /\ ui.focus = "terminal" /\ ui.showTerm
    /\ OnlyUi([ui EXCEPT !.input = TRUE])

\* A key in the terminal's input mode goes to its session; Esc ends the mode.
TypeKey ==
    /\ Press("turn")
    /\ ui.input
    /\ \/ OnlyUi([ui EXCEPT !.input = FALSE])
       \/ \E ok \in TermOutcomes(ui.term) :
             OnlyUi(IF ok THEN FetchedTerm(ui, ui.term, ok) ELSE ui)

-----------------------------------------------------------------------------
(* Threads, and the rest of the world *)

Elapse ==
    /\ ui.time = "fresh"
    /\ ui' = [ui EXCEPT !.time = "old"]
    /\ UNCHANGED <<w, snap, teams, pc, reads, jobs, bell, last, keys, errors>>

\* request_snapshot_refresh: the snapshot, then the manifests, or an error.
ReadSnapshot(i) ==
    /\ reads[i].at = "asked"
    /\ \/ /\ reads' = [reads EXCEPT ![i].at = "read", ![i].snap = w]
          /\ UNCHANGED errors
       \/ /\ errors < MaxErrors
          /\ errors' = errors + 1
          /\ reads' = [reads EXCEPT ![i].at = "sent", ![i].ok = FALSE]
    /\ UNCHANGED <<w, snap, teams, ui, pc, jobs, bell, last, keys>>

ReadTeams(i) ==
    /\ reads[i].at = "read"
    /\ reads' = [reads EXCEPT ![i].at = "sent", ![i].teams = LoadTeams(w)]
    /\ UNCHANGED <<w, snap, teams, ui, pc, jobs, bell, last, keys, errors>>

\* request_event_refresh_on_new_events
Watch ==
    /\ bell.unseen
    /\ bell' = [unseen |-> FALSE, trigger |-> TRUE]
    /\ UNCHANGED <<w, snap, teams, ui, pc, reads, jobs, last, keys, errors>>

\* Other programs give commands and agents end.
Others ==
    /\ w.ver < MaxChanges
    /\ LET s == [w EXCEPT !.ver = @ + 1]
       IN  \/ \E c \in [act: {"acquire", "start", "cancel", "delete"},
                        on: SlotIds \cup SessionIds] : w' \in Effects(c, w)
           \/ \E x \in w.ended : w' = [s EXCEPT !.ended = @ \ {x}]
           \/ \E t \in TeamIds : w' = [s EXCEPT !.teams = IF t \in @ THEN @ \ {t} ELSE @ \cup {t}]
    /\ UNCHANGED <<snap, teams, ui, pc, reads, jobs, bell, last, keys, errors>>

Handle ==
    \/ MoveFocus \/ MoveSelection \/ Scroll \/ Escape \/ ToggleDashboard
    \/ OpenPrompt \/ OpenDialog \/ CloseDialog \/ SubmitPrompt \/ SubmitDialog
    \/ CancelSession \/ ReleaseSlot \/ Refresh \/ StartTask
    \/ OpenLog \/ OpenTerminal \/ Interact \/ TypeKey

Reading == \E i \in DOMAIN reads : ReadSnapshot(i) \/ ReadTeams(i)
Working == \E i \in DOMAIN jobs : JobRuns(i)

Next == Turn \/ NoKey \/ Quit \/ Handle \/ Elapse \/ Reading \/ Working \/ Watch \/ Others

Spec == Init /\ [][Next]_vars

\* The loop and the snapshot threads go on, and time passes.
Loops == pc # "off" /\ pc' \in {"turn", "key"} \ {pc}

FairSpec ==
    /\ Spec
    /\ WF_pc(Loops)
    /\ WF_vars(Reading)
    /\ WF_vars(Elapse)

-----------------------------------------------------------------------------
(* Properties *)

\* The world, the screen and what is on its way to it keep their types.
TypeOK ==
    /\ w \in Store /\ snap \in Store /\ teams \in Loaded
    /\ ui \in UiState
    /\ pc \in {"turn", "key", "off"}
    /\ reads \in Seq([at: {"asked", "read", "sent"}, ok: BOOLEAN, snap: Store, teams: Loaded])
    /\ jobs \in Seq([at: {"run", "sent"}, cmd: Command])
    /\ bell \in [unseen: BOOLEAN, trigger: BOOLEAN]
    /\ last \in [named: Dialog, given: Dialog]
    /\ keys \in 0 .. MaxKeys /\ errors \in 0 .. MaxErrors

\* What is drawn is well formed and consistent: cursors lie in their lists, the log and the
\* terminal do not show at the same time, and keys go into a terminal only
\* while the screen shows it, for a session the screen says is running.  At
\* most one snapshot is on its way, exactly when the flag says so, and the
\* status line counts the background commands that have not come back.
Consistent ==
    /\ TypeOK
    /\ Len(reads) = IF ui.inFlight THEN 1 ELSE 0
    /\ ui.pending = Len(jobs)
    /\ pc = "key" => \A l \in Lists :
          ui.selected[l] <= IF Count(l, snap, teams, ui) = 0 THEN 0
                            ELSE Count(l, snap, teams, ui) - 1
    /\ ~(ui.showLog /\ ui.showTerm)
    /\ ui.showTerm => ui.term # None
    /\ ui.input => ui.showTerm
    /\ pc = "key" /\ ui.input => ui.term \in snap.live \cap Embedded

\* The snapshot on the screen is never replaced by an older one.
NeverBack == [][snap'.ver >= snap.ver]_vars

\* A refresh does not move the dashboard's cursor to another team while the
\* selected one is still there.
CursorStays ==
    [][LET t == SelectedTeam(ui, teams)
       IN  (/\ teams' # teams
            /\ ui'.focus = "dashboard" => ui.focus = "dashboard"
            /\ Has("team", snap, teams, ui)
            /\ t \in teams'.teams) =>
              Has("team", snap', teams', ui') /\ SelectedTeam(ui', teams') = t]_vars

\* The command a dialog gives is about what the dialog named when it was opened:
\* no turn, snapshot, or reload of the teams in between gives it another target.
ActsOnNamed == last.given \in {Normal, last.named}

\* Whatever others do to the store, the screen shows it in the end.
Converges == <>[](pc = "off" \/ (snap = w /\ teams.teams = w.teams))

=============================================================================
