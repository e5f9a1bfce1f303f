-------------------------------- MODULE Mcp ---------------------------------
(***************************************************************************)
(* The MCP server of crates/awo-mcp: main.rs reads one line of its input   *)
(* after the other, server.rs answers it and queues what the subscriber    *)
(* of a resource is told, and both are written before the next line is     *)
(* read.  The server has an AppCore of its own, so that other programs,    *)
(* and agents, change the store without a word to it.                      *)
(*                                                                         *)
(* The client is the environment: it sends what it likes, without waiting  *)
(* for answers, and reads a resource when it has subscribed to it and when *)
(* it is told of an update.  Of what a resource shows there is only        *)
(* whether it has changed since it was read.                               *)
(***************************************************************************)
EXTENDS Naturals, Sequences, FiniteSets, SequencesExt

CONSTANTS
    Uris,       \* resources the client asks for
    Tools,      \* tools it calls
    MaxCalls,   \* bound: messages it sends of its own accord
    MaxOthers   \* bound: changes by other programs

Resources == {"repos", "slots", "sessions", "review", "teams", "events"}
Listing == {"list_repos", "list_slots", "list_sessions", "list_teams", "show_team",
            "get_review_status", "get_session_log", "team_report"}
Changing == {"remove_repo", "acquire_slot", "release_slot", "start_session",
             "cancel_session", "init_team", "team_add_member", "team_add_task",
             "team_reset", "team_archive", "team_delete", "delegate_team_task"}
Bus == {"poll_events", "wait_events"}

ASSUME UrisKnown == Uris \subseteq Resources
ASSUME ToolsKnown == Tools \subseteq Listing \cup Changing \cup Bus
ASSUME BoundsNatural == MaxCalls \in Nat /\ MaxOthers \in Nat

VARIABLES
    input,      \* lines on the server's stdin
    output,     \* lines on its stdout
    server,     \* where its loop is, the subscriptions, what is queued
    client,     \* what the client waits for, wants and has to read again
    stale,      \* resources not read since they changed last (history)
    silent,     \* those of them whose last change had no event (history)
    others      \* changes by other programs (bound)

vars == <<input, output, server, client, stale, silent, others>>

-----------------------------------------------------------------------------
(* Messages and state *)

\* A request has a number; what has none is a notification, or is no JSON.
\* "plain": initialize, ping, the two lists and unknown methods, which are
\* answered from nothing (the flag that initialize sets is never read).
Message(id, method, arg) == [id |-> id, method |-> method, arg |-> arg]
Updated(uri) == Message(0, "updated", uri)
ParseError == Message(0, "parse error", "")

Init ==
    /\ input = <<>>
    /\ output = <<>>
    /\ server = [pc |-> "read", subscribed |-> {}, pending |-> <<>>, waiting |-> 0,
                 published |-> FALSE]
    /\ client = [sent |-> 0, waits |-> <<>>, wants |-> {}, again |-> {}]
    /\ stale = Resources
    /\ silent = {}
    /\ others = 0

-----------------------------------------------------------------------------
(* What tools do *)

\* map_tool_to_command and the commands behind it: the kinds of events that a
\* command returns.  The manifests are listed and shown without one, and a
\* delegation reports its slot and its session only.
Events(tool) ==
    CASE tool \in {"list_repos", "remove_repo"} -> {"command", "repo"}
      [] tool \in {"list_slots", "acquire_slot", "release_slot"} -> {"command", "slot"}
      [] tool \in {"list_sessions", "get_session_log", "start_session",
                   "cancel_session"} -> {"command", "session"}
      [] tool = "get_review_status" -> {"command", "review"}
      [] tool \in {"init_team", "team_add_member", "team_add_task", "team_reset",
                   "team_report", "team_archive", "team_delete"} -> {"team"}
      [] tool = "delegate_team_task" -> {"command", "slot", "session"}
      [] OTHER -> {}

\* The resources it changes, apart from the events.
Changes(tool) ==
    CASE tool = "remove_repo" -> {"repos", "slots", "sessions", "review"}
      [] tool \in {"acquire_slot", "release_slot"} -> {"slots", "review"}
      [] tool \in {"start_session", "cancel_session"} -> {"sessions"}
      [] tool \in {"init_team", "team_add_member", "team_add_task", "team_reset",
                   "team_archive", "team_delete"} -> {"teams"}
      [] tool = "delegate_team_task" -> {"slots", "review", "sessions", "teams"}
      [] OTHER -> {}

\* subscribed_resource_uris_for_event
UrisOf(kind) ==
    {"events"} \cup
    CASE kind = "command" -> {}
      [] kind = "repo" -> {"repos"}
      [] kind = "slot" -> {"slots", "review"}
      [] kind = "session" -> {"sessions"}
      [] kind = "review" -> {"review"}
      [] kind = "team" -> {"teams"}

Announced(tool) == UNION {UrisOf(kind) : kind \in Events(tool)}

\* read_resource goes by way of a listing command, whose events it shows, and
\* of a poll for the events themselves.
ListOf(uri) ==
    CASE uri = "repos" -> "list_repos"
      [] uri = "slots" -> "list_slots"
      [] uri = "sessions" -> "list_sessions"
      [] uri = "review" -> "get_review_status"
      [] uri = "teams" -> "list_teams"
      [] uri = "events" -> "poll_events"

\* Every event is published on the server's own bus.
Published(tool) == IF Events(tool) = {} THEN {} ELSE {"events"}

\* The resources in S change, and there is an event for those in T.
Changed(S, T) ==
    /\ stale' = stale \cup S
    /\ silent' = (silent \ (S \cap T)) \cup (S \ T)

-----------------------------------------------------------------------------
(* The server *)

Line == Head(input)
Reading(method) ==
    /\ server.pc = "read" /\ input # <<>> /\ Line.method = method
    /\ input' = Tail(input)
    /\ UNCHANGED <<client, others>>

\* handle_message, handle_tools_call: errors are answers too.
Answer == output' = Append(output, Line)
Unchanged == UNCHANGED <<stale, silent>>
Flush == [server EXCEPT !.pc = "flush"]

\* No answer to a notification.
Ignore ==
    /\ Reading("notification")
    /\ server' = Flush
    /\ UNCHANGED output /\ Unchanged

Garbage ==
    /\ Reading("garbage")
    /\ output' = Append(output, ParseError)
    /\ UNCHANGED server /\ Unchanged

Plain ==
    /\ Reading("plain")
    /\ Answer /\ Unchanged
    /\ server' = Flush

\* handle_resources_subscribe, handle_resources_unsubscribe
SubscribedLast(uri) == {uri}

Subscribed(uri) == server.subscribed \cup {uri}

Subscribe ==
    /\ Reading("subscribe")
    /\ Answer /\ Unchanged
    /\ server' = [Flush EXCEPT !.subscribed = Subscribed(Line.arg)]

Unsubscribe ==
    /\ Reading("unsubscribe")
    /\ Answer /\ Unchanged
    /\ server' = [Flush EXCEPT !.subscribed = @ \ {Line.arg}]

\* queue_resource_notifications: each resource once, in a fixed order.
Queued(tool) == server.pending \o SetToSeq(Announced(tool) \cap server.subscribed)

\* handle_resources_read queues nothing, though its command has events.
QueuedAfterReadToo(tool) == Queued(tool)

QueuedAfterRead(tool) == server.pending

ReadResource ==
    /\ Reading("read")
    /\ Answer
    /\ LET tool == ListOf(Line.arg)
       IN  /\ stale' = (stale \ {Line.arg}) \cup Published(tool)
           /\ silent' = (silent \ {Line.arg}) \cup Published(tool)
           /\ server' = [Flush EXCEPT !.pending = QueuedAfterRead(tool),
                                      !.published = @ \/ Published(tool) # {}]

\* execute_tool
CallTool ==
    /\ Reading("call") /\ Line.arg # "wait_events"
    /\ Answer
    /\ LET tool == Line.arg
       IN  /\ Changed(Changes(tool) \cup Published(tool), Announced(tool))
           /\ server' = [Flush EXCEPT !.pending = Queued(tool),
                                      !.published = @ \/ Published(tool) # {}]

\* A command that is refused, or fails after it has changed something, has no
\* events: a session that cannot be launched stays in the table as failed.
CallFails ==
    /\ Reading("call") /\ Line.arg \in Changing
    /\ Answer
    /\ \E S \in SUBSET Changes(Line.arg) : Changed(S, {})
    /\ server' = Flush

\* wait_events: the only thread that publishes is the one that waits, so what
\* is not there yet does not come before the timeout.
WaitEventsAside ==
    /\ Reading("call") /\ Line.arg = "wait_events"
    /\ Unchanged
    /\ UNCHANGED output
    /\ server' = [server EXCEPT !.waiting = Line.id]

WaitEvents ==
    /\ Reading("call") /\ Line.arg = "wait_events"
    /\ Unchanged
    /\ \/ server.published /\ Answer /\ server' = Flush
       \/ UNCHANGED output /\ server' = [server EXCEPT !.pc = "wait", !.waiting = Line.id]

WaitTimeout ==
    /\ server.waiting # 0
    /\ output' = Append(output, Message(server.waiting, "call", "wait_events"))
    /\ server' = [Flush EXCEPT !.waiting = 0]
    /\ UNCHANGED <<input, client, stale, silent, others>>

\* take_pending_notifications, written behind the answer.
WriteNotifications ==
    /\ server.pc = "flush"
    /\ output' = output \o [i \in DOMAIN server.pending |-> Updated(server.pending[i])]
    /\ server' = [server EXCEPT !.pc = "read", !.pending = <<>>]
    /\ UNCHANGED <<input, client, stale, silent, others>>

Server ==
    \/ Ignore \/ Garbage \/ Plain \/ Subscribe \/ Unsubscribe \/ ReadResource
    \/ CallTool \/ CallFails \/ WaitEvents \/ WaitTimeout \/ WriteNotifications

-----------------------------------------------------------------------------
(* The client, and other programs *)

FreeId == CHOOSE n \in 1 .. Len(client.waits) + 1 :
            \A i \in DOMAIN client.waits : client.waits[i] # n

\* The client sends a message and waits for its answer, if there is to be one.
Sends(c, method, arg) ==
    LET id == IF method \in {"notification", "garbage"} THEN 0 ELSE FreeId
    IN  /\ input' = Append(input, Message(id, method, arg))
        /\ client' = IF id = 0 THEN c ELSE [c EXCEPT !.waits = Append(@, id)]
        /\ UNCHANGED <<output, server, stale, silent, others>>

Call ==
    /\ client.sent < MaxCalls
    /\ LET c == [client EXCEPT !.sent = @ + 1]
       IN  \/ \E method \in {"plain", "notification", "garbage"} : Sends(c, method, "")
           \/ \E method \in {"subscribe", "unsubscribe", "read"}, uri \in Uris :
                 Sends(c, method, uri)
           \/ \E tool \in Tools : Sends(c, "call", tool)

ReadAgain ==
    \E uri \in client.again : Sends([client EXCEPT !.again = @ \ {uri}], "read", uri)

Receive ==
    /\ output # <<>>
    /\ output' = Tail(output)
    /\ LET line == Head(output)
           c == IF line.id = 0 THEN client
                ELSE [client EXCEPT !.waits = RemoveFirst(@, line.id)]
       IN  client' =
             CASE line.method = "updated" ->
                    [c EXCEPT !.again = @ \cup ({line.arg} \cap c.wants)]
               [] line.method = "subscribe" ->
                    [c EXCEPT !.wants = @ \cup {line.arg}, !.again = @ \cup {line.arg}]
               [] line.method = "unsubscribe" ->
                    [c EXCEPT !.wants = @ \ {line.arg}, !.again = @ \ {line.arg}]
               [] OTHER -> c
    /\ UNCHANGED <<input, server, stale, silent, others>>

Others ==
    /\ others < MaxOthers
    /\ others' = others + 1
    /\ \E r \in Uris : Changed({r}, {})
    /\ UNCHANGED <<input, output, server, client>>

Next == Server \/ Call \/ ReadAgain \/ Receive \/ Others

Spec == Init /\ [][Next]_vars

\* The server's loop goes on, a wait ends with its timeout, and the client
\* takes what it is sent and reads what it has to.
FairSpec == Spec /\ WF_vars(Server) /\ WF_vars(Receive) /\ WF_vars(ReadAgain)

-----------------------------------------------------------------------------
(* Properties *)

\* The numbers under way, the oldest first, with 0 for lines that have none: of
\* the answers, of the wait for events, and of what the server has not read.
Ids(lines) == [i \in DOMAIN lines |-> lines[i].id]
Numbers == Ids(output) \o <<server.waiting>> \o Ids(input)
Numbered == {k \in DOMAIN Numbers : Numbers[k] # 0}

\* Every request is answered once, in the order of the requests, also past a
\* wait for events, and nothing else is answered under a number: what the client
\* waits for and what is under way are the same numbers, once and in one order.
AnsweredInOrder ==
    /\ {Numbers[k] : k \in Numbered} = ToSet(client.waits)
    /\ \A i, j \in DOMAIN client.waits, k, m \in Numbered :
          client.waits[i] = Numbers[k] /\ client.waits[j] = Numbers[m]
             => (i < j <=> k < m)

AtRest ==
    /\ input = <<>> /\ output = <<>> /\ server.pc = "read"
    /\ client.again = {}

\* When nothing is under way, a client that reads what it is told of has what
\* the resources it subscribed to show now, except for changes the server
\* itself has no event for: those of other programs, of failed commands, of
\* reads, what a removed repository takes with it, and what a delegation does
\* to the team.
Coherent == AtRest => client.wants \cap stale \subseteq silent

\* Telling a client what has changed comes to an end: what it reads for that
\* does not count as a change again.
Rests == <>[]AtRest

=============================================================================
