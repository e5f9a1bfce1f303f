------------------------------- MODULE Daemon -------------------------------
(***************************************************************************)
(* awod, the daemon that carries out commands one after the other, and the *)
(* clients that look for it, start it, call it or stop it.                 *)
(* crates/awo-core/src/daemon.rs, crates/awo-app/src/{awod,handlers}.rs.   *)
(*                                                                         *)
(* They meet in three files: a lock file that the daemon locks, a socket,  *)
(* and a pid file.  The kernel keeps a lock on the inode, not on the path: *)
(* a lock file that has been unlinked stays locked for whoever opened it,  *)
(* and the next daemon creates a new one.                                  *)
(*                                                                         *)
(* Abstracted: what a command does (see Workspace); clocks (a probe may    *)
(* miss its 250 ms, and a pid file be found young or old, at any time);    *)
(* writing the pid file is one step, and so are binding the socket and     *)
(* registering the signal handler; a dead child counts as dead at once,    *)
(* before its parent has waited for it.  Unix only.                        *)
(***************************************************************************)
EXTENDS Naturals, Sequences

CONSTANTS
    Daemons,    \* daemon processes
    Clients,    \* command line processes
    MaxTries,   \* bound on the polls before a wait of three seconds is over
    Faults,     \* what may happen to a daemon, of "stop" and "crash"
    None

ASSUME NoneIsNobody == None \notin Daemons \cup Clients
ASSUME TriesBound == MaxTries \in Nat

VARIABLES
    file,    \* the process behind each of the three files
    fd,      \* the lock file each daemon has opened
    dpc,     \* where each daemon is; "off" when there is no such process
    todo,    \* the files a daemon has still to remove
    asked,   \* the daemons whose shutdown flag is set
    busy,    \* the client whose connection a daemon is handling
    conn,    \* the daemon that holds an unfinished connection of a client
    cli,     \* what each client is doing
    calm     \* has no daemon been stopped or killed so far?  (history)

vars == <<file, fd, dpc, todo, asked, busy, conn, cli, calm>>
daemonVars == <<fd, dpc, todo, asked, busy>>

-----------------------------------------------------------------------------

Files == {"lock", "socket", "pid"}
DaemonSteps == {"off", "open", "lock", "clear", "pid", "bind", "serve", "clean"}
Holding == {"clear", "pid", "bind", "serve", "clean"}
Alive(d) == dpc[d] # "off"

\* The lock file is named after the daemon that created it.
Cleanup == <<"socket", "lock", "pid">>
StaleCleanup == <<"pid", "socket", "lock">>

\* ret: who asked for the status.  ran: how often the command was carried out.
IdleClient == [pc |-> "idle", ret |-> "boot", pid |-> None, child |-> None,
               tries |-> 0, todo |-> <<>>, ran |-> 0]

Init ==
    /\ file = [f \in Files |-> None]
    /\ fd = [d \in Daemons |-> None]
    /\ dpc = [d \in Daemons |-> "off"]
    /\ todo = [d \in Daemons |-> <<>>]
    /\ asked = {}
    /\ busy = [d \in Daemons |-> None]
    /\ conn = [c \in Clients |-> None]
    /\ cli = [c \in Clients |-> IdleClient]
    /\ calm = TRUE

\* A process id is not used again while anything still refers to it.
NewDaemon(d) ==
    /\ ~Alive(d)
    /\ \A f \in Files : file[f] # d
    /\ \A e \in Daemons : fd[e] # d
    /\ \A c \in Clients : cli[c].pid # d /\ cli[c].child # d /\ conn[c] # d

-----------------------------------------------------------------------------
(* The life of a daemon *)

At(c, pc) == cli[c].pc = pc
Move(d, from, to) == dpc[d] = from /\ dpc' = [dpc EXCEPT ![d] = to]

\* The process ends; the kernel drops its lock and its connections.
Dies(d) ==
    /\ dpc' = [dpc EXCEPT ![d] = "off"]
    /\ fd' = [fd EXCEPT ![d] = None]
    /\ todo' = [todo EXCEPT ![d] = <<>>]
    /\ asked' = asked \ {d}
    /\ busy' = [busy EXCEPT ![d] = None]
    /\ conn' = [c \in Clients |-> IF conn[c] = d THEN None ELSE conn[c]]

\* SIGTERM or SIGINT: a flag once the daemon listens, the end before.
Terminated(d) ==
    IF dpc[d] \in {"serve", "clean"}
    THEN asked' = asked \cup {d} /\ UNCHANGED <<fd, dpc, todo, busy, conn>>
    ELSE Dies(d)

\* `awo daemon start` in the foreground.
Foreground(d) ==
    /\ NewDaemon(d)
    /\ Move(d, "off", "open")
    /\ UNCHANGED <<file, fd, todo, asked, busy, conn, cli, calm>>

OpenAndClear(d) ==
    /\ Move(d, "open", "lock")
    /\ file' = [file EXCEPT !.lock = IF @ = None THEN d ELSE @, !.socket = None]
    /\ fd' = [fd EXCEPT ![d] = file'.lock]
    /\ UNCHANGED <<todo, asked, busy, conn, cli, calm>>

Open(d) ==
    /\ Move(d, "open", "lock")
    /\ file' = [file EXCEPT !.lock = IF @ = None THEN d ELSE @]
    /\ fd' = [fd EXCEPT ![d] = file'.lock]
    /\ UNCHANGED <<todo, asked, busy, conn, cli, calm>>

LockShared(d) ==
    /\ Move(d, "lock", "clear")
    /\ UNCHANGED <<file, fd, todo, asked, busy, conn, cli, calm>>

\* try_lock_exclusive: without the lock the process ends and removes nothing.
Lock(d) ==
    /\ dpc[d] = "lock"
    /\ IF \E e \in Daemons \ {d} : fd[e] = fd[d] /\ dpc[e] \in Holding
       THEN Dies(d)
       ELSE /\ Move(d, "lock", "clear")
            /\ UNCHANGED <<fd, todo, asked, busy, conn>>
    /\ UNCHANGED <<file, cli, calm>>

ClearSocket(d) ==
    /\ Move(d, "clear", "pid")
    /\ file' = [file EXCEPT !.socket = None]
    /\ UNCHANGED <<fd, todo, asked, busy, conn, cli, calm>>

WritePid(d) ==
    /\ Move(d, "pid", "bind")
    /\ file' = [file EXCEPT !.pid = d]
    /\ UNCHANGED <<fd, todo, asked, busy, conn, cli, calm>>

\* bind fails when the socket file exists; the server is then dropped.
Bind(d) ==
    /\ IF file.socket = None
       THEN /\ Move(d, "bind", "serve")
            /\ file' = [file EXCEPT !.socket = d]
            /\ UNCHANGED todo
       ELSE /\ Move(d, "bind", "clean")
            /\ todo' = [todo EXCEPT ![d] = Cleanup]
            /\ UNCHANGED file
    /\ UNCHANGED <<fd, asked, busy, conn, cli, calm>>

FreeAlways(d) == dpc[d] = "serve" /\ busy[d] = None

\* The loop looks at the flag before each connection.
Free(d) == dpc[d] = "serve" /\ d \notin asked /\ busy[d] = None

Accept(d) ==
    /\ Free(d)
    /\ \E c \in Clients : conn[c] = d /\ busy' = [busy EXCEPT ![d] = c]
    /\ UNCHANGED <<file, fd, dpc, todo, asked, conn, cli, calm>>

\* dispatch_rpc.  The connection is handled until its client closes it, at
\* once when the client has given up and the answer cannot be written.
Execute(d) ==
    LET c == busy[d]
    IN /\ c # None
       /\ conn[c] = d
       /\ conn' = [conn EXCEPT ![c] = None]
       /\ cli' = [cli EXCEPT ![c].ran = @ + 1,
                             ![c].pc = IF @ = "call" THEN "answered" ELSE @]
       /\ busy' = IF At(c, "call") THEN busy ELSE [busy EXCEPT ![d] = None]
       /\ UNCHANGED <<file, fd, dpc, todo, asked, calm>>

\* run returns and cleans up, then the server is dropped and cleans up again.
Shutdown(d) ==
    /\ d \in asked /\ busy[d] = None
    /\ Move(d, "serve", "clean")
    /\ todo' = [todo EXCEPT ![d] = Cleanup \o Cleanup]
    /\ UNCHANGED <<file, fd, asked, busy, conn, cli, calm>>

\* Whatever has the name by now is removed.
Remove(d) ==
    /\ dpc[d] = "clean"
    /\ file' = [file EXCEPT ![Head(todo[d])] = None]
    /\ IF Len(todo[d]) = 1 THEN Dies(d)
       ELSE /\ todo' = [todo EXCEPT ![d] = Tail(@)]
            /\ UNCHANGED <<fd, dpc, asked, busy, conn>>
    /\ UNCHANGED <<cli, calm>>

Interrupt(d) ==
    /\ "stop" \in Faults /\ Alive(d)
    /\ Terminated(d)
    /\ calm' = FALSE
    /\ UNCHANGED <<file, cli>>

Crash(d) ==
    /\ "crash" \in Faults /\ Alive(d)
    /\ Dies(d)
    /\ calm' = FALSE
    /\ UNCHANGED <<file, cli>>

-----------------------------------------------------------------------------
(* A client *)

Set(c, j) == cli' = [cli EXCEPT ![c] = j]
Goto(c, pc) == Set(c, [cli[c] EXCEPT !.pc = pc])
Status(c, ret) == Set(c, [IdleClient EXCEPT !.pc = "status", !.ret = ret])
AgainForever(c) == Set(c, [cli[c] EXCEPT !.pc = "status", !.pid = None])
Again(c) == /\ cli[c].tries < MaxTries
            /\ Set(c, [cli[c] EXCEPT !.pc = "status", !.pid = None, !.tries = @ + 1])
Leave(c, pc) == Set(c, [IdleClient EXCEPT !.pc = pc])
Ends(c) == Leave(c, "idle")

\* A command, or `awo daemon stop`.
Begin(c) ==
    /\ At(c, "idle")
    /\ \E ret \in {"boot"} \cup (Faults \cap {"stop"}) : Status(c, ret)
    /\ UNCHANGED <<file, daemonVars, conn, calm>>

\* What a client does with the status it asked for.
Concluded(c, status) ==
    LET ret == cli[c].ret
    IN \/ ret = "stop" /\ IF status = "notrunning" THEN Ends(c) ELSE Goto(c, "term")
       \/ ret # "stop" /\ status = "healthy" /\ Leave(c, "connect")
       \/ ret # "stop" /\ status = "degraded" /\ Leave(c, "direct")
       \/ ret = "boot" /\ status = "notrunning" /\ Status(c, "spawn")
       \/ ret = "spawn" /\ status = "notrunning" /\ Leave(c, "fork")
       \/ ret \in {"boot", "spawn"} /\ status = "starting" /\ Status(c, "wait")
       \/ ret = "wait" /\ status = "starting" /\ (Again(c) \/ Leave(c, "direct"))
       \/ ret = "wait" /\ status = "notrunning" /\ Leave(c, "direct")
       \/ /\ ret = "poll" /\ status \in {"starting", "notrunning"}
          /\ (Alive(cli[c].child) /\ Again(c)) \/ Leave(c, "direct")

StatusPid(c) ==
    /\ At(c, "status")
    /\ IF file.pid = None THEN Concluded(c, "notrunning")
       ELSE Set(c, [cli[c] EXCEPT !.pc = "alive", !.pid = file.pid])
    /\ UNCHANGED <<file, daemonVars, conn, calm>>

\* Nobody has this pid: what the dead daemon left behind is removed.
StatusAlive(c) ==
    /\ At(c, "alive")
    /\ IF Alive(cli[c].pid) THEN Goto(c, "probe")
       ELSE Set(c, [cli[c] EXCEPT !.pc = "clean", !.todo = StaleCleanup])
    /\ UNCHANGED <<file, daemonVars, conn, calm>>

\* A socket file is connected to as long as the process that bound it lives; an
\* answer comes from a daemon that is free to accept the connection.
Reachable == file.socket # None /\ Alive(file.socket)
Answering == Reachable /\ Free(file.socket)

StatusProbe(c) ==
    /\ At(c, "probe")
    /\ \/ Answering /\ Concluded(c, "healthy")
       \/ Concluded(c, "starting")
       \/ Concluded(c, "degraded")
    /\ UNCHANGED <<file, daemonVars, conn, calm>>

Clean(c) ==
    /\ At(c, "clean")
    /\ IF cli[c].todo = <<>>
       THEN UNCHANGED file /\ Concluded(c, "notrunning")
       ELSE /\ file' = [file EXCEPT ![Head(cli[c].todo)] = None]
            /\ Set(c, [cli[c] EXCEPT !.todo = Tail(@)])
    /\ UNCHANGED <<daemonVars, conn, calm>>

\* spawn_daemon, unless there is no awod to be run.
Fork(c) ==
    /\ At(c, "fork")
    /\ \/ \E d \in Daemons :
            /\ NewDaemon(d) /\ Move(d, "off", "open")
            /\ Set(c, [IdleClient EXCEPT !.pc = "status", !.ret = "poll", !.child = d])
       \/ Leave(c, "direct") /\ UNCHANGED dpc
    /\ UNCHANGED <<file, fd, todo, asked, busy, conn, calm>>

Connect(c) ==
    /\ At(c, "connect")
    /\ IF Reachable
       THEN conn' = [conn EXCEPT ![c] = file.socket] /\ Goto(c, "call")
       ELSE UNCHANGED conn /\ Leave(c, "direct")
    /\ UNCHANGED <<file, daemonVars, calm>>

CallFailsOver(c) ==
    /\ At(c, "call")
    /\ Leave(c, "direct")
    /\ UNCHANGED <<file, daemonVars, conn, calm>>

\* The client's thirty seconds are over, or the daemon closed the connection:
\* an error is reported and the client ends, while its request may still wait.
CallFails(c) ==
    /\ At(c, "call")
    /\ Goto(c, "gone")
    /\ UNCHANGED <<file, daemonVars, conn, calm>>

\* Carried out in the client's own process.
Direct(c) ==
    /\ At(c, "direct")
    /\ Set(c, [cli[c] EXCEPT !.pc = "answered", !.ran = @ + 1])
    /\ UNCHANGED <<file, daemonVars, conn, calm>>

\* The process of the client ends, and with it its connection.
Exit(c) ==
    /\ At(c, "answered") \/ (At(c, "gone") /\ conn[c] = None)
    /\ Ends(c)
    /\ busy' = [d \in Daemons |-> IF busy[d] = c THEN None ELSE busy[d]]
    /\ UNCHANGED <<file, fd, dpc, todo, asked, conn, calm>>

StopTerm(c) ==
    /\ At(c, "term")
    /\ Terminated(cli[c].pid)
    /\ Goto(c, "watch")
    /\ calm' = FALSE
    /\ UNCHANGED file

\* Until the process or its pid file is gone; after five seconds it is killed.
StopWatch(c) ==
    LET d == cli[c].pid
    IN /\ At(c, "watch")
       /\ \/ /\ ~Alive(d) \/ file.pid = None
             /\ UNCHANGED <<daemonVars, conn>>
          \/ Alive(d) /\ Dies(d)
       /\ Set(c, [cli[c] EXCEPT !.pc = "clean", !.todo = StaleCleanup])
       /\ UNCHANGED <<file, calm>>

-----------------------------------------------------------------------------

DaemonStep(d) ==
    \/ Open(d) \/ Lock(d) \/ ClearSocket(d) \/ WritePid(d) \/ Bind(d)
    \/ Accept(d) \/ Execute(d) \/ Shutdown(d) \/ Remove(d)

ClientStep(c) ==
    \/ StatusPid(c) \/ StatusAlive(c) \/ StatusProbe(c) \/ Clean(c)
    \/ Fork(c) \/ Connect(c) \/ CallFails(c) \/ Direct(c) \/ Exit(c)
    \/ StopTerm(c) \/ StopWatch(c)

Next ==
    \/ \E d \in Daemons : DaemonStep(d) \/ Foreground(d) \/ Interrupt(d) \/ Crash(d)
    \/ \E c \in Clients : Begin(c) \/ ClientStep(c)

Spec == Init /\ [][Next]_vars

\* Processes run on; what an operator does and accidents are choices.
FairSpec ==
    /\ Spec
    /\ \A d \in Daemons : WF_vars(DaemonStep(d))
    /\ \A c \in Clients : WF_vars(ClientStep(c))

-----------------------------------------------------------------------------

Client == [pc: {"idle", "status", "alive", "probe", "clean", "fork", "connect", "call",
                "gone", "direct", "answered", "term", "watch"},
           ret: {"boot", "spawn", "wait", "poll", "stop"},
           pid: Daemons \cup {None}, child: Daemons \cup {None},
           tries: 0..MaxTries, todo: Seq(Files), ran: Nat]

\* Files, processes and clients keep their types.
TypeOK ==
    /\ file \in [Files -> Daemons \cup {None}]
    /\ fd \in [Daemons -> Daemons \cup {None}]
    /\ dpc \in [Daemons -> DaemonSteps]
    /\ todo \in [Daemons -> Seq(Files)]
    /\ asked \subseteq Daemons
    /\ busy \in [Daemons -> Clients \cup {None}]
    /\ conn \in [Clients -> Daemons \cup {None}]
    /\ cli \in [Clients -> Client]
    /\ calm \in BOOLEAN

\* However many clients start a daemon at the same time, one gets the lock, as
\* long as none has been stopped or has died.
OneDaemon ==
    calm => \A d, e \in Daemons :
              dpc[d] \in Holding /\ dpc[e] \in Holding => d = e

\* The daemons that lost the race leave the files of the winner alone: clients
\* go on finding it.
Undisturbed ==
    calm => \A d \in Daemons :
              dpc[d] = "serve" => file = [f \in Files |-> IF f = "lock" THEN fd[d] ELSE d]

\* A command is carried out once at most, by a daemon or by the client itself,
\* and a client is told of success only when it was.
RanOnce ==
    \A c \in Clients : /\ cli[c].ran <= 1
                       /\ At(c, "answered") => cli[c].ran = 1

\* Every invocation of a client ends, whatever becomes of the daemon.
ClientsEnd == \A c \in Clients : ~At(c, "idle") ~> At(c, "idle") \/ At(c, "gone")

\* A daemon that is asked to shut down ends, however many clients call it.
ShutdownWorks == \A d \in Daemons : d \in asked ~> ~Alive(d)

=============================================================================
