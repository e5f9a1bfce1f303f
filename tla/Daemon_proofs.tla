---------------------------- MODULE Daemon_proofs ----------------------------
(***************************************************************************)
(* Proofs about Daemon, for any number of daemons and clients and for all  *)
(* faults.  Everything rests on one inductive invariant: the lock of an    *)
(* inode has one holder; as long as nobody was stopped or killed (calm)    *)
(* no file is ever taken from the daemon that owns it; and a connection    *)
(* stands for a command that has not been carried out.                     *)
(***************************************************************************)
EXTENDS Daemon, SequenceTheorems, TLAPS

\* A daemon that cleans up has something left to remove.
Cleaning == \A d \in Daemons : dpc[d] = "clean" => Len(todo[d]) > 0

\* A client that looks at a process knows which.
Pids == \A c \in Clients :
          cli[c].pc \in {"alive", "probe", "term", "watch"} => cli[c].pid \in Daemons

\* Two daemons never hold the lock of the same inode.
Locks == \A d, e \in Daemons :
           dpc[d] \in Holding /\ dpc[e] \in Holding /\ fd[d] = fd[e] => d = e

\* Without a stop or a crash: everyone has opened the same lock file, the files
\* belong to the daemon that serves, and nobody cleans up.
CalmDaemon(d) ==
    /\ dpc[d] # "clean"
    /\ dpc[d] \in Holding \cup {"lock"} => fd[d] = file["lock"] /\ fd[d] # None
    /\ dpc[d] \in {"bind", "serve"} => file["pid"] = d
    /\ dpc[d] = "serve" => file["socket"] = d
CalmClient(c) ==
    /\ cli[c].pc \notin {"clean", "watch"}
    /\ cli[c].pid # None => dpc[cli[c].pid] \in {"bind", "serve"}
CalmInv ==
    calm => /\ asked = {}
            /\ file["pid"] # None => dpc[file["pid"]] \in {"bind", "serve"}
            /\ file["socket"] # None => dpc[file["socket"]] = "serve"
            /\ \A d \in Daemons : CalmDaemon(d)
            /\ \A c \in Clients : CalmClient(c)

\* A command is carried out when its client is answered, and may have been when
\* its client has given up; a connection stands for one that was not.
RanClient(c) ==
    /\ cli[c].ran \in {0, 1}
    /\ cli[c].pc = "answered" => cli[c].ran = 1
    /\ cli[c].pc \notin {"gone", "answered"} => cli[c].ran = 0
    /\ conn[c] # None => cli[c].pc \in {"call", "gone"} /\ cli[c].ran = 0
RanInv == \A c \in Clients : RanClient(c)

-----------------------------------------------------------------------------
(* Types *)

\* The initial record of a client has the type of one.
LEMMA IdleIsClient == IdleClient \in Client
  BY TriesBound DEF IdleClient, Client, Files

\* Wherever a status leads, the client is not in a call, has forgotten the
\* process unless it is going to stop it, and has not run its command again.
Onward == {"idle", "status", "connect", "direct", "fork"}
Follows(c, st, j) ==
    /\ j \in Client
    /\ cli' = [cli EXCEPT ![c] = j]
    /\ \/ j.pc \in Onward /\ j.pid = None
       \/ j.pc = "term" /\ j.pid = cli[c].pid /\ st # "notrunning"
    /\ j.ran \in {0, cli[c].ran}

LEMMA ConcludedFollows ==
  ASSUME TypeOK, NEW c \in Clients, NEW st, Concluded(c, st)
  PROVE  \E j : Follows(c, st, j)
<1> USE DEF Onward
<1>0. cli[c] \in Client
  BY DEF TypeOK
<1>1. ASSUME NEW pc \in Onward, Leave(c, pc)
      PROVE  \E j : Follows(c, st, j)
  <2> DEFINE j == [IdleClient EXCEPT !.pc = pc]
  <2>1. j \in Client /\ j.pc = pc /\ j.pid = None /\ j.ran = 0
    BY IdleIsClient DEF IdleClient, Client
  <2>2. cli' = [cli EXCEPT ![c] = j]
    BY <1>1 DEF Leave, Set
  <2> QED
    BY <2>1, <2>2 DEF Follows
<1>2. ASSUME NEW ret \in {"boot", "spawn", "wait"}, Status(c, ret)
      PROVE  \E j : Follows(c, st, j)
  <2> DEFINE j == [IdleClient EXCEPT !.pc = "status", !.ret = ret]
  <2>1. j \in Client /\ j.pc = "status" /\ j.pid = None /\ j.ran = 0
    BY IdleIsClient DEF IdleClient, Client
  <2>2. cli' = [cli EXCEPT ![c] = j]
    BY <1>2 DEF Status, Set
  <2> QED
    BY <2>1, <2>2 DEF Follows
<1>3. ASSUME Again(c)
      PROVE  \E j : Follows(c, st, j)
  <2> DEFINE j == [cli[c] EXCEPT !.pc = "status", !.pid = None, !.tries = @ + 1]
  <2>0. cli[c].tries + 1 \in 0..MaxTries
    BY <1>0, <1>3, TriesBound DEF Again, Client
  <2>1. j \in Client /\ j.pc = "status" /\ j.pid = None /\ j.ran = cli[c].ran
    BY <1>0, <2>0 DEF Client
  <2>2. cli' = [cli EXCEPT ![c] = j]
    BY <1>3 DEF Again, Set
  <2> QED
    BY <2>1, <2>2 DEF Follows
<1>4. ASSUME Goto(c, "term"), st # "notrunning"
      PROVE  \E j : Follows(c, st, j)
  <2> DEFINE j == [cli[c] EXCEPT !.pc = "term"]
  <2>1. j \in Client /\ j.pc = "term" /\ j.pid = cli[c].pid /\ j.ran = cli[c].ran
    BY <1>0 DEF Client
  <2>2. cli' = [cli EXCEPT ![c] = j]
    BY <1>4 DEF Goto, Set
  <2> QED
    BY <1>4, <2>1, <2>2 DEF Follows
<1> QED
  BY <1>1, <1>2, <1>3, <1>4 DEF Concluded, Ends

\* The end of a process keeps the types.
LEMMA DiesType ==
  ASSUME TypeOK, NEW d \in Daemons, Dies(d)
  PROVE  /\ fd' \in [Daemons -> Daemons \cup {None}]
         /\ dpc' \in [Daemons -> DaemonSteps]
         /\ todo' \in [Daemons -> Seq(Files)]
         /\ asked' \subseteq Daemons
         /\ busy' \in [Daemons -> Clients \cup {None}]
         /\ conn' \in [Clients -> Daemons \cup {None}]
         /\ Cleaning => Cleaning'
  BY DEF TypeOK, Dies, DaemonSteps, Cleaning

LEMMA TerminatedType ==
  ASSUME TypeOK, NEW d \in Daemons, Terminated(d)
  PROVE  /\ fd' \in [Daemons -> Daemons \cup {None}]
         /\ dpc' \in [Daemons -> DaemonSteps]
         /\ todo' \in [Daemons -> Seq(Files)]
         /\ asked' \subseteq Daemons
         /\ busy' \in [Daemons -> Clients \cup {None}]
         /\ conn' \in [Clients -> Daemons \cup {None}]
         /\ Cleaning => Cleaning'
<1>1. CASE dpc[d] \in {"serve", "clean"}
  BY <1>1 DEF TypeOK, Terminated, Cleaning
<1>2. CASE dpc[d] \notin {"serve", "clean"}
  BY <1>2, DiesType DEF Terminated
<1> QED
  BY <1>1, <1>2

Types == TypeOK /\ Cleaning /\ Pids

\* The files that are to be removed.
LEMMA CleanupSeq ==
  /\ Cleanup \in Seq(Files) /\ Len(Cleanup) > 0
  /\ Cleanup \o Cleanup \in Seq(Files) /\ Len(Cleanup \o Cleanup) > 0
  /\ StaleCleanup \in Seq(Files)
<1>1. Cleanup \in Seq(Files) /\ Len(Cleanup) = 3 /\ StaleCleanup \in Seq(Files)
  BY DEF Cleanup, StaleCleanup, Files
<1>2. \A s \in Seq(Files) : s \o s \in Seq(Files) /\ Len(s \o s) = Len(s) + Len(s)
  BY ConcatProperties
<1>3. /\ Cleanup \o Cleanup \in Seq(Files)
      /\ Len(Cleanup \o Cleanup) = Len(Cleanup) + Len(Cleanup)
  BY <1>1, <1>2, Zenon
<1> QED
  BY <1>1, <1>3

\* The client whose command is carried out.
LEMMA RanType ==
  ASSUME NEW j \in Client
  PROVE  LET p == IF j.pc = "call" THEN "answered" ELSE j.pc
             k == [j EXCEPT !.ran = @ + 1, !.pc = p]
         IN k \in Client /\ k.pid = j.pid /\ k.pc = p /\ k.ran = j.ran + 1
<1> DEFINE p == IF j.pc = "call" THEN "answered" ELSE j.pc
<1>1. j.ran + 1 \in Nat
  BY DEF Client
<1>2. [j EXCEPT !.ran = @ + 1] \in Client
  BY <1>1 DEF Client
<1>3. p \in {"idle", "status", "alive", "probe", "clean", "fork", "connect", "call",
             "gone", "direct", "answered", "term", "watch"}
  BY DEF Client
<1> HIDE DEF p
<1>4. LET k == [j EXCEPT !.ran = @ + 1, !.pc = p]
      IN k \in Client /\ k.pid = j.pid /\ k.pc = p /\ k.ran = j.ran + 1
  BY <1>1, <1>3 DEF Client
<1> QED
  BY <1>4 DEF p

\* A step of a daemon keeps the types.
LEMMA DaemonTypes ==
  ASSUME Types, NEW d \in Daemons,
         DaemonStep(d) \/ Foreground(d) \/ Interrupt(d) \/ Crash(d)
  PROVE  Types'
<1> USE DEF Types, TypeOK, Cleaning, Pids
<1>1. CASE Open(d)
  BY <1>1 DEF Open, Move, DaemonSteps, Files
<1>2. CASE Lock(d)
  <2>1. CASE Dies(d) /\ UNCHANGED <<file, cli, calm>>
    BY <2>1, DiesType
  <2>2. CASE Move(d, "lock", "clear") /\ UNCHANGED <<file, cli, calm, fd, todo, asked, busy, conn>>
    BY <2>2 DEF Move, DaemonSteps
  <2> QED
    BY <1>2, <2>1, <2>2 DEF Lock
<1>3. CASE ClearSocket(d)
  BY <1>3 DEF ClearSocket, Move, DaemonSteps, Files
<1>4. CASE WritePid(d)
  BY <1>4 DEF WritePid, Move, DaemonSteps, Files
<1>5. CASE Bind(d)
  BY <1>5, CleanupSeq, ZenonT(60) DEF Bind, Move, DaemonSteps, Files
<1>6. CASE Accept(d)
  BY <1>6 DEF Accept
<1>7. CASE Execute(d)
  <2> DEFINE c == busy[d]
  <2>1. c \in Clients /\ cli[c] \in Client
    BY <1>7 DEF Execute
  <2>2. /\ conn' = [conn EXCEPT ![c] = None]
        /\ cli' = [cli EXCEPT ![c].ran = @ + 1,
                              ![c].pc = IF @ = "call" THEN "answered" ELSE @]
        /\ busy' \in {busy, [busy EXCEPT ![d] = None]}
        /\ UNCHANGED <<file, fd, dpc, todo, asked, calm>>
    BY <1>7 DEF Execute
  <2>3. cli' \in [Clients -> Client] /\ Pids'
    <3> DEFINE p == IF cli[c].pc = "call" THEN "answered" ELSE cli[c].pc
               j == [cli[c] EXCEPT !.ran = @ + 1, !.pc = p]
    <3>1. /\ j \in Client /\ j.pid = cli[c].pid /\ j.pc = p
          /\ p \in {"alive", "probe", "term", "watch"} => p = cli[c].pc
      BY <2>1, RanType
    <3>2. cli' = [cli EXCEPT ![c] = j]
      BY <2>1, <2>2
    <3> QED
      BY <2>1, <3>1, <3>2
  <2> QED
    BY <2>1, <2>2, <2>3
<1>8. CASE Shutdown(d)
  BY <1>8, CleanupSeq DEF Shutdown, Move, DaemonSteps
<1>9. CASE Remove(d)
  <2>1. file' \in [Files -> Daemons \cup {None}] /\ UNCHANGED <<cli, calm>>
    BY <1>9 DEF Remove
  <2>2. CASE Dies(d)
    BY <2>1, <2>2, DiesType
  <2>3. CASE /\ Len(todo[d]) # 1
             /\ todo' = [todo EXCEPT ![d] = Tail(@)]
             /\ UNCHANGED <<fd, dpc, asked, busy, conn>>
    <3>1. todo[d] \in Seq(Files) /\ Len(todo[d]) > 0
      BY <1>9 DEF Remove
    <3>2. Tail(todo[d]) \in Seq(Files) /\ Len(Tail(todo[d])) = Len(todo[d]) - 1
      BY <3>1
    <3> QED
      BY <2>1, <2>3, <3>1, <3>2
  <2> QED
    BY <1>9, <2>2, <2>3 DEF Remove
<1>10. CASE Foreground(d)
  BY <1>10 DEF Foreground, Move, DaemonSteps
<1>11. CASE Interrupt(d)
  BY <1>11, TerminatedType DEF Interrupt
<1>12. CASE Crash(d)
  BY <1>12, DiesType DEF Crash
<1> QED
  BY <1>1, <1>2, <1>3, <1>4, <1>5, <1>6, <1>7, <1>8, <1>9, <1>10, <1>11, <1>12 DEF DaemonStep

\* A client that goes on where a status led it has the right type.
LEMMA FollowsTypes ==
  ASSUME TypeOK, Pids, NEW c \in Clients, NEW st, NEW j, Follows(c, st, j),
         st # "notrunning" => cli[c].pid \in Daemons
  PROVE  cli' \in [Clients -> Client] /\ Pids'
  BY DEF TypeOK, Pids, Follows, Onward

LEMMA ConcludedTypes ==
  ASSUME TypeOK, Pids, NEW c \in Clients, NEW st, Concluded(c, st),
         st # "notrunning" => cli[c].pid \in Daemons
  PROVE  cli' \in [Clients -> Client] /\ Pids'
  BY ConcludedFollows, FollowsTypes

\* One that replaces its record by another of the right type, too.
LEMMA SetTypes ==
  ASSUME TypeOK, Pids, NEW c \in Clients, NEW j \in Client, cli' = [cli EXCEPT ![c] = j],
         j.pc \in {"alive", "probe", "term", "watch"} => j.pid \in Daemons
  PROVE  cli' \in [Clients -> Client] /\ Pids'
  BY DEF TypeOK, Pids

\* The steps of a client that only change the place in its program.
ClientSteps == {"idle", "status", "alive", "probe", "clean", "fork", "connect", "call",
                "gone", "direct", "answered", "term", "watch"}
LEMMA GotoTypes ==
  ASSUME TypeOK, Pids, NEW c \in Clients, NEW pc \in ClientSteps, Goto(c, pc),
         pc \in {"alive", "probe", "term", "watch"} => cli[c].pid \in Daemons
  PROVE  /\ cli' \in [Clients -> Client] /\ Pids'
         /\ \E j \in Client : /\ cli' = [cli EXCEPT ![c] = j]
                             /\ j.pc = pc /\ j.pid = cli[c].pid /\ j.ran = cli[c].ran
<1> DEFINE j == [cli[c] EXCEPT !.pc = pc]
<1>1. j \in Client /\ j.pc = pc /\ j.pid = cli[c].pid /\ j.ran = cli[c].ran
  BY ZenonT(60) DEF TypeOK, Client, ClientSteps
<1>2. cli' = [cli EXCEPT ![c] = j]
  BY DEF Goto, Set
<1> HIDE DEF j
<1> QED
  BY <1>1, <1>2, SetTypes

LEMMA FreshTypes ==
  ASSUME TypeOK, Pids, NEW c \in Clients, NEW pc \in Onward,
         Leave(c, pc) \/ (\E ret \in {"boot", "spawn", "wait", "stop"} :
                            pc = "status" /\ Status(c, ret))
  PROVE  /\ cli' \in [Clients -> Client] /\ Pids'
         /\ \E j \in Client : /\ cli' = [cli EXCEPT ![c] = j]
                             /\ j.pc = pc /\ j.pid = None /\ j.ran = 0
<1>1. \E j \in Client : /\ cli' = [cli EXCEPT ![c] = j]
                      /\ j.pc = pc /\ j.pid = None /\ j.ran = 0
  <2>1. CASE Leave(c, pc)
    <3> DEFINE j == [IdleClient EXCEPT !.pc = pc]
    <3>1. j \in Client /\ j.pc = pc /\ j.pid = None /\ j.ran = 0
      BY IdleIsClient DEF IdleClient, Client, Onward
    <3> QED
      BY <2>1, <3>1 DEF Leave, Set
  <2>2. ASSUME NEW ret \in {"boot", "spawn", "wait", "stop"}, pc = "status", Status(c, ret)
        PROVE  \E j \in Client : /\ cli' = [cli EXCEPT ![c] = j]
                               /\ j.pc = pc /\ j.pid = None /\ j.ran = 0
    <3> DEFINE j == [IdleClient EXCEPT !.pc = "status", !.ret = ret]
    <3>1. j \in Client /\ j.pc = "status" /\ j.pid = None /\ j.ran = 0
      BY IdleIsClient DEF IdleClient, Client
    <3> QED
      BY <2>2, <3>1 DEF Status, Set
  <2> QED
    BY <2>1, <2>2
<1> QED
  BY <1>1, SetTypes DEF Onward

\* A client that starts to clean up.
LEMMA CleanTypes ==
  ASSUME TypeOK, Pids, NEW c \in Clients,
         Set(c, [cli[c] EXCEPT !.pc = "clean", !.todo = StaleCleanup])
  PROVE  /\ cli' \in [Clients -> Client] /\ Pids'
         /\ \E j \in Client : /\ cli' = [cli EXCEPT ![c] = j]
                             /\ j.pc = "clean" /\ j.ran = cli[c].ran
<1> DEFINE j == [cli[c] EXCEPT !.pc = "clean", !.todo = StaleCleanup]
<1>1. j \in Client /\ j.pc = "clean" /\ j.ran = cli[c].ran
  BY CleanupSeq, ZenonT(60) DEF TypeOK, Client
<1>2. cli' = [cli EXCEPT ![c] = j]
  BY DEF Set
<1> HIDE DEF j
<1> QED
  BY <1>1, <1>2, SetTypes

\* A step of a client keeps the types.
LEMMA ClientTypes ==
  ASSUME Types, NEW c \in Clients, Begin(c) \/ ClientStep(c)
  PROVE  Types'
<1>0. TypeOK /\ Cleaning /\ Pids /\ cli[c] \in Client
  BY DEF Types, TypeOK
<1>1. CASE Begin(c)
  <2>1. cli' \in [Clients -> Client] /\ Pids'
    <3>1. PICK ret \in {"boot", "stop"} : Status(c, ret)
      BY <1>1 DEF Begin
    <3>2. "status" \in Onward
      BY DEF Onward
    <3> QED
      BY <1>0, <3>1, <3>2, FreshTypes
  <2> QED
    BY <1>0, <1>1, <2>1 DEF Begin, Types, TypeOK, Cleaning, daemonVars
<1>2. CASE StatusPid(c)
  <2>1. ASSUME file.pid = None, Concluded(c, "notrunning")
        PROVE  cli' \in [Clients -> Client] /\ Pids'
    BY <1>0, <2>1, ConcludedTypes
  <2>2. ASSUME file.pid # None,
               Set(c, [cli[c] EXCEPT !.pc = "alive", !.pid = file.pid])
        PROVE  cli' \in [Clients -> Client] /\ Pids'
    <3> DEFINE j == [cli[c] EXCEPT !.pc = "alive", !.pid = file.pid]
    <3>1. j \in Client /\ j.pid \in Daemons
      BY <1>0, <2>2 DEF TypeOK, Client, Files
    <3>2. cli' = [cli EXCEPT ![c] = j]
      BY <2>2 DEF Set
    <3> HIDE DEF j
    <3> QED
      BY <1>0, <3>1, <3>2, SetTypes
  <2>3. cli' \in [Clients -> Client] /\ Pids'
    BY <1>2, <2>1, <2>2 DEF StatusPid
  <2> QED
    BY <1>0, <1>2, <2>3 DEF StatusPid, Types, TypeOK, Cleaning, daemonVars
<1>3. CASE StatusAlive(c)
  <2>1. cli[c].pid \in Daemons
    BY <1>0, <1>3 DEF StatusAlive, Pids, At
  <2>2. cli' \in [Clients -> Client] /\ Pids'
    BY <1>0, <1>3, <2>1, GotoTypes, CleanTypes DEF StatusAlive, ClientSteps
  <2> QED
    BY <1>0, <1>3, <2>2 DEF StatusAlive, Types, TypeOK, Cleaning, daemonVars
<1>4. CASE StatusProbe(c)
  <2>1. cli[c].pid \in Daemons
    BY <1>0, <1>4 DEF StatusProbe, Pids, At
  <2>2. cli' \in [Clients -> Client] /\ Pids'
    BY <1>0, <1>4, <2>1, ConcludedTypes DEF StatusProbe
  <2> QED
    BY <1>0, <1>4, <2>2 DEF StatusProbe, Types, TypeOK, Cleaning, daemonVars
<1>5. CASE Clean(c)
  <2>1. ASSUME UNCHANGED file, Concluded(c, "notrunning")
        PROVE  /\ cli' \in [Clients -> Client] /\ Pids'
               /\ file' \in [Files -> Daemons \cup {None}]
    BY <1>0, <2>1, ConcludedTypes DEF TypeOK
  <2>2. ASSUME cli[c].todo # <<>>,
               file' = [file EXCEPT ![Head(cli[c].todo)] = None],
               Set(c, [cli[c] EXCEPT !.todo = Tail(@)])
        PROVE  /\ cli' \in [Clients -> Client] /\ Pids'
               /\ file' \in [Files -> Daemons \cup {None}]
    <3> DEFINE j == [cli[c] EXCEPT !.todo = Tail(@)]
    <3>1. Tail(cli[c].todo) \in Seq(Files)
      BY <1>0, <2>2 DEF Client
    <3>2. j \in Client /\ j.pc = "clean"
      BY <1>0, <1>5, <3>1 DEF Client, Clean, At
    <3>3. cli' = [cli EXCEPT ![c] = j]
      BY <2>2 DEF Set
    <3> HIDE DEF j
    <3> QED
      BY <1>0, <2>2, <3>2, <3>3, SetTypes DEF TypeOK
  <2>3. /\ cli' \in [Clients -> Client] /\ Pids'
        /\ file' \in [Files -> Daemons \cup {None}]
    BY <1>0, <1>5, <2>1, <2>2 DEF Clean, TypeOK
  <2> QED
    BY <1>0, <1>5, <2>3 DEF Clean, Types, TypeOK, Cleaning, daemonVars
<1>6. CASE Fork(c)
  <2>1. ASSUME Leave(c, "direct"), UNCHANGED dpc
        PROVE  /\ cli' \in [Clients -> Client] /\ Pids'
               /\ dpc' \in [Daemons -> DaemonSteps]
    BY <1>0, <2>1, FreshTypes DEF TypeOK, Onward
  <2>2. ASSUME NEW d \in Daemons, Move(d, "off", "open"),
               Set(c, [IdleClient EXCEPT !.pc = "status", !.ret = "poll", !.child = d])
        PROVE  /\ cli' \in [Clients -> Client] /\ Pids'
               /\ dpc' \in [Daemons -> DaemonSteps]
    <3> DEFINE j == [IdleClient EXCEPT !.pc = "status", !.ret = "poll", !.child = d]
    <3>1. j \in Client /\ j.pc = "status"
      BY IdleIsClient DEF IdleClient, Client
    <3>2. cli' = [cli EXCEPT ![c] = j]
      BY <2>2 DEF Set
    <3>3. dpc' \in [Daemons -> DaemonSteps]
      BY <1>0, <2>2 DEF TypeOK, Move, DaemonSteps
    <3> HIDE DEF j
    <3> QED
      BY <1>0, <3>1, <3>2, <3>3, SetTypes
  <2>3. /\ cli' \in [Clients -> Client] /\ Pids'
        /\ dpc' \in [Daemons -> DaemonSteps]
    BY <1>0, <1>6, <2>1, <2>2 DEF Fork, TypeOK
  <2>4. Cleaning'
    BY <1>0, <1>6 DEF Fork, Cleaning, Move, TypeOK
  <2> QED
    BY <1>0, <1>6, <2>3, <2>4 DEF Fork, Types, TypeOK
<1>7. CASE Connect(c)
  <2>1. cli' \in [Clients -> Client] /\ Pids'
    BY <1>0, <1>7, GotoTypes, FreshTypes DEF Connect, ClientSteps, Onward
  <2>2. conn' \in [Clients -> Daemons \cup {None}]
    BY <1>0, <1>7 DEF Connect, TypeOK, Files
  <2> QED
    BY <1>0, <1>7, <2>1, <2>2 DEF Connect, Types, TypeOK, Cleaning, daemonVars
<1>8. CASE CallFails(c)
  <2>1. cli' \in [Clients -> Client] /\ Pids'
    BY <1>0, <1>8, GotoTypes DEF CallFails, ClientSteps
  <2> QED
    BY <1>0, <1>8, <2>1 DEF CallFails, Types, TypeOK, Cleaning, daemonVars
<1>9. CASE Direct(c)
  <2> DEFINE j == [cli[c] EXCEPT !.pc = "answered", !.ran = @ + 1]
  <2>1. cli[c].ran + 1 \in Nat
    BY <1>0 DEF Client
  <2>2. j \in Client /\ j.pc = "answered"
    BY <1>0, <2>1 DEF Client
  <2>3. cli' = [cli EXCEPT ![c] = j]
    BY <1>9 DEF Direct, Set
  <2> HIDE DEF j
  <2>4. cli' \in [Clients -> Client] /\ Pids'
    BY <1>0, <2>2, <2>3, SetTypes
  <2> QED
    BY <1>0, <1>9, <2>4 DEF Direct, Types, TypeOK, Cleaning, daemonVars
<1>10. CASE Exit(c)
  <2>1. cli' \in [Clients -> Client] /\ Pids'
    BY <1>0, <1>10, FreshTypes DEF Exit, Ends, Onward
  <2> QED
    BY <1>0, <1>10, <2>1 DEF Exit, Types, TypeOK, Cleaning
<1>11. CASE StopTerm(c)
  <2>1. cli[c].pid \in Daemons
    BY <1>0, <1>11 DEF StopTerm, Pids, At
  <2>2. cli' \in [Clients -> Client] /\ Pids'
    BY <1>0, <1>11, <2>1, GotoTypes DEF StopTerm, ClientSteps
  <2> QED
    BY <1>0, <1>11, <2>1, <2>2, TerminatedType DEF StopTerm, Types, TypeOK
<1>12. CASE StopWatch(c)
  <2>1. cli[c].pid \in Daemons
    BY <1>0, <1>12 DEF StopWatch, Pids, At
  <2>2. cli' \in [Clients -> Client] /\ Pids'
    BY <1>0, <1>12, CleanTypes DEF StopWatch
  <2>3. CASE UNCHANGED <<daemonVars, conn>>
    BY <1>0, <1>12, <2>2, <2>3 DEF StopWatch, Types, TypeOK, Cleaning, daemonVars
  <2>4. CASE Dies(cli[c].pid)
    BY <1>0, <1>12, <2>1, <2>2, <2>4, DiesType DEF StopWatch, Types, TypeOK
  <2> QED
    BY <1>12, <2>3, <2>4 DEF StopWatch
<1> QED
  BY <1>1, <1>2, <1>3, <1>4, <1>5, <1>6, <1>7, <1>8, <1>9, <1>10, <1>11, <1>12 DEF ClientStep

LEMMA InitTypes == Init => Types
<1> SUFFICES ASSUME Init PROVE Types
  OBVIOUS
<1>1. TypeOK
  BY IdleIsClient DEF Init, TypeOK, DaemonSteps, Files
<1>2. Cleaning
  BY DEF Init, Cleaning
<1>3. Pids
  BY DEF Init, Pids, IdleClient
<1> QED
  BY <1>1, <1>2, <1>3 DEF Types

LEMMA NextTypes == Types /\ [Next]_vars => Types'
<1> SUFFICES ASSUME Types, [Next]_vars PROVE Types'
  OBVIOUS
<1>1. CASE UNCHANGED vars
  BY <1>1 DEF Types, TypeOK, Cleaning, Pids, vars
<1> QED
  BY <1>1, DaemonTypes, ClientTypes DEF Next

\* Files, processes and clients keep their types, for any number of them and
\* whatever is stopped or killed.
THEOREM TypeCorrect == Spec => []TypeOK
<1>1. Types => TypeOK
  BY DEF Types
<1> QED
  BY InitTypes, NextTypes, <1>1, PTL DEF Spec

-----------------------------------------------------------------------------
(* One holder for each lock *)

\* A process that ends, or is asked to, takes no lock.
LEMMA DiesLocks ==
  ASSUME TypeOK, Locks, NEW d \in Daemons, Dies(d) \/ Terminated(d)
  PROVE  Locks'
  BY DEF TypeOK, Locks, Dies, Terminated, Holding

\* Nor does one that stays where it is or begins.
LEMMA KeptLocks ==
  ASSUME Locks, UNCHANGED <<dpc, fd>> PROVE Locks'
  BY DEF Locks

LEMMA OffToOpenLocks ==
  ASSUME TypeOK, Locks, NEW d \in Daemons, Move(d, "off", "open"), UNCHANGED fd
  PROVE  Locks'
  BY DEF TypeOK, Locks, Move, Holding

\* Only Lock makes a holder, of an inode that has none.
LEMMA NextLocks == Types /\ Locks /\ [Next]_vars => Locks'
<1> SUFFICES ASSUME Types, Locks, [Next]_vars PROVE Locks'
  OBVIOUS
<1>0. TypeOK
  BY DEF Types
<1>1. CASE UNCHANGED vars
  BY <1>1, KeptLocks DEF vars
<1>2. ASSUME NEW d \in Daemons,
             DaemonStep(d) \/ Foreground(d) \/ Interrupt(d) \/ Crash(d)
      PROVE  Locks'
  <2>1. CASE Open(d)
    BY <1>0, <2>1 DEF Open, Move, TypeOK, Locks, Holding
  <2>2. CASE Lock(d)
    <3>1. CASE \E e \in Daemons \ {d} : fd[e] = fd[d] /\ dpc[e] \in Holding
      BY <1>0, <2>2, <3>1, DiesLocks DEF Lock
    <3>2. CASE ~ \E e \in Daemons \ {d} : fd[e] = fd[d] /\ dpc[e] \in Holding
      <4>1. Move(d, "lock", "clear") /\ UNCHANGED fd
        BY <2>2, <3>2 DEF Lock
      <4> QED
        BY <1>0, <3>2, <4>1 DEF Move, TypeOK, Locks
    <3> QED
      BY <3>1, <3>2
  <2>3. CASE ClearSocket(d) \/ WritePid(d) \/ Bind(d) \/ Shutdown(d)
    BY <1>0, <2>3 DEF ClearSocket, WritePid, Bind, Shutdown, Move, TypeOK, Locks, Holding
  <2>4. CASE Accept(d) \/ Execute(d)
    BY <2>4, KeptLocks DEF Accept, Execute
  <2>5. CASE Remove(d)
    BY <1>0, <2>5, DiesLocks, KeptLocks DEF Remove
  <2>6. CASE Foreground(d)
    BY <1>0, <2>6, OffToOpenLocks DEF Foreground
  <2>7. CASE Interrupt(d) \/ Crash(d)
    BY <1>0, <2>7, DiesLocks DEF Interrupt, Crash
  <2> QED
    BY <1>2, <2>1, <2>2, <2>3, <2>4, <2>5, <2>6, <2>7 DEF DaemonStep
<1>3. ASSUME NEW c \in Clients, Begin(c) \/ ClientStep(c)
      PROVE  Locks'
  <2>1. CASE \/ Begin(c) \/ StatusPid(c) \/ StatusAlive(c) \/ StatusProbe(c) \/ Clean(c)
             \/ Connect(c) \/ CallFails(c) \/ Direct(c) \/ Exit(c)
    BY <2>1, KeptLocks DEF Begin, StatusPid, StatusAlive, StatusProbe, Clean, Connect,
       CallFails, Direct, Exit, daemonVars
  <2>2. CASE Fork(c)
    BY <1>0, <2>2, OffToOpenLocks, KeptLocks DEF Fork
  <2>3. CASE StopTerm(c)
    <3>1. cli[c].pid \in Daemons
      BY <2>3 DEF StopTerm, Types, Pids, At
    <3> QED
      BY <1>0, <2>3, <3>1, DiesLocks DEF StopTerm
  <2>4. CASE StopWatch(c)
    <3>1. cli[c].pid \in Daemons
      BY <2>4 DEF StopWatch, Types, Pids, At
    <3> QED
      BY <1>0, <2>4, <3>1, DiesLocks, KeptLocks DEF StopWatch, daemonVars
  <2> QED
    BY <1>3, <2>1, <2>2, <2>3, <2>4 DEF ClientStep
<1> QED
  BY <1>1, <1>2, <1>3 DEF Next

-----------------------------------------------------------------------------
(* A command is carried out once *)

\* Connections that are dropped with their daemon.
LEMMA DropRan ==
  ASSUME TypeOK, RanInv, NEW d \in Daemons, UNCHANGED cli,
         UNCHANGED conn \/ Dies(d) \/ Terminated(d)
  PROVE  RanInv'
  BY DEF TypeOK, RanInv, RanClient, Dies, Terminated

\* A client without a connection that goes to a place outside of a call.
LEMMA AwayRan ==
  ASSUME TypeOK, RanInv, NEW c \in Clients, NEW j \in Client,
         cli' = [cli EXCEPT ![c] = j], \A b \in Clients : conn'[b] \in {conn[b], None},
         cli[c].pc \notin {"call", "gone"},
         j.pc \notin {"answered", "gone"}, j.ran = 0
  PROVE  RanInv'
<1>1. conn[c] = None
  BY DEF RanInv, RanClient
<1> QED
  BY <1>1 DEF TypeOK, RanInv, RanClient

LEMMA ConcludedRan ==
  ASSUME TypeOK, RanInv, NEW c \in Clients, NEW st, Concluded(c, st), UNCHANGED conn,
         cli[c].pc \notin {"call", "gone", "answered"}
  PROVE  RanInv'
<1>1. PICK j : Follows(c, st, j)
  BY ConcludedFollows
<1>2. cli[c].ran = 0
  BY DEF RanInv, RanClient
<1> QED
  BY <1>1, <1>2, AwayRan DEF Follows, Onward

LEMMA NextRan == Types /\ RanInv /\ [Next]_vars => RanInv'
<1> SUFFICES ASSUME Types, RanInv, [Next]_vars PROVE RanInv'
  OBVIOUS
<1>0. TypeOK /\ Pids
  BY DEF Types
<1>1. CASE UNCHANGED vars
  BY <1>1 DEF vars, RanInv, RanClient
<1>2. ASSUME NEW d \in Daemons,
             DaemonStep(d) \/ Foreground(d) \/ Interrupt(d) \/ Crash(d)
      PROVE  RanInv'
  <2>1. CASE Execute(d)
    <3> DEFINE c == busy[d]
               j == [cli[c] EXCEPT !.ran = @ + 1,
                                   !.pc = IF @ = "call" THEN "answered" ELSE @]
    <3>1. c \in Clients /\ conn[c] = d /\ cli[c] \in Client
      BY <1>0, <2>1 DEF Execute, TypeOK
    <3>2. conn[c] # None
      BY <3>1, NoneIsNobody
    <3>3. cli[c].pc \in {"call", "gone"} /\ cli[c].ran = 0
      BY <3>1, <3>2 DEF RanInv, RanClient
    <3>4. j.ran = 1 /\ j.pc \in {"answered", "gone"}
      <4>1. /\ j.ran = cli[c].ran + 1
            /\ j.pc = IF cli[c].pc = "call" THEN "answered" ELSE cli[c].pc
        BY <3>1, RanType, Zenon
      <4> QED
        BY <3>3, <4>1
    <3>5. conn' = [conn EXCEPT ![c] = None] /\ cli' = [cli EXCEPT ![c] = j]
      BY <2>1, <3>1 DEF Execute
    <3> HIDE DEF c, j
    <3>6. /\ conn'[c] = None /\ cli'[c] = j
          /\ \A b \in Clients \ {c} : conn'[b] = conn[b] /\ cli'[b] = cli[b]
      BY <1>0, <3>1, <3>5 DEF TypeOK
    <3> QED
      BY <3>4, <3>6 DEF RanInv, RanClient
  <2>2. CASE ~Execute(d)
    BY <1>0, <1>2, <2>2, DropRan DEF DaemonStep, Open, Lock, ClearSocket, WritePid, Bind, Accept,
       Shutdown, Remove, Foreground, Interrupt, Crash
  <2> QED
    BY <2>1, <2>2
<1>3. ASSUME NEW c \in Clients, Begin(c) \/ ClientStep(c)
      PROVE  RanInv'
  <2>0. cli[c] \in Client /\ RanClient(c)
    BY <1>0 DEF TypeOK, RanInv
  <2>1. CASE Begin(c)
    <3>1. PICK ret \in {"boot", "stop"} : Status(c, ret)
      BY <2>1 DEF Begin
    <3>2. "status" \in Onward
      BY DEF Onward
    <3>3. PICK j \in Client : cli' = [cli EXCEPT ![c] = j] /\ j.pc = "status" /\ j.ran = 0
      BY <1>0, <3>1, <3>2, FreshTypes
    <3> QED
      BY <1>0, <2>1, <3>3, AwayRan DEF Begin, At
  <2>2. CASE StatusPid(c)
    <3>1. CASE Concluded(c, "notrunning")
      BY <1>0, <2>2, <3>1, ConcludedRan DEF StatusPid, At
    <3>2. CASE /\ file.pid # None
               /\ Set(c, [cli[c] EXCEPT !.pc = "alive", !.pid = file.pid])
      <4> DEFINE j == [cli[c] EXCEPT !.pc = "alive", !.pid = file.pid]
      <4>1. j \in Client /\ j.pc = "alive" /\ j.ran = cli[c].ran
        BY <1>0, <2>0, <3>2 DEF TypeOK, Client, Files
      <4>2. cli' = [cli EXCEPT ![c] = j]
        BY <3>2 DEF Set
      <4> HIDE DEF j
      <4> QED
        BY <1>0, <2>0, <2>2, <4>1, <4>2, AwayRan DEF StatusPid, At, RanClient
    <3> QED
      BY <2>2, <3>1, <3>2 DEF StatusPid
  <2>3. CASE StatusAlive(c)
    <3>1. cli[c].pid \in Daemons
      BY <1>0, <2>3 DEF StatusAlive, Pids, At
    <3>2. PICK j \in Client : /\ cli' = [cli EXCEPT ![c] = j]
                              /\ j.pc \in {"probe", "clean"} /\ j.ran = cli[c].ran
      <4>1. CASE Goto(c, "probe")
        BY <1>0, <3>1, <4>1, GotoTypes DEF ClientSteps
      <4>2. CASE Set(c, [cli[c] EXCEPT !.pc = "clean", !.todo = StaleCleanup])
        BY <1>0, <4>2, CleanTypes
      <4> QED
        BY <2>3, <4>1, <4>2 DEF StatusAlive
    <3> QED
      BY <1>0, <2>0, <2>3, <3>2, AwayRan DEF StatusAlive, At, RanClient
  <2>4. CASE StatusProbe(c)
    BY <1>0, <2>4, ConcludedRan DEF StatusProbe, At
  <2>5. CASE Clean(c)
    <3>1. CASE Concluded(c, "notrunning")
      BY <1>0, <2>5, <3>1, ConcludedRan DEF Clean, At
    <3>2. CASE cli[c].todo # <<>> /\ Set(c, [cli[c] EXCEPT !.todo = Tail(@)])
      <4> DEFINE j == [cli[c] EXCEPT !.todo = Tail(@)]
      <4>1. Tail(cli[c].todo) \in Seq(Files)
        BY <2>0, <3>2 DEF Client
      <4>2. j \in Client /\ j.pc = "clean" /\ j.ran = cli[c].ran
        BY <2>0, <2>5, <4>1 DEF Client, Clean, At
      <4>3. cli' = [cli EXCEPT ![c] = j]
        BY <3>2 DEF Set
      <4> HIDE DEF j
      <4> QED
        BY <1>0, <2>0, <2>5, <4>2, <4>3, AwayRan DEF Clean, At, RanClient
    <3> QED
      BY <2>5, <3>1, <3>2 DEF Clean
  <2>6. CASE Fork(c)
    <3>1. PICK j \in Client : cli' = [cli EXCEPT ![c] = j]
                         /\ j.pc \in {"status", "direct"} /\ j.ran = 0
      <4>1. CASE Leave(c, "direct")
        <5>1. "direct" \in Onward
          BY DEF Onward
        <5> QED
          BY <1>0, <4>1, <5>1, FreshTypes
      <4>2. ASSUME NEW d \in Daemons,
                   Set(c, [IdleClient EXCEPT !.pc = "status", !.ret = "poll", !.child = d])
            PROVE  \E j \in Client : /\ cli' = [cli EXCEPT ![c] = j]
                                   /\ j.pc \in {"status", "direct"} /\ j.ran = 0
        <5> DEFINE j == [IdleClient EXCEPT !.pc = "status", !.ret = "poll", !.child = d]
        <5>1. j \in Client /\ j.pc = "status" /\ j.ran = 0
          BY IdleIsClient DEF IdleClient, Client
        <5> QED
          BY <4>2, <5>1 DEF Set
      <4> QED
        BY <2>6, <4>1, <4>2 DEF Fork
    <3> QED
      BY <1>0, <2>6, <3>1, AwayRan DEF Fork, At
  <2>7. CASE Connect(c)
    <3>1. CASE Reachable
      <4>1. PICK j \in Client : cli' = [cli EXCEPT ![c] = j] /\ j.pc = "call" /\ j.ran = cli[c].ran
        BY <1>0, <2>7, <3>1, GotoTypes DEF Connect, ClientSteps
      <4>2. conn' = [conn EXCEPT ![c] = file.socket]
        BY <2>7, <3>1 DEF Connect
      <4>3. cli[c].ran = 0
        BY <2>0, <2>7 DEF Connect, At, RanClient
      <4> QED
        BY <1>0, <4>1, <4>2, <4>3 DEF TypeOK, RanInv, RanClient
    <3>2. CASE ~Reachable
      <4>1. "direct" \in Onward
        BY DEF Onward
      <4>2. PICK j \in Client : cli' = [cli EXCEPT ![c] = j] /\ j.pc = "direct" /\ j.ran = 0
        BY <1>0, <2>7, <3>2, <4>1, FreshTypes DEF Connect
      <4> QED
        BY <1>0, <2>7, <3>2, <4>2, AwayRan DEF Connect, At
    <3> QED
      BY <3>1, <3>2
  <2>8. CASE CallFails(c)
    <3>1. PICK j \in Client : cli' = [cli EXCEPT ![c] = j] /\ j.pc = "gone" /\ j.ran = cli[c].ran
      BY <1>0, <2>8, GotoTypes DEF CallFails, ClientSteps
    <3> QED
      BY <1>0, <2>0, <2>8, <3>1 DEF CallFails, At, TypeOK, RanInv, RanClient
  <2>9. CASE Direct(c)
    <3> DEFINE j == [cli[c] EXCEPT !.pc = "answered", !.ran = @ + 1]
    <3>1. cli[c].ran = 0 /\ conn[c] = None
      BY <2>0, <2>9 DEF Direct, At, RanClient
    <3>2. j.pc = "answered" /\ j.ran = 1
      BY <2>0, <3>1 DEF Client
    <3>3. cli' = [cli EXCEPT ![c] = j] /\ UNCHANGED conn
      BY <2>9 DEF Direct, Set
    <3> HIDE DEF j
    <3> QED
      BY <1>0, <3>1, <3>2, <3>3 DEF TypeOK, RanInv, RanClient
  <2>10. CASE Exit(c)
    <3>1. conn[c] = None
      BY <2>0, <2>10 DEF Exit, At, RanClient
    <3>2. "idle" \in Onward
      BY DEF Onward
    <3>3. PICK j \in Client : cli' = [cli EXCEPT ![c] = j] /\ j.pc = "idle" /\ j.ran = 0
      BY <1>0, <2>10, <3>2, FreshTypes DEF Exit, Ends
    <3> QED
      BY <1>0, <2>10, <3>1, <3>3 DEF Exit, TypeOK, RanInv, RanClient
  <2>11. CASE StopTerm(c)
    <3>1. cli[c].pid \in Daemons
      BY <1>0, <2>11 DEF StopTerm, Pids, At
    <3>2. PICK j \in Client : cli' = [cli EXCEPT ![c] = j] /\ j.pc = "watch" /\ j.ran = cli[c].ran
      <4>1. Goto(c, "watch") /\ "watch" \in ClientSteps
        BY <2>11 DEF StopTerm, ClientSteps
      <4> QED
        BY <1>0, <3>1, <4>1, GotoTypes
    <3>3. \A b \in Clients : conn'[b] \in {conn[b], None}
      BY <2>11 DEF StopTerm, Terminated, Dies
    <3> QED
      BY <1>0, <2>0, <2>11, <3>2, <3>3, AwayRan DEF StopTerm, At, RanClient
  <2>12. CASE StopWatch(c)
    <3>1. PICK j \in Client : cli' = [cli EXCEPT ![c] = j] /\ j.pc = "clean" /\ j.ran = cli[c].ran
      BY <1>0, <2>12, CleanTypes DEF StopWatch
    <3>2. \A b \in Clients : conn'[b] \in {conn[b], None}
      BY <2>12 DEF StopWatch, Dies
    <3> QED
      BY <1>0, <2>0, <2>12, <3>1, <3>2, AwayRan DEF StopWatch, At, RanClient
  <2> QED
    BY <1>3, <2>1, <2>2, <2>3, <2>4, <2>5, <2>6,
       <2>7, <2>8, <2>9, <2>10, <2>11, <2>12 DEF ClientStep
<1> QED
  BY <1>1, <1>2, <1>3 DEF Next

\* A command is carried out once at most, whatever is stopped, killed or given
\* up, and its client is told of success only when it was.
THEOREM RanOnceAlways == Spec => []RanOnce
<1>1. Init => RanInv
  BY DEF Init, RanInv, RanClient, IdleClient
<1>2. RanInv => RanOnce
  BY DEF RanInv, RanClient, RanOnce, At
<1> QED
  BY InitTypes, NextTypes, NextRan, <1>1, <1>2, PTL DEF Spec

-----------------------------------------------------------------------------
(* Nobody disturbs the daemon that won, until one is stopped or killed *)

\* Everyone opened the same lock file, so one daemon holds it.
LEMMA OneHolder ==
  ASSUME CalmInv, Locks, calm,
         NEW d \in Daemons, NEW e \in Daemons, dpc[d] \in Holding, dpc[e] \in Holding
  PROVE  d = e
  BY DEF CalmInv, CalmDaemon, Locks

\* A client that changes only its own record, and learns of no other process
\* than the one in the pid file.
LEMMA ClientCalm ==
  ASSUME TypeOK, CalmInv, calm, NEW c \in Clients, NEW j \in Client,
         UNCHANGED <<file, fd, dpc, asked>>,
         cli' = [cli EXCEPT ![c] = j],
         j.pc \notin {"clean", "watch"}, j.pid \in {None, cli[c].pid, file["pid"]}
  PROVE  CalmInv'
<1>1. /\ asked' = {}
      /\ file'["pid"] # None => dpc'[file'["pid"]] \in {"bind", "serve"}
      /\ file'["socket"] # None => dpc'[file'["socket"]] = "serve"
      /\ \A d \in Daemons : CalmDaemon(d)'
  BY DEF CalmInv, CalmDaemon
<1>2. CalmClient(c)'
  BY DEF TypeOK, CalmInv, CalmClient
<1>3. \A b \in Clients \ {c} : CalmClient(b)'
  BY DEF TypeOK, CalmInv, CalmClient
<1> QED
  BY <1>1, <1>2, <1>3 DEF CalmInv

LEMMA ConcludedCalm ==
  ASSUME TypeOK, CalmInv, calm, NEW c \in Clients, NEW st, Concluded(c, st),
         UNCHANGED <<file, fd, dpc, asked>>
  PROVE  CalmInv'
<1>1. PICK j : Follows(c, st, j)
  BY ConcludedFollows
<1> QED
  BY <1>1, ClientCalm DEF Follows, Onward

\* A process that is new is in no file and known to no client.
LEMMA ForkCalm ==
  ASSUME TypeOK, CalmInv, calm, NEW d \in Daemons, Move(d, "off", "open"),
         UNCHANGED <<file, fd, asked>>,
         \A c \in Clients : cli'[c].pc \notin {"clean", "watch"}
                          /\ cli'[c].pid \in {None, cli[c].pid}
  PROVE  CalmInv'
<1>1. \A e \in Daemons : CalmDaemon(e)'
  BY DEF TypeOK, CalmInv, CalmDaemon, Move, Holding
<1>2. /\ asked' = {}
      /\ file'["pid"] # None => dpc'[file'["pid"]] \in {"bind", "serve"}
      /\ file'["socket"] # None => dpc'[file'["socket"]] = "serve"
  BY DEF TypeOK, CalmInv, Move, Files
<1>3. \A c \in Clients : CalmClient(c)'
  <2> SUFFICES ASSUME NEW c \in Clients, cli'[c].pid # None
          PROVE dpc'[cli'[c].pid] \in {"bind", "serve"}
    BY DEF CalmClient
  <2>1. cli[c].pid \in Daemons /\ cli'[c].pid = cli[c].pid
    BY DEF TypeOK, Client
  <2>2. dpc[cli[c].pid] \in {"bind", "serve"}
    BY <2>1, NoneIsNobody DEF CalmInv, CalmClient
  <2> QED
    BY <2>1, <2>2 DEF Move, TypeOK
<1> QED
  BY <1>1, <1>2, <1>3 DEF CalmInv

\* The daemons' part of the invariant implies that of the clients, when no
\* client moves and no daemon leaves "bind" or "serve".
LEMMA DaemonCalm ==
  ASSUME TypeOK, CalmInv, calm, UNCHANGED <<cli, asked>>,
         \A d \in Daemons : dpc[d] \in {"bind", "serve"} => dpc'[d] \in {"bind", "serve"},
         file'["pid"] # None => dpc'[file'["pid"]] \in {"bind", "serve"},
         file'["socket"] # None => dpc'[file'["socket"]] = "serve",
         \A d \in Daemons : CalmDaemon(d)'
  PROVE  CalmInv'
<1>1. \A c \in Clients : cli[c].pid \in Daemons \cup {None}
  BY DEF TypeOK, Client
<1> QED
  BY <1>1 DEF CalmInv, CalmClient

LEMMA DaemonStepCalm ==
  ASSUME Types, Locks, CalmInv, calm, calm', NEW d \in Daemons,
         DaemonStep(d) \/ Foreground(d) \/ Interrupt(d) \/ Crash(d)
  PROVE  CalmInv'
<1>0. TypeOK /\ (\A e \in Daemons : CalmDaemon(e)) /\ d # None
  BY NoneIsNobody DEF Types, CalmInv
<1>1. CASE Open(d)
  <2>1. /\ dpc[d] = "open" /\ dpc' = [dpc EXCEPT ![d] = "lock"]
        /\ file' = [file EXCEPT !.lock = IF @ = None THEN d ELSE @]
        /\ fd' = [fd EXCEPT ![d] = file'.lock]
        /\ UNCHANGED <<cli, asked>>
    BY <1>1 DEF Open, Move
  <2>2. /\ file'["lock"] # None /\ (file["lock"] # None => file'["lock"] = file["lock"])
        /\ file'["pid"] = file["pid"] /\ file'["socket"] = file["socket"]
    BY <1>0, <2>1 DEF TypeOK, Files
  <2>3. \A e \in Daemons : CalmDaemon(e)'
    BY <1>0, <2>1, <2>2 DEF TypeOK, CalmDaemon, Holding
  <2>4. /\ file'["pid"] # None => dpc'[file'["pid"]] \in {"bind", "serve"}
        /\ file'["socket"] # None => dpc'[file'["socket"]] = "serve"
    BY <1>0, <2>1, <2>2 DEF TypeOK, CalmInv, Files
  <2>5. \A e \in Daemons : dpc[e] \in {"bind", "serve"} => dpc'[e] \in {"bind", "serve"}
    BY <1>0, <2>1 DEF TypeOK
  <2> QED
    BY <1>0, <2>1, <2>3, <2>4, <2>5, DaemonCalm
<1>2. CASE Lock(d)
  <2>1. /\ dpc[d] = "lock" /\ UNCHANGED <<file, cli>>
        /\ \/ dpc' = [dpc EXCEPT ![d] = "off"] /\ fd' = [fd EXCEPT ![d] = None]
                                  /\ asked' = asked \ {d}
           \/ dpc' = [dpc EXCEPT ![d] = "clear"] /\ UNCHANGED <<fd, asked>>
    BY <1>2 DEF Lock, Dies, Move
  <2>2. asked' = asked
    BY <2>1 DEF CalmInv
  <2>3. \A e \in Daemons : CalmDaemon(e)'
    BY <1>0, <2>1 DEF TypeOK, CalmDaemon, Holding
  <2>4. /\ file'["pid"] # None => dpc'[file'["pid"]] \in {"bind", "serve"}
        /\ file'["socket"] # None => dpc'[file'["socket"]] = "serve"
    BY <1>0, <2>1 DEF TypeOK, CalmInv, Files
  <2>5. \A e \in Daemons : dpc[e] \in {"bind", "serve"} => dpc'[e] \in {"bind", "serve"}
    BY <1>0, <2>1 DEF TypeOK
  <2> QED
    BY <1>0, <2>1, <2>2, <2>3, <2>4, <2>5, DaemonCalm
<1>3. CASE ClearSocket(d) \/ WritePid(d) \/ Bind(d)
  <2>1. dpc[d] \in {"clear", "pid", "bind"}
    BY <1>3 DEF ClearSocket, WritePid, Bind, Move
  <2>2. \A e \in Daemons \ {d} : dpc[e] \notin Holding
    BY <2>1, OneHolder DEF Holding
  <2>3. file["socket"] = None
    <3> SUFFICES ASSUME file["socket"] # None PROVE FALSE
      OBVIOUS
    <3>1. file["socket"] \in Daemons /\ dpc[file["socket"]] = "serve"
      BY <1>0 DEF TypeOK, Files, CalmInv
    <3> QED
      BY <2>1, <2>2, <3>1 DEF Holding
  <2>4. UNCHANGED <<cli, asked, fd>>
    BY <1>3, <2>3 DEF ClearSocket, WritePid, Bind
  <2>5. CASE ClearSocket(d)
    <3>1. file' = [file EXCEPT !.socket = None] /\ dpc' = [dpc EXCEPT ![d] = "pid"]
                          /\ dpc[d] = "clear"
      BY <2>5 DEF ClearSocket, Move
    <3>2. \A e \in Daemons : CalmDaemon(e)'
      BY <1>0, <2>2, <2>4, <3>1 DEF TypeOK, CalmDaemon, Holding, Files
    <3>3. /\ file'["pid"] # None => dpc'[file'["pid"]] \in {"bind", "serve"}
          /\ file'["socket"] = None
          /\ \A e \in Daemons : dpc[e] \in {"bind", "serve"} => dpc'[e] \in {"bind", "serve"}
      BY <1>0, <3>1 DEF TypeOK, CalmInv, Files
    <3> QED
      BY <1>0, <2>4, <3>2, <3>3, DaemonCalm
  <2>6. CASE WritePid(d)
    <3>1. file' = [file EXCEPT !.pid = d] /\ dpc' = [dpc EXCEPT ![d] = "bind"] /\ dpc[d] = "pid"
      BY <2>6 DEF WritePid, Move
    <3>2. \A e \in Daemons : CalmDaemon(e)'
      BY <1>0, <2>2, <2>4, <3>1 DEF TypeOK, CalmDaemon, Holding, Files
    <3>3. /\ file'["pid"] # None => dpc'[file'["pid"]] \in {"bind", "serve"}
          /\ file'["socket"] = None
          /\ \A e \in Daemons : dpc[e] \in {"bind", "serve"} => dpc'[e] \in {"bind", "serve"}
      BY <1>0, <2>3, <3>1 DEF TypeOK, Files
    <3> QED
      BY <1>0, <2>4, <3>2, <3>3, DaemonCalm
  <2>7. CASE Bind(d)
    <3>1. file' = [file EXCEPT !.socket = d] /\ dpc' = [dpc EXCEPT ![d] = "serve"]
                          /\ dpc[d] = "bind"
      BY <2>3, <2>7 DEF Bind, Move
    <3>2. \A e \in Daemons : CalmDaemon(e)'
      BY <1>0, <2>2, <2>4, <3>1 DEF TypeOK, CalmDaemon, Holding, Files
    <3>3. /\ file'["pid"] # None => dpc'[file'["pid"]] \in {"bind", "serve"}
          /\ file'["socket"] # None => dpc'[file'["socket"]] = "serve"
          /\ \A e \in Daemons : dpc[e] \in {"bind", "serve"} => dpc'[e] \in {"bind", "serve"}
      BY <1>0, <3>1 DEF TypeOK, CalmInv, Files
    <3> QED
      BY <1>0, <2>4, <3>2, <3>3, DaemonCalm
  <2> QED
    BY <1>3, <2>5, <2>6, <2>7
<1>4. CASE Accept(d)
  BY <1>4 DEF Accept, CalmInv, CalmDaemon, CalmClient
<1>5. CASE Execute(d)
  <2> DEFINE c == busy[d]
             j == [cli[c] EXCEPT !.ran = @ + 1,
                                 !.pc = IF @ = "call" THEN "answered" ELSE @]
  <2>1. c \in Clients /\ cli[c] \in Client
    BY <1>0, <1>5 DEF Execute, TypeOK
  <2>2. /\ j \in Client /\ j.pid = cli[c].pid
        /\ j.pc = IF cli[c].pc = "call" THEN "answered" ELSE cli[c].pc
    BY <2>1, RanType, Zenon
  <2>3. cli' = [cli EXCEPT ![c] = j] /\ UNCHANGED <<file, fd, dpc, asked>>
    BY <1>5, <2>1 DEF Execute
  <2> HIDE DEF c, j
  <2>4. cli[c].pc \notin {"clean", "watch"}
    BY <2>1 DEF CalmInv, CalmClient
  <2> QED
    BY <1>0, <2>1, <2>2, <2>3, <2>4, ClientCalm
<1>6. CASE Shutdown(d) \/ Remove(d)
  BY <1>0, <1>6 DEF Shutdown, Remove, CalmInv, CalmDaemon
<1>7. CASE Foreground(d)
  <2>1. Move(d, "off", "open") /\ UNCHANGED <<file, fd, asked, cli>>
    BY <1>7 DEF Foreground
  <2>2. \A c \in Clients : cli[c].pc \notin {"clean", "watch"}
    BY DEF CalmInv, CalmClient
  <2> QED
    BY <1>0, <2>1, <2>2, ForkCalm
<1>8. CASE Interrupt(d) \/ Crash(d)
  BY <1>8 DEF Interrupt, Crash
<1> QED
  BY <1>1, <1>2, <1>3, <1>4, <1>5, <1>6, <1>7, <1>8 DEF DaemonStep

LEMMA ClientStepCalm ==
  ASSUME Types, CalmInv, calm, calm', NEW c \in Clients, Begin(c) \/ ClientStep(c)
  PROVE  CalmInv'
<1>0. /\ TypeOK /\ Pids /\ cli[c] \in Client
      /\ cli[c].pc \notin {"clean", "watch"}
      /\ cli[c].pid # None => dpc[cli[c].pid] \in {"bind", "serve"}
  BY DEF Types, TypeOK, CalmInv, CalmClient
<1>1. CASE Begin(c)
  <2>1. PICK ret \in {"boot", "stop"} : Status(c, ret)
    BY <1>1 DEF Begin
  <2>2. "status" \in Onward
    BY DEF Onward
  <2>3. PICK j \in Client : cli' = [cli EXCEPT ![c] = j] /\ j.pc = "status" /\ j.pid = None
    BY <1>0, <2>1, <2>2, FreshTypes
  <2>4. UNCHANGED <<file, fd, dpc, asked>>
    BY <1>1 DEF Begin, daemonVars
  <2> QED
    BY <1>0, <2>3, <2>4, ClientCalm
<1>2. CASE StatusPid(c)
  <2>1. UNCHANGED <<file, fd, dpc, asked>>
    BY <1>2 DEF StatusPid, daemonVars
  <2>2. CASE Concluded(c, "notrunning")
    BY <1>0, <2>1, <2>2, ConcludedCalm
  <2>3. CASE Set(c, [cli[c] EXCEPT !.pc = "alive", !.pid = file.pid])
    <3> DEFINE j == [cli[c] EXCEPT !.pc = "alive", !.pid = file.pid]
    <3>1. j \in Client /\ j.pc = "alive" /\ j.pid = file["pid"]
      BY <1>0 DEF TypeOK, Client, Files
    <3>2. cli' = [cli EXCEPT ![c] = j]
      BY <2>3 DEF Set
    <3> HIDE DEF j
    <3> QED
      BY <1>0, <2>1, <3>1, <3>2, ClientCalm
  <2> QED
    BY <1>2, <2>2, <2>3 DEF StatusPid
<1>3. CASE StatusAlive(c)
  <2>1. cli[c].pid \in Daemons
    BY <1>0, <1>3 DEF StatusAlive, Pids, At
  <2>2. Alive(cli[c].pid)
    BY <1>0, <2>1, NoneIsNobody DEF Alive
  <2>3. Goto(c, "probe") /\ UNCHANGED <<file, fd, dpc, asked>>
    BY <1>3, <2>2 DEF StatusAlive, daemonVars
  <2>4. PICK j \in Client : cli' = [cli EXCEPT ![c] = j] /\ j.pc = "probe" /\ j.pid = cli[c].pid
    BY <1>0, <2>1, <2>3, GotoTypes DEF ClientSteps
  <2> QED
    BY <1>0, <2>3, <2>4, ClientCalm
<1>4. CASE StatusProbe(c)
  BY <1>0, <1>4, ConcludedCalm DEF StatusProbe, daemonVars
<1>5. CASE Clean(c) \/ StopWatch(c)
  BY <1>0, <1>5 DEF Clean, StopWatch, At
<1>6. CASE Fork(c)
  <2>1. CASE Leave(c, "direct") /\ UNCHANGED dpc
    <3>1. "direct" \in Onward
      BY DEF Onward
    <3>2. PICK j \in Client : cli' = [cli EXCEPT ![c] = j] /\ j.pc = "direct" /\ j.pid = None
      BY <1>0, <2>1, <3>1, FreshTypes
    <3> QED
      BY <1>0, <1>6, <2>1, <3>2, ClientCalm DEF Fork
  <2>2. ASSUME NEW d \in Daemons, Move(d, "off", "open"),
               Set(c, [IdleClient EXCEPT !.pc = "status", !.ret = "poll", !.child = d])
        PROVE  CalmInv'
    <3> DEFINE j == [IdleClient EXCEPT !.pc = "status", !.ret = "poll", !.child = d]
    <3>1. j.pc = "status" /\ j.pid = None
      BY DEF IdleClient
    <3>2. cli' = [cli EXCEPT ![c] = j]
      BY <2>2 DEF Set
    <3> HIDE DEF j
    <3>3. \A b \in Clients : /\ cli'[b].pc \notin {"clean", "watch"}
                           /\ cli'[b].pid \in {None, cli[b].pid}
      BY <1>0, <3>1, <3>2 DEF TypeOK, CalmInv, CalmClient
    <3>4. UNCHANGED <<file, fd, asked>>
      BY <1>6 DEF Fork
    <3> QED
      BY <1>0, <2>2, <3>3, <3>4, ForkCalm
  <2> QED
    BY <1>6, <2>1, <2>2 DEF Fork
<1>7. CASE Connect(c) \/ CallFails(c)
  <2>1. UNCHANGED <<file, fd, dpc, asked>>
    BY <1>7 DEF Connect, CallFails, daemonVars
  <2>2. CASE Goto(c, "call") \/ Goto(c, "gone")
    <3>1. PICK j \in Client : /\ cli' = [cli EXCEPT ![c] = j]
                              /\ j.pc \in {"call", "gone"} /\ j.pid = cli[c].pid
      BY <1>0, <2>2, GotoTypes DEF ClientSteps
    <3> QED
      BY <1>0, <2>1, <3>1, ClientCalm
  <2>3. CASE Leave(c, "direct")
    <3>1. "direct" \in Onward
      BY DEF Onward
    <3>2. PICK j \in Client : cli' = [cli EXCEPT ![c] = j] /\ j.pc = "direct" /\ j.pid = None
      BY <1>0, <2>3, <3>1, FreshTypes
    <3> QED
      BY <1>0, <2>1, <3>2, ClientCalm
  <2> QED
    BY <1>7, <2>2, <2>3 DEF Connect, CallFails
<1>8. CASE Direct(c)
  <2> DEFINE j == [cli[c] EXCEPT !.pc = "answered", !.ran = @ + 1]
  <2>1. cli[c].ran + 1 \in Nat
    BY <1>0 DEF Client
  <2>2. j \in Client /\ j.pc = "answered" /\ j.pid = cli[c].pid
    BY <1>0, <2>1 DEF Client
  <2>3. cli' = [cli EXCEPT ![c] = j] /\ UNCHANGED <<file, fd, dpc, asked>>
    BY <1>8 DEF Direct, Set, daemonVars
  <2> HIDE DEF j
  <2> QED
    BY <1>0, <2>2, <2>3, ClientCalm
<1>9. CASE Exit(c)
  <2>1. "idle" \in Onward
    BY DEF Onward
  <2>2. PICK j \in Client : cli' = [cli EXCEPT ![c] = j] /\ j.pc = "idle" /\ j.pid = None
    BY <1>0, <1>9, <2>1, FreshTypes DEF Exit, Ends
  <2> QED
    BY <1>0, <1>9, <2>2, ClientCalm DEF Exit
<1>10. CASE StopTerm(c)
  BY <1>10 DEF StopTerm
<1> QED
  BY <1>1, <1>2, <1>3, <1>4, <1>5, <1>6, <1>7, <1>8, <1>9, <1>10 DEF ClientStep

LEMMA NextCalm == Types /\ Locks /\ CalmInv /\ [Next]_vars => CalmInv'
<1> SUFFICES ASSUME Types, Locks, CalmInv, [Next]_vars, calm' PROVE CalmInv'
  BY DEF CalmInv
<1>1. CASE UNCHANGED vars
  BY <1>1 DEF vars, CalmInv, CalmDaemon, CalmClient
<1>2. CASE Next
  <2>1. ASSUME NEW d \in Daemons,
               DaemonStep(d) \/ Foreground(d) \/ Interrupt(d) \/ Crash(d)
        PROVE  calm
    BY <2>1 DEF DaemonStep, Open, Lock, ClearSocket, WritePid, Bind, Accept, Execute, Shutdown,
       Remove, Foreground, Interrupt, Crash
  <2>2. ASSUME NEW c \in Clients, Begin(c) \/ ClientStep(c)
        PROVE  calm
    BY <2>2 DEF Begin, ClientStep, StatusPid, StatusAlive, StatusProbe, Clean, Fork, Connect,
       CallFails, Direct, Exit, StopTerm, StopWatch
  <2> QED
    BY <1>2, <2>1, <2>2, DaemonStepCalm, ClientStepCalm DEF Next
<1> QED
  BY <1>1, <1>2

-----------------------------------------------------------------------------

IInv == Types /\ Locks /\ CalmInv

LEMMA IInvAlways == Spec => []IInv
<1>1. Init => IInv
  <2> SUFFICES ASSUME Init PROVE IInv
    OBVIOUS
  <2>1. Locks
    BY DEF Init, Locks, Holding
  <2>2. CalmInv
    BY DEF Init, CalmInv, CalmDaemon, CalmClient, IdleClient, Files, Holding
  <2> QED
    BY InitTypes, <2>1, <2>2 DEF IInv
<1>2. IInv /\ [Next]_vars => IInv'
  BY NextTypes, NextLocks, NextCalm DEF IInv
<1> QED
  BY <1>1, <1>2, PTL DEF Spec

\* However many daemons are started at the same time, by clients or by hand, one
\* gets the lock, until one is stopped or killed.
THEOREM OneDaemonAlways == Spec => []OneDaemon
<1>1. IInv => OneDaemon
  BY OneHolder DEF IInv, OneDaemon
<1> QED
  BY IInvAlways, <1>1, PTL

\* The daemon that serves keeps its lock file, its socket and its pid file: no
\* daemon that lost the race and no client removes or replaces them, until one
\* is stopped or killed.
THEOREM UndisturbedAlways == Spec => []Undisturbed
<1>1. IInv => Undisturbed
  <2> SUFFICES ASSUME IInv, calm, NEW d \in Daemons, dpc[d] = "serve"
               PROVE  file = [f \in Files |-> IF f = "lock" THEN fd[d] ELSE d]
    BY DEF Undisturbed
  <2>1. CalmDaemon(d) /\ file \in [Files -> Daemons \cup {None}]
    BY DEF IInv, CalmInv, Types, TypeOK
  <2> QED
    BY <2>1 DEF CalmDaemon, Holding, Files
<1> QED
  BY IInvAlways, <1>1, PTL

=============================================================================
