----------------------------- MODULE Lifecycle ------------------------------
(***************************************************************************)
(* Client processes and the daemon processes they start, stop and replace  *)
(* for one daemon name and root path. They share nothing but two files in  *)
(* the temporary directory, the socket and the PID file, the executable on *)
(* disk, and signals.                                                      *)
(*                                                                         *)
(* A step is one file operation, signal, spawn or handshake, so that the   *)
(* steps of other processes come between any two. Process ids are never    *)
(* reused. The commands of a connection are those of Connection: here it   *)
(* matters only that a connection serves one.                              *)
(***************************************************************************)
EXTENDS Integers, FiniteSets

CONSTANTS
  Clients,        \* client processes
  AutoClients,    \* those with auto_restart_on_error
  MaxDaemons,     \* bound: daemon processes, the n-th of them has pid n
  MaxBuild,       \* bound: build timestamps of the executable
  Budget,         \* bound: calls the clients make
  GracefulTerm,   \* whether daemons handle SIGTERM and exit on their own
  MayCrash,       \* whether daemons may die at any time
  MayStop,        \* whether daemons may shut down by themselves
  SlowStart,      \* whether a daemon may take more than five seconds to start
  MayInterrupt,   \* whether clients may be killed in a call
  FatalTexts      \* whether a command's own error may read like a lost connection

ASSUME ClientsAssumption == AutoClients \subseteq Clients
ASSUME BoundsAssumption  == /\ MaxDaemons \in Nat /\ Budget \in Nat
                            /\ MaxBuild \in Nat \ {0}
ASSUME FlagsAssumption   ==
  {GracefulTerm, MayCrash, MayStop, SlowStart, MayInterrupt, FatalTexts} \subseteq BOOLEAN

None    == 0
Blank   == -1    \* the pid read from a PID file that is created and not yet written
Daemons == 1..MaxDaemons
Builds  == 1..MaxBuild

VARIABLES
  binary,    \* mtime of the executable on disk
  sock,      \* the daemon that bound the socket file, None if there is no file
  pidFile,   \* the pid in the PID file, None if there is no file
  pidOpen,   \* the daemons that have that file open for writing
  dstate,    \* where each daemon process is
  build,     \* build_timestamp of each daemon
  cpc,       \* where each client is
  call,      \* local variables of the call it is in
  ts,        \* its build_timestamp
  conn,      \* the daemon of its DaemonClient's connection
  used,      \* that connection has served its command
  calls      \* calls made so far

pids    == <<pidFile, pidOpen>>
files   == <<sock, pids>>
daemons == <<dstate, build>>
client  == <<ts, conn, used, calls>>
vars    == <<binary, files, daemons, cpc, call, client>>

Starting == {"starting", "opening", "removing", "binding", "bound", "listening", "writing"}
Alive    == Starting \cup {"up", "leaving", "exiting", "failing"}
Dead     == {"exited", "termed", "killed"}    \* by itself, by SIGTERM, otherwise

IsAlive(d)  == d \in Daemons /\ dstate[d] \in Alive
Listening   == {"listening", "writing", "up", "leaving", "exiting", "failing"}
Connects(d) == d \in Daemons /\ dstate[d] \in Listening
Living      == {d \in Daemons : dstate[d] \in Alive}
Born        == {d \in Daemons : dstate[d] # "none"}
NextDaemon  == Cardinality(Born) + 1

\* A client is in connect or restart, or in force_stop.
Connecting == {"connect", "look", "unlink", "kill", "signal", "unpid", "spawn", "await",
               "timedOut", "handshake"}
Waiting    == {"await", "timedOut"}    \* for the daemon it has started
Stopping   == {"stop", "stopping", "clean", "cleanSocket"}

Goals   == {"connect", "stop", "restart", "auto"}
Reasons == {"firstStart", "recovered", "binaryUpdated", "forceRestarted"}

\* The goal of a call; the startup reason it gives to the daemon it spawns;
\* retry_attempt; the process it watches or signals, its child or the one the PID
\* file named; the daemon its new connection is to.
Calls == [goal : Goals, reason : Reasons, tries : 0..2, proc : Daemons \cup {None},
          cand : Daemons \cup {None}]
NewCall(g) == [goal |-> g, reason |-> "firstStart", tries |-> 0, proc |-> None, cand |-> None]
NoCall     == NewCall("connect")

\* What an earlier daemon, daemon 1, may have left.
Init ==
  /\ binary \in Builds
  /\ \E left \in {"none", "up", "killed", "exited"} :
       /\ left # "none" => MaxDaemons > 0
       /\ dstate = [d \in Daemons |-> IF d = 1 THEN left ELSE "none"]
       /\ sock = IF left \in {"up", "killed"} THEN 1 ELSE None
       /\ pidFile = sock /\ pidOpen = {}
  /\ build \in [Daemons -> Builds] /\ \A d \in Daemons : d # 1 => build[d] = 1
  /\ cpc   = [c \in Clients |-> "over"]
  /\ call  = [c \in Clients |-> NoCall]
  /\ ts    = [c \in Clients |-> 1]
  /\ conn  = [c \in Clients |-> None]
  /\ used  = [c \in Clients |-> FALSE]
  /\ calls = 0

Goto(c, label)   == cpc' = [cpc EXCEPT ![c] = label]
Return(c, label) == Goto(c, label) /\ call' = [call EXCEPT ![c] = NoCall]

\* The call fails: connect returns no client, restart leaves the old one.
Fail(c) == Return(c, IF call[c].goal = "connect" THEN "over" ELSE "ready")

\* What SIGTERM and SIGKILL do to process d.
AfterTerm(d) == IF GracefulTerm /\ dstate[d] \in {"up", "leaving"} THEN "leaving"
                ELSE IF GracefulTerm /\ dstate[d] = "exiting" THEN "exiting"
                ELSE "termed"
Term(d) == dstate' = IF IsAlive(d) THEN [dstate EXCEPT ![d] = AfterTerm(d)] ELSE dstate
Kill(d) == dstate' = IF IsAlive(d) THEN [dstate EXCEPT ![d] = "killed"] ELSE dstate

RemovePidFile == pidFile' = None /\ pidOpen' = {}

-----------------------------------------------------------------------------
(* Faulty variants of some of the actions below, each a bug this code could *)
(* have. Nothing uses them: the README says which property each one breaks. *)

\* Leaves the process that the PID file named alone.
KillStaleSkipped(c) ==
  /\ cpc[c] = "signal" /\ Goto(c, "unpid")
  /\ UNCHANGED <<binary, files, daemons, call, client>>

\* Takes every socket file for a stale one.
ConnectSkipped(c) ==
  /\ cpc[c] = "connect" /\ Goto(c, "look")
  /\ UNCHANGED <<binary, files, daemons, call, client>>

\* Takes the child for ready without having connected.
ReadyOnceAlive(c) ==
  /\ cpc[c] = "await"
  /\ call' = [call EXCEPT ![c].cand = sock] /\ Goto(c, "handshake")
  /\ UNCHANGED <<binary, files, daemons, client>>

\* Gives the child up without killing it.
StartTimesOutLeaving(c) ==
  /\ cpc[c] = "timedOut"
  /\ Fail(c)
  /\ UNCHANGED <<binary, files, daemons, client>>

\* Waits for ever for the child to end by itself.
StartNeverTimesOut(c) == FALSE

\* Does not look at the second answer's version.
AnsweredAnySecond(c) ==
  /\ cpc[c] = "handshake" /\ dstate[call[c].cand] \in {"up", "leaving", "exiting"}
  /\ conn' = [conn EXCEPT ![c] = call[c].cand] /\ used' = [used EXCEPT ![c] = FALSE]
  /\ Return(c, IF call[c].goal = "auto" THEN "retry" ELSE "ready")
  /\ UNCHANGED <<binary, files, daemons, ts, calls>>

\* Restarts the daemon as long as it answers with another version.
AnsweredRestartsAgain(c) ==
  /\ cpc[c] = "handshake" /\ dstate[call[c].cand] \in {"up", "leaving", "exiting"}
  /\ IF build[call[c].cand] = ts[c]
     THEN /\ conn' = [conn EXCEPT ![c] = call[c].cand] /\ used' = [used EXCEPT ![c] = FALSE]
          /\ Return(c, IF call[c].goal = "auto" THEN "retry" ELSE "ready")
     ELSE /\ call' = [call EXCEPT ![c].reason = "binaryUpdated", ![c].tries = 0]
          /\ Goto(c, "unlink") /\ UNCHANGED <<conn, used>>
  /\ UNCHANGED <<binary, files, daemons, ts, calls>>

\* Gives up on a version mismatch.
AnsweredMismatchFails(c) ==
  /\ cpc[c] = "handshake" /\ dstate[call[c].cand] \in {"up", "leaving", "exiting"}
  /\ IF build[call[c].cand] = ts[c]
     THEN /\ conn' = [conn EXCEPT ![c] = call[c].cand] /\ used' = [used EXCEPT ![c] = FALSE]
          /\ Return(c, IF call[c].goal = "auto" THEN "retry" ELSE "ready")
     ELSE Fail(c) /\ UNCHANGED <<conn, used>>
  /\ UNCHANGED <<binary, files, daemons, ts, calls>>

\* Gives up on a daemon that takes its time.
TermTimesOutSparing(c) ==
  /\ cpc[c] = "stopping" /\ IsAlive(call[c].proc)
  /\ Goto(c, "clean")
  /\ UNCHANGED <<binary, files, daemons, call, client>>

-----------------------------------------------------------------------------
(* Connecting: connect_with_name_and_timestamp.                            *)

\* The client's own timestamp is the executable's at this moment.
Begin(c) ==
  /\ cpc[c] = "over" /\ calls < Budget
  /\ calls' = calls + 1
  /\ ts' = [ts EXCEPT ![c] = binary]
  /\ conn' = [conn EXCEPT ![c] = None] /\ used' = [used EXCEPT ![c] = FALSE]
  /\ Return(c, "connect")
  /\ UNCHANGED <<binary, files, daemons>>

Connect(c) ==
  /\ cpc[c] = "connect"
  /\ IF Connects(sock) THEN call' = [call EXCEPT ![c].cand = sock] /\ Goto(c, "handshake")
                       ELSE UNCHANGED call /\ Goto(c, "look")
  /\ UNCHANGED <<binary, files, daemons, client>>

\* Is there a socket file nobody answers on?
Look(c) ==
  /\ cpc[c] = "look"
  /\ IF sock = None
     THEN UNCHANGED call /\ Goto(c, "kill")
     ELSE call' = [call EXCEPT ![c].reason = "recovered"] /\ Goto(c, "unlink")
  /\ UNCHANGED <<binary, files, daemons, client>>

RemoveSocket(c) ==
  /\ cpc[c] = "unlink"
  /\ sock' = None
  /\ Goto(c, "kill")
  /\ UNCHANGED <<binary, pids, daemons, call, client>>

\* cleanup_stale_processes: the PID file is read, ...
ReadPid(c) ==
  /\ cpc[c] = "kill"
  /\ IF pidFile \in Daemons
     THEN call' = [call EXCEPT ![c].proc = pidFile] /\ Goto(c, "signal")
     ELSE UNCHANGED call /\ Goto(c, "unpid")
  /\ UNCHANGED <<binary, files, daemons, client>>

\* ... the process it named gets a SIGTERM, and is not waited for, ...
KillStale(c) ==
  /\ cpc[c] = "signal"
  /\ Term(call[c].proc)
  /\ Goto(c, "unpid")
  /\ UNCHANGED <<binary, files, build, call, client>>

\* ... and the PID file is removed, whatever is in it by now.
RemovePid(c) ==
  /\ cpc[c] = "unpid"
  /\ RemovePidFile
  /\ Goto(c, "spawn")
  /\ UNCHANGED <<binary, sock, daemons, call, client>>

\* try_spawn_daemon: a new process runs the executable.
Spawn(c) ==
  /\ cpc[c] = "spawn" /\ NextDaemon \in Daemons
  /\ dstate' = [dstate EXCEPT ![NextDaemon] = "starting"]
  /\ call' = [call EXCEPT ![c].proc = NextDaemon]
  /\ Goto(c, "await")
  /\ UNCHANGED <<binary, files, build, client>>

\* The process cannot be created; in the model, when the bound is reached.
SpawnFails(c) ==
  /\ cpc[c] = "spawn" /\ NextDaemon \notin Daemons
  /\ Fail(c)
  /\ UNCHANGED <<binary, files, daemons, client>>

\* An attempt to connect: something, the child or not, answers on the socket. The
\* child was alive at the last look, and may not be any more.
Ready(c) ==
  /\ cpc[c] = "await" /\ Connects(sock)
  /\ call' = [call EXCEPT ![c].cand = sock]
  /\ Goto(c, "handshake")
  /\ UNCHANGED <<binary, files, daemons, client>>

\* The child is over: try again only if a SIGTERM ended it, three times in all.
ChildDied(c) ==
  /\ cpc[c] = "await" /\ ~IsAlive(call[c].proc)
  /\ IF dstate[call[c].proc] = "termed" /\ call[c].tries < 2
     THEN call' = [call EXCEPT ![c].tries = @ + 1] /\ Goto(c, "spawn")
     ELSE Fail(c)
  /\ UNCHANGED <<binary, files, daemons, client>>

\* The fiftieth attempt fails, too, ...
LastAttemptFails(c) ==
  /\ cpc[c] = "await" /\ ~Connects(sock)
  /\ SlowStart \/ dstate[call[c].proc] \notin Starting
  /\ Goto(c, "timedOut")
  /\ UNCHANGED <<binary, files, daemons, call, client>>

\* ... and the child is killed, although it may have come to serve meanwhile.
StartTimesOut(c) ==
  /\ cpc[c] = "timedOut"
  /\ Kill(call[c].proc)
  /\ Fail(c)
  /\ UNCHANGED <<binary, files, build, client>>

\* The daemon answers with its version: done, or restart it. The second answer,
\* and the one after restart(), has to be right.
Answered(c) ==
  LET same  == build[call[c].cand] = ts[c]
      first == call[c].goal = "connect" /\ call[c].reason # "binaryUpdated"
  IN
  /\ cpc[c] = "handshake" /\ dstate[call[c].cand] \in {"up", "leaving", "exiting"}
  /\ \/ /\ same
        /\ conn' = [conn EXCEPT ![c] = call[c].cand] /\ used' = [used EXCEPT ![c] = FALSE]
        /\ Return(c, IF call[c].goal = "auto" THEN "retry" ELSE "ready")
     \/ /\ ~same /\ first
        /\ call' = [call EXCEPT ![c].reason = "binaryUpdated", ![c].tries = 0]
        /\ Goto(c, "unlink")
        /\ UNCHANGED <<conn, used>>
     \/ /\ ~same /\ ~first
        /\ Fail(c)
        /\ UNCHANGED <<conn, used>>
  /\ UNCHANGED <<binary, files, daemons, ts, calls>>

\* The daemon is gone, or going, before it answers.
HandshakeLost(c) ==
  /\ cpc[c] = "handshake" /\ dstate[call[c].cand] \notin {"listening", "writing", "up"}
  /\ Fail(c)
  /\ UNCHANGED <<binary, files, daemons, client>>

-----------------------------------------------------------------------------
(* A DaemonClient's calls: force_stop, restart, execute_command.           *)

ForceStop(c, g) ==
  /\ cpc[c] = "ready" /\ calls < Budget
  /\ calls' = calls + 1
  /\ call' = [call EXCEPT ![c] = NewCall(g)]
  /\ Goto(c, "stop")
  /\ UNCHANGED <<binary, files, daemons, ts, conn, used>>

\* The end of force_stop, as a call of its own or as the first part of restart,
\* which ignores its error and goes on with spawn_fresh_daemon.
StopEnds(c) ==
  IF call[c].goal = "stop"
  THEN Return(c, "ready")
  ELSE call' = [call EXCEPT ![c].reason = "forceRestarted"] /\ Goto(c, "unlink")

\* "Daemon is not running (no PID file found)": the socket file goes, too.
NoPidFile(c) ==
  /\ cpc[c] = "stop" /\ pidFile = None
  /\ Goto(c, "cleanSocket")
  /\ UNCHANGED <<binary, files, daemons, call, client>>

\* "Invalid PID in file": an error, and nothing is removed.
InvalidPid(c) ==
  /\ cpc[c] = "stop" /\ pidFile = Blank
  /\ StopEnds(c)
  /\ UNCHANGED <<binary, files, daemons, client>>

\* "Daemon process is not running": an error, and both files go.
NotRunning(c) ==
  /\ cpc[c] = "stop" /\ pidFile \in Daemons /\ ~IsAlive(pidFile)
  /\ call' = [call EXCEPT ![c].proc = pidFile]
  /\ Goto(c, "clean")
  /\ UNCHANGED <<binary, files, daemons, client>>

SendTerm(c) ==
  /\ cpc[c] = "stop" /\ IsAlive(pidFile)
  /\ call' = [call EXCEPT ![c].proc = pidFile]
  /\ Term(pidFile)
  /\ Goto(c, "stopping")
  /\ UNCHANGED <<binary, files, build, client>>

Terminated(c) ==
  /\ cpc[c] = "stopping" /\ ~IsAlive(call[c].proc)
  /\ Goto(c, "clean")
  /\ UNCHANGED <<binary, files, daemons, call, client>>

\* Still running after one second: SIGKILL.
TermTimesOut(c) ==
  /\ cpc[c] = "stopping" /\ IsAlive(call[c].proc)
  /\ Kill(call[c].proc)
  /\ Goto(c, "clean")
  /\ UNCHANGED <<binary, files, build, call, client>>

\* The process is dead: the PID file goes ...
CleanPid(c) ==
  /\ cpc[c] = "clean"
  /\ RemovePidFile
  /\ Goto(c, "cleanSocket")
  /\ UNCHANGED <<binary, sock, daemons, call, client>>

\* ... and the socket file.
CleanSocket(c) ==
  /\ cpc[c] = "cleanSocket"
  /\ sock' = None
  /\ StopEnds(c)
  /\ UNCHANGED <<binary, pids, daemons, client>>

\* A connection serves one command, while its daemon lives.
Served(c) == ~used[c] /\ dstate[conn[c]] \in {"up", "leaving", "exiting"}

Execute(c) ==
  /\ cpc[c] = "ready" /\ Served(c) /\ calls < Budget
  /\ calls' = calls + 1
  /\ used' = [used EXCEPT ![c] = TRUE]
  /\ UNCHANGED <<binary, files, daemons, cpc, call, ts, conn>>

\* "Connection closed unexpectedly", a broken pipe or a reset: with auto-restart,
\* restart the daemon.
ExecuteLost(c) ==
  /\ c \in AutoClients /\ cpc[c] = "ready" /\ ~Served(c)
  /\ ForceStop(c, "auto")

\* The daemon has run the command and answers that it failed; is_fatal_connection_error
\* searches the text of that error for "broken pipe", "connection refused" and the like.
ExecuteFatalText(c) ==
  /\ FatalTexts /\ c \in AutoClients
  /\ cpc[c] = "ready" /\ Served(c) /\ calls < Budget
  /\ calls' = calls + 1
  /\ used' = [used EXCEPT ![c] = TRUE]
  /\ call' = [call EXCEPT ![c] = NewCall("auto")]
  /\ Goto(c, "stop")
  /\ UNCHANGED <<binary, files, daemons, ts, conn>>

\* The command is run once more, whatever becomes of it.
Retry(c) ==
  /\ cpc[c] = "retry"
  /\ used' = [used EXCEPT ![c] = @ \/ Served(c)]
  /\ Goto(c, "ready")
  /\ UNCHANGED <<binary, files, daemons, call, ts, conn, calls>>

\* The client is dropped, or its process killed in the middle of a call.
Leave(c) ==
  /\ cpc[c] # "over" /\ (cpc[c] = "ready" \/ MayInterrupt)
  /\ Return(c, "over")
  /\ UNCHANGED <<binary, files, daemons, client>>

\* What the client does by itself once a call is begun.
ClientStep(c) ==
  \/ Connect(c) \/ Look(c) \/ RemoveSocket(c) \/ ReadPid(c) \/ KillStale(c) \/ RemovePid(c)
  \/ Spawn(c) \/ SpawnFails(c) \/ Ready(c) \/ ChildDied(c) \/ LastAttemptFails(c)
  \/ StartTimesOut(c) \/ Answered(c) \/ HandshakeLost(c)
  \/ NoPidFile(c) \/ InvalidPid(c) \/ NotRunning(c) \/ SendTerm(c) \/ Terminated(c)
  \/ TermTimesOut(c) \/ CleanPid(c) \/ CleanSocket(c) \/ Retry(c)

ClientNext == \E c \in Clients : \/ ClientStep(c) \/ Begin(c) \/ Execute(c) \/ ExecuteLost(c)
                                 \/ ExecuteFatalText(c) \/ ForceStop(c, "stop") \/ ForceStop(c, "restart")
                                 \/ Leave(c)

-----------------------------------------------------------------------------
(* A daemon process: DaemonServer::new, SocketServer::new, then run.       *)

\* It takes its timestamp from the executable that is on disk by now.
ReadBuild(d) ==
  /\ dstate[d] = "starting"
  /\ dstate' = [dstate EXCEPT ![d] = "opening"]
  /\ build' = [build EXCEPT ![d] = binary]
  /\ UNCHANGED <<binary, files, cpc, call, client>>

Becomes(d, state) == /\ dstate' = [dstate EXCEPT ![d] = state]
                     /\ UNCHANGED <<binary, build, cpc, call, client>>

\* Is there a socket file in the way?
FindSocket(d) ==
  /\ dstate[d] = "opening"
  /\ Becomes(d, IF sock = None THEN "binding" ELSE "removing")
  /\ UNCHANGED files

\* Removing a file that has vanished meanwhile is an error that ends the process.
ClearSocket(d) ==
  /\ dstate[d] = "removing"
  /\ Becomes(d, IF sock = None THEN "exited" ELSE "binding")
  /\ sock' = None
  /\ UNCHANGED pids

\* Binding where another process has bound meanwhile is an error, too.
Bind(d) ==
  /\ dstate[d] = "binding"
  /\ IF sock = None THEN Becomes(d, "bound") /\ sock' = d
                    ELSE Becomes(d, "exited") /\ UNCHANGED sock
  /\ UNCHANGED pids

\* Until it listens, the file is there and connections are refused.
Listen(d) ==
  /\ dstate[d] = "bound"
  /\ Becomes(d, "listening")
  /\ UNCHANGED files

\* Set the socket file's permissions, which fails when the file is gone, and create
\* the PID file, or empty the one that is there.
Publish(d) ==
  /\ dstate[d] = "listening"
  /\ IF sock = None
     THEN Becomes(d, "failing") /\ UNCHANGED pids
     ELSE Becomes(d, "writing") /\ pidFile' = Blank /\ pidOpen' = pidOpen \cup {d}
  /\ UNCHANGED sock

\* Write the PID file, or a file that has been removed meanwhile, and enter the
\* accept loop.
WritePid(d) ==
  /\ dstate[d] = "writing"
  /\ Becomes(d, "up")
  /\ pidFile' = IF d \in pidOpen THEN d ELSE pidFile
  /\ pidOpen' = pidOpen \ {d}
  /\ UNCHANGED sock

\* The shutdown signal, or an accept error.
Leaves(d) ==
  /\ MayStop /\ dstate[d] = "up"
  /\ Becomes(d, "leaving")
  /\ UNCHANGED files

\* run() returns: its guard removes the PID file, then the listener the socket
\* file it was bound to, whoever owns them by now.
LeavePid(d) ==
  /\ dstate[d] = "leaving"
  /\ Becomes(d, "exiting")
  /\ RemovePidFile
  /\ UNCHANGED sock

LeaveSocket(d) ==
  /\ dstate[d] \in {"exiting", "failing"}
  /\ Becomes(d, "exited")
  /\ sock' = None
  /\ UNCHANGED pids

Crash(d) ==
  /\ MayCrash /\ dstate[d] \in Alive
  /\ Becomes(d, "killed")
  /\ UNCHANGED files

DaemonStep(d) == \/ ReadBuild(d) \/ FindSocket(d) \/ ClearSocket(d) \/ Bind(d) \/ Listen(d)
                 \/ Publish(d) \/ WritePid(d) \/ LeavePid(d) \/ LeaveSocket(d)
DaemonNext == \E d \in Daemons : DaemonStep(d) \/ Leaves(d) \/ Crash(d)

\* The executable is built again. (Init has the one that is older than the daemon.)
Rebuild ==
  /\ binary < MaxBuild
  /\ binary' = binary + 1
  /\ UNCHANGED <<files, daemons, cpc, call, client>>

\* No client is in connect, restart or force_stop.
Quiet == \A c \in Clients : cpc[c] \notin Connecting \cup Stopping

\* The clients have made all of their calls.
Done == Quiet /\ calls = Budget /\ UNCHANGED vars

Next == ClientNext \/ DaemonNext \/ Rebuild \/ Done

Spec == Init /\ [][Next]_vars

\* Every process that can go on does; timeouts expire.
FairSpec == /\ Spec
            /\ \A c \in Clients : WF_vars(ClientStep(c))
            /\ \A d \in Daemons : WF_vars(DaemonStep(d))

-----------------------------------------------------------------------------
(* Properties.                                                             *)

\* Every variable holds a value of its type (client.rs:87-612, server.rs:207-222).
TypeOK ==
  /\ binary \in Builds
  /\ sock \in Daemons \cup {None} /\ pidFile \in Daemons \cup {None, Blank}
  /\ pidOpen \subseteq Daemons
  /\ dstate \in [Daemons -> Alive \cup Dead \cup {"none"}]
  /\ build \in [Daemons -> Builds]
  /\ cpc \in [Clients -> Connecting \cup Stopping \cup {"ready", "retry", "over"}]
  /\ call \in [Clients -> Calls]
  /\ ts \in [Clients -> Builds]
  /\ conn \in [Clients -> Daemons \cup {None}]
  /\ used \in [Clients -> BOOLEAN]
  /\ calls \in 0..Budget
  /\ \A c \in Clients : /\ cpc[c] = "handshake" => call[c].cand \in Born
                        /\ cpc[c] \in {"signal", "await", "timedOut", "stopping"}
                           => call[c].proc \in Born
                        /\ cpc[c] \in {"ready", "retry"} => conn[c] \in Born

\* A client that got its connection talks to a daemon of its own build, whichever
\* daemon answered on the socket and whatever was built or replaced meanwhile.
OwnVersion == \A c \in Clients : cpc[c] \in {"ready", "retry"} => build[conn[c]] = ts[c]

\* When no call is in progress the living daemons are those that can be reached:
\* both files name a daemon that serves, and there is no other.
Serves(d) == dstate[d] = "up" /\ sock = d /\ pidFile = d
NoLostDaemon == Quiet => \A d \in Living : Serves(d)

\* A daemon is started only when none is alive: after the cleanup, a failed
\* start, a timeout, or force_stop.
StartsAlone == [][Cardinality(Living') > Cardinality(Living) => Living = {}]_vars

\* When force_stop has looked for the daemon or stopped it, and sets about removing
\* its files, that process is dead.
StopsForGood == \A c \in Clients : cpc[c] = "clean" => dstate[call[c].proc] \in Dead

\* Every call of every client returns, whatever the others do to its daemon.
CallsReturn == \A c \in Clients : cpc[c] \in Connecting \cup Stopping ~> cpc[c] \in {"ready", "over"}

\* A call takes a bounded number of steps of its own, however other clients restart,
\* stop and replace the daemons it starts or talks to: it starts three at most, and
\* asks for another one once, when the first answer of a connect is not decisive.
Decisive(c) == call[c].goal # "connect" \/ call[c].reason = "binaryUpdated"
ToStart(c) == CASE cpc[c] = "connect"   -> 15
                [] cpc[c] = "look"      -> 14
                [] cpc[c] = "unlink"    -> 13
                [] cpc[c] = "kill"      -> 12
                [] cpc[c] = "signal"    -> 11
                [] cpc[c] = "unpid"     -> 10
                [] cpc[c] = "spawn"     -> 9 - 2 * call[c].tries
                [] cpc[c] = "await"     -> 8 - 2 * call[c].tries
                [] cpc[c] = "timedOut"  -> 1
                [] cpc[c] = "handshake" -> 1
ToStop(c) == CASE cpc[c] = "stop"        -> 17
               [] cpc[c] = "stopping"    -> 16
               [] cpc[c] = "clean"       -> 15
               [] cpc[c] = "cleanSocket" -> 14
StepsLeft(c) == IF cpc[c] \in Stopping THEN ToStop(c)
                ELSE IF cpc[c] \in Connecting THEN ToStart(c) + (IF Decisive(c) THEN 0 ELSE 13)
                ELSE 0
CallsBounded ==
  [][\A c \in Clients : cpc[c] \in Connecting \cup Stopping /\ cpc'[c] # cpc[c]
                        => StepsLeft(c)' < StepsLeft(c)]_vars

\* A client that is alone fails to connect only for a cause outside of the two
\* programs: the executable was rebuilt under it, a daemon was killed or took
\* too long, or no process could be created. What an earlier daemon left, dead
\* or alive and of whatever build, is not a cause.
ConnectFailsForCause ==
  [][\A c \in Clients :
       /\ cpc[c] \in Connecting /\ call[c].goal = "connect" /\ cpc'[c] = "over"
       => \/ binary # ts[c]
          \/ \E d \in {call[c].proc, call[c].cand} \ {None} : dstate'[d] = "killed"
          \/ NextDaemon \notin Daemons]_vars

\* A client that is alone gets what DaemonPromise says: one daemon at a time, of its
\* own build, that while it can be reached nothing ends but force_stop, restart, or
\* the call that started it and would not wait for it any longer.
User(c) == CASE cpc[c] \in Waiting              -> "waiting"
             [] cpc[c] \in Connecting \ Waiting -> "connecting"
             [] cpc[c] \in Stopping             -> "stopping"
             [] cpc[c] \in {"ready", "retry"}    -> "holding"
             [] cpc[c] = "over"                 -> "idle"
Peer(c) == IF cpc[c] = "over" THEN None ELSE conn[c]
PromisedTo(c) == INSTANCE DaemonPromise WITH
  Processes <- Daemons, Nobody <- None, Crashes <- MayCrash,
  newest <- binary, alive <- Living, serving <- \E d \in Living : Serves(d), version <- build,
  user <- User(c), mine <- ts[c], peer <- Peer(c)
KeepsPromise ==
  /\ \A c \in Clients : PromisedTo(c)!Init
  /\ [][\A c \in Clients : [PromisedTo(c)!Next]_(PromisedTo(c)!promiseVars)]_vars

\* "Clean up stale socket file - daemon crashed or was killed": a client that
\* reports a recovery removes the socket of a dead daemon.
RemovesStaleOnly ==
  [][\A c \in Clients : /\ cpc[c] = "unlink" /\ cpc'[c] = "kill"
                        /\ call[c].reason = "recovered"
                        => ~IsAlive(sock)]_vars

\* Auto-restart is for a daemon that crashed or hangs: it leaves alone the one
\* that has answered and still serves.
AutoRestartsDead ==
  [][\A c \in Clients : cpc[c] = "ready" /\ cpc'[c] = "stop" /\ call'[c].goal = "auto"
                        => ~IsAlive(conn[c])]_vars

\* "Returns false for normal errors": a command is run a second time only where its
\* daemon could not serve it, never one that was run, and answered, with an error.
RetriesUnanswered ==
  [][\A c \in Clients : cpc[c] = "ready" /\ cpc'[c] = "stop" /\ call'[c].goal = "auto"
                        => ~Served(c)]_vars
=============================================================================
