------------------------ MODULE LifecycleAloneProofs ------------------------
(***************************************************************************)
(* Proofs about Lifecycle with one client, undisturbed: no daemon is lost, *)
(* none is started beside another, and connecting fails only for a cause   *)
(* outside of the two programs.                                            *)
(***************************************************************************)
EXTENDS LifecycleAlone, LifecycleProofs

(* What IInv says that is needed here.                                     *)
LEMMA Shapes ==
  ASSUME IInv, NEW c \in Clients
  PROVE  /\ TypeOK /\ PidsInOrder /\ FilesInv /\ ClientTypes /\ ClientInv(c)
         /\ dstate \in [Daemons -> States] /\ build \in [Daemons -> Builds]
         /\ binary \in Builds /\ Builds \subseteq Int
         /\ cpc[c] \in Labels /\ call[c] \in Calls
         /\ ts[c] \in Builds
         /\ None \notin Daemons /\ Blank \notin Daemons
         /\ Living \subseteq Daemons /\ Living \subseteq Born
<1>1. /\ TypeOK /\ PidsInOrder /\ FilesInv /\ ClientTypes /\ ClientInv(c)
      /\ dstate \in [Daemons -> States] /\ build \in [Daemons -> Builds] /\ binary \in Builds
  BY InvByClient DEF IInv
<1>2. None \notin Daemons /\ Blank \notin Daemons /\ Builds \subseteq Int
  BY BoundsAssumption DEF None, Blank, Daemons, Builds
<1>3. Living \subseteq Daemons /\ Living \subseteq Born
  BY StateNames DEF Living, Born
<1>4. cpc[c] \in Labels /\ call[c] \in Calls /\ ts[c] \in Builds
  BY <1>1 DEF ClientTypes
<1>5. QED
  BY <1>1, <1>2, <1>3, <1>4

(* The states of a daemon that rises or serves.                            *)
LEMMA RisingLives ==
  ASSUME NEW d, Rises(d) \/ Serves(d)
  PROVE  /\ dstate[d] \in {"starting", "opening", "binding", "bound", "listening", "writing", "up"}
         /\ dstate[d] \in Alive
         /\ dstate[d] \in Listening => sock = d
BY DEF Rises, Serves, Alive, Starting, Listening

(* A client that waits knows of one daemon; one that does not, and has not *)
(* just removed the socket, can reach every daemon.                        *)
LEMMA AtMostOne ==
  ASSUME IInv, NEW c \in Clients, Knows(c)
  PROVE  \A d, e \in Living : d = e
<1>1. cpc[c] \in Resting \cup Emptied \cup Waiting \cup {"kill", "signal", "handshake"}
  BY Shapes DEF Labels, Resting, Emptied, Waiting, Connecting, Stopping
<1>2. QED
  BY <1>1 DEF Knows, Serves, Watches

(* What a daemon that dies, or is killed, leaves behind: nothing alive.    *)
LEMMA OneFewer ==
  ASSUME IInv, NEW c \in Clients, Knows(c), NEW d \in Living, NEW s \in Dead,
         dstate' = [dstate EXCEPT ![d] = s]
  PROVE  Living' = {} /\ dstate'[d] = s
<1>1. d \in Daemons /\ dstate \in [Daemons -> States] /\ s \notin Alive
  BY Shapes, StateNames
<1>2. dstate'[d] = s
  BY <1>1
<1>3. Living' \subseteq Living \ {d}
  BY <1>1 DEF Living
<1>4. QED
  BY <1>2, <1>3, AtMostOne

(* A step that touches no file and no process leaves what is known of them *)
(* true.                                                                   *)
LEMMA NothingMoves ==
  ASSUME UNCHANGED <<files, dstate>>
  PROVE  /\ Living' = Living
         /\ \A d : /\ Serves(d)' <=> Serves(d)
                   /\ Watches(d)' <=> Watches(d)
BY DEF files, pids, Living, Serves, Rises, Watches

(* What is to be known at a step where the client has nothing to watch.    *)
LEMMA KnowsAtRest ==
  ASSUME NEW c \in Clients, cpc'[c] \in Resting, \A d \in Living' : Serves(d)'
  PROVE  Knows(c)'
BY DEF Knows, Resting, Emptied, Waiting

LEMMA KnowsEmptied ==
  ASSUME NEW c \in Clients, cpc'[c] \in Resting \cup Emptied, Living' = {},
         cpc'[c] \in {"unpid", "spawn"} => sock' = None
  PROVE  Knows(c)'
BY DEF Knows, Resting, Emptied, Waiting

-----------------------------------------------------------------------------
(* The client's steps.                                                     *)

(* A daemon that answers is the only one, and can be reached.              *)
LEMMA FoundSteps ==
  ASSUME IInv, NEW c \in Clients, Knows(c), Connect(c) \/ Ready(c)
  PROVE  Knows(c)'
<1>1. UNCHANGED <<files, dstate>> /\ cpc \in [Clients -> Labels] /\ call \in [Clients -> Calls]
  BY Shapes DEF Connect, Ready, daemons, ClientTypes
<1>2. CASE Connects(sock)
  <2>1. /\ cpc'[c] = "handshake" /\ call'[c].cand = sock
    BY <1>1, <1>2 DEF Connect, Ready, Goto, Calls
  <2>2. sock \in Living /\ dstate[sock] \in Listening
    BY <1>2, StateNames DEF Connects, Living
  <2>3. Watches(sock)
    <3>1. CASE Connect(c)
      <4>1. Serves(sock)
        BY <3>1, <2>2 DEF Connect, Knows, Resting
      <4>2. QED
        BY <4>1, <2>2, AtMostOne DEF Watches
    <3>2. CASE Ready(c)
      BY <3>2, <2>2 DEF Ready, Knows, Watches, Waiting
    <3>3. QED
      BY <3>1, <3>2
  <2>4. dstate[sock] \notin Unbound
    BY <2>2 DEF Listening, Unbound
  <2>5. QED
    BY <1>1, <2>1, <2>3, <2>4, NothingMoves DEF Knows, Resting, Emptied, Waiting
<1>3. CASE ~Connects(sock)
  <2>1. cpc[c] = "connect" /\ cpc'[c] = "look"
    BY <1>1, <1>3 DEF Connect, Ready, Goto
  <2>2. Living = {}
    <3> SUFFICES ASSUME NEW d \in Living PROVE FALSE
      OBVIOUS
    <3>1. Serves(d) /\ d \in Daemons
      BY <2>1, Shapes DEF Knows, Resting
    <3>2. QED
      BY <1>3, <3>1 DEF Serves, Connects, Listening
  <2>3. QED
    BY <1>1, <2>1, <2>2, NothingMoves, KnowsEmptied DEF Emptied
<1>4. QED
  BY <1>2, <1>3

(* The process that the PID file named is all there is.                    *)
LEMMA KillsStale ==
  ASSUME IInv, NEW c \in Clients, Knows(c), ~GracefulTerm, KillStale(c)
  PROVE  Living' = {}
<1> DEFINE d == call[c].proc
<1>1. CASE Living = {}
  <2>1. dstate' = dstate
    BY <1>1 DEF KillStale, Term, IsAlive, Living
  <2>2. QED
    BY <1>1, <2>1 DEF Living
<1>2. CASE Living # {}
  <2>1. d \in Living
    BY <1>2 DEF KillStale, Knows
  <2>2. dstate' = [dstate EXCEPT ![d] = "termed"]
    BY <2>1 DEF KillStale, Term, IsAlive, Living, AfterTerm
  <2>3. QED
    BY <2>1, <2>2, StateNames, OneFewer
<1>3. QED
  BY <1>1, <1>2

(* Cleaning up behind a daemon: no process is left when the next starts.   *)
LEMMA CleanupSteps ==
  ASSUME IInv, NEW c \in Clients, Knows(c), ~GracefulTerm,
         Look(c) \/ RemoveSocket(c) \/ ReadPid(c) \/ KillStale(c) \/ RemovePid(c)
  PROVE  Knows(c)'
<1>1. /\ cpc \in [Clients -> Labels] /\ call \in [Clients -> Calls]
      /\ pidFile \in Daemons \cup {None, Blank}
  BY Shapes DEF ClientTypes, TypeOK
<1>2. CASE Look(c)
  <2>1. UNCHANGED <<files, dstate>> /\ cpc[c] = "look"
    BY <1>2 DEF Look, daemons
  <2>2. Living' = {}
    BY <2>1, NothingMoves DEF Knows, Emptied
  <2>3. cpc'[c] = "unlink" \/ (cpc'[c] = "kill" /\ sock' = None)
    BY <1>1, <1>2, <2>1 DEF Look, Goto, files
  <2>4. QED
    BY <2>2, <2>3 DEF Knows, Resting, Emptied, Waiting
<1>3. CASE RemoveSocket(c)
  <2>1. cpc[c] = "unlink" /\ cpc'[c] = "kill" /\ sock' = None /\ dstate' = dstate /\ pidFile' = pidFile
    BY <1>1, <1>3 DEF RemoveSocket, Goto, daemons, pids
  <2>2. \A d \in Living' : dstate'[d] = "up" /\ pidFile' = d
    BY <2>1 DEF Knows, Resting, Serves, Living
  <2>3. QED
    BY <2>1, <2>2 DEF Knows, Resting, Emptied, Waiting
<1>4. CASE KillStale(c)
  <2>1. cpc[c] = "signal" /\ cpc'[c] = "unpid" /\ sock = None /\ sock' = None
    BY <1>1, <1>4 DEF KillStale, Goto, files, Knows
  <2>2. Living' = {}
    BY <1>4, KillsStale
  <2>3. QED
    BY <2>1, <2>2, KnowsEmptied DEF Emptied
<1>5. CASE RemovePid(c)
  <2>1. cpc[c] = "unpid" /\ cpc'[c] = "spawn" /\ dstate' = dstate /\ sock' = sock
    BY <1>1, <1>5 DEF RemovePid, Goto, daemons
  <2>2. Living' = {} /\ sock' = None
    BY <2>1 DEF Knows, Emptied, Living
  <2>3. QED
    BY <2>1, <2>2, KnowsEmptied DEF Emptied
<1>6. CASE ReadPid(c)
  <2>1. cpc[c] = "kill" /\ sock' = None /\ UNCHANGED <<files, dstate>>
    BY <1>6 DEF ReadPid, daemons, files, Knows
  <2>2. CASE pidFile \in Daemons
    <3>1. cpc'[c] = "signal" /\ call'[c].proc = pidFile
      BY <1>1, <1>6, <2>2 DEF ReadPid, Goto, Calls
    <3>2. \A d \in Living' : dstate'[d] = "up" /\ call'[c].proc = d
      BY <2>1, <3>1, NothingMoves DEF Knows
    <3>3. QED
      BY <2>1, <3>1, <3>2 DEF Knows, Resting, Emptied, Waiting
  <2>3. CASE pidFile \notin Daemons
    <3>1. cpc'[c] = "unpid"
      BY <1>1, <1>6, <2>3 DEF ReadPid, Goto
    <3>2. Living' = {}
      BY <2>1, <2>3, NothingMoves DEF Knows, Living
    <3>3. QED
      BY <2>1, <3>1, <3>2, KnowsEmptied DEF Emptied
  <2>4. QED
    BY <2>2, <2>3
<1>7. QED
  BY <1>2, <1>3, <1>4, <1>5, <1>6

(* Starting a daemon, when none is alive.                                  *)
LEMMA SpawnStep ==
  ASSUME IInv, NEW c \in Clients, Knows(c), Spawn(c)
  PROVE  Knows(c)' /\ Living = {}
<1> PICK n \in Daemons : n = NextDaemon
  BY DEF Spawn
<1>1. cpc \in [Clients -> Labels] /\ call \in [Clients -> Calls] /\ dstate \in [Daemons -> States]
  BY Shapes DEF ClientTypes
<1>2. Living = {} /\ sock = None
  BY DEF Spawn, Knows, Emptied
<1>3. /\ cpc'[c] = "await" /\ call'[c].proc = n /\ sock' = None
      /\ dstate' = [dstate EXCEPT ![n] = "starting"]
  BY <1>1, <1>2 DEF Spawn, Goto, Calls, files
<1>4. dstate'[n] = "starting" /\ Living' \subseteq {n}
  BY <1>1, <1>2, <1>3 DEF Living
<1>5. Watches(n)'
  BY <1>3, <1>4 DEF Watches, Rises
<1>6. QED
  BY <1>2, <1>3, <1>5 DEF Knows, Resting, Emptied, Waiting

(* The child that is given up is all there is, and is killed, serving or    *)
(* not, unless it has died before.                                         *)
LEMMA TimesOutEnds ==
  ASSUME IInv, NEW c \in Clients, Knows(c), StartTimesOut(c)
  PROVE  Living' = {} /\ dstate'[call[c].proc] = "killed"
<1> DEFINE d == call[c].proc
<1>1. Watches(d) /\ d \in Daemons /\ dstate \in [Daemons -> States]
  BY Shapes DEF StartTimesOut, Knows, Waiting, ClientInv, Born
<1>2. CASE IsAlive(d)
  <2>1. d \in Living /\ dstate' = [dstate EXCEPT ![d] = "killed"]
    BY <1>2 DEF StartTimesOut, Kill, IsAlive, Living
  <2>2. QED
    BY <2>1, StateNames, OneFewer
<1>3. CASE ~IsAlive(d)
  <2>1. dstate' = dstate /\ d \notin Living
    BY <1>3 DEF StartTimesOut, Kill, IsAlive, Living
  <2>2. dstate[d] = "killed" /\ Living = {}
    BY <1>1, <1>3, <2>1, RisingLives DEF Watches, IsAlive
  <2>3. QED
    BY <2>1, <2>2 DEF Living
<1>4. QED
  BY <1>2, <1>3

(* The last attempt to connect fails: the client knows what it knew.       *)
LEMMA LastAttemptKnows ==
  ASSUME IInv, NEW c \in Clients, Knows(c), LastAttemptFails(c)
  PROVE  Knows(c)'
<1>1. /\ cpc[c] = "await" /\ cpc'[c] = "timedOut" /\ call' = call
      /\ UNCHANGED <<files, dstate>>
  BY Shapes DEF LastAttemptFails, Goto, ClientTypes, daemons
<1>2. Watches(call[c].proc)
  BY <1>1 DEF Knows, Waiting
<1>3. Watches(call[c].proc)'
  BY <1>1, <1>2, NothingMoves
<1>4. QED
  BY <1>1, <1>3 DEF Knows, Resting, Emptied, Waiting

(* The end of a connect that fails: the daemon that was waited for has     *)
(* died, or answers with another version, and there is no other.           *)
LEMMA FailingSteps ==
  ASSUME IInv, NEW c \in Clients, Knows(c),
         SpawnFails(c) \/ ChildDied(c) \/ StartTimesOut(c) \/ HandshakeLost(c)
  PROVE  Knows(c)' /\ Living' = {}
<1>1. cpc \in [Clients -> Labels] /\ dstate \in [Daemons -> States]
  BY Shapes DEF ClientTypes
<1>2. Fail(c) => cpc'[c] \in Resting
  BY <1>1 DEF Fail, Return, Goto, Resting
<1>3. CASE SpawnFails(c)
  <2>1. Living' = {} /\ Fail(c)
    BY <1>3 DEF SpawnFails, Knows, Emptied, daemons, Living
  <2>2. QED
    BY <1>2, <2>1, KnowsEmptied, LabelNames DEF Resting
<1>4. CASE ChildDied(c)
  <2> DEFINE d == call[c].proc
  <2>1. cpc[c] = "await" /\ ~IsAlive(d) /\ dstate' = dstate /\ d \in Daemons
    BY <1>4, Shapes DEF ChildDied, daemons, ClientInv, Born
  <2>2. dstate[d] = "killed" /\ Living = {}
    BY <2>1, RisingLives DEF Knows, Watches, IsAlive, Living, Waiting
  <2>3. Fail(c)
    BY <1>4, <2>2 DEF ChildDied
  <2>4. Living' = {}
    BY <2>1, <2>2 DEF Living
  <2>5. QED
    BY <1>2, <2>3, <2>4, KnowsEmptied DEF Resting
<1>5. CASE StartTimesOut(c)
  <2>1. Fail(c) /\ Living' = {}
    BY <1>5, TimesOutEnds DEF StartTimesOut
  <2>2. QED
    BY <1>2, <2>1, KnowsEmptied DEF Resting
<1>6. CASE HandshakeLost(c)
  <2> DEFINE d == call[c].cand
  <2>1. /\ cpc[c] = "handshake" /\ dstate[d] \notin {"listening", "writing", "up"}
        /\ dstate' = dstate /\ Fail(c)
    BY <1>6 DEF HandshakeLost, daemons
  <2>2. dstate[d] = "killed" /\ Living \subseteq {d}
    BY <2>1, RisingLives DEF Knows, Watches, Unbound
  <2>3. Living' = {}
    BY <2>1, <2>2, StateNames DEF Living
  <2>4. QED
    BY <1>2, <2>1, <2>3, KnowsEmptied DEF Resting
<1>7. QED
  BY <1>3, <1>4, <1>5, <1>6

(* The answer comes from a daemon that serves, whatever the client makes   *)
(* of it.                                                                  *)
LEMMA AnsweredKnows ==
  ASSUME IInv, NEW c \in Clients, Knows(c), Answered(c)
  PROVE  Knows(c)'
<1> DEFINE d == call[c].cand
<1>1. UNCHANGED <<files, dstate>> /\ cpc[c] = "handshake" /\ dstate[d] \in {"up", "leaving", "exiting"}
  BY DEF Answered, daemons
<1>2. cpc'[c] \in Resting
  BY Shapes DEF Answered, Return, Fail, Goto, ClientTypes, Resting
<1>3. Serves(d) /\ Living \subseteq {d}
  BY <1>1, RisingLives DEF Knows, Watches, Rises
<1>4. \A e \in Living' : Serves(e)'
  BY <1>1, <1>3, NothingMoves
<1>5. QED
  BY <1>2, <1>4, KnowsAtRest

(* force_stop: when it finds no process to end there is none.              *)
LEMMA StoppingKnows ==
  ASSUME IInv, NEW c \in Clients, Knows(c), ~GracefulTerm,
         \/ NoPidFile(c) \/ InvalidPid(c) \/ NotRunning(c) \/ SendTerm(c)
         \/ Terminated(c) \/ TermTimesOut(c) \/ CleanPid(c) \/ CleanSocket(c)
  PROVE  Knows(c)' /\ Living' = {}
<1>1. cpc \in [Clients -> Labels] /\ None \notin Daemons /\ Blank \notin Daemons
  BY Shapes DEF ClientTypes
<1>2. Living' = {}
  <2>1. CASE Living = {}
    <3>1. dstate' = dstate
      BY <2>1
      DEF NoPidFile, InvalidPid, NotRunning, SendTerm, Terminated, TermTimesOut, CleanPid,
          CleanSocket, Term, IsAlive, Living, daemons
    <3>2. QED
      BY <2>1, <3>1 DEF Living
  <2>2. CASE Living # {}
    <3>1. cpc[c] = "stop"
      BY <2>2
      DEF NoPidFile, InvalidPid, NotRunning, SendTerm, Terminated, TermTimesOut, CleanPid,
          CleanSocket, Knows, Emptied
    <3>2. pidFile \in Living /\ pidFile \in Daemons
      BY <2>2, <3>1, Shapes DEF Knows, Resting, Serves
    <3>3. IsAlive(pidFile) /\ pidFile # None /\ pidFile # Blank
      BY <1>1, <3>2 DEF IsAlive, Living
    <3>4. dstate' = [dstate EXCEPT ![pidFile] = "termed"]
      BY <3>1, <3>3
      DEF NoPidFile, InvalidPid, NotRunning, SendTerm, Terminated, TermTimesOut, CleanPid,
          CleanSocket, Term, AfterTerm
    <3>5. QED
      BY <3>2, <3>4, StateNames, OneFewer
  <2>3. QED
    BY <2>1, <2>2
<1>3. cpc'[c] \in {"ready", "unlink", "stopping", "clean", "cleanSocket"}
  BY <1>1
  DEF NoPidFile, InvalidPid, NotRunning, SendTerm, Terminated, TermTimesOut, CleanPid,
      CleanSocket, StopEnds, Return, Goto
<1>4. QED
  BY <1>2, <1>3, KnowsEmptied DEF Resting, Emptied

(* Between calls, and at the beginning of one, nothing happens to a daemon. *)
LEMMA CallKnows ==
  ASSUME IInv, NEW c \in Clients, Knows(c), ~MayInterrupt,
         \/ Begin(c) \/ Execute(c) \/ ExecuteLost(c) \/ ExecuteFatalText(c) \/ Retry(c)
         \/ ForceStop(c, "stop") \/ ForceStop(c, "restart") \/ Leave(c)
  PROVE  Knows(c)'
<1>1. UNCHANGED <<files, dstate>>
  BY DEF Begin, Execute, ExecuteLost, ExecuteFatalText, Retry, ForceStop, Leave, daemons
<1>2. cpc[c] \in Resting /\ cpc'[c] \in Resting
  BY Shapes
  DEF Begin, Execute, ExecuteLost, ExecuteFatalText, Retry, ForceStop, Leave, Return, Goto,
      ClientTypes, Resting
<1>3. \A d \in Living' : Serves(d)'
  BY <1>1, <1>2, NothingMoves DEF Knows
<1>4. QED
  BY <1>2, <1>3, KnowsAtRest

(* So what the client knows of the daemons stays true in all of its steps. *)
LEMMA ClientKnows ==
  ASSUME IInv, NEW c \in Clients, Knows(c), ~GracefulTerm, ~MayInterrupt,
         \/ ClientStep(c) \/ Begin(c) \/ Execute(c) \/ ExecuteLost(c) \/ ExecuteFatalText(c)
         \/ ForceStop(c, "stop") \/ ForceStop(c, "restart") \/ Leave(c)
  PROVE  Knows(c)'
BY FoundSteps, CleanupSteps, SpawnStep, LastAttemptKnows, FailingSteps, AnsweredKnows,
   StoppingKnows, CallKnows
DEF ClientStep

-----------------------------------------------------------------------------
(* The daemons' steps.                                                     *)

(* A daemon that lives goes on its way, or serves, or is killed.           *)
LEMMA DaemonRises ==
  ASSUME IInv, ~MayStop, NEW d \in Daemons, Rises(d) \/ Serves(d),
         DaemonStep(d) \/ Leaves(d)
  PROVE  /\ Rises(d) /\ (Rises(d)' \/ Serves(d)')
         /\ dstate[d] \notin Unbound => dstate'[d] \notin Unbound
         /\ \A e \in Daemons \ {d} : dstate'[e] = dstate[e]
<1>1. dstate \in [Daemons -> States] /\ d # None
  BY InvByClient, BoundsAssumption DEF Daemons, None
<1>2. Rises(d)
  BY DEF Serves, DaemonStep, ReadBuild, FindSocket, ClearSocket, Bind, Listen, Publish, WritePid,
         Leaves, LeavePid, LeaveSocket
<1>3. \A e \in Daemons \ {d} : dstate'[e] = dstate[e]
  BY <1>1
  DEF DaemonStep, ReadBuild, FindSocket, ClearSocket, Bind, Listen, Publish, WritePid, Leaves,
      LeavePid, LeaveSocket, Becomes
<1>4. CASE FindSocket(d)
  BY <1>1, <1>2, <1>3, <1>4 DEF FindSocket, Becomes, Rises, files, Unbound
<1>5. CASE Bind(d)
  BY <1>1, <1>2, <1>3, <1>5 DEF Bind, Becomes, Rises, Unbound
<1>6. CASE Listen(d)
  BY <1>1, <1>2, <1>3, <1>6 DEF Listen, Becomes, Rises, files, Unbound
<1>7. CASE Publish(d)
  BY <1>1, <1>2, <1>3, <1>7 DEF Publish, Becomes, Rises, Unbound
<1>8. CASE WritePid(d)
  BY <1>1, <1>2, <1>3, <1>8 DEF WritePid, Becomes, Rises, Serves, Unbound
<1>9. CASE ClearSocket(d) \/ LeavePid(d) \/ LeaveSocket(d) \/ Leaves(d)
  BY <1>2, <1>9 DEF Rises, ClearSocket, LeavePid, LeaveSocket, Leaves
<1>10. CASE ReadBuild(d)
  BY <1>1, <1>2, <1>3, <1>10 DEF ReadBuild, Rises, files, Unbound
<1>11. QED
  BY <1>4, <1>5, <1>6, <1>7, <1>8, <1>9, <1>10 DEF DaemonStep

(* No step of a daemon makes another one.                                  *)
LEMMA DaemonsFewer ==
  ASSUME TypeOK, NEW d \in Daemons, DaemonStep(d) \/ Leaves(d) \/ Crash(d)
  PROVE  Living' \subseteq Living /\ d \in Living
<1>1. d \in Living
  BY DEF DaemonStep, ReadBuild, FindSocket, ClearSocket, Bind, Listen, Publish, WritePid, Leaves,
         LeavePid, LeaveSocket, Crash, Living, Alive, Starting
<1>2. PICK s : dstate' = [dstate EXCEPT ![d] = s]
  BY DEF DaemonStep, ReadBuild, FindSocket, ClearSocket, Bind, Listen, Publish, WritePid, Leaves,
         LeavePid, LeaveSocket, Crash, Becomes
<1>3. QED
  BY <1>1, <1>2 DEF Living, TypeOK

(* Only a client that waits is there while a daemon rises.                 *)
LEMMA RisesAwaited ==
  ASSUME IInv, NEW c \in Clients, Knows(c), NEW d \in Living, ~Serves(d),
         cpc[c] \notin {"kill", "signal"}
  PROVE  \/ cpc[c] \in Waiting /\ d = call[c].proc /\ Watches(d)
         \/ cpc[c] = "handshake" /\ d = call[c].cand /\ Watches(d)
<1>1. cpc[c] \in Resting \cup Emptied \cup Waiting \cup {"kill", "signal", "handshake"}
  BY Shapes DEF Labels, Resting, Emptied, Waiting, Connecting, Stopping
<1>2. QED
  BY <1>1 DEF Knows, Watches

(* What the client knows stays true in the steps of the daemons.           *)
LEMMA DaemonKnows ==
  ASSUME IInv, NEW c \in Clients, Knows(c), ~MayStop, NEW d \in Daemons,
         DaemonStep(d) \/ Leaves(d) \/ Crash(d)
  PROVE  Knows(c)'
<1>1. dstate \in [Daemons -> States] /\ UNCHANGED <<cpc, call>>
  BY Shapes, DaemonMoves
<1>2. d \in Living
  BY Shapes, DaemonsFewer
<1>3. CASE Crash(d)
  <2>1. dstate' = [dstate EXCEPT ![d] = "killed"] /\ UNCHANGED files
    BY <1>3 DEF Crash, Becomes
  <2>2. Living' = {} /\ dstate'[d] = "killed"
    BY <1>2, <2>1, StateNames, OneFewer
  <2>3. Watches(d)'
    BY <2>2 DEF Watches
  <2>4. /\ cpc[c] \in Waiting => call[c].proc = d
        /\ cpc[c] = "handshake" => call[c].cand = d
    BY <1>2 DEF Knows, Watches
  <2>5. sock' = sock
    BY <2>1 DEF files
  <2>6. QED
    BY <1>1, <2>2, <2>3, <2>4, <2>5 DEF Knows, Unbound
<1>4. CASE DaemonStep(d) \/ Leaves(d)
  <2>1. ~Serves(d) /\ cpc[c] \notin {"kill", "signal"}
    BY <1>2, <1>4
    DEF Knows, Serves, DaemonStep, ReadBuild, FindSocket, ClearSocket, Bind, Listen, Publish,
        WritePid, Leaves, LeavePid, LeaveSocket
  <2>2. \/ cpc[c] \in Waiting /\ d = call[c].proc /\ Watches(d)
        \/ cpc[c] = "handshake" /\ d = call[c].cand /\ Watches(d)
    BY <1>2, <2>1, RisesAwaited
  <2>3. Rises(d) \/ Serves(d)
    BY <1>2, <2>2, StateNames DEF Watches, Living
  <2>4. /\ Rises(d)' \/ Serves(d)'
        /\ dstate[d] \notin Unbound => dstate'[d] \notin Unbound
        /\ \A e \in Daemons \ {d} : dstate'[e] = dstate[e]
    BY <1>4, <2>3, DaemonRises
  <2>5. Living' \subseteq {d}
    BY <2>2, <2>4 DEF Watches, Living
  <2>6. Watches(d)'
    BY <2>4, <2>5 DEF Watches
  <2>7. QED
    BY <1>1, <2>2, <2>4, <2>6 DEF Knows, Resting, Emptied, Waiting
<1>5. QED
  BY <1>3, <1>4

-----------------------------------------------------------------------------
(* The timestamps.                                                         *)

(* The living daemons that have their timestamp, in a step of a daemon, had *)
(* it, or take that of the executable.                                     *)
TakesBuild(d) == \/ d \in Living \cap Settled /\ build'[d] = build[d]
                 \/ build'[d] = binary

LEMMA DaemonsTake ==
  ASSUME TypeOK, NEW d \in Daemons, DaemonStep(d) \/ Leaves(d) \/ Crash(d)
  PROVE  \A e \in Living' \cap Settled' : TakesBuild(e)
<1>1. CASE ReadBuild(d)
  BY <1>1 DEF ReadBuild, TypeOK, Living, Settled, TakesBuild
<1>2. CASE ~ReadBuild(d)
  <2>1. PICK s \in Alive \cup Dead :
          build' = build /\ dstate' = [dstate EXCEPT ![d] = s] /\ (dstate[d] = "starting" => s \in Dead)
    BY <1>2, StateNames
    DEF DaemonStep, FindSocket, ClearSocket, Bind, Listen, Publish, WritePid, Leaves, LeavePid,
        LeaveSocket, Crash, Becomes
  <2>2. Living' \cap Settled' \subseteq Living \cap Settled
    BY <2>1, DaemonsFewer, StateNames DEF TypeOK, Living, Settled
  <2>3. QED
    BY <2>1, <2>2 DEF TakesBuild
<1>3. QED
  BY <1>1, <1>2

(* A client that stays where it is.                                        *)
LEMMA NotOlderStays ==
  ASSUME IInv, IInv', DaemonsKeep, NEW c \in Clients, NotOlder(c),
         binary <= binary', UNCHANGED <<cpc, call, ts>>,
         \A d \in Living' \cap Settled' : TakesBuild(d)
  PROVE  NotOlder(c)'
<1>1. ClientInv(c) /\ {ts[c], binary} \subseteq Int /\ build \in [Daemons -> Int]
  BY Shapes
<1>2. binary' \in Int
  BY BoundsAssumption DEF IInv, TypeOK, Builds
<1>3. /\ cpc[c] = "handshake" => build'[call[c].cand] = build[call[c].cand]
      /\ ts[c] <= binary
  BY <1>1 DEF ClientInv, DaemonsKeep, NotOlder
<1>4. cpc[c] \in Waiting /\ call[c].proc \in Living' \cap Settled'
      => build'[call[c].proc] \in ts[c]..binary'
  BY <1>1, <1>2, <1>3 DEF NotOlder, TakesBuild
<1>5. QED
  BY <1>1, <1>2, <1>3, <1>4 DEF NotOlder, Decisive, ClientInv, Settled

(* A client that moves: only Begin reads the executable's timestamp.       *)
LEMMA NotOlderMoves ==
  ASSUME IInv, NEW c \in Clients, Knows(c), NotOlder(c),
         \/ ClientStep(c) \/ Begin(c) \/ Execute(c) \/ ExecuteLost(c) \/ ExecuteFatalText(c)
         \/ ForceStop(c, "stop") \/ ForceStop(c, "restart") \/ Leave(c)
  PROVE  NotOlder(c)' /\ binary' = binary
<1>1. /\ cpc \in [Clients -> Labels] /\ call \in [Clients -> Calls] /\ ts \in [Clients -> Builds]
      /\ build \in [Daemons -> Builds] /\ binary \in Int /\ ts[c] \in Int
      /\ dstate \in [Daemons -> States]
  BY Shapes DEF ClientTypes
<1>2. CASE Begin(c)
  <2>1. /\ cpc'[c] = "connect" /\ call'[c] = NoCall /\ ts'[c] = binary /\ binary' = binary
    BY <1>1, <1>2 DEF Begin, Return, Goto
  <2>2. QED
    BY <1>1, <2>1 DEF NotOlder, Waiting
<1>3. CASE Connect(c)
  <2>1. cpc[c] = "connect" /\ ts' = ts /\ binary' = binary
    BY <1>3 DEF Connect, client
  <2>2. \/ cpc'[c] = "look"
        \/ /\ cpc'[c] = "handshake"
           /\ call'[c].reason = call[c].reason /\ call'[c].goal = call[c].goal
    BY <1>1, <1>3 DEF Connect, Goto, Calls
  <2>3. call[c].reason = "firstStart" /\ call[c].goal = "connect"
    BY <2>1 DEF NotOlder, NoCall, NewCall
  <2>4. QED
    BY <2>1, <2>2, <2>3 DEF NotOlder, Decisive, Waiting
<1>4. CASE Ready(c)
  <2>1. /\ cpc[c] = "await" /\ ts' = ts /\ binary' = binary /\ build' = build
        /\ cpc'[c] = "handshake" /\ call'[c].cand = sock
    BY <1>1, <1>4 DEF Ready, client, daemons, Goto, Calls
  <2>2. sock = call[c].proc /\ sock \in Living \cap Settled
    BY <1>4, StateNames, SettledIsBorn DEF Ready, Knows, Waiting, Watches, Connects, Living
  <2>3. QED
    BY <2>1, <2>2 DEF NotOlder, Waiting
<1>5. CASE Spawn(c)
  <2> PICK n \in Daemons : n = NextDaemon
    BY <1>5 DEF Spawn
  <2>1. /\ cpc'[c] = "await" /\ call'[c].proc = n /\ dstate'[n] = "starting"
        /\ ts' = ts /\ binary' = binary
    BY <1>1, <1>5 DEF Spawn, client, Goto, Calls
  <2>2. n \notin Settled'
    BY <2>1 DEF Settled
  <2>3. QED
    BY <2>1, <2>2 DEF NotOlder
<1>6. CASE Answered(c)
  <2>1. cpc'[c] \in Resting \ {"connect"}
    BY <1>1, <1>6 DEF Answered, Return, Fail, Goto, Resting
  <2>2. ts' = ts /\ binary' = binary
    BY <1>6 DEF Answered
  <2>3. QED
    BY <2>1, <2>2 DEF NotOlder, Resting, Waiting
<1>7. CASE SpawnFails(c) \/ ChildDied(c) \/ StartTimesOut(c) \/ HandshakeLost(c) \/ Leave(c)
  <2>1. cpc'[c] \in {"spawn", "over", "ready"}
    BY <1>1, <1>7
    DEF SpawnFails, ChildDied, StartTimesOut, HandshakeLost, Leave, Return, Fail, Goto
  <2>2. ts' = ts /\ binary' = binary
    BY <1>7 DEF SpawnFails, ChildDied, StartTimesOut, HandshakeLost, Leave, client
  <2>3. QED
    BY <2>1, <2>2 DEF NotOlder, Waiting
<1>8. CASE Look(c) \/ RemoveSocket(c) \/ ReadPid(c) \/ KillStale(c) \/ RemovePid(c)
  <2>1. /\ cpc'[c] \in {"kill", "unlink", "signal", "unpid", "spawn"}
        /\ ts' = ts /\ binary' = binary
    BY <1>1, <1>8 DEF Look, RemoveSocket, ReadPid, KillStale, RemovePid, Goto, client
  <2>2. QED
    BY <2>1 DEF NotOlder, Waiting
<1>9. CASE \/ NoPidFile(c) \/ InvalidPid(c) \/ NotRunning(c) \/ SendTerm(c)
           \/ Terminated(c) \/ TermTimesOut(c) \/ CleanPid(c) \/ CleanSocket(c)
  <2>1. cpc'[c] \in {"ready", "unlink", "stopping", "clean", "cleanSocket"}
    BY <1>1, <1>9
    DEF NoPidFile, InvalidPid, NotRunning, SendTerm, Terminated, TermTimesOut, CleanPid,
        CleanSocket, StopEnds, Return, Goto
  <2>2. ts' = ts /\ binary' = binary
    BY <1>9
    DEF NoPidFile, InvalidPid, NotRunning, SendTerm, Terminated, TermTimesOut, CleanPid,
        CleanSocket, client
  <2>3. QED
    BY <2>1, <2>2 DEF NotOlder, Waiting
<1>10. CASE \/ Execute(c) \/ ExecuteLost(c) \/ ExecuteFatalText(c) \/ Retry(c)
            \/ ForceStop(c, "stop") \/ ForceStop(c, "restart")
  <2>1. cpc'[c] \in {"ready", "stop"} /\ ts' = ts /\ binary' = binary
    BY <1>1, <1>10 DEF Execute, ExecuteLost, ExecuteFatalText, Retry, ForceStop, Goto
  <2>2. QED
    BY <2>1 DEF NotOlder, Waiting
<1>11. CASE LastAttemptFails(c)
  <2>1. /\ cpc[c] = "await" /\ cpc'[c] = "timedOut"
        /\ UNCHANGED <<call, ts, binary, dstate, build>>
    BY <1>1, <1>11 DEF LastAttemptFails, Goto, daemons, client
  <2>2. Living' = Living /\ Settled' = Settled
    BY <2>1 DEF Living, Settled
  <2>3. QED
    BY <2>1, <2>2 DEF NotOlder, Waiting
<1>12. QED
  BY <1>2, <1>3, <1>4, <1>5, <1>6, <1>7, <1>8, <1>9, <1>10, <1>11 DEF ClientStep

-----------------------------------------------------------------------------
(* Why a client connects, and why it removes a socket.                     *)

(* Whoever removes a socket knows of no living daemon but one that serves,  *)
(* and that keeps its build.                                               *)
LEMMA FreshStays ==
  ASSUME IInv, DaemonsKeep, NEW c \in Clients, Knows(c), Fresh(c), Living' \subseteq Living,
         UNCHANGED <<cpc, call, ts, conn>>
  PROVE  Fresh(c)'
<1>1. cpc[c] = "unlink" => \A d \in Living' : build'[d] = build[d]
  BY Shapes DEF DaemonsKeep, Knows, Resting, Serves, Settled
<1>2. QED
  BY <1>1 DEF Fresh

(* A step of the client inside of a call, that does not lead to "unlink".  *)
LEMMA FreshGoesOn ==
  ASSUME NEW c \in Clients, Fresh(c), cpc[c] \in Connecting,
         cpc'[c] # "unlink", call'[c].goal = call[c].goal, conn' = conn
  PROVE  Fresh(c)'
BY DEF Fresh

LEMMA FreshMoves ==
  ASSUME IInv, NEW c \in Clients, Knows(c), Fresh(c), ~GracefulTerm,
         \/ ClientStep(c) \/ Begin(c) \/ Execute(c) \/ ExecuteLost(c) \/ ExecuteFatalText(c)
         \/ ForceStop(c, "stop") \/ ForceStop(c, "restart") \/ Leave(c)
  PROVE  Fresh(c)'
<1>1. /\ cpc \in [Clients -> Labels] /\ call \in [Clients -> Calls]
      /\ conn \in [Clients -> Daemons \cup {None}]
  BY Shapes DEF ClientTypes
<1>2. CASE Begin(c)
  <2>1. cpc'[c] = "connect" /\ conn'[c] = None
    BY <1>1, <1>2 DEF Begin, Return, Goto
  <2>2. QED
    BY <2>1 DEF Fresh
<1>3. CASE \/ Connect(c) \/ RemoveSocket(c) \/ ReadPid(c) \/ KillStale(c) \/ RemovePid(c)
           \/ Ready(c) \/ LastAttemptFails(c)
  <2>1. cpc[c] \in Connecting /\ cpc'[c] # "unlink" /\ conn' = conn
    BY <1>1, <1>3
    DEF Connect, RemoveSocket, ReadPid, KillStale, RemovePid, Ready, LastAttemptFails, Goto,
        client, Connecting
  <2>2. call'[c].goal = call[c].goal
    BY <1>1, <1>3
    DEF Connect, RemoveSocket, ReadPid, KillStale, RemovePid, Ready, LastAttemptFails, Calls
  <2>3. QED
    BY <2>1, <2>2, FreshGoesOn
<1>4. CASE Spawn(c)
  <2>1. cpc[c] \in Connecting /\ cpc'[c] # "unlink" /\ conn' = conn
    BY <1>1, <1>4 DEF Spawn, Goto, client, Connecting
  <2>2. call'[c].goal = call[c].goal
    BY <1>1, <1>4 DEF Spawn, Calls
  <2>3. QED
    BY <2>1, <2>2, FreshGoesOn
<1>5. CASE Look(c)
  <2>1. cpc[c] \in Connecting /\ conn' = conn /\ Living' = {}
    BY <1>5 DEF Look, client, daemons, Connecting, Knows, Emptied, Living
  <2>2. call'[c].goal = call[c].goal
    BY <1>1, <1>5 DEF Look, Calls
  <2>3. QED
    BY <2>1, <2>2 DEF Fresh
<1>6. CASE SpawnFails(c) \/ ChildDied(c) \/ StartTimesOut(c) \/ HandshakeLost(c)
  <2>1. \/ cpc'[c] \in {"over", "ready"}
        \/ /\ cpc'[c] = "spawn" /\ cpc[c] = "await" /\ conn' = conn
           /\ call'[c].goal = call[c].goal
    BY <1>1, <1>6
    DEF SpawnFails, ChildDied, StartTimesOut, HandshakeLost, Return, Fail, Goto, Calls, client
  <2>2. QED
    BY <2>1 DEF Fresh, Connecting
<1>7. CASE Answered(c)
  <2> DEFINE d == call[c].cand
  <2>1. CASE cpc'[c] # "unlink"
    <3>1. cpc'[c] \in {"ready", "retry", "over"}
      BY <1>1, <1>7, <2>1 DEF Answered, Return, Fail, Goto
    <3>2. QED
      BY <3>1 DEF Fresh, Connecting
  <2>2. CASE cpc'[c] = "unlink"
    <3>1. /\ cpc[c] = "handshake" /\ UNCHANGED <<dstate, build, ts>>
          /\ build[d] # ts[c] /\ conn' = conn
      BY <1>1, <1>7, <2>2 DEF Answered, Return, Fail, Goto, daemons
    <3>2. call'[c].goal = call[c].goal
      BY <1>1, <1>7, <2>2 DEF Answered, Return, Fail, Goto, Calls
    <3>3. Living' \subseteq {d}
      BY <3>1 DEF Knows, Watches, Living
    <3>4. \A e \in Living' : build'[e] # ts'[c]
      BY <3>1, <3>3
    <3>5. QED
      BY <3>1, <3>2, <3>4 DEF Fresh, Connecting
  <2>3. QED
    BY <2>1, <2>2
<1>8. CASE \/ NoPidFile(c) \/ InvalidPid(c) \/ NotRunning(c) \/ SendTerm(c)
           \/ Terminated(c) \/ TermTimesOut(c) \/ CleanPid(c) \/ CleanSocket(c)
  <2>1. Living' = {}
    BY <1>8, StoppingKnows
  <2>2. \/ cpc'[c] \in {"ready", "stopping", "clean", "cleanSocket"}
        \/ /\ cpc'[c] = "unlink" /\ call'[c].goal = call[c].goal /\ cpc[c] \in Stopping
    BY <1>1, <1>8
    DEF NoPidFile, InvalidPid, NotRunning, SendTerm, Terminated, TermTimesOut, CleanPid,
        CleanSocket, StopEnds, Return, Goto, Calls, Stopping
  <2>3. cpc[c] \in Stopping => call[c].goal # "connect"
    BY Shapes DEF ClientInv
  <2>4. QED
    BY <2>1, <2>2, <2>3 DEF Fresh, Connecting
<1>9. CASE \/ Execute(c) \/ ExecuteLost(c) \/ ExecuteFatalText(c) \/ Retry(c)
           \/ ForceStop(c, "stop") \/ ForceStop(c, "restart") \/ Leave(c)
  <2>1. cpc'[c] \in {"ready", "stop", "over"}
    BY <1>1, <1>9 DEF Execute, ExecuteLost, ExecuteFatalText, Retry, ForceStop, Leave, Return, Goto
  <2>2. QED
    BY <2>1 DEF Fresh, Connecting
<1>10. QED
  BY <1>2, <1>3, <1>4, <1>5, <1>6, <1>7, <1>8, <1>9 DEF ClientStep

-----------------------------------------------------------------------------
(* The invariant.                                                          *)

(* It holds at the start, whatever an earlier daemon has left ...          *)
LEMMA AloneInit == Init => AloneInv
<1> SUFFICES ASSUME Init, NEW c \in Clients PROVE Knows(c) /\ NotOlder(c) /\ Fresh(c)
  BY DEF AloneInv
<1>1. \A d \in Living : Serves(d)
  <2>1. PICK left \in {"none", "up", "killed", "exited"} :
          /\ dstate = [d \in Daemons |-> IF d = 1 THEN left ELSE "none"]
          /\ sock = IF left \in {"up", "killed"} THEN 1 ELSE None
          /\ pidFile = sock
    BY DEF Init
  <2>2. QED
    BY <2>1 DEF Living, Serves, Alive, Starting
<1>2. Knows(c)
  BY <1>1 DEF Init, Knows, Resting, Emptied, Waiting
<1>3. NotOlder(c)
  BY BoundsAssumption DEF Init, NotOlder, Builds, Waiting
<1>4. Fresh(c)
  BY DEF Init, Fresh, Connecting
<1>5. QED
  BY <1>2, <1>3, <1>4

(* ... and every step keeps it.                                            *)
LEMMA AloneNext ==
  ASSUME Undisturbed, IInv, IInv', AloneInv, [Next]_vars
  PROVE  AloneInv'
<1> PICK c \in Clients : Clients = {c}
  BY DEF Undisturbed, OneClient
<1> SUFFICES Knows(c)' /\ NotOlder(c)' /\ Fresh(c)'
  BY DEF AloneInv
<1>1. Knows(c) /\ NotOlder(c) /\ Fresh(c) /\ ~GracefulTerm /\ ~MayStop /\ ~MayInterrupt
  BY DEF AloneInv, Undisturbed
<1>2. TypeOK /\ PidsInOrder /\ CallsMatch /\ FilesInv /\ binary \in Int
  BY Shapes DEF IInv
<1>3. CASE ClientNext
  <2>1. \/ ClientStep(c) \/ Begin(c) \/ Execute(c) \/ ExecuteLost(c) \/ ExecuteFatalText(c)
        \/ ForceStop(c, "stop") \/ ForceStop(c, "restart") \/ Leave(c)
    BY <1>3 DEF ClientNext
  <2>2. QED
    BY <1>1, <2>1, ClientKnows, NotOlderMoves, FreshMoves
<1>4. CASE DaemonNext
  <2>1. PICK d \in Daemons : DaemonStep(d) \/ Leaves(d) \/ Crash(d)
    BY <1>4 DEF DaemonNext
  <2>2. DaemonsKeep /\ UNCHANGED <<binary, cpc, call, client>>
    BY <1>2, <2>1, DaemonMoves
  <2>3. NotOlder(c)'
    BY <1>1, <1>2, <2>1, <2>2, DaemonsTake, NotOlderStays DEF client
  <2>4. Fresh(c)'
    <3>1. Living' \subseteq Living
      BY <1>2, <2>1, DaemonsFewer
    <3>2. QED
      BY <1>1, <2>2, <3>1, FreshStays DEF client
  <2>5. QED
    BY <1>1, <2>1, <2>3, <2>4, DaemonKnows
<1>5. CASE Rebuild \/ Done \/ UNCHANGED vars
  <2>1. binary <= binary' /\ UNCHANGED <<files, daemons, cpc, call, client>>
    BY <1>2, <1>5 DEF Rebuild, Done, vars
  <2>2. DaemonsKeep
    BY <1>2, <2>1, NoneMoves
  <2>3. NotOlder(c)'
    <3>1. \A d \in Living' \cap Settled' : TakesBuild(d)
      BY <2>1 DEF daemons, Living, Settled, TakesBuild
    <3>2. QED
      BY <1>1, <2>1, <2>2, <3>1, NotOlderStays DEF client
  <2>4. UNCHANGED <<sock, pidFile, pidOpen, dstate, cpc, call>>
    BY <2>1 DEF daemons, files, pids
  <2>5. Knows(c)'
    BY <1>1, <2>4 DEF Knows, Watches, Rises, Serves, Living
  <2>6. Fresh(c)'
    BY <1>1, <2>1, <2>2, <2>4, FreshStays DEF client, Living
  <2>7. QED
    BY <2>3, <2>5, <2>6
<1>6. QED
  BY <1>3, <1>4, <1>5 DEF Next

(* So it holds always.                                                     *)
LEMMA AloneInvariance ==
  ASSUME Undisturbed
  PROVE  Spec => [](IInv /\ AloneInv)
<1>1. Init => IInv /\ AloneInv
  BY InvInit, AloneInit
<1>2. (IInv /\ AloneInv) /\ [Next]_vars => (IInv /\ AloneInv)'
  BY InvNext, AloneNext
<1>3. QED
  BY <1>1, <1>2, PTL DEF Spec

(* When one client, undisturbed, has no call in progress, the living       *)
(* daemons are those that can be reached: whatever crashed, took too long  *)
(* or was rebuilt meanwhile, no process is left behind (client.rs:87-612,  *)
(* server.rs:207-222).                                                     *)
THEOREM NoDaemonLost ==
  ASSUME Undisturbed
  PROVE  Spec => []NoLostDaemon
<1>1. IInv /\ AloneInv => NoLostDaemon
  <2> SUFFICES ASSUME IInv, AloneInv, Quiet, NEW d \in Living
               PROVE  Serves(d)
    BY DEF NoLostDaemon, Serves
  <2>1. PICK c \in Clients : Clients = {c}
    BY DEF Undisturbed, OneClient
  <2>2. cpc[c] \in Resting
    BY Shapes DEF Quiet, Labels, Resting
  <2>3. QED
    BY <2>2 DEF AloneInv, Knows
<1>2. QED
  BY <1>1, AloneInvariance, PTL

(* There is never more than one daemon process.                            *)
THEOREM OneAtATime ==
  ASSUME Undisturbed
  PROVE  Spec => []OneDaemon
<1>1. IInv /\ AloneInv => OneDaemon
  <2> SUFFICES ASSUME IInv, AloneInv PROVE OneDaemon
    OBVIOUS
  <2>1. \A d, e \in Living : d = e
    BY AtMostOne DEF AloneInv, Undisturbed, OneClient
  <2>2. CASE Living = {}
    BY <2>2, FS_EmptySet DEF OneDaemon
  <2>3. CASE Living # {}
    <3>1. PICK d : Living = {d}
      BY <2>1, <2>3
    <3>2. Cardinality({d}) = 1
      BY FS_Singleton
    <3>3. QED
      BY <3>1, <3>2 DEF OneDaemon
  <2>4. QED
    BY <2>2, <2>3
<1>2. QED
  BY <1>1, AloneInvariance, PTL

(* A daemon is started only when none is alive (client.rs:199-359): after  *)
(* a cleanup, a start that failed or timed out, or force_stop.             *)
THEOREM StartedAlone ==
  ASSUME Undisturbed
  PROVE  Spec => StartsAlone
<1>1. ASSUME TypeOK, OneDaemon, OneDaemon', Cardinality(Living') > Cardinality(Living)
      PROVE  Living = {}
  <2>1. IsFiniteSet(Living)
    <3>1. IsFiniteSet(Daemons) /\ Living \subseteq Daemons
      BY FS_Interval, BoundsAssumption DEF Living, Daemons
    <3>2. QED
      BY <3>1, FS_Subset
  <2>2. Cardinality(Living) = 0
    BY <1>1 DEF OneDaemon
  <2>3. QED
    BY <2>1, <2>2, FS_EmptySet
<1>2. TypeOK /\ OneDaemon /\ OneDaemon'
      => [Cardinality(Living') > Cardinality(Living) => Living = {}]_vars
  BY <1>1
<1>3. QED
  BY <1>2, Typing, OneAtATime, PTL DEF StartsAlone

(* A step in which the one client fails to connect.                        *)
Cause(c) == \/ binary # ts[c]
            \/ \E d \in {call[c].proc, call[c].cand} \ {None} : dstate'[d] = "killed"
            \/ NextDaemon \notin Daemons

LEMMA FailsForCause ==
  ASSUME Undisturbed, IInv, AloneInv, [Next]_vars, NEW c \in Clients,
         cpc[c] \in Connecting, call[c].goal = "connect", cpc'[c] = "over"
  PROVE  Cause(c)
<1>1. Clients = {c} /\ Knows(c) /\ NotOlder(c) /\ ~MayInterrupt
  BY DEF Undisturbed, OneClient, AloneInv
<1>2. /\ cpc \in [Clients -> Labels] /\ ts[c] \in Int /\ binary \in Int /\ build \in [Daemons -> Int]
      /\ ClientInv(c) /\ dstate \in [Daemons -> States]
  BY Shapes DEF ClientTypes
<1>3. SpawnFails(c) \/ ChildDied(c) \/ StartTimesOut(c) \/ Answered(c) \/ HandshakeLost(c)
  <2>1. cpc' # cpc
    BY LabelNames
  <2>2. ClientNext
    BY <2>1
    DEF Next, DaemonNext, DaemonStep, ReadBuild, FindSocket, ClearSocket, Bind, Listen, Publish,
        WritePid, Leaves, LeavePid, LeaveSocket, Crash, Becomes, Rebuild, Done, vars
  <2>3. \/ ClientStep(c) \/ Begin(c) \/ Execute(c) \/ ExecuteLost(c) \/ ExecuteFatalText(c)
        \/ ForceStop(c, "stop") \/ ForceStop(c, "restart") \/ Leave(c)
    BY <1>1, <2>2 DEF ClientNext
  <2>4. \/ Connect(c) \/ Look(c) \/ RemoveSocket(c) \/ ReadPid(c) \/ KillStale(c) \/ RemovePid(c)
        \/ Spawn(c) \/ SpawnFails(c) \/ Ready(c) \/ ChildDied(c) \/ LastAttemptFails(c)
        \/ StartTimesOut(c) \/ Answered(c) \/ HandshakeLost(c)
    BY <1>1, <2>3
    DEF ClientStep, Begin, Execute, ExecuteLost, ExecuteFatalText, Retry, ForceStop, Leave,
        NoPidFile, InvalidPid, NotRunning, SendTerm, Terminated, TermTimesOut, CleanPid,
        CleanSocket, Connecting
  <2>5. ~(\/ Connect(c) \/ Look(c) \/ RemoveSocket(c) \/ ReadPid(c) \/ KillStale(c)
          \/ RemovePid(c) \/ Spawn(c) \/ Ready(c) \/ LastAttemptFails(c))
    BY <1>2
    DEF Connect, Look, RemoveSocket, ReadPid, KillStale, RemovePid, Spawn, Ready, LastAttemptFails,
        Goto
  <2>6. QED
    BY <2>4, <2>5
<1>4. CASE SpawnFails(c)
  BY <1>4 DEF SpawnFails, Cause
<1>5. CASE ChildDied(c) \/ StartTimesOut(c)
  <2> DEFINE d == call[c].proc
  <2>1. d \in Daemons /\ d # None
    BY <1>2, <1>5, BoundsAssumption
    DEF ChildDied, StartTimesOut, ClientInv, Born, Daemons, None
  <2>2. dstate'[d] = "killed"
    <3>1. CASE ChildDied(c)
      BY <1>1, <2>1, <3>1, RisingLives DEF ChildDied, Knows, Waiting, Watches, IsAlive, daemons
    <3>2. CASE StartTimesOut(c)
      BY <1>1, <3>2, TimesOutEnds
    <3>3. QED
      BY <1>5, <3>1, <3>2
  <2>3. QED
    BY <2>1, <2>2 DEF Cause
<1>6. CASE HandshakeLost(c)
  <2> DEFINE d == call[c].cand
  <2>1. d # None /\ dstate' = dstate /\ dstate[d] \notin {"listening", "writing", "up"}
    BY <1>2, <1>6, BoundsAssumption DEF HandshakeLost, ClientInv, Settled, Daemons, None, daemons
  <2>2. dstate[d] = "killed"
    BY <1>1, <1>6, <2>1, RisingLives DEF HandshakeLost, Knows, Watches, Unbound
  <2>3. QED
    BY <2>1, <2>2 DEF Cause
<1>7. CASE Answered(c)
  <2> DEFINE d == call[c].cand
  <2>1. cpc[c] = "handshake" /\ d \in Daemons
    BY <1>2, <1>7 DEF Answered, ClientInv, Settled
  <2>2. build[d] # ts[c] /\ Decisive(c)
    BY <1>2, <1>7 DEF Answered, Return, Goto, Decisive
  <2>3. build[d] \in ts[c]..binary
    BY <1>1, <2>1, <2>2 DEF NotOlder
  <2>4. QED
    BY <1>2, <2>1, <2>2, <2>3 DEF Cause
<1>8. QED
  BY <1>3, <1>4, <1>5, <1>6, <1>7

(* The one client fails to connect only because the executable was rebuilt *)
(* under it, a daemon was killed or took too long, or no process could be  *)
(* created (client.rs:87-359): what an earlier daemon has left is no cause. *)
THEOREM FailsOnlyForCause ==
  ASSUME Undisturbed
  PROVE  Spec => ConnectFailsForCause
<1>1. IInv /\ AloneInv /\ [Next]_vars
      => [\A c \in Clients :
            /\ cpc[c] \in Connecting /\ call[c].goal = "connect" /\ cpc'[c] = "over"
            => \/ binary # ts[c]
               \/ \E d \in {call[c].proc, call[c].cand} \ {None} : dstate'[d] = "killed"
               \/ NextDaemon \notin Daemons]_vars
  BY FailsForCause DEF Cause
<1>2. QED
  BY <1>1, AloneInvariance, PTL DEF Spec, ConnectFailsForCause
=============================================================================
