----------------------- MODULE LifecyclePromiseProofs -----------------------
(***************************************************************************)
(* One client, undisturbed, gets what DaemonPromise says: each step of     *)
(* Lifecycle is a step of DaemonPromise, or nothing that it sees.          *)
(***************************************************************************)
EXTENDS LifecycleAloneProofs

Serving == \E d \in Living : Serves(d)

Step(c) == [PromisedTo(c)!Next]_(PromisedTo(c)!promiseVars)

(* Where the client is, by label.                                          *)
LEMMA Users ==
  ASSUME NEW c \in Clients
  PROVE  /\ cpc[c] \in Waiting => User(c) = "waiting"
         /\ cpc[c] \in Connecting \ Waiting => User(c) = "connecting"
         /\ cpc[c] \in Stopping => User(c) = "stopping"
         /\ cpc[c] \in {"ready", "retry"} => User(c) = "holding"
         /\ cpc[c] = "over" => User(c) = "idle" /\ Peer(c) = None
         /\ cpc[c] # "over" => Peer(c) = conn[c]
BY DEF User, Peer, Waiting, Connecting, Stopping

LEMMA UsersNext ==
  ASSUME NEW c \in Clients
  PROVE  /\ cpc'[c] \in Waiting => User(c)' = "waiting"
         /\ cpc'[c] \in Connecting \ Waiting => User(c)' = "connecting"
         /\ cpc'[c] \in Stopping => User(c)' = "stopping"
         /\ cpc'[c] \in {"ready", "retry"} => User(c)' = "holding"
         /\ cpc'[c] = "over" => User(c)' = "idle" /\ Peer(c)' = None
         /\ cpc'[c] # "over" => Peer(c)' = conn'[c]
BY DEF User, Peer, Waiting, Connecting, Stopping

(* A step that none of the promise's variables shows.                      *)
LEMMA Unseen ==
  ASSUME NEW c \in Clients, Living' = Living, Serving' = Serving,
         UNCHANGED <<binary, build>>, User(c)' = User(c), ts'[c] = ts[c], Peer(c)' = Peer(c)
  PROVE  Step(c)
BY DEF Step, Serving, PromisedTo!promiseVars, PromisedTo!daemon

(* The beginning.                                                          *)
LEMMA PromiseInit ==
  ASSUME Init, NEW c \in Clients
  PROVE  PromisedTo(c)!Init
<1>1. PICK left \in {"none", "up", "killed", "exited"} :
        /\ left # "none" => MaxDaemons > 0
        /\ dstate = [d \in Daemons |-> IF d = 1 THEN left ELSE "none"]
        /\ sock = IF left \in {"up", "killed"} THEN 1 ELSE None
        /\ pidFile = sock
  BY DEF Init
<1>2. CASE left = "up"
  <2>1. 1 \in Daemons
    BY <1>1, <1>2, BoundsAssumption DEF Daemons
  <2>2. Living = {1} /\ Serves(1)
    BY <1>1, <1>2, <2>1 DEF Living, Serves, Alive, Starting
  <2>3. QED
    BY <2>1, <2>2, Users DEF Init, PromisedTo!Init
<1>3. CASE left # "up"
  <2>1. Living = {}
    BY <1>1, <1>3 DEF Living, Alive, Starting
  <2>2. QED
    BY <2>1, Users DEF Init, PromisedTo!Init
<1>4. QED
  BY <1>2, <1>3

(* The daemons' steps: one takes its timestamp, comes to serve, or crashes. *)
LEMMA DaemonsPromise ==
  ASSUME IInv, NEW c \in Clients, Knows(c), ~MayStop, NEW d \in Daemons,
         DaemonStep(d) \/ Leaves(d) \/ Crash(d)
  PROVE  Step(c)
<1>1. /\ Living' \subseteq Living /\ d \in Living /\ Living = {d}
      /\ UNCHANGED <<binary, cpc, call, client>> /\ dstate \in [Daemons -> States]
  BY Shapes, DaemonsFewer, DaemonMoves, AtMostOne
<1>2. UNCHANGED <<User(c), Peer(c), ts, binary>>
  BY <1>1 DEF User, Peer, client
<1>3. CASE Crash(d)
  <2>1. Living' = {}
    BY <1>1, <1>3, StateNames, OneFewer DEF Crash, Becomes
  <2>2. ~Serving' /\ build' = build
    BY <1>3, <2>1 DEF Serving, Crash, Becomes
  <2>3. QED
    BY <1>2, <1>3, <2>1, <2>2
    DEF Step, Serving, Crash, PromisedTo!Next, PromisedTo!Crash, PromisedTo!Dies
<1>4. CASE DaemonStep(d) \/ Leaves(d)
  <2>1. ~Serves(d) /\ cpc[c] \notin {"kill", "signal"}
    BY <1>1, <1>4
    DEF Knows, Serves, DaemonStep, ReadBuild, FindSocket, ClearSocket, Bind, Listen, Publish,
        WritePid, Leaves, LeavePid, LeaveSocket
  <2>2. Rises(d) \/ Serves(d)
    BY <1>1, <2>1, RisesAwaited, StateNames DEF Watches, Living
  <2>3. Rises(d)' \/ Serves(d)'
    BY <1>4, <2>2, DaemonRises
  <2>4. d \in Living'
    BY <2>3 DEF Rises, Serves, Living, Alive, Starting
  <2>5. Living' = Living /\ ~Serving
    BY <1>1, <2>1, <2>4 DEF Serving
  <2>6. CASE ReadBuild(d)
    <3>1. dstate[d] = "starting" /\ build' = [build EXCEPT ![d] = binary]
      BY <2>6 DEF ReadBuild
    <3>2. cpc[c] \in Waiting
      BY <1>1, <2>1, <3>1, RisesAwaited DEF Knows, Unbound
    <3>3. dstate'[d] = "opening"
      BY <1>1, <2>6 DEF ReadBuild
    <3>4. ~Serving'
      BY <1>1, <2>5, <3>3 DEF Serving, Serves
    <3>5. QED
      BY <1>1, <1>2, <2>5, <3>1, <3>2, <3>4, Users
      DEF Step, Serving, PromisedTo!Next, PromisedTo!Load
  <2>7. CASE ~ReadBuild(d)
    <3>1. build' = build
      BY <1>4, <2>7
      DEF DaemonStep, FindSocket, ClearSocket, Bind, Listen, Publish, WritePid, Leaves, LeavePid,
          LeaveSocket, Becomes
    <3>2. CASE Serving'
      BY <1>1, <1>2, <2>5, <3>1, <3>2 DEF Step, Serving, PromisedTo!Next, PromisedTo!Serve
    <3>3. CASE ~Serving'
      BY <1>2, <2>5, <3>1, <3>3, Unseen DEF Serving
    <3>4. QED
      BY <3>2, <3>3
  <2>8. QED
    BY <2>6, <2>7
<1>5. QED
  BY <1>3, <1>4

-----------------------------------------------------------------------------
(* The client's steps.                                                     *)

(* Files and processes as they were: nothing happens to the daemon.        *)
LEMMA SameDaemon ==
  ASSUME UNCHANGED <<files, daemons>>
  PROVE  Living' = Living /\ Serving' = Serving /\ build' = build
<1>1. UNCHANGED <<sock, pidFile, dstate, build>>
  BY DEF files, pids, daemons
<1>2. QED
  BY <1>1 DEF Living, Serving, Serves

(* The steps of a connect that the promise does not show.                  *)
LEMMA ConnectUnseen ==
  ASSUME IInv, NEW c \in Clients, Knows(c),
         Connect(c) \/ Look(c) \/ ReadPid(c) \/ RemovePid(c) \/ LastAttemptFails(c)
  PROVE  Step(c)
<1>1. /\ \/ cpc[c] \in Connecting \ Waiting /\ cpc'[c] \in Connecting \ Waiting
         \/ cpc[c] \in Waiting /\ cpc'[c] \in Waiting
      /\ UNCHANGED <<binary, build, client>>
  BY Shapes
  DEF Connect, Look, ReadPid, RemovePid, LastAttemptFails, Goto, daemons, ClientTypes, Connecting,
      Waiting
<1>2. Living' = Living /\ Serving' = Serving
  <2>1. CASE Connect(c) \/ Look(c) \/ ReadPid(c) \/ LastAttemptFails(c)
    BY <2>1, SameDaemon DEF Connect, Look, ReadPid, LastAttemptFails
  <2>2. CASE RemovePid(c)
    BY <2>2 DEF RemovePid, Knows, Emptied, daemons, Living, Serving
  <2>3. QED
    BY <2>1, <2>2
<1>3. User(c)' = User(c) /\ Peer(c)' = Peer(c) /\ ts'[c] = ts[c]
  BY <1>1, LabelNames, Users, UsersNext DEF client, Waiting
<1>4. QED
  BY <1>1, <1>2, <1>3, Unseen

(* The daemon answers that the client has waited for.                      *)
LEMMA ReadyPromise ==
  ASSUME IInv, NEW c \in Clients, Ready(c)
  PROVE  Step(c)
<1>1. /\ cpc[c] \in Waiting /\ cpc'[c] \in Connecting \ Waiting
      /\ UNCHANGED <<binary, build, client, files, daemons>>
  BY Shapes DEF Ready, Goto, daemons, ClientTypes, Connecting, Waiting
<1>2. Living' = Living /\ Serving' = Serving
  BY <1>1, SameDaemon
<1>3. /\ User(c) = "waiting" /\ User(c)' = "connecting"
      /\ Peer(c)' = Peer(c) /\ ts'[c] = ts[c]
  BY <1>1, LabelNames, Users, UsersNext DEF client, Waiting
<1>4. QED
  BY <1>1, <1>2, <1>3 DEF Step, Serving, PromisedTo!Next, PromisedTo!Waited, PromisedTo!daemon

(* Cleaning up: the daemon is put out of reach, then ended.                *)
LEMMA CleanupPromise ==
  ASSUME IInv, NEW c \in Clients, Knows(c), Fresh(c), ~GracefulTerm,
         RemoveSocket(c) \/ KillStale(c)
  PROVE  Step(c)
<1>1. /\ cpc[c] \in Connecting \ Waiting /\ cpc'[c] \in Connecting \ Waiting
      /\ UNCHANGED <<binary, build, client>> /\ sock' = None
  BY Shapes
  DEF RemoveSocket, KillStale, Goto, daemons, files, ClientTypes, Connecting, Waiting, Knows
<1>2. User(c) = "connecting" /\ User(c)' = "connecting" /\ UNCHANGED <<Peer(c), ts>>
  BY <1>1, LabelNames, Users, UsersNext DEF client
<1>3. CASE RemoveSocket(c)
  <2>1. Living' = Living /\ ~Serving'
    <3>1. Living' = Living
      BY <1>3 DEF RemoveSocket, daemons, Living
    <3>2. None \notin Living
      BY Shapes
    <3>3. QED
      BY <1>1, <3>1, <3>2 DEF Serving, Serves
  <2>2. CASE Living = {}
    BY <1>1, <1>2, <2>1, <2>2, Unseen DEF Serving
  <2>3. CASE Living # {}
    <3>1. Serving /\ \E d \in Living : build[d] # ts[c]
      BY <1>3, <2>3 DEF RemoveSocket, Knows, Resting, Fresh, Serving
    <3>2. QED
      BY <1>1, <1>2, <2>1, <3>1
      DEF Step, Serving, PromisedTo!Next, PromisedTo!Withdraw, PromisedTo!OfMyBuild
  <2>4. QED
    BY <2>2, <2>3
<1>4. CASE KillStale(c)
  <2>1. ~Serving
    BY <1>4, Shapes DEF KillStale, Knows, Serving, Serves
  <2>2. Living' = {}
    BY <1>4, KillsStale
  <2>3. QED
    BY <1>1, <1>2, <2>1, <2>2
    DEF Step, Serving, PromisedTo!Next, PromisedTo!Replace, PromisedTo!Dies
<1>5. QED
  BY <1>3, <1>4

(* A new daemon.                                                           *)
LEMMA SpawnPromise ==
  ASSUME IInv, NEW c \in Clients, Knows(c), Fresh(c), Spawn(c)
  PROVE  Step(c)
<1> PICK n \in Daemons : n = NextDaemon
  BY DEF Spawn
<1>1. /\ cpc[c] \in Connecting \ Waiting /\ cpc'[c] \in Waiting
      /\ UNCHANGED <<binary, build, client>> /\ dstate \in [Daemons -> States]
      /\ dstate' = [dstate EXCEPT ![n] = "starting"]
  BY Shapes DEF Spawn, Goto, ClientTypes, Connecting, Waiting
<1>2. User(c) = "connecting" /\ User(c)' = "waiting" /\ UNCHANGED <<Peer(c), ts>>
  BY <1>1, LabelNames, Users, UsersNext DEF client, Waiting
<1>3. Living = {} /\ Living' = {n}
  <2>1. Living = {}
    BY SpawnStep
  <2>2. QED
    BY <1>1, <2>1 DEF Living, Alive, Starting
<1>4. ~Serving /\ ~Serving'
  BY <1>1, <1>3 DEF Serving, Serves
<1>5. n # Peer(c)
  <2>1. n \notin Born /\ n # None
    BY Shapes, NextIsNew
  <2>2. conn[c] \in Born \/ conn[c] = None
    BY <1>1, Shapes, SettledIsBorn DEF ClientInv, HasConnection, Fresh
  <2>3. QED
    BY <2>1, <2>2, Users, LabelNames
<1>6. QED
  BY <1>1, <1>2, <1>3, <1>4, <1>5 DEF Step, Serving, PromisedTo!Next, PromisedTo!Start

(* A connect that fails leaves the client with the connection it had; it   *)
(* does when no daemon is alive after it, or none of the client's build.   *)
LEMMA FailsPromise ==
  ASSUME IInv, NEW c \in Clients, Fresh(c), cpc[c] \in Connecting, Fail(c),
         UNCHANGED <<binary, build, client>>,
         \/ /\ cpc[c] \notin Waiting
            /\ Living' = Living /\ Serving' = Serving /\ (binary # ts[c] \/ Living = {})
         \/ cpc[c] \in Waiting /\ Living' = {}
  PROVE  Step(c)
<1>1. /\ User(c) = IF cpc[c] \in Waiting THEN "waiting" ELSE "connecting"
      /\ Peer(c) = conn[c]
  BY Users, LabelNames
<1>2. User(c)' = IF conn[c] = None THEN "idle" ELSE "holding"
  <2>1. cpc'[c] = IF call[c].goal = "connect" THEN "over" ELSE "ready"
    BY Shapes DEF Fail, Return, Goto, ClientTypes
  <2>2. conn[c] = None <=> call[c].goal = "connect"
    BY Shapes, SettledIsBorn DEF Fresh, ClientInv, HasConnection
  <2>3. QED
    BY <2>1, <2>2, UsersNext
<1>3. Peer(c)' = Peer(c) /\ ts' = ts
  BY <1>1, <1>2, UsersNext, Users DEF client, Fail, Return, Goto, Peer, User
<1>4. CASE cpc[c] \notin Waiting
  BY <1>1, <1>2, <1>3, <1>4
  DEF Step, Serving, PromisedTo!Next, PromisedTo!Failed, PromisedTo!Fails, PromisedTo!daemon
<1>5. CASE cpc[c] \in Waiting
  <2>1. Living' = {} /\ ~Serving'
    BY <1>5 DEF Serving
  <2>2. QED
    BY <1>1, <1>2, <1>3, <1>5, <2>1
    DEF Step, Serving, PromisedTo!Next, PromisedTo!GivesUp, PromisedTo!Fails, PromisedTo!Dies
<1>6. QED
  BY <1>4, <1>5

LEMMA FailingPromise ==
  ASSUME IInv, NEW c \in Clients, Knows(c), Fresh(c),
         SpawnFails(c) \/ ChildDied(c) \/ StartTimesOut(c) \/ HandshakeLost(c)
  PROVE  Step(c)
<1>1. /\ cpc[c] \in Connecting /\ UNCHANGED <<binary, build, client>>
      /\ Living' = {} /\ ~Serving'
  BY FailingSteps
  DEF SpawnFails, ChildDied, StartTimesOut, HandshakeLost, daemons, Connecting, Serving
<1>2. CASE StartTimesOut(c) \/ ChildDied(c)
  <2>1. Fail(c)
    <3>1. CASE ChildDied(c)
      BY <3>1, Shapes, RisingLives DEF ChildDied, Knows, Waiting, Watches, IsAlive, ClientInv, Born
    <3>2. QED
      BY <1>2, <3>1 DEF StartTimesOut
  <2>2. cpc[c] \in Waiting
    BY <1>2 DEF StartTimesOut, ChildDied, Waiting
  <2>3. QED
    BY <1>1, <2>1, <2>2, FailsPromise
<1>3. CASE SpawnFails(c) \/ HandshakeLost(c)
  <2>1. dstate' = dstate /\ Fail(c) /\ cpc[c] \notin Waiting
    BY <1>3 DEF SpawnFails, HandshakeLost, daemons, Waiting
  <2>2. Living = {}
    BY <1>1, <2>1 DEF Living
  <2>3. Living' = Living /\ Serving' = Serving
    BY <1>1, <2>2 DEF Serving
  <2>4. QED
    BY <1>1, <2>1, <2>2, <2>3, FailsPromise
<1>4. QED
  BY <1>2, <1>3

(* The answer: connected, or to be replaced, or failed.                    *)
LEMMA AnsweredPromise ==
  ASSUME IInv, NEW c \in Clients, Knows(c), NotOlder(c), Fresh(c), Answered(c)
  PROVE  Step(c)
<1> DEFINE d == call[c].cand
<1>1. /\ cpc \in [Clients -> Labels] /\ conn \in [Clients -> Daemons \cup {None}]
      /\ d \in Daemons /\ build \in [Daemons -> Int] /\ ts[c] \in Int /\ binary \in Int
  BY Shapes DEF Answered, ClientTypes, ClientInv, Settled
<1>2. /\ cpc[c] = "handshake" /\ cpc[c] \in Connecting \ Waiting
      /\ UNCHANGED <<files, daemons, binary, build, dstate, ts, calls>>
  BY DEF Answered, daemons, Connecting, Waiting
<1>3. Living' = Living /\ Serving' = Serving
  BY <1>2, SameDaemon
<1>4. d \in Living /\ Living = {d} /\ Serves(d) /\ Serving
  <2>1. Serves(d) /\ Living \subseteq {d}
    BY RisingLives DEF Answered, Knows, Watches, Rises
  <2>2. d \in Living
    BY <1>1, <2>1, RisingLives DEF Living
  <2>3. QED
    BY <2>1, <2>2 DEF Serving
<1>5. User(c) = "connecting" /\ Peer(c) = conn[c]
  BY <1>2, Users, LabelNames
<1>6. CASE build[d] = ts[c]
  <2>1. conn'[c] = d /\ cpc'[c] \in {"ready", "retry"}
    BY <1>1, <1>6 DEF Answered, Return, Goto
  <2>2. User(c)' = "holding" /\ Peer(c)' = d
    BY <2>1, UsersNext
  <2>3. QED
    BY <1>2, <1>3, <1>4, <1>5, <1>6, <2>2
    DEF Step, Serving, PromisedTo!Next, PromisedTo!Connected, PromisedTo!OfMyBuild,
        PromisedTo!daemon
<1>7. CASE build[d] # ts[c] /\ ~Decisive(c)
  <2>1. conn' = conn /\ cpc'[c] = "unlink" /\ cpc'[c] \in Connecting \ Waiting
    BY <1>1, <1>7 DEF Answered, Goto, Connecting, Waiting, Decisive
  <2>2. User(c)' = User(c) /\ Peer(c)' = Peer(c)
    BY <1>5, <2>1, UsersNext, LabelNames
  <2>3. QED
    BY <1>2, <1>3, <2>2, Unseen
<1>8. CASE build[d] # ts[c] /\ Decisive(c)
  <2>1. Fail(c) /\ UNCHANGED <<binary, build, client>>
    BY <1>8 DEF Answered, Decisive, daemons, client
  <2>2. binary # ts[c]
    BY <1>1, <1>2, <1>8 DEF NotOlder
  <2>3. QED
    BY <1>2, <1>3, <2>1, <2>2, FailsPromise
<1>9. QED
  BY <1>6, <1>7, <1>8

(* force_stop.                                                             *)
LEMMA StoppingPromise ==
  ASSUME IInv, NEW c \in Clients, Knows(c), ~GracefulTerm,
         \/ NoPidFile(c) \/ InvalidPid(c) \/ NotRunning(c) \/ SendTerm(c)
         \/ Terminated(c) \/ TermTimesOut(c) \/ CleanPid(c) \/ CleanSocket(c)
  PROVE  Step(c)
<1>1. /\ cpc[c] \in Stopping /\ UNCHANGED <<binary, build, client>>
      /\ Living' = {} /\ ~Serving' /\ cpc \in [Clients -> Labels]
  BY StoppingKnows, Shapes
  DEF NoPidFile, InvalidPid, NotRunning, SendTerm, Terminated, TermTimesOut, CleanPid, CleanSocket,
      daemons, Stopping, Serving, ClientTypes
<1>2. User(c) = "stopping" /\ Peer(c) = conn[c]
  BY <1>1, Users, LabelNames
<1>3. CASE cpc'[c] \in Stopping
  <2>1. User(c)' = "stopping" /\ Peer(c)' = conn[c] /\ ts' = ts
    BY <1>1, <1>3, UsersNext, LabelNames DEF client
  <2>2. QED
    BY <1>1, <1>2, <2>1 DEF Step, Serving, PromisedTo!Next, PromisedTo!Terminate, PromisedTo!Dies
<1>4. CASE cpc'[c] \notin Stopping
  <2>1. InvalidPid(c) \/ CleanSocket(c)
    BY <1>1, <1>4
    DEF NoPidFile, InvalidPid, NotRunning, SendTerm, Terminated, TermTimesOut, CleanPid,
        CleanSocket, Goto, Stopping
  <2>2. dstate' = dstate /\ cpc'[c] \in {"ready", "unlink"}
    BY <1>1, <2>1 DEF InvalidPid, CleanSocket, StopEnds, Return, Goto, daemons
  <2>3. Living = {} /\ ~Serving
    BY <1>1, <2>2 DEF Living, Serving
  <2>4. User(c)' \in {"holding", "connecting"} /\ Peer(c)' = conn[c] /\ ts' = ts
    BY <1>1, <2>2, UsersNext, LabelNames DEF client, Waiting
  <2>5. QED
    BY <1>1, <1>2, <2>3, <2>4
    DEF Step, Serving, PromisedTo!Next, PromisedTo!Stopped, PromisedTo!daemon
<1>5. QED
  BY <1>3, <1>4

(* Beginning, commands, and leaving.                                       *)
LEMMA CallPromise ==
  ASSUME IInv, NEW c \in Clients, ~MayInterrupt,
         \/ Begin(c) \/ Execute(c) \/ ExecuteLost(c) \/ ExecuteFatalText(c) \/ Retry(c)
         \/ ForceStop(c, "stop") \/ ForceStop(c, "restart") \/ Leave(c)
  PROVE  Step(c)
<1>1. /\ UNCHANGED <<binary, files, daemons, build>>
      /\ cpc \in [Clients -> Labels] /\ conn \in [Clients -> Daemons \cup {None}]
      /\ ts \in [Clients -> Builds]
  BY Shapes
  DEF Begin, Execute, ExecuteLost, ExecuteFatalText, Retry, ForceStop, Leave, daemons, ClientTypes
<1>2. Living' = Living /\ Serving' = Serving
  BY <1>1, SameDaemon
<1>3. CASE Begin(c)
  <2>1. /\ cpc[c] = "over" /\ cpc'[c] \in Connecting \ Waiting
        /\ conn'[c] = None /\ ts'[c] = binary
    BY <1>1, <1>3 DEF Begin, Return, Goto, Connecting, Waiting
  <2>2. User(c) = "idle" /\ User(c)' = "connecting" /\ Peer(c) = None /\ Peer(c)' = None
    BY <2>1, Users, UsersNext, LabelNames
  <2>3. QED
    BY <1>1, <1>2, <2>1, <2>2
    DEF Step, Serving, PromisedTo!Next, PromisedTo!Connect, PromisedTo!daemon
<1>4. CASE Execute(c) \/ Retry(c)
  <2>1. cpc[c] \in {"ready", "retry"} /\ cpc'[c] = "ready" /\ conn' = conn /\ ts' = ts
    BY <1>1, <1>4 DEF Execute, Retry, Goto
  <2>2. User(c)' = User(c) /\ Peer(c)' = Peer(c)
    BY <2>1, Users, UsersNext
  <2>3. QED
    BY <1>1, <1>2, <2>1, <2>2, Unseen
<1>5. CASE ExecuteLost(c) \/ ExecuteFatalText(c) \/ ForceStop(c, "stop") \/ ForceStop(c, "restart")
  <2>1. cpc[c] = "ready" /\ cpc'[c] \in Stopping /\ conn' = conn /\ ts' = ts
    BY <1>1, <1>5 DEF ExecuteLost, ExecuteFatalText, ForceStop, Goto, Stopping
  <2>2. User(c) = "holding" /\ User(c)' = "stopping" /\ Peer(c)' = Peer(c)
    BY <2>1, Users, UsersNext, LabelNames
  <2>3. QED
    BY <1>1, <1>2, <2>1, <2>2
    DEF Step, Serving, PromisedTo!Next, PromisedTo!Stop, PromisedTo!daemon
<1>6. CASE Leave(c)
  <2>1. cpc[c] = "ready" /\ cpc'[c] = "over" /\ ts' = ts
    BY <1>1, <1>6 DEF Leave, Return, Goto, client
  <2>2. User(c) = "holding" /\ User(c)' = "idle" /\ Peer(c)' = None
    BY <2>1, Users, UsersNext
  <2>3. QED
    BY <1>1, <1>2, <2>1, <2>2
    DEF Step, Serving, PromisedTo!Next, PromisedTo!Leave, PromisedTo!daemon
<1>7. QED
  BY <1>3, <1>4, <1>5, <1>6

-----------------------------------------------------------------------------
(* So every step is one of the promise.                                    *)
LEMMA StepPromised ==
  ASSUME Undisturbed, IInv, AloneInv, Next, NEW c \in Clients
  PROVE  Step(c)
<1>1. /\ Clients = {c} /\ Knows(c) /\ NotOlder(c) /\ Fresh(c)
      /\ ~GracefulTerm /\ ~MayStop /\ ~MayInterrupt
  BY DEF Undisturbed, OneClient, AloneInv
<1>2. CASE ClientNext
  <2>1. \/ ClientStep(c) \/ Begin(c) \/ Execute(c) \/ ExecuteLost(c) \/ ExecuteFatalText(c)
        \/ ForceStop(c, "stop") \/ ForceStop(c, "restart") \/ Leave(c)
    BY <1>1, <1>2 DEF ClientNext
  <2>2. QED
    BY <1>1, <2>1, ConnectUnseen, CleanupPromise, SpawnPromise, ReadyPromise, FailingPromise,
       AnsweredPromise, StoppingPromise, CallPromise
    DEF ClientStep
<1>3. CASE DaemonNext
  BY <1>1, <1>3, DaemonsPromise DEF DaemonNext
<1>4. CASE Rebuild
  <2>1. /\ binary' = binary + 1 /\ binary \in Int
        /\ UNCHANGED <<files, daemons, build, cpc, conn, ts>>
    BY <1>4, Shapes DEF Rebuild, daemons, client
  <2>2. Living' = Living /\ Serving' = Serving /\ UNCHANGED <<User(c), Peer(c)>>
    BY <2>1, SameDaemon DEF User, Peer
  <2>3. QED
    BY <2>1, <2>2 DEF Step, Serving, PromisedTo!Next, PromisedTo!Rebuild, PromisedTo!daemon
<1>5. CASE Done
  <2>1. UNCHANGED <<files, daemons, build, binary, cpc, conn, ts>>
    BY <1>5 DEF Done, vars, client, daemons
  <2>2. Living' = Living /\ Serving' = Serving /\ UNCHANGED <<User(c), Peer(c)>>
    BY <2>1, SameDaemon DEF User, Peer
  <2>3. QED
    BY <2>1, <2>2, Unseen
<1>6. QED
  BY <1>2, <1>3, <1>4, <1>5 DEF Next

(* One client, undisturbed, has one daemon at a time; it is connected to   *)
(* one of its own build; none that it can reach and that is of its build   *)
(* is ended but by its force_stop or restart, after which none is alive,   *)
(* by the call that started it and has waited for it in vain, or by a      *)
(* crash; and it fails to connect only for a cause (client.rs:87-612).     *)
THEOREM ClientPromised ==
  ASSUME Undisturbed
  PROVE  Spec => KeepsPromise
<1>1. Init => \A c \in Clients : PromisedTo(c)!Init
  BY PromiseInit
<1>2. IInv /\ AloneInv /\ [Next]_vars
      => [\A c \in Clients : [PromisedTo(c)!Next]_(PromisedTo(c)!promiseVars)]_vars
  BY StepPromised DEF Step
<1>3. QED
  BY <1>1, <1>2, AloneInvariance, PTL DEF Spec, KeepsPromise
=============================================================================
