-------------------------- MODULE LifecycleProofs ---------------------------
(***************************************************************************)
(* Proofs about Lifecycle, for any number of clients, daemons, builds and  *)
(* calls, and whatever daemons and clients may do.                         *)
(***************************************************************************)
EXTENDS LifecycleInv, FiniteSetTheorems, TLAPS

States == Alive \cup Dead \cup {"none"}

(* What a step never takes from the daemon processes: one that has taken   *)
(* its timestamp keeps it, and a dead one stays dead.                      *)
DaemonsKeep ==
  /\ dstate' \in [Daemons -> States] /\ build' \in [Daemons -> Builds]
  /\ Born \subseteq Born' /\ Settled \subseteq Settled' /\ PidsInOrder'
  /\ \A d \in Settled : build'[d] = build[d]
  /\ \A d \in Born : dstate[d] \in Dead => dstate'[d] \in Dead

(* The state names of the three groups are different.                      *)
LEMMA StateNames ==
  /\ "none" \notin Alive \cup Dead
  /\ Alive \cap Dead = {}
  /\ Listening \subseteq Alive
  /\ "termed" \in Dead /\ "killed" \in Dead /\ "exited" \in Dead
  /\ Listening \cap {"none", "starting"} = {}
  /\ {"starting", "opening", "removing", "binding", "bound", "listening", "writing", "up",
      "leaving", "exiting", "failing"} \subseteq Alive
BY DEF Alive, Dead, Starting, Listening

(* The next pid names no process yet.                                      *)
LEMMA NextIsNew ==
  ASSUME TypeOK, PidsInOrder
  PROVE  /\ IsFiniteSet(Born) /\ Cardinality(Born) \in Nat
         /\ NextDaemon = Cardinality(Born) + 1 /\ NextDaemon \notin Born
<1>1. IsFiniteSet(Daemons)
  BY BoundsAssumption, FS_Interval DEF Daemons
<1>2. IsFiniteSet(Born)
  BY <1>1, FS_Subset DEF Born
<1>3. Cardinality(Born) \in Nat
  BY <1>2, FS_CardinalityType
<1>4. QED
  BY <1>2, <1>3 DEF NextDaemon, PidsInOrder

(* Processes that have taken their timestamp are born; so is one that      *)
(* answers, and it has taken it.                                           *)
LEMMA SettledIsBorn ==
  /\ Settled \subseteq Born /\ Born \subseteq Daemons
  /\ \A d : Connects(d) => d \in Settled
BY StateNames DEF Settled, Born, Connects

(* A step that changes the state of one process that is born, and not dead *)
(* unless it stays so, keeps the daemons.                                  *)
LEMMA OneMoves ==
  ASSUME TypeOK, PidsInOrder, NEW d \in Born, NEW s \in (Alive \cup Dead) \ {"starting"},
         dstate[d] \in Dead => s \in Dead,
         dstate' = [dstate EXCEPT ![d] = s],
         build' \in [Daemons -> Builds], \A e \in Settled : build'[e] = build[e]
  PROVE  DaemonsKeep
<1>1. dstate' \in [Daemons -> States] /\ build' \in [Daemons -> Builds]
  BY DEF TypeOK, States
<1>2. Born' = Born /\ Settled \subseteq Settled'
  BY StateNames DEF TypeOK, Born, Settled
<1>3. PidsInOrder'
  BY <1>2 DEF PidsInOrder
<1>4. \A e \in Born : dstate[e] \in Dead => dstate'[e] \in Dead
  BY DEF TypeOK, Born
<1>5. QED
  BY <1>1, <1>2, <1>3, <1>4 DEF DaemonsKeep

(* A step that leaves the daemons alone keeps them.                        *)
LEMMA NoneMoves ==
  ASSUME TypeOK, PidsInOrder, UNCHANGED daemons
  PROVE  DaemonsKeep /\ Born' = Born
<1>1. Born' = Born /\ Settled' = Settled
  BY DEF daemons, Born, Settled
<1>2. QED
  BY <1>1 DEF daemons, TypeOK, States, DaemonsKeep, PidsInOrder

(* Living processes are born.                                              *)
LEMMA AliveIsBorn ==
  ASSUME TypeOK, NEW d
  PROVE  /\ IsAlive(d) => d \in Born
         /\ Connects(d) => d \in Born
         /\ d \in Daemons /\ dstate[d] \in Alive => d \in Born
BY StateNames DEF IsAlive, Connects, Born

(* Signals.                                                                *)
LEMMA SignalsKeep ==
  ASSUME TypeOK, PidsInOrder, NEW d \in Daemons \cup {None, Blank}, Term(d) \/ Kill(d), build' = build
  PROVE  DaemonsKeep
<1>1. CASE ~IsAlive(d)
  <2>1. UNCHANGED daemons
    BY <1>1 DEF Term, Kill, daemons
  <2>2. QED
    BY <2>1, NoneMoves
<1>2. CASE IsAlive(d)
  <2>1. d \in Born /\ dstate[d] \in Alive
    BY <1>2, AliveIsBorn DEF IsAlive
  <2>2. dstate[d] \notin Dead
    BY <2>1, StateNames
  <2>3. PICK s \in (Alive \cup Dead) \ {"starting"} : dstate' = [dstate EXCEPT ![d] = s]
    <3>1. AfterTerm(d) \in (Alive \cup Dead) \ {"starting"}
      BY StateNames DEF AfterTerm
    <3>2. QED
      BY <1>2, <3>1, StateNames DEF Term, Kill
  <2>4. build' \in [Daemons -> Builds]
    BY DEF TypeOK
  <2>5. QED
    BY <2>1, <2>2, <2>3, <2>4, OneMoves
<1>3. QED
  BY <1>1, <1>2

(* Starting a process adds the next pid.                                   *)
LEMMA SpawnKeeps ==
  ASSUME TypeOK, PidsInOrder, NEW c \in Clients, Spawn(c)
  PROVE  DaemonsKeep /\ NextDaemon \in Born'
<1> DEFINE n == NextDaemon
<1>1. /\ IsFiniteSet(Born) /\ Cardinality(Born) \in Nat
      /\ n = Cardinality(Born) + 1 /\ n \notin Born
  BY NextIsNew
<1>2. /\ n \in Daemons
      /\ dstate' = [dstate EXCEPT ![n] = "starting"] /\ build' = build
  BY DEF Spawn
<1>3. dstate' \in [Daemons -> States] /\ build' \in [Daemons -> Builds]
  <2>1. "starting" \in States
    BY StateNames DEF States
  <2>2. QED
    BY <1>2, <2>1 DEF TypeOK, States
<1>4. Born' = Born \cup {n}
  BY <1>2 DEF TypeOK, Born
<1>5. PidsInOrder'
  <2>1. Cardinality(Born') = Cardinality(Born) + 1
    BY <1>1, <1>4, FS_AddElement
  <2>2. Born' = 1..(Cardinality(Born) + 1)
    BY <1>1, <1>4 DEF PidsInOrder
  <2>3. QED
    BY <2>1, <2>2 DEF PidsInOrder
<1>6. \A d \in Born : dstate'[d] = dstate[d]
  <2> SUFFICES ASSUME NEW d \in Born PROVE dstate'[d] = dstate[d]
    OBVIOUS
  <2>1. d \in Daemons /\ d # n
    BY <1>1 DEF Born
  <2>2. QED
    BY <1>2, <2>1 DEF TypeOK
<1>7. Settled \subseteq Settled'
  BY <1>6, SettledIsBorn DEF Settled
<1>8. QED
  BY <1>2, <1>3, <1>4, <1>5, <1>6, <1>7 DEF DaemonsKeep

(* Every step keeps the daemons, a client's ...                            *)
LEMMA ClientsKeep ==
  ASSUME TypeOK, PidsInOrder, CallsMatch, ClientNext
  PROVE  DaemonsKeep
<1> PICK c \in Clients : \/ ClientStep(c) \/ Begin(c) \/ Execute(c) \/ ExecuteLost(c)
                         \/ ExecuteFatalText(c) \/ ForceStop(c, "stop")
                         \/ ForceStop(c, "restart") \/ Leave(c)
  BY DEF ClientNext
<1>1. CASE UNCHANGED daemons
  BY <1>1, NoneMoves
<1>2. CASE Spawn(c)
  BY <1>2, SpawnKeeps
<1>3. CASE SendTerm(c)
  <2>1. pidFile \in Daemons \cup {None, Blank} /\ Term(pidFile) /\ build' = build
    BY <1>3 DEF SendTerm, TypeOK
  <2>2. QED
    BY <2>1, SignalsKeep
<1>4. CASE KillStale(c) \/ StartTimesOut(c) \/ TermTimesOut(c)
  <2>1. call[c].proc \in Daemons
    BY <1>4 DEF KillStale, StartTimesOut, TermTimesOut, CallsMatch, Born
  <2>2. (Term(call[c].proc) \/ Kill(call[c].proc)) /\ build' = build
    BY <1>4 DEF KillStale, StartTimesOut, TermTimesOut
  <2>3. QED
    BY <2>1, <2>2, SignalsKeep
<1>5. QED
  <2>1. \/ UNCHANGED daemons
        \/ Spawn(c) \/ KillStale(c) \/ SendTerm(c) \/ StartTimesOut(c) \/ TermTimesOut(c)
    BY DEF ClientStep, Begin, Connect, Look, RemoveSocket, ReadPid, KillStale, RemovePid, Spawn,
           SpawnFails, Ready, ChildDied, LastAttemptFails, StartTimesOut, Answered,
           HandshakeLost, NoPidFile, InvalidPid, NotRunning, SendTerm, Terminated, TermTimesOut,
           CleanPid, CleanSocket, Retry, Execute, ExecuteLost, ExecuteFatalText, ForceStop,
           Leave, daemons
  <2>2. QED
    BY <1>1, <1>2, <1>3, <1>4, <2>1

(* What the invariant says of the two files.                               *)
FilesInv == /\ sock \in Daemons \cup {None}
            /\ pidFile \in Born \cup {None, Blank} /\ pidOpen \subseteq Daemons

(* ... or a daemon's, which moves only itself.                             *)
LEMMA DaemonMoves ==
  ASSUME TypeOK, PidsInOrder, FilesInv, NEW d \in Daemons,
         DaemonStep(d) \/ Leaves(d) \/ Crash(d)
  PROVE  /\ DaemonsKeep
         /\ FilesInv'
         /\ UNCHANGED <<binary, cpc, call, client>>
<1>1. dstate[d] \in Alive
  BY StateNames
  DEF DaemonStep, ReadBuild, FindSocket, ClearSocket, Bind, Listen, Publish, WritePid, Leaves,
      LeavePid, LeaveSocket, Crash
<1>2. d \in Born /\ dstate[d] \notin Dead
  BY <1>1, StateNames, AliveIsBorn
<1>3. PICK s \in (Alive \cup Dead) \ {"starting"} :
        dstate' = [dstate EXCEPT ![d] = s] /\ UNCHANGED <<binary, cpc, call, client>>
  BY StateNames
  DEF DaemonStep, ReadBuild, FindSocket, ClearSocket, Bind, Listen, Publish, WritePid, Leaves,
      LeavePid, LeaveSocket, Crash, Becomes
<1>4. DaemonsKeep
  <2>1. build' \in [Daemons -> Builds] /\ \A e \in Settled : build'[e] = build[e]
    <3>1. CASE ReadBuild(d)
      BY <3>1 DEF ReadBuild, TypeOK, Settled
    <3>2. CASE ~ReadBuild(d)
      BY <3>2
      DEF DaemonStep, FindSocket, ClearSocket, Bind, Listen, Publish, WritePid, Leaves,
          LeavePid, LeaveSocket, Crash, Becomes, TypeOK
    <3>3. QED
      BY <3>1, <3>2
  <2>2. QED
    BY <1>2, <1>3, <2>1, OneMoves
<1>5. FilesInv'
  <2>1. Born' = Born /\ d \in Daemons
    BY <1>2, <1>3, StateNames DEF Born, TypeOK
  <2>2. /\ sock' \in {sock, None, d} /\ pidFile' \in {pidFile, None, Blank, d}
        /\ pidOpen' \subseteq pidOpen \cup {d}
    BY DEF DaemonStep, ReadBuild, FindSocket, ClearSocket, Bind, Listen, Publish, WritePid,
           Leaves, LeavePid, LeaveSocket, Crash, files, pids, RemovePidFile
  <2>3. QED
    BY <1>2, <2>1, <2>2 DEF FilesInv
<1>6. QED
  BY <1>3, <1>4, <1>5

-----------------------------------------------------------------------------
(* The clients.                                                            *)

Labels == Connecting \cup Stopping \cup {"ready", "retry", "over"}

ClientTypes ==
  /\ cpc \in [Clients -> Labels] /\ call \in [Clients -> Calls]
  /\ ts \in [Clients -> Builds] /\ conn \in [Clients -> Daemons \cup {None}]
  /\ used \in [Clients -> BOOLEAN] /\ calls \in 0..Budget

(* What the invariant says of one client.                                  *)
ClientInv(c) ==
  /\ HasConnection(c) => conn[c] \in Settled /\ build[conn[c]] = ts[c]
  /\ cpc[c] = "handshake" => call[c].cand \in Settled
  /\ cpc[c] \in {"signal", "await", "timedOut", "stopping", "clean"} => call[c].proc \in Born
  /\ cpc[c] \in Stopping => call[c].goal # "connect"
  /\ cpc[c] = "clean" => dstate[call[c].proc] \in Dead

(* A step leaves the others alone.                                         *)
OthersAlone(c) ==
  \A e \in Clients \ {c} : /\ cpc'[e] = cpc[e] /\ call'[e] = call[e]
                           /\ ts'[e] = ts[e] /\ conn'[e] = conn[e]

(* The labels of the groups are different.                                 *)
LEMMA LabelNames ==
  /\ Connecting \cap Stopping = {}
  /\ {"ready", "retry", "over"} \cap (Connecting \cup Stopping) = {}
  /\ Stopping = {"stop", "stopping", "clean", "cleanSocket"}
  /\ Connecting = {"connect", "look", "unlink", "kill", "signal", "unpid", "spawn", "await",
                   "timedOut", "handshake"}
BY DEF Connecting, Stopping

(* The parts of the invariant, client by client.                           *)
LEMMA InvByClient ==
  IInv <=> /\ binary \in Builds
           /\ FilesInv
           /\ dstate \in [Daemons -> States] /\ build \in [Daemons -> Builds]
           /\ ClientTypes /\ PidsInOrder /\ \A c \in Clients : ClientInv(c)
<1>1. Born \subseteq Daemons /\ Settled \subseteq Born
  BY SettledIsBorn
<1>2. FilesInv <=> /\ sock \in Daemons \cup {None} /\ pidFile \in Daemons \cup {None, Blank}
                   /\ pidOpen \subseteq Daemons /\ PidFileMatches
  BY <1>1 DEF FilesInv, PidFileMatches
<1>3. QED
  BY <1>1, <1>2
  DEF IInv, TypeOK, ClientTypes, States, Labels, ClientInv, ConnectionsMatch, CallsMatch,
      StopsForGood, HasConnection

(* A client that does not move itself keeps its part.                      *)
LEMMA ClientStays ==
  ASSUME IInv, DaemonsKeep, NEW c \in Clients,
         cpc'[c] = cpc[c], call'[c] = call[c], ts'[c] = ts[c], conn'[c] = conn[c]
  PROVE  ClientInv(c)'
<1>1. ClientInv(c)
  BY InvByClient
<1>2. QED
  BY <1>1, SettledIsBorn DEF ClientInv, DaemonsKeep, HasConnection

(* How a call record changes.                                              *)
LEMMA CallTypes ==
  /\ \A g \in Goals : /\ NewCall(g) \in Calls /\ NewCall(g).goal = g
  /\ NoCall \in Calls /\ NoCall.goal = "connect"
  /\ \A r \in Calls : /\ r.goal \in Goals /\ r.reason \in Reasons /\ r.tries \in 0..2
                      /\ r.proc \in Daemons \cup {None} /\ r.cand \in Daemons \cup {None}
BY DEF NewCall, NoCall, Calls, Goals, Reasons

(* The end of a call.                                                      *)
LEMMA Returns ==
  ASSUME IInv, DaemonsKeep, NEW c \in Clients, NEW l \in {"ready", "retry", "over", "connect"},
         Return(c, l), UNCHANGED <<ts, conn, used>>, calls' \in 0..Budget,
         l \in {"ready", "retry"} => HasConnection(c)
  PROVE  ClientTypes' /\ OthersAlone(c) /\ ClientInv(c)'
<1>1. /\ cpc' = [cpc EXCEPT ![c] = l] /\ call' = [call EXCEPT ![c] = NoCall]
      /\ ts' = ts /\ conn' = conn /\ used' = used
  BY DEF Return, Goto
<1>2. l \in Labels
  BY LabelNames DEF Labels
<1>3. ClientTypes /\ ClientInv(c)
  BY InvByClient
<1>4. ClientTypes' /\ OthersAlone(c)
  BY <1>1, <1>2, <1>3, CallTypes DEF ClientTypes, OthersAlone
<1>5. cpc'[c] = l /\ call'[c].goal = "connect"
  BY <1>1, <1>3, CallTypes DEF ClientTypes
<1>6. ClientInv(c)'
  BY <1>1, <1>3, <1>5, LabelNames DEF ClientInv, HasConnection, DaemonsKeep
<1>7. QED
  BY <1>4, <1>6

(* A call that fails.                                                      *)
LEMMA Fails ==
  ASSUME IInv, DaemonsKeep, NEW c \in Clients, Fail(c), UNCHANGED client
  PROVE  ClientTypes' /\ OthersAlone(c) /\ ClientInv(c)'
<1> DEFINE l == IF call[c].goal = "connect" THEN "over" ELSE "ready"
<1>1. Return(c, l) /\ (l \in {"ready", "retry"} => HasConnection(c))
  BY DEF Fail, HasConnection
<1>2. calls' \in 0..Budget /\ UNCHANGED <<ts, conn, used>>
  BY DEF client, IInv, TypeOK
<1>3. QED
  BY <1>1, <1>2, Returns

(* A step inside of a call: what the new label asks of the call record.    *)
LEMMA GoesOn ==
  ASSUME IInv, DaemonsKeep, NEW c \in Clients, NEW l \in Connecting \cup Stopping,
         NEW r \in Calls,
         cpc' = [cpc EXCEPT ![c] = l], call' = [call EXCEPT ![c] = r],
         UNCHANGED <<ts, conn>>, used' \in [Clients -> BOOLEAN], calls' \in 0..Budget,
         r.goal = call[c].goal \/ HasConnection(c),
         l = "handshake" => r.cand \in Settled',
         l \in {"signal", "await", "timedOut", "stopping", "clean"} => r.proc \in Born',
         l \in Stopping => r.goal # "connect",
         l = "clean" => dstate'[r.proc] \in Dead
  PROVE  ClientTypes' /\ OthersAlone(c) /\ ClientInv(c)'
<1>1. ClientTypes /\ ClientInv(c)
  BY InvByClient
<1>2. ClientTypes' /\ OthersAlone(c)
  <2>1. l \in Labels
    BY DEF Labels
  <2>2. QED
    BY <1>1, <2>1 DEF ClientTypes, OthersAlone
<1>3. cpc'[c] = l /\ call'[c] = r
  BY <1>1 DEF ClientTypes
<1>4. HasConnection(c)' => HasConnection(c)
  BY <1>3, LabelNames DEF HasConnection
<1>5. HasConnection(c)' => conn'[c] \in Settled' /\ build'[conn'[c]] = ts'[c]
  BY <1>1, <1>4 DEF ClientInv, DaemonsKeep
<1>6. QED
  BY <1>2, <1>3, <1>5 DEF ClientInv

(* A client's step in connect, or in restart.                              *)
LEMMA ConnectingSteps ==
  ASSUME IInv, DaemonsKeep, NEW c \in Clients,
         \/ Connect(c) \/ Look(c) \/ RemoveSocket(c) \/ ReadPid(c) \/ KillStale(c) \/ RemovePid(c)
         \/ Spawn(c) \/ Ready(c) \/ ChildDied(c) \/ LastAttemptFails(c)
  PROVE  ClientTypes' /\ OthersAlone(c) /\ ClientInv(c)'
<1>1. /\ ClientTypes /\ ClientInv(c) /\ sock \in Daemons \cup {None} /\ TypeOK /\ PidsInOrder
      /\ call[c] \in Calls
  BY InvByClient DEF IInv, ClientTypes, FilesInv
<1>2. CASE Connect(c)
  <2>1. CASE Connects(sock)
    <3> DEFINE r == [call[c] EXCEPT !.cand = sock]
    <3>1. r \in Calls /\ r.goal = call[c].goal /\ r.cand = sock
      BY <1>1 DEF Calls
    <3>2. sock \in Settled'
      BY <2>1, SettledIsBorn DEF DaemonsKeep
    <3>3. cpc' = [cpc EXCEPT ![c] = "handshake"] /\ call' = [call EXCEPT ![c] = r]
      BY <1>2, <2>1 DEF Connect, Goto
    <3>4. QED
      BY <1>1, <1>2, <3>1, <3>2, <3>3, LabelNames, GoesOn DEF Connect, client, ClientTypes
  <2>2. CASE ~Connects(sock)
    <3>1. cpc' = [cpc EXCEPT ![c] = "look"] /\ call' = [call EXCEPT ![c] = call[c]]
      BY <1>1, <1>2, <2>2 DEF Connect, Goto, ClientTypes
    <3>2. QED
      BY <1>1, <1>2, <3>1, LabelNames, GoesOn DEF Connect, client, ClientTypes
  <2>3. QED
    BY <2>1, <2>2
<1>3. CASE Look(c)
  <2>1. PICK l \in {"kill", "unlink"}, r \in Calls :
          /\ r.goal = call[c].goal
          /\ cpc' = [cpc EXCEPT ![c] = l] /\ call' = [call EXCEPT ![c] = r]
    <3>1. CASE sock = None
      BY <1>1, <1>3, <3>1 DEF Look, Goto, ClientTypes
    <3>2. CASE sock # None
      <4> DEFINE r == [call[c] EXCEPT !.reason = "recovered"]
      <4>1. r \in Calls /\ r.goal = call[c].goal
        BY <1>1 DEF Calls, Reasons
      <4>2. cpc' = [cpc EXCEPT ![c] = "unlink"] /\ call' = [call EXCEPT ![c] = r]
        BY <1>3, <3>2 DEF Look, Goto
      <4>3. QED
        BY <4>1, <4>2
    <3>3. QED
      BY <3>1, <3>2
  <2>2. QED
    BY <1>1, <1>3, <2>1, LabelNames, GoesOn DEF Look, client, ClientTypes
<1>4. CASE RemoveSocket(c) \/ KillStale(c) \/ RemovePid(c)
  <2>1. PICK l \in {"kill", "unpid", "spawn"} :
          cpc' = [cpc EXCEPT ![c] = l] /\ call' = [call EXCEPT ![c] = call[c]]
    BY <1>1, <1>4 DEF RemoveSocket, KillStale, RemovePid, Goto, ClientTypes
  <2>2. UNCHANGED client
    BY <1>4 DEF RemoveSocket, KillStale, RemovePid
  <2>3. QED
    BY <1>1, <2>1, <2>2, LabelNames, GoesOn DEF client, ClientTypes
<1>5. CASE Spawn(c)
  <2> DEFINE r == [call[c] EXCEPT !.proc = NextDaemon]
  <2>1. NextDaemon \in Daemons /\ NextDaemon \in Born'
    BY <1>1, <1>5, SpawnKeeps DEF Spawn
  <2>2. r \in Calls /\ r.goal = call[c].goal /\ r.proc = NextDaemon
    BY <1>1, <2>1 DEF Calls
  <2>3. cpc' = [cpc EXCEPT ![c] = "await"] /\ call' = [call EXCEPT ![c] = r]
    BY <1>5 DEF Spawn, Goto
  <2> HIDE DEF r
  <2>4. QED
    BY <1>1, <1>5, <2>1, <2>2, <2>3, LabelNames, GoesOn DEF Spawn, client, ClientTypes
<1>6. CASE Ready(c)
  <2> DEFINE r == [call[c] EXCEPT !.cand = sock]
  <2>1. r \in Calls /\ r.goal = call[c].goal /\ r.cand = sock
    BY <1>1 DEF Calls
  <2>2. sock \in Settled'
    BY <1>6, SettledIsBorn DEF DaemonsKeep, Ready
  <2>3. cpc' = [cpc EXCEPT ![c] = "handshake"] /\ call' = [call EXCEPT ![c] = r]
    BY <1>6 DEF Ready, Goto
  <2> HIDE DEF r
  <2>4. QED
    BY <1>1, <1>6, <2>1, <2>2, <2>3, LabelNames, GoesOn DEF Ready, client, ClientTypes
<1>7. CASE ChildDied(c)
  <2>1. CASE dstate[call[c].proc] = "termed" /\ call[c].tries < 2
    <3> DEFINE r == [call[c] EXCEPT !.tries = @ + 1]
    <3>1. r \in Calls /\ r.goal = call[c].goal
      BY <1>1, <2>1 DEF Calls
    <3>2. cpc' = [cpc EXCEPT ![c] = "spawn"] /\ call' = [call EXCEPT ![c] = r]
      BY <1>7, <2>1 DEF ChildDied, Goto
    <3>3. QED
      BY <1>1, <1>7, <3>1, <3>2, LabelNames, GoesOn DEF ChildDied, client, ClientTypes
  <2>2. CASE ~(dstate[call[c].proc] = "termed" /\ call[c].tries < 2)
    BY <1>7, <2>2, Fails DEF ChildDied
  <2>3. QED
    BY <2>1, <2>2
<1>8. CASE ReadPid(c)
  <2>1. CASE pidFile \in Daemons
    <3> DEFINE r == [call[c] EXCEPT !.proc = pidFile]
    <3>1. r \in Calls /\ r.goal = call[c].goal /\ r.proc = pidFile
      BY <1>1, <2>1 DEF Calls
    <3>2. pidFile \in Born'
      BY <2>1, InvByClient, BoundsAssumption DEF FilesInv, DaemonsKeep, Daemons, None, Blank
    <3>3. cpc' = [cpc EXCEPT ![c] = "signal"] /\ call' = [call EXCEPT ![c] = r]
      BY <1>8, <2>1 DEF ReadPid, Goto
    <3> HIDE DEF r
    <3>4. QED
      BY <1>1, <1>8, <3>1, <3>2, <3>3, LabelNames, GoesOn DEF ReadPid, client, ClientTypes
  <2>2. CASE pidFile \notin Daemons
    <3>1. cpc' = [cpc EXCEPT ![c] = "unpid"] /\ call' = [call EXCEPT ![c] = call[c]]
      BY <1>1, <1>8, <2>2 DEF ReadPid, Goto, ClientTypes
    <3>2. QED
      BY <1>1, <1>8, <3>1, LabelNames, GoesOn DEF ReadPid, client, ClientTypes
  <2>3. QED
    BY <2>1, <2>2
<1>9. CASE LastAttemptFails(c)
  <2>1. /\ cpc' = [cpc EXCEPT ![c] = "timedOut"] /\ call' = [call EXCEPT ![c] = call[c]]
        /\ UNCHANGED client
    BY <1>1, <1>9 DEF LastAttemptFails, Goto, ClientTypes
  <2>2. call[c].proc \in Born'
    BY <1>1, <1>9 DEF LastAttemptFails, ClientInv, DaemonsKeep
  <2>3. QED
    BY <1>1, <2>1, <2>2, LabelNames, GoesOn DEF client, ClientTypes
<1>10. QED
  BY <1>2, <1>3, <1>4, <1>5, <1>6, <1>7, <1>8, <1>9

(* The steps that may or must end a connect.                               *)
LEMMA EndingSteps ==
  ASSUME IInv, DaemonsKeep, NEW c \in Clients,
         SpawnFails(c) \/ StartTimesOut(c) \/ HandshakeLost(c) \/ Leave(c)
  PROVE  ClientTypes' /\ OthersAlone(c) /\ ClientInv(c)'
<1>1. CASE SpawnFails(c) \/ StartTimesOut(c) \/ HandshakeLost(c)
  BY <1>1, Fails DEF SpawnFails, StartTimesOut, HandshakeLost
<1>2. CASE Leave(c)
  <2>1. Return(c, "over") /\ UNCHANGED <<ts, conn, used, calls>>
    BY <1>2 DEF Leave, client
  <2>2. calls' \in 0..Budget
    BY <2>1 DEF IInv, TypeOK
  <2>3. QED
    BY <2>1, <2>2, Returns
<1>3. QED
  BY <1>1, <1>2

(* The daemon's answer to the version check.                               *)
LEMMA AnsweredStep ==
  ASSUME IInv, DaemonsKeep, NEW c \in Clients, Answered(c)
  PROVE  ClientTypes' /\ OthersAlone(c) /\ ClientInv(c)'
<1> DEFINE d == call[c].cand
           same  == build[d] = ts[c]
           first == call[c].goal = "connect" /\ call[c].reason # "binaryUpdated"
<1>1. /\ ClientTypes /\ ClientInv(c) /\ call[c] \in Calls
      /\ d \in Settled /\ d \in Daemons /\ cpc[c] = "handshake"
  BY InvByClient, SettledIsBorn DEF Answered, ClientTypes, ClientInv
<1>2. CASE same
  <2> DEFINE l == IF call[c].goal = "auto" THEN "retry" ELSE "ready"
  <2>1. /\ conn' = [conn EXCEPT ![c] = d] /\ used' = [used EXCEPT ![c] = FALSE]
        /\ cpc' = [cpc EXCEPT ![c] = l] /\ call' = [call EXCEPT ![c] = NoCall]
        /\ ts' = ts /\ calls' = calls /\ build' = build
    BY <1>2 DEF Answered, Return, Goto, daemons
  <2>2. ClientTypes' /\ OthersAlone(c)
    BY <1>1, <2>1, CallTypes DEF ClientTypes, OthersAlone, Labels
  <2>3. conn'[c] = d /\ ts'[c] = ts[c] /\ cpc'[c] = l /\ call'[c] = NoCall
    BY <1>1, <2>1 DEF ClientTypes
  <2>4. ClientInv(c)'
    BY <1>1, <1>2, <2>1, <2>3, CallTypes, LabelNames DEF ClientInv, DaemonsKeep
  <2>5. QED
    BY <2>2, <2>4
<1>3. CASE ~same /\ first
  <2> DEFINE r == [call[c] EXCEPT !.reason = "binaryUpdated", !.tries = 0]
  <2>1. r \in Calls /\ r.goal = call[c].goal
    <3> DEFINE q == [call[c] EXCEPT !.reason = "binaryUpdated"]
    <3>1. q \in Calls /\ q.goal = call[c].goal
      BY <1>1 DEF Calls, Reasons
    <3>2. r = [q EXCEPT !.tries = 0]
      BY <1>1 DEF Calls
    <3> HIDE DEF q, r
    <3>3. QED
      BY <3>1, <3>2 DEF Calls
  <2>2. /\ cpc' = [cpc EXCEPT ![c] = "unlink"] /\ call' = [call EXCEPT ![c] = r]
        /\ UNCHANGED <<ts, conn, used, calls>>
    BY <1>3 DEF Answered, Goto
  <2>3. QED
    BY <1>1, <2>1, <2>2, LabelNames, GoesOn DEF ClientTypes
<1>4. CASE ~same /\ ~first
  <2>1. Fail(c) /\ UNCHANGED client
    BY <1>4 DEF Answered, client
  <2>2. QED
    BY <2>1, Fails
<1>5. QED
  BY <1>2, <1>3, <1>4

(* The end of force_stop, as a call of its own or the first part of restart. *)
LEMMA StopOver ==
  ASSUME IInv, DaemonsKeep, NEW c \in Clients, StopEnds(c), UNCHANGED client, cpc[c] \in Stopping
  PROVE  ClientTypes' /\ OthersAlone(c) /\ ClientInv(c)'
<1>1. /\ ClientTypes /\ ClientInv(c) /\ call[c] \in Calls /\ HasConnection(c)
      /\ UNCHANGED <<ts, conn, used>> /\ calls' \in 0..Budget /\ used' \in [Clients -> BOOLEAN]
  BY InvByClient DEF ClientTypes, ClientInv, HasConnection, client
<1>2. CASE call[c].goal = "stop"
  BY <1>1, <1>2, Returns DEF StopEnds
<1>3. CASE call[c].goal # "stop"
  <2> DEFINE r == [call[c] EXCEPT !.reason = "forceRestarted"]
  <2>1. r \in Calls /\ r.goal = call[c].goal
    BY <1>1 DEF Calls, Reasons
  <2>2. cpc' = [cpc EXCEPT ![c] = "unlink"] /\ call' = [call EXCEPT ![c] = r]
    BY <1>3 DEF StopEnds, Goto
  <2> HIDE DEF r
  <2>3. QED
    BY <1>1, <2>1, <2>2, LabelNames, GoesOn
<1>4. QED
  BY <1>2, <1>3

(* A process that is born is alive or dead.                                *)
LEMMA BornIsAliveOrDead ==
  ASSUME TypeOK, NEW d \in Born
  PROVE  d \in Daemons /\ (IsAlive(d) \/ dstate[d] \in Dead)
BY DEF TypeOK, Born, IsAlive

(* A client's step in force_stop.                                          *)
LEMMA StoppingSteps ==
  ASSUME IInv, DaemonsKeep, NEW c \in Clients,
         \/ NoPidFile(c) \/ InvalidPid(c) \/ NotRunning(c) \/ SendTerm(c)
         \/ Terminated(c) \/ TermTimesOut(c) \/ CleanPid(c) \/ CleanSocket(c)
  PROVE  ClientTypes' /\ OthersAlone(c) /\ ClientInv(c)'
<1>1. /\ ClientTypes /\ ClientInv(c) /\ TypeOK /\ PidsInOrder /\ call[c] \in Calls
      /\ pidFile \in Born \cup {None, Blank}
  BY InvByClient DEF IInv, ClientTypes, PidFileMatches
<1>2. CASE InvalidPid(c) \/ CleanSocket(c)
  BY <1>2, LabelNames, StopOver DEF InvalidPid, CleanSocket
<1>3. CASE NoPidFile(c) \/ CleanPid(c)
  <2>1. /\ cpc' = [cpc EXCEPT ![c] = "cleanSocket"] /\ call' = [call EXCEPT ![c] = call[c]]
        /\ UNCHANGED client /\ cpc[c] \in Stopping
    BY <1>1, <1>3, LabelNames DEF NoPidFile, CleanPid, Goto, ClientTypes
  <2>2. call[c].goal # "connect"
    BY <1>1, <2>1 DEF ClientInv
  <2>3. QED
    BY <1>1, <2>1, <2>2, LabelNames, GoesOn DEF client, ClientTypes
<1>4. CASE NotRunning(c)
  <2> DEFINE r == [call[c] EXCEPT !.proc = pidFile]
  <2>1. pidFile \in Born /\ pidFile \in Daemons /\ dstate[pidFile] \in Dead
    <3>1. pidFile \in Daemons /\ ~IsAlive(pidFile)
      BY <1>4 DEF NotRunning
    <3>2. pidFile \in Born
      BY <1>1, <3>1, BoundsAssumption DEF Daemons, None, Blank
    <3>3. QED
      BY <1>1, <3>1, <3>2, BornIsAliveOrDead
  <2>2. r \in Calls /\ r.goal = call[c].goal /\ r.proc = pidFile
    BY <1>1, <2>1 DEF Calls
  <2>3. pidFile \in Born' /\ dstate'[pidFile] \in Dead /\ call[c].goal # "connect"
    BY <1>1, <1>4, <2>1, LabelNames DEF NotRunning, DaemonsKeep, ClientInv
  <2>4. cpc' = [cpc EXCEPT ![c] = "clean"] /\ call' = [call EXCEPT ![c] = r] /\ UNCHANGED client
    BY <1>4 DEF NotRunning, Goto
  <2> HIDE DEF r
  <2>5. QED
    BY <1>1, <2>2, <2>3, <2>4, LabelNames, GoesOn DEF client, ClientTypes
<1>5. CASE SendTerm(c)
  <2> DEFINE r == [call[c] EXCEPT !.proc = pidFile]
  <2>1. r \in Calls /\ r.goal = call[c].goal /\ r.proc = pidFile
    BY <1>1, <1>5 DEF SendTerm, IsAlive, Calls
  <2>2. pidFile \in Born' /\ call[c].goal # "connect"
    BY <1>1, <1>5, AliveIsBorn, LabelNames DEF SendTerm, DaemonsKeep, ClientInv
  <2>3. cpc' = [cpc EXCEPT ![c] = "stopping"] /\ call' = [call EXCEPT ![c] = r]
    BY <1>5 DEF SendTerm, Goto
  <2> HIDE DEF r
  <2>4. QED
    BY <1>1, <1>5, <2>1, <2>2, <2>3, LabelNames, GoesOn DEF SendTerm, client, ClientTypes
<1>6. CASE Terminated(c) \/ TermTimesOut(c)
  <2> DEFINE d == call[c].proc
  <2>1. cpc[c] = "stopping" /\ d \in Born /\ d \in Daemons /\ d # None
    BY <1>1, <1>6, BoundsAssumption
    DEF Terminated, TermTimesOut, ClientInv, Born, Daemons, None
  <2>2. dstate'[d] \in Dead
    <3>1. CASE Terminated(c)
      <4>1. dstate[d] \in Dead
        BY <1>1, <2>1, <3>1, StateNames DEF Terminated, IsAlive, Born, TypeOK
      <4>2. QED
        BY <2>1, <4>1 DEF DaemonsKeep
    <3>2. CASE TermTimesOut(c)
      <4>1. dstate' = [dstate EXCEPT ![d] = "killed"]
        BY <3>2 DEF TermTimesOut, Kill
      <4>2. QED
        BY <1>1, <2>1, <4>1, StateNames DEF TypeOK
    <3>3. QED
      BY <1>6, <3>1, <3>2
  <2>3. cpc' = [cpc EXCEPT ![c] = "clean"] /\ call' = [call EXCEPT ![c] = call[c]]
    BY <1>1, <1>6 DEF Terminated, TermTimesOut, Goto, ClientTypes
  <2>4. d \in Born' /\ call[c].goal # "connect" /\ UNCHANGED client
    BY <1>1, <1>6, <2>1, LabelNames DEF DaemonsKeep, ClientInv, Terminated, TermTimesOut
  <2>5. QED
    BY <1>1, <2>2, <2>3, <2>4, LabelNames, GoesOn DEF client, ClientTypes
<1>7. QED
  BY <1>2, <1>3, <1>4, <1>5, <1>6

(* The steps between calls, and those that begin one.                      *)
LEMMA BeginStep ==
  ASSUME IInv, DaemonsKeep, NEW c \in Clients, Begin(c)
  PROVE  ClientTypes' /\ OthersAlone(c) /\ ClientInv(c)'
<1>1. ClientTypes /\ binary \in Builds
  BY InvByClient
<1>2. /\ cpc' = [cpc EXCEPT ![c] = "connect"] /\ call' = [call EXCEPT ![c] = NoCall]
      /\ ts' = [ts EXCEPT ![c] = binary] /\ conn' = [conn EXCEPT ![c] = None]
      /\ used' = [used EXCEPT ![c] = FALSE] /\ calls' = calls + 1 /\ calls < Budget
  BY DEF Begin, Return, Goto
<1>3. ClientTypes' /\ OthersAlone(c)
  <2>1. calls' \in 0..Budget
    BY <1>1, <1>2, BoundsAssumption DEF ClientTypes
  <2>2. QED
    BY <1>1, <1>2, <2>1, CallTypes, LabelNames DEF ClientTypes, OthersAlone, Labels
<1>4. cpc'[c] = "connect" /\ call'[c] = NoCall
  BY <1>1, <1>2 DEF ClientTypes
<1>5. ClientInv(c)'
  BY <1>4, CallTypes, LabelNames DEF ClientInv, HasConnection
<1>6. QED
  BY <1>3, <1>5

(* force_stop or restart begins, called by the program or by auto-restart. *)
LEMMA ForceStopStep ==
  ASSUME IInv, DaemonsKeep, NEW c \in Clients, NEW g \in {"stop", "restart", "auto"},
         ForceStop(c, g) \/ (g = "auto" /\ ExecuteFatalText(c))
  PROVE  ClientTypes' /\ OthersAlone(c) /\ ClientInv(c)'
<1>1. ClientTypes /\ HasConnection(c)
  BY InvByClient DEF ForceStop, ExecuteFatalText, HasConnection
<1>2. calls' \in 0..Budget /\ used' \in [Clients -> BOOLEAN] /\ UNCHANGED <<ts, conn>>
  <2>1. CASE ForceStop(c, g)
    BY <1>1, <2>1, BoundsAssumption DEF ForceStop, ClientTypes
  <2>2. CASE ExecuteFatalText(c)
    BY <1>1, <2>2, BoundsAssumption DEF ExecuteFatalText, ClientTypes
  <2>3. QED
    BY <2>1, <2>2
<1>3. NewCall(g) \in Calls /\ NewCall(g).goal # "connect"
  BY CallTypes DEF Goals
<1>4. cpc' = [cpc EXCEPT ![c] = "stop"] /\ call' = [call EXCEPT ![c] = NewCall(g)]
  BY DEF ForceStop, ExecuteFatalText, Goto
<1>5. QED
  BY <1>1, <1>2, <1>3, <1>4, LabelNames, GoesOn

(* A command, and the retry of one.                                        *)
LEMMA CommandSteps ==
  ASSUME IInv, DaemonsKeep, NEW c \in Clients, Execute(c) \/ Retry(c)
  PROVE  ClientTypes' /\ OthersAlone(c) /\ ClientInv(c)'
<1>1. ClientTypes /\ ClientInv(c) /\ HasConnection(c)
  BY InvByClient DEF Execute, Retry, HasConnection
<1>2. /\ call' = call /\ ts' = ts /\ conn' = conn
      /\ cpc' = [cpc EXCEPT ![c] = "ready"]
  BY <1>1 DEF Execute, Retry, Goto, ClientTypes
<1>3. used' \in [Clients -> BOOLEAN] /\ calls' \in 0..Budget
  <2>1. CASE Execute(c)
    BY <1>1, <2>1, BoundsAssumption DEF Execute, ClientTypes
  <2>2. CASE Retry(c)
    <3>1. Served(c) \in BOOLEAN
      BY DEF Served
    <3>2. used' = [used EXCEPT ![c] = used[c] \/ Served(c)] /\ calls' = calls
      BY <2>2 DEF Retry
    <3> HIDE DEF Served
    <3>3. (used[c] \/ Served(c)) \in BOOLEAN
      OBVIOUS
    <3>4. QED
      BY <1>1, <3>2, <3>3 DEF ClientTypes
  <2>3. QED
    BY <2>1, <2>2
<1>4. ClientTypes' /\ OthersAlone(c) /\ cpc'[c] = "ready"
  BY <1>1, <1>2, <1>3 DEF ClientTypes, OthersAlone, Labels
<1>5. ClientInv(c)'
  BY <1>1, <1>2, <1>4, LabelNames DEF ClientInv, HasConnection, DaemonsKeep
<1>6. QED
  BY <1>4, <1>5

-----------------------------------------------------------------------------
(* The invariant.                                                          *)

(* The invariant holds at the start ...                                    *)
LEMMA InvInit == Init => IInv
<1> SUFFICES ASSUME Init PROVE IInv
  OBVIOUS
<1> USE DEF Init
<1>1. binary \in Builds /\ build \in [Daemons -> Builds]
  OBVIOUS
<1>2. dstate \in [Daemons -> States] /\ FilesInv
  <2>1. PICK left \in {"none", "up", "killed", "exited"} :
          /\ left # "none" => MaxDaemons > 0
          /\ dstate = [d \in Daemons |-> IF d = 1 THEN left ELSE "none"]
          /\ sock = IF left \in {"up", "killed"} THEN 1 ELSE None
          /\ pidFile = sock
    OBVIOUS
  <2>2. left \in States /\ "none" \in States
    BY StateNames DEF States
  <2>3. QED
    <3>1. dstate \in [Daemons -> States]
      BY <2>1, <2>2
    <3>2. sock = None \/ (sock = 1 /\ 1 \in Daemons /\ dstate[1] # "none")
      BY <2>1, BoundsAssumption DEF Daemons
    <3>3. QED
      BY <2>1, <3>1, <3>2 DEF FilesInv, Born
<1>3. PidsInOrder
  <2>1. Born = {} \/ (Born = {1} /\ 1 \in Daemons)
    BY DEF Born
  <2>2. CASE Born = {}
    BY <2>2, FS_EmptySet DEF PidsInOrder
  <2>3. CASE Born = {1}
    <3>1. Cardinality({1}) = 1
      BY FS_Singleton
    <3>2. QED
      BY <2>3, <3>1 DEF PidsInOrder
  <2>4. QED
    BY <2>1, <2>2, <2>3
<1>4. ClientTypes
  <2>1. 1 \in Builds /\ 0 \in 0..Budget
    BY BoundsAssumption DEF Builds
  <2>2. QED
    BY <2>1, CallTypes DEF ClientTypes, Labels
<1>5. \A c \in Clients : ClientInv(c)
  BY CallTypes, LabelNames DEF ClientInv, HasConnection
<1>6. QED
  BY <1>1, <1>2, <1>3, <1>4, <1>5, InvByClient

(* InvByClient in the next state.                                          *)
LEMMA InvByClientNext ==
  /\ binary' \in Builds
  /\ FilesInv'
  /\ dstate' \in [Daemons -> States] /\ build' \in [Daemons -> Builds]
  /\ ClientTypes' /\ PidsInOrder' /\ (\A c \in Clients : ClientInv(c)')
  => IInv'
<1>1. Born' \subseteq Daemons /\ Settled' \subseteq Born'
  BY DEF Born, Settled
<1>2. FilesInv' => /\ sock' \in Daemons \cup {None} /\ pidFile' \in Daemons \cup {None, Blank}
                   /\ pidOpen' \subseteq Daemons /\ PidFileMatches'
  BY <1>1 DEF FilesInv, PidFileMatches
<1>3. QED
  BY <1>1, <1>2
  DEF IInv, TypeOK, ClientTypes, States, Labels, ClientInv, ConnectionsMatch, CallsMatch,
      StopsForGood, HasConnection

(* ... and every step keeps it.                                            *)
LEMMA InvNext == IInv /\ [Next]_vars => IInv'
<1> SUFFICES ASSUME IInv, [Next]_vars PROVE IInv'
  OBVIOUS
<1>1. /\ TypeOK /\ PidsInOrder /\ CallsMatch
      /\ binary \in Builds /\ FilesInv
      /\ ClientTypes
  BY InvByClient DEF IInv
<1>2. CASE ClientNext
  <2>1. DaemonsKeep
    BY <1>1, <1>2, ClientsKeep
  <2>2. PICK c \in Clients : \/ ClientStep(c) \/ Begin(c) \/ Execute(c) \/ ExecuteLost(c)
                             \/ ExecuteFatalText(c) \/ ForceStop(c, "stop")
                             \/ ForceStop(c, "restart") \/ Leave(c)
    BY <1>2 DEF ClientNext
  <2>3. ClientTypes' /\ OthersAlone(c) /\ ClientInv(c)'
    BY <2>1, <2>2, ConnectingSteps, EndingSteps, AnsweredStep, StoppingSteps, BeginStep,
       ForceStopStep, CommandSteps
    DEF ClientStep, ExecuteLost
  <2>4. \A e \in Clients : ClientInv(e)'
    BY <2>1, <2>3, ClientStays DEF OthersAlone
  <2>5. binary' \in Builds /\ FilesInv'
    <3>1. /\ binary' = binary /\ sock' \in {sock, None} /\ pidFile' \in {pidFile, None}
          /\ pidOpen' \in {pidOpen, {}}
      BY <2>2
      DEF ClientStep, Begin, Connect, Look, RemoveSocket, ReadPid, KillStale, RemovePid, Spawn,
          SpawnFails, Ready, ChildDied, LastAttemptFails, StartTimesOut, Answered,
          HandshakeLost, NoPidFile, InvalidPid, NotRunning, SendTerm, Terminated, TermTimesOut,
          CleanPid, CleanSocket, Retry, Execute, ExecuteLost, ExecuteFatalText, ForceStop,
          Leave, RemovePidFile, files, pids
    <3>2. QED
      BY <1>1, <2>1, <3>1 DEF FilesInv, DaemonsKeep
  <2>6. QED
    BY <2>1, <2>3, <2>4, <2>5, InvByClientNext DEF DaemonsKeep
<1>3. CASE DaemonNext
  <2>1. /\ DaemonsKeep /\ UNCHANGED <<binary, cpc, call, client>>
        /\ FilesInv'
    BY <1>1, <1>3, DaemonMoves DEF DaemonNext
  <2>2. ClientTypes' /\ \A c \in Clients : ClientInv(c)'
    BY <1>1, <2>1, ClientStays DEF client, ClientTypes
  <2>3. QED
    BY <1>1, <2>1, <2>2, InvByClientNext DEF DaemonsKeep
<1>4. CASE Rebuild \/ Done \/ UNCHANGED vars
  <2>1. /\ binary' \in Builds /\ UNCHANGED <<files, daemons, cpc, call, client>>
    BY <1>1, <1>4, BoundsAssumption DEF Rebuild, Done, vars, Builds
  <2>2. DaemonsKeep
    BY <1>1, <2>1, NoneMoves
  <2>3. ClientTypes' /\ \A c \in Clients : ClientInv(c)'
    BY <1>1, <2>1, <2>2, ClientStays DEF client, ClientTypes
  <2>4. FilesInv'
    BY <1>1, <2>1, <2>2 DEF files, pids, FilesInv, DaemonsKeep
  <2>5. QED
    BY <2>1, <2>2, <2>3, <2>4, InvByClientNext DEF DaemonsKeep
<1>5. QED
  BY <1>2, <1>3, <1>4 DEF Next

(* So it holds always.                                                     *)
LEMMA Invariance == Spec => []IInv
BY InvInit, InvNext, PTL DEF Spec

(* Every variable keeps its type (client.rs:87-612, server.rs:207-222).    *)
THEOREM Typing == Spec => []TypeOK
<1>1. IInv => TypeOK
  BY DEF IInv
<1>2. QED
  BY <1>1, Invariance, PTL

(* Any number of clients may start, kill and replace daemons while the     *)
(* executable is rebuilt: a client that got a connection has it to a       *)
(* daemon of its own build (client.rs:141-197, 497-515).                   *)
THEOREM VersionsAgree == Spec => []OwnVersion
<1>1. IInv => OwnVersion
  BY DEF IInv, OwnVersion, ConnectionsMatch, HasConnection
<1>2. QED
  BY <1>1, Invariance, PTL

(* When force_stop removes the files, the process it was to stop is dead,  *)
(* however the daemon takes its SIGTERM (client.rs:361-423).               *)
THEOREM StoppedForGood == Spec => []StopsForGood
<1>1. IInv => StopsForGood
  BY DEF IInv
<1>2. QED
  BY <1>1, Invariance, PTL

-----------------------------------------------------------------------------
(* Calls are bounded.                                                      *)

(* What one client may do.                                                 *)
Moves(c) == \/ ClientStep(c) \/ Begin(c) \/ Execute(c) \/ ExecuteLost(c) \/ ExecuteFatalText(c)
            \/ ForceStop(c, "stop") \/ ForceStop(c, "restart") \/ Leave(c)

(* In a step either no client moves or one does, and the others do not.    *)
LEMMA OneClientMoves ==
  ASSUME IInv, [Next]_vars
  PROVE  \/ UNCHANGED <<cpc, call>>
         \/ \E e \in Clients : Moves(e) /\ OthersAlone(e)
<1>1. CASE ~ClientNext
  BY <1>1
  DEF Next, DaemonNext, DaemonStep, ReadBuild, FindSocket, ClearSocket, Bind, Listen, Publish,
      WritePid, Leaves, LeavePid, LeaveSocket, Crash, Becomes, Rebuild, Done, vars
<1>2. CASE ClientNext
  <2>1. DaemonsKeep
    BY <1>2, ClientsKeep DEF IInv
  <2>2. PICK e \in Clients : Moves(e)
    BY <1>2 DEF ClientNext, Moves
  <2>3. OthersAlone(e)
    BY <2>1, <2>2, ConnectingSteps, EndingSteps, AnsweredStep, StoppingSteps, BeginStep,
       ForceStopStep, CommandSteps
    DEF Moves, ClientStep, ExecuteLost
  <2>4. QED
    BY <2>2, <2>3
<1>3. QED
  BY <1>1, <1>2

(* A client moves in a step of its own only.                               *)
LEMMA MovesItself ==
  ASSUME IInv, [Next]_vars, NEW c \in Clients, cpc'[c] # cpc[c]
  PROVE  Moves(c)
BY OneClientMoves DEF OthersAlone

(* FirstReason is kept.                                                    *)
LEMMA FirstReasonNext ==
  ASSUME IInv, FirstReason, [Next]_vars
  PROVE  FirstReason'
<1> SUFFICES ASSUME NEW c \in Clients, cpc'[c] \in {"connect", "look"}
             PROVE  call'[c].reason = "firstStart"
  BY DEF FirstReason
<1>1. cpc \in [Clients -> Labels] /\ call \in [Clients -> Calls]
  BY InvByClient DEF ClientTypes
<1>2. CASE UNCHANGED <<cpc, call>> \/ \E e \in Clients \ {c} : OthersAlone(e)
  BY <1>2 DEF FirstReason, OthersAlone
<1>3. CASE Begin(c)
  BY <1>1, <1>3 DEF Begin, Return, NoCall, NewCall
<1>4. CASE Connect(c)
  BY <1>1, <1>4 DEF Connect, Calls, FirstReason
<1>5. CASE Moves(c) /\ ~Begin(c) /\ ~Connect(c)
  <2>1. CASE \/ Look(c) \/ RemoveSocket(c) \/ ReadPid(c) \/ KillStale(c) \/ RemovePid(c)
             \/ Spawn(c) \/ SpawnFails(c) \/ Ready(c) \/ ChildDied(c) \/ LastAttemptFails(c)
             \/ StartTimesOut(c) \/ Answered(c) \/ HandshakeLost(c)
    BY <1>1, <2>1
    DEF Look, RemoveSocket, ReadPid, KillStale, RemovePid, Spawn, SpawnFails, Ready, ChildDied,
        LastAttemptFails, StartTimesOut, Answered, HandshakeLost, Fail, Return, Goto
  <2>2. CASE \/ NoPidFile(c) \/ InvalidPid(c) \/ NotRunning(c) \/ SendTerm(c) \/ Terminated(c)
             \/ TermTimesOut(c) \/ CleanPid(c) \/ CleanSocket(c) \/ Retry(c) \/ Leave(c)
    BY <1>1, <2>2
    DEF NoPidFile, InvalidPid, NotRunning, SendTerm, Terminated, TermTimesOut, CleanPid,
        CleanSocket, Retry, Leave, StopEnds, Return, Goto
  <2>3. CASE \/ Execute(c) \/ ExecuteLost(c) \/ ExecuteFatalText(c) \/ ForceStop(c, "stop")
             \/ ForceStop(c, "restart")
    BY <1>1, <2>3 DEF Execute, ExecuteLost, ExecuteFatalText, ForceStop, Goto
  <2>4. QED
    BY <1>5, <2>1, <2>2, <2>3 DEF Moves, ClientStep
<1>6. QED
  BY <1>2, <1>3, <1>4, <1>5, OneClientMoves

LEMMA FirstReasonInvariance == Spec => []FirstReason
<1>1. Init => FirstReason
  BY DEF Init, FirstReason
<1>2. QED
  BY <1>1, FirstReasonNext, Invariance, PTL DEF Spec

(* A call that goes on has steps left.                                     *)
LEMMA StepsAreLeft ==
  ASSUME IInv, NEW c \in Clients, cpc[c] \in Connecting \cup Stopping
  PROVE  StepsLeft(c) \in Nat /\ StepsLeft(c) > 0
<1>1. call[c].tries \in 0..2
  BY InvByClient, CallTypes DEF ClientTypes
<1>2. CASE cpc[c] \in Stopping
  BY <1>2 DEF StepsLeft, ToStop, Stopping
<1>3. CASE cpc[c] \in Connecting
  <2>1. ToStart(c) \in Nat /\ ToStart(c) > 0
    <3>1. CASE cpc[c] = "spawn"
      BY <1>1, <3>1 DEF ToStart
    <3>2. CASE cpc[c] = "await"
      BY <1>1, <3>2 DEF ToStart
    <3>3. CASE cpc[c] = "connect"
      BY <3>3 DEF ToStart
    <3>4. CASE cpc[c] = "look"
      BY <3>4 DEF ToStart
    <3>5. CASE cpc[c] = "unlink"
      BY <3>5 DEF ToStart
    <3>6. CASE cpc[c] = "kill"
      BY <3>6 DEF ToStart
    <3>7. CASE cpc[c] = "unpid"
      BY <3>7 DEF ToStart
    <3>8. CASE cpc[c] = "timedOut"
      BY <3>8 DEF ToStart
    <3>9. CASE cpc[c] = "signal"
      BY <3>9 DEF ToStart
    <3>10. CASE cpc[c] = "handshake"
      BY <3>10 DEF ToStart
    <3>11. QED
      BY <1>3, <3>1, <3>2, <3>3, <3>4, <3>5, <3>6, <3>7, <3>8, <3>9, <3>10, LabelNames
  <2>2. QED
    BY <1>3, <2>1, LabelNames DEF StepsLeft
<1>4. QED
  BY <1>2, <1>3

(* Every step of a call leaves fewer.                                      *)
LEMMA StepsFewer ==
  ASSUME IInv, FirstReason, [Next]_vars, NEW c \in Clients,
         cpc[c] \in Connecting \cup Stopping, cpc'[c] # cpc[c]
  PROVE  StepsLeft(c)' < StepsLeft(c)
<1>1. /\ cpc \in [Clients -> Labels] /\ call \in [Clients -> Calls] /\ call[c] \in Calls
      /\ call[c].tries \in 0..2
  BY InvByClient, CallTypes DEF ClientTypes
<1>2. CASE cpc'[c] \notin Connecting \cup Stopping
  BY <1>2, StepsAreLeft DEF StepsLeft
<1>3. CASE cpc'[c] \in Connecting \cup Stopping
  <2>1. ClientStep(c) \/ Leave(c)
    BY <1>2, MovesItself, LabelNames
    DEF Moves, Begin, Execute, ExecuteLost, ExecuteFatalText, ForceStop
  <2>2. CASE Connect(c) \/ Look(c) \/ Ready(c)
    <3>1. call'[c].tries = call[c].tries /\ (Decisive(c) => Decisive(c)')
      <4>1. CASE Connect(c)
        BY <1>1, <4>1 DEF Connect, Decisive, Calls
      <4>2. CASE Look(c)
        BY <1>1, <4>2 DEF Look, Decisive, FirstReason, Calls
      <4>3. CASE Ready(c)
        BY <1>1, <4>3 DEF Ready, Decisive, Calls
      <4>4. QED
        BY <2>2, <4>1, <4>2, <4>3
    <3>2. \/ cpc[c] = "connect" /\ cpc'[c] \in {"handshake", "look"}
          \/ cpc[c] = "look" /\ cpc'[c] \in {"kill", "unlink"}
          \/ cpc[c] = "await" /\ cpc'[c] = "handshake"
      BY <1>1, <2>2 DEF Connect, Look, Ready, Goto
    <3>3. QED
      BY <1>1, <3>1, <3>2 DEF StepsLeft, ToStart, Connecting, Stopping
  <2>3. CASE \/ RemoveSocket(c) \/ ReadPid(c) \/ KillStale(c) \/ RemovePid(c) \/ Spawn(c)
             \/ LastAttemptFails(c)
    <3>1. call'[c].tries = call[c].tries /\ (Decisive(c) => Decisive(c)')
      BY <1>1, <2>3
      DEF RemoveSocket, ReadPid, KillStale, RemovePid, Spawn, LastAttemptFails, Decisive, Calls
    <3>2. \/ cpc[c] = "unlink" /\ cpc'[c] = "kill"
          \/ cpc[c] = "kill" /\ cpc'[c] \in {"signal", "unpid"}
          \/ cpc[c] = "signal" /\ cpc'[c] = "unpid"
          \/ cpc[c] = "unpid" /\ cpc'[c] = "spawn"
          \/ cpc[c] = "spawn" /\ cpc'[c] = "await"
          \/ cpc[c] = "await" /\ cpc'[c] = "timedOut"
      BY <1>1, <2>3
      DEF RemoveSocket, ReadPid, KillStale, RemovePid, Spawn, LastAttemptFails, Goto
    <3>3. QED
      BY <1>1, <3>1, <3>2 DEF StepsLeft, ToStart, Connecting, Stopping
  <2>4. CASE ChildDied(c)
    <3>1. /\ cpc[c] = "await" /\ cpc'[c] = "spawn" /\ call'[c].tries = call[c].tries + 1
          /\ Decisive(c) => Decisive(c)'
      BY <1>1, <1>3, <2>4, LabelNames DEF ChildDied, Fail, Return, Goto, Decisive, Calls
    <3>2. QED
      BY <1>1, <3>1 DEF StepsLeft, ToStart, Connecting, Stopping
  <2>5. CASE Answered(c)
    <3>1. /\ cpc[c] = "handshake" /\ cpc'[c] = "unlink" /\ ~Decisive(c)
          /\ call'[c].reason = "binaryUpdated"
      BY <1>1, <1>3, <2>5, LabelNames DEF Answered, Fail, Return, Goto, Decisive, Calls
    <3>2. Decisive(c)'
      BY <3>1 DEF Decisive
    <3>3. QED
      BY <1>1, <3>1, <3>2 DEF StepsLeft, ToStart, Connecting, Stopping
  <2>6. CASE InvalidPid(c) \/ CleanSocket(c)
    <3>1. /\ cpc[c] \in {"stop", "cleanSocket"} /\ cpc'[c] = "unlink"
          /\ call'[c].goal = call[c].goal
      BY <1>1, <1>3, <2>6, LabelNames DEF InvalidPid, CleanSocket, StopEnds, Return, Goto, Calls
    <3>2. Decisive(c)'
      BY <3>1, InvByClient, LabelNames DEF Decisive, ClientInv
    <3>3. QED
      BY <3>1, <3>2 DEF StepsLeft, ToStart, ToStop, Connecting, Stopping
  <2>7. CASE \/ NoPidFile(c) \/ NotRunning(c) \/ SendTerm(c)
             \/ Terminated(c) \/ TermTimesOut(c) \/ CleanPid(c)
    <3>1. \/ cpc[c] = "stop" /\ cpc'[c] \in {"stopping", "clean", "cleanSocket"}
          \/ cpc[c] = "stopping" /\ cpc'[c] = "clean"
          \/ cpc[c] = "clean" /\ cpc'[c] = "cleanSocket"
      BY <1>1, <2>7 DEF NoPidFile, NotRunning, SendTerm, Terminated, TermTimesOut, CleanPid, Goto
    <3>2. QED
      BY <3>1 DEF StepsLeft, ToStop, Stopping
  <2>8. CASE SpawnFails(c) \/ StartTimesOut(c) \/ HandshakeLost(c) \/ Retry(c) \/ Leave(c)
    <3>1. cpc'[c] \in {"ready", "over"}
      BY <1>1, <2>8 DEF SpawnFails, StartTimesOut, HandshakeLost, Retry, Leave, Fail, Return, Goto
    <3>2. QED
      BY <1>3, <3>1, LabelNames
  <2>9. QED
    BY <2>1, <2>2, <2>3, <2>4, <2>5, <2>6, <2>7, <2>8 DEF ClientStep
<1>4. QED
  BY <1>2, <1>3

(* Any number of clients of any number of builds may restart, stop and     *)
(* replace each other's daemons: no call goes on for ever by its own doing. *)
(* connect and execute_command's restart take 28 steps at most             *)
(* (client.rs:87-423, 584-612).                                            *)
THEOREM NoEndlessCall == Spec => CallsBounded
<1>1. IInv /\ FirstReason /\ [Next]_vars
      => [\A c \in Clients : cpc[c] \in Connecting \cup Stopping /\ cpc'[c] # cpc[c]
                             => StepsLeft(c)' < StepsLeft(c)]_vars
  BY StepsFewer
<1>2. QED
  BY <1>1, Invariance, FirstReasonInvariance, PTL DEF Spec, CallsBounded
=============================================================================
