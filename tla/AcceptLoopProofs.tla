-------------------------- MODULE AcceptLoopProofs --------------------------
(***************************************************************************)
(* Proofs about AcceptLoop, for every value of its constants.              *)
(***************************************************************************)
EXTENDS AcceptLoopInv, FiniteSetTheorems, SequenceTheorems, TLAPS

(* The part of TypeOK that does not speak of the permits.                  *)
TypeRest ==
  /\ lpc \in {"accepting", "backoff", "returned", "exited"}
  /\ shutdown \in {"open", "sent", "dropped"}
  /\ fatal \in BOOLEAN /\ faults \in 0..MaxFaults
  /\ backlog \in Seq(Clients)
  /\ client \in [Clients -> {"away", "waiting", "greeted", "refused", "gone"}]
  /\ asked \in [Clients -> BOOLEAN]
  /\ task \in [Clients -> Serving \cup {"none", "over"}]
  /\ handler \in [Clients -> {"none", "running", "aborting", "over"}]

RestInv == TypeRest /\ BacklogInv /\ TaskInv

(* A set of clients has a cardinality.                                     *)
LEMMA ClientSets ==
  ASSUME NEW T \in SUBSET Clients
  PROVE  IsFiniteSet(T) /\ Cardinality(T) \in Nat
BY ClientsAssumption, FS_Subset, FS_CardinalityType

(* What one connection task's step does to the number of live tasks.       *)
LEMMA LiveCount ==
  ASSUME task \in [Clients -> Serving \cup {"none", "over"}],
         NEW c \in Clients, NEW v \in Serving \cup {"none", "over"},
         task' = [task EXCEPT ![c] = v]
  PROVE  /\ task[c] \notin Serving /\ v \in Serving =>
              Cardinality(Live') = Cardinality(Live) + 1
         /\ task[c] \in Serving /\ v \notin Serving =>
              Cardinality(Live') = Cardinality(Live) - 1
         /\ task[c] \in Serving /\ v \in Serving => Live' = Live
<1>1. IsFiniteSet(Live)
  BY ClientSets DEF Live
<1>2. ASSUME task[c] \notin Serving, v \in Serving
      PROVE  Cardinality(Live') = Cardinality(Live) + 1
  <2>1. Live' = Live \cup {c} /\ c \notin Live
    BY <1>2 DEF Live
  <2>2. QED
    BY <1>1, <2>1, FS_AddElement
<1>3. ASSUME task[c] \in Serving, v \notin Serving
      PROVE  Cardinality(Live') = Cardinality(Live) - 1
  <2>1. Live' = Live \ {c} /\ c \in Live
    BY <1>3 DEF Live
  <2>2. QED
    BY <1>1, <2>1, FS_RemoveElement
<1>4. ASSUME task[c] \in Serving, v \in Serving
      PROVE  Live' = Live
  BY <1>4 DEF Live
<1>5. QED
  BY <1>2, <1>3, <1>4

(* Taking the oldest connection off the queue, and adding one to it.       *)
LEMMA BacklogTail ==
  ASSUME backlog \in Seq(Clients), backlog # <<>>
  PROVE  /\ Head(backlog) = backlog[1] /\ 1 \in 1..Len(backlog)
         /\ Tail(backlog) \in Seq(Clients) /\ Len(Tail(backlog)) = Len(backlog) - 1
         /\ \A i \in 1..Len(Tail(backlog)) : /\ Tail(backlog)[i] = backlog[i + 1]
                                             /\ i + 1 \in 1..Len(backlog)
OBVIOUS

LEMMA BacklogAppend ==
  ASSUME backlog \in Seq(Clients), NEW c \in Clients
  PROVE  /\ Append(backlog, c) \in Seq(Clients)
         /\ Len(Append(backlog, c)) = Len(backlog) + 1
         /\ \A i \in 1..(Len(backlog) + 1) :
              Append(backlog, c)[i] = IF i <= Len(backlog) THEN backlog[i] ELSE c
OBVIOUS

(* The elements of the queue are clients.                                  *)
LEMMA BacklogElements ==
  ASSUME backlog \in Seq(Clients)
  PROVE  \A i \in 1..Len(backlog) : backlog[i] \in Clients
OBVIOUS

-----------------------------------------------------------------------------
(* Everything but the permits.                                             *)

LEMMA RestInit == Init => RestInv
<1> SUFFICES ASSUME Init PROVE RestInv
  OBVIOUS
<1>1. backlog \in Seq(Clients) /\ Len(backlog) = 0
  BY DEF Init
<1>2. TypeRest
  <2>1. faults \in 0..MaxFaults
    BY LimitAssumption DEF Init
  <2>2. asked \in [Clients -> BOOLEAN] /\ fatal \in BOOLEAN
    BY DEF Init
  <2>3. QED
    BY <1>1, <2>1, <2>2 DEF Init, TypeRest
<1>3. BacklogInv
  BY <1>1 DEF BacklogInv
<1>4. TaskInv
  BY DEF Init, TaskInv
<1>5. QED
  BY <1>2, <1>3, <1>4 DEF RestInv

LEMMA RestClients ==
  ASSUME RestInv, ClientNext
  PROVE  RestInv'
<1> PICK c \in Clients : Connect(c) \/ Ask(c) \/ Leave(c)
  BY DEF ClientNext
<1> USE DEF RestInv, loopVars, taskVars
<1>1. CASE Connect(c)
  <2>1. CASE Stopped
    BY <1>1, <2>1 DEF Connect, TypeRest, BacklogInv, TaskInv
  <2>2. CASE ~Stopped
    <3>1. \A i \in 1..Len(backlog) : backlog[i] # c /\ backlog[i] \in Clients
      BY <1>1, BacklogElements DEF Connect, BacklogInv, TypeRest
    <3>2. /\ backlog' = Append(backlog, c) /\ client' = [client EXCEPT ![c] = "waiting"]
          /\ UNCHANGED <<lpc, shutdown, fatal, faults, taskVars>>
      BY <1>1, <2>2 DEF Connect
    <3>3. /\ backlog' \in Seq(Clients) /\ Len(backlog') = Len(backlog) + 1
          /\ \A i \in 1..(Len(backlog) + 1) :
               backlog'[i] = IF i <= Len(backlog) THEN backlog[i] ELSE c
      BY <3>2, BacklogAppend DEF TypeRest
    <3>4. TypeRest'
      BY <3>2, <3>3 DEF TypeRest
    <3>5. task[c] = "none" /\ Len(backlog) \in Nat
      BY <1>1 DEF Connect, TaskInv, TypeRest
    <3>6. BacklogInv'
      BY <3>1, <3>2, <3>3, <3>5 DEF TypeRest, BacklogInv
    <3>7. TaskInv'
      BY <1>1, <2>2 DEF Connect, TypeRest, TaskInv
    <3>8. QED
      BY <3>4, <3>6, <3>7
  <2>3. QED
    BY <2>1, <2>2
<1>2. CASE Ask(c)
  BY <1>2 DEF Ask, TypeRest, BacklogInv, TaskInv
<1>3. CASE Leave(c)
  BY <1>3, BacklogElements DEF Leave, TypeRest, BacklogInv, TaskInv
<1>4. QED
  BY <1>1, <1>2, <1>3

LEMMA RestLoop ==
  ASSUME RestInv, LoopNext
  PROVE  RestInv'
<1> USE DEF RestInv, taskVars
<1>1. CASE Accept
  <2>1. Head(backlog) \in Clients /\ task[Head(backlog)] = "none"
        /\ client[Head(backlog)] # "away"
    BY <1>1, BacklogTail, BacklogElements DEF Accept, TypeRest, BacklogInv
  <2>2. TypeRest'
    BY <1>1, <2>1, BacklogTail DEF Accept, TypeRest, Serving
  <2>3. BacklogInv'
    BY <1>1, <2>1, BacklogTail, BacklogElements DEF Accept, TypeRest, BacklogInv
  <2>4. TaskInv'
    BY <1>1, <2>1 DEF Accept, TypeRest, TaskInv
  <2>5. QED
    BY <2>2, <2>3, <2>4
<1>2. CASE Reject
  <2>1. TypeRest' /\ TaskInv'
    BY <1>2, BacklogTail DEF Reject, Refuse, TypeRest, TaskInv
  <2>2. BacklogInv'
    BY <1>2, BacklogTail, BacklogElements DEF Reject, Refuse, TypeRest, BacklogInv
  <2>3. QED
    BY <2>1, <2>2
<1>3. CASE AcceptFails
  BY <1>3, LimitAssumption DEF AcceptFails, TypeRest, BacklogInv, TaskInv
<1>4. CASE BackoffEnds
  BY <1>4 DEF BackoffEnds, TypeRest, BacklogInv, TaskInv
<1>5. CASE AcceptFailsFatally \/ SeeShutdown
  <2>1. backlog' = <<>> /\ lpc' = "returned" /\ fatal' \in BOOLEAN
        /\ UNCHANGED <<shutdown, faults, asked, task, handler>>
    BY <1>5 DEF AcceptFailsFatally, SeeShutdown, Return, TypeRest
  <2>2. /\ client' \in [Clients -> {"away", "waiting", "greeted", "refused", "gone"}]
        /\ \A c \in Clients : client'[c] = "away" => client[c] = "away"
    BY <1>5 DEF AcceptFailsFatally, SeeShutdown, Return, Refuse, TypeRest
  <2>3. TypeRest' /\ BacklogInv'
    BY <2>1, <2>2 DEF TypeRest, BacklogInv
  <2>4. TaskInv'
    BY <2>1, <2>2 DEF TaskInv
  <2>5. QED
    BY <2>3, <2>4
<1>6. CASE RuntimeDrops
  <2>1. TypeRest'
    BY <1>6 DEF RuntimeDrops, Refuse, TypeRest
  <2>2. BacklogInv'
    BY <1>6, BacklogElements DEF RuntimeDrops, Refuse, TypeRest, BacklogInv, Live, Serving
  <2>3. TaskInv'
    BY <1>6 DEF RuntimeDrops, Refuse, TypeRest, TaskInv, Live, Serving
  <2>4. QED
    BY <2>1, <2>2, <2>3
<1>7. CASE \E how \in {"sent", "dropped"} : Shutdown(how)
  BY <1>7 DEF Shutdown, TypeRest, BacklogInv, TaskInv
<1>8. QED
  BY <1>1, <1>2, <1>3, <1>4, <1>5, <1>6, <1>7 DEF LoopNext

(* A step of a task leaves the loop alone and does not make a task of a    *)
(* connection that has none.                                               *)
LEMMA RestTasks ==
  ASSUME RestInv, TaskNext
  PROVE  RestInv'
<1> PICK c \in Clients : TaskStep(c) \/ NoticeGone(c) \/ HandlerEnds(c) \/ AbortLands(c)
  BY DEF TaskNext
<1>1. /\ UNCHANGED loopVars /\ TypeRest'
      /\ \A d \in Clients : /\ task[d] = "none" => task'[d] = "none"
                            /\ client[d] # "away" => client'[d] # "away"
  BY DEF RestInv, TypeRest, TaskInv, Serving, loopVars, TaskStep, Greet, GreetMismatch,
         NothingReceived, Start, HandlerEnds, Finish, LingerEnds, NoticeGone, HandlerStops,
         GraceExpires, AbortLands, TaskOver
<1>2. BacklogInv'
  BY <1>1, BacklogElements DEF RestInv, TypeRest, BacklogInv, loopVars
<1>3. TaskInv'
  <2> USE DEF RestInv, TypeRest, TaskInv, TaskOver
  <2>1. CASE Greet(c) \/ GreetMismatch(c) \/ NothingReceived(c)
    BY <2>1 DEF Greet, GreetMismatch, NothingReceived
  <2>2. CASE Start(c) \/ Finish(c) \/ LingerEnds(c)
    BY <2>2 DEF Start, Finish, LingerEnds
  <2>3. CASE NoticeGone(c) \/ HandlerStops(c) \/ GraceExpires(c)
    BY <2>3 DEF NoticeGone, HandlerStops, GraceExpires
  <2>4. CASE HandlerEnds(c) \/ AbortLands(c)
    BY <2>4 DEF HandlerEnds, AbortLands
  <2>5. QED
    BY <2>1, <2>2, <2>3, <2>4 DEF TaskStep
<1>4. QED
  BY <1>1, <1>2, <1>3 DEF RestInv

-----------------------------------------------------------------------------
(* The permits. A step that leaves the tasks alone leaves the permits      *)
(* alone; the others are those of LiveCount, and the end of the runtime.   *)

PermitsInv == permits \in Nat /\ PermitsMatch

LEMMA PermitsInit == Init => PermitsInv
<1> SUFFICES ASSUME Init PROVE PermitsInv
  OBVIOUS
<1>1. Live = {}
  BY DEF Init, Live, Serving
<1>2. QED
  BY <1>1, FS_EmptySet, LimitAssumption DEF Init, PermitsInv, PermitsMatch

LEMMA PermitsKept ==
  ASSUME PermitsInv, UNCHANGED <<task, permits>>
  PROVE  PermitsInv'
BY DEF PermitsInv, PermitsMatch, Live

LEMMA PermitsLoop ==
  ASSUME RestInv, PermitsInv, LoopNext
  PROVE  PermitsInv'
<1>1. CASE Accept
  <2>1. /\ Head(backlog) \in Clients /\ task[Head(backlog)] = "none"
        /\ task' = [task EXCEPT ![Head(backlog)] = "greeting"]
        /\ permits' = permits - 1 /\ permits > 0
    BY <1>1, BacklogTail, BacklogElements DEF Accept, RestInv, TypeRest, BacklogInv
  <2>2. Cardinality(Live') = Cardinality(Live) + 1
    BY <2>1, LiveCount DEF RestInv, TypeRest, Serving
  <2>3. Cardinality(Live) \in Nat
    BY ClientSets DEF Live
  <2>4. QED
    BY <2>1, <2>2, <2>3, LimitAssumption DEF PermitsInv, PermitsMatch
<1>2. CASE RuntimeDrops
  <2>1. Live' = {} /\ permits' = MaxConnections
    BY <1>2 DEF RuntimeDrops, Live, Serving, RestInv, TypeRest
  <2>2. QED
    BY <2>1, FS_EmptySet, LimitAssumption DEF PermitsInv, PermitsMatch
<1>3. CASE ~Accept /\ ~RuntimeDrops
  <2>1. UNCHANGED <<task, permits>>
    BY <1>3 DEF LoopNext, Reject, AcceptFails, BackoffEnds, AcceptFailsFatally, SeeShutdown,
                Return, Shutdown, taskVars
  <2>2. QED
    BY <2>1, PermitsKept
<1>4. QED
  BY <1>1, <1>2, <1>3

LEMMA PermitsTasks ==
  ASSUME RestInv, PermitsInv, TaskNext
  PROVE  PermitsInv'
<1> PICK c \in Clients : TaskStep(c) \/ NoticeGone(c) \/ HandlerEnds(c) \/ AbortLands(c)
  BY DEF TaskNext
<1>1. Cardinality(Live) \in Nat
  BY ClientSets DEF Live
<1>2. ASSUME task[c] \in Serving, TaskOver(c)
      PROVE  PermitsInv'
  <2>1. /\ task' = [task EXCEPT ![c] = "over"] /\ "over" \notin Serving
        /\ task \in [Clients -> Serving \cup {"none", "over"}]
    BY <1>2 DEF RestInv, TypeRest, Serving, TaskOver
  <2>2. Cardinality(Live') = Cardinality(Live) - 1
    BY <1>2, <2>1, LiveCount
  <2>3. QED
    BY <1>1, <1>2, <2>2, LimitAssumption DEF PermitsInv, PermitsMatch, TaskOver
<1>3. ASSUME NEW v \in Serving, task[c] \in Serving, task' = [task EXCEPT ![c] = v],
             UNCHANGED permits
      PROVE  PermitsInv'
  <2>1. Live' = Live
    BY <1>3, LiveCount DEF RestInv, TypeRest, Serving
  <2>2. QED
    BY <1>3, <2>1 DEF PermitsInv, PermitsMatch
<1>4. \/ task[c] \in Serving /\ TaskOver(c)
      \/ \E v \in Serving : /\ task[c] \in Serving /\ task' = [task EXCEPT ![c] = v]
                            /\ UNCHANGED permits
      \/ UNCHANGED <<task, permits>>
  BY DEF Serving, TaskStep, Greet, GreetMismatch, NothingReceived, Start, HandlerEnds, Finish,
         LingerEnds, NoticeGone, HandlerStops, GraceExpires, AbortLands
<1>5. QED
  BY <1>2, <1>3, <1>4, PermitsKept

-----------------------------------------------------------------------------
(* The inductive invariant.                                                *)

LEMMA Parts == IInv <=> RestInv /\ PermitsInv
<1>1. Cardinality(Live) \in Nat
  BY ClientSets DEF Live
<1>2. PermitsInv => permits \in 0..MaxConnections
  BY <1>1, LimitAssumption DEF PermitsInv, PermitsMatch
<1>3. TypeOK <=> TypeRest /\ permits \in 0..MaxConnections
  BY DEF TypeOK, TypeRest
<1>4. permits \in 0..MaxConnections => permits \in Nat
  BY LimitAssumption
<1>5. QED
  BY <1>2, <1>3, <1>4 DEF IInv, RestInv, PermitsInv

LEMMA Inductive == Spec => []IInv
<1>1. Init => RestInv /\ PermitsInv
  BY RestInit, PermitsInit
<1>2. RestInv /\ PermitsInv /\ [Next]_vars => (RestInv /\ PermitsInv)'
  <2> SUFFICES ASSUME RestInv, PermitsInv, [Next]_vars
               PROVE  RestInv' /\ PermitsInv'
    OBVIOUS
  <2>1. CASE ClientNext
    <3>1. UNCHANGED <<task, permits>>
      BY <2>1 DEF ClientNext, Connect, Ask, Leave, taskVars
    <3>2. QED
      BY <2>1, <3>1, RestClients, PermitsKept
  <2>2. CASE LoopNext
    BY <2>2, RestLoop, PermitsLoop
  <2>3. CASE TaskNext
    BY <2>3, RestTasks, PermitsTasks
  <2>4. CASE UNCHANGED vars
    BY <2>4 DEF vars, loopVars, taskVars, RestInv, TypeRest, BacklogInv, TaskInv,
                PermitsInv, PermitsMatch, Live
  <2>5. QED
    BY <2>1, <2>2, <2>3, <2>4 DEF Next, Done
<1>3. Spec => [](RestInv /\ PermitsInv)
  BY <1>1, <1>2, PTL DEF Spec
<1>4. QED
  BY <1>3, Parts, PTL

-----------------------------------------------------------------------------
(* Every variable keeps its type: in particular a permit is never returned *)
(* twice, which would raise the limit of the daemon for good.              *)
THEOREM Typing == Spec => []TypeOK
<1>1. IInv => TypeOK
  BY DEF IInv
<1>2. QED
  BY <1>1, Inductive, PTL

(* For any number of clients and any limit, no more than max_connections   *)
(* connections are served at a time.                                       *)
THEOREM LimitKept == Spec => []ConnectionsWithinLimit
<1>1. IInv => ConnectionsWithinLimit
  <2> SUFFICES ASSUME IInv PROVE ConnectionsWithinLimit
    OBVIOUS
  <2>1. Cardinality(Live) \in Nat /\ permits \in Nat
    BY Parts, ClientSets DEF Live, PermitsInv
  <2>2. permits + Cardinality(Live) = MaxConnections
    BY DEF IInv, PermitsMatch
  <2>3. QED
    BY <2>1, <2>2, LimitAssumption DEF ConnectionsWithinLimit
<1>2. QED
  BY <1>1, Inductive, PTL

(* For any number of clients and any limit, no more than max_connections   *)
(* handlers run that are not being aborted: each has a live task.          *)
THEOREM ExecutionsLimited == Spec => []ExecutionsWithinLimit
<1>1. IInv => ExecutionsWithinLimit
  <2> SUFFICES ASSUME IInv PROVE ExecutionsWithinLimit
    OBVIOUS
  <2> DEFINE Executing == {c \in Clients : handler[c] = "running"}
  <2>1. Executing \subseteq Live
    BY DEF IInv, TypeOK, TaskInv, Live, Serving
  <2>2. IsFiniteSet(Live) /\ Cardinality(Live) \in Nat
    BY ClientSets DEF Live
  <2>3. Cardinality(Executing) <= Cardinality(Live) /\ Cardinality(Executing) \in Nat
    BY <2>1, <2>2, FS_Subset, FS_CardinalityType
  <2>4. permits + Cardinality(Live) = MaxConnections /\ permits \in Nat
    BY Parts, <2>2 DEF PermitsInv, IInv, PermitsMatch, TypeOK
  <2>5. QED
    BY <2>2, <2>3, <2>4, LimitAssumption DEF ExecutionsWithinLimit
<1>2. QED
  BY <1>1, Inductive, PTL

(* A running daemon turns a client away only when max_connections others   *)
(* are being served: no way out of a connection task loses its permit.     *)
THEOREM NoPermitLost == Spec => RefusedOnlyAtCapacity
<1> DEFINE Fair == \A c \in Clients : /\ client[c] = "waiting" /\ client'[c] = "refused"
                                      /\ ~Stopped'
                                      => Cardinality(Live) = MaxConnections
<1>1. IInv /\ [Next]_vars => [Fair]_vars
  <2> SUFFICES ASSUME IInv, Next PROVE Fair
    OBVIOUS
  <2>1. RestInv /\ TypeRest
    BY Parts DEF RestInv
  <2>2. CASE Reject
    <3>1. Cardinality(Live) \in Nat /\ permits = 0
      BY <2>2, ClientSets DEF Reject, Live
    <3>2. QED
      BY <3>1, LimitAssumption DEF IInv, PermitsMatch
  <2>3. ASSUME ~Reject, NEW c \in Clients, client[c] = "waiting", client'[c] = "refused"
        PROVE  Stopped'
    <3>1. CASE ClientNext
      BY <2>1, <2>3, <3>1 DEF ClientNext, Connect, Ask, Leave, TypeRest
    <3>2. CASE LoopNext
      BY <2>1, <2>3, <3>2 DEF LoopNext, Accept, AcceptFails, BackoffEnds, AcceptFailsFatally,
         SeeShutdown, Return, RuntimeDrops, Shutdown, TypeRest, Stopped
    <3>3. CASE TaskNext
      BY <2>1, <2>3, <3>3 DEF TaskNext, TaskStep, Greet, GreetMismatch, NothingReceived, Start,
         HandlerEnds, Finish, LingerEnds, NoticeGone, HandlerStops, GraceExpires, AbortLands,
         TypeRest
    <3>4. CASE Done
      BY <2>3, <3>4 DEF Done, vars
    <3>5. QED
      BY <3>1, <3>2, <3>3, <3>4 DEF Next
  <2>4. QED
    BY <2>2, <2>3
<1>2. QED
  BY <1>1, Inductive, PTL DEF Spec, RefusedOnlyAtCapacity

(* Whatever the other connections and the loop do, each connection is      *)
(* served as ServeTask says.                                               *)
THEOREM ServedWell == Spec => TasksServe
<1> DEFINE Step(c) == [ServedAs(c)!Next]_(ServedAs(c)!serveVars)
<1> USE DEF ServedAs!serveVars
<1>1. Init => \A c \in Clients : ServedAs(c)!Init
  BY DEF Init, ServedAs!Init
<1>2. IInv /\ [Next]_vars => [\A c \in Clients : Step(c)]_vars
  <2> SUFFICES ASSUME IInv, Next, NEW c \in Clients PROVE Step(c)
    OBVIOUS
  <2> USE DEF TypeOK, Serving
  <2>1. TypeOK /\ TaskInv
    BY DEF IInv
  <2>2. CASE ClientNext
    BY <2>1, <2>2 DEF ClientNext, Connect, Ask, Leave, taskVars, ServedAs!Next, ServedAs!Leave
  <2>3. CASE LoopNext
    <3>1. client'[c] = "gone" <=> client[c] = "gone"
      BY <2>1, <2>3 DEF LoopNext, Accept, Reject, AcceptFails, BackoffEnds, AcceptFailsFatally,
         SeeShutdown, Return, RuntimeDrops, Shutdown, Refuse, taskVars
    <3>2. CASE Accept
      <4>1. Head(backlog) \in Clients /\ task[Head(backlog)] = "none"
        BY <2>1, <3>2, BacklogTail, BacklogElements DEF Accept, IInv, BacklogInv
      <4>2. /\ handler' = handler
            /\ task'[c] = IF c = Head(backlog) THEN "greeting" ELSE task[c]
        BY <2>1, <3>2 DEF Accept
      <4>3. QED
        BY <3>1, <4>1, <4>2
    <3>3. CASE RuntimeDrops
      <4>1. /\ task'[c] = IF task[c] \in Serving THEN "over" ELSE task[c]
            /\ handler'[c] = IF handler[c] = "none" THEN "none" ELSE "over"
        BY <3>3 DEF RuntimeDrops, Live
      <4>2. QED
        BY <2>1, <3>1, <4>1 DEF TaskInv, ServedAs!Next, ServedAs!Vanish, ServedAs!HandlerEnds
    <3>4. CASE ~Accept /\ ~RuntimeDrops
      <4>1. UNCHANGED <<task, handler>>
        BY <2>3, <3>4 DEF LoopNext, Reject, AcceptFails, BackoffEnds, AcceptFailsFatally,
           SeeShutdown, Return, Shutdown, taskVars
      <4>2. QED
        BY <3>1, <4>1
    <3>5. QED
      BY <3>2, <3>3, <3>4
  <2>4. CASE TaskNext
    <3> PICK d \in Clients : TaskStep(d) \/ NoticeGone(d) \/ HandlerEnds(d) \/ AbortLands(d)
      BY <2>4 DEF TaskNext
    <3>1. CASE d # c
      <4>1. task'[c] = task[c] /\ handler'[c] = handler[c] /\ client'[c] = client[c]
        BY <2>1, <3>1 DEF TaskStep, Greet, GreetMismatch, NothingReceived, Start, HandlerEnds,
           Finish, LingerEnds, NoticeGone, HandlerStops, GraceExpires, AbortLands, TaskOver
      <4>2. QED
        BY <4>1
    <3>2. CASE d = c
      <4> USE <2>1, <3>2 DEF TaskInv, TaskOver, ServedAs!Next
      <4>1. CASE Greet(c) \/ GreetMismatch(c) \/ NothingReceived(c)
        BY <4>1 DEF Greet, GreetMismatch, NothingReceived, ServedAs!Greet, ServedAs!Dismiss
      <4>2. CASE Start(c) \/ Finish(c) \/ LingerEnds(c)
        BY <4>2 DEF Start, Finish, LingerEnds, ServedAs!Start, ServedAs!Finish, ServedAs!Quit
      <4>3. CASE NoticeGone(c) \/ HandlerStops(c) \/ GraceExpires(c)
        BY <4>3 DEF NoticeGone, HandlerStops, GraceExpires, ServedAs!NoticeGone, ServedAs!Quit
      <4>4. CASE HandlerEnds(c) \/ AbortLands(c)
        BY <4>4 DEF HandlerEnds, AbortLands, ServedAs!HandlerEnds
      <4>5. QED
        BY <4>1, <4>2, <4>3, <4>4 DEF TaskStep
    <3>3. QED
      BY <3>1, <3>2
  <2>5. CASE Done
    BY <2>5 DEF Done, vars, taskVars
  <2>6. QED
    BY <2>2, <2>3, <2>4, <2>5 DEF Next
<1>3. QED
  BY <1>1, <1>2, Inductive, PTL DEF Spec, TasksServe

-----------------------------------------------------------------------------
(* No client that waits is forgotten.                                      *)

(* What a step that takes nobody off the queue may do: waiting clients     *)
(* have waited, and a task that is to greet one keeps being so.            *)
LEMMA StillKnown ==
  ASSUME TypeRest, NobodyForgotten, UNCHANGED <<lpc, backlog>>,
         \A c \in Clients : client'[c] = "waiting"
                            => client[c] = "waiting" /\ (task[c] = "greeting" => task'[c] = "greeting")
  PROVE  NobodyForgotten'
BY DEF NobodyForgotten, Stopped

LEMMA ForgottenNext == IInv /\ NobodyForgotten /\ [Next]_vars => NobodyForgotten'
<1> SUFFICES ASSUME IInv, NobodyForgotten, [Next]_vars PROVE NobodyForgotten'
  OBVIOUS
<1>t. TypeRest /\ TypeOK
  BY Parts DEF IInv, RestInv
<1> USE DEF taskVars, loopVars
<1>1. ASSUME NEW c \in Clients, Connect(c)
      PROVE  NobodyForgotten'
  <2>1. CASE Stopped
    BY <1>1, <1>t, <2>1, StillKnown DEF Connect, TypeRest
  <2>2. CASE ~Stopped
    <3>1. /\ Len(backlog) \in Nat /\ Len(backlog') = Len(backlog) + 1
          /\ \A i \in 1..Len(backlog) : backlog'[i] = backlog[i]
          /\ backlog'[Len(backlog) + 1] = c
      BY <1>1, <1>t, <2>2, BacklogAppend DEF Connect, TypeRest
    <3>2. ~Stopped' /\ task' = task
          /\ \A d \in Clients : client'[d] = "waiting" => d = c \/ client[d] = "waiting"
      BY <1>1, <1>t, <2>2 DEF Connect, Stopped, TypeRest
    <3>3. QED
      BY <3>1, <3>2 DEF NobodyForgotten
  <2>3. QED
    BY <2>1, <2>2
<1>2. ASSUME NEW c \in Clients, Ask(c) \/ Leave(c)
      PROVE  NobodyForgotten'
  BY <1>2, <1>t, StillKnown DEF Ask, Leave, TypeRest
<1>3. CASE Accept \/ Reject
  <2>1. /\ backlog # <<>> /\ backlog' = Tail(backlog) /\ UNCHANGED lpc
        /\ \A d \in Clients : client'[d] = "waiting" => client[d] = "waiting"
        /\ \A d \in Clients \ {Head(backlog)} : task'[d] = task[d]
        /\ client'[Head(backlog)] = "waiting" => task'[Head(backlog)] = "greeting"
    BY <1>3, <1>t, BacklogTail, BacklogElements DEF Accept, Reject, Refuse, TypeRest
  <2>2. Len(backlog) \in Nat
    BY <1>t DEF TypeRest
  <2>3. ASSUME NEW d \in Clients, d # Head(backlog), NEW i \in 1..Len(backlog), backlog[i] = d
        PROVE  \E j \in 1..Len(backlog') : backlog'[j] = d
    <3>1. i # 1
      BY <1>t, <2>1, <2>3, BacklogTail DEF TypeRest
    <3>2. i - 1 \in 1..Len(backlog') /\ backlog'[i - 1] = backlog[i]
      BY <1>t, <2>1, <2>2, <3>1, BacklogTail DEF TypeRest
    <3>3. QED
      BY <2>3, <3>2
  <2>4. QED
    BY <2>1, <2>3 DEF NobodyForgotten, Stopped
<1>4. CASE AcceptFails \/ BackoffEnds
  BY <1>4 DEF AcceptFails, BackoffEnds, NobodyForgotten, Stopped
<1>5. CASE AcceptFailsFatally \/ SeeShutdown
  BY <1>5, <1>t
  DEF AcceptFailsFatally, SeeShutdown, Return, Refuse, NobodyForgotten, Stopped, TypeRest
<1>6. CASE RuntimeDrops
  BY <1>6, <1>t DEF RuntimeDrops, Refuse, NobodyForgotten, Stopped, Live, Serving, TypeRest
<1>7. CASE \E how \in {"sent", "dropped"} : Shutdown(how)
  BY <1>7 DEF Shutdown, NobodyForgotten, Stopped
<1>8. CASE TaskNext
  <2> PICK c \in Clients : TaskStep(c) \/ NoticeGone(c) \/ HandlerEnds(c) \/ AbortLands(c)
    BY <1>8 DEF TaskNext
  <2>1. CASE Greet(c) \/ GreetMismatch(c) \/ NothingReceived(c)
    BY <1>t, <2>1, StillKnown DEF Greet, GreetMismatch, NothingReceived, TaskOver, TypeRest
  <2>2. CASE Start(c) \/ Finish(c) \/ LingerEnds(c)
    BY <1>t, <2>2, StillKnown DEF Start, Finish, LingerEnds, TaskOver, TypeRest
  <2>3. CASE NoticeGone(c) \/ HandlerStops(c) \/ GraceExpires(c)
    BY <1>t, <2>3, StillKnown DEF NoticeGone, HandlerStops, GraceExpires, TaskOver, TypeRest
  <2>4. CASE HandlerEnds(c) \/ AbortLands(c)
    BY <1>t, <2>4, StillKnown DEF HandlerEnds, AbortLands
  <2>5. QED
    BY <2>1, <2>2, <2>3, <2>4 DEF TaskStep
<1>9. CASE UNCHANGED vars
  BY <1>9, <1>t, StillKnown DEF vars
<1>10. QED
  BY <1>1, <1>2, <1>3, <1>4, <1>5, <1>6, <1>7, <1>8, <1>9
  DEF Next, ClientNext, LoopNext, Done

(* Any number of clients, while accept fails, permits run out, the daemon  *)
(* stops or the runtime ends: one that waits is in the queue of a loop     *)
(* that goes on, or a task is to greet it (server.rs:207-280, 453-489).    *)
THEOREM NoneForgotten == Spec => []NobodyForgotten
<1>1. Init => NobodyForgotten
  BY DEF Init, NobodyForgotten
<1>2. QED
  BY <1>1, ForgottenNext, Inductive, PTL DEF Spec
=============================================================================
