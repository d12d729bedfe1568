----------------------------- MODULE AcceptLoop -----------------------------
(***************************************************************************)
(* The daemon's accept loop, DaemonServer::run: it takes connections off   *)
(* the listener's queue, gives each a permit and a task or drops it when   *)
(* there is no permit, backs off on accept errors, and stops on shutdown.  *)
(* A connection task is modelled as in ServeTask, without its messages.    *)
(*                                                                         *)
(* Each client of the model makes one connection and one command.          *)
(***************************************************************************)
EXTENDS Integers, Sequences, FiniteSets

CONSTANTS
  Clients,          \* clients, one connection each
  MaxConnections,   \* max_connections, the permits of the semaphore
  MaxFaults,        \* bound: transient accept errors
  AcceptMayFail     \* whether accept may also fail for good (EMFILE, ...)

ASSUME ClientsAssumption == IsFiniteSet(Clients)
ASSUME LimitAssumption   == MaxConnections \in Nat /\ MaxFaults \in Nat
ASSUME FailAssumption    == AcceptMayFail \in BOOLEAN

VARIABLES
  lpc,        \* where run() is: "accepting", "backoff", "returned", "exited"
  shutdown,   \* the oneshot channel of the DaemonHandle: "open", "sent", "dropped"
  fatal,      \* accept failed for good
  faults,     \* transient accept errors so far
  backlog,    \* connections the listener has not accepted yet, oldest first
  client,     \* what each client knows of its connection
  asked,      \* a Command of this client is on its socket, unread
  task,       \* each connection's task
  handler,    \* each connection's handler
  permits     \* free permits of connection_semaphore

loopVars == <<lpc, shutdown, fatal, faults, backlog>>
taskVars == <<asked, task, handler, permits>>
vars == <<loopVars, client, taskVars>>

\* The tasks that hold a permit.
Serving == {"greeting", "idle", "running", "cancelling", "lingering"}
Live == {c \in Clients : task[c] \in Serving}

Stopped == lpc \in {"returned", "exited"}

Init ==
  /\ lpc = "accepting" /\ shutdown = "open" /\ fatal = FALSE /\ faults = 0
  /\ backlog = <<>>
  /\ client = [c \in Clients |-> "away"]
  /\ asked = [c \in Clients |-> FALSE]
  /\ task = [c \in Clients |-> "none"]
  /\ handler = [c \in Clients |-> "none"]
  /\ permits = MaxConnections

\* The clients whose connection the operating system resets when their end at
\* the server, queued or served, is dropped before it answered.
Refuse(set) == client' = [c \in Clients |-> IF c \in set /\ client[c] = "waiting"
                                            THEN "refused" ELSE client[c]]

\* Connection task c is over, returning its permit.
TaskOver(c) == /\ task' = [task EXCEPT ![c] = "over"]
               /\ permits' = permits + 1

-----------------------------------------------------------------------------
(* Faulty variants of some of the actions below, each a bug this code could *)
(* have. Nothing uses them: the README says which property each one breaks. *)

\* Returns a permit that was never taken.
RejectReturnsPermit ==
  /\ lpc = "accepting" /\ backlog # <<>> /\ permits = 0
  /\ backlog' = Tail(backlog) /\ Refuse({Head(backlog)})
  /\ permits' = permits + 1
  /\ UNCHANGED <<lpc, shutdown, fatal, faults, asked, task, handler>>

\* Binds the permit to `_`, which drops it before the task runs.
AcceptDropsPermit ==
  /\ lpc = "accepting" /\ backlog # <<>> /\ permits > 0
  /\ backlog' = Tail(backlog)
  /\ task' = [task EXCEPT ![Head(backlog)] = "greeting"]
  /\ UNCHANGED <<lpc, shutdown, fatal, faults, client, asked, handler, permits>>

\* Forgets the permit, as when it had moved into the aborted handler.
GraceExpiresKeepsPermit(c) ==
  /\ task[c] = "cancelling"
  /\ task' = [task EXCEPT ![c] = "over"]
  /\ handler' = [handler EXCEPT ![c] = IF @ = "running" THEN "aborting" ELSE @]
  /\ UNCHANGED <<loopVars, client, asked, permits>>

\* Ends the task without aborting the handler.
GraceExpiresDetached(c) ==
  /\ task[c] = "cancelling"
  /\ TaskOver(c)
  /\ UNCHANGED <<loopVars, client, asked, handler>>

\* No timeout on the wait for a cancelled handler.
GraceUnlimited(c) == FALSE

\* Waits for a permit instead of dropping the connection.
RejectWaits == FALSE

\* Keeps the connection it has no permit for.
RejectKeepsStream ==
  /\ lpc = "accepting" /\ backlog # <<>> /\ permits = 0
  /\ backlog' = Tail(backlog)
  /\ UNCHANGED <<lpc, shutdown, fatal, faults, client, taskVars>>

\* Looks at the shutdown signal only when no task is left.
SeeShutdownWhenIdle ==
  /\ lpc = "accepting" /\ shutdown # "open" /\ Live = {}
  /\ lpc' = "returned" /\ backlog' = <<>>
  /\ Refuse({c \in Clients : \E i \in 1..Len(backlog) : backlog[i] = c})
  /\ UNCHANGED <<shutdown, fatal, faults, taskVars>>

-----------------------------------------------------------------------------
(* Clients.                                                                *)

Connect(c) ==
  /\ client[c] = "away"
  /\ IF Stopped
     THEN /\ client' = [client EXCEPT ![c] = "refused"]
          /\ UNCHANGED backlog
     ELSE /\ client' = [client EXCEPT ![c] = "waiting"]
          /\ backlog' = Append(backlog, c)
  /\ UNCHANGED <<lpc, shutdown, fatal, faults, taskVars>>

\* execute_command sends its Command; an idle client may never do so.
Ask(c) ==
  /\ client[c] = "greeted" /\ ~asked[c] /\ task[c] = "idle"
  /\ asked' = [asked EXCEPT ![c] = TRUE]
  /\ UNCHANGED <<loopVars, client, task, handler, permits>>

Leave(c) ==
  /\ client[c] \in {"waiting", "greeted"}
  /\ client' = [client EXCEPT ![c] = "gone"]
  /\ UNCHANGED <<loopVars, taskVars>>

ClientNext == \E c \in Clients : Connect(c) \/ Ask(c) \/ Leave(c)

-----------------------------------------------------------------------------
(* The loop.                                                               *)

Accept ==
  /\ lpc = "accepting" /\ backlog # <<>> /\ permits > 0
  /\ backlog' = Tail(backlog)
  /\ permits' = permits - 1
  /\ task' = [task EXCEPT ![Head(backlog)] = "greeting"]
  /\ UNCHANGED <<lpc, shutdown, fatal, faults, client, asked, handler>>

\* No permit: the accepted connection is dropped at once.
Reject ==
  /\ lpc = "accepting" /\ backlog # <<>> /\ permits = 0
  /\ backlog' = Tail(backlog) /\ Refuse({Head(backlog)})
  /\ UNCHANGED <<lpc, shutdown, fatal, faults, taskVars>>

\* Interrupted, WouldBlock, ConnectionAborted, ConnectionReset: sleep 100 ms.
AcceptFails ==
  /\ lpc = "accepting" /\ faults < MaxFaults
  /\ faults' = faults + 1
  /\ lpc' = "backoff"
  /\ UNCHANGED <<shutdown, fatal, backlog, client, taskVars>>

BackoffEnds ==
  /\ lpc = "backoff"
  /\ lpc' = "accepting"
  /\ UNCHANGED <<shutdown, fatal, faults, backlog, client, taskVars>>

\* run() returns and drops the listener with every connection in its queue; the
\* connection tasks go on.
Return ==
  /\ lpc = "accepting"
  /\ lpc' = "returned"
  /\ backlog' = <<>>
  /\ Refuse({c \in Clients : \E i \in 1..Len(backlog) : backlog[i] = c})
  /\ UNCHANGED <<shutdown, faults, taskVars>>

\* Any other accept error ends the loop.
AcceptFailsFatally == /\ AcceptMayFail /\ fatal' = TRUE
                      /\ Return

\* The select's second branch: the receiver resolves when the signal is sent and
\* also when the DaemonHandle is dropped.
SeeShutdown == /\ shutdown # "open"
               /\ Return
               /\ UNCHANGED fatal

\* The program around run(): DaemonHandle::shutdown, and the handle going out of
\* scope.
Shutdown(how) ==
  /\ shutdown = "open" /\ ~Stopped
  /\ shutdown' = how
  /\ UNCHANGED <<lpc, fatal, faults, backlog, client, taskVars>>

\* After run() main returns and the runtime drops every task.
RuntimeDrops ==
  /\ lpc = "returned"
  /\ lpc' = "exited"
  /\ Refuse(Live)
  /\ task' = [c \in Clients |-> IF c \in Live THEN "over" ELSE task[c]]
  /\ handler' = [c \in Clients |-> IF handler[c] = "none" THEN "none" ELSE "over"]
  /\ permits' = MaxConnections
  /\ UNCHANGED <<shutdown, fatal, faults, backlog, asked>>

LoopNext == \/ Accept \/ Reject \/ AcceptFails \/ BackoffEnds \/ AcceptFailsFatally
            \/ SeeShutdown \/ RuntimeDrops \/ \E how \in {"sent", "dropped"} : Shutdown(how)

-----------------------------------------------------------------------------
(* One connection task and its handler, as in ServeTask.                   *)

Greet(c) ==
  /\ task[c] = "greeting" /\ client[c] = "waiting"
  /\ client' = [client EXCEPT ![c] = "greeted"]
  /\ task' = [task EXCEPT ![c] = "idle"]
  /\ UNCHANGED <<loopVars, asked, handler, permits>>

\* The answer to the VersionCheck says that the versions differ.
GreetMismatch(c) ==
  /\ task[c] = "greeting" /\ client[c] = "waiting"
  /\ client' = [client EXCEPT ![c] = "greeted"]
  /\ TaskOver(c)
  /\ UNCHANGED <<loopVars, asked, handler>>

\* The client left before the handshake, or before it sent a command.
NothingReceived(c) ==
  /\ task[c] \in {"greeting", "idle"} /\ client[c] = "gone" /\ ~asked[c]
  /\ TaskOver(c)
  /\ UNCHANGED <<loopVars, client, asked, handler>>

Start(c) ==
  /\ task[c] = "idle" /\ asked[c]
  /\ asked' = [asked EXCEPT ![c] = FALSE]
  /\ task' = [task EXCEPT ![c] = "running"]
  /\ handler' = [handler EXCEPT ![c] = "running"]
  /\ UNCHANGED <<loopVars, client, permits>>

HandlerEnds(c) ==
  /\ handler[c] = "running"
  /\ handler' = [handler EXCEPT ![c] = "over"]
  /\ UNCHANGED <<loopVars, client, asked, task, permits>>

\* The handler's result and all of its output are sent, or lost on the way.
Finish(c) ==
  /\ task[c] = "running" /\ handler[c] = "over"
  /\ task' = [task EXCEPT ![c] = "lingering"]
  /\ UNCHANGED <<loopVars, client, asked, handler, permits>>

\* The client closed, or the five seconds are over.
LingerEnds(c) ==
  /\ task[c] = "lingering"
  /\ TaskOver(c)
  /\ UNCHANGED <<loopVars, client, asked, handler>>

\* Sending output fails: the handler is cancelled unless it has been joined.
NoticeGone(c) ==
  /\ task[c] = "running" /\ client[c] = "gone"
  /\ \/ /\ task' = [task EXCEPT ![c] = "cancelling"]
        /\ UNCHANGED permits
     \/ handler[c] = "over" /\ TaskOver(c)
  /\ UNCHANGED <<loopVars, client, asked, handler>>

HandlerStops(c) ==
  /\ task[c] = "cancelling" /\ handler[c] = "over"
  /\ TaskOver(c)
  /\ UNCHANGED <<loopVars, client, asked, handler>>

\* After one second abort() is requested and the task ends at once.
GraceExpires(c) ==
  /\ task[c] = "cancelling"
  /\ TaskOver(c)
  /\ handler' = [handler EXCEPT ![c] = IF @ = "running" THEN "aborting" ELSE @]
  /\ UNCHANGED <<loopVars, client, asked>>

\* The aborted handler reaches an await, or its end.
AbortLands(c) ==
  /\ handler[c] = "aborting"
  /\ handler' = [handler EXCEPT ![c] = "over"]
  /\ UNCHANGED <<loopVars, client, asked, task, permits>>

\* What the runtime does by itself, given a client and a handler that do not block.
TaskStep(c) == \/ Greet(c) \/ GreetMismatch(c) \/ NothingReceived(c) \/ Start(c)
               \/ Finish(c) \/ LingerEnds(c) \/ HandlerStops(c) \/ GraceExpires(c)
TaskNext == \E c \in Clients : TaskStep(c) \/ NoticeGone(c) \/ HandlerEnds(c) \/ AbortLands(c)

Done == Stopped /\ (\A c \in Clients : client[c] # "away") /\ UNCHANGED vars

Next == ClientNext \/ LoopNext \/ TaskNext \/ Done

Spec == Init /\ [][Next]_vars

\* The runtime polls the loop and the tasks and its timers fire; select! picks a
\* random ready branch, so a shutdown signal is not passed over for ever.
FairSpec == /\ Spec
            /\ WF_vars(Accept \/ Reject) /\ WF_vars(BackoffEnds) /\ WF_vars(SeeShutdown)
            /\ \A c \in Clients : WF_vars(TaskStep(c))

-----------------------------------------------------------------------------
(* Properties.                                                             *)

\* Every variable holds a value of its type (server.rs:207-489); above all the
\* permits are never more than the semaphore was created with.
TypeOK ==
  /\ lpc \in {"accepting", "backoff", "returned", "exited"}
  /\ shutdown \in {"open", "sent", "dropped"}
  /\ fatal \in BOOLEAN /\ faults \in 0..MaxFaults
  /\ backlog \in Seq(Clients)
  /\ client \in [Clients -> {"away", "waiting", "greeted", "refused", "gone"}]
  /\ asked \in [Clients -> BOOLEAN]
  /\ task \in [Clients -> Serving \cup {"none", "over"}]
  /\ handler \in [Clients -> {"none", "running", "aborting", "over"}]
  /\ permits \in 0..MaxConnections

\* However connections arrive, end and are cut off, no more than max_connections
\* of them are served at a time.
ConnectionsWithinLimit == Cardinality(Live) <= MaxConnections

\* No more than max_connections handlers run that nobody told to stop. An aborted
\* handler may still run while its permit serves another client (the permit is the
\* task's, and the task does not wait for the abort to land): the limit is one of
\* connections, and of executions only up to those that are being aborted.
ExecutionsWithinLimit ==
  Cardinality({c \in Clients : handler[c] = "running"}) <= MaxConnections

\* A running daemon refuses a client only while max_connections others are being
\* served: no path out of a connection task loses its permit.
RefusedOnlyAtCapacity ==
  [][\A c \in Clients : /\ client[c] = "waiting" /\ client'[c] = "refused"
                        /\ ~Stopped'
                        => Cardinality(Live) = MaxConnections]_vars

\* Each accepted connection is served as ServeTask says, whatever the others do
\* and wherever the loop is.
ServedAs(c) == INSTANCE ServeTask WITH
                 client  <- IF client[c] = "gone" THEN "gone" ELSE "here",
                 task    <- IF task[c] = "none" THEN "greeting" ELSE task[c],
                 handler <- handler[c]
TasksServe ==
  /\ \A c \in Clients : ServedAs(c)!Init
  /\ [][\A c \in Clients : [ServedAs(c)!Next]_(ServedAs(c)!serveVars)]_vars

\* A client that waits has not been forgotten: a loop that goes on has it in its
\* queue, or it has a task that is about to greet it. Whoever is dropped, from the
\* queue, with the listener or with the runtime, is told.
NobodyForgotten ==
  \A c \in Clients : client[c] = "waiting"
    => \/ task[c] = "greeting"
       \/ ~Stopped /\ \E i \in 1..Len(backlog) : backlog[i] = c

\* Every client that connects hears from the daemon, whether it is served or
\* refused, also when all permits are held, accept fails or the daemon stops.
EveryClientHears ==
  \A c \in Clients : client[c] = "waiting" ~> client[c] # "waiting"

\* The daemon gets its permits back. A task that has answered, or has cancelled its
\* handler, ends, though the client keeps its connection and the handler ignores
\* the cancellation. So when all clients are gone, a permit that never returns is
\* held for a handler that never ends and was never cancelled.
CapacityReturns ==
  /\ \A c \in Clients : task[c] \in {"lingering", "cancelling"} ~> c \notin Live
  /\ <>[](permits < MaxConnections /\ \A c \in Clients : client[c] \in {"gone", "refused"})
       => <>[](\E c \in Clients : task[c] = "running" /\ handler[c] = "running")

\* A shutdown signal is obeyed, also in the middle of a burst of connections or
\* in a backoff, and without waiting for the connections being served.
ShutdownStops == shutdown = "sent" ~> Stopped

\* The documented use of the handle: the server stops only because of shutdown()
\* or of an accept error, not because the handle was dropped.
StopsOnlyOnRequest == Stopped => shutdown = "sent" \/ fatal
=============================================================================
