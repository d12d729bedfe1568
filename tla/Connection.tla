----------------------------- MODULE Connection -----------------------------
(***************************************************************************)
(* One client connection to a running daemon: the DaemonClient that made   *)
(* it, the server task that run() spawned for it, the command handler that *)
(* task spawns, and what is between them: one socket queue per direction,  *)
(* the duplex pipe the handler writes its output to, the cancellation      *)
(* token and the JoinHandle of the handler task.                           *)
(*                                                                         *)
(* The model starts when the socket is connected and a permit is held.     *)
(* Output is abstracted to byte positions: the handler writes bytes 1, 2,  *)
(* 3, ... and a chunk [lo, hi] stands for the bytes lo+1 .. hi.            *)
(***************************************************************************)
EXTENDS Integers, Sequences

CONSTANTS
  Timestamps,     \* build timestamps of client and daemon binaries
  ExitCodes,      \* exit codes a handler may return
  Zero,           \* exit code 0, what an unknown exit code defaults to
  MaxCalls,       \* bound: execute_command calls made on the connection
  MaxOutput,      \* bound: bytes of output the handler produces
  PipeCap,        \* capacity of the duplex pipe (8192 in the code)
  ChunkMax,       \* most bytes one read of the pipe returns (4096 in the code)
  SockCap,        \* messages the socket holds before a send blocks
  MayReuse        \* whether a client calls again after a call that failed on its stdout

ASSUME TimestampsAssumption == Timestamps # {}
ASSUME ExitCodesAssumption  == Zero \in ExitCodes
ASSUME BoundsAssumption     == MaxCalls \in Nat /\ MaxOutput \in Nat
ASSUME CapacityAssumption   == /\ PipeCap \in Nat \ {0}
                               /\ ChunkMax \in Nat \ {0}
                               /\ SockCap \in Nat \ {0}
ASSUME ReuseAssumption      == MayReuse \in BOOLEAN

VARIABLES
  clientTs, serverTs,   \* the two build timestamps, fixed for the connection
  cpc,         \* where the client is
  call,        \* number of execute_command calls made so far
  outcome,     \* what each call returned
  stdout,      \* the bytes printed by the client, in order
  c2s, s2c,    \* the socket: messages in flight, one queue per direction
  spc,         \* where the server's connection task is
  cmd,         \* the call whose command the server runs, 0 before there is one
  inHand,      \* the chunk read from the pipe and not yet sent
  joined,      \* handler_exit_code / handler_error
  hpc,         \* where the handler is
  hres,        \* what the handler returned
  written,     \* bytes the handler put into the pipe
  taken,       \* bytes the server took out of the pipe
  writerOpen,  \* the handler still holds the pipe's writer
  signal       \* the cancellation token, then JoinHandle::abort

clientVars  == <<cpc, call, outcome, stdout>>
serverVars  == <<spc, cmd, inHand, joined, taken, signal>>
handlerVars == <<hpc, hres, written, writerOpen>>
vars == <<clientTs, serverTs, clientVars, c2s, s2c, serverVars, handlerVars>>

-----------------------------------------------------------------------------
(* What a handler returns, and what a call returns.                        *)

Exit(c) == [kind |-> "exit", code |-> c]
NoCode(k) == [kind |-> k, code |-> Zero]

HandlerError == NoCode("error")
HandlerPanic == NoCode("panic")
NoResult     == NoCode("none")

Results  == {Exit(c) : c \in ExitCodes} \cup {HandlerError, HandlerPanic}
Outcomes == Results \cup {NoCode(k) : k \in {"none", "closed", "reset", "sendFailed",
                                             "stdoutFailed"}}

(* The messages of the wire protocol.                                      *)

VersionCheck(ts)   == [type |-> "VersionCheck", ts |-> ts]
Command(k)         == [type |-> "Command", call |-> k]
OutputChunk(c)     == [type |-> "OutputChunk", lo |-> c.lo, hi |-> c.hi]
CommandComplete(c) == [type |-> "CommandComplete", code |-> c]
CommandError(k)    == [type |-> "CommandError", text |-> k]

Chunks  == [lo : Nat, hi : Nat]
NoChunk == [lo |-> 0, hi |-> 0]

ClientMessages == [type : {"VersionCheck"}, ts : Timestamps]
                    \cup [type : {"Command"}, call : 1..MaxCalls]
ServerMessages == [type : {"VersionCheck"}, ts : Timestamps]
                    \cup [type : {"OutputChunk"}, lo : Nat, hi : Nat]
                    \cup [type : {"CommandComplete"}, code : ExitCodes]
                    \cup [type : {"CommandError"}, text : {"error", "panic"}]

\* What the server reports when the pipe is at end of file: the error if there
\* is one, otherwise the exit code, 0 when it has none.
CompletionOf(r) ==
  IF r.kind \in {"error", "panic"} THEN CommandError(r.kind)
  ELSE CommandComplete(IF r = NoResult THEN Zero ELSE r.code)

Bytes(lo, hi) == [i \in 1..(hi - lo) |-> lo + i]

ClientOpen    == cpc # "gone"
ServerOpen    == spc \notin {"ended", "killed"}
HandlerActive == hpc \in {"running", "writing"}
SocketFull    == Len(s2c) >= SockCap
Available     == written - taken

-----------------------------------------------------------------------------
Init ==
  /\ clientTs \in Timestamps /\ serverTs \in Timestamps
  /\ cpc = "connected" /\ call = 0
  /\ outcome = [k \in 1..MaxCalls |-> NoCode("none")]
  /\ stdout = <<>>
  /\ c2s = <<>> /\ s2c = <<>>
  /\ spc = "hello" /\ cmd = 0 /\ inHand = NoChunk /\ joined = NoResult
  /\ hpc = "none" /\ hres = NoResult /\ written = 0 /\ taken = 0
  /\ writerOpen = FALSE /\ signal = "none"

\* The client waits in its receive loop and a message of this type is next.
Receiving(type) == cpc = "receiving" /\ s2c # <<>> /\ Head(s2c).type = type

\* The current call returns r; the client object and its socket stay.
Returns(r) ==
  /\ outcome' = [outcome EXCEPT ![call] = r]
  /\ cpc' = "ready"

-----------------------------------------------------------------------------
(* Faulty variants of some of the actions below, each a bug this code could *)
(* have. Nothing uses them: the README says which property each one breaks. *)

\* Reports a failing exit code as an error that has no text.
SendCompletionTextless ==
  /\ spc = "completing" /\ ClientOpen /\ ~SocketFull
  /\ s2c' = Append(s2c, IF joined.kind = "exit" /\ joined.code # Zero
                          THEN [type |-> "CommandError", code |-> joined.code]
                          ELSE CompletionOf(joined))
  /\ spc' = "linger"
  /\ UNCHANGED <<clientTs, serverTs, clientVars, c2s, cmd, inHand, joined, taken, signal, handlerVars>>

\* Sends the chunk again after a send that went through.
SendChunkAgain ==
  /\ spc = "sending" /\ ClientOpen /\ ~SocketFull
  /\ s2c' = Append(s2c, OutputChunk(inHand))
  /\ spc' \in {"streaming", "sending"}
  /\ UNCHANGED <<clientTs, serverTs, clientVars, c2s, cmd, inHand, joined, taken, signal, handlerVars>>

\* Completes as soon as the handler is joined, output or not.
ReachEofUndrained ==
  /\ spc = "streaming" /\ (joined # NoResult \/ (Available = 0 /\ ~writerOpen))
  /\ spc' = IF joined = NoResult THEN "awaitTask" ELSE "completing"
  /\ UNCHANGED <<clientTs, serverTs, clientVars, c2s, s2c, cmd, inHand, joined, taken, signal,
                 handlerVars>>

\* Completes at end of file without waiting for the handler's result.
ReachEofUnjoined ==
  /\ spc = "streaming" /\ Available = 0 /\ ~writerOpen
  /\ spc' = "completing"
  /\ UNCHANGED <<clientTs, serverTs, clientVars, c2s, s2c, cmd, inHand, joined, taken, signal,
                 handlerVars>>

\* Answers a message received while lingering.
LingerReplies ==
  /\ spc = "linger"
  /\ c2s' = IF c2s = <<>> THEN c2s ELSE Tail(c2s)
  /\ spc' = IF c2s = <<>> THEN "ended" ELSE "completing"
  /\ UNCHANGED <<clientTs, serverTs, clientVars, s2c, cmd, inHand, joined, taken, signal, handlerVars>>

\* Ends without waiting for the handler it has cancelled.
SendChunkFailsDetached ==
  /\ spc = "sending" /\ ~ClientOpen
  /\ signal' = "cancelled" /\ inHand' = NoChunk
  /\ spc' = "ended"
  /\ UNCHANGED <<clientTs, serverTs, clientVars, c2s, s2c, cmd, joined, taken, handlerVars>>

\* Takes the end of the connection for the end of a successful command.
ReceiveClosedAsSuccess ==
  /\ cpc = "receiving" /\ s2c = <<>> /\ ~ServerOpen
  /\ Returns(Exit(Zero))
  /\ UNCHANGED <<clientTs, serverTs, call, stdout, c2s, s2c, serverVars, handlerVars>>

\* Leaves the pipe's writer open, as when the server keeps a clone of it.
HandlerReturnsWriterKept(r) ==
  /\ HandlerActive
  /\ hpc' = "done" /\ hres' = r
  /\ UNCHANGED <<clientTs, serverTs, clientVars, c2s, s2c, serverVars, written, writerOpen>>

\* No timeout on the wait for a cancelled handler.
GraceUnlimited == FALSE

\* Gives up waiting for the handler without aborting it.
GraceExpiresDetached ==
  /\ spc = "cancelWait"
  /\ spc' = "ended"
  /\ UNCHANGED <<clientTs, serverTs, clientVars, c2s, s2c, cmd, inHand, joined, taken, signal,
                 handlerVars>>

-----------------------------------------------------------------------------
(* The client: the handshake of connect, then execute_command.             *)

SendVersion ==
  /\ cpc = "connected" /\ ServerOpen
  /\ c2s' = Append(c2s, VersionCheck(clientTs))
  /\ cpc' = "handshake"
  /\ UNCHANGED <<clientTs, serverTs, call, outcome, stdout, s2c, serverVars, handlerVars>>

\* On a different timestamp connect goes on to restart the daemon: this
\* connection is of no further use.
ReceiveVersion ==
  /\ cpc = "handshake" /\ s2c # <<>>
  /\ cpc' = IF Head(s2c) = VersionCheck(clientTs) THEN "ready" ELSE "mismatch"
  /\ s2c' = Tail(s2c)
  /\ UNCHANGED <<clientTs, serverTs, call, outcome, stdout, c2s, serverVars, handlerVars>>

\* The send fails, or the answer is an end of file: connect returns an error.
HandshakeFails ==
  /\ cpc \in {"connected", "handshake"} /\ ~ServerOpen /\ s2c = <<>>
  /\ cpc' = "gone"
  /\ UNCHANGED <<clientTs, serverTs, call, outcome, stdout, c2s, s2c, serverVars, handlerVars>>

\* The caller may make another call on this DaemonClient.
MayCall == cpc \in {"ready"} \cup (IF MayReuse THEN {"abandoned"} ELSE {}) /\ call < MaxCalls

Execute ==
  /\ MayCall /\ ServerOpen
  /\ call' = call + 1
  /\ c2s' = Append(c2s, Command(call + 1))
  /\ cpc' = "receiving"
  /\ UNCHANGED <<clientTs, serverTs, outcome, stdout, s2c, serverVars, handlerVars>>

ExecuteSendFails ==
  /\ MayCall /\ ~ServerOpen
  /\ call' = call + 1
  /\ outcome' = [outcome EXCEPT ![call + 1] = NoCode("sendFailed")]
  /\ UNCHANGED <<clientTs, serverTs, cpc, stdout, c2s, s2c, serverVars, handlerVars>>

ReceiveChunk ==
  /\ Receiving("OutputChunk")
  /\ stdout' = stdout \o Bytes(Head(s2c).lo, Head(s2c).hi)
  /\ s2c' = Tail(s2c)
  /\ UNCHANGED <<clientTs, serverTs, cpc, call, outcome, c2s, serverVars, handlerVars>>

\* stdout.write_all or flush fails, as with a closed pager: the call returns at
\* once, with the rest of the command's messages still to come on the socket.
StdoutFails ==
  /\ Receiving("OutputChunk")
  /\ s2c' = Tail(s2c)
  /\ outcome' = [outcome EXCEPT ![call] = NoCode("stdoutFailed")]
  /\ cpc' = "abandoned"
  /\ UNCHANGED <<clientTs, serverTs, call, stdout, c2s, serverVars, handlerVars>>

ReceiveComplete ==
  /\ Receiving("CommandComplete")
  /\ s2c' = Tail(s2c)
  /\ Returns(Exit(Head(s2c).code))
  /\ UNCHANGED <<clientTs, serverTs, call, stdout, c2s, serverVars, handlerVars>>

ReceiveError ==
  /\ Receiving("CommandError")
  /\ s2c' = Tail(s2c)
  /\ Returns(NoCode(Head(s2c).text))
  /\ UNCHANGED <<clientTs, serverTs, call, stdout, c2s, serverVars, handlerVars>>

\* End of file, or a reset when the server closed with messages unread.
ReceiveClosed ==
  /\ cpc = "receiving" /\ s2c = <<>> /\ ~ServerOpen
  /\ Returns(NoCode(IF c2s = <<>> THEN "closed" ELSE "reset"))
  /\ UNCHANGED <<clientTs, serverTs, call, stdout, c2s, s2c, serverVars, handlerVars>>

\* Ctrl+C, the end of the client process, or the DaemonClient being dropped.
ClientGone ==
  /\ ClientOpen
  /\ cpc' = "gone" /\ s2c' = <<>>
  /\ UNCHANGED <<clientTs, serverTs, call, outcome, stdout, c2s, serverVars, handlerVars>>

ClientReceives == \/ ReceiveVersion \/ HandshakeFails \/ ReceiveChunk \/ StdoutFails
                  \/ ReceiveComplete \/ ReceiveError \/ ReceiveClosed
ClientNext == SendVersion \/ Execute \/ ExecuteSendFails \/ ClientReceives \/ ClientGone

-----------------------------------------------------------------------------
(* The server's connection task.                                           *)

\* Receive the client's VersionCheck and answer with the daemon's own; the
\* task ends when the answer cannot be sent or the timestamps differ.
Handshake ==
  /\ spc = "hello" /\ c2s # <<>>
  /\ c2s' = Tail(c2s)
  /\ s2c' = IF ClientOpen THEN Append(s2c, VersionCheck(serverTs)) ELSE s2c
  /\ spc' = IF ClientOpen /\ Head(c2s) = VersionCheck(serverTs) THEN "command" ELSE "ended"
  /\ UNCHANGED <<clientTs, serverTs, clientVars, cmd, inHand, joined, taken, signal, handlerVars>>

\* The client closed before it sent a VersionCheck, or before it sent a command.
NothingReceived ==
  /\ spc \in {"hello", "command"} /\ c2s = <<>> /\ ~ClientOpen
  /\ spc' = "ended"
  /\ UNCHANGED <<clientTs, serverTs, clientVars, c2s, s2c, cmd, inHand, joined, taken, signal,
                 handlerVars>>

\* Receive the command, create pipe and token, spawn the handler.
StartCommand ==
  /\ spc = "command" /\ c2s # <<>> /\ Head(c2s).type = "Command"
  /\ cmd' = Head(c2s).call /\ c2s' = Tail(c2s)
  /\ spc' = "streaming"
  /\ hpc' = "running" /\ writerOpen' = TRUE
  /\ UNCHANGED <<clientTs, serverTs, clientVars, s2c, inHand, joined, taken, signal, hres, written>>

ReadChunk ==
  /\ spc = "streaming" /\ Available > 0
  /\ taken' = taken + (IF Available < ChunkMax THEN Available ELSE ChunkMax)
  /\ inHand' = [lo |-> taken, hi |-> taken']
  /\ spc' = "sending"
  /\ UNCHANGED <<clientTs, serverTs, clientVars, c2s, s2c, cmd, joined, signal, handlerVars>>

SendChunk ==
  /\ spc = "sending" /\ ClientOpen /\ ~SocketFull
  /\ s2c' = Append(s2c, OutputChunk(inHand))
  /\ inHand' = NoChunk /\ spc' = "streaming"
  /\ UNCHANGED <<clientTs, serverTs, clientVars, c2s, cmd, joined, taken, signal, handlerVars>>

\* The one place the task notices that the client is gone while a command runs.
SendChunkFails ==
  /\ spc = "sending" /\ ~ClientOpen
  /\ signal' = "cancelled" /\ inHand' = NoChunk
  /\ spc' = IF joined = NoResult THEN "cancelWait" ELSE "ended"
  /\ UNCHANGED <<clientTs, serverTs, clientVars, c2s, s2c, cmd, joined, taken, handlerVars>>

\* The select's second branch: the handler finished, its output may not be drained.
JoinHandler ==
  /\ spc = "streaming" /\ joined = NoResult /\ hpc = "done"
  /\ joined' = hres
  /\ UNCHANGED <<clientTs, serverTs, clientVars, c2s, s2c, spc, cmd, inHand, taken, signal,
                 handlerVars>>

ReachEof ==
  /\ spc = "streaming" /\ Available = 0 /\ ~writerOpen
  /\ spc' = IF joined = NoResult THEN "awaitTask" ELSE "completing"
  /\ UNCHANGED <<clientTs, serverTs, clientVars, c2s, s2c, cmd, inHand, joined, taken, signal,
                 handlerVars>>

\* The handler dropped its writer before it returned: wait for it, however long.
AwaitTask ==
  /\ spc = "awaitTask" /\ hpc = "done"
  /\ joined' = hres /\ spc' = "completing"
  /\ UNCHANGED <<clientTs, serverTs, clientVars, c2s, s2c, cmd, inHand, taken, signal, handlerVars>>

\* The result of this send is ignored.
SendCompletion ==
  /\ spc = "completing" /\ (ClientOpen => ~SocketFull)
  /\ s2c' = IF ClientOpen THEN Append(s2c, CompletionOf(joined)) ELSE s2c
  /\ spc' = "linger"
  /\ UNCHANGED <<clientTs, serverTs, clientVars, c2s, cmd, inHand, joined, taken, signal, handlerVars>>

\* Wait for the client to close: whatever it sends is discarded, and after the
\* five seconds of the timeout the task ends in any case.
Linger ==
  /\ spc = "linger"
  /\ c2s' \in {c2s} \cup (IF c2s = <<>> THEN {} ELSE {Tail(c2s)})
  /\ spc' = "ended"
  /\ signal' = IF joined.kind = "exit" THEN signal ELSE "cancelled"
  /\ UNCHANGED <<clientTs, serverTs, clientVars, s2c, cmd, inHand, joined, taken, handlerVars>>

HandlerStops ==
  /\ spc = "cancelWait" /\ hpc = "done"
  /\ spc' = "ended"
  /\ UNCHANGED <<clientTs, serverTs, clientVars, c2s, s2c, cmd, inHand, joined, taken, signal,
                 handlerVars>>

\* One second after the cancellation the handler task is aborted.
GraceExpires ==
  /\ spc = "cancelWait"
  /\ spc' = "ended" /\ signal' = "aborted"
  /\ UNCHANGED <<clientTs, serverTs, clientVars, c2s, s2c, cmd, inHand, joined, taken, handlerVars>>

\* The daemon process dies, or its runtime is dropped, taking every task along.
DaemonDies ==
  /\ ServerOpen
  /\ spc' = "killed" /\ inHand' = NoChunk
  /\ hpc' = IF HandlerActive THEN "killed" ELSE hpc
  /\ writerOpen' = FALSE
  /\ UNCHANGED <<clientTs, serverTs, clientVars, c2s, s2c, cmd, joined, taken, signal, hres, written>>

ServerNext == \/ Handshake \/ NothingReceived \/ StartCommand \/ ReadChunk \/ SendChunk
              \/ SendChunkFails \/ JoinHandler \/ ReachEof \/ AwaitTask \/ SendCompletion
              \/ Linger \/ HandlerStops \/ GraceExpires

-----------------------------------------------------------------------------
(* The handler: any code that writes to its output and returns. Waiting    *)
(* for room in the pipe is a state of its own.                             *)

WantsToWrite ==
  /\ hpc = "running" /\ writerOpen /\ written < MaxOutput
  /\ hpc' = "writing"
  /\ UNCHANGED <<clientTs, serverTs, clientVars, c2s, s2c, serverVars, hres, written, writerOpen>>

\* The write completes when there is room, and fails once the reader is dropped.
Write ==
  /\ hpc = "writing" /\ (ServerOpen => Available < PipeCap)
  /\ written' = IF ServerOpen THEN written + 1 ELSE written
  /\ hpc' = "running"
  /\ UNCHANGED <<clientTs, serverTs, clientVars, c2s, s2c, serverVars, hres, writerOpen>>

\* The handler drops its writer and goes on.
CloseOutput ==
  /\ hpc = "running" /\ writerOpen
  /\ writerOpen' = FALSE
  /\ UNCHANGED <<clientTs, serverTs, clientVars, c2s, s2c, serverVars, hpc, hres, written>>

\* Returning (or panicking) drops the writer if the handler still holds it.
HandlerReturns(r) ==
  /\ HandlerActive
  /\ hpc' = "done" /\ hres' = r /\ writerOpen' = FALSE
  /\ UNCHANGED <<clientTs, serverTs, clientVars, c2s, s2c, serverVars, written>>

\* The runtime drops an aborted task at its next await.
HandlerAborted ==
  /\ HandlerActive /\ signal = "aborted"
  /\ hpc' = "aborted" /\ writerOpen' = FALSE
  /\ UNCHANGED <<clientTs, serverTs, clientVars, c2s, s2c, serverVars, hres, written>>

HandlerNext == \/ WantsToWrite \/ Write \/ CloseOutput \/ HandlerAborted
               \/ \E r \in Results : HandlerReturns(r)

\* Everything about the connection is over.
Finished == ~ClientOpen /\ ~ServerOpen /\ ~HandlerActive /\ UNCHANGED vars

Next == ClientNext \/ ServerNext \/ DaemonDies \/ HandlerNext \/ Finished

Spec == Init /\ [][Next]_vars

\* The runtime polls every task that can go on, its timers fire, and the client
\* keeps reading. Nothing is assumed of the handler.
FairSpec == Spec /\ WF_vars(ServerNext) /\ WF_vars(ClientReceives) /\ WF_vars(HandlerAborted)

\* In addition to FairSpec, a handler whose token is cancelled returns.
ObedientSpec == FairSpec /\ WF_vars(Write)
                         /\ WF_vars(signal # "none" /\ \E r \in Results : HandlerReturns(r))

-----------------------------------------------------------------------------
(* Properties.                                                             *)

\* Every variable holds a value of its type (types of client.rs:615-685 and
\* server.rs:270-451).
TypeOK ==
  /\ clientTs \in Timestamps /\ serverTs \in Timestamps
  /\ cpc \in {"connected", "handshake", "ready", "mismatch", "receiving",
            "abandoned", "gone"}
  /\ call \in 0..MaxCalls
  /\ outcome \in [1..MaxCalls -> Outcomes]
  /\ stdout \in Seq(Nat)
  /\ c2s \in Seq(ClientMessages) /\ s2c \in Seq(ServerMessages)
  /\ spc \in {"hello", "command", "streaming", "sending", "awaitTask", "completing",
              "linger", "cancelWait", "ended", "killed"}
  /\ cmd \in 0..MaxCalls
  /\ inHand \in Chunks
  /\ joined \in Results \cup {NoResult} /\ hres \in Results \cup {NoResult}
  /\ hpc \in {"none", "running", "writing", "done", "aborted", "killed"}
  /\ written \in Nat /\ taken \in Nat
  /\ writerOpen \in BOOLEAN
  /\ signal \in {"none", "cancelled", "aborted"}

\* What the client has printed is what the handler wrote: a prefix of it, every
\* byte once and in order, however writes, reads of the pipe, sends and receives
\* interleave, unless it calls again after a call that failed on its stdout.
StdoutIsOutput ==
  ~MayReuse => /\ stdout = Bytes(0, Len(stdout))
               /\ Len(stdout) <= written

\* A call that reports the command's result has printed all of its output
\* first: neither the early result of the handler task nor the completion
\* message overtakes output still in the pipe or in a chunk.
AnswerAfterOutput ==
  ~MayReuse =>
    \A k \in 1..MaxCalls : outcome[k] \in Results => Len(stdout) = written

\* A result reported to the client is the one the handler returned: the exit
\* code is never the default 0 of an unknown one, a failure never a success.
AnswerIsHandlers ==
  \A k \in 1..MaxCalls : outcome[k] \in Results => outcome[k] = hres

\* A call that returns a result returns the result of its own command.
AnswersOwnCommand ==
  \A k \in 1..MaxCalls : outcome[k] \in Results => cmd = k

\* The connection task never ends and leaves a handler running that nobody
\* waits for and nobody told to stop.
NoOrphanHandler == ~ServerOpen /\ HandlerActive => signal = "aborted"

\* The handler could go on, and it is its own choice not to.
HandlerCouldGoOn == \/ hpc = "running"
                    \/ hpc = "writing" /\ (ServerOpen => Available < PipeCap)

\* The client could take what it waits for, and the task could do its next step.
ClientCouldGoOn == \/ cpc = "handshake" /\ (s2c # <<>> \/ ~ServerOpen)
                   \/ cpc = "receiving" /\ IF s2c = <<>> THEN ~ServerOpen
                                           ELSE Head(s2c).type # "VersionCheck"
TaskCouldGoOn ==
  \/ spc = "hello" /\ (c2s # <<>> \/ ~ClientOpen)
  \/ spc = "command" /\ IF c2s = <<>> THEN ~ClientOpen ELSE Head(c2s).type = "Command"
  \/ spc = "streaming" /\ (Available > 0 \/ ~writerOpen \/ (joined = NoResult /\ hpc = "done"))
  \/ spc = "awaitTask" /\ hpc = "done"
  \/ spc \in {"sending", "completing"} /\ (ClientOpen => ~SocketFull)
  \/ spc \in {"linger", "cancelWait"}

\* Nobody waits on everybody: while the client waits for an answer, or is gone and
\* its task still there, one of client, task and handler can go on. Full pipes and
\* sockets, an output closed early and a handler that was cancelled, aborted or
\* panicked never leave the three waiting for each other.
NoStandstill ==
  cpc \in {"handshake", "receiving"} \/ (~ClientOpen /\ ServerOpen)
    => ClientCouldGoOn \/ TaskCouldGoOn \/ HandlerCouldGoOn

\* A call returns, unless the handler never ends by its own choice: pipe, socket
\* and client never wait for each other in a circle, and an output closed early
\* or a lost completion keeps nobody waiting.
CallReturns == <>[](cpc = "receiving") => <>[]HandlerCouldGoOn

\* The task of a client that left ends and returns its permit, unless its handler
\* never ends by its own choice and was not told to. One that was told cannot keep
\* the task, though it ignores its token or writes to a pipe that nobody reads.
TaskEnds == <>[](~ClientOpen /\ ServerOpen) => <>[](HandlerCouldGoOn /\ signal = "none")

\* The documented "task cancellation via connection close detection": when the
\* client closes the connection under a running command, the command is
\* cancelled or ends on its own.
CloseCancels == ~ClientOpen /\ HandlerActive ~> ~HandlerActive \/ signal # "none"

\* The first call on the connection is a command as CommandPromise has it.
\* (A second call gets no command run, see AnswersOwnCommand.)
FirstOutcome == IF MaxCalls = 0 THEN NoResult ELSE outcome[1]
Promise == INSTANCE CommandPromise WITH
             produced <- written,
             shown    <- Len(stdout),
             result   <- hres,
             stopped  <- hpc \in {"aborted", "killed"},
             answer   <- IF FirstOutcome \in Results THEN FirstOutcome ELSE NoResult,
             lost     <- FirstOutcome \notin Results \cup {NoResult}
KeepsPromise == Promise!Spec

TaskState ==
  CASE spc = "hello"      -> "greeting"
    [] spc = "command"    -> "idle"
    [] spc = "cancelWait" -> "cancelling"
    [] spc = "linger"     -> "lingering"
    [] spc \in {"ended", "killed"} -> "over"
    [] OTHER              -> "running"
HandlerState ==
  CASE hpc = "none"   -> "none"
    [] HandlerActive  -> IF signal = "aborted" THEN "aborting" ELSE "running"
    [] OTHER          -> "over"
Served == INSTANCE ServeTask WITH
            client  <- IF ClientOpen THEN "here" ELSE "gone",
            task    <- TaskState,
            handler <- HandlerState

\* Seen without its messages, the connection's task and handler behave as
\* ServeTask says, which AcceptLoop runs one of per accepted connection: a task
\* finishes only after its handler, and leaves none behind that is not aborted.
ServesTask == Served!Spec
=============================================================================
