# TLA+ model of daemon-cli

daemon-cli is a Rust library for command line tools that keep a daemon running:
a client connects to the daemon over a local socket, starts or replaces it when
necessary, sends it one command and streams its output. This directory models
the parts of it in which processes, tasks, messages and files interleave, checks
them with TLC and proves what matters most with TLAPS.

    tlc -config Connection.cfg Connection       # model-check
    tlapm ConnectionProofs.tla                  # check the proofs

Line numbers below are those of the files in `src/` of the crate.

## The system

| Part | State it keeps | Operations | What makes it correct |
|---|---|---|---|
| Connection task, `server.rs:268-451` | its place in the protocol, a chunk in hand, the handler's result, the cancellation token, a permit | handshake, receive the command, start the handler, forward output, join the handler, complete, linger, cancel, abort | output complete and in order before the answer; the answer is the handler's; no handler is left behind |
| Command call, `client.rs:583-685` | the connection, its own stdout | send the command, print chunks, return | returns; returns the result of its own command |
| Accept loop, `server.rs:207-489` | the listener's queue, the semaphore, the shutdown channel | accept, reject, back off, stop | the connection limit; no permit lost; every client hears; shutdown is obeyed |
| Client lifecycle, `client.rs:87-527` | none but local variables; the socket and PID files, processes | connect, spawn, cleanup, force_stop, restart, auto-restart | right version; no daemon lost or doubled; stopped means dead; every call returns |
| Daemon start and exit, `transport.rs:102-146`, `server.rs:207-222` | the socket file, the PID file | clear, bind, listen, publish, leave | the files name the daemon that serves |
| Process management, `process.rs:55-191` | none; the process a pid names | exists, terminate, kill | what is reported as stopped is dead; what is to be stopped goes down |
| Transport framing, `transport.rs:164-246` | a length-delimited stream | send, receive | messages whole and in order |
| Socket naming, `transport.rs:27-79` | none | short identifier, paths | different daemons, different files |
| Error context, `error_context.rs:15-157` | one ring buffer of 50 log entries per client process, behind a mutex | create once, add, dump | the last fifty, in order, without gap; a dump shows the error it is about |
| Startup reason, command context, `lib.rs` | none | text form and back | round trip |
| Build timestamp, `lib.rs:308-330` | none | mtime of the executable | the same for the same build |
| Terminal detection, `terminal.rs` | none | detect | pure |

How they interact. A client calls the daemon through one socket connection per
`DaemonClient`: `VersionCheck` both ways, then `Command`, then any number of
`OutputChunk` and one `CommandComplete` or `CommandError`. In the daemon the
accept loop gives each connection a task and a permit; the task gives the
command to a handler task and reads its output from a pipe of 8192 bytes.
Clients and daemons know each other only through the socket file, the PID file,
signals, and the modification time of the executable.

What is hard. Three tasks and two processes race within one command (output, end
of output, result, closing, grace period). Permits must come back on each of the
task's many exits. Between processes nothing is atomic: files are looked at,
then removed; a process is signalled and not waited for; a daemon is up some
time after its file is there; each step may be the last of its process.

## The modules

    CommandPromise   what a command call promises        (abstract)
    ServeTask        one connection's task, no messages  (abstract)
    DaemonPromise    what a client alone is promised     (abstract)
    Connection       one connection, both ends           implements both
    AcceptLoop       accept loop, permits, all tasks     each task is a ServeTask
    Lifecycle        clients, daemons, files, signals    implements DaemonPromise, for one client
    Terminate        one process stopped by its pid
    ErrorContext     the log buffer of a client process
    ...Inv           inductive invariants; LifecycleAlone has that of one client
    ...Proofs        theorems
    MC...            instances for TLC

**Connection** has both ends of one connection. The client (`cpc`) is in the
handshake, ready, or receiving; a `DaemonClient` may make several calls, though
the daemon serves only the first. It may fail on its own stdout, and then
(`MayReuse`) call again or not. The task (`spc`) has a state per await of
`server.rs:277-451`. The handler (`hpc`) writes bytes, closes its output early,
returns an exit code or an error, panics, ignores its token or not: nothing is
assumed of it. Output is counted in bytes and a chunk is a range of them, so a
lost, doubled or overtaken byte shows. A message may only be sent if the socket
has room; when a side goes, what it has not read is lost and the other side sees
the end of the stream. `DaemonDies` is a crash or the end of the runtime.

**ServeTask** and **CommandPromise** are what Connection is shown to implement
(`ServesTask`, `KeepsPromise`). The first is all that the accept loop needs to
know of a connection, so that AcceptLoop can run several without messages.

**AcceptLoop** is `run()` with its clients. A connection is first queued by the
operating system, then accepted with a permit, or dropped. A task's exits all
return its permit (`TaskOver`). `select!` is a choice between `SeeShutdown` and
the accept actions. `Shutdown` is the handle used or dropped, `RuntimeDrops` the
end of the runtime after `run()` returned, which takes tasks and handlers along.

**Lifecycle** is what processes do to each other. One action is one file
operation, signal, spawn or handshake of `connect_with_name_and_timestamp`,
`force_stop` or `restart`, one of `SocketServer::new` or of the way out of
`run()`. The PID file is created blank and then written, by a daemon that holds
it open even if it is removed meanwhile (`pidOpen`); `force_stop` finds it
missing, blank, or naming a dead or a living process, and removes the two files
one after the other, or not, as the code does in each case. A few places are
coarser: a look at a process goes with what follows from it at once
(`force_stop` tests for one and signals it, or gives up; a client that waits for
its child sees that it has ended and fails or tries again), a look for the
socket file goes with the attempt to connect to it, and a daemon sets the
permissions of its socket and creates the PID file in one step. What the code
does one after the other stays apart where another process may come between:
`cleanup_stale_processes` reads the PID file (`ReadPid`), signals the process it
named (`KillStale`) and removes the file (`RemovePid`); the last failed attempt
to connect to a child (`LastAttemptFails`) comes before the kill
(`StartTimesOut`) of a child that may be up by then; and a daemon reads its timestamp
(`ReadBuild`) some time after it was spawned, from the executable that is there
then. `call` holds the local variables of a client's call, `goal` says which
call it is. The n-th daemon process has pid n. A daemon goes through

    starting -> opening -> (removing ->) binding -> bound -> listening -> writing -> up -> leaving -> exiting -> exited

and may be killed anywhere; between `bound` and `listening` its file refuses
connections, in `listening` and `writing` they wait in the queue. `failing` is a
daemon whose `set_permissions` failed. A connection serves one command
(`Served`); what a command does is Connection's matter, except that the text of
its error may read like a lost connection (`FatalTexts`). The daemon program
decides what SIGTERM does to it: the library installs no handler, so by default
it kills at once, and with `GracefulTerm` the program shuts the server down.

**DaemonPromise** is what a client gets that uses the daemon alone
(`KeepsPromise`): one daemon at a time, which the client connects to when it can
be reached and is of its build. While it can be reached it is ended only by
`force_stop` and `restart`, by a crash, or by the call that started it and gave
up waiting for it (`GivesUp`): that call kills the child after its last failed
attempt to connect, and the child may have come to serve in between
(`client.rs:298-307`). It has no files, signals, handshakes or timeouts: a
living daemon either serves (it is up and both files name it) or not.

**Terminate** is one call of `process_exists` and `terminate_process` as
`force_stop` makes them, or of `kill_process`, on either system. One action is
one call to the operating system. `holder` is what the pid names at the moment:
the daemon, nobody, or a stranger that got the number; `access` is what the
caller may do to it; `target` tells a running daemon from one that has ended and
whose entry is still there (a zombie, or an open handle). The daemon may end at
any step, be reaped soon, late or never, and its pid be given away. Lifecycle
takes the outcome for granted where it is alone with a daemon of its own user.

**ErrorContext** is the one buffer of a client process and the threads that
connect, log, and dump. `get_or_init` is two steps, for the other threads wait
in it; an event is formatted before the mutex is taken and stamped under it; a
dump goes line by line with the mutex held, and may panic on a closed stderr.
`log` is a history of all entries.

Each of the five has a section of *faulty variants*: actions with a bug that
code like this could have. Nothing uses them; put in the place of the action
they are a variant of, each makes TLC refute a property, which shows that the
property looks at something.

| Run | Property | Broken by (in place of) |
|---|---|---|
| connection | TypeOK | SendCompletionTextless (SendCompletion) |
| | StdoutIsOutput | SendChunkAgain (SendChunk) |
| | AnswerAfterOutput | ReachEofUndrained (ReachEof) |
| | AnswerIsHandlers | ReachEofUnjoined (ReachEof) |
| | AnswersOwnCommand | LingerReplies (Linger) |
| | NoOrphanHandler | SendChunkFailsDetached (SendChunkFails) |
| | NoStandstill | HandlerReturnsWriterKept (HandlerReturns) |
| | KeepsPromise | ReceiveClosedAsSuccess (ReceiveClosed) |
| | ServesTask | GraceExpiresDetached (GraceExpires) |
| | CallReturns | HandlerReturnsWriterKept (HandlerReturns) |
| | TaskEnds | GraceUnlimited (GraceExpires) |
| accept | TypeOK | RejectReturnsPermit (Reject) |
| | ConnectionsWithinLimit | AcceptDropsPermit (Accept) |
| | ExecutionsWithinLimit | GraceExpiresDetached (GraceExpires) |
| | RefusedOnlyAtCapacity | GraceExpiresKeepsPermit (GraceExpires) |
| | TasksServe | GraceExpiresDetached (GraceExpires) |
| | EveryClientHears | RejectWaits (Reject) |
| | ShutdownStops | SeeShutdownWhenIdle (SeeShutdown) |
| | CapacityReturns | GraceUnlimited (GraceExpires) |
| | NobodyForgotten | RejectKeepsStream (Reject) |
| life_one_client | TypeOK | ReadyOnceAlive (Ready) |
| | OwnVersion | AnsweredAnySecond (Answered) |
| | NoLostDaemon | KillStaleSkipped (KillStale) |
| | StartsAlone | StartTimesOutLeaving (StartTimesOut) |
| | ConnectFailsForCause | AnsweredMismatchFails (Answered) |
| | KeepsPromise | ConnectSkipped (Connect) |
| | CallsBounded | AnsweredRestartsAgain (Answered) |
| life_two_clients | StopsForGood | TermTimesOutSparing (TermTimesOut) |
| | CallsReturn | StartNeverTimesOut (StartTimesOut) |
| terminate | TypeOK | CheckGraceOnceMore (CheckGrace) |
| | ReportsDead | CheckAnyError (Check) |
| | DeniedUnharmed | SendKillDenied (SendKill) |
| | NotSpared | SendKillNever (SendKill) |
| | StopTakesEffect | CheckGraceUnlimited (CheckGrace) |
| error_context | TypeOK | AddEntryLate (AddEntry) |
| | OneBuffer | GetOrInitRacy (GetOrInit) |
| | Chronological | AddEntryEarlyStamp (AddEntry) |
| | DumpIsStretch | DumpUnlocked (Dump) |
| | ErrorShown | AddEntryDropsNew (AddEntry) |
| | HeldUpByStderr | PrintFailsLocked (PrintFails) |

## The runs

Six runs pass and six show where the code and its documentation disagree.

| Run | Configuration | Instance | States | Shows |
|---|---|---|---|---|
| connection | Connection.cfg | 2 calls, 6 bytes of output, pipe 3, chunk 2, socket 2 messages, 2 exit codes, 2 timestamps, client stdout may fail, fair | 35044 | output intact and before the answer, results faithful and of the right command, no orphaned handler; implements CommandPromise and ServeTask; client, task and handler never all wait for one another, so only a handler that does not go on, and was not cancelled, can hold a call or a task |
| accept | AcceptLoop.cfg | 3 clients, limit 2, 1 transient error, fatal error, shutdown, drop, fair | 181920 | the limit holds for connections and for executions not being aborted, no permit is lost or doubled, nobody is refused below it; no client is forgotten and every client hears, shutdown stops, permits come back |
| life_one_client | Lifecycle.cfg | 1 client with auto-restart, 5 daemons, 2 builds, 4 calls, crashes, slow starts, fatal texts | 289219 | right version, no daemon lost or doubled, connecting fails only for a cause; implements DaemonPromise; calls are bounded |
| life_two_clients | LifecyclePeers.cfg | 2 clients, 2 daemons, 3 calls, SIGTERM handled slowly, daemons that stop, clients killed in a call, fair | 353920 | every call returns; what force_stop stopped is dead |
| terminate | Terminate.cfg | both systems, 3 checks, all rights, pid reuse, fair | 593 | reported as stopped means dead; what is not ours is left alone, what is ours is not spared; the call returns and takes effect |
| error_context | ErrorContext.cfg | 2 threads, buffer of 2, 4 events, fair | 291485 | one buffer, chronological; dumps without gap that show their error; only a stalled stderr holds a thread up |
| connection_silent_handler | ConnectionSilent.cfg | 1 call | | CloseCancels fails |
| connection_reuse | ConnectionAbandon.cfg | 2 calls, the second after a failed stdout | | AnswersOwnCommand fails |
| accept_handle_dropped | AcceptLoopDrop.cfg | 2 clients | | StopsOnlyOnRequest fails |
| life_removes_live_socket | LifecycleStale.cfg | 2 clients, 3 daemons | | RemovesStaleOnly fails |
| life_second_command | LifecycleReuse.cfg | 1 client with auto-restart | | AutoRestartsDead fails |
| life_fatal_text | LifecycleFatal.cfg | 1 client with auto-restart, 2 calls | | RetriesUnanswered fails |

Deadlock is checked in all of them but error_context: where a model is finished
it may stutter (`Done`), or a process or daemon may still end, so a state in
which something is unfinished and nothing can happen is an error. In
error_context all threads may have panicked, which is a real end; that no thread
is stuck while another could let it go on is HeldUpByStderr.

### Why the bounds are enough

*Connection.* The pipe is smaller than the output, a chunk smaller than the
pipe, and the socket smaller than the messages of one command, so every buffer
fills and everyone waits on everyone: the handler on the pipe, the task on the
socket, the client on the task. Six bytes give a chunk that spans two writes, a
write that spans two chunks and a remainder. The real sizes (8192-byte pipe,
4096-byte reads) have the same order. Two calls are the fewest with a *next*
call; the server serves one. The timestamps are only compared, so two do.

*AcceptLoop.* Three clients and two permits: one waits or is refused while two
are served, and the second permit shows what is lost when only one comes back.
With one transient error the loop is in its backoff at every point of a task's
life; a second would meet the same states.

*Lifecycle.* Four calls by one client let it start, lose, replace and stop a
daemon and start again over what is left; five daemons are as many as it can
start in that time, with the one that was there before. Two builds give an old
and a new daemon under an old and a new client. With two clients three calls are
enough for one to be inside a call while the other begins and ends two;
MaxDaemons = 2 makes `Spawn` fail when both places are taken, as fork may. The
bounds are in the guards of `Begin`, `ForceStop` and the `Execute` actions
(Budget), `Spawn` (MaxDaemons) and `Rebuild` (MaxBuild).

*Terminate.* There is one daemon and one call, so the state space is complete
but for the number of checks: three for the ten of `terminate_process(pid,
1000)`, which leaves a first, a middle and a last one.

*ErrorContext.* Four events overflow a buffer of two twice, as fifty and more do
the real one, and two threads are the fewest with one that adds while another
formats or dumps. The clock advances only at events and additions; the bound is
in the guard of `OnEvent`.

## What the failing runs show

**connection_silent_handler.** The client closes the connection while its
handler works without output. The task waits for output or the end of the
handler (`server.rs:344-440`) and never reads the socket, so the cancellation of
`server.rs:392` is only reached by a failing send: the handler goes on and keeps
its permit. In the trace it has even closed its output, and the task waits for
it outside of `select!` (`server.rs:352`). The docs say that closing cancels
(`server.rs:198`, `client.rs:576`). The run assumes a handler that returns as
soon as its token is cancelled, so it is not the handler's fault.

**connection_reuse.** `execute_command` writes a chunk to stdout, which fails (a
closed pipe), and returns the error (`client.rs:653`). The command goes on in
the daemon. The next `execute_command` on the same client sends a command nobody
reads, receives the rest of the *first* command's output and returns its exit
code. Without such a second call AnswersOwnCommand holds (connection, and the
theorem AnswerOwn).

**accept_handle_dropped.** The docs of the three constructors say that the
server runs on when the handle is dropped (`server.rs:83-84`, `:118-119`,
`:151-152`). Dropping it drops the sender of the one-shot channel, which
resolves the receiver with an error, and `_ = &mut self.shutdown_rx`
(`server.rs:238`) does not tell an error from a signal.

**life_removes_live_socket.** Client 1 starts a daemon. Client 2 tries to
connect before it has bound its socket, looks for the file after it has
(`client.rs:110`), concludes that the daemon crashed and removes the file. The
daemon listens on a socket nobody can reach. `client.rs:112` and `lib.rs:218`
speak of a daemon that crashed.

**life_second_command.** A connection serves one command. The second command of
a `DaemonClient` fails with a closed connection, which `client.rs:568` counts as
the sign of a dead daemon; with auto-restart the healthy daemon is stopped and
replaced. AutoRestartsDead says what `client.rs:557-561` does.

**life_fatal_text.** The handler returns an error whose text contains
"connection refused", say of a database of its own. The daemon answers
`CommandError`, the client makes of it "Command failed: ..." (`client.rs:664`),
and `is_fatal_connection_error` searches that text (`client.rs:563-570`). With
auto-restart the client stops the healthy daemon, with every other client's
command, and runs the command a second time, though it was run and answered.
`client.rs:560-561` says "Returns false for normal errors".

Other differences, seen while modelling, that no run is spent on:

- A client restarts a daemon whose timestamp *differs* (`client.rs:155`); the
  docs speak of a newer client (`client.rs:18-19`, `server.rs:34-35`). A client
  of the older build thus replaces the newer daemon. `Answered` models the code.
- `StartupReason::ForceRestarted` is documented as a restart by the user
  (`lib.rs:220`) and is also the reason after an auto-restart (`client.rs:598`).
- An aborted handler goes on until its next await, with its permit already
  returned (`server.rs:444`), so `max_connections` bounds executing handlers only up
  to those that are being aborted, against the comment of the test at
  `integration_tests.rs:585-591`. ExecutionsWithinLimit says what holds.
- `kill_process` is documented as "Quick kill without graceful shutdown attempt"
  (`process.rs:39`); on Unix it runs `kill <pid>`, which sends SIGTERM
  (`process.rs:117`). `KillProcess` and `KillStale` model the code.
- On Windows a process that may not even be queried is reported as not running or
  already dead (`process.rs:133`, `:161`), and `force_stop` removes its files. This is the
  exception `Hidden` of ReportsDead; on Unix such a process is reported as it is.
- A daemon that is a child of the caller and not yet reaped is still there for
  `kill(2)`, so `terminate_process` may end with "Process survived SIGKILL" for a
  process that is dead; the tests accept it (`process.rs:247-253`). StopTakesEffect
  therefore speaks of the process, not of the answer.
- A child that comes up after the client's last failed attempt to connect
  (`client.rs:297-298`) and before the kill (`client.rs:307`) is killed while it serves,
  perhaps already another client. `client.rs:306` speaks of a startup process.
- `get_build_timestamp` is documented in seconds (`lib.rs:286`) and returns
  milliseconds (`lib.rs:318`).
- The spawned daemon is called detached (`client.rs:261`) but stays in the client's
  process group, so Ctrl+C in the terminal of the client that started it reaches it.
- NoLostDaemon, StartsAlone and ConnectFailsForCause hold for one client at a time and for daemons that
  SIGTERM kills at once. They fail with GracefulTerm or MayStop, because
  `cleanup_stale_processes` does not wait for the process it signals
  (`client.rs:321`) and a daemon on its way out removes files by name, its
  successor's included (`server.rs:219`, and the listener when it is dropped). They fail with two clients,
  because two that both see no daemon both start one; and with a client killed in a
  call (MayInterrupt), whose daemon may be left on its way up for the next client to
  take for a dead one. So each of the four assumptions of `Undisturbed`
  (LifecycleAlone) is needed: without any one of them TLC refutes NoLostDaemon,
  StartsAlone and ConnectFailsForCause.

## Fairness

Safety properties are checked and proved under `Spec`, without fairness.

- `Connection!FairSpec`: the task polls what is ready (`ServerNext`), the client
  reads what has arrived (`ClientReceives`), and an aborted handler stops
  (`HandlerAborted`). The first two are tokio's scheduling of a woken task, the
  timers of the linger and the grace period included; the third is what `abort`
  does at the next await. *Nothing* is assumed of the handler or the user:
  CallReturns and TaskEnds therefore do not say that a call returns, but that a
  call that never does has, from some time on, a handler which could go on (write
  or return) and does not. A wait of pipe, task and socket for each other would
  refute them.
- `ObedientSpec` adds that the handler's pending write gets done and that it
  returns once cancelled. It is the weakest under which CloseCancels is
  reasonable, and is used to refute it.
- `AcceptLoop!FairSpec`: the loop polls its listener, its timer and its shutdown
  receiver, and each task takes its own steps. `select!` picks at random among ready
  branches, so a pending shutdown is seen whatever arrives: with the connections of
  a finite set of clients weak fairness is enough. Clients and handlers are free,
  except that a client that stays is taken to read its answer, which Connection does
  not assume of one whose stdout has failed. CapacityReturns says what that leaves: a task that has answered or has
  cancelled its handler ends, though its client stays and its handler does not obey;
  and permits still missing when all clients are gone are held by running handlers.
  A client that stays and never sends its command, or stops reading, holds its
  permit as long as it likes: the code has no timeout for it, and no property says
  otherwise.
- `Lifecycle!FairSpec`: each client and each daemon goes on while it can. The waits
  for a child to serve and for a process to end are bounded by timeouts in the code
  (`client.rs:303`, `process.rs:85`), which are steps of the client. The wait for
  the daemon's version is not (`client.rs:147`, `:186`): CallsReturn rests there on
  the fairness of the daemon, which comes up, leaves or fails, so that the client
  gets an answer or a closed connection. A daemon that hangs without ending would
  hold the client for ever.
- `Terminate!FairSpec`: the caller's timers fire (every wait of it is one), and
  SIGKILL ends a process. Nothing is assumed of SIGTERM, of the parent that should reap
  the process, or of who gets the pid.
- `ErrorContext!FairSpec`: a thread in `get_or_init` or at the end of its dump goes
  on; and whoever waits for the mutex gets it if it is free again and again (strong
  fairness: parking_lot hands a contended mutex over from time to time). Nothing is
  assumed of stderr, so HeldUpByStderr says that a thread that never gets on waits
  for a dump that never ends, and for nothing else.

## The proofs

`tlapm` checks all of these, for every value of the constants that satisfies the
named assumptions; there are no axioms and no steps left out.

| Module | Theorem | States |
|---|---|---|
| ConnectionProofs | Typing | TypeOK |
| | OutputIntact, AnswerLast | StdoutIsOutput, AnswerAfterOutput |
| | AnswerFaithful, AnswerOwn | AnswerIsHandlers, AnswersOwnCommand |
| | HandlerNotOrphaned | NoOrphanHandler |
| | NeverAtStandstill | NoStandstill |
| | ConnectionKeepsPromise | Connection implements CommandPromise |
| | ConnectionServes | Connection implements ServeTask |
| AcceptLoopProofs | Typing | TypeOK |
| | LimitKept, ExecutionsLimited | ConnectionsWithinLimit, ExecutionsWithinLimit |
| | NoPermitLost | RefusedOnlyAtCapacity |
| | ServedWell | every task is a ServeTask |
| | NoneForgotten | NobodyForgotten |
| LifecycleProofs | Typing | TypeOK |
| | VersionsAgree | OwnVersion |
| | StoppedForGood | StopsForGood |
| | NoEndlessCall | CallsBounded |
| LifecycleAloneProofs | NoDaemonLost, OneAtATime | NoLostDaemon, and never two living daemons |
| | StartedAlone, FailsOnlyForCause | StartsAlone, ConnectFailsForCause |
| LifecyclePromiseProofs | ClientPromised | Lifecycle implements DaemonPromise |
| TerminateProofs | Typing | TypeOK |
| | DeathReported, DenialHarmless | ReportsDead, DeniedUnharmed |
| | KilledIfNeeded | NotSpared |
| ErrorContextProofs | Typing | TypeOK (with the size of the buffer) |
| | BufferIsOne, InOrder | OneBuffer, Chronological |
| | DumpsAreStretches, ErrorsShown | DumpIsStretch, ErrorShown |
| | NoneLeftHolding | whoever waits for buffer or mutex waits for a thread that is at it |

**Connection.** Assumptions: the sets of timestamps and exit codes are not
empty, buffers hold at least one byte or message, bounds are natural numbers.
What the client will print and return is decided long before it does, so none of
the properties is inductive. `IInv` (ConnectionInv) adds: *HandlerInv*, the
task's bookkeeping against the handler (in particular that at the end of output
everything written has been taken); *ResultInv*, an answer on the socket is the
handler's result; *PhaseInv*, which side may be where while which messages are
under way, so that an answer on the socket belongs to the current call;
*CallInv*, calls are made one after the other; *StreamInv*, what is printed,
queued, in hand and in the pipe are adjoining ranges of the output. The last
three fail once a client calls again after a call that failed on its stdout
(connection_reuse) and are conditional on `~MayReuse`, as the properties or
theorems that rest on them are: OutputIntact, AnswerLast, AnswerOwn and
ConnectionKeepsPromise. The two implementation theorems take each step under
`IInv` to a step or a stutter of the abstract module.

*WaitInv* is for NeverAtStandstill: it says what is on the socket while the task
waits for the version or the command, and that a handler is aborted only by the
task's end. With it the theorem goes round the circle: a client that waits has
an empty socket and the task has not ended; a task that cannot go on waits for a
full socket, whose reader then can, or for the handler; and a handler that
cannot go on waits for a full pipe, which the task then reads. WaitInv holds
with `MayReuse` too, and so does the theorem. What "can go on" means is spelled
out (ClientCouldGoOn, TaskCouldGoOn, HandlerCouldGoOn), as ENABLED is out of the
provers' reach; TLC has confirmed on the instance of the run that the first two
are ENABLED of ClientReceives (once connected) and of ServerNext.

**AcceptLoop.** Assumptions: finitely many clients, natural bounds. The argument
is one equation, permits plus live tasks make max_connections (*PermitsMatch*),
kept by each exit because `TaskOver` returns exactly the permit of the task it
ends; the rest (*BacklogInv*, *TaskInv*) is needed to know that a task that
starts was not alive and one that ends was. Cardinality is handled by two
lemmas, one for a task that becomes alive or ends and one for the rest.
NobodyForgotten is kept by every step that takes a client from the queue: it
gets a task, or is told.

**Lifecycle.** Assumptions: AutoClients is a subset of Clients, bounds are
natural, flags are Boolean; any number of clients. Versions agree because a
daemon reads its build once, before it can be connected to (*Settled*), and pids
are not given out again: *PidsInOrder* says that what a client knows about a
process stays true of it, *ConnectionsMatch* that a client that holds a
connection has it to its own build, through calls that fail halfway and leave
the old one in place, *CallsMatch* that watched processes exist, and
*PidFileMatches* that the PID file, written or blank, names no process to come:
`force_stop` could not conclude from it that its process is dead.

NoEndlessCall gives each step of a call a rank (StepsLeft): the steps that
remain if nothing has to be replaced, and thirteen more as long as the one
replacement that a call may ask for is still ahead. Every step of the client
lowers it, whatever answers it gets, and no other process changes it;
*FirstReason* is needed to know that a call begins with the replacement ahead.
It makes 28 steps in all. Besides the run of one client, TLC has checked
CallsBounded, FirstReason, OwnVersion and StopsForGood once on the instance of
life_two_clients with two builds (4381817 states).

**Lifecycle, one client** (LifecycleAlone). The assumption is `Undisturbed`: one
client, that is not killed in a call, and daemons that SIGTERM kills and that do
not stop by themselves; they may still crash, hang in their start, and meet any
rebuild. The properties are about moments between calls, so the invariant is
about all others: *Knows* says for each step of a call what the client may rely
on. At rest every living daemon serves; where files have been cleaned up there
is none; while a client waits for its child, or is about to kill it, that child
is the only living daemon, and it is on its way up with nothing in its way
(*Rises*), up, or killed. *NotOlder* and *Fresh* add that the child, once it has
read its timestamp, is not older than the client and that only a daemon of
another build is put out of reach, without which connecting could fail for no
cause, and DaemonPromise would not be kept. `AloneInv` was checked by TLC on the
instance of life_one_client first. ClientPromised then takes each step under it
to a step or a stutter of DaemonPromise: most steps on files are invisible,
`unlink` is a Withdraw, the signal of `cleanup_stale_processes` a Replace, the
kill after a start timeout a GivesUp.

**Terminate.** Assumption: the number of checks is natural. *CallInv* adds that
the pid names the daemon exactly until its entry is gone (so ESRCH, or a
stranger's answer, means that it is dead), and that what has been signalled was
open to the caller and stays so (so a later EPERM is about another process). For
NotSpared it adds that after the grace period the way on leads through SIGKILL
or through an answer that the process is gone.

**ErrorContext.** Assumptions: the buffer holds at least one entry, bounds are
natural; any set of threads. *BufferIsEnd* ties the ring buffer to the log: it
is the log's end, all of it until it is full. *PrinterHolds* says that what a
dump has printed is the beginning of a buffer that nobody else can change,
*DumpsInLog* that it stays part of the log when the buffer moves on,
*LogInOrder* that no entry is later than the clock, *ErrorsLogged* that whoever
reports an error has added it, *OneMaker* that one thread makes the buffer.
NoneLeftHolding holds because each way out of a dump, the panic included, lets
go of the mutex.

Model-checked only: liveness (CallReturns, TaskEnds, EveryClientHears,
ShutdownStops, CapacityReturns, CallsReturn, StopTakesEffect, HeldUpByStderr),
which the proof system's backends do not reach. Its safety half is proved where
it could be stated: that nobody waits in a circle (NoStandstill), that no client
is dropped from the books (NobodyForgotten), that a call has only so many steps
(CallsBounded), that SIGKILL is not skipped (NotSpared), that no thread leaves
with the mutex (NoneLeftHolding). That what can happen then does is fairness,
and TLC's.

## What is not modelled

- The Windows half of `transport.rs` (named pipes). That of `process.rs` is in Terminate.
- Errors of the file system that are not about existence: a directory that cannot be
  written, a PID file that cannot be read or holds something else than a number the
  daemon wrote, a write of it that fails (a warning only).
- In Lifecycle, daemons of another user: what `force_stop` returns for them is in
  Terminate, and it touches nothing then.
- Framing: messages are values on an ordered stream. Bytes, length prefixes and
  JSON are `LengthDelimitedCodec`'s and serde's.
- In Lifecycle, a daemon that refuses at its connection limit, and the contents of
  commands.
- Socket naming: no state. A digest of the root path is cut to four base62 digits;
  which two roots share them is a matter of the hash alone, and a model would assume
  its answer.
- The text form of a startup reason (`lib.rs:226-248`), a table of four lines and its
  inverse; terminal detection, which reads the environment and keeps nothing; the
  text of log messages.
- The unit and the absence of a build timestamp: timestamps are only compared.
- The examples: programs that use the library. That the daemon they start installs no
  handler for SIGTERM is where GracefulTerm = FALSE comes from.

## The plan

Done, in this order: Connection with its two abstract specifications, since a
command's output and result are what the library is for; AcceptLoop, whose tasks
are ServeTasks; Lifecycle, then in finer steps (the PID file created and
written, `force_stop` file by file); Terminate and ErrorContext; the proofs of
each.

Then the proofs about one client alone: its invariant, the four properties that
rest on it, DaemonPromise and that Lifecycle implements it; and the safety
halves of the liveness properties.

Next:

1. **The safety half of CapacityReturns**: a permit that is missing when all clients
   are gone is held by a task that can go on or by a running handler.
2. **The connection limit in Lifecycle**: a client that connects and is dropped.
