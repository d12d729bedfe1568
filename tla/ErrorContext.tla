---------------------------- MODULE ErrorContext ----------------------------
(***************************************************************************)
(* The error context of a client process: a ring buffer of its last log    *)
(* entries, shared by every thread that logs and every DaemonClient, and   *)
(* printed to stderr when a call fails. It is created once, by whichever   *)
(* client connects first; the tracing layer that fills it can only be      *)
(* installed if the application has no subscriber of its own. An event is  *)
(* formatted before the buffer's mutex is taken; a dump holds the mutex    *)
(* while it prints.                                                        *)
(***************************************************************************)
EXTENDS Integers, Sequences

CONSTANTS
  Threads,      \* threads that log, connect and report errors
  BufferSize,   \* BUFFER_SIZE, 50 in the code
  MaxEvents     \* bound: events logged

ASSUME BufferAssumption == BufferSize \in Nat \ {0} /\ MaxEvents \in Nat

VARIABLES
  once,       \* GLOBAL_ERROR_CONTEXT: "empty", "initialising" or "set"
  made,       \* buffers created by its initialiser
  installed,  \* try_init succeeded: events reach the buffer
  clock,      \* the time
  entries,    \* the buffer
  mutex,      \* the threads inside of the mutex
  log,        \* every entry added so far, in order
  pc,         \* where each thread is
  event,      \* the event it has formatted
  printed     \* the entries its last dump has printed

onceVars == <<once, made, installed>>
bufVars  == <<entries, mutex, log>>
vars     == <<onceVars, clock, bufVars, pc, event, printed>>

\* An event of thread `by`, logged at `at`, which may be one that a dump follows.
Event(t, e) == [by |-> t, at |-> clock, error |-> e]
Events  == [by : Threads, at : Nat, error : BOOLEAN]
Entries == [of : Events, time : Nat]
NoEvent(t) == [by |-> t, at |-> 0, error |-> FALSE]

\* The oldest entry makes room in a full buffer.
Pushed(q, x) == Append(IF Len(q) >= BufferSize THEN Tail(q) ELSE q, x)

Goto(t, label) == pc' = [pc EXCEPT ![t] = label]

Init ==
  /\ once = "empty" /\ made = 0 /\ installed = FALSE
  /\ clock = 1
  /\ entries = <<>> /\ mutex = {} /\ log = <<>>
  /\ pc = [t \in Threads |-> "start"]
  /\ event = [t \in Threads |-> NoEvent(t)]
  /\ printed = [t \in Threads |-> <<>>]

-----------------------------------------------------------------------------
(* Faulty variants of some of the actions below, each a bug this code could *)
(* have. Nothing uses them: the README says which property each one breaks. *)

\* Looks whether there is a buffer, and makes one, in two steps.
GetOrInitRacy(t) ==
  /\ pc[t] = "start" /\ once # "set"
  /\ once' = "initialising" /\ Goto(t, "initialising")
  /\ UNCHANGED <<made, installed, clock, bufVars, event, printed>>

\* Stamps the entry with the time of the event, before the mutex is taken.
AddEntryEarlyStamp(t) ==
  /\ pc[t] = "formatted" /\ mutex = {}
  /\ LET entry == [of |-> event[t], time |-> event[t].at] IN
     /\ entries' = Pushed(entries, entry) /\ log' = Append(log, entry)
  /\ clock' = clock + 1
  /\ Goto(t, IF event[t].error THEN "failing" ELSE "ready")
  /\ UNCHANGED <<onceVars, mutex, event, printed>>

\* Throws the new entry away when the buffer is full.
AddEntryDropsNew(t) ==
  /\ pc[t] = "formatted" /\ mutex = {}
  /\ LET entry == [of |-> event[t], time |-> clock] IN
     /\ entries' = IF Len(entries) < BufferSize THEN Append(entries, entry) ELSE entries
     /\ log' = Append(log, entry)
  /\ clock' = clock + 1
  /\ Goto(t, IF event[t].error THEN "failing" ELSE "ready")
  /\ UNCHANGED <<onceVars, mutex, event, printed>>

\* Makes room only once the buffer is over its size.
AddEntryLate(t) ==
  /\ pc[t] = "formatted" /\ mutex = {}
  /\ LET entry == [of |-> event[t], time |-> clock] IN
     /\ entries' = Append(IF Len(entries) > BufferSize THEN Tail(entries) ELSE entries, entry)
     /\ log' = Append(log, entry)
  /\ clock' = clock + 1
  /\ Goto(t, IF event[t].error THEN "failing" ELSE "ready")
  /\ UNCHANGED <<onceVars, mutex, event, printed>>

\* Takes the mutex for each line instead of for the whole dump.
DumpUnlocked(t) ==
  /\ pc[t] \in {"ready", "failing"} /\ mutex = {}
  /\ printed' = [printed EXCEPT ![t] = <<>>]
  /\ Goto(t, IF entries = <<>> THEN "ready" ELSE "printing")
  /\ UNCHANGED <<onceVars, clock, bufVars, event>>

\* A panic while printing leaves the mutex locked.
PrintFailsLocked(t) ==
  /\ pc[t] = "printing"
  /\ Goto(t, "panicked")
  /\ UNCHANGED <<onceVars, clock, bufVars, event, printed>>

-----------------------------------------------------------------------------
(* get_or_init_global_error_context.                                       *)

\* The first client runs the initialiser.
GetOrInit(t) ==
  /\ pc[t] = "start" /\ once = "empty"
  /\ once' = "initialising" /\ Goto(t, "initialising")
  /\ UNCHANGED <<made, installed, clock, bufVars, event, printed>>

\* try_init fails, silently, when the application has set a subscriber before.
Initialised(t) ==
  /\ pc[t] = "initialising"
  /\ once' = "set" /\ made' = made + 1
  /\ installed' \in BOOLEAN
  /\ Goto(t, "ready")
  /\ UNCHANGED <<clock, bufVars, event, printed>>

\* Any other waits for that and shares the buffer.
GetShared(t) ==
  /\ pc[t] = "start" /\ once = "set"
  /\ Goto(t, "ready")
  /\ UNCHANGED <<onceVars, clock, bufVars, event, printed>>

-----------------------------------------------------------------------------
(* Logging and dumping.                                                    *)

\* on_event formats the message.
OnEvent(t) ==
  /\ pc[t] = "ready" /\ installed /\ clock < 2 * MaxEvents
  /\ \E e \in BOOLEAN : event' = [event EXCEPT ![t] = Event(t, e)]
  /\ clock' = clock + 1
  /\ Goto(t, "formatted")
  /\ UNCHANGED <<onceVars, bufVars, printed>>

\* add_entry, with the mutex held from the eviction to the push.
AddEntry(t) ==
  /\ pc[t] = "formatted" /\ mutex = {}
  /\ LET entry == [of |-> event[t], time |-> clock] IN
     /\ entries' = Pushed(entries, entry) /\ log' = Append(log, entry)
  /\ clock' = clock + 1
  /\ Goto(t, IF event[t].error THEN "failing" ELSE "ready")
  /\ UNCHANGED <<onceVars, mutex, event, printed>>

\* dump_to_stderr, after an error was logged or without.
Dump(t) ==
  /\ pc[t] \in {"ready", "failing"} /\ mutex = {}
  /\ printed' = [printed EXCEPT ![t] = <<>>]
  /\ IF entries = <<>> THEN Goto(t, "ready") /\ UNCHANGED mutex
                       ELSE Goto(t, "printing") /\ mutex' = {t}
  /\ UNCHANGED <<onceVars, clock, entries, log, event>>

PrintLine(t) ==
  /\ pc[t] = "printing" /\ Len(printed[t]) < Len(entries)
  /\ printed' = [printed EXCEPT ![t] = Append(@, entries[Len(@) + 1])]
  /\ UNCHANGED <<onceVars, clock, bufVars, pc, event>>

DumpEnds(t) ==
  /\ pc[t] = "printing" /\ Len(printed[t]) >= Len(entries)
  /\ mutex' = mutex \ {t}
  /\ Goto(t, "ready")
  /\ UNCHANGED <<onceVars, clock, entries, log, event, printed>>

\* eprintln! panics when stderr is closed; unwinding releases the mutex, which is
\* not poisoned.
PrintFails(t) ==
  /\ pc[t] = "printing"
  /\ mutex' = mutex \ {t}
  /\ Goto(t, "panicked")
  /\ UNCHANGED <<onceVars, clock, entries, log, event, printed>>

Next == \E t \in Threads : \/ GetOrInit(t) \/ Initialised(t) \/ GetShared(t)
                           \/ OnEvent(t) \/ AddEntry(t)
                           \/ Dump(t) \/ PrintLine(t) \/ DumpEnds(t) \/ PrintFails(t)

\* An entry to be added, or the dump of an error, waits for the mutex.
Enters(t) == AddEntry(t) \/ (pc[t] = "failing" /\ Dump(t))

Spec == Init /\ [][Next]_vars

\* Threads run; the mutex does not pass a thread over for ever (parking_lot hands
\* it over fairly from time to time). Nothing is assumed of stderr: a line may
\* take for ever.
FairSpec == Spec /\ \A t \in Threads : /\ WF_vars(Initialised(t) \/ GetShared(t) \/ DumpEnds(t))
                                       /\ SF_vars(Enters(t))

-----------------------------------------------------------------------------
(* Properties.                                                             *)

\* Every variable holds a value of its type (error_context.rs:15-41); the buffer
\* is never longer than BUFFER_SIZE.
TypeOK ==
  /\ once \in {"empty", "initialising", "set"} /\ made \in Nat /\ installed \in BOOLEAN
  /\ clock \in Nat \ {0}
  /\ entries \in Seq(Entries) /\ Len(entries) <= BufferSize
  /\ mutex \subseteq Threads
  /\ log \in Seq(Entries)
  /\ pc \in [Threads -> {"start", "initialising", "ready", "formatted", "failing", "printing",
                         "panicked"}]
  /\ event \in [Threads -> Events]
  /\ printed \in [Threads -> Seq(Entries)]

\* However many clients connect at once, there is one buffer, and the layer that
\* was installed fills the one they all dump.
OneBuffer == made <= 1

\* What a dump prints is chronological, though events are formatted, stamped and
\* added by several threads.
Chronological ==
  \A i, j \in 1..Len(entries) : i < j => entries[i].time <= entries[j].time

\* A dump prints a stretch of the log without gap or repetition, although other
\* threads go on logging, which shifts the entries of a full buffer.
DumpIsStretch ==
  \A t \in Threads :
    \E i \in 0..(Len(log) - Len(printed[t])) :
      printed[t] = SubSeq(log, i + 1, i + Len(printed[t]))

\* The dump that follows an error shows that error, unless BUFFER_SIZE entries
\* were added after it.
ErrorShown ==
  [][\A t \in Threads :
       pc[t] = "printing" /\ pc'[t] = "ready" /\ event[t].error
       => \/ \E i \in 1..Len(printed[t]) : printed[t][i].of = event[t]
          \/ \E i \in 1..Len(log) : log[i].of = event[t] /\ Len(log) - i >= BufferSize]_vars

\* A thread that logs, reports an error or waits for the buffer to be made is held
\* up only by a dump that never ends, that is by stderr; not by one that panicked.
HeldUp(t) == pc[t] \in {"formatted", "failing"} \/ (pc[t] = "start" /\ once # "empty")
HeldUpByStderr ==
  \A t \in Threads : <>[]HeldUp(t)
                       => <>[](\E u \in Threads : pc[u] = "printing")
=============================================================================
