------------------------- MODULE ErrorContextProofs -------------------------
(***************************************************************************)
(* Proofs about ErrorContext, for any number of threads and events, any    *)
(* size of the buffer, and a stderr that is slow or closed.                *)
(***************************************************************************)
EXTENDS ErrorContext, TLAPS

(* At most one thread is in the initialiser, and none once it is over.     *)
OneMaker ==
  /\ once = "set" => made = 1
  /\ once # "set" => made = 0
  /\ \A t \in Threads : pc[t] = "initialising" => once = "initialising"
  /\ \A t, u \in Threads : pc[t] = "initialising" /\ pc[u] = "initialising" => t = u

(* The buffer is the end of the log, all of it until the buffer is full.   *)
BufferIsEnd ==
  /\ Len(entries) <= Len(log)
  /\ Len(entries) < Len(log) => Len(entries) = BufferSize
  /\ \A i \in 1..Len(entries) : entries[i] = log[Len(log) - Len(entries) + i]

(* Entries are logged in the order of their times.                         *)
LogInOrder ==
  /\ \A i \in 1..Len(log) : log[i].time < clock
  /\ \A i, j \in 1..Len(log) : i < j => log[i].time <= log[j].time

(* A thread that prints has the mutex, and has printed a part of the buffer. *)
PrinterHolds ==
  \A t \in Threads : pc[t] = "printing" =>
    /\ mutex = {t}
    /\ Len(printed[t]) <= Len(entries)
    /\ \A i \in 1..Len(printed[t]) : printed[t][i] = entries[i]

(* A dump is a part of the log, entry by entry.                            *)
PartOfLog(q) ==
  \E i \in 0..(Len(log) - Len(q)) : \A k \in 1..Len(q) : q[k] = log[i + k]

DumpsInLog == \A t \in Threads : PartOfLog(printed[t])

(* A thread that has logged an error has added it.                         *)
ErrorsLogged ==
  \A t \in Threads : pc[t] # "formatted" /\ event[t].error
                     => \E i \in 1..Len(log) : log[i].of = event[t]

\* Whoever waits for the buffer to be made or for its mutex waits for a thread that is
\* at it: none ends, by a panic included, with the mutex or half of a buffer.
HeldByWorking ==
  /\ mutex # {} => \E t \in Threads : pc[t] = "printing" /\ mutex = {t}
  /\ once = "initialising" => \E t \in Threads : pc[t] = "initialising"

IInv == /\ TypeOK /\ OneMaker /\ BufferIsEnd /\ LogInOrder /\ PrinterHolds
        /\ DumpsInLog /\ ErrorsLogged

-----------------------------------------------------------------------------
(* Adding an entry.                                                        *)

(* A push keeps the newest entries, and the buffer within its size.        *)
LEMMA Pushes ==
  ASSUME NEW q \in Seq(Entries), NEW x \in Entries, Len(q) <= BufferSize
  PROVE  /\ Pushed(q, x) \in Seq(Entries)
         /\ Len(Pushed(q, x)) = IF Len(q) >= BufferSize THEN Len(q) ELSE Len(q) + 1
         /\ Len(Pushed(q, x)) <= BufferSize
         /\ \A i \in 1..Len(Pushed(q, x)) :
              Pushed(q, x)[i] = IF i = Len(Pushed(q, x)) THEN x
                                ELSE IF Len(q) >= BufferSize THEN q[i + 1] ELSE q[i]
<1>1. CASE Len(q) >= BufferSize
  <2>1. /\ Tail(q) \in Seq(Entries) /\ Len(Tail(q)) = Len(q) - 1
        /\ \A i \in 1..Len(Tail(q)) : Tail(q)[i] = q[i + 1]
    BY <1>1, BufferAssumption
  <2>2. Pushed(q, x) = Append(Tail(q), x)
    BY <1>1 DEF Pushed
  <2>3. /\ Append(Tail(q), x) \in Seq(Entries) /\ Len(Append(Tail(q), x)) = Len(q)
        /\ \A i \in 1..Len(q) : Append(Tail(q), x)[i] = IF i = Len(q) THEN x ELSE Tail(q)[i]
    <3>1. Len(q) \in Nat
      OBVIOUS
    <3> DEFINE p == Tail(q)
    <3>2. p \in Seq(Entries) /\ Len(p) = Len(q) - 1
      BY <2>1
    <3> HIDE DEF p
    <3>3. /\ Append(p, x) \in Seq(Entries) /\ Len(Append(p, x)) = Len(p) + 1
          /\ \A i \in 1..(Len(p) + 1) : Append(p, x)[i] = IF i = Len(p) + 1 THEN x ELSE p[i]
      BY <3>2
    <3>4. Len(p) + 1 = Len(q)
      BY <3>1, <3>2
    <3>5. QED
      BY <3>3, <3>4 DEF p
  <2>4. \A i \in 1..Len(q) : i # Len(q) => Tail(q)[i] = q[i + 1]
    <3>1. Len(q) \in Nat
      OBVIOUS
    <3>2. \A i \in 1..Len(q) : i # Len(q) => i \in 1..(Len(q) - 1)
      BY <3>1
    <3>3. \A i \in 1..(Len(q) - 1) : Tail(q)[i] = q[i + 1]
      <4> DEFINE p == Tail(q)
      <4>1. Len(p) = Len(q) - 1 /\ \A i \in 1..Len(p) : p[i] = q[i + 1]
        BY <2>1
      <4> HIDE DEF p
      <4>2. \A i \in 1..(Len(q) - 1) : p[i] = q[i + 1]
        BY <4>1
      <4>3. QED
        BY <4>2 DEF p
    <3>4. QED
      BY <3>2, <3>3
  <2>5. QED
    BY <1>1, <2>2, <2>3, <2>4
<1>2. CASE Len(q) < BufferSize
  <2>1. Pushed(q, x) = Append(q, x)
    BY <1>2, BufferAssumption DEF Pushed
  <2>2. QED
    BY <1>2, <2>1, BufferAssumption
<1>3. QED
  BY <1>1, <1>2, BufferAssumption

(* What was in the log stays there.                                        *)
LEMMA LogGrows ==
  ASSUME NEW q \in Seq(Entries), log \in Seq(Entries), log' \in Seq(Entries), PartOfLog(q),
         Len(log) <= Len(log'), \A i \in 1..Len(log) : log'[i] = log[i]
  PROVE  \E i \in 0..(Len(log') - Len(q)) : \A k \in 1..Len(q) : q[k] = log'[i + k]
<1>1. PICK i \in 0..(Len(log) - Len(q)) : \A k \in 1..Len(q) : q[k] = log[i + k]
  BY DEF PartOfLog
<1>2. i \in 0..(Len(log') - Len(q))
  OBVIOUS
<1>3. \A k \in 1..Len(q) : q[k] = log'[i + k]
  <2> TAKE k \in 1..Len(q)
  <2>1. i + k \in 1..Len(log)
    OBVIOUS
  <2>2. QED
    BY <1>1, <2>1
<1>4. QED
  BY <1>2, <1>3

(* The first entries of the buffer are a part of the log.                  *)
LEMMA BufferInLog ==
  ASSUME NEW q \in Seq(Entries), entries \in Seq(Entries), log \in Seq(Entries),
         BufferIsEnd, Len(q) <= Len(entries), \A k \in 1..Len(q) : q[k] = entries[k]
  PROVE  PartOfLog(q)
<1> DEFINE i == Len(log) - Len(entries)
<1>1. i \in 0..(Len(log) - Len(q))
  BY DEF BufferIsEnd
<1>2. \A k \in 1..Len(q) : q[k] = log[i + k]
  BY DEF BufferIsEnd
<1>3. QED
  BY <1>1, <1>2 DEF PartOfLog

(* add_entry: the parts of the invariant that the log is in.               *)
LEMMA AddEntryStep ==
  ASSUME IInv, NEW t \in Threads, AddEntry(t)
  PROVE  IInv'
<1> DEFINE x == [of |-> event[t], time |-> clock]
<1>1. /\ pc[t] = "formatted" /\ mutex = {} /\ x \in Entries
      /\ entries' = Pushed(entries, x) /\ log' = Append(log, x) /\ clock' = clock + 1
      /\ pc' = [pc EXCEPT ![t] = IF event[t].error THEN "failing" ELSE "ready"]
      /\ UNCHANGED <<once, made, installed, mutex, event, printed>>
  BY DEF AddEntry, Goto, IInv, TypeOK, Entries, onceVars
<1>2. /\ entries \in Seq(Entries) /\ Len(entries) <= BufferSize /\ log \in Seq(Entries)
      /\ clock \in Nat /\ Len(log) \in Nat /\ Len(entries) \in Nat
  BY DEF IInv, TypeOK
<1> HIDE DEF x
<1>3. /\ entries' \in Seq(Entries) /\ Len(entries') <= BufferSize
      /\ Len(entries') = IF Len(entries) >= BufferSize THEN Len(entries) ELSE Len(entries) + 1
      /\ \A i \in 1..Len(entries') :
           entries'[i] = IF i = Len(entries') THEN x
                         ELSE IF Len(entries) >= BufferSize THEN entries[i + 1] ELSE entries[i]
  <2> DEFINE p == Pushed(entries, x)
  <2>1. /\ p \in Seq(Entries) /\ Len(p) <= BufferSize
        /\ Len(p) = IF Len(entries) >= BufferSize THEN Len(entries) ELSE Len(entries) + 1
        /\ \A i \in 1..Len(p) :
             p[i] = IF i = Len(p) THEN x
                    ELSE IF Len(entries) >= BufferSize THEN entries[i + 1] ELSE entries[i]
    BY <1>1, <1>2, Pushes
  <2>2. entries' = p
    BY <1>1
  <2> HIDE DEF p
  <2>3. QED
    BY <2>1, <2>2
<1>4. /\ log' \in Seq(Entries) /\ Len(log') = Len(log) + 1 /\ log'[Len(log')] = x
      /\ \A i \in 1..Len(log) : log'[i] = log[i]
  BY <1>1, <1>2
<1>5. TypeOK'
  BY <1>1, <1>2, <1>3, <1>4 DEF IInv, TypeOK
<1>6. OneMaker'
  BY <1>1 DEF IInv, TypeOK, OneMaker
<1>7. BufferIsEnd'
  <2>1. Len(entries') <= Len(log')
        /\ (Len(entries') < Len(log') => Len(entries') = BufferSize)
    BY <1>2, <1>3, <1>4, BufferAssumption DEF IInv, BufferIsEnd
  <2>2. \A i \in 1..Len(entries') : entries'[i] = log'[Len(log') - Len(entries') + i]
    <3> TAKE i \in 1..Len(entries')
    <3>1. CASE i = Len(entries')
      BY <1>3, <1>4, <3>1
    <3>2. CASE i # Len(entries') /\ Len(entries) >= BufferSize
      <4>1. i + 1 \in 1..Len(entries) /\ entries'[i] = entries[i + 1]
        BY <1>2, <1>3, <3>2
      <4>2. entries[i + 1] = log[Len(log) - Len(entries) + (i + 1)]
        BY <4>1 DEF IInv, BufferIsEnd
      <4>3. Len(log) - Len(entries) + (i + 1) \in 1..Len(log)
        BY <1>2, <4>1 DEF IInv, BufferIsEnd
      <4>4. Len(log') - Len(entries') + i = Len(log) - Len(entries) + (i + 1)
        BY <1>2, <1>3, <1>4, <3>2
      <4>5. QED
        BY <1>4, <4>1, <4>2, <4>3, <4>4
    <3>3. CASE i # Len(entries') /\ ~(Len(entries) >= BufferSize)
      <4>1. i \in 1..Len(entries) /\ entries'[i] = entries[i]
        BY <1>2, <1>3, <3>3
      <4>2. entries[i] = log[Len(log) - Len(entries) + i]
        BY <4>1 DEF IInv, BufferIsEnd
      <4>3. Len(log) - Len(entries) + i \in 1..Len(log)
        BY <1>2, <4>1 DEF IInv, BufferIsEnd
      <4>4. Len(log') - Len(entries') + i = Len(log) - Len(entries) + i
        BY <1>2, <1>3, <1>4, <3>3
      <4>5. QED
        BY <1>4, <4>1, <4>2, <4>3, <4>4
    <3>4. QED
      BY <3>1, <3>2, <3>3
  <2>3. QED
    BY <2>1, <2>2 DEF BufferIsEnd
<1>8. LogInOrder'
  <2>1. x.time = clock
    BY DEF x
  <2>2. \A i \in 1..Len(log) : log[i].time \in Nat /\ log[i].time < clock
    <3> TAKE i \in 1..Len(log)
    <3>1. log[i] \in Entries
      BY <1>2
    <3>2. QED
      BY <3>1 DEF IInv, LogInOrder, Entries
  <2>3. \A i \in 1..Len(log') : log'[i].time < clock'
    BY <1>1, <1>2, <1>4, <2>1, <2>2
  <2>4. \A i, j \in 1..Len(log') : i < j => log'[i].time <= log'[j].time
    <3> TAKE i, j \in 1..Len(log')
    <3> HAVE i < j
    <3>1. CASE j = Len(log')
      BY <1>2, <1>4, <2>1, <2>2, <3>1
    <3>2. CASE j # Len(log')
      <4>1. i \in 1..Len(log) /\ j \in 1..Len(log)
        BY <1>2, <1>4, <3>2
      <4>2. QED
        BY <1>4, <4>1 DEF IInv, LogInOrder
    <3>3. QED
      BY <3>1, <3>2
  <2>5. QED
    BY <2>3, <2>4 DEF LogInOrder
<1>9. PrinterHolds'
  BY <1>1 DEF IInv, TypeOK, PrinterHolds
<1>10. DumpsInLog'
  <2> SUFFICES ASSUME NEW u \in Threads PROVE PartOfLog(printed[u])'
    BY <1>1 DEF DumpsInLog
  <2>1. PartOfLog(printed[u]) /\ printed[u] \in Seq(Entries) /\ printed'[u] = printed[u]
    BY <1>1 DEF IInv, DumpsInLog, TypeOK
  <2>2. \E i \in 0..(Len(log') - Len(printed[u])) :
          \A k \in 1..Len(printed[u]) : printed[u][k] = log'[i + k]
    <3> DEFINE q == printed[u]
    <3>1. q \in Seq(Entries) /\ PartOfLog(q)
      BY <2>1
    <3>2. Len(log) <= Len(log')
      BY <1>2, <1>4
    <3> HIDE DEF q
    <3>3. \E i \in 0..(Len(log') - Len(q)) : \A k \in 1..Len(q) : q[k] = log'[i + k]
      BY <1>2, <1>4, <3>1, <3>2, LogGrows
    <3>4. QED
      BY <3>3 DEF q
  <2>3. QED
    BY <2>1, <2>2 DEF PartOfLog
<1>11. ErrorsLogged'
  <2> SUFFICES ASSUME NEW u \in Threads, pc'[u] # "formatted", event'[u].error
               PROVE  \E i \in 1..Len(log') : log'[i].of = event'[u]
    BY DEF ErrorsLogged
  <2>1. CASE u = t
    <3>1. x.of = event'[u]
      BY <1>1, <2>1 DEF x
    <3>2. Len(log') \in 1..Len(log')
      BY <1>2, <1>4
    <3>3. QED
      BY <1>4, <3>1, <3>2
  <2>2. CASE u # t
    <3>1. PICK i \in 1..Len(log) : log[i].of = event[u]
      BY <1>1, <2>2 DEF IInv, TypeOK, ErrorsLogged
    <3>2. i \in 1..Len(log') /\ log'[i].of = event'[u]
      BY <1>1, <1>2, <1>4, <3>1
    <3>3. QED
      BY <3>2
  <2>3. QED
    BY <2>1, <2>2
<1>12. QED
  BY <1>5, <1>6, <1>7, <1>8, <1>9, <1>10, <1>11 DEF IInv

-----------------------------------------------------------------------------
(* The other steps leave the log and the buffer alone.                     *)

(* Such a step keeps what the invariant says of them.                      *)
LEMMA LogStays ==
  ASSUME IInv, UNCHANGED <<entries, log>>, clock' \in {clock, clock + 1}
  PROVE  /\ BufferIsEnd' /\ LogInOrder'
<1>1. clock \in Nat /\ \A i \in 1..Len(log) : log[i].time \in Nat
  <2>1. clock \in Nat /\ log \in Seq(Entries)
    BY DEF IInv, TypeOK
  <2>2. \A i \in 1..Len(log) : log[i] \in Entries
    BY <2>1
  <2>3. QED
    BY <2>1, <2>2 DEF Entries
<1>2. QED
  BY <1>1 DEF IInv, BufferIsEnd, LogInOrder, PartOfLog

(* The threads' part of the invariant, for a step of t that is not the one *)
(* that adds its event.                                                    *)
LEMMA OthersStay ==
  ASSUME IInv, NEW t \in Threads, UNCHANGED <<entries, log>>,
         clock' \in {clock, clock + 1}, TypeOK', OneMaker',
         \A u \in Threads \ {t} : /\ pc'[u] = pc[u] /\ event'[u] = event[u]
                                  /\ printed'[u] = printed[u],
         \A u \in Threads \ {t} : pc[u] = "printing" => mutex' = mutex,
         pc'[t] = "printing" => /\ mutex' = {t} /\ Len(printed'[t]) <= Len(entries)
                                /\ \A i \in 1..Len(printed'[t]) : printed'[t][i] = entries[i],
         printed'[t] = printed[t] \/ pc'[t] = "printing" \/ printed'[t] = <<>>,
         pc'[t] = "formatted" \/ (pc[t] # "formatted" /\ event'[t] = event[t])
  PROVE  IInv'
<1>1. /\ entries \in Seq(Entries) /\ log \in Seq(Entries) /\ entries' = entries /\ log' = log
      /\ \A u \in Threads : printed[u] \in Seq(Entries) /\ printed'[u] \in Seq(Entries)
  BY DEF IInv, TypeOK
<1>2. BufferIsEnd' /\ LogInOrder'
  BY LogStays
<1>3. PrinterHolds'
  <2> SUFFICES ASSUME NEW u \in Threads, pc'[u] = "printing"
               PROVE  /\ mutex' = {u} /\ Len(printed'[u]) <= Len(entries')
                      /\ \A i \in 1..Len(printed'[u]) : printed'[u][i] = entries'[i]
    BY DEF PrinterHolds
  <2>1. CASE u = t
    BY <1>1, <2>1
  <2>2. CASE u # t
    BY <1>1, <2>2 DEF IInv, PrinterHolds
  <2>3. QED
    BY <2>1, <2>2
<1>4. DumpsInLog'
  <2> SUFFICES ASSUME NEW u \in Threads PROVE PartOfLog(printed'[u])
    <3>1. \A u \in Threads : PartOfLog(printed'[u]) => PartOfLog(printed[u])'
      <4> SUFFICES ASSUME NEW u \in Threads, PartOfLog(printed'[u])
                   PROVE  \E i \in 0..(Len(log') - Len(printed'[u])) :
                            \A k \in 1..Len(printed'[u]) : printed'[u][k] = log'[i + k]
        BY DEF PartOfLog
      <4>1. PICK i \in 0..(Len(log) - Len(printed'[u])) :
              \A k \in 1..Len(printed'[u]) : printed'[u][k] = log[i + k]
        BY DEF PartOfLog
      <4>2. log' = log
        BY <1>1
      <4>3. QED
        BY <4>1, <4>2
    <3>2. QED
      BY <3>1 DEF DumpsInLog
  <2>1. CASE printed'[u] = printed[u]
    BY <2>1 DEF IInv, DumpsInLog
  <2>2. CASE u = t /\ pc'[t] = "printing"
    BY <1>1, <2>2, BufferInLog DEF IInv
  <2>3. CASE u = t /\ printed'[t] = <<>>
    <3>1. Len(<<>>) = 0 /\ Len(log) \in Nat
      BY <1>1
    <3>2. QED
      BY <2>3, <3>1 DEF PartOfLog
  <2>4. QED
    BY <2>1, <2>2, <2>3
<1>5. ErrorsLogged'
  <2> SUFFICES ASSUME NEW u \in Threads, pc'[u] # "formatted", event'[u].error
               PROVE  \E i \in 1..Len(log') : log'[i].of = event'[u]
    BY DEF ErrorsLogged
  <2>1. pc[u] # "formatted" /\ event'[u] = event[u]
    OBVIOUS
  <2>2. QED
    BY <1>1, <2>1 DEF IInv, ErrorsLogged
<1>6. QED
  BY <1>2, <1>3, <1>4, <1>5 DEF IInv

(* The initialiser.                                                        *)
LEMMA StartSteps ==
  ASSUME IInv, NEW t \in Threads, GetOrInit(t) \/ Initialised(t) \/ GetShared(t)
  PROVE  IInv'
<1>1. /\ pc[t] \in {"start", "initialising"}
      /\ pc' = [pc EXCEPT ![t] = pc'[t]] /\ pc'[t] \in {"initialising", "ready"}
      /\ UNCHANGED <<clock, entries, mutex, log, event, printed>>
  BY DEF GetOrInit, Initialised, GetShared, Goto, bufVars, onceVars, IInv, TypeOK
<1>2. OneMaker'
  <2>1. CASE GetOrInit(t)
    BY <2>1 DEF GetOrInit, Goto, onceVars, IInv, TypeOK, OneMaker
  <2>2. CASE Initialised(t)
    BY <2>2 DEF Initialised, Goto, onceVars, IInv, TypeOK, OneMaker
  <2>3. CASE GetShared(t)
    BY <2>3 DEF GetShared, Goto, onceVars, IInv, TypeOK, OneMaker
  <2>4. QED
    BY <2>1, <2>2, <2>3
<1>3. TypeOK'
  <2>1. once' \in {"empty", "initialising", "set"} /\ made' \in Nat /\ installed' \in BOOLEAN
    <3>1. CASE GetOrInit(t)
      BY <3>1 DEF GetOrInit, IInv, TypeOK
    <3>2. CASE Initialised(t)
      BY <3>2 DEF Initialised, IInv, TypeOK
    <3>3. CASE GetShared(t)
      BY <3>3 DEF GetShared, onceVars, IInv, TypeOK
    <3>4. QED
      BY <3>1, <3>2, <3>3
  <2>2. QED
    BY <1>1, <2>1 DEF IInv, TypeOK
<1>4. \A u \in Threads \ {t} : pc'[u] = pc[u]
  BY <1>1 DEF IInv, TypeOK
<1>5. QED
  BY <1>1, <1>2, <1>3, <1>4, OthersStay DEF IInv

(* on_event.                                                               *)
LEMMA OnEventStep ==
  ASSUME IInv, NEW t \in Threads, OnEvent(t)
  PROVE  IInv'
<1>1. PICK e \in BOOLEAN : event' = [event EXCEPT ![t] = Event(t, e)]
  BY DEF OnEvent
<1>2. /\ pc[t] = "ready" /\ pc' = [pc EXCEPT ![t] = "formatted"] /\ clock' = clock + 1
      /\ UNCHANGED <<once, made, installed, entries, mutex, log, printed>>
  BY DEF OnEvent, Goto, onceVars, bufVars
<1>3. Event(t, e) \in Events
  BY DEF Event, Events, IInv, TypeOK
<1>4. TypeOK' /\ OneMaker'
  BY <1>1, <1>2, <1>3 DEF IInv, TypeOK, OneMaker
<1>5. \A u \in Threads \ {t} : pc'[u] = pc[u] /\ event'[u] = event[u]
  BY <1>1, <1>2 DEF IInv, TypeOK
<1>6. pc'[t] = "formatted"
  BY <1>2 DEF IInv, TypeOK
<1>7. QED
  BY <1>2, <1>4, <1>5, <1>6, OthersStay

(* dump_to_stderr.                                                         *)
LEMMA DumpSteps ==
  ASSUME IInv, NEW t \in Threads,
         Dump(t) \/ PrintLine(t) \/ DumpEnds(t) \/ PrintFails(t)
  PROVE  IInv'
<1>1. /\ pc[t] \in {"ready", "failing", "printing"}
      /\ pc' = [pc EXCEPT ![t] = pc'[t]] /\ pc'[t] \in {"ready", "printing", "panicked"}
      /\ printed' = [printed EXCEPT ![t] = printed'[t]]
      /\ UNCHANGED <<once, made, installed, clock, entries, log, event>>
  BY DEF Dump, PrintLine, DumpEnds, PrintFails, Goto, bufVars, onceVars, IInv, TypeOK
<1>2. /\ entries \in Seq(Entries) /\ printed[t] \in Seq(Entries)
      /\ Len(entries) \in Nat /\ Len(printed[t]) \in Nat
  BY DEF IInv, TypeOK
<1>3. /\ printed'[t] \in Seq(Entries)
      /\ pc'[t] = "printing" => /\ mutex' = {t} /\ Len(printed'[t]) <= Len(entries)
                                /\ \A i \in 1..Len(printed'[t]) : printed'[t][i] = entries[i]
      /\ printed'[t] = printed[t] \/ pc'[t] = "printing" \/ printed'[t] = <<>>
      /\ mutex' \subseteq Threads
      /\ \A u \in Threads \ {t} : pc[u] = "printing" => mutex' = mutex
  <2>1. CASE Dump(t)
    <3>1. printed'[t] = <<>> /\ <<>> \in Seq(Entries) /\ Len(<<>>) = 0
      BY <2>1 DEF Dump, IInv, TypeOK
    <3>2. mutex = {} /\ mutex' \in {{}, {t}}
      BY <2>1 DEF Dump
    <3>3. pc'[t] = "printing" => mutex' = {t}
      BY <2>1 DEF Dump, Goto, IInv, TypeOK
    <3>4. \A u \in Threads : pc[u] # "printing"
      BY <3>2 DEF IInv, PrinterHolds
    <3>5. QED
      BY <1>2, <3>1, <3>2, <3>3, <3>4
  <2>2. CASE PrintLine(t)
    <3> DEFINE n == Len(printed[t])
    <3>1. /\ pc[t] = "printing" /\ n < Len(entries) /\ mutex' = mutex
          /\ printed'[t] = Append(printed[t], entries[n + 1])
      BY <2>2 DEF PrintLine, bufVars, IInv, TypeOK
    <3>2. mutex = {t} /\ \A i \in 1..n : printed[t][i] = entries[i]
      BY <3>1 DEF IInv, PrinterHolds
    <3>3. entries[n + 1] \in Entries
      BY <1>2, <3>1
    <3>4. /\ printed'[t] \in Seq(Entries) /\ Len(printed'[t]) = n + 1
          /\ \A i \in 1..(n + 1) : printed'[t][i] = entries[i]
      BY <1>2, <3>1, <3>2, <3>3
    <3>5. pc'[t] = "printing"
      BY <2>2, <3>1 DEF PrintLine
    <3>6. QED
      BY <1>2, <3>1, <3>2, <3>4, <3>5
  <2>3. CASE DumpEnds(t) \/ PrintFails(t)
    <3>1. /\ pc[t] = "printing" /\ mutex' = mutex \ {t} /\ printed' = printed
          /\ pc'[t] # "printing"
      BY <2>3 DEF DumpEnds, PrintFails, Goto, IInv, TypeOK
    <3>2. \A u \in Threads \ {t} : pc[u] # "printing"
      BY <3>1 DEF IInv, PrinterHolds
    <3>3. QED
      BY <1>2, <3>1, <3>2 DEF IInv, TypeOK
  <2>4. QED
    BY <2>1, <2>2, <2>3
<1>4. TypeOK' /\ OneMaker'
  <2>1. TypeOK'
    BY <1>1, <1>3 DEF IInv, TypeOK
  <2>2. OneMaker'
    BY <1>1 DEF IInv, TypeOK, OneMaker
  <2>3. QED
    BY <2>1, <2>2
<1>5. \A u \in Threads \ {t} : pc'[u] = pc[u] /\ printed'[u] = printed[u]
  BY <1>1 DEF IInv, TypeOK
<1>6. QED
  BY <1>1, <1>3, <1>4, <1>5, OthersStay

-----------------------------------------------------------------------------
(* The invariant and what follows from it.                                 *)

(* It holds at the start.                                                  *)
LEMMA InvInit == Init => IInv
<1> SUFFICES ASSUME Init PROVE IInv
  OBVIOUS
<1>1. /\ <<>> \in Seq(Entries) /\ Len(<<>>) = 0 /\ BufferSize \in Nat
      /\ \A t \in Threads : NoEvent(t) \in Events /\ ~NoEvent(t).error
  BY BufferAssumption DEF NoEvent, Events
<1>2. TypeOK
  <2>1. Len(entries) <= BufferSize /\ entries \in Seq(Entries) /\ log \in Seq(Entries)
    BY <1>1, BufferAssumption DEF Init
  <2>2. /\ event \in [Threads -> Events] /\ printed \in [Threads -> Seq(Entries)]
        /\ pc \in [Threads -> {"start", "initialising", "ready", "formatted", "failing",
                               "printing", "panicked"}]
    BY <1>1 DEF Init
  <2>3. /\ once \in {"empty", "initialising", "set"} /\ made \in Nat /\ installed \in BOOLEAN
        /\ clock \in Nat \ {0} /\ mutex \subseteq Threads
    <3>1. once = "empty" /\ made = 0 /\ installed = FALSE /\ clock = 1 /\ mutex = {}
      BY DEF Init
    <3>2. FALSE \in BOOLEAN /\ {} \subseteq Threads /\ 0 \in Nat /\ 1 \in Nat \ {0}
      OBVIOUS
    <3>3. made \in Nat /\ clock \in Nat \ {0} /\ once \in {"empty", "initialising", "set"}
      BY <3>1
    <3>4. installed \in BOOLEAN /\ mutex \subseteq Threads
      BY <3>1, <3>2, Zenon
    <3>5. QED
      BY <3>3, <3>4
  <2>4. QED
    BY <2>1, <2>2, <2>3 DEF TypeOK
<1>3. OneMaker /\ PrinterHolds /\ ErrorsLogged
  BY <1>1 DEF Init, OneMaker, PrinterHolds, ErrorsLogged
<1>4. BufferIsEnd /\ LogInOrder
  BY <1>1 DEF Init, BufferIsEnd, LogInOrder
<1>5. DumpsInLog
  <2> SUFFICES ASSUME NEW t \in Threads PROVE PartOfLog(printed[t])
    BY DEF DumpsInLog
  <2>1. printed[t] = <<>> /\ log = <<>>
    BY DEF Init
  <2>2. 0 \in 0..(Len(<<>>) - Len(<<>>))
    BY <1>1
  <2>3. QED
    BY <1>1, <2>1, <2>2 DEF PartOfLog
<1>6. QED
  BY <1>2, <1>3, <1>4, <1>5 DEF IInv

(* Every step keeps it.                                                    *)
LEMMA InvNext == IInv /\ [Next]_vars => IInv'
<1> SUFFICES ASSUME IInv, [Next]_vars PROVE IInv'
  OBVIOUS
<1>1. CASE Next
  <2>1. PICK t \in Threads : \/ GetOrInit(t) \/ Initialised(t) \/ GetShared(t)
                             \/ OnEvent(t) \/ AddEntry(t)
                             \/ Dump(t) \/ PrintLine(t) \/ DumpEnds(t) \/ PrintFails(t)
    BY <1>1 DEF Next
  <2>2. QED
    BY <2>1, StartSteps, OnEventStep, AddEntryStep, DumpSteps
<1>2. CASE UNCHANGED vars
  <2>1. UNCHANGED <<once, made, installed, clock, entries, mutex, log, pc, event, printed>>
    BY <1>2 DEF vars, onceVars, bufVars
  <2>2. TypeOK' /\ OneMaker' /\ PrinterHolds' /\ ErrorsLogged'
    BY <2>1 DEF IInv, TypeOK, OneMaker, PrinterHolds, ErrorsLogged
  <2>3. BufferIsEnd' /\ LogInOrder'
    BY <2>1, LogStays
  <2>4. DumpsInLog'
    BY <2>1 DEF IInv, DumpsInLog, PartOfLog
  <2>5. QED
    BY <2>2, <2>3, <2>4 DEF IInv
<1>3. QED
  BY <1>1, <1>2

(* So it holds always.                                                     *)
LEMMA Invariance == Spec => []IInv
BY InvInit, InvNext, PTL DEF Spec

(* Every variable keeps its type, and the buffer its size                  *)
(* (error_context.rs:15-53).                                               *)
THEOREM Typing == Spec => []TypeOK
<1>1. IInv => TypeOK
  BY DEF IInv
<1>2. QED
  BY <1>1, Invariance, PTL

(* All clients of a process share one buffer, however many connect at once *)
(* (error_context.rs:90-103).                                              *)
THEOREM BufferIsOne == Spec => []OneBuffer
<1>1. IInv => OneBuffer
  BY DEF IInv, TypeOK, OneMaker, OneBuffer
<1>2. QED
  BY <1>1, Invariance, PTL

(* The buffer is in the order of its time stamps (error_context.rs:43-53). *)
THEOREM InOrder == Spec => []Chronological
<1>1. IInv => Chronological
  <2> SUFFICES ASSUME IInv, NEW i \in 1..Len(entries), NEW j \in 1..Len(entries), i < j
               PROVE  entries[i].time <= entries[j].time
    BY DEF Chronological
  <2> DEFINE k == Len(log) - Len(entries)
  <2>1. k \in Nat /\ k + Len(entries) = Len(log)
    BY DEF IInv, TypeOK, BufferIsEnd
  <2>2. entries[i] = log[k + i] /\ entries[j] = log[k + j]
    BY DEF IInv, BufferIsEnd
  <2>3. k + i \in 1..Len(log) /\ k + j \in 1..Len(log) /\ k + i < k + j
    BY <2>1
  <2>4. QED
    BY <2>2, <2>3 DEF IInv, LogInOrder
<1>2. QED
  BY <1>1, Invariance, PTL

(* A dump prints a stretch of the log without gap or repetition, whatever  *)
(* other threads log meanwhile (error_context.rs:55-77).                   *)
THEOREM DumpsAreStretches == Spec => []DumpIsStretch
<1>1. IInv => DumpIsStretch
  <2> SUFFICES ASSUME IInv, NEW t \in Threads
               PROVE  \E i \in 0..(Len(log) - Len(printed[t])) :
                        printed[t] = SubSeq(log, i + 1, i + Len(printed[t]))
    BY DEF DumpIsStretch
  <2> DEFINE q == printed[t]
  <2>1. q \in Seq(Entries) /\ log \in Seq(Entries) /\ Len(q) \in Nat /\ Len(log) \in Nat
    BY DEF IInv, TypeOK
  <2>2. PICK i \in 0..(Len(log) - Len(q)) : \A k \in 1..Len(q) : q[k] = log[i + k]
    BY DEF IInv, DumpsInLog, PartOfLog
  <2> DEFINE r == SubSeq(log, i + 1, i + Len(q))
  <2>3. /\ r \in Seq(Entries) /\ Len(r) = Len(q)
        /\ \A k \in 1..Len(q) : r[k] = log[i + k]
    BY <2>1, <2>2
  <2>4. \A k \in 1..Len(q) : q[k] = r[k]
    BY <2>2, <2>3
  <2> HIDE DEF q, r
  <2>5. q = r
    BY <2>1, <2>3, <2>4
  <2>6. QED
    BY <2>2, <2>5 DEF q, r
<1>2. QED
  BY <1>1, Invariance, PTL

(* The dump that follows an error shows it, unless a whole buffer of       *)
(* entries was added in between (client.rs:626, 670-681).                  *)
THEOREM ErrorsShown == Spec => ErrorShown
<1> DEFINE Shows(t) ==
      \/ \E i \in 1..Len(printed[t]) : printed[t][i].of = event[t]
      \/ \E i \in 1..Len(log) : log[i].of = event[t] /\ Len(log) - i >= BufferSize
<1> DEFINE A == \A t \in Threads :
                  pc[t] = "printing" /\ pc'[t] = "ready" /\ event[t].error => Shows(t)
<1>1. IInv /\ [Next]_vars => [A]_vars
  <2> SUFFICES ASSUME IInv, Next, NEW t \in Threads, pc[t] = "printing", pc'[t] = "ready",
                      event[t].error
               PROVE  Shows(t)
    OBVIOUS
  <2>1. Len(printed[t]) >= Len(entries)
    BY DEF Next, GetOrInit, Initialised, GetShared, OnEvent, AddEntry, Dump, PrintLine,
           DumpEnds, PrintFails, Goto, IInv, TypeOK
  <2>2. /\ \A i \in 1..Len(printed[t]) : printed[t][i] = entries[i]
        /\ Len(printed[t]) = Len(entries)
    BY <2>1 DEF IInv, PrinterHolds, TypeOK
  <2>3. PICK i \in 1..Len(log) : log[i].of = event[t]
    BY DEF IInv, ErrorsLogged
  <2> DEFINE k == Len(log) - Len(entries)
  <2>4. k \in Nat /\ Len(log) = k + Len(entries) /\ Len(entries) \in Nat
    BY DEF IInv, TypeOK, BufferIsEnd
  <2>5. CASE i > k
    <3>1. i - k \in 1..Len(entries) /\ k + (i - k) = i
      BY <2>4, <2>5
    <3>2. entries[i - k] = log[i]
      BY <3>1 DEF IInv, BufferIsEnd
    <3>3. QED
      BY <2>2, <2>3, <3>1, <3>2
  <2>6. CASE i <= k
    <3>1. Len(entries) = BufferSize
      BY <2>4, <2>6 DEF IInv, BufferIsEnd
    <3>2. Len(log) - i >= BufferSize
      BY <2>4, <2>6, <3>1
    <3>3. QED
      BY <2>3, <3>2
  <2>7. QED
    BY <2>4, <2>5, <2>6
<1>2. QED
  BY <1>1, Invariance, PTL DEF Spec, ErrorShown

(* The mutex is held by a thread that prints, the buffer in the making by  *)
(* one that makes it; neither outlives what its holder does.               *)
LEMMA HoldersWork == IInv /\ HeldByWorking /\ [Next]_vars => HeldByWorking'
<1> SUFFICES ASSUME IInv, HeldByWorking, [Next]_vars PROVE HeldByWorking'
  OBVIOUS
<1> USE DEF HeldByWorking, IInv, TypeOK, onceVars, bufVars, Goto
<1>1. ASSUME NEW t \in Threads, GetOrInit(t) \/ Initialised(t) \/ GetShared(t)
      PROVE  HeldByWorking'
  BY <1>1 DEF GetOrInit, Initialised, GetShared, OneMaker
<1>2. ASSUME NEW t \in Threads, OnEvent(t) \/ AddEntry(t) \/ PrintLine(t)
      PROVE  HeldByWorking'
  BY <1>2 DEF OnEvent, AddEntry, PrintLine
<1>3. ASSUME NEW t \in Threads, Dump(t)
      PROVE  HeldByWorking'
  BY <1>3 DEF Dump
<1>4. ASSUME NEW t \in Threads, DumpEnds(t) \/ PrintFails(t)
      PROVE  HeldByWorking'
  BY <1>4 DEF DumpEnds, PrintFails, PrinterHolds
<1>5. CASE UNCHANGED vars
  BY <1>5 DEF vars
<1>6. QED
  BY <1>1, <1>2, <1>3, <1>4, <1>5 DEF Next

(* A thread never waits for a mutex that a panicked one has left locked,   *)
(* nor for a buffer that nobody makes (error_context.rs:43-103).           *)
THEOREM NoneLeftHolding == Spec => []HeldByWorking
<1>1. Init => HeldByWorking
  BY DEF Init, HeldByWorking
<1>2. QED
  BY <1>1, HoldersWork, Invariance, PTL DEF Spec
=============================================================================
