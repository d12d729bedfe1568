-------------------------- MODULE ConnectionProofs --------------------------
(***************************************************************************)
(* Proofs about Connection, for every value of its constants.              *)
(***************************************************************************)
EXTENDS ConnectionInv, SequenceTheorems, TLAPS

(* A chunk's bytes are a sequence of byte positions.                       *)
LEMMA BytesType ==
  ASSUME NEW lo \in Nat, NEW hi \in Nat
  PROVE  Bytes(lo, hi) \in Seq(Nat)
<1>1. CASE lo <= hi
  BY <1>1 DEF Bytes
<1>2. CASE hi < lo
  <2>1. 1..(hi - lo) = 1..0
    BY <1>2
  <2>2. QED
    BY <2>1 DEF Bytes
<1>3. QED
  BY <1>1, <1>2

(* CompletionOf yields a message of the protocol.                          *)
LEMMA CompletionType ==
  ASSUME NEW r \in Results \cup {NoResult}
  PROVE  CompletionOf(r) \in ServerMessages
BY ExitCodesAssumption
DEF CompletionOf, ServerMessages, Results, Exit, NoCode, NoResult, HandlerError, HandlerPanic,
    CommandError, CommandComplete

(* Taking from and adding to a queue keeps its type.                       *)
LEMMA QueueTypes ==
  ASSUME NEW S, NEW q \in Seq(S)
  PROVE  /\ q # <<>> => Head(q) \in S /\ Tail(q) \in Seq(S)
         /\ \A m \in S : Append(q, m) \in Seq(S)
OBVIOUS

(* Which records are outcomes of a call.                                   *)
LEMMA OutcomeTypes ==
  /\ Results \subseteq Outcomes
  /\ \A c \in ExitCodes : Exit(c) \in Results
  /\ NoCode("error") \in Results /\ NoCode("panic") \in Results
  /\ \A k \in {"none", "closed", "reset", "sendFailed", "stdoutFailed"} : NoCode(k) \in Outcomes
BY DEF Results, Outcomes, HandlerError, HandlerPanic

(* The messages the two sides build are messages of their queues.          *)
LEMMA MessageTypes ==
  /\ \A ts \in Timestamps : /\ VersionCheck(ts) \in ClientMessages
                            /\ VersionCheck(ts) \in ServerMessages
  /\ \A k \in 1..MaxCalls : Command(k) \in ClientMessages
  /\ \A c \in Chunks : OutputChunk(c) \in ServerMessages
BY DEF VersionCheck, Command, OutputChunk, ClientMessages, ServerMessages, Chunks

(* The messages found in the queues carry values of their types.           *)
LEMMA MessageFields ==
  /\ \A m \in ServerMessages :
       /\ m.type = "OutputChunk" => m.lo \in Nat /\ m.hi \in Nat
       /\ m.type = "CommandComplete" => m.code \in ExitCodes
       /\ m.type = "CommandError" => m.text \in {"error", "panic"}
  /\ \A m \in ClientMessages : m.type = "Command" => m.call \in 1..MaxCalls
BY DEF ServerMessages, ClientMessages

(* The types hold at the start.                                            *)
LEMMA TypingInit == Init => TypeOK
<1> SUFFICES ASSUME Init PROVE TypeOK
  OBVIOUS
<1>1. NoCode("none") \in Outcomes
  BY DEF Outcomes
<1>2. outcome \in [1..MaxCalls -> Outcomes]
  BY <1>1 DEF Init
<1>3. inHand \in Chunks
  BY DEF Init, NoChunk, Chunks
<1>4. stdout \in Seq(Nat) /\ c2s \in Seq(ClientMessages) /\ s2c \in Seq(ServerMessages)
  BY EmptySeq DEF Init
<1>5. call \in 0..MaxCalls /\ cmd \in 0..MaxCalls
  BY BoundsAssumption DEF Init
<1>6. QED
  BY <1>2, <1>3, <1>4, <1>5 DEF Init, TypeOK

(* Every step keeps the types.                                             *)
LEMMA TypingNext == TypeOK /\ [Next]_vars => TypeOK'
<1> SUFFICES ASSUME TypeOK, [Next]_vars PROVE TypeOK'
  OBVIOUS
<1> USE DEF TypeOK, clientVars, serverVars, handlerVars
<1>c2s. /\ c2s # <<>> => Head(c2s) \in ClientMessages /\ Tail(c2s) \in Seq(ClientMessages)
        /\ \A m \in ClientMessages : Append(c2s, m) \in Seq(ClientMessages)
  BY QueueTypes
<1>s2c. /\ s2c # <<>> => Head(s2c) \in ServerMessages /\ Tail(s2c) \in Seq(ServerMessages)
        /\ \A m \in ServerMessages : Append(s2c, m) \in Seq(ServerMessages)
  BY QueueTypes
<1>1. CASE SendVersion
  BY <1>1, <1>c2s, MessageTypes DEF SendVersion
<1>2. CASE ReceiveVersion
  BY <1>2, <1>s2c DEF ReceiveVersion
<1>3. CASE HandshakeFails
  BY <1>3 DEF HandshakeFails
<1>4. CASE Execute
  BY <1>4, <1>c2s, MessageTypes, BoundsAssumption DEF Execute, MayCall
<1>5. CASE ExecuteSendFails
  BY <1>5, OutcomeTypes, BoundsAssumption DEF ExecuteSendFails, MayCall
<1>6. CASE ReceiveChunk
  <2>1. Head(s2c).lo \in Nat /\ Head(s2c).hi \in Nat
    BY <1>6, <1>s2c, MessageFields DEF ReceiveChunk, Receiving
  <2>2. stdout' \in Seq(Nat)
    BY <1>6, <2>1, BytesType, ConcatProperties DEF ReceiveChunk
  <2>3. QED
    BY <1>6, <1>s2c, <2>2 DEF ReceiveChunk, Receiving
<1>7. CASE StdoutFails
  BY <1>7, <1>s2c, OutcomeTypes DEF StdoutFails, Receiving, Returns
<1>8. CASE ReceiveComplete
  BY <1>8, <1>s2c, OutcomeTypes, MessageFields DEF ReceiveComplete, Receiving, Returns
<1>9. CASE ReceiveError
  BY <1>9, <1>s2c, OutcomeTypes, MessageFields DEF ReceiveError, Receiving, Returns
<1>10. CASE ReceiveClosed
  BY <1>10, OutcomeTypes DEF ReceiveClosed, Returns
<1>11. CASE ClientGone
  BY <1>11 DEF ClientGone
<1>12. CASE Handshake
  BY <1>12, <1>c2s, <1>s2c, MessageTypes DEF Handshake
<1>13. CASE NothingReceived
  BY <1>13 DEF NothingReceived
<1>14. CASE StartCommand
  BY <1>14, <1>c2s, MessageFields DEF StartCommand
<1>15. CASE ReadChunk
  BY <1>15, CapacityAssumption DEF ReadChunk, Chunks, Available
<1>16. CASE SendChunk
  BY <1>16, <1>s2c, MessageTypes DEF SendChunk, Chunks, NoChunk
<1>17. CASE SendChunkFails
  BY <1>17 DEF SendChunkFails, Chunks, NoChunk
<1>18. CASE JoinHandler
  BY <1>18 DEF JoinHandler
<1>19. CASE ReachEof
  BY <1>19 DEF ReachEof
<1>20. CASE AwaitTask
  BY <1>20 DEF AwaitTask
<1>21. CASE SendCompletion
  BY <1>21, <1>s2c, CompletionType DEF SendCompletion
<1>22. CASE Linger
  BY <1>22, <1>c2s DEF Linger
<1>23. CASE HandlerStops
  BY <1>23 DEF HandlerStops
<1>24. CASE GraceExpires
  BY <1>24 DEF GraceExpires
<1>25. CASE DaemonDies
  BY <1>25 DEF DaemonDies, Chunks, NoChunk
<1>26. CASE WantsToWrite
  BY <1>26 DEF WantsToWrite
<1>27. CASE Write
  BY <1>27 DEF Write
<1>28. CASE CloseOutput
  BY <1>28 DEF CloseOutput
<1>29. CASE HandlerAborted
  BY <1>29 DEF HandlerAborted
<1>30. ASSUME NEW r \in Results, HandlerReturns(r) PROVE TypeOK'
  BY <1>30 DEF HandlerReturns
<1>31. CASE Finished
  BY <1>31 DEF Finished, vars
<1>32. CASE UNCHANGED vars
  BY <1>32 DEF vars
<1>33. QED
  BY <1>1, <1>2, <1>3, <1>4, <1>5, <1>6, <1>7, <1>8, <1>9, <1>10, <1>11, <1>12,
     <1>13, <1>14, <1>15, <1>16, <1>17, <1>18, <1>19, <1>20, <1>21, <1>22,
     <1>23, <1>24, <1>25, <1>26, <1>27, <1>28, <1>29, <1>30, <1>31, <1>32
  DEF Next, ClientNext, ClientReceives, ServerNext, HandlerNext

(* Types: every variable keeps its type in every reachable state.          *)
THEOREM Typing == Spec => []TypeOK
<1>1. QED
  BY TypingInit, TypingNext, PTL DEF Spec

-----------------------------------------------------------------------------
(* Facts the inductive invariant rests on.                                 *)

(* Removing the head of a queue moves every other message up by one.       *)
LEMMA TailOfQueue ==
  ASSUME NEW S, NEW q \in Seq(S), q # <<>>
  PROVE  /\ 1 \in 1..Len(q) /\ Head(q) = q[1]
         /\ Tail(q) \in Seq(S)
         /\ Len(Tail(q)) = Len(q) - 1
         /\ \A i \in 1..Len(Tail(q)) : i + 1 \in 1..Len(q) /\ Tail(q)[i] = q[i + 1]
         /\ Len(q) = 1 => Tail(q) = <<>>
<1>1. 1 \in 1..Len(q) /\ Head(q) = q[1] /\ Tail(q) \in Seq(S) /\ Len(q) \in Nat
  OBVIOUS
<1>2. Len(Tail(q)) = Len(q) - 1 /\ \A i \in 1..Len(Tail(q)) : Tail(q)[i] = q[i + 1]
  OBVIOUS
<1>3. ASSUME Len(q) = 1 PROVE Tail(q) = <<>>
  <2>1. Len(Tail(q)) = 0
    BY <1>2, <1>3
  <2>2. QED
    BY <1>1, <2>1, EmptySeq, Zenon
<1>4. QED
  BY <1>1, <1>2, <1>3

(* Consecutive stretches of the output join up.                            *)
LEMMA BytesJoin ==
  ASSUME NEW n \in Nat, NEW hi \in Nat, n <= hi
  PROVE  /\ Bytes(0, n) \o Bytes(n, hi) = Bytes(0, hi)
         /\ Len(Bytes(0, hi)) = hi
<1> DEFINE a == Bytes(0, n)
           b == Bytes(n, hi)
           c == Bytes(0, hi)
<1>1. a \in Seq(Nat) /\ b \in Seq(Nat) /\ c \in Seq(Nat)
  BY BytesType
<1>2. Len(a) = n /\ Len(b) = hi - n /\ Len(c) = hi
  BY DEF Bytes
<1>3. a \o b \in Seq(Nat) /\ Len(a \o b) = hi
  BY <1>1, <1>2, ConcatProperties
<1>4. ASSUME NEW i \in 1..hi PROVE (a \o b)[i] = c[i]
  <2>1. (a \o b)[i] = IF i <= n THEN a[i] ELSE b[i - n]
    BY <1>1, <1>2, ConcatProperties
  <2>2. QED
    BY <2>1 DEF Bytes
<1>5. a \o b = c
  BY <1>1, <1>2, <1>3, <1>4, SeqEqual
<1>6. QED
  BY <1>2, <1>5

(* The ways a call ends without the command's result are no results.       *)
LEMMA KindsDiffer ==
  /\ NoResult \notin Results
  /\ \A k \in {"none", "closed", "reset", "sendFailed", "stdoutFailed"} : NoCode(k) \notin Results
BY DEF Results, NoResult, NoCode, Exit, HandlerError, HandlerPanic

(* The completion message of a result carries that result.                 *)
LEMMA CompletionIsResult ==
  ASSUME NEW r \in Results
  PROVE  LET m == CompletionOf(r) IN
         /\ m.type \in Answers
         /\ m.type = "CommandComplete" => r = Exit(m.code)
         /\ m.type = "CommandError" => r = NoCode(m.text)
BY DEF CompletionOf, Answers, Results, Exit, NoCode, NoResult, HandlerError, HandlerPanic,
    CommandError, CommandComplete

(* Before the handler has returned there is no answer anywhere.            *)
LEMMA NoEarlyAnswer ==
  ASSUME TypeOK, ResultInv, hres = NoResult
  PROVE  /\ \A i \in 1..Len(s2c) : s2c[i].type \notin Answers
         /\ \A k \in 1..MaxCalls : outcome[k] \notin Results
<1>1. ASSUME NEW i \in 1..Len(s2c) PROVE s2c[i].type \notin Answers
  <2>1. s2c[i] \in ServerMessages
    BY ElementOfSeq DEF TypeOK
  <2>2. s2c[i].type = "CommandComplete" => Exit(s2c[i].code) \in Results
    BY <2>1, MessageFields, OutcomeTypes
  <2>3. s2c[i].type = "CommandError" => NoCode(s2c[i].text) \in Results
    BY <2>1, MessageFields, OutcomeTypes
  <2>4. QED
    BY <2>2, <2>3, KindsDiffer DEF ResultInv, Answers
<1>2. QED
  BY <1>1, KindsDiffer DEF ResultInv, AnswerIsHandlers

(* Receiving a chunk: what is printed and what is still queued.            *)
LEMMA ReceiveChunkEffect ==
  ASSUME TypeOK, StreamInv, ReceiveChunk
  PROVE  /\ stdout' = Bytes(0, s2c[1].hi) /\ Len(stdout') = s2c[1].hi
         /\ s2c[1].hi \in Nat /\ s2c[1].hi <= written
         /\ s2c # <<>> /\ s2c[1].type = "OutputChunk" /\ 1 \in 1..Len(s2c)
         /\ s2c' \in Seq(ServerMessages) /\ Len(s2c') = Len(s2c) - 1
         /\ \A i \in 1..Len(s2c') : i + 1 \in 1..Len(s2c) /\ s2c'[i] = s2c[i + 1]
<1>1. /\ s2c # <<>> /\ Head(s2c).type = "OutputChunk" /\ s2c' = Tail(s2c)
      /\ cpc = "receiving"
      /\ stdout' = stdout \o Bytes(Head(s2c).lo, Head(s2c).hi)
      /\ s2c \in Seq(ServerMessages) /\ stdout \in Seq(Nat)
  BY DEF ReceiveChunk, Receiving, TypeOK
<1>2. /\ 1 \in 1..Len(s2c) /\ Head(s2c) = s2c[1]
      /\ s2c' \in Seq(ServerMessages) /\ Len(s2c') = Len(s2c) - 1
      /\ \A i \in 1..Len(s2c') : i + 1 \in 1..Len(s2c) /\ s2c'[i] = s2c[i + 1]
  BY <1>1, TailOfQueue
<1>3. s2c[1] \in ServerMessages
  BY <1>1, <1>2, ElementOfSeq
<1>4. s2c[1].lo \in Nat /\ s2c[1].hi \in Nat
  BY <1>1, <1>2, <1>3, MessageFields
<1>5. s2c[1].lo = Len(stdout) /\ s2c[1].lo <= s2c[1].hi /\ s2c[1].hi <= written
  BY <1>1, <1>2 DEF StreamInv, HiAt
<1>6. stdout = Bytes(0, Len(stdout))
  BY DEF StreamInv
<1>7. stdout' = Bytes(0, s2c[1].hi) /\ Len(stdout') = s2c[1].hi
  BY <1>1, <1>2, <1>4, <1>5, <1>6, BytesJoin
<1>8. QED
  BY <1>1, <1>2, <1>4, <1>5, <1>7

(* Receiving a chunk moves the stream up by that chunk.                    *)
LEMMA ReceiveChunkStream ==
  ASSUME TypeOK, PhaseInv, StreamInv, ReceiveChunk
  PROVE  StreamInv'
<1> DEFINE Placed(q, i, before) ==
             /\ q[i].type = "OutputChunk" => /\ q[i].lo = before
                                             /\ q[i].lo <= q[i].hi /\ q[i].hi <= written
             /\ q[i].type \in Answers => before = written
<1>1. UNCHANGED <<cpc, outcome, spc, inHand, taken, hpc, written>> /\ cpc = "receiving"
  BY DEF ReceiveChunk, Receiving, serverVars, handlerVars
<1>2. \A i \in 0..Len(s2c') : HiAt(i)' = HiAt(i + 1)
  BY ReceiveChunkEffect DEF HiAt
<1>3. ASSUME NEW i \in 1..Len(s2c') PROVE Placed(s2c', i, HiAt(i - 1)')
  <2>1. i - 1 \in 0..Len(s2c') /\ (i - 1) + 1 = i /\ i \in Nat
    BY ReceiveChunkEffect, LenProperties
  <2>2. HiAt(i - 1)' = HiAt(i)
    BY <1>2, <2>1
  <2>3. i + 1 \in 1..Len(s2c) /\ s2c'[i] = s2c[i + 1] /\ (i + 1) - 1 = i
    BY <2>1, ReceiveChunkEffect
  <2>4. Placed(s2c, i + 1, HiAt(i))
    BY <1>1, <2>3 DEF StreamInv
  <2>5. QED
    BY <2>2, <2>3, <2>4
<1>4. (Serving /\ cpc \notin {"abandoned", "gone"} => HiAt(Len(s2c)) = Sent)'
  <2> DEFINE n == Len(s2c)
  <2>1. n \in Nat \ {0} /\ n' = n - 1
    BY ReceiveChunkEffect, LenProperties DEF TypeOK
  <2>2. HiAt(Len(s2c))' = IF n' = 0 THEN Len(stdout') ELSE s2c'[n'].hi
    BY DEF HiAt
  <2>3. ASSUME n = 1 PROVE HiAt(Len(s2c))' = HiAt(Len(s2c))
    BY <2>1, <2>2, <2>3, ReceiveChunkEffect DEF HiAt
  <2>4. ASSUME n # 1 PROVE HiAt(Len(s2c))' = HiAt(Len(s2c))
    <3>1. n' \in 1..n' /\ s2c'[n'] = s2c[n]
      BY <2>1, <2>4, ReceiveChunkEffect
    <3>2. QED
      BY <2>1, <2>2, <2>4, <3>1 DEF HiAt
  <2>5. HiAt(Len(s2c))' = HiAt(Len(s2c))
    BY <2>3, <2>4
  <2>6. QED
    BY <1>1, <2>5 DEF StreamInv, Serving, Sent
<1>5. hpc # "none" /\ \A k \in 1..MaxCalls : outcome[k] \notin Results
  BY <1>1, ReceiveChunkEffect, KindsDiffer DEF PhaseInv
<1>6. stdout' = Bytes(0, Len(stdout'))
  BY ReceiveChunkEffect
<1>7. Len(stdout') <= written'
  BY <1>1, ReceiveChunkEffect
<1>8. (AnswerAfterOutput)'
  BY <1>1, <1>5 DEF AnswerAfterOutput
<1>9. QED
  BY <1>1, <1>3, <1>4, <1>5, <1>6, <1>7, <1>8 DEF StreamInv

(* A write only lengthens the pipe.                                        *)
LEMMA WriteStream ==
  ASSUME TypeOK, HandlerInv, ResultInv, StreamInv, Write
  PROVE  StreamInv'
<1>1. UNCHANGED <<cpc, stdout, outcome, s2c, spc, inHand, taken>> /\ hpc # "none" /\ hpc' # "none"
      /\ written' \in {written, written + 1} /\ written \in Nat
  BY DEF Write, clientVars, serverVars, TypeOK
<1>2. hres = NoResult
  BY DEF Write, HandlerInv
<1>3. /\ \A i \in 1..Len(s2c) : s2c[i].type \notin Answers
      /\ \A k \in 1..MaxCalls : outcome[k] \notin Results
  BY <1>2, NoEarlyAnswer
<1>4. ASSUME NEW i \in 1..Len(s2c), s2c[i].type = "OutputChunk", cpc # "abandoned"
      PROVE  s2c[i].hi <= written'
  <2>1. s2c[i].hi \in Nat /\ s2c[i].hi <= written
    BY <1>4, MessageFields, ElementOfSeq DEF TypeOK, StreamInv
  <2>2. QED
    BY <1>1, <2>1
<1>5. Len(stdout) <= written'
  BY <1>1, LenProperties DEF TypeOK, StreamInv
<1>6. QED
  BY <1>1, <1>3, <1>4, <1>5 DEF StreamInv, HiAt, Serving, ClientOpen, Sent, AnswerAfterOutput

-----------------------------------------------------------------------------
(* The inductive invariant, one part at a time.                            *)

(* Every step keeps the server's bookkeeping of the handler in order.      *)
LEMMA HandlerInvNext ==
  TypeOK /\ HandlerInv /\ [Next]_vars =>
    HandlerInv'
<1> SUFFICES ASSUME TypeOK /\ HandlerInv, [Next]_vars PROVE HandlerInv'
  OBVIOUS
<1> USE DEF TypeOK, HandlerInv, clientVars, serverVars, handlerVars, ServerOpen, HandlerActive, Available
<1>1. CASE SendVersion
  BY <1>1 DEF SendVersion
<1>2. CASE ReceiveVersion
  BY <1>2 DEF ReceiveVersion
<1>3. CASE HandshakeFails
  BY <1>3 DEF HandshakeFails
<1>4. CASE Execute
  BY <1>4 DEF Execute
<1>5. CASE ExecuteSendFails
  BY <1>5 DEF ExecuteSendFails
<1>6. CASE ReceiveChunk
  BY <1>6 DEF ReceiveChunk
<1>7. CASE StdoutFails
  BY <1>7 DEF StdoutFails
<1>8. CASE ReceiveComplete
  BY <1>8 DEF ReceiveComplete
<1>9. CASE ReceiveError
  BY <1>9 DEF ReceiveError
<1>10. CASE ReceiveClosed
  BY <1>10 DEF ReceiveClosed
<1>11. CASE ClientGone
  BY <1>11 DEF ClientGone
<1>12. CASE Handshake
  BY <1>12 DEF Handshake
<1>13. CASE NothingReceived
  BY <1>13 DEF NothingReceived
<1>14. CASE StartCommand
  BY <1>14 DEF StartCommand
<1>15. CASE ReadChunk
  BY <1>15, CapacityAssumption DEF ReadChunk
<1>16. CASE SendChunk
  BY <1>16 DEF SendChunk
<1>17. CASE SendChunkFails
  BY <1>17 DEF SendChunkFails
<1>18. CASE JoinHandler
  BY <1>18 DEF JoinHandler
<1>19. CASE ReachEof
  BY <1>19 DEF ReachEof
<1>20. CASE AwaitTask
  BY <1>20 DEF AwaitTask
<1>21. CASE SendCompletion
  BY <1>21 DEF SendCompletion
<1>22. CASE Linger
  BY <1>22 DEF Linger
<1>23. CASE HandlerStops
  BY <1>23 DEF HandlerStops
<1>24. CASE GraceExpires
  BY <1>24 DEF GraceExpires
<1>25. CASE DaemonDies
  BY <1>25 DEF DaemonDies
<1>26. CASE WantsToWrite
  BY <1>26 DEF WantsToWrite
<1>27. CASE Write
  BY <1>27 DEF Write
<1>28. CASE CloseOutput
  BY <1>28 DEF CloseOutput
<1>29. CASE HandlerAborted
  BY <1>29 DEF HandlerAborted
<1>30. ASSUME NEW r \in Results, HandlerReturns(r) PROVE HandlerInv'
  BY <1>30, KindsDiffer DEF HandlerReturns
<1>31. CASE Finished
  BY <1>31 DEF Finished, vars
<1>32. CASE UNCHANGED vars
  BY <1>32 DEF vars
<1>33. QED
  BY <1>1, <1>2, <1>3, <1>4, <1>5, <1>6, <1>7, <1>8, <1>9, <1>10, <1>11, <1>12,
     <1>13, <1>14, <1>15, <1>16, <1>17, <1>18, <1>19, <1>20, <1>21, <1>22,
     <1>23, <1>24, <1>25, <1>26, <1>27, <1>28, <1>29, <1>30, <1>31, <1>32
  DEF Next, ClientNext, ClientReceives, ServerNext, HandlerNext

(* Every step keeps answers equal to the handler's result.                 *)
LEMMA ResultInvNext ==
  TypeOK /\ HandlerInv /\ ResultInv /\ [Next]_vars =>
    ResultInv'
<1> SUFFICES ASSUME TypeOK /\ HandlerInv /\ ResultInv, [Next]_vars PROVE ResultInv'
  OBVIOUS
<1> USE DEF TypeOK, HandlerInv, ResultInv, AnswerIsHandlers, clientVars, serverVars, handlerVars, ServerOpen,
        HandlerActive, Available
<1>1. CASE SendVersion
  BY <1>1 DEF SendVersion
<1>2. CASE ReceiveVersion
  BY <1>2 DEF ReceiveVersion
<1>3. CASE HandshakeFails
  BY <1>3 DEF HandshakeFails
<1>4. CASE Execute
  BY <1>4 DEF Execute
<1>5. CASE ExecuteSendFails
  BY <1>5, KindsDiffer DEF ExecuteSendFails
<1>6. CASE ReceiveChunk
  <2>1. /\ s2c # <<>> /\ s2c' = Tail(s2c) /\ UNCHANGED <<outcome, hres>>
    BY <1>6 DEF ReceiveChunk, Receiving
  <2>2. \A i \in 1..Len(s2c') : i + 1 \in 1..Len(s2c) /\ s2c'[i] = s2c[i + 1]
    BY <2>1, TailOfQueue
  <2>3. QED
    BY <2>1, <2>2
<1>7. CASE StdoutFails
  BY <1>7, KindsDiffer DEF StdoutFails, Receiving, Returns
<1>8. CASE ReceiveComplete
  BY <1>8 DEF ReceiveComplete, Receiving, Returns
<1>9. CASE ReceiveError
  BY <1>9 DEF ReceiveError, Receiving, Returns
<1>10. CASE ReceiveClosed
  BY <1>10, KindsDiffer DEF ReceiveClosed, Returns
<1>11. CASE ClientGone
  BY <1>11 DEF ClientGone
<1>12. CASE Handshake
  BY <1>12 DEF Handshake, VersionCheck
<1>13. CASE NothingReceived
  BY <1>13 DEF NothingReceived
<1>14. CASE StartCommand
  BY <1>14 DEF StartCommand
<1>15. CASE ReadChunk
  BY <1>15 DEF ReadChunk
<1>16. CASE SendChunk
  BY <1>16 DEF SendChunk, OutputChunk
<1>17. CASE SendChunkFails
  BY <1>17 DEF SendChunkFails
<1>18. CASE JoinHandler
  BY <1>18 DEF JoinHandler
<1>19. CASE ReachEof
  BY <1>19 DEF ReachEof
<1>20. CASE AwaitTask
  BY <1>20 DEF AwaitTask
<1>21. CASE SendCompletion
  BY <1>21, CompletionIsResult DEF SendCompletion
<1>22. CASE Linger
  BY <1>22 DEF Linger
<1>23. CASE HandlerStops
  BY <1>23 DEF HandlerStops
<1>24. CASE GraceExpires
  BY <1>24 DEF GraceExpires
<1>25. CASE DaemonDies
  BY <1>25 DEF DaemonDies
<1>26. CASE WantsToWrite
  BY <1>26 DEF WantsToWrite
<1>27. CASE Write
  BY <1>27 DEF Write
<1>28. CASE CloseOutput
  BY <1>28 DEF CloseOutput
<1>29. CASE HandlerAborted
  BY <1>29 DEF HandlerAborted
<1>30. ASSUME NEW r \in Results, HandlerReturns(r) PROVE ResultInv'
  BY <1>30, NoEarlyAnswer DEF HandlerReturns, Answers
<1>31. CASE Finished
  BY <1>31 DEF Finished, vars
<1>32. CASE UNCHANGED vars
  BY <1>32 DEF vars
<1>33. QED
  BY <1>1, <1>2, <1>3, <1>4, <1>5, <1>6, <1>7, <1>8, <1>9, <1>10, <1>11, <1>12,
     <1>13, <1>14, <1>15, <1>16, <1>17, <1>18, <1>19, <1>20, <1>21, <1>22,
     <1>23, <1>24, <1>25, <1>26, <1>27, <1>28, <1>29, <1>30, <1>31, <1>32
  DEF Next, ClientNext, ClientReceives, ServerNext, HandlerNext

(* Every step keeps client, server task and messages in matching phases.   *)
LEMMA PhaseInvNext ==
  TypeOK /\ HandlerInv /\ PhaseInv /\ ResultInv /\ ~MayReuse /\ [Next]_vars =>
    PhaseInv'
<1> SUFFICES ASSUME TypeOK /\ HandlerInv /\ PhaseInv /\ ResultInv /\ ~MayReuse, [Next]_vars
             PROVE  PhaseInv'
  OBVIOUS
<1> USE DEF TypeOK, HandlerInv, PhaseInv, AnswersOwnCommand, clientVars, serverVars, handlerVars,
        ServerOpen, ClientOpen, HandlerActive, Available, Serving, Answers
<1>1. CASE SendVersion
  BY <1>1 DEF SendVersion, VersionCheck
<1>2. CASE ReceiveVersion
  <2>1. s2c \in Seq(ServerMessages) /\ s2c # <<>> /\ cpc = "handshake"
    BY <1>2 DEF ReceiveVersion
  <2>2. Len(s2c) = 1
    BY <2>1, TailOfQueue
  <2>3. s2c' = <<>>
    BY <1>2, <2>1, <2>2, TailOfQueue DEF ReceiveVersion
  <2>4. QED
    BY <1>2, <2>1, <2>3 DEF ReceiveVersion
<1>3. CASE HandshakeFails
  BY <1>3 DEF HandshakeFails
<1>4. CASE Execute
  BY <1>4 DEF Execute, MayCall, Command
<1>5. CASE ExecuteSendFails
  BY <1>5, KindsDiffer DEF ExecuteSendFails, MayCall
<1>6. CASE ReceiveChunk
  BY <1>6 DEF ReceiveChunk, Receiving
<1>7. CASE StdoutFails
  BY <1>7, KindsDiffer DEF StdoutFails, Receiving, Returns
<1>8. CASE ReceiveComplete
  BY <1>8 DEF ReceiveComplete, Receiving, Returns
<1>9. CASE ReceiveError
  BY <1>9 DEF ReceiveError, Receiving, Returns
<1>10. CASE ReceiveClosed
  BY <1>10, KindsDiffer DEF ReceiveClosed, Returns
<1>11. CASE ClientGone
  BY <1>11 DEF ClientGone
<1>12. CASE Handshake
  BY <1>12 DEF Handshake, VersionCheck
<1>13. CASE NothingReceived
  BY <1>13 DEF NothingReceived
<1>14. CASE StartCommand
  BY <1>14, KindsDiffer DEF StartCommand, ResultInv, AnswerIsHandlers
<1>15. CASE ReadChunk
  BY <1>15 DEF ReadChunk
<1>16. CASE SendChunk
  BY <1>16 DEF SendChunk, OutputChunk
<1>17. CASE SendChunkFails
  BY <1>17 DEF SendChunkFails
<1>18. CASE JoinHandler
  BY <1>18 DEF JoinHandler
<1>19. CASE ReachEof
  BY <1>19 DEF ReachEof
<1>20. CASE AwaitTask
  BY <1>20 DEF AwaitTask
<1>21. CASE SendCompletion
  BY <1>21, CompletionIsResult DEF SendCompletion
<1>22. CASE Linger
  BY <1>22 DEF Linger
<1>23. CASE HandlerStops
  BY <1>23 DEF HandlerStops
<1>24. CASE GraceExpires
  BY <1>24 DEF GraceExpires
<1>25. CASE DaemonDies
  BY <1>25 DEF DaemonDies
<1>26. CASE WantsToWrite
  BY <1>26 DEF WantsToWrite
<1>27. CASE Write
  BY <1>27 DEF Write
<1>28. CASE CloseOutput
  BY <1>28 DEF CloseOutput
<1>29. CASE HandlerAborted
  BY <1>29 DEF HandlerAborted
<1>30. ASSUME NEW r \in Results, HandlerReturns(r) PROVE PhaseInv'
  BY <1>30 DEF HandlerReturns
<1>31. CASE Finished
  BY <1>31 DEF Finished, vars
<1>32. CASE UNCHANGED vars
  BY <1>32 DEF vars
<1>33. QED
  BY <1>1, <1>2, <1>3, <1>4, <1>5, <1>6, <1>7, <1>8, <1>9, <1>10, <1>11, <1>12,
     <1>13, <1>14, <1>15, <1>16, <1>17, <1>18, <1>19, <1>20, <1>21, <1>22,
     <1>23, <1>24, <1>25, <1>26, <1>27, <1>28, <1>29, <1>30, <1>31, <1>32
  DEF Next, ClientNext, ClientReceives, ServerNext, HandlerNext

(* Every step keeps the pieces of the output joined.                       *)
LEMMA StreamInvNext ==
  TypeOK /\ HandlerInv /\ PhaseInv /\ ResultInv /\ StreamInv /\ ~MayReuse /\ [Next]_vars =>
    StreamInv'
<1> SUFFICES ASSUME TypeOK /\ HandlerInv /\ PhaseInv /\ ResultInv /\ StreamInv /\ ~MayReuse, [Next]_vars
             PROVE  StreamInv'
  OBVIOUS
<1> USE DEF TypeOK, HandlerInv, PhaseInv, StreamInv, HiAt, Sent, AnswerAfterOutput, clientVars,
        serverVars, handlerVars, ServerOpen, ClientOpen, HandlerActive, Available, Serving, Answers
<1>1. CASE SendVersion
  BY <1>1 DEF SendVersion, VersionCheck
<1>2. CASE ReceiveVersion
  BY <1>2 DEF ReceiveVersion
<1>3. CASE HandshakeFails
  BY <1>3 DEF HandshakeFails
<1>4. CASE Execute
  BY <1>4 DEF Execute, MayCall, Command
<1>5. CASE ExecuteSendFails
  BY <1>5, KindsDiffer DEF ExecuteSendFails
<1>6. CASE ReceiveChunk
  BY <1>6, ReceiveChunkStream DEF ReceiveChunk
<1>7. CASE StdoutFails
  BY <1>7, KindsDiffer DEF StdoutFails, Receiving, Returns
<1>8. CASE ReceiveComplete
  BY <1>8 DEF ReceiveComplete, Receiving, Returns
<1>9. CASE ReceiveError
  BY <1>9 DEF ReceiveError, Receiving, Returns
<1>10. CASE ReceiveClosed
  BY <1>10, KindsDiffer DEF ReceiveClosed, Returns
<1>11. CASE ClientGone
  BY <1>11 DEF ClientGone
<1>12. CASE Handshake
  BY <1>12 DEF Handshake, VersionCheck
<1>13. CASE NothingReceived
  BY <1>13 DEF NothingReceived
<1>14. CASE StartCommand
  BY <1>14, KindsDiffer DEF StartCommand, ResultInv, AnswerIsHandlers
<1>15. CASE ReadChunk
  BY <1>15 DEF ReadChunk
<1>16. CASE SendChunk
  BY <1>16 DEF SendChunk, OutputChunk
<1>17. CASE SendChunkFails
  BY <1>17 DEF SendChunkFails
<1>18. CASE JoinHandler
  BY <1>18 DEF JoinHandler
<1>19. CASE ReachEof
  BY <1>19 DEF ReachEof
<1>20. CASE AwaitTask
  BY <1>20 DEF AwaitTask
<1>21. CASE SendCompletion
  BY <1>21, CompletionIsResult DEF SendCompletion
<1>22. CASE Linger
  BY <1>22 DEF Linger
<1>23. CASE HandlerStops
  BY <1>23 DEF HandlerStops
<1>24. CASE GraceExpires
  BY <1>24 DEF GraceExpires
<1>25. CASE DaemonDies
  BY <1>25 DEF DaemonDies
<1>26. CASE WantsToWrite
  BY <1>26 DEF WantsToWrite
<1>27. CASE Write
  BY <1>27, WriteStream DEF Write
<1>28. CASE CloseOutput
  BY <1>28 DEF CloseOutput
<1>29. CASE HandlerAborted
  BY <1>29 DEF HandlerAborted
<1>30. ASSUME NEW r \in Results, HandlerReturns(r) PROVE StreamInv'
  BY <1>30 DEF HandlerReturns
<1>31. CASE Finished
  BY <1>31 DEF Finished, vars
<1>32. CASE UNCHANGED vars
  BY <1>32 DEF vars
<1>33. QED
  BY <1>1, <1>2, <1>3, <1>4, <1>5, <1>6, <1>7, <1>8, <1>9, <1>10, <1>11, <1>12,
     <1>13, <1>14, <1>15, <1>16, <1>17, <1>18, <1>19, <1>20, <1>21, <1>22,
     <1>23, <1>24, <1>25, <1>26, <1>27, <1>28, <1>29, <1>30, <1>31, <1>32
  DEF Next, ClientNext, ClientReceives, ServerNext, HandlerNext

(* Every step keeps the calls in sequence.                                 *)
LEMMA CallInvNext ==
  TypeOK /\ CallInv /\ ~MayReuse /\ [Next]_vars =>
    CallInv'
<1> SUFFICES ASSUME TypeOK /\ CallInv /\ ~MayReuse, [Next]_vars PROVE CallInv'
  OBVIOUS
<1> USE DEF TypeOK, CallInv, clientVars, serverVars, handlerVars
<1>1. CASE SendVersion
  BY <1>1 DEF SendVersion
<1>2. CASE ReceiveVersion
  BY <1>2 DEF ReceiveVersion
<1>3. CASE HandshakeFails
  BY <1>3 DEF HandshakeFails
<1>4. CASE Execute
  BY <1>4 DEF Execute, MayCall
<1>5. CASE ExecuteSendFails
  BY <1>5, KindsDiffer DEF ExecuteSendFails, MayCall, NoCode, NoResult
<1>6. CASE ReceiveChunk
  BY <1>6 DEF ReceiveChunk, Receiving
<1>7. CASE StdoutFails
  BY <1>7, KindsDiffer DEF StdoutFails, Receiving, NoCode, NoResult
<1>8. CASE ReceiveComplete
  BY <1>8 DEF ReceiveComplete, Receiving, Returns, Exit, NoCode, NoResult
<1>9. CASE ReceiveError
  BY <1>9, MessageFields, QueueTypes DEF ReceiveError, Receiving, Returns, NoCode, NoResult
<1>10. CASE ReceiveClosed
  BY <1>10, KindsDiffer DEF ReceiveClosed, Returns, NoCode, NoResult
<1>11. CASE ClientGone
  BY <1>11 DEF ClientGone
<1>12. CASE Handshake
  BY <1>12 DEF Handshake
<1>13. CASE NothingReceived
  BY <1>13 DEF NothingReceived
<1>14. CASE StartCommand
  BY <1>14 DEF StartCommand
<1>15. CASE ReadChunk
  BY <1>15 DEF ReadChunk
<1>16. CASE SendChunk
  BY <1>16 DEF SendChunk
<1>17. CASE SendChunkFails
  BY <1>17 DEF SendChunkFails
<1>18. CASE JoinHandler
  BY <1>18 DEF JoinHandler
<1>19. CASE ReachEof
  BY <1>19 DEF ReachEof
<1>20. CASE AwaitTask
  BY <1>20 DEF AwaitTask
<1>21. CASE SendCompletion
  BY <1>21 DEF SendCompletion
<1>22. CASE Linger
  BY <1>22 DEF Linger
<1>23. CASE HandlerStops
  BY <1>23 DEF HandlerStops
<1>24. CASE GraceExpires
  BY <1>24 DEF GraceExpires
<1>25. CASE DaemonDies
  BY <1>25 DEF DaemonDies
<1>26. CASE WantsToWrite
  BY <1>26 DEF WantsToWrite
<1>27. CASE Write
  BY <1>27 DEF Write
<1>28. CASE CloseOutput
  BY <1>28 DEF CloseOutput
<1>29. CASE HandlerAborted
  BY <1>29 DEF HandlerAborted
<1>30. ASSUME NEW r \in Results, HandlerReturns(r) PROVE CallInv'
  BY <1>30 DEF HandlerReturns
<1>31. CASE Finished
  BY <1>31 DEF Finished, vars
<1>32. CASE UNCHANGED vars
  BY <1>32 DEF vars
<1>33. QED
  BY <1>1, <1>2, <1>3, <1>4, <1>5, <1>6, <1>7, <1>8, <1>9, <1>10, <1>11, <1>12,
     <1>13, <1>14, <1>15, <1>16, <1>17, <1>18, <1>19, <1>20, <1>21, <1>22,
     <1>23, <1>24, <1>25, <1>26, <1>27, <1>28, <1>29, <1>30, <1>31, <1>32
  DEF Next, ClientNext, ClientReceives, ServerNext, HandlerNext

(* The invariant holds at the start.                                       *)
LEMMA IInvInit == Init => IInv
<1> SUFFICES ASSUME Init PROVE IInv
  OBVIOUS
<1>1. TypeOK
  BY TypingInit
<1>2. \A k \in 1..MaxCalls : outcome[k] = NoResult /\ outcome[k] \notin Results
  BY KindsDiffer DEF Init, NoResult
<1>3. stdout = Bytes(0, Len(stdout))
  BY EmptySeq DEF Init, Bytes
<1>4. QED
  BY <1>1, <1>2, <1>3, BoundsAssumption
  DEF Init, IInv, HandlerInv, ResultInv, PhaseInv, CallInv, StreamInv, AnswerIsHandlers, AnswersOwnCommand,
      AnswerAfterOutput, Serving, ClientOpen, ServerOpen, HandlerActive, HiAt, Sent

(* Every step keeps the invariant.                                         *)
LEMMA IInvNext == IInv /\ [Next]_vars => IInv'
BY TypingNext, HandlerInvNext, ResultInvNext, PhaseInvNext, CallInvNext, StreamInvNext DEF IInv

(* The invariant holds in every reachable state.                           *)
LEMMA IInvInvariant == Spec => []IInv
<1>1. QED
  BY IInvInit, IInvNext, PTL DEF Spec

-----------------------------------------------------------------------------
(* For every number of calls, amount of output and capacity of pipe and    *)
(* socket: the client prints the handler's output, in order and without a  *)
(* gap, up to where it is or where its stdout failed.                      *)
THEOREM OutputIntact == Spec => []StdoutIsOutput
<1>1. IInv => StdoutIsOutput
  BY DEF IInv, StreamInv, StdoutIsOutput
<1>2. QED
  BY <1>1, IInvInvariant, PTL

(* All of the output is printed before a call returns the command's        *)
(* result, also when the handler's task is joined before its output is read. *)
THEOREM AnswerLast == Spec => []AnswerAfterOutput
<1>1. IInv => AnswerAfterOutput
  BY DEF IInv, StreamInv, AnswerAfterOutput
<1>2. QED
  BY <1>1, IInvInvariant, PTL

(* What a call returns as the command's result is what the handler          *)
(* returned, whatever the order of end of file and task completion.         *)
THEOREM AnswerFaithful == Spec => []AnswerIsHandlers
<1>1. IInv => AnswerIsHandlers
  BY DEF IInv, ResultInv
<1>2. QED
  BY <1>1, IInvInvariant, PTL

(* A client that makes no call after one that failed on its stdout never   *)
(* returns the result of another call's command.                           *)
THEOREM AnswerOwn == Spec => [](~MayReuse => AnswersOwnCommand)
<1>1. IInv => (~MayReuse => AnswersOwnCommand)
  BY DEF IInv, PhaseInv
<1>2. QED
  BY <1>1, IInvInvariant, PTL

(* No handler outlives its connection task without having been aborted.     *)
THEOREM HandlerNotOrphaned == Spec => []NoOrphanHandler
<1>1. IInv => NoOrphanHandler
  BY DEF IInv, HandlerInv, NoOrphanHandler
<1>2. QED
  BY <1>1, IInvInvariant, PTL

-----------------------------------------------------------------------------
(* Client, task and handler never wait for each other.                     *)

LEMMA WaitInvInit == Init => WaitInv
BY DEF Init, WaitInv, ServerOpen, Serving

(* Every step keeps what each side has sent before it waits.               *)
LEMMA WaitInvNext ==
  TypeOK /\ HandlerInv /\ WaitInv /\ [Next]_vars => WaitInv'
<1> SUFFICES ASSUME TypeOK, HandlerInv, WaitInv, [Next]_vars
             PROVE  WaitInv'
  OBVIOUS
<1> USE DEF TypeOK, HandlerInv, WaitInv, clientVars, serverVars, handlerVars, ServerOpen, ClientOpen,
        HandlerActive, Available, Serving
<1>1. CASE SendVersion
  BY <1>1 DEF SendVersion, VersionCheck
<1>2. CASE ReceiveVersion
  <2>1. s2c \in Seq(ServerMessages) /\ s2c # <<>> /\ cpc = "handshake"
    BY <1>2 DEF ReceiveVersion
  <2>2. Len(s2c) = 1 => s2c' = <<>>
    BY <1>2, <2>1, TailOfQueue DEF ReceiveVersion
  <2>3. QED
    BY <1>2, <2>1, <2>2 DEF ReceiveVersion
<1>3. CASE HandshakeFails
  BY <1>3 DEF HandshakeFails
<1>4. CASE Execute
  BY <1>4 DEF Execute, MayCall, Command
<1>5. CASE ExecuteSendFails
  BY <1>5 DEF ExecuteSendFails, MayCall
<1>6. CASE ReceiveChunk
  BY <1>6 DEF ReceiveChunk, Receiving
<1>7. CASE StdoutFails
  BY <1>7 DEF StdoutFails, Receiving
<1>8. CASE ReceiveComplete
  BY <1>8 DEF ReceiveComplete, Receiving, Returns
<1>9. CASE ReceiveError
  BY <1>9 DEF ReceiveError, Receiving, Returns
<1>10. CASE ReceiveClosed
  BY <1>10 DEF ReceiveClosed, Returns
<1>11. CASE ClientGone
  BY <1>11 DEF ClientGone
<1>12. CASE Handshake
  BY <1>12 DEF Handshake, VersionCheck
<1>13. CASE NothingReceived
  BY <1>13 DEF NothingReceived
<1>14. CASE StartCommand
  BY <1>14 DEF StartCommand
<1>15. CASE ReadChunk
  BY <1>15 DEF ReadChunk
<1>16. CASE SendChunk
  BY <1>16 DEF SendChunk, OutputChunk
<1>17. CASE SendChunkFails
  BY <1>17 DEF SendChunkFails
<1>18. CASE JoinHandler
  BY <1>18 DEF JoinHandler
<1>19. CASE ReachEof
  BY <1>19 DEF ReachEof
<1>20. CASE AwaitTask
  BY <1>20 DEF AwaitTask
<1>21. CASE SendCompletion
  BY <1>21, CompletionIsResult DEF SendCompletion, Answers
<1>22. CASE Linger
  BY <1>22 DEF Linger
<1>23. CASE HandlerStops
  BY <1>23 DEF HandlerStops
<1>24. CASE GraceExpires
  BY <1>24 DEF GraceExpires
<1>25. CASE DaemonDies
  BY <1>25 DEF DaemonDies
<1>26. CASE WantsToWrite
  BY <1>26 DEF WantsToWrite
<1>27. CASE Write
  BY <1>27 DEF Write
<1>28. CASE CloseOutput
  BY <1>28 DEF CloseOutput
<1>29. CASE HandlerAborted
  BY <1>29 DEF HandlerAborted
<1>30. ASSUME NEW r \in Results, HandlerReturns(r) PROVE WaitInv'
  BY <1>30 DEF HandlerReturns
<1>31. CASE Finished \/ UNCHANGED vars
  BY <1>31 DEF Finished, vars
<1>32. QED
  BY <1>1, <1>2, <1>3, <1>4, <1>5, <1>6, <1>7, <1>8, <1>9, <1>10, <1>11, <1>12,
     <1>13, <1>14, <1>15, <1>16, <1>17, <1>18, <1>19, <1>20, <1>21, <1>22,
     <1>23, <1>24, <1>25, <1>26, <1>27, <1>28, <1>29, <1>30, <1>31
  DEF Next, ClientNext, ClientReceives, ServerNext, HandlerNext

(* So one of the three can go on, wherever the task is.                    *)
LEMMA SomeoneGoesOn ==
  ASSUME TypeOK, HandlerInv, WaitInv,
         cpc \in {"handshake", "receiving"} \/ (~ClientOpen /\ ServerOpen)
  PROVE  ClientCouldGoOn \/ TaskCouldGoOn \/ HandlerCouldGoOn
<1>1. CASE ~ServerOpen
  BY <1>1 DEF WaitInv, ClientCouldGoOn
<1>2. CASE spc \in {"hello", "command"}
  BY <1>2 DEF WaitInv, ClientCouldGoOn, TaskCouldGoOn, ClientOpen
<1>3. CASE spc = "streaming"
  <2>1. Available \in Nat
    BY DEF TypeOK, HandlerInv, Available
  <2>2. CASE Available > 0 \/ ~writerOpen
    BY <1>3, <2>2 DEF TaskCouldGoOn
  <2>3. CASE Available = 0 /\ writerOpen
    BY <2>3, CapacityAssumption DEF HandlerInv, HandlerActive, HandlerCouldGoOn
  <2>4. QED
    BY <2>1, <2>2, <2>3 DEF TypeOK
<1>4. CASE spc \in {"sending", "completing"}
  <2>1. CASE ~ClientOpen \/ ~SocketFull
    BY <1>4, <2>1 DEF TaskCouldGoOn
  <2>2. CASE ClientOpen /\ SocketFull
    <3>1. s2c \in Seq(ServerMessages) /\ Len(s2c) > 0
      BY <2>2, CapacityAssumption DEF TypeOK, SocketFull
    <3>2. s2c # <<>>
      BY <3>1
    <3>3. 1 \in 1..Len(s2c) /\ Head(s2c) = s2c[1]
      BY <3>1, <3>2, TailOfQueue
    <3>4. QED
      BY <1>4, <2>2, <3>2, <3>3 DEF WaitInv, ClientCouldGoOn
  <2>3. QED
    BY <2>1, <2>2
<1>5. CASE spc = "awaitTask"
  <2>1. hpc \in {"running", "done"}
    BY <1>5 DEF TypeOK, HandlerInv, WaitInv, ServerOpen
  <2>2. QED
    BY <1>5, <2>1 DEF TaskCouldGoOn, HandlerCouldGoOn
<1>6. CASE spc \in {"linger", "cancelWait"}
  BY <1>6 DEF TaskCouldGoOn
<1>7. QED
  BY <1>1, <1>2, <1>3, <1>4, <1>5, <1>6 DEF TypeOK, ServerOpen

(* For every capacity of pipe and socket and every amount of output: while *)
(* the client waits, or is gone and its task there, one of client, task    *)
(* and handler can go on (server.rs:277-451, client.rs:615-685).           *)
THEOREM NeverAtStandstill == Spec => []NoStandstill
<1>1. IInv /\ WaitInv /\ [Next]_vars => WaitInv'
  BY WaitInvNext DEF IInv
<1>2. IInv /\ WaitInv => NoStandstill
  BY SomeoneGoesOn DEF IInv, NoStandstill
<1>3. QED
  BY <1>1, <1>2, WaitInvInit, IInvInvariant, PTL DEF Spec

-----------------------------------------------------------------------------
(* Connection implements CommandPromise.                                   *)

(* The promise starts where the connection starts.                         *)
LEMMA PromiseInit == Init => Promise!Init
<1> SUFFICES ASSUME Init PROVE Promise!Init
  OBVIOUS
<1>1. FirstOutcome = NoResult
  BY BoundsAssumption DEF Init, FirstOutcome, NoResult
<1>2. QED
  BY <1>1, KindsDiffer, EmptySeq DEF Init, Promise!Init

(* While messages are queued the first call is the only one, and unanswered. *)
LEMMA FirstCallPending ==
  ASSUME TypeOK, PhaseInv, CallInv, s2c # <<>>, cpc = "receiving"
  PROVE  call = 1 /\ MaxCalls >= 1 /\ FirstOutcome = NoResult
<1>1. \A k \in 1..MaxCalls : outcome[k] = NoResult
  BY DEF PhaseInv
<1>2. call \in 1..MaxCalls /\ 1 \in 1..MaxCalls
  BY BoundsAssumption DEF TypeOK, CallInv
<1>3. call = 1
  BY <1>1, <1>2 DEF CallInv
<1>4. QED
  BY <1>1, <1>2, <1>3, BoundsAssumption DEF FirstOutcome

(* A call that ends without a result is a loss of the connection when it is *)
(* the first, and no step of the promise when it is a later one.            *)
LEMMA LosingStep ==
  ASSUME TypeOK, CallInv,
         NEW k \in 1..MaxCalls, outcome[k] = NoResult,
         \A j \in 1..MaxCalls : j < k => outcome[j] # NoResult,
         NEW r, r \in {NoCode("closed"), NoCode("reset"), NoCode("sendFailed"), NoCode("stdoutFailed")},
         outcome' = [outcome EXCEPT ![k] = r],
         UNCHANGED <<written, stdout, hres, hpc>>
  PROVE  [Promise!Next]_(Promise!promiseVars)
<1>1. MaxCalls # 0 /\ 1 \in 1..MaxCalls /\ FirstOutcome = outcome[1] /\ FirstOutcome' = outcome'[1]
  BY BoundsAssumption DEF FirstOutcome
<1>2. r \notin Results \cup {NoResult}
  BY KindsDiffer DEF NoCode, NoResult
<1>3. CASE k = 1
  <2>1. FirstOutcome = NoResult /\ FirstOutcome' = r
    BY <1>1, <1>3 DEF TypeOK
  <2>2. Promise!Lose
    BY <1>2, <2>1, KindsDiffer DEF Promise!Lose, Promise!Unanswered
  <2>3. QED
    BY <2>2 DEF Promise!Next
<1>4. CASE k # 1
  <2>1. FirstOutcome' = FirstOutcome
    BY <1>1, <1>4 DEF TypeOK
  <2>2. QED
    BY <2>1 DEF Promise!promiseVars
<1>5. QED
  BY <1>3, <1>4

(* The completion message answers the first call with the command's result  *)
(* when the whole output is shown.                                          *)
LEMMA AnsweringStep ==
  ASSUME IInv, ~MayReuse, ReceiveComplete \/ ReceiveError
  PROVE  [Promise!Next]_(Promise!promiseVars)
<1>1. /\ s2c \in Seq(ServerMessages) /\ s2c # <<>> /\ cpc = "receiving"
      /\ Head(s2c).type \in Answers
      /\ UNCHANGED <<written, stdout, hres, hpc>>
  BY DEF ReceiveComplete, ReceiveError, Receiving, Answers, IInv, TypeOK, handlerVars
<1>2. 1 \in 1..Len(s2c) /\ Head(s2c) = s2c[1]
  BY <1>1, TailOfQueue
<1>3. call = 1 /\ MaxCalls >= 1 /\ FirstOutcome = NoResult
  BY <1>1, FirstCallPending DEF IInv
<1>4. Len(stdout) = written
  BY <1>1, <1>2 DEF IInv, StreamInv, HiAt
<1>5. outcome' = [outcome EXCEPT ![1] = hres]
  BY <1>1, <1>2, <1>3
  DEF ReceiveComplete, ReceiveError, Receiving, Returns, IInv, ResultInv
<1>6. hres \in Results
  <2>1. hres # NoResult
    BY <1>1, <1>2, NoEarlyAnswer DEF IInv
  <2>2. QED
    BY <2>1 DEF IInv, TypeOK
<1>7. FirstOutcome' = hres
  BY <1>3, <1>5, BoundsAssumption DEF FirstOutcome, IInv, TypeOK
<1>8. Promise!Answer
  BY <1>1, <1>3, <1>4, <1>6, <1>7, KindsDiffer DEF Promise!Answer, Promise!Unanswered
<1>9. QED
  BY <1>8 DEF Promise!Next

(* Printing a chunk shows more of what the command has produced.            *)
LEMMA PrintingStep ==
  ASSUME IInv, ~MayReuse, ReceiveChunk
  PROVE  [Promise!Next]_(Promise!promiseVars)
<1>1. UNCHANGED <<written, outcome, hres, hpc>> /\ cpc = "receiving"
  BY DEF ReceiveChunk, Receiving, handlerVars
<1>2. s2c # <<>> /\ s2c[1].type = "OutputChunk" /\ 1 \in 1..Len(s2c)
      /\ Len(stdout') = s2c[1].hi /\ s2c[1].hi \in Nat /\ s2c[1].hi <= written
  BY ReceiveChunkEffect DEF IInv
<1>3. FirstOutcome = NoResult /\ FirstOutcome' = FirstOutcome
  BY <1>1, <1>2, FirstCallPending DEF IInv, FirstOutcome
<1>4. Len(stdout) <= s2c[1].hi /\ Len(stdout) \in Nat /\ written \in Nat
  BY <1>1, <1>2, LenProperties DEF IInv, StreamInv, HiAt, TypeOK
<1>5. CASE Len(stdout') = Len(stdout)
  BY <1>1, <1>3, <1>5 DEF Promise!promiseVars
<1>6. CASE Len(stdout') # Len(stdout)
  <2>1. Len(stdout') \in (Len(stdout) + 1)..written
    BY <1>2, <1>4, <1>6
  <2>2. Promise!Show
    BY <1>1, <1>3, <2>1, KindsDiffer DEF Promise!Show, Promise!Unanswered
  <2>3. QED
    BY <2>2 DEF Promise!Next
<1>7. QED
  BY <1>5, <1>6

(* Every step of the connection is a step of the promise or none.          *)
LEMMA PromiseNext ==
  IInv /\ ~MayReuse /\ [Next]_vars => [Promise!Next]_(Promise!promiseVars)
<1> SUFFICES ASSUME IInv, ~MayReuse, [Next]_vars
             PROVE  [Promise!Next]_(Promise!promiseVars)
  OBVIOUS
<1>0. TypeOK /\ HandlerInv /\ PhaseInv /\ CallInv
  BY DEF IInv
<1>1. CASE UNCHANGED <<written, stdout, hres, hpc, outcome>>
  BY <1>1 DEF Promise!promiseVars, FirstOutcome
<1>2. CASE ReceiveChunk
  BY <1>2, PrintingStep
<1>3. CASE ReceiveComplete \/ ReceiveError
  BY <1>3, AnsweringStep
<1>4. CASE ExecuteSendFails
  <2>1. /\ call + 1 \in 1..MaxCalls /\ outcome[call + 1] = NoResult
        /\ \A j \in 1..MaxCalls : j < call + 1 => outcome[j] # NoResult
    BY <1>0, <1>4, BoundsAssumption DEF ExecuteSendFails, MayCall, TypeOK, CallInv
  <2>2. QED
    BY <1>0, <1>4, <2>1, LosingStep DEF ExecuteSendFails, handlerVars
<1>5. CASE ReceiveClosed \/ StdoutFails
  <2>1. /\ call \in 1..MaxCalls /\ outcome[call] = NoResult
        /\ \A j \in 1..MaxCalls : j < call => outcome[j] # NoResult
    BY <1>0, <1>5, BoundsAssumption DEF ReceiveClosed, StdoutFails, Receiving, TypeOK, CallInv
  <2>2. QED
    BY <1>0, <1>5, <2>1, LosingStep DEF ReceiveClosed, StdoutFails, Returns, handlerVars
<1>6. CASE WantsToWrite
  BY <1>6 DEF WantsToWrite, clientVars, FirstOutcome, Promise!promiseVars
<1>7. CASE Write
  <2>1. UNCHANGED <<stdout, hres, outcome>> /\ hpc = "writing" /\ hpc' = "running"
        /\ written' \in {written, written + 1}
    BY <1>7 DEF Write, clientVars
  <2>2. hres = NoResult
    BY <1>0, <2>1 DEF HandlerInv
  <2>3. CASE written' = written
    BY <2>1, <2>3 DEF FirstOutcome, Promise!promiseVars
  <2>4. CASE written' = written + 1
    BY <2>1, <2>2, <2>4 DEF FirstOutcome, Promise!Produce, Promise!Next
  <2>5. QED
    BY <2>1, <2>3, <2>4
<1>8. ASSUME NEW r \in Results, HandlerReturns(r)
      PROVE  [Promise!Next]_(Promise!promiseVars)
  <2>1. UNCHANGED <<stdout, written, outcome>> /\ HandlerActive /\ hpc' = "done" /\ hres' = r
    BY <1>8 DEF HandlerReturns, clientVars
  <2>2. Promise!End(r)
    BY <1>0, <2>1 DEF HandlerInv, HandlerActive, FirstOutcome, Promise!End
  <2>3. QED
    BY <2>2 DEF Promise!Next
<1>9. CASE HandlerAborted \/ (DaemonDies /\ HandlerActive)
  <2>1. UNCHANGED <<stdout, written, outcome, hres>> /\ HandlerActive /\ hpc' \in {"aborted", "killed"}
    BY <1>9 DEF HandlerAborted, DaemonDies, clientVars
  <2>2. Promise!Stop
    BY <1>0, <2>1 DEF HandlerInv, HandlerActive, FirstOutcome, Promise!Stop
  <2>3. QED
    BY <2>2 DEF Promise!Next
<1>10. CASE DaemonDies /\ ~HandlerActive
  BY <1>1, <1>10 DEF DaemonDies, clientVars
<1>11. CASE StartCommand
  <2>1. UNCHANGED <<stdout, written, outcome, hres>> /\ hpc = "none" /\ hpc' = "running"
    BY <1>0, <1>11 DEF StartCommand, clientVars, HandlerInv
  <2>2. QED
    BY <2>1 DEF FirstOutcome, Promise!promiseVars
<1>12. QED
  <2>1. CASE SendVersion \/ ReceiveVersion \/ HandshakeFails \/ Execute \/ ClientGone
    BY <1>1, <2>1 DEF SendVersion, ReceiveVersion, HandshakeFails, Execute, ClientGone, handlerVars
  <2>2. CASE ServerNext /\ ~StartCommand
    BY <1>1, <2>2
    DEF ServerNext, Handshake, NothingReceived, ReadChunk, SendChunk, SendChunkFails, JoinHandler,
        ReachEof, AwaitTask, SendCompletion, Linger, HandlerStops, GraceExpires, clientVars,
        handlerVars
  <2>3. CASE CloseOutput \/ Finished \/ UNCHANGED vars
    BY <1>1, <2>3 DEF CloseOutput, Finished, vars, clientVars, handlerVars
  <2>4. QED
    BY <1>2, <1>3, <1>4, <1>5, <1>6, <1>7, <1>8, <1>9, <1>10, <1>11, <2>1, <2>2, <2>3
    DEF Next, ClientNext, ClientReceives, ServerNext, HandlerNext

(* Under the same condition one command over a connection is what           *)
(* CommandPromise says: the caller sees a growing prefix of the output and, *)
(* if it is told a result, the command's own, after all of the output.      *)
THEOREM ConnectionKeepsPromise == ~MayReuse => (Spec => KeepsPromise)
<1> SUFFICES ASSUME ~MayReuse PROVE Spec => KeepsPromise
  OBVIOUS
<1>1. IInv /\ [Next]_vars => [Promise!Next]_(Promise!promiseVars)
  BY PromiseNext
<1>2. QED
  BY <1>1, PromiseInit, IInvInvariant, PTL DEF Spec, KeepsPromise, Promise!Spec

-----------------------------------------------------------------------------
(* Connection implements ServeTask.                                        *)

LEMMA ServedByServer ==
  ASSUME TypeOK, HandlerInv, ServerNext \/ DaemonDies
  PROVE  [Served!Next]_(Served!serveVars)
<1> USE DEF HandlerInv, TaskState, HandlerState, ClientOpen, ServerOpen, HandlerActive, Served!Next,
            serverVars, handlerVars, clientVars
<1>1. cpc' = cpc
  BY DEF ServerNext, Handshake, NothingReceived, StartCommand, ReadChunk, SendChunk, SendChunkFails,
         JoinHandler, ReachEof, AwaitTask, SendCompletion, Linger, HandlerStops, GraceExpires, DaemonDies
<1>2. CASE Handshake \/ NothingReceived
  BY <1>1, <1>2 DEF Handshake, NothingReceived, Served!Greet, Served!Dismiss
<1>3. CASE StartCommand
  BY <1>1, <1>3 DEF StartCommand, Served!Start
<1>4. CASE ReadChunk \/ SendChunk \/ JoinHandler \/ ReachEof \/ AwaitTask
  BY <1>1, <1>4 DEF ReadChunk, SendChunk, JoinHandler, ReachEof, AwaitTask, Served!serveVars
<1>5. CASE SendChunkFails
  BY <1>1, <1>5 DEF SendChunkFails, Served!NoticeGone
<1>6. CASE SendCompletion
  BY <1>1, <1>6 DEF SendCompletion, Served!Finish
<1>7. CASE Linger \/ HandlerStops \/ GraceExpires
  BY <1>1, <1>7 DEF Linger, HandlerStops, GraceExpires, Served!Quit
<1>8. CASE DaemonDies
  BY <1>1, <1>8 DEF DaemonDies, TypeOK, Served!Vanish
<1>9. QED
  BY <1>2, <1>3, <1>4, <1>5, <1>6, <1>7, <1>8 DEF ServerNext

LEMMA ServedByOthers ==
  ASSUME TypeOK, HandlerInv, ClientNext \/ HandlerNext
  PROVE  [Served!Next]_(Served!serveVars)
<1> USE DEF HandlerInv, TaskState, HandlerState, ClientOpen, ServerOpen, HandlerActive, Served!Next,
            serverVars, handlerVars, clientVars
<1>1. CASE ClientGone
  BY <1>1 DEF ClientGone, Served!Leave
<1>2. CASE HandshakeFails
  BY <1>2 DEF HandshakeFails, Served!Leave
<1>3. CASE ClientNext /\ ~ClientGone /\ ~HandshakeFails
  <2>1. /\ UNCHANGED <<spc, hpc, signal>>
        /\ cpc' = "gone" <=> cpc = "gone"
    BY <1>3 DEF ClientNext, SendVersion, ReceiveVersion, Execute, ExecuteSendFails, ClientReceives, MayCall,
       ReceiveChunk, StdoutFails, ReceiveComplete, ReceiveError, ReceiveClosed, Receiving, Returns
  <2>2. QED
    BY <2>1 DEF Served!serveVars
<1>4. CASE WantsToWrite \/ Write \/ CloseOutput
  BY <1>4 DEF WantsToWrite, Write, CloseOutput, Served!serveVars
<1>5. CASE HandlerAborted \/ \E r \in Results : HandlerReturns(r)
  BY <1>5 DEF HandlerAborted, HandlerReturns, Served!HandlerEnds
<1>6. QED
  BY <1>1, <1>2, <1>3, <1>4, <1>5 DEF HandlerNext

(* Without its messages, a connection is one of the tasks that AcceptLoop  *)
(* runs: what is proved of those holds of it.                              *)
THEOREM ConnectionServes == Spec => ServesTask
<1>1. Init => Served!Init
  BY DEF Init, Served!Init, TaskState, HandlerState, ClientOpen, HandlerActive
<1>2. IInv /\ [Next]_vars => [Served!Next]_(Served!serveVars)
  <2> SUFFICES ASSUME IInv, [Next]_vars PROVE [Served!Next]_(Served!serveVars)
    OBVIOUS
  <2>1. CASE UNCHANGED vars
    BY <2>1 DEF vars, clientVars, serverVars, handlerVars, Served!serveVars, TaskState, HandlerState,
                ClientOpen, HandlerActive
  <2>2. QED
    BY <2>1, ServedByServer, ServedByOthers DEF IInv, Next, Finished
<1>3. QED
  BY <1>1, <1>2, IInvInvariant, PTL DEF Spec, ServesTask, Served!Spec
=============================================================================
