--------------------------- MODULE ConnectionInv ----------------------------
(***************************************************************************)
(* The inductive invariant behind the safety properties of Connection.     *)
(* None of StdoutIsOutput, AnswerAfterOutput, AnswerIsHandlers and         *)
(* AnswersOwnCommand is inductive: what the client will print and return   *)
(* is decided by what is in the pipe, in the server's hand and on the      *)
(* socket, so the invariant says how those fit together.                   *)
(***************************************************************************)
EXTENDS Connection

Answers == {"CommandComplete", "CommandError"}

\* A command is being run for the client and its answer is still to be sent.
Serving == spc \in {"streaming", "sending", "awaitTask", "completing", "cancelWait"}

\* The server's bookkeeping agrees with the handler.
HandlerInv ==
  /\ hpc = "none" => /\ written = 0 /\ cmd = 0 /\ ~writerOpen
                     /\ spc \in {"hello", "command", "ended", "killed"}
  /\ spc \in {"hello", "command"} => hpc = "none"
  /\ hres # NoResult <=> hpc = "done"
  /\ joined # NoResult => joined = hres
  /\ writerOpen => HandlerActive
  /\ hpc = "writing" => writerOpen
  /\ taken <= written
  /\ spc = "sending" => inHand.lo <= inHand.hi /\ inHand.hi = taken
  /\ spc \in {"awaitTask", "completing", "linger"} => taken = written /\ ~writerOpen
  /\ spc \in {"completing", "linger"} => joined # NoResult
  /\ signal # "none" => spc \in {"cancelWait", "ended", "killed"}
  /\ ~ServerOpen /\ HandlerActive => signal = "aborted"

\* An answer is the handler's result, on the socket and once received.
ResultInv ==
  /\ \A i \in 1..Len(s2c) :
       /\ s2c[i].type = "CommandComplete" => hres = Exit(s2c[i].code)
       /\ s2c[i].type = "CommandError" => hres = NoCode(s2c[i].text)
  /\ AnswerIsHandlers

\* Who may be where while which messages are under way.
PhaseInv ==
  /\ ~ClientOpen => s2c = <<>>
  /\ spc = "hello" => /\ cpc \in {"connected", "handshake", "gone"}
                      /\ s2c = <<>>
                      /\ Len(c2s) <= 1 /\ (c2s # <<>> => cpc # "connected")
  /\ spc = "command" => /\ cpc # "connected"
                        /\ \A i \in 1..Len(s2c) : s2c[i].type = "VersionCheck"
                        /\ c2s # <<>> => /\ cpc \in {"receiving", "gone"}
                                         /\ Head(c2s).type = "Command"
                                         /\ Head(c2s).call = call
  /\ Serving => cpc \in {"receiving", "abandoned", "gone"} /\ cmd = call
  /\ \A i \in 1..Len(s2c) :
       IF s2c[i].type = "VersionCheck"
         THEN cpc = "handshake" /\ Len(s2c) = 1
         ELSE cpc \in {"receiving", "abandoned"} /\ cmd = call /\ hpc # "none"
  /\ \A i \in 1..Len(s2c) :
       s2c[i].type \in Answers => i = Len(s2c) /\ spc \in {"linger", "ended", "killed"}
  /\ (\E k \in 1..MaxCalls : outcome[k] # NoResult) /\ cpc \notin {"abandoned", "gone"}
       => s2c = <<>> /\ spc \in {"linger", "ended", "killed"}
  /\ AnswersOwnCommand

\* Calls are made one after the other.
CallInv ==
  /\ cpc = "receiving" => call > 0
  /\ \A k \in 1..MaxCalls :
       /\ k > call \/ (k = call /\ cpc = "receiving") => outcome[k] = NoResult
       /\ k < call \/ (k = call /\ cpc \notin {"receiving", "gone"}) => outcome[k] # NoResult

\* How far the output is printed or queued, up to the i-th message on the socket.
HiAt(i) == IF i = 0 THEN Len(stdout) ELSE s2c[i].hi
\* How far the server has passed it on.
Sent == IF spc = "sending" THEN inHand.lo ELSE taken

\* The printed bytes, the queued chunks, the chunk in hand and the pipe are the
\* handler's output, each starting where the one before ends, until the client
\* abandons the call.
StreamInv ==
  /\ hpc = "none" => stdout = <<>> /\ taken = 0
  /\ stdout = Bytes(0, Len(stdout)) /\ Len(stdout) <= written
  /\ cpc # "abandoned" => \A i \in 1..Len(s2c) :
       /\ s2c[i].type = "OutputChunk" => /\ s2c[i].lo = HiAt(i - 1)
                                         /\ s2c[i].lo <= s2c[i].hi
                                         /\ s2c[i].hi <= written
       /\ s2c[i].type \in Answers => HiAt(i - 1) = written
  /\ Serving /\ cpc \notin {"abandoned", "gone"} => HiAt(Len(s2c)) = Sent
  /\ AnswerAfterOutput

\* What each side has sent before it waits, and that an aborted handler's task is over:
\* why client, task and handler do not wait for each other. It holds with MayReuse, too.
WaitInv ==
  /\ hpc \in {"aborted", "killed"} \/ signal = "aborted" => ~ServerOpen
  /\ spc = "hello" => /\ cpc \in {"connected", "handshake", "gone"}
                      /\ s2c = <<>> /\ Len(c2s) <= 1
                      /\ cpc = "handshake" => c2s # <<>>
                      /\ cpc = "connected" => c2s = <<>>
  /\ spc = "command" => /\ cpc # "connected"
                        /\ cpc = "handshake" => c2s = <<>> /\ s2c # <<>>
                        /\ cpc = "receiving" => c2s # <<>>
                        /\ c2s # <<>> => /\ cpc \in {"receiving", "gone"}
                                         /\ Head(c2s).type = "Command"
                        /\ \A i \in 1..Len(s2c) : s2c[i].type = "VersionCheck"
  /\ Serving \/ spc = "linger" => cpc \notin {"connected", "handshake"}
  /\ \A i \in 1..Len(s2c) :
       s2c[i].type = "VersionCheck" => cpc = "handshake" /\ Len(s2c) = 1

IInv == /\ TypeOK
        /\ HandlerInv
        /\ ResultInv
        /\ ~MayReuse => PhaseInv /\ CallInv /\ StreamInv
=============================================================================
