--------------------------- MODULE CommandPromise ---------------------------
(***************************************************************************)
(* What executing one command over a connection promises, without sockets, *)
(* pipes or tasks: the command produces output and ends with a result; the *)
(* caller sees a growing prefix of the output; the call is answered with   *)
(* the command's own result, and then all of the output has been seen; or  *)
(* it is answered that the connection was lost, which says nothing of the  *)
(* command. Connection is shown to implement it.                           *)
(***************************************************************************)
EXTENDS Integers

CONSTANTS
  Results,     \* what a command may end with
  NoResult     \* not ended, or not answered; not one of Results

VARIABLES
  produced,    \* bytes of output the command has produced
  shown,       \* bytes of output the caller has seen
  result,      \* what the command ended with
  stopped,     \* the command was stopped before it ended
  answer,      \* what the caller was told: NoResult, a result, or ...
  lost         \* ... that the connection was lost

promiseVars == <<produced, shown, result, stopped, answer, lost>>

Init == /\ produced = 0 /\ shown = 0
        /\ result = NoResult /\ stopped = FALSE
        /\ answer = NoResult /\ lost = FALSE

Unanswered == answer = NoResult /\ ~lost

Produce == /\ result = NoResult /\ ~stopped
           /\ produced' = produced + 1
           /\ UNCHANGED <<shown, result, stopped, answer, lost>>

Show == /\ Unanswered
        /\ \E n \in (shown + 1)..produced : shown' = n
        /\ UNCHANGED <<produced, result, stopped, answer, lost>>

End(r) == /\ result = NoResult /\ ~stopped
          /\ result' = r
          /\ UNCHANGED <<produced, shown, stopped, answer, lost>>

Stop == /\ result = NoResult /\ ~stopped
        /\ stopped' = TRUE
        /\ UNCHANGED <<produced, shown, result, answer, lost>>

Answer == /\ Unanswered
          /\ result # NoResult /\ shown = produced
          /\ answer' = result
          /\ UNCHANGED <<produced, shown, result, stopped, lost>>

Lose == /\ Unanswered
        /\ lost' = TRUE
        /\ UNCHANGED <<produced, shown, result, stopped, answer>>

Next == Produce \/ Show \/ Stop \/ Answer \/ Lose \/ \E r \in Results : End(r)

Spec == Init /\ [][Next]_promiseVars
=============================================================================
