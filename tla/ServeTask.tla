----------------------------- MODULE ServeTask ------------------------------
(***************************************************************************)
(* What the server does with one connection, seen from outside: the task   *)
(* that run() spawned for it and the handler that task spawns, without the *)
(* messages. AcceptLoop runs one of these per accepted connection, and     *)
(* Connection, which has the messages, is shown to implement it.           *)
(***************************************************************************)

VARIABLES
  client,    \* "here" or "gone"
  task,      \* "greeting", "idle", "running", "cancelling", "lingering" or "over"
  handler    \* "none", "running", "aborting" (abort requested) or "over"

serveVars == <<client, task, handler>>

Init == client = "here" /\ task = "greeting" /\ handler = "none"

Leave == /\ client = "here" /\ client' = "gone"
         /\ UNCHANGED <<task, handler>>

Greet == /\ task = "greeting" /\ client = "here"
         /\ task' = "idle"
         /\ UNCHANGED <<client, handler>>

\* No handshake, another version, or no command: the task is over.
Dismiss == /\ task \in {"greeting", "idle"}
           /\ task = "idle" => client = "gone"
           /\ task' = "over"
           /\ UNCHANGED <<client, handler>>

Start == /\ task = "idle"
         /\ task' = "running" /\ handler' = "running"
         /\ UNCHANGED client

HandlerEnds == /\ handler \in {"running", "aborting"}
               /\ handler' = "over"
               /\ UNCHANGED <<client, task>>

\* The handler ended and its output is sent.
Finish == /\ task = "running" /\ handler = "over"
          /\ task' = "lingering"
          /\ UNCHANGED <<client, handler>>

\* Output could not be sent.
NoticeGone == /\ task = "running" /\ client = "gone"
              /\ task' \in {"cancelling"} \cup (IF handler = "over" THEN {"over"} ELSE {})
              /\ UNCHANGED <<client, handler>>

\* What is left of the task ends; it never leaves a handler running behind.
Quit == /\ task \in {"lingering", "cancelling"}
        /\ task' = "over"
        /\ handler' = IF handler = "running" THEN "aborting" ELSE handler
        /\ UNCHANGED client

\* The process or its runtime ends and takes task and handler along.
Vanish == /\ task # "over"
          /\ task' = "over"
          /\ handler' = IF handler = "none" THEN "none" ELSE "over"
          /\ UNCHANGED client

Next == \/ Leave \/ Greet \/ Dismiss \/ Start \/ HandlerEnds \/ Finish
        \/ NoticeGone \/ Quit \/ Vanish

Spec == Init /\ [][Next]_serveVars
=============================================================================
