--------------------------- MODULE AcceptLoopInv ----------------------------
(***************************************************************************)
(* The inductive invariant behind AcceptLoop's safety properties.          *)
(***************************************************************************)
EXTENDS AcceptLoop

\* The semaphore and the tasks account for every permit.
PermitsMatch == permits + Cardinality(Live) = MaxConnections

\* The listener's queue holds each connection once, and none that has a task.
BacklogInv ==
  /\ \A i \in 1..Len(backlog) :
       task[backlog[i]] = "none" /\ client[backlog[i]] # "away"
  /\ \A i, j \in 1..Len(backlog) : backlog[i] = backlog[j] => i = j

\* How far the task, its handler and its client can be from each other.
TaskInv ==
  \A c \in Clients :
    /\ client[c] = "away" => task[c] = "none"
    /\ asked[c] => task[c] \in {"idle", "over"}
    /\ task[c] \in {"none", "greeting", "idle"} => handler[c] = "none"
    /\ task[c] \in {"running", "cancelling"} => handler[c] \in {"running", "over"}
    /\ task[c] = "lingering" => handler[c] = "over"
    /\ task[c] = "over" => handler[c] # "running"

IInv == TypeOK /\ PermitsMatch /\ BacklogInv /\ TaskInv
=============================================================================
