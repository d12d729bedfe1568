----------------------------- MODULE Terminate ------------------------------
(***************************************************************************)
(* Stopping a process by its pid: process_exists, terminate_process and    *)
(* kill_process, on Unix and on Windows, called as force_stop and          *)
(* cleanup_stale_processes call them. The process may end by itself at any *)
(* moment, its entry may stay after it ended (an unreaped child, an open   *)
(* handle), and once the entry is gone the pid may name another process.   *)
(*                                                                         *)
(* Lifecycle uses the same calls as single steps on a process it owns.     *)
(***************************************************************************)
EXTENDS Integers

CONSTANT
  Checks    \* checks after SIGTERM: graceful_timeout_ms.div_ceil(100)

ASSUME ChecksAssumption == Checks \in Nat

VARIABLES
  platform,   \* "unix" or "windows", fixed
  goal,       \* "stop" (force_stop) or "kill" (kill_process), fixed
  holder,     \* what the pid names: "target", "stranger" or "nobody"
  access,     \* what the caller may do to it: "full", "query" or "none"
  target,     \* the daemon: "running", "ended" (its entry is there) or "gone"
  posing,     \* it ended with exit code 259, STILL_ACTIVE
  sent,       \* what the caller sent to the target
  harmed,     \* the caller has signalled a stranger
  handle,     \* Windows: the caller holds a handle of what the pid names
  pc,         \* where the caller is
  left,       \* checks left before SIGKILL
  result      \* TerminateResult, or what force_stop makes of process_exists

processVars == <<holder, access, target, posing>>
callVars    == <<sent, harmed, handle, pc, left, result>>
vars        == <<platform, goal, processVars, callVars>>

Accesses == IF platform = "unix" THEN {"full", "none"} ELSE {"full", "query", "none"}

\* The process the pid names is told to end.
Signal(s) == /\ sent' = IF holder = "target" THEN sent \cup {s} ELSE sent
             /\ harmed' = (harmed \/ holder = "stranger")
Unsent    == UNCHANGED <<sent, harmed>>

Goto(label) == pc' = label /\ UNCHANGED result
Answer(r)   == pc' = "done" /\ result' = r

\* What kill(pid, signal) returns.
Errno == IF holder = "nobody" THEN "ESRCH" ELSE IF access # "full" THEN "EPERM" ELSE "OK"

\* OpenProcess with the right to terminate, and with the right to query.
OpensFull  == holder # "nobody" /\ access = "full"
OpensQuery == holder # "nobody" /\ access # "none"

\* process_exists: on Windows an ended process whose entry is still there is told
\* from a running one by its exit code.
Exists ==
  IF platform = "unix" THEN Errno # "ESRCH"
  ELSE OpensQuery /\ (holder = "target" /\ target = "ended" => posing)

Init ==
  /\ platform \in {"unix", "windows"} /\ goal \in {"stop", "kill"}
  /\ access \in Accesses
  /\ \/ target = "running" /\ holder = "target"
     \/ target = "gone" /\ holder \in {"stranger", "nobody"}
  /\ posing = FALSE /\ sent = {} /\ harmed = FALSE /\ handle = FALSE
  /\ pc = "start" /\ left = Checks /\ result = "none"

-----------------------------------------------------------------------------
(* Faulty variants of some of the actions below, each a bug this code could *)
(* have. Nothing uses them: the README says which property each one breaks. *)

\* Takes every error of the first check for the absence of the process.
CheckAnyError ==
  /\ platform = "unix" /\ pc = "check"
  /\ IF Errno = "OK" THEN Goto("term") ELSE Answer("alreadyDead")
  /\ UNCHANGED <<platform, goal, processVars, sent, harmed, handle, left>>

\* Checks once more than there are checks (0..=iterations).
CheckGraceOnceMore ==
  /\ platform = "unix" /\ pc = "grace"
  /\ CASE Errno = "ESRCH" -> Answer("terminated")
       [] Errno = "EPERM" -> Answer("permissionDenied")
       [] OTHER -> Goto("grace")
  /\ left' = left - 1
  /\ UNCHANGED <<platform, goal, processVars, sent, harmed, handle>>

\* Reports a process that outlives the grace period as one it may not stop.
SendKillDenied ==
  /\ platform = "unix" /\ pc = "grace" /\ left = 0
  /\ Answer("permissionDenied") /\ Unsent
  /\ UNCHANGED <<platform, goal, processVars, handle, left>>

\* Gives up after the grace period.
SendKillNever ==
  /\ platform = "unix" /\ pc = "grace" /\ left = 0
  /\ Answer("error") /\ Unsent
  /\ UNCHANGED <<platform, goal, processVars, handle, left>>

\* Waits until the process has answered SIGTERM.
CheckGraceUnlimited ==
  /\ platform = "unix" /\ pc = "grace" /\ left > 0
  /\ CASE Errno = "ESRCH" -> Answer("terminated")
       [] Errno = "EPERM" -> Answer("permissionDenied")
       [] OTHER -> Goto("grace")
  /\ UNCHANGED <<platform, goal, processVars, sent, harmed, handle, left>>

-----------------------------------------------------------------------------
(* The caller. force_stop asks process_exists, then terminate_process;     *)
(* kill_process runs kill or taskkill /F and ignores what becomes of it.   *)

AskExists ==
  /\ goal = "stop" /\ pc = "start"
  /\ IF Exists THEN Goto("check") ELSE Answer("notRunning")
  /\ UNCHANGED <<platform, goal, processVars, sent, harmed, handle, left>>

KillProcess ==
  /\ goal = "kill" /\ pc = "start"
  /\ IF Errno = "OK" THEN Signal(IF platform = "unix" THEN "term" ELSE "kill") ELSE Unsent
  /\ Answer("ignored")
  /\ UNCHANGED <<platform, goal, processVars, handle, left>>

\* Unix: signal 0, SIGTERM, a check every 100 ms, SIGKILL, 500 ms, a last check.
Check ==
  /\ platform = "unix" /\ pc = "check"
  /\ CASE Errno = "ESRCH" -> Answer("alreadyDead")
       [] Errno = "EPERM" -> Answer("permissionDenied")
       [] OTHER -> Goto("term")
  /\ UNCHANGED <<platform, goal, processVars, sent, harmed, handle, left>>

SendTerm ==
  /\ platform = "unix" /\ pc = "term"
  /\ CASE Errno = "ESRCH" -> Answer("alreadyDead") /\ Unsent
       [] Errno = "EPERM" -> Answer("permissionDenied") /\ Unsent
       [] OTHER -> Goto("grace") /\ Signal("term")
  /\ UNCHANGED <<platform, goal, processVars, handle, left>>

CheckGrace ==
  /\ platform = "unix" /\ pc = "grace" /\ left > 0
  /\ CASE Errno = "ESRCH" -> Answer("terminated")
       [] Errno = "EPERM" -> Answer("permissionDenied")
       [] OTHER -> Goto("grace")
  /\ left' = left - 1
  /\ UNCHANGED <<platform, goal, processVars, sent, harmed, handle>>

SendKill ==
  /\ platform = "unix" /\ pc = "grace" /\ left = 0
  /\ CASE Errno = "ESRCH" -> Answer("terminated") /\ Unsent
       [] Errno = "EPERM" -> Answer("permissionDenied") /\ Unsent
       [] OTHER -> Goto("settle") /\ Signal("kill")
  /\ UNCHANGED <<platform, goal, processVars, handle, left>>

\* "Process survived SIGKILL", or "Final check failed": both are errors.
FinalCheck ==
  /\ platform = "unix" /\ pc = "settle"
  /\ Answer(IF Errno = "ESRCH" THEN "terminated" ELSE "error")
  /\ UNCHANGED <<platform, goal, processVars, sent, harmed, handle, left>>

\* Windows: open, terminate, wait for up to five seconds.
Open ==
  /\ platform = "windows" /\ pc = "check"
  /\ handle' = OpensFull
  /\ Goto(IF OpensFull THEN "terminate" ELSE "query")
  /\ UNCHANGED <<platform, goal, processVars, sent, harmed, left>>

Query ==
  /\ platform = "windows" /\ pc = "query"
  /\ Answer(IF OpensQuery THEN "permissionDenied" ELSE "alreadyDead")
  /\ UNCHANGED <<platform, goal, processVars, sent, harmed, handle, left>>

\* TerminateProcess fails on a process that has ended.
WinTerminate ==
  /\ platform = "windows" /\ pc = "terminate"
  /\ IF holder = "target" /\ target = "ended"
     THEN Answer("error") /\ handle' = FALSE /\ Unsent
     ELSE Goto("waiting") /\ UNCHANGED handle /\ Signal("kill")
  /\ UNCHANGED <<platform, goal, processVars, left>>

Wait ==
  /\ platform = "windows" /\ pc = "waiting"
  /\ \/ Answer("error")
     \/ ~(holder = "target" /\ target = "running") /\ Answer("terminated")
  /\ handle' = FALSE
  /\ UNCHANGED <<platform, goal, processVars, sent, harmed, left>>

CallerNext == \/ AskExists \/ KillProcess \/ Check \/ SendTerm \/ CheckGrace \/ SendKill
              \/ FinalCheck \/ Open \/ Query \/ WinTerminate \/ Wait

-----------------------------------------------------------------------------
(* The processes.                                                          *)

\* By itself, by a signal, with whatever exit code.
Ends ==
  /\ target = "running"
  /\ target' = "ended" /\ posing' \in BOOLEAN
  /\ UNCHANGED <<platform, goal, holder, access, callVars>>

\* Its parent reaps it, or the last handle of it is closed.
Vanishes ==
  /\ target = "ended" /\ ~handle
  /\ target' = "gone" /\ holder' = "nobody"
  /\ UNCHANGED <<platform, goal, access, posing, callVars>>

\* The pid is given to another process, and that process ends.
Reused ==
  /\ holder = "nobody"
  /\ holder' = "stranger" /\ access' \in Accesses
  /\ UNCHANGED <<platform, goal, target, posing, callVars>>

StrangerVanishes ==
  /\ holder = "stranger" /\ ~handle
  /\ holder' = "nobody"
  /\ UNCHANGED <<platform, goal, access, target, posing, callVars>>

ProcessNext == Ends \/ Vanishes \/ Reused \/ StrangerVanishes

Next == CallerNext \/ ProcessNext

Spec == Init /\ [][Next]_vars

\* The caller's timers fire, and SIGKILL works. A process may ignore SIGTERM, its
\* parent may never reap it.
FairSpec == Spec /\ WF_vars(CallerNext) /\ WF_vars("kill" \in sent /\ Ends)

-----------------------------------------------------------------------------
(* Properties.                                                             *)

\* Every variable holds a value of its type (process.rs:11-22, 64-191).
TypeOK ==
  /\ platform \in {"unix", "windows"} /\ goal \in {"stop", "kill"}
  /\ holder \in {"target", "stranger", "nobody"} /\ access \in Accesses
  /\ target \in {"running", "ended", "gone"} /\ posing \in BOOLEAN
  /\ sent \subseteq {"term", "kill"} /\ harmed \in BOOLEAN /\ handle \in BOOLEAN
  /\ pc \in {"start", "check", "term", "grace", "settle", "query", "terminate", "waiting", "done"}
  /\ left \in 0..Checks
  /\ result \in {"none", "notRunning", "alreadyDead", "terminated", "permissionDenied",
                 "error", "ignored"}

\* The caller may not even see the process: on Windows that is taken for its absence.
Hidden == platform = "windows" /\ holder = "target" /\ access = "none"

\* force_stop removes the daemon's files, having been told that it is stopped, was
\* stopped or does not run, only when it is dead: whatever ends, is reaped or gets
\* the pid between the checks. The exception is a Windows process that is hidden.
ReportsDead ==
  result \in {"notRunning", "alreadyDead", "terminated"} => target # "running" \/ Hidden

\* A daemon reported as not ours to stop, or as not there, has not been told to
\* stop, unless it has done so and the answer is about another process.
DeniedUnharmed ==
  result \in {"notRunning", "alreadyDead", "permissionDenied"} /\ sent # {}
    => target # "running"

\* force_stop does not leave with the daemon running and not killed, unless it may not
\* kill it: every answer but those, errors included, comes after SIGKILL or after
\* the daemon's end.
NotSpared ==
  goal = "stop" /\ pc = "done" /\ target = "running" /\ "kill" \notin sent
    => result = "permissionDenied" \/ Hidden

\* The call returns, whatever the process does; and after force_stop the daemon is
\* down for good or soon, also when it ignores SIGTERM and when the answer is an
\* error, unless it is not ours to stop.
StopTakesEffect ==
  <>(/\ pc = "done"
     /\ goal = "stop" => target # "running" \/ result = "permissionDenied" \/ Hidden)
=============================================================================
