---------------------------- MODULE DaemonPromise ----------------------------
(***************************************************************************)
(* What a client is promised that uses a daemon alone, without files,      *)
(* signals or handshakes: there is one daemon at a time; the client gets a *)
(* connection to one of its own build that can be reached; such a daemon   *)
(* is ended only when the client asks for it, or gives up on the one that  *)
(* it has just started; when force_stop is over no daemon is alive; and    *)
(* connecting fails only when the daemon died or took too long or the      *)
(* executable was rebuilt. Lifecycle is shown to implement it.             *)
(***************************************************************************)
EXTENDS Integers

CONSTANTS
  Processes,
  Nobody,     \* no process
  Crashes     \* whether a daemon may die without being told to

VARIABLES
  newest,     \* build timestamp of the executable
  alive,      \* the daemon there is: a set of one process, or of none
  serving,    \* it can be reached
  version,    \* build timestamp of each process
  user,       \* the client: "idle", "connecting", "waiting" for the daemon it started,
              \* "holding" a connection, or "stopping"
  mine,       \* its build timestamp
  peer        \* the process it has a connection to, or Nobody

daemon      == <<alive, serving, version>>
promiseVars == <<newest, daemon, user, mine, peer>>

Init == /\ alive = {} \/ \E d \in Processes : alive = {d}
        /\ serving = (alive # {})
        /\ user = "idle" /\ peer = Nobody

OfMyBuild == \A d \in alive : version[d] = mine

Rebuild == /\ newest' > newest
           /\ UNCHANGED <<daemon, user, mine, peer>>

\* The daemon: the client starts it when there is none; it is of the build that the
\* executable has at some later moment, comes to serve and, when it may, crashes.
Start(d) == /\ user = "connecting" /\ user' = "waiting"
            /\ alive = {} /\ d # peer
            /\ alive' = {d}
            /\ UNCHANGED <<newest, serving, version, mine, peer>>

Load(d) == /\ user = "waiting" /\ alive = {d} /\ ~serving
           /\ version' = [version EXCEPT ![d] = newest]
           /\ UNCHANGED <<newest, alive, serving, user, mine, peer>>

Serve == /\ alive # {} /\ ~serving
         /\ serving' = TRUE
         /\ UNCHANGED <<newest, alive, version, user, mine, peer>>

Dies == alive' = {} /\ serving' = FALSE /\ UNCHANGED version

Crash == Crashes /\ Dies /\ UNCHANGED <<newest, user, mine, peer>>

\* The client connects: a daemon of another build is put out of reach, and one out of
\* reach is ended; only ...
Connect == /\ user = "idle" /\ user' = "connecting"
           /\ mine' = newest
           /\ UNCHANGED <<newest, daemon, peer>>

Withdraw == /\ user = "connecting" /\ serving /\ ~OfMyBuild
            /\ serving' = FALSE
            /\ UNCHANGED <<newest, alive, version, user, mine, peer>>

Replace == /\ user = "connecting" /\ ~serving /\ Dies
           /\ UNCHANGED <<newest, user, mine, peer>>

\* ... one of its own is connected to.
Connected == /\ user = "connecting" /\ serving /\ OfMyBuild
             /\ user' = "holding" /\ peer' \in alive
             /\ UNCHANGED <<newest, daemon, mine>>

\* The wait for the daemon is over: it answers, or has died.
Waited == /\ user = "waiting" /\ user' = "connecting"
          /\ UNCHANGED <<newest, daemon, mine, peer>>

\* Failing leaves the client with the connection it had; the daemon is ended if it
\* took too long, even if it has come to serve by then.
Fails == /\ user' = IF peer = Nobody THEN "idle" ELSE "holding"
         /\ UNCHANGED <<newest, mine, peer>>

Failed == /\ user = "connecting" /\ (newest # mine \/ alive = {})
          /\ UNCHANGED daemon
          /\ Fails

GivesUp == user = "waiting" /\ Dies /\ Fails

\* force_stop, which restart begins with.
Stop == /\ user = "holding" /\ user' = "stopping"
        /\ UNCHANGED <<newest, daemon, mine, peer>>

Terminate == /\ user = "stopping" /\ Dies
             /\ UNCHANGED <<newest, user, mine, peer>>

Stopped == /\ user = "stopping" /\ alive = {}
           /\ user' \in {"holding", "connecting"}
           /\ UNCHANGED <<newest, daemon, mine, peer>>

Leave == /\ user = "holding" /\ user' = "idle" /\ peer' = Nobody
         /\ UNCHANGED <<newest, daemon, mine>>

Next == \/ Rebuild \/ Serve \/ Crash
        \/ Connect \/ Withdraw \/ Replace \/ Waited \/ Connected \/ Failed \/ GivesUp
        \/ Stop \/ Terminate \/ Stopped \/ Leave
        \/ \E d \in Processes : Start(d) \/ Load(d)

Spec == Init /\ [][Next]_promiseVars
=============================================================================
