---------------------------- MODULE LifecycleInv ----------------------------
(***************************************************************************)
(* The inductive invariant behind the type, version and stop properties of *)
(* Lifecycle.                                                              *)
(***************************************************************************)
EXTENDS Lifecycle

\* Process ids are given out in order, so the next one names no process yet, and
\* what is known of a process stays true of it.
PidsInOrder == Born = 1..Cardinality(Born)

\* The processes that will not take their timestamp any more, having done so or died.
Settled == {d \in Daemons : dstate[d] \notin {"none", "starting"}}

\* A client that has a DaemonClient, one that is in a call of it included, for
\* that call may fail and leave it as it was.
HasConnection(c) == cpc[c] \in {"ready", "retry"} \/ call[c].goal # "connect"

\* Its connection is to a daemon of its own build.
ConnectionsMatch ==
  \A c \in Clients : HasConnection(c) => conn[c] \in Settled /\ build[conn[c]] = ts[c]

\* The processes a client watches exist; force_stop is a call of a DaemonClient.
CallsMatch ==
  \A c \in Clients : /\ cpc[c] = "handshake" => call[c].cand \in Settled
                     /\ cpc[c] \in {"signal", "await", "timedOut", "stopping", "clean"}
                        => call[c].proc \in Born
                     /\ cpc[c] \in Stopping => call[c].goal # "connect"

\* The PID file never names a process that was not there.
PidFileMatches == pidFile \in Born \cup {None, Blank}

\* Until connect has looked for what an earlier daemon left, it is to report a first
\* start. (What bounds a call rests on this and on IInv.)
FirstReason ==
  \A c \in Clients : cpc[c] \in {"connect", "look"} => call[c].reason = "firstStart"

IInv == TypeOK /\ PidsInOrder /\ ConnectionsMatch /\ CallsMatch /\ PidFileMatches /\ StopsForGood
=============================================================================
