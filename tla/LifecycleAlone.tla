--------------------------- MODULE LifecycleAlone ---------------------------
(***************************************************************************)
(* What is known of the files and processes of a moment when one client    *)
(* uses a daemon that SIGTERM ends at once and that does not stop by       *)
(* itself, and is not killed in a call. Without any of the four a daemon   *)
(* can be lost.                                                            *)
(***************************************************************************)
EXTENDS LifecycleInv

OneClient   == \E c \in Clients : Clients = {c}
Undisturbed == OneClient /\ ~GracefulTerm /\ ~MayStop /\ ~MayInterrupt

\* The steps at which a client is not at work on the files, or has not begun; those
\* it reaches only when no daemon is alive.
Resting == {"connect", "unlink", "stop", "ready", "retry", "over"}
Emptied == {"look", "unpid", "spawn", "stopping", "clean", "cleanSocket"}

\* Daemon d is on its way to serve, and nothing is in its way.
Rises(d) == \/ dstate[d] \in {"starting", "opening", "binding"} /\ sock = None
            \/ dstate[d] \in {"bound", "listening"} /\ sock = d
            \/ dstate[d] = "writing" /\ sock = d /\ pidFile = Blank /\ d \in pidOpen

\* Nobody has connected to a daemon before it listens.
Unbound == {"starting", "opening", "binding", "bound"}

\* No daemon but d is alive, and d has been killed if not.
Watches(d) == /\ Living \subseteq {d}
              /\ dstate[d] = "killed" \/ Rises(d) \/ Serves(d)

\* What a client knows of the daemons at each of its steps.
Knows(c) ==
  /\ cpc[c] \in Resting => \A d \in Living : Serves(d)
  /\ cpc[c] = "kill" => \A d \in Living : dstate[d] = "up" /\ pidFile = d
  /\ cpc[c] \in Emptied => Living = {}
  /\ cpc[c] = "signal" => \A d \in Living : dstate[d] = "up" /\ call[c].proc = d
  /\ cpc[c] \in {"kill", "signal", "unpid", "spawn"} => sock = None
  /\ cpc[c] \in Waiting => Watches(call[c].proc)
  /\ cpc[c] = "handshake" => Watches(call[c].cand) /\ dstate[call[c].cand] \notin Unbound

\* The executable is never older than the client, nor is a daemon that it has started.
NotOlder(c) ==
  /\ ts[c] <= binary
  /\ cpc[c] = "connect" => call[c] = NoCall
  /\ cpc[c] \in Waiting /\ call[c].proc \in Living \cap Settled
     => build[call[c].proc] \in ts[c]..binary
  /\ cpc[c] = "handshake" /\ Decisive(c) => build[call[c].cand] \in ts[c]..binary

\* Who connects has no connection yet, unless it is for a restart; and whoever removes
\* the socket of a living daemon does so because that one is of another build.
Fresh(c) ==
  /\ cpc[c] \in Connecting /\ call[c].goal = "connect" => conn[c] = None
  /\ cpc[c] = "unlink" => \A d \in Living : build[d] # ts[c]

AloneInv == \A c \in Clients : Knows(c) /\ NotOlder(c) /\ Fresh(c)

\* There is one daemon at a time.
OneDaemon == Cardinality(Living) \in 0..1
=============================================================================
