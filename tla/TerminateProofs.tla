-------------------------- MODULE TerminateProofs ---------------------------
(***************************************************************************)
(* Proofs about Terminate, for every number of checks.                     *)
(***************************************************************************)
EXTENDS Terminate, TLAPS

(* How pid, process and caller hang together: the pid names the daemon     *)
(* until its entry is gone, an answer ends the call, what has been         *)
(* signalled was open to the caller and stays so, and the last checks come *)
(* after SIGKILL.                                                          *)
CallInv ==
  /\ holder = "target" <=> target # "gone"
  /\ result = "none" <=> pc # "done"
  /\ handle <=> pc \in {"terminate", "waiting"}
  /\ handle => OpensFull
  /\ sent # {} => pc \in {"grace", "settle", "waiting", "done"}
  /\ sent # {} /\ holder = "target" => access = "full"
  /\ pc \in {"settle", "waiting"} => "kill" \in sent \/ target # "running"

IInv == TypeOK /\ CallInv /\ ReportsDead /\ DeniedUnharmed /\ NotSpared

(* The invariant holds at the start.                                       *)
LEMMA IInvInit == Init => IInv
<1> SUFFICES ASSUME Init PROVE IInv
  OBVIOUS
<1>1. TypeOK
  <2>1. left \in 0..Checks
    BY ChecksAssumption DEF Init
  <2>2. holder \in {"target", "stranger", "nobody"} /\ target \in {"running", "ended", "gone"}
    BY DEF Init
  <2>3. sent \subseteq {"term", "kill"}
    BY DEF Init
  <2>4. QED
    BY <2>1, <2>2, <2>3 DEF Init, TypeOK
<1>2. CallInv /\ ReportsDead /\ DeniedUnharmed /\ NotSpared
  BY DEF Init, CallInv, ReportsDead, DeniedUnharmed, NotSpared
<1>3. QED
  BY <1>1, <1>2 DEF IInv

(* Every step of the caller keeps it.                                      *)
LEMMA IInvCaller == IInv /\ CallerNext => IInv'
<1> SUFFICES ASSUME IInv, CallerNext PROVE IInv'
  OBVIOUS
<1> USE ChecksAssumption
    DEF IInv, TypeOK, CallInv, ReportsDead, DeniedUnharmed, NotSpared, Hidden, Accesses, processVars, Goto, Answer,
        Errno, Signal, Unsent, OpensFull
<1>1. CASE AskExists
  BY <1>1 DEF AskExists, Exists, OpensQuery
<1>2. CASE KillProcess
  BY <1>2 DEF KillProcess
<1>3. CASE Check
  BY <1>3 DEF Check
<1>4. CASE SendTerm
  BY <1>4 DEF SendTerm
<1>5. CASE CheckGrace
  BY <1>5 DEF CheckGrace
<1>6. CASE SendKill
  BY <1>6 DEF SendKill
<1>7. CASE FinalCheck
  BY <1>7 DEF FinalCheck
<1>8. CASE Open
  BY <1>8 DEF Open
<1>9. CASE Query
  BY <1>9 DEF Query, OpensQuery
<1>10. CASE WinTerminate
  BY <1>10 DEF WinTerminate
<1>11. CASE Wait
  BY <1>11 DEF Wait
<1>12. QED
  BY <1>1, <1>2, <1>3, <1>4, <1>5, <1>6, <1>7, <1>8, <1>9, <1>10, <1>11 DEF CallerNext

(* Every step of the processes keeps it.                                   *)
LEMMA IInvProcess == IInv /\ ProcessNext => IInv'
<1> SUFFICES ASSUME IInv, ProcessNext PROVE IInv'
  OBVIOUS
<1> USE DEF IInv, TypeOK, CallInv, ReportsDead, DeniedUnharmed, NotSpared, Hidden, Accesses, OpensFull, callVars
<1>1. CASE Ends
  BY <1>1 DEF Ends
<1>2. CASE Vanishes
  BY <1>2 DEF Vanishes
<1>3. CASE Reused
  BY <1>3 DEF Reused
<1>4. CASE StrangerVanishes
  BY <1>4 DEF StrangerVanishes
<1>5. QED
  BY <1>1, <1>2, <1>3, <1>4 DEF ProcessNext

(* The invariant holds in every reachable state.                           *)
LEMMA IInvInvariant == Spec => []IInv
<1>1. IInv /\ UNCHANGED vars => IInv'
  BY DEF IInv, TypeOK, CallInv, ReportsDead, DeniedUnharmed, NotSpared, Hidden, Accesses, OpensFull, vars,
         processVars, callVars
<1>2. IInv /\ [Next]_vars => IInv'
  BY <1>1, IInvCaller, IInvProcess DEF Next
<1>3. QED
  BY <1>2, IInvInit, PTL DEF Spec

(* Every variable keeps its type; no check is made beyond the last.        *)
THEOREM Typing == Spec => []TypeOK
<1>1. IInv => TypeOK
  BY DEF IInv
<1>2. QED
  BY <1>1, IInvInvariant, PTL

(* For every grace period, however the process ends, is reaped and its pid *)
(* reused between the calls: a process reported dead is dead, except one   *)
(* that Windows hides from the caller.                                     *)
THEOREM DeathReported == Spec => []ReportsDead
<1>1. IInv => ReportsDead
  BY DEF IInv
<1>2. QED
  BY <1>1, IInvInvariant, PTL

(* A process reported as absent or as another user's has not been told to  *)
(* stop and gone on.                                                       *)
THEOREM DenialHarmless == Spec => []DeniedUnharmed
<1>1. IInv => DeniedUnharmed
  BY DEF IInv
<1>2. QED
  BY <1>1, IInvInvariant, PTL

(* Whatever the daemon makes of SIGTERM and whatever the caller is         *)
(* answered: force_stop has killed it, found it dead, or may not kill it   *)
(* (process.rs:64-191).                                                    *)
THEOREM KilledIfNeeded == Spec => []NotSpared
<1>1. IInv => NotSpared
  BY DEF IInv
<1>2. QED
  BY <1>1, IInvInvariant, PTL
=============================================================================
