----------------------------- MODULE ExecProofs -----------------------------
(***************************************************************************)
(* exec_command, for every timeout: what its first timeout changes.        *)
(***************************************************************************)
EXTENDS ExecCommand, TLAPS

(* The strengthening.  A call that inherited a signal cannot see its        *)
(* timeout, because the signal is pending for as long as it sleeps; a       *)
(* signal is pending before the first timeout only while the child of the   *)
(* running call is dead and the caller still sleeps.                        *)
Fresh ==
    /\ at = "SIGTIMEDWAIT" => (stale => pending) /\ (~stale /\ pending => child = "ZOMBIE")
    /\ at = "KILL" => ~stale /\ elapsed = Timeout /\ timedOut
    /\ at = "WAITPID" /\ ~stale => child # "RUNNING"

InTime == at = "SIGTIMEDWAIT" \/ ~stale => elapsed <= Timeout

Blamed ==
    /\ stale => timedOut
    /\ pending /\ ~timedOut => at = "SIGTIMEDWAIT" /\ child = "ZOMBIE"

Reaped ==
    /\ at = "IDLE" <=> child = "NONE"
    /\ at = "SIGTIMEDWAIT" => child \in {"RUNNING", "ZOMBIE"}
    /\ at = "SIGTIMEDWAIT" /\ child = "ZOMBIE" /\ ~stale => pending
    /\ child = "KILLED" => at = "WAITPID" /\ ~stale /\ elapsed = Timeout /\ timedOut

ExecInv == ExecTypeOK /\ Fresh /\ InTime /\ Blamed /\ Reaped

-----------------------------------------------------------------------------
\* The invariant holds before the first call.
LEMMA ExecInvInit == ExecInit => ExecInv
<1> SUFFICES ASSUME ExecInit PROVE ExecInv
  OBVIOUS
<1>1. ExecTypeOK
  <2>1. at \in Places /\ child \in ChildStates /\ elapsed \in Nat
    BY DEF ExecInit, Places, ChildStates
  <2>2. pending \in BOOLEAN /\ stale \in BOOLEAN /\ timedOut \in BOOLEAN
    BY Zenon DEF ExecInit
  <2>3. QED
    BY <2>1, <2>2 DEF ExecTypeOK
<1>2. Fresh /\ Blamed /\ Reaped
  BY DEF ExecInit, Fresh, Blamed, Reaped
<1>3. InTime
  BY TimesAssumption DEF ExecInit, InTime
<1>4. QED
  BY <1>1, <1>2, <1>3 DEF ExecInv

\* Every step of the caller, the child and the clock keeps it.
LEMMA ExecInvStep == ExecInv /\ [ExecNext]_execVars => ExecInv'
<1> SUFFICES ASSUME ExecInv, [ExecNext]_execVars
             PROVE  ExecInv'
  OBVIOUS
<1> USE TimesAssumption
    DEF ExecInv, ExecTypeOK, Fresh, InTime, Blamed, Reaped, Places, ChildStates
<1>1. CASE Fork
  BY <1>1 DEF Fork
<1>2. CASE TakeSignal
  BY <1>2 DEF TakeSignal
<1>3. CASE GiveUp
  BY <1>3 DEF GiveUp
<1>4. CASE Kill
  BY <1>4 DEF Kill
<1>5. CASE Reap
  BY <1>5 DEF Reap
<1>6. CASE ChildEnds
  BY <1>6 DEF ChildEnds
<1>7. CASE Tick
  BY <1>7 DEF Tick, Asleep
<1>8. CASE UNCHANGED execVars
  BY <1>8 DEF execVars
<1>9. QED
  BY <1>1, <1>2, <1>3, <1>4, <1>5, <1>6, <1>7, <1>8 DEF ExecNext

\* The strengthening holds of every run of exec_command, for every timeout.
THEOREM ExecInvariant == ExecSpec => []ExecInv
  BY ExecInvInit, ExecInvStep, PTL DEF ExecSpec

\* A call that began without a pending SIGCHLD keeps its timeout (cos_main.c:240).
THEOREM FreshCallsAreTimed == ExecSpec => []FreshCallsEndInTime
<1>1. ExecInv => FreshCallsEndInTime
  BY DEF ExecInv, InTime, FreshCallsEndInTime
<1>2. QED
  BY ExecInvariant, <1>1, PTL

\* Only a call that timed out leaves a SIGCHLD behind for the next one.
THEOREM SignalsAreConsumed == ExecSpec => []LeftOverOnlyAfterTimeout
<1>1. ExecInv => LeftOverOnlyAfterTimeout
  BY DEF ExecInv, Blamed, LeftOverOnlyAfterTimeout
<1>2. QED
  BY ExecInvariant, <1>1, PTL

\* A child is killed at its timeout and never before, nor in a call that inherited
\* a signal (cos_main.c:246-248).
THEOREM KillsAreInTime == ExecSpec => []KilledOnlyAfterTimeout
<1>1. ExecInv => KilledOnlyAfterTimeout
  BY DEF ExecInv, Reaped, KilledOnlyAfterTimeout
<1>2. QED
  BY ExecInvariant, <1>1, PTL

=============================================================================
