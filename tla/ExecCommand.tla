---------------------------- MODULE ExecCommand ----------------------------
(***************************************************************************)
(* exec_command of COS/cos_main.c and its twin in VmMon/vmmon_main.c: run  *)
(* a program and wait for it, but no longer than Timeout.  The COS manager *)
(* connects the theaters with it, the VmMonitor takes its theater down;    *)
(* both do nothing else meanwhile, so a call that does not return stops    *)
(* the process.                                                            *)
(*                                                                         *)
(* SIGCHLD is blocked by the first call and never unblocked: the signal of *)
(* a child stays pending until sigtimedwait takes it, also across calls,   *)
(* and a second one is merged into it.                                     *)
(***************************************************************************)
EXTENDS Naturals

CONSTANTS
    Timeout,     \* child_waittime_msec, in clock ticks
    MaxElapsed   \* bound on the ticks a call is followed for

ASSUME TimesAssumption == Timeout \in Nat /\ MaxElapsed \in Nat

VARIABLES
    at,        \* where the caller is
    child,     \* the child the call forked
    pending,   \* SIGCHLD is pending
    elapsed,   \* ticks since the fork
    stale,     \* history: the call began with SIGCHLD pending
    timedOut   \* history: some call has run into its timeout

execVars == <<at, child, pending, elapsed, stale, timedOut>>

Places == {"IDLE", "SIGTIMEDWAIT", "KILL", "WAITPID"}
ChildStates == {"NONE", "RUNNING", "KILLED", "ZOMBIE"}

-----------------------------------------------------------------------------
(* A call begins: the mask is set and the child forked. *)
Fork ==
    /\ at = "IDLE"
    /\ at' = "SIGTIMEDWAIT"
    /\ child' = "RUNNING"
    /\ elapsed' = 0
    /\ stale' = pending
    /\ UNCHANGED <<pending, timedOut>>

(* sigtimedwait takes whatever SIGCHLD is pending.                          *)
TakePeeks ==    \* the signal is looked at and left pending
    /\ at = "SIGTIMEDWAIT" /\ pending
    /\ at' = "WAITPID"
    /\ UNCHANGED <<child, pending, elapsed, stale, timedOut>>

TakeSignal ==
    /\ at = "SIGTIMEDWAIT" /\ pending
    /\ at' = "WAITPID"
    /\ pending' = FALSE
    /\ UNCHANGED <<child, elapsed, stale, timedOut>>

(* sigtimedwait fails with EAGAIN.                                          *)
GiveUpWithoutKill ==    \* the kill is left out
    /\ at = "SIGTIMEDWAIT" /\ ~pending /\ elapsed = Timeout
    /\ at' = "WAITPID"
    /\ timedOut' = TRUE
    /\ UNCHANGED <<child, pending, elapsed, stale>>

GiveUpEarly ==    \* the timeout is computed as zero
    /\ at = "SIGTIMEDWAIT" /\ ~pending
    /\ at' = "KILL"
    /\ timedOut' = TRUE
    /\ UNCHANGED <<child, pending, elapsed, stale>>

GiveUp ==
    /\ at = "SIGTIMEDWAIT" /\ ~pending /\ elapsed = Timeout
    /\ at' = "KILL"
    /\ timedOut' = TRUE
    /\ UNCHANGED <<child, pending, elapsed, stale>>

(* The child may have ended by itself in between. *)
Kill ==
    /\ at = "KILL"
    /\ at' = "WAITPID"
    /\ child' = IF child = "RUNNING" THEN "KILLED" ELSE child
    /\ UNCHANGED <<pending, elapsed, stale, timedOut>>

(* waitpid has no timeout.  It does not take the pending signal. *)
Reap ==
    /\ at = "WAITPID"
    /\ child = "ZOMBIE"
    /\ at' = "IDLE"
    /\ child' = "NONE"
    /\ UNCHANGED <<pending, elapsed, stale, timedOut>>

-----------------------------------------------------------------------------
(* The child ends, or the kernel ends it. *)
ChildEnds ==
    /\ child \in {"RUNNING", "KILLED"}
    /\ child' = "ZOMBIE"
    /\ pending' = TRUE
    /\ UNCHANGED <<at, elapsed, stale, timedOut>>

(* Time passes only while the caller sleeps and no kill is under way. *)
Asleep ==
    \/ at = "SIGTIMEDWAIT" /\ ~pending /\ elapsed < Timeout
    \/ at = "WAITPID" /\ child = "RUNNING"

Tick ==
    /\ Asleep
    /\ elapsed < MaxElapsed
    /\ elapsed' = elapsed + 1
    /\ UNCHANGED <<at, child, pending, stale, timedOut>>

ExecInit ==
    /\ at = "IDLE"
    /\ child = "NONE"
    /\ pending = FALSE
    /\ elapsed = 0
    /\ stale = FALSE
    /\ timedOut = FALSE

ExecNext == Fork \/ TakeSignal \/ GiveUp \/ Kill \/ Reap \/ ChildEnds \/ Tick

ExecSpec == ExecInit /\ [][ExecNext]_execVars

-----------------------------------------------------------------------------
(* Properties *)

\* Every variable keeps its type.
ExecTypeOK ==
    /\ at \in Places
    /\ child \in ChildStates
    /\ pending \in BOOLEAN
    /\ elapsed \in Nat
    /\ stale \in BOOLEAN
    /\ timedOut \in BOOLEAN

\* A call that did not inherit a pending SIGCHLD keeps its timeout, however long
\* the child would run (cos_main.c:240-256).
FreshCallsEndInTime == ~stale => elapsed <= Timeout

\* A SIGCHLD is left over by a call only after some call timed out: its kill raises
\* the signal when sigtimedwait is over already.  Until then every call is fresh.
LeftOverOnlyAfterTimeout == at = "IDLE" /\ pending => timedOut

\* The child is killed only after it had its time, and never in a call that
\* inherited a signal.
KilledOnlyAfterTimeout == child = "KILLED" => elapsed = Timeout /\ ~stale

\* What the comment at cos_main.c:236 says: the wait for the child has a timeout,
\* in every call.
CallsEndInTime == elapsed <= Timeout

=============================================================================
