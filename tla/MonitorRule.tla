---------------------------- MODULE MonitorRule ----------------------------
(***************************************************************************)
(* One VmMonitor and its NodeManager as a reader of its notices: does the  *)
(* window that analyze_cpu_usage2 keeps implement the K out of N rule over *)
(* the samples taken since the start?                                      *)
(***************************************************************************)
EXTENDS VmMonitor

CONSTANT MaxSamples   \* bound on the samples of one run of the VmMonitor

ASSUME MaxSamplesAssumption == MaxSamples \in Nat

VARIABLE log   \* history: the samples since the VmMonitor's start

ruleVars == <<monVars, netVars, log>>

Mon == 0   \* the Node whose VmMonitor is followed

RuleInit ==
    /\ MonInit
    /\ NetInit
    /\ log = <<>>

(* `xm create' by the NodeManager. *)
Create ==
    /\ guest[Mon] = "OFF"
    /\ guest' = [guest EXCEPT ![Mon] = "BOOTING"]
    /\ UNCHANGED <<sampled, history, netVars, log>>

Start == MonStart(Mon, TRUE) /\ log' = <<>>

Sample ==
    /\ Len(log) < MaxSamples
    /\ \E high \in BOOLEAN : MonSample(Mon, high, TRUE) /\ log' = Append(log, high)

Serve == MonReceive(Mon, TRUE) /\ UNCHANGED log

Stop == MonStop(Mon) /\ UNCHANGED log

(* The NodeManager takes a message, or asks for the theater's end. *)
Read ==
    /\ nodeInbox[Mon] # <<>>
    /\ nodeInbox' = [nodeInbox EXCEPT ![Mon] = Tail(@)]
    /\ UNCHANGED <<monVars, cosInbox, monInbox, log>>

Ask ==
    /\ guest[Mon] = "RUNNING"
    /\ HasRoom(monInbox[Mon])
    /\ monInbox' = [monInbox EXCEPT ![Mon] = Append(@, "SHUTDOWN_THEATER_REQ")]
    /\ UNCHANGED <<monVars, cosInbox, nodeInbox, log>>

RuleNext == Create \/ Start \/ Sample \/ Serve \/ Stop \/ Read \/ Ask

RuleSpec == RuleInit /\ [][RuleNext]_ruleVars

-----------------------------------------------------------------------------
(* Properties *)

\* The window that is kept by shifting an array (vmmon_main.c:301-315) holds the
\* latest HistoryLen samples in their order, from the first sample on and after a
\* restart of the VmMonitor too.
WindowIsRecent ==
    guest[Mon] = "RUNNING" =>
        LET old == IF Len(log) <= HistoryLen THEN 0 ELSE Len(log) - HistoryLen
        IN \A i \in Samples : old + i <= Len(log) => history[Mon][i] = log[old + i]

\* A high-CPU notice is sent for a sample exactly when more than HistoryLen samples
\* were taken since the start and KHigh of the latest HistoryLen are high
\* (vmmon_main.c:317-332): none is missed and none comes early.
Due(s) ==
    /\ HistoryLen < Len(s)
    /\ KHigh <= Cardinality({i \in Len(s) - HistoryLen + 1 .. Len(s) : s[i]})

ReportStep ==
    Len(log') = Len(log) + 1 =>
        (nodeInbox' # nodeInbox <=> Due(log'))
ReportsWhenDue == [][ReportStep]_ruleVars

=============================================================================
