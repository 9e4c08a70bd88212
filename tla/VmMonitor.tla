----------------------------- MODULE VmMonitor -----------------------------
(***************************************************************************)
(* The VmMonitor process in the VM of each Node (VmMon/vmmon_main.c).  It   *)
(* tells the NodeManager that the VM is up, samples the CPU whenever no     *)
(* request came for a while, reports high usage by a K out of N rule, and   *)
(* takes the VM's theater down on request.                                  *)
(***************************************************************************)
EXTENDS Network, FiniteSets

CONSTANTS
    HistoryLen,   \* CPU_USAGE_HISTORY_LEN, the N of the rule
    KHigh         \* K_HIGH_CPU, the K of the rule

ASSUME HistoryAssumption == HistoryLen \in Nat \ {0} /\ KHigh \in Nat

VARIABLES
    guest,        \* the VM's domain and the VmMonitor in it
    sampled,      \* cpu_check_iteration, up to HistoryLen
    history       \* cpu_usage_history: was the sample HIGH_CPU_USAGE_THRESHOLD or more

monVars == <<guest, sampled, history>>

\* No domain; a domain whose VmMonitor is not up yet; a VmMonitor in its loop;
\* a domain whose VmMonitor ended.
GuestStates == {"OFF", "BOOTING", "RUNNING", "NO_MONITOR"}

Samples == 1 .. HistoryLen
NoSamples == [i \in Samples |-> FALSE]

NodeNotice(type) == [type |-> type]

(* send_msg to the NodeManager, at the address VmMonitor was started with.  *)
ToNode(n, type, nodeListens) ==
    \E ok \in ConnectResult(nodeListens, nodeInbox[n]) :
        nodeInbox' = [nodeInbox EXCEPT ![n] = Sent(@, NodeNotice(type), ok)]

-----------------------------------------------------------------------------
(* main up to its loop.  Whether the NodeManager heard of the start is not  *)
(* looked at.                                                               *)
MonStartQuiet(n, nodeListens) ==   \* the NodeManager is not told
    /\ guest[n] \in {"BOOTING", "NO_MONITOR"}
    /\ guest' = [guest EXCEPT ![n] = "RUNNING"]
    /\ sampled' = [sampled EXCEPT ![n] = 0]
    /\ history' = [history EXCEPT ![n] = NoSamples]
    /\ UNCHANGED netVars

MonStart(n, nodeListens) ==
    /\ guest[n] \in {"BOOTING", "NO_MONITOR"}
    /\ guest' = [guest EXCEPT ![n] = "RUNNING"]
    /\ sampled' = [sampled EXCEPT ![n] = 0]
    /\ history' = [history EXCEPT ![n] = NoSamples]
    /\ ToNode(n, "NOTIFY_VM_STARTED", nodeListens)
    /\ UNCHANGED <<cosInbox, monInbox>>

(* analyze_cpu_usage2: the first HistoryLen samples only fill the history,  *)
(* a later one moves it up.                                                 *)
RecordedInPlace(n, high) ==   \* the window is not moved
    [history[n] EXCEPT ![IF sampled[n] < HistoryLen THEN sampled[n] + 1 ELSE HistoryLen] = high]

Recorded(n, high) ==
    [i \in Samples |->
        IF sampled[n] < HistoryLen
        THEN IF i = sampled[n] + 1 THEN high ELSE history[n][i]
        ELSE IF i < HistoryLen THEN history[n][i + 1] ELSE high]

ReportsHighLate(n, high) ==   \* < for <= in the comparison with KHigh
    /\ sampled[n] >= HistoryLen
    /\ KHigh < Cardinality({i \in Samples : Recorded(n, high)[i]})

ReportsHigh(n, high) ==
    /\ sampled[n] >= HistoryLen
    /\ KHigh <= Cardinality({i \in Samples : Recorded(n, high)[i]})

(* check_cpu_usage, when accept timed out on an empty backlog.  The low     *)
(* branch of the analysis is commented out, so low usage is never reported. *)
MonSample(n, high, nodeListens) ==
    /\ guest[n] = "RUNNING"
    /\ monInbox[n] = <<>>
    /\ history' = [history EXCEPT ![n] = Recorded(n, high)]
    /\ sampled' = [sampled EXCEPT ![n] = IF @ < HistoryLen THEN @ + 1 ELSE @]
    /\ IF ReportsHigh(n, high) THEN ToNode(n, "NOTIFY_HIGH_CPU_USAGE", nodeListens)
                               ELSE UNCHANGED nodeInbox
    /\ UNCHANGED <<guest, cosInbox, monInbox>>

(* shutdown_theater_req: the leave script, whose result is not looked at,   *)
(* then the answer.                                                         *)
MonReceiveSilent(n, nodeListens) ==   \* the answer is left out
    /\ guest[n] = "RUNNING"
    /\ monInbox[n] # <<>>
    /\ monInbox' = [monInbox EXCEPT ![n] = Tail(@)]
    /\ UNCHANGED <<monVars, cosInbox, nodeInbox>>

MonReceive(n, nodeListens) ==
    /\ guest[n] = "RUNNING"
    /\ monInbox[n] # <<>>
    /\ monInbox' = [monInbox EXCEPT ![n] = Tail(@)]
    /\ ToNode(n, "SHUTDOWN_THEATER_RESP", nodeListens)
    /\ UNCHANGED <<monVars, cosInbox>>

(* The t_lowcpu tool, run by hand: it reports low usage in the VmMonitor's  *)
(* name.                                                                    *)
LowCpuTool(n, nodeListens) ==
    /\ guest[n] # "OFF"
    /\ ToNode(n, "NOTIFY_LOW_CPU_USAGE", nodeListens)
    /\ UNCHANGED <<monVars, cosInbox, monInbox>>

(* The VmMonitor is ended; it can be started again in the same VM. *)
MonStop(n) ==
    /\ guest[n] = "RUNNING"
    /\ guest' = [guest EXCEPT ![n] = "NO_MONITOR"]
    /\ monInbox' = [monInbox EXCEPT ![n] = <<>>]
    /\ UNCHANGED <<sampled, history, cosInbox, nodeInbox>>

MonInit ==
    /\ guest = [n \in Nodes |-> "OFF"]
    /\ sampled = [n \in Nodes |-> 0]
    /\ history = [n \in Nodes |-> NoSamples]

=============================================================================
