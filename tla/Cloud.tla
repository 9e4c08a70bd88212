------------------------------- MODULE Cloud -------------------------------
(***************************************************************************)
(* The whole system: one COS manager, one NodeManager per Node and one     *)
(* VmMonitor per VM, over the network of module Network.                   *)
(*                                                                         *)
(* The VM of Node n is called n: create_vm_req builds its name from the id *)
(* of the Node.                                                            *)
(***************************************************************************)
EXTENDS Cos, NodeManager

CONSTANTS
    Events,     \* what may happen besides the processes' own steps
    MaxEvents,  \* how often
    Paced       \* a VM's notice is handled before its VmMonitor samples again

ASSUME NamesAssumption == Nodes \subseteq VmNames /\ NullName \notin Nodes
ASSUME EventsAssumption ==
    /\ Events \subseteq {"low_tool", "monitor_ends", "manager_ends", "node_ends", "no_boot"}
    /\ MaxEvents \in Nat
    /\ Paced \in BOOLEAN

VARIABLE events   \* how many of Events have happened

cloudVars == <<cosVars, nodeVars, monVars, netVars, events>>

Unmanaged == <<nodeVars, monVars, monInbox>>   \* what no step of COS touches

-----------------------------------------------------------------------------
(* The COS manager. *)

Request(call) ==
    IF call.op = "CREATE_VM_REQ" THEN CreateVmReqMsg(call.node, cosAddrOk')
    ELSE DestroyVmReqMsg(vmName[call.node], cosAddrOk')

Transmit(call) ==
    \/ call = NoCall /\ UNCHANGED nodeInbox
    \/ /\ call # NoCall
       /\ call.ok \in IF addrOk'[call.node]
                      THEN ConnectResult(nodeUp[call.node], nodeInbox[call.node])
                      ELSE {FALSE}
       /\ nodeInbox' = [nodeInbox EXCEPT ![call.node] = Sent(@, Request(call), call.ok)]

CosBoot ==
    /\ \E call \in Calls : CosStart(call) /\ Transmit(call)
    /\ UNCHANGED <<cosInbox, Unmanaged, events>>

CosServe ==
    /\ cosInbox # <<>>
    /\ \E call \in Calls : CosReceive(Head(cosInbox), call) /\ Transmit(call)
    /\ cosInbox' = IF cosUp' THEN Tail(cosInbox) ELSE <<>>
    /\ UNCHANGED <<Unmanaged, events>>

(* A notice whose samples are all above zero is printed with what lies       *)
(* behind them (cos_msg.c:160, module Codec); with too many fields           *)
(* cos_parse_msg refuses it.                                                 *)
CosRefuses ==
    /\ cosUp
    /\ cosInbox # <<>>
    /\ Head(cosInbox).type = "NOTIFY_HIGH_CPU_USAGE"
    /\ cosInbox' = Tail(cosInbox)
    /\ UNCHANGED <<cosVars, nodeInbox, Unmanaged, events>>

CosClock == CosTick /\ UNCHANGED <<netVars, nodeVars, monVars, events>>

-----------------------------------------------------------------------------
(* The NodeManagers and the VmMonitors. *)

NodeServe(n) == NodeReceive(n, cosUp) /\ UNCHANGED <<cosVars, events>>

MonBoot(n) ==
    /\ guest[n] = "BOOTING"
    /\ MonStart(n, nodeUp[n])
    /\ UNCHANGED <<cosVars, nodeVars, events>>

MonServe(n) == MonReceive(n, nodeUp[n]) /\ UNCHANGED <<cosVars, nodeVars, events>>

Notices == {"NOTIFY_HIGH_CPU_USAGE", "NOTIFY_LOW_CPU_USAGE"}

NoticePending(n) ==
    \/ \E i \in DOMAIN nodeInbox[n] : nodeInbox[n][i].type \in Notices
    \/ \E i \in DOMAIN cosInbox : cosInbox[i].type \in Notices /\ cosInbox[i].vm = n

MonIdle(n) ==
    /\ Paced => ~NoticePending(n)
    /\ \E high \in BOOLEAN : MonSample(n, high, nodeUp[n])
    /\ UNCHANGED <<cosVars, nodeVars, events>>

-----------------------------------------------------------------------------
(* What may happen besides, MaxEvents times in all. *)

Event(e) == e \in Events /\ events < MaxEvents /\ events' = events + 1

LowTool(n) ==
    /\ Event("low_tool")
    /\ Paced => ~NoticePending(n)
    /\ LowCpuTool(n, nodeUp[n])
    /\ UNCHANGED <<cosVars, nodeVars>>

MonEnds(n) == Event("monitor_ends") /\ MonStop(n) /\ UNCHANGED <<cosVars, nodeVars>>

(* `xm create' did not bring a VM up. *)
NoBoot(n) ==
    /\ Event("no_boot")
    /\ guest[n] = "BOOTING"
    /\ guest' = [guest EXCEPT ![n] = "OFF"]
    /\ UNCHANGED <<cosVars, nodeVars, netVars, sampled, history>>

CosEnds ==
    /\ Event("manager_ends")
    /\ CosStop
    /\ cosInbox' = <<>>
    /\ UNCHANGED <<nodeInbox, Unmanaged>>

NodeEnds(n) == Event("node_ends") /\ nodeUp[n] /\ NodeCrash(n) /\ UNCHANGED cosVars

(* A process that ended is started again by hand; CosBoot is that for the   *)
(* COS manager.                                                             *)
MonRestarts(n) ==
    /\ guest[n] = "NO_MONITOR"
    /\ MonStart(n, nodeUp[n])
    /\ UNCHANGED <<cosVars, nodeVars, events>>

NodeRestarts(n) ==
    /\ "node_ends" \in Events
    /\ NodeStart(n)
    /\ UNCHANGED <<cosVars, events>>

-----------------------------------------------------------------------------
CloudInit == CosInit /\ NodeInit /\ MonInit /\ NetInit /\ events = 0

CloudNext ==
    \/ CosBoot
    \/ CosServe
    \/ CosRefuses
    \/ CosClock
    \/ CosEnds
    \/ \E n \in Nodes :
          \/ NodeServe(n)
          \/ MonBoot(n)
          \/ MonServe(n)
          \/ MonIdle(n)
          \/ LowTool(n)
          \/ MonEnds(n)
          \/ MonRestarts(n)
          \/ NoBoot(n)
          \/ NodeEnds(n)
          \/ NodeRestarts(n)

(* Every process that can go on does: the scheduler of the machine it runs  *)
(* on is fair, and accept hands out a waiting connection.  Nothing obliges  *)
(* an event to happen, a sample to be high or the clock to run.              *)
Fairness ==
    /\ WF_cloudVars(CosBoot)
    /\ WF_cloudVars(CosServe \/ CosRefuses)
    /\ \A n \in Nodes : /\ WF_cloudVars(NodeServe(n))
                        /\ WF_cloudVars(MonBoot(n))
                        /\ WF_cloudVars(MonServe(n))

CloudSafe == CloudInit /\ [][CloudNext]_cloudVars
CloudSpec == CloudSafe /\ Fairness

-----------------------------------------------------------------------------
(* Properties *)

\* Every variable of the network, the NodeManagers and the VMs keeps its type;
\* no queue passes the backlog.
NodeMessage ==
    [type : {"CREATE_VM_REQ", "DESTROY_VM_REQ"}, vm : VmNames, retOk : BOOLEAN]
    \cup [type : {"NOTIFY_VM_STARTED", "NOTIFY_HIGH_CPU_USAGE", "NOTIFY_LOW_CPU_USAGE",
                  "SHUTDOWN_THEATER_RESP"}]

CloudTypeOK ==
    /\ TypeOK
    /\ events \in 0 .. MaxEvents
    /\ cosInbox \in Seq(CosMessage) /\ Len(cosInbox) <= Backlog
    /\ \A n \in Nodes :
          /\ nodeInbox[n] \in Seq(NodeMessage) /\ Len(nodeInbox[n]) <= Backlog
          /\ monInbox[n] \in Seq({"SHUTDOWN_THEATER_REQ"}) /\ Len(monInbox[n]) <= Backlog
    /\ nodeUp \in [Nodes -> BOOLEAN]
    /\ vmState \in [Nodes -> VmStates]
    /\ nodeVm \in [Nodes -> VmNames \cup {NoName}]
    /\ monKnown \in [Nodes -> BOOLEAN]
    /\ cosKnown \in [Nodes -> BOOLEAN]
    /\ guest \in [Nodes -> GuestStates]
    /\ sampled \in [Nodes -> 0 .. HistoryLen]
    /\ history \in [Nodes -> [Samples -> BOOLEAN]]

\* A NodeManager never runs into one of its NULL vm pointers (node_main.c:241,
\* 304 and 442): no request or answer finds its record in the wrong state.
NodesNeverCrash == \A n \in Nodes : nodeUp[n]

\* The COS manager believes in a VM only where its NodeManager has one, under the
\* same name.
ActiveIsReal ==
    \A n \in Nodes : nodeState[n] = "VM_ACTIVE" =>
        /\ vmName[n] = n
        /\ vmState[n] = "ACTIVE"
        /\ nodeVm[n] = n
        /\ guest[n] = "RUNNING"

\* An answer to a creation that waits at the COS manager comes from the Node the
\* manager has in creation, although create_vm_resp (cos_main.c:376) does not
\* look at who answers; or it comes from a Node whose record was erased meanwhile
\* (cos_main.c:527), and then no Node is in creation that could take it for its own.
AnswersMatch ==
    \A i \in DOMAIN cosInbox :
        cosInbox[i].type = "CREATE_VM_RESP" =>
            /\ cosInbox[i].vm \in Nodes
            /\ \/ nodeState[cosInbox[i].vm] = "IN_VM_CREATION"
               \/ /\ ~addrOk[cosInbox[i].vm]
                  /\ \A n \in Nodes : nodeState[n] # "IN_VM_CREATION"

\* A VM the COS manager has on its list did boot, whichever Node it is listed
\* under: no answer reports a VM that `xm create' failed to bring up, although its
\* exit status is not looked at (node_main.c:159).
KnownVmsBooted ==
    \A n \in Nodes : vmName[n] \in Nodes => guest[vmName[n]] # "OFF"

\* A Node that is being created becomes active or free again: the NodeManager
\* answers, and the manager takes the answer.
CreationEnds ==
    \A n \in Nodes : nodeState[n] = "IN_VM_CREATION" ~> nodeState[n] # "IN_VM_CREATION"

\* The same for a Node whose VM is being destroyed, as long as the requests of the
\* manager still carry its address (destroy_vm_resp may erase it).
DestructionEnds ==
    \A n \in Nodes :
        nodeState[n] = "IN_VM_DESTRUCTION" /\ cosAddrOk ~> nodeState[n] # "IN_VM_DESTRUCTION"

\* A theater is taken down only on the COS manager's word: while its VmMonitor is
\* asked to, the manager has the VM in destruction, or has erased its record.
ShutdownOrdered ==
    \A n \in Nodes :
        monInbox[n] # <<>> => nodeState[n] = "IN_VM_DESTRUCTION" \/ ~addrOk[n]

\* The VM that main asks for before its loop (cos_main.c:587-588) comes up and the
\* manager learns of it.
FirstVmComes == <>(nodeState[0] = "VM_ACTIVE")

\* At which stage the VM of Node n is, read off its NodeManager's record, the VM and
\* the messages about it that wait.
Waits(q, type) == \E i \in DOMAIN q : q[i].type = type

StageOf(n) ==
    CASE vmState[n] = "NULL" /\ guest[n] = "OFF" ->
            IF Waits(nodeInbox[n], "CREATE_VM_REQ") THEN "REQUESTED" ELSE "UNUSED"
      [] vmState[n] = "NULL" /\ guest[n] # "OFF" ->
            IF nodeVm[n] = NoName THEN "GONE" ELSE "UNHEARD"
      [] vmState[n] = "IN_CREATION" ->
            IF Waits(nodeInbox[n], "NOTIFY_VM_STARTED") THEN "STARTED" ELSE "COMING"
      [] vmState[n] = "ACTIVE" ->
            IF \E i \in DOMAIN cosInbox : cosInbox[i] = CosResp("CREATE_VM_RESP", n, 0)
            THEN "REPORTED"
            ELSE IF Waits(nodeInbox[n], "DESTROY_VM_REQ") THEN "RETIRED" ELSE "IN_USE"
      [] vmState[n] = "IN_SHUTTING_DOWN" -> "LEAVING"

\* The three programs, their messages crossing, give each VM one life: it is created
\* once, where none ever was (`xm create' of a domain that exists fails unseen,
\* node_main.c:159), used only when the manager knows of it, taken down once, and never
\* forgotten by its NodeManager in between (node_main.c:302-304).
Cycle == INSTANCE Lifecycle WITH stage <- [n \in Nodes |-> StageOf(n)]
ImplementsLifecycle == Cycle!LifecycleSpec

\* VMs come up one at a time in the whole cloud, the ones whose records the manager has
\* erased included: nowhere does a request, a boot, a start notice or a success cross
\* that of another VM, which is what create_vm_resp and notify_vm_started take for
\* granted (cos_main.c:376, node_main.c:324).
OneVmRises ==
    \A m, n \in Nodes : StageOf(m) \in Cycle!Rising /\ StageOf(n) \in Cycle!Rising => m = n

\* Load makes the cloud grow: if the manager goes on hearing of high usage from every
\* VM that stays up and in use, and from some time on no notice gets stale, then again
\* and again no Node that can be used is free.  Notices cross requests, answers and
\* destructions, the check of the Nodes drops some of them (cos_main.c:427-459), some
\* cannot be read, and num_active_vm drifts.
HearsHigh(n) == CosServe /\ Head(cosInbox) = CosNotice("NOTIFY_HIGH_CPU_USAGE", n)

Busy(n) ==
    \/ []<>(guest[n] # "RUNNING" \/ ~monKnown[n])
    \/ []<><<HearsHigh(n)>>_cloudVars

GrowsWhenBusy ==
    (<>[][~CosTick]_cloudVars /\ \A n \in Nodes : Busy(n))
    => []<>(\A n \in Nodes : addrOk[n] => nodeState[n] # "NULL")

-----------------------------------------------------------------------------
(* What a comment of the code says and its steps do not keep. *)

\* While no two VMs are being created, an answer that a creation failed comes from
\* a Node that creates no VM: the "problem" of node_main.c:324 needs "a multiple VM
\* creation".
FailureStep ==
    \A n \in Nodes :
        cosUp' /\ nodeState[n] = "IN_VM_CREATION" /\ nodeState'[n] = "NULL"
        => vmState[n] # "IN_CREATION"
FailureIsReal == [][FailureStep]_cloudVars

=============================================================================
