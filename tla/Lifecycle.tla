----------------------------- MODULE Lifecycle -----------------------------
(***************************************************************************)
(* What the three programs promise together of the VM of each Node, without *)
(* messages, names, notices and counters: it has one life, and the VMs come *)
(* up one after the other, in the order of the Nodes.  Module Cloud          *)
(* implements it while no process ends.                                      *)
(*                                                                          *)
(* Placement says how the COS manager sees its Nodes; this is what happens   *)
(* at them, whatever the manager sees.                                       *)
(***************************************************************************)
EXTENDS NodeList

VARIABLE stage   \* of the VM of each Node

\* From the request to the manager's knowledge of the VM; a VM whose start the
\* manager could not be told of stays UNHEARD.
Rising == {"REQUESTED", "COMING", "STARTED", "REPORTED", "UNHEARD"}
Up == {"IN_USE", "RETIRED", "LEAVING", "GONE"}
Stages == {"UNUSED"} \cup Rising \cup Up

To(n, st) == stage' = [stage EXCEPT ![n] = st]

(* A VM is asked for where none ever was, at the first such Node, when every *)
(* earlier one is up or over.                                                *)
Request(n) ==
    /\ \A k \in Nodes : IF k < n THEN stage[k] \in Up ELSE stage[k] = "UNUSED"
    /\ To(n, "REQUESTED")

(* The NodeManager creates the VM; its VmMonitor says that it started; the   *)
(* NodeManager tells the manager, or cannot; the manager takes the answer.   *)
Create(n) == stage[n] = "REQUESTED" /\ To(n, "COMING")
Start(n) == stage[n] = "COMING" /\ To(n, "STARTED")
Report(n) == stage[n] = "STARTED" /\ \E st \in {"REPORTED", "UNHEARD"} : To(n, st)
Accept(n) == stage[n] = "REPORTED" /\ To(n, "IN_USE")

(* The manager asks for the VM's end; the NodeManager has the VmMonitor take *)
(* its theater down, or cannot read the request; the theater is down.        *)
Retire(n) == stage[n] = "IN_USE" /\ To(n, "RETIRED")
Refuse(n) == stage[n] = "RETIRED" /\ To(n, "IN_USE")
ShutDown(n) == stage[n] = "RETIRED" /\ To(n, "LEAVING")
Finish(n) == stage[n] = "LEAVING" /\ To(n, "GONE")

LifecycleInit == stage = [n \in Nodes |-> "UNUSED"]

LifecycleNext ==
    \E n \in Nodes :
        \/ Request(n) \/ Create(n) \/ Start(n) \/ Report(n) \/ Accept(n)
        \/ Retire(n) \/ Refuse(n) \/ ShutDown(n) \/ Finish(n)

LifecycleSpec == LifecycleInit /\ [][LifecycleNext]_stage

=============================================================================
