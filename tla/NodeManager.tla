---------------------------- MODULE NodeManager ----------------------------
(***************************************************************************)
(* The NodeManager process of each Node (Node/node_main.c).  It holds one  *)
(* VM record, creates the VM's domain with `xm create', passes on what the *)
(* VmMonitor in the VM reports, and answers the COS manager.               *)
(*                                                                         *)
(* A handler is one action on Node n; its parameter cosListens says        *)
(* whether the COS manager's process runs.                                 *)
(***************************************************************************)
EXTENDS VmMonitor

CONSTANT NullName   \* what "%s" prints for a NULL vm_name

ASSUME NullNameAssumption == NullName \in VmNames

VARIABLES
    nodeUp,     \* the process runs
    vmState,    \* vm_array[0].vm_state
    nodeVm,     \* vm_array[0].vm_name
    monKnown,   \* vm_array[0].vmmon_addr holds the VmMonitor's address
    cosKnown    \* cos__addr holds the COS manager's address

nodeVars == <<nodeUp, vmState, nodeVm, monKnown, cosKnown>>

VmStates == {"NULL", "IN_CREATION", "ACTIVE", "IN_SHUTTING_DOWN"}

(* A vmcfg_file is "/etc/xen/cos/cosNN.cfg": it names the VM.  retOk is     *)
(* whether the message carries a return address; one without it has a field *)
(* too few and node_parse_msg refuses it.                                   *)
CreateVmReqMsg(vm, retOk) == [type |-> "CREATE_VM_REQ", vm |-> vm, retOk |-> retOk]
DestroyVmReqMsg(vm, retOk) == [type |-> "DESTROY_VM_REQ", vm |-> vm, retOk |-> retOk]

CosResp(type, vm, result) == [type |-> type, vm |-> vm, result |-> result]
CosNotice(type, vm) == [type |-> type, vm |-> vm]

-----------------------------------------------------------------------------

(* The process dies on a NULL vm pointer.  Connections in its backlog are   *)
(* reset; the VM itself is not affected.                                    *)
NodeCrash(n) ==
    /\ nodeUp' = [nodeUp EXCEPT ![n] = FALSE]
    /\ vmState' = [vmState EXCEPT ![n] = "NULL"]
    /\ nodeVm' = [nodeVm EXCEPT ![n] = NoName]
    /\ monKnown' = [monKnown EXCEPT ![n] = FALSE]
    /\ cosKnown' = [cosKnown EXCEPT ![n] = FALSE]
    /\ nodeInbox' = [nodeInbox EXCEPT ![n] = <<>>]
    /\ UNCHANGED <<cosInbox, monInbox, monVars>>

Served(n) == nodeInbox' = [nodeInbox EXCEPT ![n] = Tail(@)]

(* send_msg: the empty address of a peer not heard of yet has no ':' in it. *)
CosConnect(n, cosListens) ==
    IF cosKnown[n] THEN ConnectResult(cosListens, cosInbox) ELSE {FALSE}
MonConnect(n) ==
    IF monKnown[n] THEN ConnectResult(guest[n] = "RUNNING", monInbox[n]) ELSE {FALSE}

ToCos(n, m, cosListens) ==
    \E ok \in CosConnect(n, cosListens) : cosInbox' = Sent(cosInbox, m, ok)

(* create_vm_req, and main's copy of the return address after it.  `xm      *)
(* create' fails when the domain exists already, which nobody looks at.  A  *)
(* record that is in use leaves vm NULL, and vm->vm_name is written.        *)
CreateVmAnswers(n, vm) ==   \* success is reported before the VM is up
    /\ vmState[n] = "NULL"
    /\ vmState' = [vmState EXCEPT ![n] = "IN_CREATION"]
    /\ nodeVm' = [nodeVm EXCEPT ![n] = vm]
    /\ cosKnown' = [cosKnown EXCEPT ![n] = TRUE]
    /\ guest' = [guest EXCEPT ![n] = IF @ = "OFF" THEN "BOOTING" ELSE @]
    /\ HasRoom(cosInbox)
    /\ cosInbox' = Append(cosInbox, CosResp("CREATE_VM_RESP", vm, 0))
    /\ Served(n)
    /\ UNCHANGED <<nodeUp, monKnown, monInbox, sampled, history>>

CreateVmUnnamed(n, vm) ==   \* the name is not copied
    /\ vmState[n] = "NULL"
    /\ vmState' = [vmState EXCEPT ![n] = "IN_CREATION"]
    /\ cosKnown' = [cosKnown EXCEPT ![n] = TRUE]
    /\ guest' = [guest EXCEPT ![n] = IF @ = "OFF" THEN "BOOTING" ELSE @]
    /\ Served(n)
    /\ UNCHANGED <<nodeUp, nodeVm, monKnown, cosInbox, monInbox, sampled, history>>

CreateVmForgetsSender(n, vm) ==   \* the return address is not copied
    /\ vmState[n] = "NULL"
    /\ vmState' = [vmState EXCEPT ![n] = "IN_CREATION"]
    /\ nodeVm' = [nodeVm EXCEPT ![n] = vm]
    /\ guest' = [guest EXCEPT ![n] = IF @ = "OFF" THEN "BOOTING" ELSE @]
    /\ Served(n)
    /\ UNCHANGED <<nodeUp, monKnown, cosKnown, cosInbox, monInbox, sampled, history>>

CreateVm(n, vm) ==
    \/ vmState[n] # "NULL" /\ NodeCrash(n)
    \/ /\ vmState[n] = "NULL"
       /\ vmState' = [vmState EXCEPT ![n] = "IN_CREATION"]
       /\ nodeVm' = [nodeVm EXCEPT ![n] = vm]
       /\ cosKnown' = [cosKnown EXCEPT ![n] = TRUE]
       /\ guest' = [guest EXCEPT ![n] = IF @ = "OFF" THEN "BOOTING" ELSE @]
       /\ Served(n)
       /\ UNCHANGED <<nodeUp, monKnown, cosInbox, monInbox, sampled, history>>

(* destroy_vm_req.  An unknown name leaves vm NULL, and its state is set on *)
(* the way out.                                                             *)
DestroyVm(n, vm, cosListens) ==
    \/ nodeVm[n] # vm /\ NodeCrash(n)
    \/ /\ nodeVm[n] = vm
       /\ \E asked \in IF vmState[n] \in {"IN_CREATION", "ACTIVE"} THEN MonConnect(n) ELSE {FALSE} :
             /\ vmState' = [vmState EXCEPT ![n] = IF asked THEN "IN_SHUTTING_DOWN" ELSE "NULL"]
             /\ monInbox' = [monInbox EXCEPT ![n] = Sent(@, "SHUTDOWN_THEATER_REQ", asked)]
             /\ IF asked THEN UNCHANGED cosInbox
                ELSE ToCos(n, CosResp("DESTROY_VM_RESP", vm, -1), cosListens)
       /\ Served(n)
       /\ UNCHANGED <<nodeUp, nodeVm, monKnown, cosKnown, monVars>>

(* notify_vm_started: the record in creation becomes active only when the   *)
(* COS manager could be told.  Without one the COS manager is told that a   *)
(* creation failed, with NULL for the name.                                 *)
VmStarted(n, cosListens) ==
    /\ \/ /\ vmState[n] = "IN_CREATION"
          /\ monKnown' = [monKnown EXCEPT ![n] = TRUE]
          /\ \E ok \in CosConnect(n, cosListens) :
                /\ cosInbox' = Sent(cosInbox, CosResp("CREATE_VM_RESP", nodeVm[n], 0), ok)
                /\ vmState' = [vmState EXCEPT ![n] = IF ok THEN "ACTIVE" ELSE "NULL"]
       \/ /\ vmState[n] # "IN_CREATION"
          /\ ToCos(n, CosResp("CREATE_VM_RESP", NullName, -1), cosListens)
          /\ UNCHANGED <<vmState, monKnown>>
    /\ Served(n)
    /\ UNCHANGED <<nodeUp, nodeVm, cosKnown, monInbox, monVars>>

(* notify_high_cpu_usage and notify_low_cpu_usage pass the notice on under  *)
(* the VM's name, in whatever state the record is.                          *)
CpuNotice(n, type, cosListens) ==
    /\ IF monKnown[n] THEN ToCos(n, CosNotice(type, nodeVm[n]), cosListens)
                      ELSE UNCHANGED cosInbox
    /\ Served(n)
    /\ UNCHANGED <<nodeVars, monInbox, monVars>>

(* shutdown_theater_resp answers the COS manager and clears the record; the *)
(* domain is left running (node_main.c:430-439).  A VmMonitor the record    *)
(* does not know leaves vm NULL, and vm->vm_name is read.                   *)
TheaterShutDown(n, cosListens) ==
    \/ ~monKnown[n] /\ NodeCrash(n)
    \/ /\ monKnown[n]
       /\ ToCos(n, CosResp("DESTROY_VM_RESP", nodeVm[n],
                           IF vmState[n] = "IN_SHUTTING_DOWN" THEN 0 ELSE -1), cosListens)
       /\ vmState' = [vmState EXCEPT ![n] = "NULL"]
       /\ nodeVm' = [nodeVm EXCEPT ![n] = NoName]
       /\ monKnown' = [monKnown EXCEPT ![n] = FALSE]
       /\ Served(n)
       /\ UNCHANGED <<nodeUp, cosKnown, monInbox, monVars>>

(* A message node_parse_msg refuses. *)
Unparsed(n) == Served(n) /\ UNCHANGED <<nodeVars, cosInbox, monInbox, monVars>>

(* One turn of main's loop. *)
NodeReceive(n, cosListens) ==
    /\ nodeUp[n]
    /\ nodeInbox[n] # <<>>
    /\ LET m == Head(nodeInbox[n]) IN
       \/ /\ m.type = "CREATE_VM_REQ"
          /\ IF m.retOk THEN CreateVm(n, m.vm) ELSE Unparsed(n)
       \/ /\ m.type = "DESTROY_VM_REQ"
          /\ IF m.retOk THEN DestroyVm(n, m.vm, cosListens) ELSE Unparsed(n)
       \/ m.type = "NOTIFY_VM_STARTED" /\ VmStarted(n, cosListens)
       \/ /\ m.type \in {"NOTIFY_HIGH_CPU_USAGE", "NOTIFY_LOW_CPU_USAGE"}
          /\ CpuNotice(n, m.type, cosListens)
       \/ m.type = "SHUTDOWN_THEATER_RESP" /\ TheaterShutDown(n, cosListens)

(* main up to its loop: the record is cleared and the COS manager unknown. *)
NodeStart(n) ==
    /\ ~nodeUp[n]
    /\ nodeUp' = [nodeUp EXCEPT ![n] = TRUE]
    /\ UNCHANGED <<vmState, nodeVm, monKnown, cosKnown, monVars, netVars>>

NodeInit ==
    /\ nodeUp = [n \in Nodes |-> TRUE]
    /\ vmState = [n \in Nodes |-> "NULL"]
    /\ nodeVm = [n \in Nodes |-> NoName]
    /\ monKnown = [n \in Nodes |-> FALSE]
    /\ cosKnown = [n \in Nodes |-> FALSE]

=============================================================================
