-------------------------------- MODULE Cos --------------------------------
(***************************************************************************)
(* The Cloud Operating System manager of COS/cos_main.c: one process, one  *)
(* thread, one table of Nodes.  It asks a NodeManager for a new VM when    *)
(* every running VM reports high CPU usage and for the end of a VM that    *)
(* reports low CPU usage.                                                  *)
(*                                                                         *)
(* One action is one turn of main's loop: a message is taken, its handler  *)
(* runs to the end.  A handler calls at most one NodeManager_* stub; the   *)
(* parameter call names that call and its return value, so that a module   *)
(* that knows the network decides when the call can succeed.  In this      *)
(* module alone the call may always fail, and any message may arrive at    *)
(* any time: what holds here holds whatever the peers do.                  *)
(***************************************************************************)
EXTENDS NodeList, FiniteSets

CONSTANTS
    CheckTime,    \* HIGH_CPU_USAGE_CHECK_TIME_THRESHOLD, in clock ticks
    MaxTheaters   \* MAX_THEATERS, the length of a peer_theaters array

ASSUME CheckTimeAssumption == CheckTime \in Nat
ASSUME MaxTheatersAssumption == MaxTheaters \in Nat

VARIABLES
    cosUp,        \* the process runs
    nodeState,    \* node_array[i].state
    addrOk,       \* node_array[i].addr is the address nodelist.txt gave
    vmName,       \* node_array[i].vm_name (and .theater, stored with it)
    highAge,      \* ticks since the high-CPU notice, or NoNotice
    numActiveVm,  \* num_active_vm
    cosAddrOk     \* cos_addr holds this process's own address

cosVars == <<cosUp, nodeState, addrOk, vmName, highAge, numActiveVm, cosAddrOk>>

NodeStates == {"NULL", "IN_VM_CREATION", "IN_VM_DESTRUCTION", "VM_ACTIVE"}

\* high_cpu_usage = 0; the notification time is read only while the flag is set,
\* so the two fields are one value.  An age past the threshold is kept at
\* CheckTime + 1: the code compares it with the threshold and nothing else.
NoNotice == -1
Ages == NoNotice .. CheckTime + 1

CosMessage ==
    [type : {"CREATE_VM_RESP", "DESTROY_VM_RESP"}, vm : VmNames, result : {0, -1}]
    \cup [type : {"NOTIFY_HIGH_CPU_USAGE", "NOTIFY_LOW_CPU_USAGE"}, vm : VmNames]

\* A call of NodeManager_create_vm_req or NodeManager_destroy_vm_req, and
\* whether it returned 0.
NoCall == [op |-> "NONE", node |-> 0, ok |-> TRUE]
Calls == {NoCall} \cup
    [op : {"CREATE_VM_REQ", "DESTROY_VM_REQ"}, node : Nodes, ok : BOOLEAN]

Active == {n \in Nodes : nodeState[n] = "VM_ACTIVE"}
Occupied == {n \in Nodes : nodeState[n] \in {"VM_ACTIVE", "IN_VM_DESTRUCTION"}}

-----------------------------------------------------------------------------
(* Looking a Node up: the loops stop at the first index that matches. *)

IsFirst(n, S) == n \in S /\ \A k \in S : n <= k

FindLastByState(n, st) ==   \* the loop does not stop at the first match
    nodeState[n] = st /\ \A k \in Nodes : nodeState[k] = st => k <= n

FindNodeByState(n, st) == IsFirst(n, {k \in Nodes : nodeState[k] = st})

FindNodeByVmName(n, vm) == IsFirst(n, {k \in Nodes : vmName[k] = vm})

FoundActive(n, vm) == FindNodeByVmName(n, vm) /\ nodeState[n] = "VM_ACTIVE"

\* send_msg refuses an address without ':', which an erased one is; any
\* other call may fail to connect.
Called(op, n) == {c \in Calls : c.op = op /\ c.node = n /\ (c.ok => addrOk[n])}

-----------------------------------------------------------------------------
(* create_vm_req: the first free Node gets the request, and only a request *)
(* that was sent changes its state.                                        *)

CreateVmReqAnyNode(call) ==      \* the address is not looked at
    \E n \in Nodes : /\ FindNodeByState(n, "NULL")
                     /\ call = [op |-> "CREATE_VM_REQ", node |-> n, ok |-> TRUE]
                     /\ nodeState' = [nodeState EXCEPT ![n] = "IN_VM_CREATION"]

CreateVmReq(call) ==
    \/ /\ \A n \in Nodes : nodeState[n] # "NULL"
       /\ call = NoCall
       /\ UNCHANGED nodeState
    \/ \E n \in Nodes :
          /\ FindNodeByState(n, "NULL")
          /\ call \in Called("CREATE_VM_REQ", n)
          /\ nodeState' = IF call.ok
                          THEN [nodeState EXCEPT ![n] = "IN_VM_CREATION"]
                          ELSE nodeState

(* main up to its loop: the table is read from nodelist.txt and a first VM *)
(* is asked for; what create_vm_req returns is not looked at.              *)
CosStart(call) ==
    /\ ~cosUp
    /\ cosUp' = TRUE
    /\ addrOk' = [n \in Nodes |-> TRUE]
    /\ cosAddrOk' = TRUE
    /\ call \in [op : {"CREATE_VM_REQ"}, node : {0}, ok : BOOLEAN]
    /\ nodeState' = [n \in Nodes |-> IF n = 0 /\ call.ok THEN "IN_VM_CREATION" ELSE "NULL"]
    /\ vmName' = [n \in Nodes |-> NoName]
    /\ highAge' = [n \in Nodes |-> NoNotice]
    /\ numActiveVm' = 0

(* The process ends, by Ctrl-C or because it is killed: its memory is gone. *)
CosStop ==
    /\ cosUp
    /\ cosUp' = FALSE
    /\ addrOk' = [n \in Nodes |-> FALSE]
    /\ cosAddrOk' = FALSE
    /\ nodeState' = [n \in Nodes |-> "NULL"]
    /\ vmName' = [n \in Nodes |-> NoName]
    /\ highAge' = [n \in Nodes |-> NoNotice]
    /\ numActiveVm' = 0

-----------------------------------------------------------------------------
(* create_vm_resp: the answer goes to whichever Node is in creation.       *)

CreateVmRespUncounted(vm, result) ==   \* num_active_vm++ is missing
    \E n \in Nodes :
        /\ FindNodeByState(n, "IN_VM_CREATION")
        /\ IF result < 0
           THEN nodeState' = [nodeState EXCEPT ![n] = "NULL"] /\ UNCHANGED vmName
           ELSE /\ nodeState' = [nodeState EXCEPT ![n] = "VM_ACTIVE"]
                /\ vmName' = [vmName EXCEPT ![n] = vm]
        /\ UNCHANGED <<cosUp, addrOk, highAge, numActiveVm, cosAddrOk>>

CreateVmResp(vm, result) ==
    \E n \in Nodes :
        /\ FindNodeByState(n, "IN_VM_CREATION")
        /\ IF result < 0
           THEN /\ nodeState' = [nodeState EXCEPT ![n] = "NULL"]
                /\ UNCHANGED <<vmName, numActiveVm>>
           ELSE /\ nodeState' = [nodeState EXCEPT ![n] = "VM_ACTIVE"]
                /\ vmName' = [vmName EXCEPT ![n] = vm]
                /\ numActiveVm' = numActiveVm + 1
        /\ UNCHANGED <<cosUp, addrOk, highAge, cosAddrOk>>

-----------------------------------------------------------------------------
(* check_all_nodes_cpu_usage stops, with the answer no, at the first Node  *)
(* that is being created or that is active without a fresh notice.         *)

StopsCheckLoosely(n, age) ==       \* the creation branch is missing
    nodeState[n] = "VM_ACTIVE" /\ (age[n] = NoNotice \/ age[n] > CheckTime)

StopsCheckLate(n, age) ==          \* the age of the notice is not looked at
    \/ nodeState[n] = "IN_VM_CREATION"
    \/ nodeState[n] = "VM_ACTIVE" /\ age[n] = NoNotice

StopsCheck(n, age) ==
    \/ nodeState[n] = "IN_VM_CREATION"
    \/ nodeState[n] = "VM_ACTIVE" /\ (age[n] = NoNotice \/ age[n] > CheckTime)

Stopping(age) == {n \in Nodes : StopsCheck(n, age)}

NoticedLate(n) == highAge   \* the check comes before the flag is set

Noticed(n) == [highAge EXCEPT ![n] = 0]

(* notify_high_cpu_usage behind main's guard: the notice is recorded; if    *)
(* the check passes a VM is asked for, else the Node the check stopped at   *)
(* loses its notice.                                                        *)
NotifyHighUnlimited(vm, call) ==   \* main's guard is missing
    /\ \E n \in Nodes :
          /\ FoundActive(n, vm)
          /\ Stopping(Noticed(n)) = {}
          /\ highAge' = Noticed(n)
          /\ CreateVmReq(call)
    /\ UNCHANGED <<cosUp, addrOk, vmName, numActiveVm, cosAddrOk>>

NotifyHighCpuUsage(vm, call) ==
    /\ numActiveVm # NumNodes
    /\ \E n \in Nodes :
          /\ FoundActive(n, vm)
          /\ \/ \E b \in Nodes :
                   /\ IsFirst(b, Stopping(Noticed(n)))
                   /\ highAge' = [Noticed(n) EXCEPT ![b] = NoNotice]
                   /\ call = NoCall
                   /\ UNCHANGED nodeState
             \/ /\ Stopping(Noticed(n)) = {}
                /\ highAge' = Noticed(n)
                /\ CreateVmReq(call)
    /\ UNCHANGED <<cosUp, addrOk, vmName, numActiveVm, cosAddrOk>>

(* notify_low_cpu_usage behind main's guard: the notice is dropped before   *)
(* the request is sent, and stays dropped when it cannot be sent.           *)
NotifyLowAnyState(vm, call) ==   \* the state of the Node is not looked at
    /\ numActiveVm \notin {0, 1}
    /\ \E n \in Nodes :
          /\ FindNodeByVmName(n, vm)
          /\ highAge' = [highAge EXCEPT ![n] = NoNotice]
          /\ call \in Called("DESTROY_VM_REQ", n)
          /\ nodeState' = IF call.ok
                          THEN [nodeState EXCEPT ![n] = "IN_VM_DESTRUCTION"]
                          ELSE nodeState
    /\ UNCHANGED <<cosUp, addrOk, vmName, numActiveVm, cosAddrOk>>

NotifyLowKeepsState(vm, call) ==   \* the Node is not marked
    /\ numActiveVm \notin {0, 1}
    /\ \E n \in Nodes :
          /\ FoundActive(n, vm)
          /\ highAge' = [highAge EXCEPT ![n] = NoNotice]
          /\ call \in Called("DESTROY_VM_REQ", n)
    /\ UNCHANGED <<cosUp, nodeState, addrOk, vmName, numActiveVm, cosAddrOk>>

NotifyLowCpuUsage(vm, call) ==
    /\ numActiveVm \notin {0, 1}
    /\ \E n \in Nodes :
          /\ FoundActive(n, vm)
          /\ highAge' = [highAge EXCEPT ![n] = NoNotice]
          /\ call \in Called("DESTROY_VM_REQ", n)
          /\ nodeState' = IF call.ok
                          THEN [nodeState EXCEPT ![n] = "IN_VM_DESTRUCTION"]
                          ELSE nodeState
    /\ UNCHANGED <<cosUp, addrOk, vmName, numActiveVm, cosAddrOk>>

-----------------------------------------------------------------------------
(* destroy_vm_resp.  A failure frees the Node and leaves its name and the  *)
(* counter alone.  A success runs memset(node, 0, sizeof(node_array)): it   *)
(* clears this record, every later one, and as many bytes past the array    *)
(* as this record is into it.  What lies there is the linker's choice:      *)
(* num_active_vm is cleared before it is decremented when n >= 1 in the     *)
(* build of the Makefile, and cos_addr too when n >= 2 and the compiler     *)
(* merges common symbols.                                                   *)

DestroyVmRespCountsFailure(vm, result) ==   \* a failure is counted down too
    \E n \in Nodes :
        /\ FindNodeByVmName(n, vm)
        /\ result < 0
        /\ nodeState' = [nodeState EXCEPT ![n] = "NULL"]
        /\ numActiveVm' = numActiveVm - 1
        /\ UNCHANGED <<cosUp, addrOk, vmName, highAge, cosAddrOk>>

DestroyVmResp(vm, result) ==
    \E n \in Nodes :
        /\ FindNodeByVmName(n, vm)
        /\ IF result < 0
           THEN /\ nodeState' = [nodeState EXCEPT ![n] = "NULL"]
                /\ UNCHANGED <<addrOk, vmName, highAge, numActiveVm, cosAddrOk>>
           ELSE /\ nodeState' = [k \in Nodes |-> IF k >= n THEN "NULL" ELSE nodeState[k]]
                /\ addrOk' = [k \in Nodes |-> k < n /\ addrOk[k]]
                /\ vmName' = [k \in Nodes |-> IF k >= n THEN NoName ELSE vmName[k]]
                /\ highAge' = [k \in Nodes |-> IF k >= n THEN NoNotice ELSE highAge[k]]
                /\ numActiveVm' = numActiveVm - 1 \/ (n >= 1 /\ numActiveVm' = -1)
                /\ cosAddrOk' = cosAddrOk \/ (n >= 2 /\ cosAddrOk' = FALSE)
        /\ UNCHANGED cosUp

-----------------------------------------------------------------------------
(* collect_active_theaters has no bound check and no room for a terminator *)
(* when MaxTheaters Nodes are active: create_vm_req and                    *)
(* connect_peer_theaters then read, and with one more also write, past     *)
(* their array.  The process may go on as if nothing happened (the actions *)
(* above) or be killed.                                                    *)
PeersOverrun(m, call) ==
    /\ \/ /\ m.type = "CREATE_VM_RESP" /\ m.result >= 0
          /\ \E n \in Nodes : FindNodeByState(n, "IN_VM_CREATION")
          /\ 1 < Cardinality(Active) + 1
          /\ MaxTheaters <= Cardinality(Active) + 1
          /\ call = NoCall
       \/ /\ m.type = "NOTIFY_HIGH_CPU_USAGE" /\ numActiveVm # NumNodes
          /\ \E n \in Nodes : FoundActive(n, m.vm) /\ Stopping(Noticed(n)) = {}
          /\ MaxTheaters <= Cardinality(Active)
          /\ \E n \in Nodes : /\ FindNodeByState(n, "NULL")
                              /\ call \in Called("CREATE_VM_REQ", n)
    /\ CosStop

(* A message main or its handler turns away. *)
Rejected(m) ==
    \/ m.type = "CREATE_VM_RESP" /\ \A n \in Nodes : nodeState[n] # "IN_VM_CREATION"
    \/ m.type = "DESTROY_VM_RESP" /\ \A n \in Nodes : vmName[n] # m.vm
    \/ m.type = "NOTIFY_HIGH_CPU_USAGE"
       /\ (numActiveVm = NumNodes \/ \A n \in Nodes : ~FoundActive(n, m.vm))
    \/ m.type = "NOTIFY_LOW_CPU_USAGE"
       /\ (numActiveVm \in {0, 1} \/ \A n \in Nodes : ~FoundActive(n, m.vm))

(* One turn of main's loop on the message m. *)
CosReceive(m, call) ==
    /\ cosUp
    /\ \/ m.type = "CREATE_VM_RESP" /\ call = NoCall /\ CreateVmResp(m.vm, m.result)
       \/ m.type = "DESTROY_VM_RESP" /\ call = NoCall /\ DestroyVmResp(m.vm, m.result)
       \/ m.type = "NOTIFY_HIGH_CPU_USAGE" /\ NotifyHighCpuUsage(m.vm, call)
       \/ m.type = "NOTIFY_LOW_CPU_USAGE" /\ NotifyLowCpuUsage(m.vm, call)
       \/ PeersOverrun(m, call)
       \/ Rejected(m) /\ call = NoCall /\ UNCHANGED cosVars

(* Time passes: every notice gets older. *)
CosTick ==
    /\ \E n \in Nodes : highAge[n] \in 0 .. CheckTime
    /\ highAge' = [n \in Nodes |-> IF highAge[n] \in 0 .. CheckTime
                                   THEN highAge[n] + 1 ELSE highAge[n]]
    /\ UNCHANGED <<cosUp, nodeState, addrOk, vmName, numActiveVm, cosAddrOk>>

CosInit ==
    /\ cosUp = FALSE
    /\ addrOk = [n \in Nodes |-> FALSE]
    /\ cosAddrOk = FALSE
    /\ nodeState = [n \in Nodes |-> "NULL"]
    /\ vmName = [n \in Nodes |-> NoName]
    /\ highAge = [n \in Nodes |-> NoNotice]
    /\ numActiveVm = 0

CosNext ==
    \/ \E call \in Calls : CosStart(call)
    \/ \E m \in CosMessage, call \in Calls : CosReceive(m, call)
    \/ CosTick
    \/ CosStop

CosSpec == CosInit /\ [][CosNext]_cosVars

-----------------------------------------------------------------------------
(* Properties *)

\* Every variable keeps its type.  num_active_vm runs below zero after the memset of
\* cos_main.c:527, but no answer is counted twice: by one for each Node at the most.
TypeOK ==
    /\ cosUp \in BOOLEAN
    /\ nodeState \in [Nodes -> NodeStates]
    /\ addrOk \in [Nodes -> BOOLEAN]
    /\ vmName \in [Nodes -> VmNames \cup {NoName}]
    /\ highAge \in [Nodes -> Ages]
    /\ numActiveVm \in Int /\ -NumNodes <= numActiveVm
    /\ cosAddrOk \in BOOLEAN

\* create_vm_resp takes the first Node in creation for the one that answered
\* (cos_main.c:376).  That is only right because two Nodes are never in creation
\* together, which nothing but the check before a request ensures.
AtMostOneCreation ==
    \A m, n \in Nodes :
        nodeState[m] = "IN_VM_CREATION" /\ nodeState[n] = "IN_VM_CREATION" => m = n

\* The Nodes whose record destroy_vm_resp erased (cos_main.c:527) are the last
\* ones of the table, and none of them is ever used again: find_node_by_state
\* still offers them, but no request can be sent to an erased address.
ErasedNodesStayUnused ==
    \A m, n \in Nodes :
        ~addrOk[m] /\ m <= n =>
            /\ ~addrOk[n]
            /\ nodeState[n] = "NULL"
            /\ vmName[n] = NoName
            /\ highAge[n] = NoNotice

\* num_active_vm never passes the number of Nodes, although a failed
\* destruction leaves it too high (cos_main.c:522) and the Node is used again:
\* the test at cos_main.c:619 is for equality and would miss a larger value.
CounterWithinNodes == numActiveVm <= NumNodes

\* As long as no record was erased, num_active_vm never falls below the number
\* of Nodes that hold a VM.
CounterCoversVms ==
    (\A n \in Nodes : addrOk[n]) => Cardinality(Occupied) <= numActiveVm

\* Whenever a high-CPU notice gets past main and the check can pass, some Node
\* is free: "no nodes available" (cos_main.c:281) is never reached.
FreeNodeWhenAsked ==
    numActiveVm # NumNodes /\ (\A n \in Nodes : nodeState[n] # "IN_VM_CREATION")
    => \E n \in Nodes : nodeState[n] = "NULL"

\* A running manager asks for a VM only when no other is being created and every
\* active Node sent a high-CPU notice within the threshold (cos_main.c:456).
ScaleOutStep ==
    (cosUp /\ \E n \in Nodes : nodeState[n] = "NULL" /\ nodeState'[n] = "IN_VM_CREATION")
    => /\ \A n \in Nodes : nodeState[n] # "IN_VM_CREATION"
       /\ Active # {}
       /\ \A n \in Active : highAge'[n] \in 0 .. CheckTime
ScaleOutJustified == [][ScaleOutStep]_cosVars

\* Whatever messages arrive, Nodes get and lose their VMs in the order Placement
\* says: one request at a time, at the first Node that is free (cos_main.c:279),
\* and an erased Node (cos_main.c:527) gets none until the manager is restarted.
LifeIn ==
    [NULL |-> "FREE", IN_VM_CREATION |-> "COMING",
     VM_ACTIVE |-> "HERE", IN_VM_DESTRUCTION |-> "LEAVING"]

Life(n) == IF addrOk[n] THEN LifeIn[nodeState[n]] ELSE "DEAD"

lives == [n \in Nodes |-> Life(n)]

Abstract == INSTANCE Placement WITH life <- lives

ImplementsPlacement == Abstract!PlacementSpec

-----------------------------------------------------------------------------
(* What comments of the code say and its steps do not keep. *)

\* A message concerns the one VM it names: no step of a running manager changes
\* the VM records of two Nodes ("one VM per Node", cos_main.c:47).
OneVmStep ==
    cosUp /\ cosUp' =>
        \A m, n \in Nodes : vmName'[m] # vmName[m] /\ vmName'[n] # vmName[n] => m = n
OneVmPerMessage == [][OneVmStep]_cosVars

\* The low-CPU guard keeps the last VM ("There is %d VM, IGNORE", cos_main.c:629):
\* a running manager never gives its only active VM up.
LastVmStep ==
    cosUp' /\ (\E n \in Nodes : nodeState[n] = "VM_ACTIVE" /\ nodeState'[n] = "IN_VM_DESTRUCTION")
    => 1 < Cardinality(Active)
LastVmStays == [][LastVmStep]_cosVars

\* The peer list of a creation request ends in NULL ("the last entry in the arrray
\* must be NULL", NodeManager.c:66): one entry at least is left over.
PeersStep ==
    (\E n \in Nodes : nodeState[n] = "NULL" /\ nodeState'[n] = "IN_VM_CREATION")
    => Cardinality(Active) < MaxTheaters
PeersTerminated == [][PeersStep]_cosVars

=============================================================================
