----------------------------- MODULE CosProofs -----------------------------
(***************************************************************************)
(* Proofs about Cos, for every number of Nodes, every threshold, every set *)
(* of names and whatever messages arrive.                                  *)
(***************************************************************************)
EXTENDS Cos, FiniteSetTheorems, TLAPS

\* The types by themselves, without the lower end of the counter.
CosTypes ==
    /\ cosUp \in BOOLEAN
    /\ nodeState \in [Nodes -> NodeStates]
    /\ addrOk \in [Nodes -> BOOLEAN]
    /\ vmName \in [Nodes -> VmNames \cup {NoName}]
    /\ highAge \in [Nodes -> Ages]
    /\ numActiveVm \in Int
    /\ cosAddrOk \in BOOLEAN

\* An answer that lowers the counter erases a Node and all behind it.
CounterAboveErased ==
    /\ -NumNodes <= numActiveVm
    /\ \A n \in Nodes : addrOk[n] => n + 1 - NumNodes <= numActiveVm

\* The room the limit test leaves is not taken away while a VM is created.
CreationLeavesRoom ==
    \A n \in Nodes : nodeState[n] = "IN_VM_CREATION" => numActiveVm < NumNodes

\* The inductive invariant.
CosInv ==
    /\ CosTypes
    /\ AtMostOneCreation
    /\ ErasedNodesStayUnused
    /\ CounterWithinNodes
    /\ CreationLeavesRoom
    /\ CounterCoversVms
    /\ CounterAboveErased

-----------------------------------------------------------------------------
(* What the actions do, in the form the proofs use. *)

\* A step of the manager is one of its handlers, the clock, the end of the
\* process, or changes nothing: main's switch (cos_main.c:610-646).
LEMMA CosCases ==
    ASSUME [CosNext]_cosVars
    PROVE  \/ \E call \in Calls : CosStart(call)
           \/ \E vm \in VmNames, r \in {0, -1} : cosUp /\ CreateVmResp(vm, r)
           \/ \E vm \in VmNames, r \in {0, -1} : cosUp /\ DestroyVmResp(vm, r)
           \/ \E vm \in VmNames, call \in Calls : cosUp /\ NotifyHighCpuUsage(vm, call)
           \/ \E vm \in VmNames, call \in Calls : cosUp /\ NotifyLowCpuUsage(vm, call)
           \/ CosTick
           \/ CosStop
           \/ UNCHANGED cosVars
<1>1. CASE \E m \in CosMessage, call \in Calls : CosReceive(m, call)
  <2>1. PICK m \in CosMessage, call \in Calls : CosReceive(m, call)
    BY <1>1
  <2>2. m.vm \in VmNames
    BY DEF CosMessage
  <2>3. m.type = "CREATE_VM_RESP" => m.result \in {0, -1}
    BY DEF CosMessage
  <2>4. m.type = "DESTROY_VM_RESP" => m.result \in {0, -1}
    BY DEF CosMessage
  <2> QED
    BY <2>1, <2>2, <2>3, <2>4 DEF CosReceive, PeersOverrun
<1> QED
  BY <1>1 DEF CosNext

\* create_vm_req marks at most one Node, and then the first free one, which can be
\* reached (cos_main.c:289-294).
LEMMA CreateVmReqEffect ==
    ASSUME NEW call, CreateVmReq(call)
    PROVE  \/ UNCHANGED nodeState
           \/ \E n \in Nodes : /\ nodeState[n] = "NULL" /\ addrOk[n]
                               /\ \A k \in Nodes : nodeState[k] = "NULL" => n <= k
                               /\ nodeState' = [nodeState EXCEPT ![n] = "IN_VM_CREATION"]
BY DEF CreateVmReq, FindNodeByState, IsFirst, Called

\* A high-CPU notice leaves every Node's state alone, or puts the first free Node,
\* which can be reached, into creation; it does the latter only when no Node is being created and
\* every active one has a fresh notice (cos_main.c:456-458).
LEMMA NotifyHighEffect ==
    ASSUME CosTypes, NEW vm, NEW call, NotifyHighCpuUsage(vm, call)
    PROVE  /\ numActiveVm # NumNodes
           /\ UNCHANGED <<cosUp, addrOk, vmName, numActiveVm, cosAddrOk>>
           /\ highAge' \in [Nodes -> Ages]
           /\ \A k \in Nodes : nodeState[k] # "VM_ACTIVE" => highAge'[k] \in {highAge[k], NoNotice}
           /\ \/ UNCHANGED nodeState
              \/ /\ Active # {}
                 /\ \A k \in Nodes : nodeState[k] # "IN_VM_CREATION"
                 /\ \A k \in Active : highAge'[k] \in 0 .. CheckTime
                 /\ \E n \in Nodes : /\ nodeState[n] = "NULL" /\ addrOk[n]
                                     /\ \A k \in Nodes : nodeState[k] = "NULL" => n <= k
                                     /\ nodeState' = [nodeState EXCEPT ![n] = "IN_VM_CREATION"]
<1>1. PICK n \in Nodes :
         /\ FoundActive(n, vm)
         /\ \/ \E b \in Nodes :
                  /\ IsFirst(b, Stopping(Noticed(n)))
                  /\ highAge' = [Noticed(n) EXCEPT ![b] = NoNotice]
                  /\ call = NoCall
                  /\ UNCHANGED nodeState
            \/ /\ Stopping(Noticed(n)) = {}
               /\ highAge' = Noticed(n)
               /\ CreateVmReq(call)
  BY DEF NotifyHighCpuUsage
<1>2. nodeState[n] = "VM_ACTIVE"
  BY <1>1 DEF FoundActive
<1>3. Noticed(n) \in [Nodes -> Ages] /\ NoNotice \in Ages
  BY CheckTimeAssumption DEF Noticed, CosTypes, Ages, NoNotice
<1>4. \A k \in Nodes \ {n} : Noticed(n)[k] = highAge[k]
  BY DEF Noticed, CosTypes
<1>5. numActiveVm # NumNodes /\ UNCHANGED <<cosUp, addrOk, vmName, numActiveVm, cosAddrOk>>
  BY DEF NotifyHighCpuUsage
<1>6. CASE \E b \in Nodes :
              /\ highAge' = [Noticed(n) EXCEPT ![b] = NoNotice]
              /\ UNCHANGED nodeState
  BY <1>2, <1>3, <1>4, <1>5, <1>6
<1>7. CASE Stopping(Noticed(n)) = {} /\ highAge' = Noticed(n) /\ CreateVmReq(call)
  <2>1. \A k \in Nodes : nodeState[k] # "IN_VM_CREATION"
    BY <1>7 DEF Stopping, StopsCheck
  <2>2. \A k \in Active : highAge'[k] # NoNotice /\ ~(highAge'[k] > CheckTime)
    BY <1>7 DEF Stopping, StopsCheck, Active
  <2>3. \A k \in Active : highAge'[k] \in Ages
    BY <1>3, <1>7 DEF Active
  <2>4. \A k \in Active : highAge'[k] \in 0 .. CheckTime
    BY <2>2, <2>3, CheckTimeAssumption DEF Ages, NoNotice
  <2>5. Active # {}
    BY <1>2 DEF Active
  <2> QED
    BY <1>2, <1>3, <1>4, <1>5, <1>7, <2>1, <2>4, <2>5, CreateVmReqEffect
<1> QED
  BY <1>1, <1>6, <1>7

-----------------------------------------------------------------------------
(* Type correctness *)

\* The cleared memory of a process that does not run is of the right type.
LEMMA BootMemory ==
    /\ [n \in Nodes |-> FALSE] \in [Nodes -> BOOLEAN]
    /\ [n \in Nodes |-> "NULL"] \in [Nodes -> NodeStates]
    /\ [n \in Nodes |-> NoName] \in [Nodes -> VmNames \cup {NoName}]
    /\ [n \in Nodes |-> NoNotice] \in [Nodes -> Ages]
<1>1. NoNotice \in Ages
  BY CheckTimeAssumption DEF Ages, NoNotice
<1>2. [n \in Nodes |-> FALSE] \in [Nodes -> BOOLEAN]
  BY Zenon
<1>3. [n \in Nodes |-> "NULL"] \in [Nodes -> NodeStates]
  BY DEF NodeStates
<1> QED
  BY <1>1, <1>2, <1>3

\* The counter is changed by a CREATE_VM_RESP and a DESTROY_VM_RESP only, and
\* every update of the table stays in its type (cos_main.c:40-53).
LEMMA CosTypesStep ==
    ASSUME CosTypes, [CosNext]_cosVars
    PROVE  CosTypes'
<1> USE DEF CosTypes
<1>0. NoNotice \in Ages
  BY CheckTimeAssumption DEF Ages, NoNotice
<1>1. CASE \E call \in Calls : CosStart(call)
  BY <1>0, <1>1 DEF CosStart, NodeStates
<1>2. CASE \E vm \in VmNames, r \in {0, -1} : cosUp /\ CreateVmResp(vm, r)
  BY <1>2 DEF CreateVmResp, NodeStates
<1>3. CASE \E vm \in VmNames, r \in {0, -1} : cosUp /\ DestroyVmResp(vm, r)
  <2>1. PICK vm \in VmNames, r \in {0, -1} : DestroyVmResp(vm, r)
    BY <1>3
  <2>2. CASE r = -1
    BY <2>1, <2>2 DEF DestroyVmResp, NodeStates
  <2>3. CASE r = 0
    <3>1. PICK n \in Nodes :
             /\ nodeState' = [k \in Nodes |-> IF k >= n THEN "NULL" ELSE nodeState[k]]
             /\ addrOk' = [k \in Nodes |-> k < n /\ addrOk[k]]
             /\ vmName' = [k \in Nodes |-> IF k >= n THEN NoName ELSE vmName[k]]
             /\ highAge' = [k \in Nodes |-> IF k >= n THEN NoNotice ELSE highAge[k]]
             /\ numActiveVm' = numActiveVm - 1 \/ numActiveVm' = -1
             /\ cosAddrOk' = cosAddrOk \/ cosAddrOk' = FALSE
             /\ cosUp' = cosUp
      BY <2>1, <2>3 DEF DestroyVmResp
    <3>2. addrOk' \in [Nodes -> BOOLEAN]
      <4>1. \A k \in Nodes : (k < n /\ addrOk[k]) \in BOOLEAN
        BY Zenon
      <4> QED
        BY <3>1, <4>1, Zenon
    <3>3. cosUp' \in BOOLEAN /\ cosAddrOk' \in BOOLEAN
      BY <3>1, Zenon
    <3>4. /\ nodeState' \in [Nodes -> NodeStates]
          /\ vmName' \in [Nodes -> VmNames \cup {NoName}]
          /\ highAge' \in [Nodes -> Ages]
          /\ numActiveVm' \in Int
      BY <1>0, <3>1 DEF NodeStates
    <3> QED
      BY <3>2, <3>3, <3>4
  <2> QED
    BY <2>2, <2>3
<1>4. CASE \E vm \in VmNames, call \in Calls : cosUp /\ NotifyHighCpuUsage(vm, call)
  <2>1. PICK vm \in VmNames, call \in Calls : NotifyHighCpuUsage(vm, call)
    BY <1>4
  <2>2. nodeState' \in [Nodes -> NodeStates]
    BY <2>1, NotifyHighEffect DEF NodeStates
  <2> QED
    BY <2>1, <2>2, NotifyHighEffect
<1>5. CASE \E vm \in VmNames, call \in Calls : cosUp /\ NotifyLowCpuUsage(vm, call)
  BY <1>0, <1>5 DEF NotifyLowCpuUsage, NodeStates
<1>6. CASE CosTick
  <2>1. \A n \in Nodes : highAge[n] \in 0 .. CheckTime => highAge[n] + 1 \in Ages
    BY CheckTimeAssumption DEF Ages, NoNotice
  <2> QED
    BY <1>6, <2>1 DEF CosTick
<1>7. CASE CosStop
  <2>1. addrOk' \in [Nodes -> BOOLEAN] /\ cosUp' \in BOOLEAN /\ cosAddrOk' \in BOOLEAN
    BY <1>7, BootMemory, Zenon DEF CosStop
  <2>2. /\ nodeState' \in [Nodes -> NodeStates]
        /\ vmName' \in [Nodes -> VmNames \cup {NoName}]
        /\ highAge' \in [Nodes -> Ages]
        /\ numActiveVm' \in Int
    BY <1>7, BootMemory DEF CosStop
  <2> QED
    BY <2>1, <2>2
<1>8. CASE UNCHANGED cosVars
  BY <1>8 DEF cosVars
<1> QED
  BY <1>1, <1>2, <1>3, <1>4, <1>5, <1>6, <1>7, <1>8, CosCases

\* A process that has not started satisfies CosTypes.
LEMMA CosTypesInit == ASSUME CosInit PROVE CosTypes
<1>1. addrOk \in [Nodes -> BOOLEAN] /\ cosUp \in BOOLEAN /\ cosAddrOk \in BOOLEAN
  BY BootMemory, Zenon DEF CosInit
<1>2. /\ nodeState \in [Nodes -> NodeStates]
      /\ vmName \in [Nodes -> VmNames \cup {NoName}]
      /\ highAge \in [Nodes -> Ages]
      /\ numActiveVm \in Int
  BY BootMemory DEF CosInit
<1> QED
  BY <1>1, <1>2 DEF CosTypes

-----------------------------------------------------------------------------
(* The parts of the invariant, one lemma each *)

\* At most one Node is in creation: only the check before a request can add one,
\* and it passes only when there is none.
LEMMA AtMostOneCreationStep ==
    ASSUME CosTypes, AtMostOneCreation, [CosNext]_cosVars
    PROVE  AtMostOneCreation'
<1> USE DEF AtMostOneCreation, CosTypes
<1>1. CASE \E call \in Calls : CosStart(call)
  BY <1>1 DEF CosStart
<1>2. CASE \E vm \in VmNames, r \in {0, -1} : cosUp /\ CreateVmResp(vm, r)
  BY <1>2 DEF CreateVmResp
<1>3. CASE \E vm \in VmNames, r \in {0, -1} : cosUp /\ DestroyVmResp(vm, r)
  BY <1>3 DEF DestroyVmResp
<1>4. CASE \E vm \in VmNames, call \in Calls : cosUp /\ NotifyHighCpuUsage(vm, call)
  BY <1>4, NotifyHighEffect
<1>5. CASE \E vm \in VmNames, call \in Calls : cosUp /\ NotifyLowCpuUsage(vm, call)
  BY <1>5 DEF NotifyLowCpuUsage
<1>6. CASE CosTick
  BY <1>6 DEF CosTick
<1>7. CASE CosStop
  BY <1>7 DEF CosStop
<1>8. CASE UNCHANGED cosVars
  BY <1>8 DEF cosVars
<1> QED
  BY <1>1, <1>2, <1>3, <1>4, <1>5, <1>6, <1>7, <1>8, CosCases

\* Erased records stay erased and unused: a request is only sent to a Node with
\* an address, and an answer only reaches a Node in creation or with a name.
LEMMA ErasedNodesStep ==
    ASSUME CosTypes, ErasedNodesStayUnused, [CosNext]_cosVars
    PROVE  ErasedNodesStayUnused'
<1> USE DEF ErasedNodesStayUnused, CosTypes
<1>0. \A n \in Nodes : n \in Int
  BY NumNodesAssumption DEF Nodes
<1>e. \A n \in Nodes : ~addrOk[n] =>
         nodeState[n] = "NULL" /\ vmName[n] = NoName /\ highAge[n] = NoNotice
  BY <1>0
<1>1. CASE \E call \in Calls : CosStart(call)
  BY <1>1 DEF CosStart
<1>2. CASE \E vm \in VmNames, r \in {0, -1} : cosUp /\ CreateVmResp(vm, r)
  <2>1. PICK vm \in VmNames, r \in {0, -1}, n \in Nodes :
           /\ nodeState[n] = "IN_VM_CREATION"
           /\ \A k \in Nodes \ {n} : nodeState'[k] = nodeState[k] /\ vmName'[k] = vmName[k]
           /\ UNCHANGED <<addrOk, highAge>>
    BY <1>2 DEF CreateVmResp, FindNodeByState, IsFirst
  <2>2. addrOk[n]
    BY <2>1, <1>e
  <2> QED
    BY <2>1, <2>2
<1>3. CASE \E vm \in VmNames, r \in {0, -1} : cosUp /\ DestroyVmResp(vm, r)
  <2>1. PICK vm \in VmNames, r \in {0, -1}, n \in Nodes :
           /\ FindNodeByVmName(n, vm)
           /\ IF r < 0
              THEN /\ nodeState' = [nodeState EXCEPT ![n] = "NULL"]
                   /\ UNCHANGED <<addrOk, vmName, highAge>>
              ELSE /\ nodeState' = [k \in Nodes |-> IF k >= n THEN "NULL" ELSE nodeState[k]]
                   /\ addrOk' = [k \in Nodes |-> k < n /\ addrOk[k]]
                   /\ vmName' = [k \in Nodes |-> IF k >= n THEN NoName ELSE vmName[k]]
                   /\ highAge' = [k \in Nodes |-> IF k >= n THEN NoNotice ELSE highAge[k]]
    BY <1>3 DEF DestroyVmResp
  <2>2. CASE r = -1
    BY <2>1, <2>2
  <2>3. CASE r = 0
    BY <1>0, <2>1, <2>3
  <2> QED
    BY <2>2, <2>3
<1>4. CASE \E vm \in VmNames, call \in Calls : cosUp /\ NotifyHighCpuUsage(vm, call)
  <2>1. PICK vm \in VmNames, call \in Calls : NotifyHighCpuUsage(vm, call)
    BY <1>4
  <2>2. /\ UNCHANGED <<addrOk, vmName>>
        /\ \A k \in Nodes : nodeState[k] # "VM_ACTIVE" => highAge'[k] \in {highAge[k], NoNotice}
        /\ \/ UNCHANGED nodeState
           \/ \E n \in Nodes : addrOk[n] /\ nodeState' = [nodeState EXCEPT ![n] = "IN_VM_CREATION"]
    BY <2>1, NotifyHighEffect
  <2>3. \A k \in Nodes : ~addrOk[k] => highAge'[k] = NoNotice /\ nodeState'[k] = "NULL"
    BY <1>e, <2>2
  <2> QED
    BY <2>2, <2>3
<1>5. CASE \E vm \in VmNames, call \in Calls : cosUp /\ NotifyLowCpuUsage(vm, call)
  <2>1. PICK n \in Nodes :
           /\ nodeState[n] = "VM_ACTIVE"
           /\ highAge' = [highAge EXCEPT ![n] = NoNotice]
           /\ nodeState' \in {nodeState, [nodeState EXCEPT ![n] = "IN_VM_DESTRUCTION"]}
           /\ UNCHANGED <<addrOk, vmName>>
    BY <1>5 DEF NotifyLowCpuUsage, FoundActive
  <2>2. addrOk[n]
    BY <2>1, <1>e
  <2>3. \A k \in Nodes : ~addrOk[k] => highAge'[k] = NoNotice /\ nodeState'[k] = "NULL"
    BY <1>e, <2>1, <2>2
  <2> QED
    BY <2>1, <2>3
<1>6. CASE CosTick
  BY <1>6 DEF CosTick, NoNotice
<1>7. CASE CosStop
  BY <1>7 DEF CosStop
<1>8. CASE UNCHANGED cosVars
  BY <1>8 DEF cosVars
<1> QED
  BY <1>1, <1>2, <1>3, <1>4, <1>5, <1>6, <1>7, <1>8, CosCases

\* The counter stays within the number of Nodes: it is below it whenever a
\* request is sent, and only the answer to that one request raises it.
LEMMA CounterRoomStep ==
    ASSUME CosTypes, AtMostOneCreation, CounterWithinNodes, CreationLeavesRoom,
           [CosNext]_cosVars
    PROVE  CounterWithinNodes' /\ CreationLeavesRoom'
<1> USE NumNodesAssumption DEF CounterWithinNodes, CreationLeavesRoom, CosTypes
<1>1. CASE \E call \in Calls : CosStart(call)
  BY <1>1 DEF CosStart
<1>2. CASE \E vm \in VmNames, r \in {0, -1} : cosUp /\ CreateVmResp(vm, r)
  <2>1. PICK r \in {0, -1}, n \in Nodes :
           /\ nodeState[n] = "IN_VM_CREATION"
           /\ nodeState'[n] # "IN_VM_CREATION"
           /\ \A k \in Nodes \ {n} : nodeState'[k] = nodeState[k]
           /\ numActiveVm' = numActiveVm \/ numActiveVm' = numActiveVm + 1
    BY <1>2 DEF CreateVmResp, FindNodeByState, IsFirst
  <2>2. \A k \in Nodes : nodeState'[k] # "IN_VM_CREATION"
    BY <2>1 DEF AtMostOneCreation
  <2> QED
    BY <2>1, <2>2
<1>3. CASE \E vm \in VmNames, r \in {0, -1} : cosUp /\ DestroyVmResp(vm, r)
  <2>1. PICK n \in Nodes :
           /\ \A k \in Nodes : nodeState'[k] \in {nodeState[k], "NULL"}
           /\ numActiveVm' = numActiveVm \/ numActiveVm' = numActiveVm - 1 \/ numActiveVm' = -1
    BY <1>3 DEF DestroyVmResp
  <2> QED
    BY <2>1
<1>4. CASE \E vm \in VmNames, call \in Calls : cosUp /\ NotifyHighCpuUsage(vm, call)
  <2>1. numActiveVm' = numActiveVm /\ numActiveVm # NumNodes
    BY <1>4, NotifyHighEffect
  <2> QED
    BY <2>1
<1>5. CASE \E vm \in VmNames, call \in Calls : cosUp /\ NotifyLowCpuUsage(vm, call)
  BY <1>5 DEF NotifyLowCpuUsage
<1>6. CASE CosTick
  BY <1>6 DEF CosTick
<1>7. CASE CosStop
  BY <1>7 DEF CosStop
<1>8. CASE UNCHANGED cosVars
  BY <1>8 DEF cosVars
<1> QED
  BY <1>1, <1>2, <1>3, <1>4, <1>5, <1>6, <1>7, <1>8, CosCases

\* The table is finite, with NumNodes entries.
LEMMA NodesFinite ==
    /\ IsFiniteSet(Nodes)
    /\ Cardinality(Nodes) = NumNodes
    /\ \A S \in SUBSET Nodes : IsFiniteSet(S) /\ Cardinality(S) \in Nat
<1>1. IsFiniteSet(Nodes) /\ Cardinality(Nodes) = NumNodes
  BY NumNodesAssumption, FS_Interval DEF Nodes
<1>2. \A S \in SUBSET Nodes : IsFiniteSet(S)
  BY <1>1, FS_Subset
<1> QED
  BY <1>1, <1>2, FS_CardinalityType

\* While no record is erased, a Node that gets a VM raises the counter with it
\* (cos_main.c:391-392), and one that loses it lowers the counter at most once.
LEMMA CounterCoversStep ==
    ASSUME CosTypes, AtMostOneCreation, CounterCoversVms, [CosNext]_cosVars
    PROVE  CounterCoversVms'
<1> USE DEF CosTypes
<1>u. ASSUME UNCHANGED <<addrOk, numActiveVm>>, Occupied' = Occupied
      PROVE  CounterCoversVms'
  BY <1>u DEF CounterCoversVms
<1>v. ASSUME \E n \in Nodes : ~addrOk'[n]
      PROVE  CounterCoversVms'
  BY <1>v DEF CounterCoversVms
<1>1. CASE \E call \in Calls : CosStart(call)
  <2>1. Occupied' = {}
    BY <1>1 DEF CosStart, Occupied
  <2> QED
    BY <1>1, <2>1, FS_EmptySet DEF CosStart, CounterCoversVms
<1>2. CASE \E vm \in VmNames, r \in {0, -1} : cosUp /\ CreateVmResp(vm, r)
  <2>1. PICK vm \in VmNames, r \in {0, -1}, n \in Nodes :
           /\ nodeState[n] = "IN_VM_CREATION"
           /\ UNCHANGED addrOk
           /\ IF r < 0
              THEN /\ nodeState' = [nodeState EXCEPT ![n] = "NULL"]
                   /\ UNCHANGED numActiveVm
              ELSE /\ nodeState' = [nodeState EXCEPT ![n] = "VM_ACTIVE"]
                   /\ numActiveVm' = numActiveVm + 1
    BY <1>2 DEF CreateVmResp, FindNodeByState, IsFirst
  <2>2. n \notin Occupied
    BY <2>1 DEF Occupied
  <2>3. CASE r = -1
    <3>1. Occupied' = Occupied
      BY <2>1, <2>3 DEF Occupied
    <3> QED
      BY <2>1, <2>3, <3>1, <1>u
  <2>4. CASE r = 0
    <3>1. Occupied' = Occupied \cup {n}
      BY <2>1, <2>4 DEF Occupied
    <3>2. IsFiniteSet(Occupied) /\ Cardinality(Occupied) \in Nat
      BY NodesFinite DEF Occupied
    <3>3. Cardinality(Occupied') = Cardinality(Occupied) + 1
      BY <2>2, <3>1, <3>2, FS_AddElement
    <3> QED
      BY <2>1, <2>4, <3>2, <3>3 DEF CounterCoversVms
  <2> QED
    BY <2>3, <2>4
<1>3. CASE \E vm \in VmNames, r \in {0, -1} : cosUp /\ DestroyVmResp(vm, r)
  <2>1. PICK vm \in VmNames, r \in {0, -1}, n \in Nodes :
           IF r < 0
           THEN /\ nodeState' = [nodeState EXCEPT ![n] = "NULL"]
                /\ UNCHANGED <<addrOk, numActiveVm>>
           ELSE addrOk' = [k \in Nodes |-> k < n /\ addrOk[k]]
    BY <1>3 DEF DestroyVmResp
  <2>2. CASE r = -1
    <3>1. Occupied' = Occupied \ {n}
      BY <2>1, <2>2 DEF Occupied
    <3>2. IsFiniteSet(Occupied) /\ Cardinality(Occupied) \in Nat
      BY NodesFinite DEF Occupied
    <3>3. Cardinality(Occupied') \in Nat /\ Cardinality(Occupied') <= Cardinality(Occupied)
      <4>1. Cardinality(Occupied') = IF n \in Occupied THEN Cardinality(Occupied) - 1
                                                       ELSE Cardinality(Occupied)
        BY <3>1, <3>2, FS_RemoveElement
      <4>2. Cardinality(Occupied') \in Nat
        BY NodesFinite DEF Occupied
      <4> QED
        BY <3>2, <4>1, <4>2
    <3> QED
      BY <2>1, <2>2, <3>2, <3>3 DEF CounterCoversVms
  <2>3. CASE r = 0
    <3>1. ~addrOk'[n]
      <4>1. ~(n < n)
        BY NumNodesAssumption DEF Nodes
      <4>2. addrOk' = [k \in Nodes |-> k < n /\ addrOk[k]]
        BY <2>1, <2>3
      <4> QED
        BY <4>1, <4>2
    <3> QED
      BY <3>1, <1>v
  <2> QED
    BY <2>2, <2>3
<1>4. CASE \E vm \in VmNames, call \in Calls : cosUp /\ NotifyHighCpuUsage(vm, call)
  <2>1. Occupied' = Occupied /\ UNCHANGED <<addrOk, numActiveVm>>
    BY <1>4, NotifyHighEffect DEF Occupied
  <2> QED
    BY <2>1, <1>u
<1>5. CASE \E vm \in VmNames, call \in Calls : cosUp /\ NotifyLowCpuUsage(vm, call)
  <2>1. Occupied' = Occupied /\ UNCHANGED <<addrOk, numActiveVm>>
    BY <1>5 DEF NotifyLowCpuUsage, FoundActive, Occupied
  <2> QED
    BY <2>1, <1>u
<1>6. CASE CosTick
  BY <1>6, <1>u DEF CosTick, Occupied
<1>7. CASE CosStop
  <2>1. ~addrOk'[0] /\ 0 \in Nodes
    BY <1>7, NumNodesAssumption DEF CosStop, Nodes
  <2> QED
    BY <2>1, <1>v
<1>8. CASE UNCHANGED cosVars
  BY <1>8, <1>u DEF cosVars, Occupied
<1> QED
  BY <1>1, <1>2, <1>3, <1>4, <1>5, <1>6, <1>7, <1>8, CosCases

\* The counter stays above the number of erased records, negated: a success lowers it
\* by one, or to -1, and erases at least the record it is for.
LEMMA CounterAboveStep ==
    ASSUME CosTypes, ErasedNodesStayUnused, CounterAboveErased, [CosNext]_cosVars
    PROVE  CounterAboveErased'
<1>0. NumNodes \in Nat \ {0} /\ \A n \in Nodes : n \in 0 .. NumNodes - 1
  BY NumNodesAssumption DEF Nodes
<1>i. numActiveVm \in Int
  BY DEF CosTypes
<1>u. ASSUME UNCHANGED addrOk, numActiveVm' \in Int, numActiveVm <= numActiveVm'
      PROVE  CounterAboveErased'
  BY <1>0, <1>i, <1>u DEF CounterAboveErased
<1>v. ASSUME numActiveVm' = 0 PROVE CounterAboveErased'
  BY <1>0, <1>v DEF CounterAboveErased
<1>1. CASE \E call \in Calls : CosStart(call)
  BY <1>1, <1>v DEF CosStart
<1>2. CASE \E vm \in VmNames, r \in {0, -1} : cosUp /\ CreateVmResp(vm, r)
  BY <1>2, <1>u, <1>i DEF CreateVmResp
<1>3. CASE \E vm \in VmNames, r \in {0, -1} : cosUp /\ DestroyVmResp(vm, r)
  <2>1. PICK vm \in VmNames, r \in {0, -1}, n \in Nodes :
           /\ vmName[n] = vm
           /\ IF r < 0
              THEN UNCHANGED <<addrOk, numActiveVm>>
              ELSE /\ addrOk' = [k \in Nodes |-> k < n /\ addrOk[k]]
                   /\ numActiveVm' = numActiveVm - 1 \/ numActiveVm' = -1
    BY <1>3 DEF DestroyVmResp, FindNodeByVmName, IsFirst
  <2>2. CASE r = -1
    BY <1>i, <1>u, <2>1, <2>2
  <2>3. CASE r = 0
    <3>1. /\ addrOk' = [k \in Nodes |-> k < n /\ addrOk[k]]
          /\ numActiveVm' = numActiveVm - 1 \/ numActiveVm' = -1
      BY <2>1, <2>3
    <3>2. addrOk[n]
      <4>1. vmName[n] # NoName
        BY <2>1, NoNameAssumption
      <4>2. n <= n
        BY <1>0
      <4> QED
        BY <4>1, <4>2 DEF ErasedNodesStayUnused
    <3>3. n + 1 - NumNodes <= numActiveVm
      BY <3>2 DEF CounterAboveErased
    <3>4. n - NumNodes <= numActiveVm'
      BY <1>0, <1>i, <3>1, <3>3
    <3>5. numActiveVm' \in Int
      BY <1>i, <3>1
    <3>6. \A k \in Nodes : addrOk'[k] => k < n
      BY <3>1
    <3> QED
      BY <1>0, <3>4, <3>5, <3>6 DEF CounterAboveErased
  <2> QED
    BY <2>2, <2>3
<1>4. CASE \E vm \in VmNames, call \in Calls : cosUp /\ NotifyHighCpuUsage(vm, call)
  <2>1. UNCHANGED <<addrOk, numActiveVm>>
    BY <1>4 DEF NotifyHighCpuUsage
  <2> QED
    BY <1>i, <1>u, <2>1
<1>5. CASE \E vm \in VmNames, call \in Calls : cosUp /\ NotifyLowCpuUsage(vm, call)
  BY <1>5, <1>i, <1>u DEF NotifyLowCpuUsage
<1>6. CASE CosTick
  BY <1>6, <1>i, <1>u DEF CosTick
<1>7. CASE CosStop
  BY <1>7, <1>v DEF CosStop
<1>8. CASE UNCHANGED cosVars
  BY <1>8, <1>i, <1>u DEF cosVars
<1> QED
  BY <1>1, <1>2, <1>3, <1>4, <1>5, <1>6, <1>7, <1>8, CosCases

-----------------------------------------------------------------------------
(* The theorems *)

\* The inductive invariant holds in every reachable state of the manager.
THEOREM CosInvariant == CosSpec => []CosInv
<1>1. CosInit => CosInv
  <2> SUFFICES ASSUME CosInit PROVE CosInv
    OBVIOUS
  <2>1. CosTypes
    BY CosTypesInit
  <2>2. 0 \in Nodes /\ ~addrOk[0]
    BY NumNodesAssumption DEF CosInit, Nodes
  <2>3. AtMostOneCreation /\ ErasedNodesStayUnused /\ CreationLeavesRoom
    BY DEF CosInit, AtMostOneCreation, ErasedNodesStayUnused, CreationLeavesRoom
  <2>4. CounterWithinNodes
    BY NumNodesAssumption DEF CosInit, CounterWithinNodes
  <2>5. CounterCoversVms
    BY <2>2 DEF CounterCoversVms
  <2>6. CounterAboveErased
    BY NumNodesAssumption DEF CosInit, CounterAboveErased, Nodes
  <2> QED
    BY <2>1, <2>3, <2>4, <2>5, <2>6 DEF CosInv
<1>2. CosInv /\ [CosNext]_cosVars => CosInv'
  BY CosTypesStep, AtMostOneCreationStep, ErasedNodesStep, CounterRoomStep, CounterCoversStep,
     CounterAboveStep
     DEF CosInv
<1> QED
  BY <1>1, <1>2, PTL DEF CosSpec

\* The variables keep their types, and num_active_vm runs at most one below zero for
\* each Node, whatever answers arrive.
THEOREM TypeCorrect == CosSpec => []TypeOK
<1>1. CosInv => TypeOK
  BY DEF CosInv, CosTypes, CounterAboveErased, TypeOK
<1> QED
  BY <1>1, CosInvariant, PTL

\* create_vm_resp's choice of the first Node in creation is never ambiguous.
THEOREM OneCreation == CosSpec => []AtMostOneCreation
<1>1. CosInv => AtMostOneCreation
  BY DEF CosInv
<1> QED
  BY <1>1, CosInvariant, PTL

\* The records destroy_vm_resp erased are a tail of the table that is never used
\* again while the process runs.
THEOREM ErasedForGood == CosSpec => []ErasedNodesStayUnused
<1>1. CosInv => ErasedNodesStayUnused
  BY DEF CosInv
<1> QED
  BY <1>1, CosInvariant, PTL

\* num_active_vm never passes num_node, so main's test for equality is enough.
THEOREM CounterBounded == CosSpec => []CounterWithinNodes
<1>1. CosInv => CounterWithinNodes
  BY DEF CosInv
<1> QED
  BY <1>1, CosInvariant, PTL

\* num_active_vm covers every VM the table knows while no record is erased.
THEOREM CounterCovers == CosSpec => []CounterCoversVms
<1>1. CosInv => CounterCoversVms
  BY DEF CosInv
<1> QED
  BY <1>1, CosInvariant, PTL

\* When a high-CPU notice can lead to a request, a free Node exists.
THEOREM FreeNodeExists == CosSpec => []FreeNodeWhenAsked
<1>1. CosInv => FreeNodeWhenAsked
  <2> SUFFICES ASSUME CosInv, numActiveVm # NumNodes,
                      \A n \in Nodes : nodeState[n] # "IN_VM_CREATION",
                      \A n \in Nodes : nodeState[n] # "NULL"
               PROVE  FALSE
    BY DEF FreeNodeWhenAsked
  <2>1. \A n \in Nodes : addrOk[n]
    <3>1. \A n \in Nodes : n <= n
      BY NumNodesAssumption DEF Nodes
    <3> QED
      BY <3>1 DEF CosInv, ErasedNodesStayUnused
  <2>2. Occupied = Nodes
    BY DEF CosInv, CosTypes, NodeStates, Occupied
  <2>3. NumNodes <= numActiveVm
    BY <2>1, <2>2, NodesFinite DEF CosInv, CounterCoversVms
  <2> QED
    BY <2>3, NumNodesAssumption DEF CosInv, CounterWithinNodes, CosTypes
<1> QED
  BY <1>1, CosInvariant, PTL

\* A VM is asked for only when every active Node has a fresh notice and none is
\* being created.
THEOREM ScaleOutOnlyWhenAllHigh == CosSpec => ScaleOutJustified
<1>1. CosTypes /\ [CosNext]_cosVars => [ScaleOutStep]_cosVars
  <2> SUFFICES ASSUME CosTypes, [CosNext]_cosVars, cosUp,
                      NEW n \in Nodes, nodeState[n] = "NULL",
                      nodeState'[n] = "IN_VM_CREATION"
               PROVE  /\ \A k \in Nodes : nodeState[k] # "IN_VM_CREATION"
                      /\ Active # {}
                      /\ \A k \in Active : highAge'[k] \in 0 .. CheckTime
    BY DEF ScaleOutStep
  <2> USE DEF CosTypes
  <2>1. ~\E call \in Calls : CosStart(call)
    BY DEF CosStart
  <2>2. ~\E vm \in VmNames, r \in {0, -1} : cosUp /\ CreateVmResp(vm, r)
    BY DEF CreateVmResp, FindNodeByState, IsFirst
  <2>3. ~\E vm \in VmNames, r \in {0, -1} : cosUp /\ DestroyVmResp(vm, r)
    BY DEF DestroyVmResp
  <2>4. ~\E vm \in VmNames, call \in Calls : cosUp /\ NotifyLowCpuUsage(vm, call)
    BY DEF NotifyLowCpuUsage, FoundActive
  <2>5. ~CosTick /\ ~CosStop /\ ~UNCHANGED cosVars
    BY DEF CosTick, CosStop, cosVars
  <2>6. \E vm \in VmNames, call \in Calls : cosUp /\ NotifyHighCpuUsage(vm, call)
    BY <2>1, <2>2, <2>3, <2>4, <2>5, CosCases
  <2> QED
    BY <2>6, NotifyHighEffect
<1>2. CosInv => CosTypes
  BY DEF CosInv
<1> QED
  BY <1>1, <1>2, CosInvariant, PTL DEF CosSpec, ScaleOutJustified

-----------------------------------------------------------------------------
(* The refinement *)

\* What a Node is to Placement follows from its record; only a Node with an
\* address is ever marked.
LEMMA LifeOf ==
    ASSUME CosTypes, ErasedNodesStayUnused, NEW n \in Nodes
    PROVE  /\ lives[n] = "DEAD" <=> ~addrOk[n]
           /\ lives[n] = "FREE" <=> addrOk[n] /\ nodeState[n] = "NULL"
           /\ lives[n] = "COMING" <=> nodeState[n] = "IN_VM_CREATION"
           /\ lives[n] = "HERE" <=> nodeState[n] = "VM_ACTIVE"
           /\ lives[n] = "LEAVING" <=> nodeState[n] = "IN_VM_DESTRUCTION"
<1>1. n <= n
  BY NumNodesAssumption DEF Nodes
<1>2. ~addrOk[n] => nodeState[n] = "NULL"
  BY <1>1 DEF ErasedNodesStayUnused
<1>3. nodeState[n] \in NodeStates /\ lives[n] = Life(n)
  BY DEF CosTypes, lives
<1> QED
  BY <1>2, <1>3 DEF Life, LifeIn, NodeStates

\* A step that changes the state of one Node with an address, and no address,
\* changes one life.
LEMMA OneLifeChanges ==
    ASSUME CosTypes, NEW n \in Nodes, addrOk[n], UNCHANGED addrOk, NEW st \in NodeStates,
           nodeState' = [nodeState EXCEPT ![n] = st]
    PROVE  lives' = [lives EXCEPT ![n] = LifeIn[st]]
<1>1. \A k \in Nodes \ {n} : nodeState'[k] = nodeState[k]
  BY DEF CosTypes
<1>2. nodeState'[n] = st
  BY DEF CosTypes
<1>3. \A k \in Nodes \ {n} : lives'[k] = lives[k]
  BY <1>1 DEF lives, Life
<1>4. lives'[n] = LifeIn[st]
  BY <1>2 DEF lives, Life
<1> QED
  BY <1>3, <1>4 DEF lives

\* A process that does not run has no table.
NoTableWhenDown == ~cosUp => \A n \in Nodes : ~addrOk[n]

\* Every step of the manager is a step of Placement or leaves every life alone.
LEMMA PlacementStep ==
    ASSUME CosTypes, AtMostOneCreation, ErasedNodesStayUnused, NoTableWhenDown,
           [CosNext]_cosVars
    PROVE  Abstract!PlacementNext \/ lives' = lives
<1>0. \A n \in Nodes : n \in Int /\ 0 <= n
  BY NumNodesAssumption DEF Nodes
<1>n. /\ nodeState \in [Nodes -> NodeStates]
      /\ NodeStates = {"NULL", "IN_VM_CREATION", "IN_VM_DESTRUCTION", "VM_ACTIVE"}
  BY DEF CosTypes, NodeStates
<1>e. \A n \in Nodes : ~addrOk[n] => nodeState[n] = "NULL" /\ vmName[n] = NoName
  BY <1>0 DEF ErasedNodesStayUnused
<1>s. /\ LifeIn["NULL"] = "FREE" /\ LifeIn["IN_VM_CREATION"] = "COMING"
      /\ LifeIn["VM_ACTIVE"] = "HERE" /\ LifeIn["IN_VM_DESTRUCTION"] = "LEAVING"
  BY DEF LifeIn
<1>u. ASSUME UNCHANGED <<addrOk, nodeState>> PROVE lives' = lives
  BY <1>u DEF lives, Life
<1>1. CASE \E call \in Calls : CosStart(call)
  <2>1. PICK call \in Calls : CosStart(call)
    BY <1>1
  <2>2. \A n \in Nodes : lives[n] = "DEAD"
    BY <2>1, LifeOf DEF CosStart, NoTableWhenDown
  <2>3. lives' = [n \in Nodes |-> IF n = 0 /\ call.ok THEN "COMING" ELSE "FREE"]
    BY <2>1, <1>s DEF CosStart, lives, Life
  <2>4. \E first \in {"FREE", "COMING"} :
           lives' = [n \in Nodes |-> IF n = 0 THEN first ELSE "FREE"]
    BY <2>3
  <2> QED
    BY <2>2, <2>4 DEF Abstract!Start, Abstract!PlacementNext, Abstract!Nodes, Nodes
<1>2. CASE \E vm \in VmNames, r \in {0, -1} : cosUp /\ CreateVmResp(vm, r)
  <2>1. PICK n \in Nodes, st \in {"NULL", "VM_ACTIVE"} :
           /\ nodeState[n] = "IN_VM_CREATION"
           /\ nodeState' = [nodeState EXCEPT ![n] = st]
           /\ UNCHANGED addrOk
    BY <1>2 DEF CreateVmResp, FindNodeByState, IsFirst
  <2>2. lives[n] = "COMING" /\ addrOk[n]
    BY <2>1, <1>e, LifeOf
  <2>3. lives' = [lives EXCEPT ![n] = LifeIn[st]]
    BY <2>1, <2>2, <1>n, OneLifeChanges
  <2>4. Abstract!Answer(n)
    BY <2>2, <2>3, <1>s DEF Abstract!Answer
  <2> QED
    BY <2>4 DEF Abstract!PlacementNext, Abstract!Nodes, Nodes
<1>3. CASE \E vm \in VmNames, r \in {0, -1} : cosUp /\ DestroyVmResp(vm, r)
  <2>1. PICK vm \in VmNames, r \in {0, -1}, n \in Nodes :
           /\ FindNodeByVmName(n, vm)
           /\ IF r < 0
              THEN nodeState' = [nodeState EXCEPT ![n] = "NULL"] /\ UNCHANGED addrOk
              ELSE /\ nodeState' = [k \in Nodes |-> IF k >= n THEN "NULL" ELSE nodeState[k]]
                   /\ addrOk' = [k \in Nodes |-> k < n /\ addrOk[k]]
    BY <1>3 DEF DestroyVmResp
  <2>2. addrOk[n]
    BY <2>1, <1>e, NoNameAssumption DEF FindNodeByVmName, IsFirst
  <2>3. lives[n] # "DEAD"
    BY <2>2, LifeOf
  <2>4. CASE r = -1
    <3>1. lives' = [lives EXCEPT ![n] = "FREE"]
      BY <2>1, <2>2, <2>4, <1>n, <1>s, OneLifeChanges
    <3>2. Abstract!Abandon(n)
      BY <2>3, <3>1 DEF Abstract!Abandon
    <3> QED
      BY <3>2 DEF Abstract!PlacementNext, Abstract!Nodes, Nodes
  <2>5. CASE r = 0
    <3>1. /\ nodeState' = [k \in Nodes |-> IF k >= n THEN "NULL" ELSE nodeState[k]]
          /\ addrOk' = [k \in Nodes |-> k < n /\ addrOk[k]]
      BY <2>1, <2>5
    <3>2. \A k \in Nodes : addrOk'[k] <=> k < n /\ addrOk[k]
      BY <3>1, Zenon
    <3>3. /\ \A k \in Nodes : k >= n => ~addrOk'[k]
          /\ \A k \in Nodes : ~(k >= n) => (addrOk'[k] <=> addrOk[k])
          /\ \A k \in Nodes : ~(k >= n) => nodeState'[k] = nodeState[k]
      BY <1>0, <3>1, <3>2
    <3>4. /\ \A k \in Nodes : k >= n => lives'[k] = "DEAD"
          /\ \A k \in Nodes : ~(k >= n) => lives'[k] = lives[k]
      BY <3>3 DEF lives, Life
    <3>5. lives' = [k \in Nodes |-> IF k >= n THEN "DEAD" ELSE lives[k]]
      BY <3>4 DEF lives
    <3>6. Abstract!Erase(n)
      BY <2>3, <3>5 DEF Abstract!Erase, Abstract!Nodes, Nodes
    <3> QED
      BY <3>6 DEF Abstract!PlacementNext, Abstract!Nodes, Nodes
  <2> QED
    BY <2>4, <2>5
<1>4. CASE \E vm \in VmNames, call \in Calls : cosUp /\ NotifyHighCpuUsage(vm, call)
  <2>1. UNCHANGED addrOk
    BY <1>4, NotifyHighEffect
  <2>2. CASE UNCHANGED nodeState
    BY <2>1, <2>2, <1>u
  <2>3. CASE /\ Active # {}
             /\ \A k \in Nodes : nodeState[k] # "IN_VM_CREATION"
             /\ \E n \in Nodes : /\ nodeState[n] = "NULL" /\ addrOk[n]
                                 /\ \A k \in Nodes : nodeState[k] = "NULL" => n <= k
                                 /\ nodeState' = [nodeState EXCEPT ![n] = "IN_VM_CREATION"]
    <3>1. PICK n \in Nodes : /\ nodeState[n] = "NULL" /\ addrOk[n]
                             /\ \A k \in Nodes : nodeState[k] = "NULL" => n <= k
                             /\ nodeState' = [nodeState EXCEPT ![n] = "IN_VM_CREATION"]
      BY <2>3
    <3>2. lives[n] = "FREE" /\ \A k \in Nodes : k < n => lives[k] # "FREE"
      BY <1>0, <3>1, LifeOf
    <3>3. \A k \in Nodes : lives[k] # "COMING"
      BY <2>3, LifeOf
    <3>4. \E k \in Nodes : lives[k] = "HERE"
      BY <2>3, LifeOf DEF Active
    <3>5. lives' = [lives EXCEPT ![n] = "COMING"]
      BY <2>1, <3>1, <1>n, <1>s, OneLifeChanges
    <3>6. Abstract!Request(n)
      BY <3>2, <3>3, <3>4, <3>5 DEF Abstract!Request, Abstract!Nodes, Nodes
    <3> QED
      BY <3>6 DEF Abstract!PlacementNext, Abstract!Nodes, Nodes
  <2> QED
    BY <1>4, <2>2, <2>3, NotifyHighEffect
<1>5. CASE \E vm \in VmNames, call \in Calls : cosUp /\ NotifyLowCpuUsage(vm, call)
  <2>1. PICK n \in Nodes :
           /\ nodeState[n] = "VM_ACTIVE"
           /\ nodeState' \in {nodeState, [nodeState EXCEPT ![n] = "IN_VM_DESTRUCTION"]}
           /\ UNCHANGED addrOk
    BY <1>5 DEF NotifyLowCpuUsage, FoundActive
  <2>2. lives[n] = "HERE" /\ addrOk[n]
    BY <2>1, <1>e, LifeOf
  <2>3. CASE nodeState' = nodeState
    BY <2>1, <2>3, <1>u
  <2>4. CASE nodeState' = [nodeState EXCEPT ![n] = "IN_VM_DESTRUCTION"]
    <3>1. lives' = [lives EXCEPT ![n] = "LEAVING"]
      BY <2>1, <2>2, <2>4, <1>n, <1>s, OneLifeChanges
    <3>2. Abstract!Retire(n)
      BY <2>2, <3>1 DEF Abstract!Retire
    <3> QED
      BY <3>2 DEF Abstract!PlacementNext, Abstract!Nodes, Nodes
  <2> QED
    BY <2>1, <2>3, <2>4
<1>6. CASE CosTick
  BY <1>6, <1>u DEF CosTick
<1>7. CASE CosStop
  <2>1. lives' = [n \in Nodes |-> "DEAD"]
    BY <1>7 DEF CosStop, lives, Life
  <2> QED
    BY <2>1 DEF Abstract!Stop, Abstract!PlacementNext, Abstract!Nodes, Nodes
<1>8. CASE UNCHANGED cosVars
  BY <1>8, <1>u DEF cosVars
<1> QED
  BY <1>1, <1>2, <1>3, <1>4, <1>5, <1>6, <1>7, <1>8, CosCases

\* The table is there only while the process runs (cos_main.c:118-140).
LEMMA TableWhileUp == CosSpec => []NoTableWhenDown
<1> USE DEF NoTableWhenDown
<1>1. CosInit => NoTableWhenDown
  BY DEF CosInit
<1>2. NoTableWhenDown /\ [CosNext]_cosVars => NoTableWhenDown'
  BY CosCases DEF CosStart, CreateVmResp, DestroyVmResp, NotifyHighCpuUsage,
                  NotifyLowCpuUsage, CosTick, CosStop, cosVars
<1> QED
  BY <1>1, <1>2, PTL DEF CosSpec

\* The manager implements Placement, whatever messages arrive: Nodes are filled in
\* the order of the list, one request at a time, and an erased Node stays dead until
\* the manager is started again.
THEOREM RefinesPlacement == CosSpec => ImplementsPlacement
<1>1. CosInit => Abstract!PlacementInit
  <2> SUFFICES ASSUME CosInit PROVE lives = [n \in Nodes |-> "DEAD"]
    BY DEF Abstract!PlacementInit, Abstract!Nodes, Nodes
  <2> QED
    BY DEF CosInit, lives, Life
<1>2. CosInv /\ NoTableWhenDown /\ [CosNext]_cosVars => [Abstract!PlacementNext]_lives
  BY PlacementStep DEF CosInv
<1> QED
  BY <1>1, <1>2, CosInvariant, TableWhileUp, PTL
     DEF CosSpec, ImplementsPlacement, Abstract!PlacementSpec

\* As long as nodelist.txt holds no more Nodes than a peer array has entries, the peer list
\* that collect_active_theaters writes for a request (cos_main.c:169-199) ends in NULL: the
\* Node a VM is asked for is not active itself.  With one Node more it need not: run "peers".
THEOREM ShortPeerListsEnd ==
    ASSUME NumNodes <= MaxTheaters
    PROVE  CosSpec => PeersTerminated
<1>1. PeersStep
  <2> SUFFICES ASSUME NEW n \in Nodes, nodeState[n] = "NULL"
               PROVE  Cardinality(Active) < MaxTheaters
    BY DEF PeersStep
  <2>1. Active \subseteq Nodes \ {n}
    BY DEF Active
  <2>2. IsFiniteSet(Nodes \ {n}) /\ Cardinality(Nodes \ {n}) = NumNodes - 1
    BY NodesFinite, FS_RemoveElement
  <2>3. Cardinality(Active) \in Nat /\ Cardinality(Active) <= NumNodes - 1
    BY <2>1, <2>2, FS_Subset, FS_CardinalityType
  <2> QED
    BY <2>3, NumNodesAssumption, MaxTheatersAssumption
<1> QED
  BY <1>1, PTL DEF PeersTerminated

=============================================================================
