----------------------------- MODULE BootProofs -----------------------------
(***************************************************************************)
(* The proof that the COS manager lists no VM that did not boot, for every *)
(* number of Nodes and whatever processes end, are started again or cannot *)
(* connect.  Nobody looks at the exit status of `xm create'                *)
(* (node_main.c:159); what stands in for it is that a success is only told *)
(* on the word of the VmMonitor inside the VM, and this chain of messages  *)
(* is what the invariant follows.                                          *)
(***************************************************************************)
EXTENDS CloudProofs

\* The VM of Node n has come up once; a domain that did is never shut down.
Booted(n) == guest[n] \in {"RUNNING", "NO_MONITOR"}

\* A start notice at Node n is from n's VM, and a creation request is for it.
NodeMessageOf(n) ==
    {m \in NodeMessage : /\ m.type = "CREATE_VM_REQ" => m.vm = n
                         /\ m.type = "NOTIFY_VM_STARTED" => Booted(n)}

\* A success at the manager is that of a VM that came up.
CosMessageTrue ==
    {m \in CosMessage :
        m.type = "CREATE_VM_RESP" /\ m.result = 0 /\ m.vm \in Nodes => Booted(m.vm)}

NewsIsTrue ==
    /\ cosInbox \in Seq(CosMessageTrue)
    /\ \A n \in Nodes : nodeInbox[n] \in Seq(NodeMessageOf(n))

\* A NodeManager knows its Node's VM and no other.
OwnVm == \A n \in Nodes : nodeVm[n] \in {n, NoName}

ListedBooted == \A n \in Nodes : vmName[n] \in Nodes => Booted(vmName[n])

\* The inductive invariant.
BootInv == CloudInv /\ NewsIsTrue /\ OwnVm /\ ListedBooted

-----------------------------------------------------------------------------
(* What a step does to a VM that booted, and to what was said of it *)

\* A VM that has booted stays so: no step goes back on it.
LEMMA StaysBooted ==
    ASSUME CloudInv, [CloudNext]_cloudVars, NEW v \in Nodes, Booted(v)
    PROVE  Booted(v)'
<1> USE DEF CloudInv, MonitorsOK, Booted
<1>1. CASE CosBoot \/ CosServe \/ CosRefuses \/ CosClock \/ CosEnds
  BY <1>1 DEF CosBoot, CosServe, CosRefuses, CosClock, CosEnds, Unmanaged, monVars
<1>2. ASSUME NEW n \in Nodes, NodeServe(n) PROVE Booted(v)'
  BY <1>2 DEF NodeServe, NodeReceive, CreateVm, DestroyVm, VmStarted, CpuNotice,
              TheaterShutDown, Unparsed, NodeCrash, monVars
<1>3. ASSUME NEW n \in Nodes, MonBoot(n) \/ MonRestarts(n) PROVE Booted(v)'
  BY <1>3 DEF MonBoot, MonRestarts, MonStart
<1>4. ASSUME NEW n \in Nodes, MonServe(n) \/ MonIdle(n) \/ LowTool(n) PROVE Booted(v)'
  BY <1>4 DEF MonServe, MonReceive, MonIdle, MonSample, LowTool, LowCpuTool, monVars
<1>5. ASSUME NEW n \in Nodes, MonEnds(n) \/ NoBoot(n) PROVE Booted(v)'
  BY <1>5 DEF MonEnds, MonStop, NoBoot
<1>6. ASSUME NEW n \in Nodes, NodeEnds(n) \/ NodeRestarts(n) PROVE Booted(v)'
  BY <1>6 DEF NodeEnds, NodeCrash, NodeRestarts, NodeStart, monVars
<1>7. CASE UNCHANGED cloudVars
  BY <1>7 DEF cloudVars, monVars
<1> QED
  BY <1>1, <1>2, <1>3, <1>4, <1>5, <1>6, <1>7 DEF CloudNext

\* What was true when it was said stays true.
LEMMA NewsStaysTrue ==
    ASSUME BootInv, [CloudNext]_cloudVars
    PROVE  /\ CosMessageTrue \subseteq CosMessageTrue'
           /\ cosInbox \in Seq(CosMessageTrue')
           /\ \A n \in Nodes : /\ NodeMessageOf(n) \subseteq NodeMessageOf(n)'
                               /\ nodeInbox[n] \in Seq(NodeMessageOf(n)')
<1>1. \A v \in Nodes : Booted(v) => Booted(v)'
  BY StaysBooted DEF BootInv
<1>2. CosMessageTrue \subseteq CosMessageTrue'
  BY <1>1 DEF CosMessageTrue
<1>3. \A n \in Nodes : NodeMessageOf(n) \subseteq NodeMessageOf(n)'
  BY <1>1 DEF NodeMessageOf
<1>4. cosInbox \in Seq(CosMessageTrue')
  BY <1>2, SeqMonotonic DEF BootInv, NewsIsTrue
<1>5. \A n \in Nodes : nodeInbox[n] \in Seq(NodeMessageOf(n)')
  BY <1>3, SeqMonotonic DEF BootInv, NewsIsTrue
<1> QED
  BY <1>2, <1>3, <1>4, <1>5

\* A queue of messages of one kind stays one when a message of the kind is sent.
LEMMA SentKeeps ==
    ASSUME NEW S, NEW q \in Seq(S), NEW m \in S, NEW ok
    PROVE  Sent(q, m, ok) \in Seq(S)
BY DEF Sent

\* What a VmMonitor tells its NodeManager is true once it runs.
LEMMA ToNodeIsTrue ==
    ASSUME CloudInv, NEW n \in Nodes, NEW listening,
           \A k \in Nodes : nodeInbox[k] \in Seq(NodeMessageOf(k)'),
           NEW type \in {"NOTIFY_VM_STARTED", "NOTIFY_HIGH_CPU_USAGE",
                         "NOTIFY_LOW_CPU_USAGE", "SHUTDOWN_THEATER_RESP"},
           type = "NOTIFY_VM_STARTED" => Booted(n)',
           ToNode(n, type, listening)
    PROVE  \A k \in Nodes : nodeInbox'[k] \in Seq(NodeMessageOf(k)')
<1>1. PICK ok : nodeInbox' = [nodeInbox EXCEPT ![n] = Sent(nodeInbox[n], NodeNotice(type), ok)]
  BY DEF ToNode
<1>2. NodeNotice(type) \in NodeMessageOf(n)'
  BY DEF NodeNotice, NodeMessageOf, NodeMessage
<1>3. Sent(nodeInbox[n], NodeNotice(type), ok) \in Seq(NodeMessageOf(n)')
  BY <1>2, SentKeeps
<1> QED
  BY <1>1, <1>3 DEF CloudInv, QueuesOK

\* The same of what a NodeManager sends to the manager.
LEMMA ToCosIsTrue ==
    ASSUME NEW S, cosInbox \in Seq(S), NEW m \in S, NEW n, NEW listening,
           ToCos(n, m, listening)
    PROVE  cosInbox' \in Seq(S)
<1>1. PICK ok : cosInbox' = Sent(cosInbox, m, ok)
  BY DEF ToCos
<1> QED
  BY <1>1, SentKeeps

\* Whatever is no success may be told of any VM.
LEMMA OtherNewsIsTrue ==
    ASSUME NEW vm \in VmNames, NEW r \in {0, -1}
    PROVE  /\ CosResp("CREATE_VM_RESP", vm, -1) \in CosMessageTrue'
           /\ CosResp("DESTROY_VM_RESP", vm, r) \in CosMessageTrue'
           /\ CosNotice("NOTIFY_HIGH_CPU_USAGE", vm) \in CosMessageTrue'
           /\ CosNotice("NOTIFY_LOW_CPU_USAGE", vm) \in CosMessageTrue'
BY DEF CosResp, CosNotice, CosMessage, CosMessageTrue

-----------------------------------------------------------------------------
(* The steps *)

\* The manager lists a VM under a name only on the news of a success.
LEMMA CosReceiveListsBooted ==
    ASSUME CloudInv, ListedBooted, NEW m \in CosMessageTrue, NEW call,
           CosReceive(m, call), UNCHANGED guest
    PROVE  ListedBooted'
<1>1. \A n \in Nodes : vmName[n] \in VmNames \cup {NoName}
  BY DEF CloudInv, CosTypes
<1>2. NoName \notin Nodes
  BY NoNameAssumption, NamesAssumption
<1>3. CASE m.type = "CREATE_VM_RESP" /\ CreateVmResp(m.vm, m.result)
  <2>1. PICK n \in Nodes :
           \/ UNCHANGED vmName
           \/ m.result = 0 /\ vmName' = [vmName EXCEPT ![n] = m.vm]
    BY <1>3 DEF CreateVmResp, CosMessageTrue, CosMessage
  <2> QED
    BY <1>1, <1>2, <1>3, <2>1 DEF CosMessageTrue, ListedBooted, Booted, CloudInv, CosTypes
<1>4. CASE DestroyVmResp(m.vm, m.result)
  BY <1>2, <1>4 DEF DestroyVmResp, ListedBooted, Booted
<1>5. CASE UNCHANGED vmName
  BY <1>5 DEF ListedBooted, Booted
<1>6. CASE CosStop
  BY <1>2, <1>6 DEF CosStop, ListedBooted
<1> QED
  BY <1>3, <1>4, <1>5, <1>6 DEF CosReceive, NotifyHighCpuUsage, NotifyLowCpuUsage,
                                PeersOverrun, cosVars

\* A request for a creation is for the VM of the Node it goes to (cos_main.c:284).
LEMMA TransmitIsTrue ==
    ASSUME CosTypes', CloudInv, NEW call \in Calls,
           call.op = "DESTROY_VM_REQ" => vmName[call.node] \in VmNames,
           Transmit(call),
           \A k \in Nodes : nodeInbox[k] \in Seq(NodeMessageOf(k)')
    PROVE  \A k \in Nodes : nodeInbox'[k] \in Seq(NodeMessageOf(k)')
<1>1. CASE call = NoCall
  BY <1>1 DEF Transmit, NoCall
<1>2. CASE call # NoCall
  <2>1. call \in [op : {"CREATE_VM_REQ", "DESTROY_VM_REQ"}, node : Nodes, ok : BOOLEAN]
    BY <1>2 DEF Calls
  <2>2. cosAddrOk' \in BOOLEAN
    BY DEF CosTypes
  <2>3. call.node \in VmNames
    BY <2>1, NamesAssumption
  <2>4. Request(call) \in NodeMessageOf(call.node)'
    BY <2>1, <2>2, <2>3 DEF Request, CreateVmReqMsg, DestroyVmReqMsg, NodeMessage, NodeMessageOf
  <2>5. nodeInbox' = [nodeInbox EXCEPT ![call.node] =
                         Sent(nodeInbox[call.node], Request(call), call.ok)]
    BY <1>2 DEF Transmit
  <2> QED
    BY <2>1, <2>4, <2>5, SentKeeps DEF CloudInv, QueuesOK
<1> QED
  BY <1>1, <1>2

\* One turn of a NodeManager: a success is told when the VM's own start notice came.
LEMMA NodeServeIsTrue ==
    ASSUME CloudInv, NewsIsTrue, OwnVm, NEW n \in Nodes, NodeReceive(n, cosUp),
           CosMessageTrue \subseteq CosMessageTrue',
           cosInbox \in Seq(CosMessageTrue'),
           \A k \in Nodes : nodeInbox[k] \in Seq(NodeMessageOf(k)'),
           Booted(n) => Booted(n)'
    PROVE  NewsIsTrue' /\ OwnVm'
<1> DEFINE m == Head(nodeInbox[n])
<1>1. m \in NodeMessageOf(n)
  BY HeadTailProperties DEF NewsIsTrue, NodeReceive
<1>2. Tail(nodeInbox[n]) \in Seq(NodeMessageOf(n)')
  BY HeadTailProperties DEF NodeReceive
<1>3. nodeInbox \in [Nodes -> Short(NodeMessage)] /\ nodeVm \in [Nodes -> VmNames \cup {NoName}]
  BY DEF CloudInv, QueuesOK, RecordsOK
<1>q. ASSUME Served(n) PROVE \A k \in Nodes : nodeInbox'[k] \in Seq(NodeMessageOf(k)')
  BY <1>2, <1>3, <1>q DEF Served
<1>4. CASE NodeCrash(n)
  <2>1. \A k \in Nodes : nodeInbox'[k] \in Seq(NodeMessageOf(k)')
    BY <1>3, <1>4 DEF NodeCrash
  <2>2. OwnVm'
    BY <1>3, <1>4 DEF NodeCrash, OwnVm
  <2> QED
    BY <1>4, <2>1, <2>2 DEF NodeCrash, NewsIsTrue
<1>5. CASE Unparsed(n)
  BY <1>5, <1>q DEF Unparsed, NewsIsTrue, OwnVm, nodeVars
<1>6. CASE m.type = "CREATE_VM_REQ" /\ CreateVm(n, m.vm) /\ ~NodeCrash(n)
  <2>1. m.vm = n
    BY <1>1, <1>6 DEF NodeMessageOf
  <2>2. /\ nodeVm' = [nodeVm EXCEPT ![n] = m.vm]
        /\ Served(n) /\ UNCHANGED cosInbox
    BY <1>6 DEF CreateVm
  <2>3. OwnVm'
    BY <1>3, <2>1, <2>2 DEF OwnVm
  <2> QED
    BY <1>q, <2>2, <2>3 DEF NewsIsTrue
<1>7. CASE m.type = "DESTROY_VM_REQ" /\ DestroyVm(n, m.vm, cosUp) /\ ~NodeCrash(n)
  <2>1. m.vm \in VmNames
    BY <1>1, <1>7 DEF NodeMessageOf, NodeMessage
  <2>2. /\ UNCHANGED cosInbox \/ ToCos(n, CosResp("DESTROY_VM_RESP", m.vm, -1), cosUp)
        /\ Served(n) /\ UNCHANGED nodeVm
    BY <1>7 DEF DestroyVm
  <2>3. cosInbox' \in Seq(CosMessageTrue')
    BY <2>1, <2>2, OtherNewsIsTrue, ToCosIsTrue
  <2> QED
    BY <1>q, <2>2, <2>3 DEF NewsIsTrue, OwnVm
<1>8. CASE m.type = "NOTIFY_VM_STARTED" /\ VmStarted(n, cosUp)
  <2>1. Served(n) /\ UNCHANGED nodeVm
    BY <1>8 DEF VmStarted
  <2>2. Booted(n)'
    BY <1>1, <1>8 DEF NodeMessageOf
  <2>3. CASE vmState[n] = "IN_CREATION"
    <3>1. nodeVm[n] \in VmNames /\ nodeVm[n] \in {n, NoName}
      BY <2>3 DEF CloudInv, NamesKnown, OwnVm
    <3>2. nodeVm[n] = n
      BY <3>1, NoNameAssumption
    <3>3. CosResp("CREATE_VM_RESP", nodeVm[n], 0) \in CosMessageTrue'
      BY <2>2, <3>1, <3>2 DEF CosResp, CosMessage, CosMessageTrue
    <3>4. PICK ok : cosInbox' = Sent(cosInbox, CosResp("CREATE_VM_RESP", nodeVm[n], 0), ok)
      BY <1>8, <2>3 DEF VmStarted
    <3>5. cosInbox' \in Seq(CosMessageTrue')
      BY <3>3, <3>4, SentKeeps
    <3> QED
      BY <1>q, <2>1, <3>5 DEF NewsIsTrue, OwnVm
  <2>4. CASE vmState[n] # "IN_CREATION"
    <3>1. ToCos(n, CosResp("CREATE_VM_RESP", NullName, -1), cosUp)
      BY <1>8, <2>4 DEF VmStarted
    <3>2. cosInbox' \in Seq(CosMessageTrue')
      BY <3>1, OtherNewsIsTrue, ToCosIsTrue, NullNameAssumption
    <3> QED
      BY <1>q, <2>1, <3>2 DEF NewsIsTrue, OwnVm
  <2> QED
    BY <2>3, <2>4
<1>9. CASE /\ m.type \in {"NOTIFY_HIGH_CPU_USAGE", "NOTIFY_LOW_CPU_USAGE"}
           /\ CpuNotice(n, m.type, cosUp)
  <2>1. Served(n) /\ UNCHANGED nodeVm
    BY <1>9 DEF CpuNotice, nodeVars
  <2>2. cosInbox' \in Seq(CosMessageTrue')
    <3>1. monKnown[n] => nodeVm[n] \in VmNames
      BY DEF CloudInv, NamesKnown
    <3>2. monKnown[n] => CosNotice(m.type, nodeVm[n]) \in CosMessageTrue'
      BY <1>9, <3>1, OtherNewsIsTrue
    <3>3. \/ monKnown[n] /\ ToCos(n, CosNotice(m.type, nodeVm[n]), cosUp)
          \/ UNCHANGED cosInbox
      BY <1>9 DEF CpuNotice
    <3> QED
      BY <3>2, <3>3, ToCosIsTrue
  <2> QED
    BY <1>q, <2>1, <2>2 DEF NewsIsTrue, OwnVm
<1>10. CASE TheaterShutDown(n, cosUp) /\ ~NodeCrash(n)
  <2>1. /\ monKnown[n]
        /\ nodeVm' = [nodeVm EXCEPT ![n] = NoName]
        /\ Served(n)
    BY <1>10 DEF TheaterShutDown
  <2>2. PICK r \in {0, -1} : ToCos(n, CosResp("DESTROY_VM_RESP", nodeVm[n], r), cosUp)
    BY <1>10 DEF TheaterShutDown
  <2>3. nodeVm[n] \in VmNames
    BY <2>1 DEF CloudInv, NamesKnown
  <2>4. cosInbox' \in Seq(CosMessageTrue')
    BY <2>2, <2>3, OtherNewsIsTrue, ToCosIsTrue
  <2>5. OwnVm'
    BY <1>3, <2>1 DEF OwnVm
  <2> QED
    BY <1>q, <2>1, <2>4, <2>5 DEF NewsIsTrue
<1> QED
  BY <1>4, <1>5, <1>6, <1>7, <1>8, <1>9, <1>10 DEF NodeReceive

\* Every step keeps the invariant.
LEMMA BootInvStep ==
    ASSUME BootInv, [CloudNext]_cloudVars
    PROVE  BootInv'
<1>1. CloudInv'
  BY CloudStep DEF BootInv
<1>2. CloudInv /\ NewsIsTrue /\ OwnVm /\ ListedBooted
  BY DEF BootInv
<1>n. /\ CosMessageTrue \subseteq CosMessageTrue'
      /\ cosInbox \in Seq(CosMessageTrue')
      /\ \A k \in Nodes : nodeInbox[k] \in Seq(NodeMessageOf(k)')
  BY NewsStaysTrue
<1>l. ASSUME UNCHANGED vmName PROVE ListedBooted'
  BY <1>2, <1>l, StaysBooted DEF ListedBooted
<1>3. CASE CosServe
  <2>1. PICK call \in Calls : CosReceive(Head(cosInbox), call) /\ Transmit(call)
    BY <1>3 DEF CosServe
  <2>2. Head(cosInbox) \in CosMessageTrue /\ Tail(cosInbox) \in Seq(CosMessageTrue')
    BY <1>2, <1>3, <1>n, HeadTailProperties DEF CosServe, NewsIsTrue
  <2>3. Head(cosInbox) \in CosMessage
    BY <2>2 DEF CosMessageTrue
  <2>4. \A k \in Nodes : nodeInbox'[k] \in Seq(NodeMessageOf(k)')
    BY <1>1, <1>2, <1>n, <2>1, <2>3, DestroyedByName, TransmitIsTrue DEF CloudInv
  <2>5. UNCHANGED guest /\ UNCHANGED nodeVm
    BY <1>3 DEF CosServe, Unmanaged, monVars, nodeVars
  <2>6. ListedBooted'
    BY <1>2, <2>1, <2>2, <2>5, CosReceiveListsBooted
  <2>7. cosInbox' \in Seq(CosMessageTrue')
    BY <1>3, <2>2 DEF CosServe
  <2> QED
    BY <1>1, <1>2, <2>4, <2>5, <2>6, <2>7 DEF BootInv, NewsIsTrue, OwnVm
<1>4. CASE CosBoot
  <2>1. PICK call \in Calls : CosStart(call) /\ Transmit(call)
    BY <1>4 DEF CosBoot
  <2>2. \A k \in Nodes : nodeInbox'[k] \in Seq(NodeMessageOf(k)')
    BY <1>1, <1>2, <1>n, <2>1, TransmitIsTrue DEF CloudInv, CosStart
  <2>3. ListedBooted'
    BY <2>1, NoNameAssumption, NamesAssumption DEF CosStart, ListedBooted
  <2>4. UNCHANGED <<cosInbox, nodeVm>>
    BY <1>4 DEF CosBoot, Unmanaged, nodeVars
  <2> QED
    BY <1>1, <1>2, <1>n, <2>2, <2>3, <2>4 DEF BootInv, NewsIsTrue, OwnVm
<1>5. CASE CosClock
  <2>1. UNCHANGED <<vmName, cosInbox, nodeInbox, nodeVm>>
    BY <1>5 DEF CosClock, CosTick, netVars, nodeVars
  <2> QED
    BY <1>1, <1>2, <1>n, <1>l, <2>1 DEF BootInv, NewsIsTrue, OwnVm
<1>r. CASE CosRefuses
  <2>1. UNCHANGED <<vmName, nodeInbox, nodeVm>>
    BY <1>r DEF CosRefuses, cosVars, Unmanaged, nodeVars
  <2>2. cosInbox' \in Seq(CosMessageTrue')
    BY <1>r, <1>n, HeadTailProperties DEF CosRefuses
  <2> QED
    BY <1>1, <1>2, <1>n, <1>l, <2>1, <2>2 DEF BootInv, NewsIsTrue, OwnVm
<1>6. CASE CosEnds
  <2>1. /\ vmName' = [n \in Nodes |-> NoName] /\ cosInbox' = <<>>
        /\ UNCHANGED <<nodeInbox, nodeVm>>
    BY <1>6 DEF CosEnds, CosStop, Unmanaged, nodeVars
  <2>2. ListedBooted'
    BY <2>1, NoNameAssumption, NamesAssumption DEF ListedBooted
  <2> QED
    BY <1>1, <1>2, <1>n, <2>1, <2>2 DEF BootInv, NewsIsTrue, OwnVm
<1>7. ASSUME NEW n \in Nodes, NodeServe(n) PROVE BootInv'
  <2>1. NodeReceive(n, cosUp) /\ UNCHANGED vmName
    BY <1>7 DEF NodeServe, cosVars
  <2>2. Booted(n) => Booted(n)'
    BY <1>2, StaysBooted
  <2>3. NewsIsTrue' /\ OwnVm'
    BY <1>2, <1>n, <2>1, <2>2, NodeServeIsTrue
  <2> QED
    BY <1>1, <1>l, <2>1, <2>3 DEF BootInv
<1>8. ASSUME NEW n \in Nodes,
             MonBoot(n) \/ MonRestarts(n) \/ MonServe(n) \/ MonIdle(n) \/ LowTool(n)
      PROVE  BootInv'
  <2>1. UNCHANGED <<vmName, cosInbox, nodeVm>>
    BY <1>8 DEF MonBoot, MonRestarts, MonServe, MonIdle, LowTool, MonStart, MonReceive,
                MonSample, LowCpuTool, cosVars, nodeVars
  <2>2. \A k \in Nodes : nodeInbox'[k] \in Seq(NodeMessageOf(k)')
    <3>1. CASE MonBoot(n) \/ MonRestarts(n)
      <4>1. ToNode(n, "NOTIFY_VM_STARTED", nodeUp[n])
        BY <3>1 DEF MonBoot, MonRestarts, MonStart
      <4>2. Booted(n)'
        BY <1>2, <3>1 DEF MonBoot, MonRestarts, MonStart, Booted, CloudInv, MonitorsOK
      <4> QED
        BY <1>2, <1>n, <4>1, <4>2, ToNodeIsTrue
    <3>2. CASE MonServe(n)
      BY <1>2, <1>n, <3>2, ToNodeIsTrue DEF MonServe, MonReceive
    <3>3. CASE MonIdle(n)
      <4>1. ToNode(n, "NOTIFY_HIGH_CPU_USAGE", nodeUp[n]) \/ UNCHANGED nodeInbox
        BY <3>3 DEF MonIdle, MonSample
      <4> QED
        BY <1>2, <1>n, <4>1, ToNodeIsTrue
    <3>4. CASE LowTool(n)
      BY <1>2, <1>n, <3>4, ToNodeIsTrue DEF LowTool, LowCpuTool
    <3> QED
      BY <1>8, <3>1, <3>2, <3>3, <3>4
  <2> QED
    BY <1>1, <1>2, <1>n, <1>l, <2>1, <2>2 DEF BootInv, NewsIsTrue, OwnVm
<1>9. ASSUME NEW n \in Nodes, MonEnds(n) \/ NoBoot(n) \/ NodeRestarts(n) PROVE BootInv'
  <2>1. UNCHANGED <<vmName, cosInbox, nodeInbox, nodeVm>>
    BY <1>9 DEF MonEnds, MonStop, NoBoot, NodeRestarts, NodeStart, cosVars, nodeVars, netVars
  <2> QED
    BY <1>1, <1>2, <1>n, <1>l, <2>1 DEF BootInv, NewsIsTrue, OwnVm
<1>10. ASSUME NEW n \in Nodes, NodeEnds(n) PROVE BootInv'
  <2>1. /\ nodeVm' = [nodeVm EXCEPT ![n] = NoName]
        /\ nodeInbox' = [nodeInbox EXCEPT ![n] = <<>>]
        /\ UNCHANGED <<vmName, cosInbox>>
    BY <1>10 DEF NodeEnds, NodeCrash, cosVars
  <2>2. NewsIsTrue' /\ OwnVm'
    BY <1>2, <1>n, <2>1 DEF NewsIsTrue, OwnVm, CloudInv, QueuesOK, RecordsOK
  <2> QED
    BY <1>1, <1>l, <2>1, <2>2 DEF BootInv
<1>11. CASE UNCHANGED cloudVars
  <2>1. UNCHANGED <<vmName, cosInbox, nodeInbox, nodeVm>>
    BY <1>11 DEF cloudVars, cosVars, nodeVars, netVars
  <2> QED
    BY <1>1, <1>2, <1>n, <1>l, <2>1 DEF BootInv, NewsIsTrue, OwnVm
<1> QED
  BY <1>3, <1>r, <1>4, <1>5, <1>6, <1>7, <1>8, <1>9, <1>10, <1>11 DEF CloudNext

-----------------------------------------------------------------------------
\* It holds before anything runs.
LEMMA BootInvInit == ASSUME CloudInit PROVE BootInv
<1>1. CloudInv
  BY CloudInvInit
<1>2. ListedBooted
  BY NoNameAssumption, NamesAssumption DEF CloudInit, CosInit, ListedBooted
<1>3. NewsIsTrue /\ OwnVm
  BY DEF CloudInit, NodeInit, NetInit, NewsIsTrue, OwnVm
<1> QED
  BY <1>1, <1>2, <1>3 DEF BootInv

\* A VM the COS manager has on its list did boot, whichever Node it is listed under
\* and whatever ends, is started again or does not connect: no answer reports a VM
\* that `xm create' failed to bring up (node_main.c:159).
THEOREM ListedVmsBooted == CloudSafe => []KnownVmsBooted
<1>1. CloudInit => BootInv
  BY BootInvInit
<1>2. BootInv /\ [CloudNext]_cloudVars => BootInv'
  BY BootInvStep
<1>3. BootInv => KnownVmsBooted
  BY DEF BootInv, ListedBooted, KnownVmsBooted, Booted
<1> QED
  BY <1>1, <1>2, <1>3, PTL DEF CloudSafe

=============================================================================
