---------------------------- MODULE CloudProofs ----------------------------
(***************************************************************************)
(* Proofs about Cloud, for every number of Nodes, every backlog, with and  *)
(* without connects that time out, and whatever events happen: what the    *)
(* processes send each other is what their receivers expect.  The manager  *)
(* in the system is then an instance of Cos, and what CosProofs proves of  *)
(* Cos against any peers holds in the system.                              *)
(***************************************************************************)
EXTENDS Cloud, CosProofs, SequenceTheorems

Short(S) == {q \in Seq(S) : Len(q) <= Backlog}

\* A NodeManager reports under the name in its record only while it has one.
NamesKnown ==
    \A n \in Nodes : monKnown[n] \/ vmState[n] = "IN_CREATION" => nodeVm[n] \in VmNames

QueuesOK ==
    /\ cosInbox \in Short(CosMessage)
    /\ nodeInbox \in [Nodes -> Short(NodeMessage)]
    /\ monInbox \in [Nodes -> Short({"SHUTDOWN_THEATER_REQ"})]

RecordsOK ==
    /\ nodeUp \in [Nodes -> BOOLEAN]
    /\ vmState \in [Nodes -> VmStates]
    /\ nodeVm \in [Nodes -> VmNames \cup {NoName}]
    /\ monKnown \in [Nodes -> BOOLEAN]
    /\ cosKnown \in [Nodes -> BOOLEAN]

MonitorsOK ==
    /\ guest \in [Nodes -> GuestStates]
    /\ sampled \in [Nodes -> 0 .. HistoryLen]
    /\ history \in [Nodes -> [Samples -> BOOLEAN]]

\* The inductive invariant.
CloudInv ==
    /\ CosTypes
    /\ QueuesOK
    /\ RecordsOK
    /\ MonitorsOK
    /\ NamesKnown
    /\ events \in 0 .. MaxEvents

-----------------------------------------------------------------------------
(* Queues *)

\* A backlog takes a connection only when there is room (Socket.c:60-64).
LEMMA SentIsShort ==
    ASSUME NEW S, NEW q \in Short(S), NEW m \in S, NEW listening, NEW ok,
           ok = FALSE \/ ok \in ConnectResult(listening, q)
    PROVE  Sent(q, m, ok) \in Short(S)
<1>1. CASE ok = FALSE
  BY <1>1 DEF Sent
<1>2. CASE ok = TRUE
  <2>1. Len(q) < Backlog
    BY <1>2 DEF ConnectResult, HasRoom
  <2>2. q \in Seq(S)
    BY DEF Short
  <2>3. Append(q, m) \in Seq(S) /\ Len(Append(q, m)) = Len(q) + 1
    BY <2>2
  <2> QED
    BY <1>2, <2>1, <2>2, <2>3, BacklogAssumption DEF Sent, Short
<1>3. ok \in BOOLEAN
  BY DEF ConnectResult
<1> QED
  BY <1>1, <1>2, <1>3

\* accept takes the connection that waited longest.
LEMMA ServedIsShort ==
    ASSUME NEW S, NEW q \in Short(S), q # <<>>
    PROVE  Head(q) \in S /\ Tail(q) \in Short(S)
<1>1. q \in Seq(S) /\ Len(q) \in Nat
  BY DEF Short
<1>2. Head(q) \in S /\ Tail(q) \in Seq(S) /\ Len(Tail(q)) = Len(q) - 1
  BY <1>1, HeadTailProperties
<1> QED
  BY <1>1, <1>2, BacklogAssumption DEF Short

\* An empty backlog is not too long.
LEMMA NoneIsShort == ASSUME NEW S PROVE <<>> \in Short(S)
  BY BacklogAssumption DEF Short

\* What a VmMonitor sends is a message of its NodeManager's.
LEMMA ToNodeIsTyped ==
    ASSUME nodeInbox \in [Nodes -> Short(NodeMessage)], NEW n \in Nodes, NEW listening,
           NEW type \in {"NOTIFY_VM_STARTED", "NOTIFY_HIGH_CPU_USAGE",
                         "NOTIFY_LOW_CPU_USAGE", "SHUTDOWN_THEATER_RESP"},
           ToNode(n, type, listening)
    PROVE  nodeInbox' \in [Nodes -> Short(NodeMessage)]
<1>1. PICK ok \in ConnectResult(listening, nodeInbox[n]) :
         nodeInbox' = [nodeInbox EXCEPT ![n] = Sent(nodeInbox[n], NodeNotice(type), ok)]
  BY DEF ToNode
<1>2. NodeNotice(type) \in NodeMessage
  BY DEF NodeNotice, NodeMessage
<1>3. Sent(nodeInbox[n], NodeNotice(type), ok) \in Short(NodeMessage)
  BY <1>2, SentIsShort
<1> QED
  BY <1>1, <1>3

\* What a NodeManager sends the COS manager is a message of its.
LEMMA ToCosIsTyped ==
    ASSUME cosInbox \in Short(CosMessage), NEW n, NEW m \in CosMessage, NEW listening,
           ToCos(n, m, listening)
    PROVE  cosInbox' \in Short(CosMessage)
<1>1. PICK ok \in CosConnect(n, listening) : cosInbox' = Sent(cosInbox, m, ok)
  BY DEF ToCos
<1>2. ok = FALSE \/ ok \in ConnectResult(listening, cosInbox)
  BY DEF CosConnect
<1> QED
  BY <1>1, <1>2, SentIsShort

\* The answers and notices a NodeManager makes, under a name it knows.
LEMMA AnswersAreMessages ==
    ASSUME NEW vm \in VmNames, NEW r \in {0, -1}
    PROVE  /\ CosResp("CREATE_VM_RESP", vm, r) \in CosMessage
           /\ CosResp("DESTROY_VM_RESP", vm, r) \in CosMessage
           /\ CosNotice("NOTIFY_HIGH_CPU_USAGE", vm) \in CosMessage
           /\ CosNotice("NOTIFY_LOW_CPU_USAGE", vm) \in CosMessage
BY DEF CosResp, CosNotice, CosMessage

\* A process that ends takes its queue with it.
LEMMA CrashIsTyped ==
    ASSUME QueuesOK, RecordsOK, MonitorsOK, NamesKnown, NEW n \in Nodes, NodeCrash(n)
    PROVE  QueuesOK' /\ RecordsOK' /\ MonitorsOK' /\ NamesKnown'
<1>1. QueuesOK'
  BY NoneIsShort DEF QueuesOK, NodeCrash
<1>2. RecordsOK'
  BY DEF RecordsOK, NodeCrash, VmStates
<1>3. MonitorsOK'
  BY DEF MonitorsOK, NodeCrash, monVars
<1>4. NamesKnown'
  BY DEF NamesKnown, RecordsOK, NodeCrash
<1> QED
  BY <1>1, <1>2, <1>3, <1>4

-----------------------------------------------------------------------------
(* The NodeManagers *)

\* One turn of a NodeManager's loop keeps queues and records in their types and
\* its names known (node_main.c:498-561).
LEMMA NodeServeStep ==
    ASSUME QueuesOK, RecordsOK, MonitorsOK, NamesKnown, NEW n \in Nodes, NodeReceive(n, cosUp)
    PROVE  QueuesOK' /\ RecordsOK' /\ MonitorsOK' /\ NamesKnown'
<1> DEFINE m == Head(nodeInbox[n])
<1>1. m \in NodeMessage /\ Tail(nodeInbox[n]) \in Short(NodeMessage)
  BY ServedIsShort DEF QueuesOK, NodeReceive
<1>2. ASSUME Served(n) PROVE nodeInbox' \in [Nodes -> Short(NodeMessage)]
  BY <1>1, <1>2 DEF Served, QueuesOK
<1>m. m.type \in {"CREATE_VM_REQ", "DESTROY_VM_REQ"} => m.vm \in VmNames
  BY <1>1 DEF NodeMessage
<1>3. CASE NodeCrash(n)
  BY <1>3, CrashIsTyped
<1>4. CASE Unparsed(n)
  BY <1>2, <1>4 DEF Unparsed, QueuesOK, RecordsOK, MonitorsOK, NamesKnown, nodeVars, monVars
<1>5. CASE m.type = "CREATE_VM_REQ" /\ CreateVm(n, m.vm)
  <2>1. CASE /\ vmState' = [vmState EXCEPT ![n] = "IN_CREATION"]
             /\ nodeVm' = [nodeVm EXCEPT ![n] = m.vm]
             /\ cosKnown' = [cosKnown EXCEPT ![n] = TRUE]
             /\ guest' = [guest EXCEPT ![n] = IF @ = "OFF" THEN "BOOTING" ELSE @]
             /\ Served(n)
             /\ UNCHANGED <<nodeUp, monKnown, cosInbox, monInbox, sampled, history>>
    <3>1. QueuesOK'
      BY <1>2, <2>1 DEF QueuesOK
    <3>2. RecordsOK' /\ NamesKnown'
      BY <1>m, <1>5, <2>1 DEF RecordsOK, NamesKnown, VmStates
    <3>3. MonitorsOK'
      BY <2>1 DEF MonitorsOK, GuestStates
    <3> QED
      BY <3>1, <3>2, <3>3
  <2> QED
    BY <1>3, <1>5, <2>1 DEF CreateVm
<1>6. CASE m.type = "DESTROY_VM_REQ" /\ DestroyVm(n, m.vm, cosUp)
  <2>1. CASE nodeVm[n] = m.vm /\ ~NodeCrash(n)
    <3>1. PICK asked \in IF vmState[n] \in {"IN_CREATION", "ACTIVE"} THEN MonConnect(n) ELSE {FALSE} :
             /\ vmState' = [vmState EXCEPT ![n] = IF asked THEN "IN_SHUTTING_DOWN" ELSE "NULL"]
             /\ monInbox' = [monInbox EXCEPT ![n] = Sent(monInbox[n], "SHUTDOWN_THEATER_REQ", asked)]
             /\ IF asked THEN UNCHANGED cosInbox
                ELSE ToCos(n, CosResp("DESTROY_VM_RESP", m.vm, -1), cosUp)
             /\ Served(n)
             /\ UNCHANGED <<nodeUp, nodeVm, monKnown, cosKnown, monVars>>
      BY <1>6, <2>1 DEF DestroyVm
    <3>2. asked = FALSE \/ asked \in ConnectResult(guest[n] = "RUNNING", monInbox[n])
      BY DEF MonConnect
    <3>3. monInbox' \in [Nodes -> Short({"SHUTDOWN_THEATER_REQ"})]
      BY <3>1, <3>2, SentIsShort DEF QueuesOK
    <3>4. CosResp("DESTROY_VM_RESP", m.vm, -1) \in CosMessage
      BY <1>m, <1>6, AnswersAreMessages
    <3>5. cosInbox' \in Short(CosMessage)
      BY <3>1, <3>4, ToCosIsTyped DEF QueuesOK
    <3>6. RecordsOK' /\ NamesKnown'
      BY <3>1 DEF RecordsOK, NamesKnown, VmStates
    <3> QED
      BY <1>2, <3>1, <3>3, <3>5, <3>6 DEF QueuesOK, MonitorsOK, monVars
  <2> QED
    BY <1>3, <1>6, <2>1 DEF DestroyVm
<1>7. CASE VmStarted(n, cosUp)
  <2>1. CASE vmState[n] = "IN_CREATION"
    <3>1. PICK ok \in CosConnect(n, cosUp) :
             /\ cosInbox' = Sent(cosInbox, CosResp("CREATE_VM_RESP", nodeVm[n], 0), ok)
             /\ vmState' = [vmState EXCEPT ![n] = IF ok THEN "ACTIVE" ELSE "NULL"]
      BY <1>7, <2>1 DEF VmStarted
    <3>2. ok = FALSE \/ ok \in ConnectResult(cosUp, cosInbox)
      BY DEF CosConnect
    <3>3. nodeVm[n] \in VmNames
      BY <2>1 DEF NamesKnown
    <3>4. CosResp("CREATE_VM_RESP", nodeVm[n], 0) \in CosMessage
      BY <3>3, AnswersAreMessages
    <3>5. cosInbox' \in Short(CosMessage)
      BY <3>1, <3>2, <3>4, SentIsShort DEF QueuesOK
    <3>6. /\ monKnown' = [monKnown EXCEPT ![n] = TRUE]
          /\ UNCHANGED <<nodeUp, nodeVm, cosKnown, monInbox, monVars>>
          /\ Served(n)
      BY <1>7, <2>1 DEF VmStarted
    <3>7. RecordsOK' /\ NamesKnown'
      BY <3>1, <3>3, <3>6 DEF RecordsOK, NamesKnown, VmStates
    <3> QED
      BY <1>2, <3>5, <3>6, <3>7 DEF QueuesOK, MonitorsOK, monVars
  <2>2. CASE vmState[n] # "IN_CREATION"
    <3>1. /\ ToCos(n, CosResp("CREATE_VM_RESP", NullName, -1), cosUp)
          /\ UNCHANGED <<vmState, monKnown, nodeUp, nodeVm, cosKnown, monInbox, monVars>>
          /\ Served(n)
      BY <1>7, <2>2 DEF VmStarted
    <3>2. cosInbox' \in Short(CosMessage)
      BY <3>1, ToCosIsTyped, AnswersAreMessages, NullNameAssumption DEF QueuesOK
    <3> QED
      BY <1>2, <3>1, <3>2 DEF QueuesOK, RecordsOK, MonitorsOK, NamesKnown, monVars
  <2> QED
    BY <2>1, <2>2
<1>8. CASE /\ m.type \in {"NOTIFY_HIGH_CPU_USAGE", "NOTIFY_LOW_CPU_USAGE"}
           /\ CpuNotice(n, m.type, cosUp)
  <2>1. Served(n) /\ UNCHANGED <<nodeVars, monInbox, monVars>>
    BY <1>8 DEF CpuNotice
  <2>2. CASE monKnown[n]
    <3>1. CosNotice(m.type, nodeVm[n]) \in CosMessage
      BY <1>8, <2>2, AnswersAreMessages DEF NamesKnown
    <3>2. cosInbox' \in Short(CosMessage)
      BY <1>8, <2>2, <3>1, ToCosIsTyped DEF CpuNotice, QueuesOK
    <3> QED
      BY <1>2, <2>1, <3>2 DEF QueuesOK, RecordsOK, MonitorsOK, NamesKnown, nodeVars, monVars
  <2>3. CASE ~monKnown[n]
    <3>1. cosInbox' = cosInbox
      BY <1>8, <2>3 DEF CpuNotice
    <3> QED
      BY <1>2, <2>1, <3>1 DEF QueuesOK, RecordsOK, MonitorsOK, NamesKnown, nodeVars, monVars
  <2> QED
    BY <2>2, <2>3
<1>9. CASE TheaterShutDown(n, cosUp)
  <2>1. CASE monKnown[n] /\ ~NodeCrash(n)
    <3>1. PICK r \in {0, -1} : ToCos(n, CosResp("DESTROY_VM_RESP", nodeVm[n], r), cosUp)
      BY <1>9, <2>1 DEF TheaterShutDown
    <3>2. nodeVm[n] \in VmNames
      BY <2>1 DEF NamesKnown
    <3>3. cosInbox' \in Short(CosMessage)
      BY <3>1, <3>2, ToCosIsTyped, AnswersAreMessages DEF QueuesOK
    <3>4. /\ vmState' = [vmState EXCEPT ![n] = "NULL"]
          /\ nodeVm' = [nodeVm EXCEPT ![n] = NoName]
          /\ monKnown' = [monKnown EXCEPT ![n] = FALSE]
          /\ UNCHANGED <<nodeUp, cosKnown, monInbox, monVars>>
          /\ Served(n)
      BY <1>9, <2>1 DEF TheaterShutDown
    <3>5. RecordsOK' /\ NamesKnown'
      BY <3>4 DEF RecordsOK, NamesKnown, VmStates
    <3> QED
      BY <1>2, <3>3, <3>4, <3>5 DEF QueuesOK, MonitorsOK, monVars
  <2> QED
    BY <1>3, <1>9, <2>1 DEF TheaterShutDown
<1> QED
  BY <1>4, <1>5, <1>6, <1>7, <1>8, <1>9 DEF NodeReceive

-----------------------------------------------------------------------------
(* The COS manager *)

\* A request that is sent is a message of its NodeManager's.
LEMMA TransmitIsTyped ==
    ASSUME CosTypes', nodeInbox \in [Nodes -> Short(NodeMessage)], NEW call \in Calls,
           call.op = "DESTROY_VM_REQ" => vmName[call.node] \in VmNames,
           Transmit(call)
    PROVE  nodeInbox' \in [Nodes -> Short(NodeMessage)]
<1>1. CASE call = NoCall
  BY <1>1 DEF Transmit, NoCall
<1>2. CASE call # NoCall
  <2>1. call \in [op : {"CREATE_VM_REQ", "DESTROY_VM_REQ"}, node : Nodes, ok : BOOLEAN]
    BY <1>2 DEF Calls
  <2>2. call.ok = FALSE \/ call.ok \in ConnectResult(nodeUp[call.node], nodeInbox[call.node])
    BY <1>2 DEF Transmit
  <2>3. cosAddrOk' \in BOOLEAN
    BY DEF CosTypes
  <2>4. call.node \in VmNames
    BY <2>1, NamesAssumption
  <2>5. Request(call) \in NodeMessage
    BY <2>1, <2>3, <2>4 DEF Request, CreateVmReqMsg, DestroyVmReqMsg, NodeMessage
  <2>6. Sent(nodeInbox[call.node], Request(call), call.ok) \in Short(NodeMessage)
    BY <2>1, <2>2, <2>5, SentIsShort
  <2>7. nodeInbox' = [nodeInbox EXCEPT ![call.node] =
                         Sent(nodeInbox[call.node], Request(call), call.ok)]
    BY <1>2 DEF Transmit
  <2> QED
    BY <2>6, <2>7
<1> QED
  BY <1>1, <1>2

\* A destruction is requested under a name that a message gave (cos_main.c:484).
LEMMA DestroyedByName ==
    ASSUME NEW m \in CosMessage, NEW call \in Calls, CosReceive(m, call),
           call.op = "DESTROY_VM_REQ"
    PROVE  vmName[call.node] \in VmNames
<1>1. CASE m.type = "NOTIFY_LOW_CPU_USAGE" /\ NotifyLowCpuUsage(m.vm, call)
  <2>1. m.vm \in VmNames
    BY DEF CosMessage
  <2> QED
    BY <1>1, <2>1 DEF NotifyLowCpuUsage, FoundActive, FindNodeByVmName, IsFirst, Called
<1>2. CASE m.type = "NOTIFY_HIGH_CPU_USAGE" /\ NotifyHighCpuUsage(m.vm, call)
  BY <1>2 DEF NotifyHighCpuUsage, CreateVmReq, Called, NoCall
<1>3. CASE PeersOverrun(m, call)
  BY <1>3 DEF PeersOverrun, Called, NoCall
<1> QED
  BY <1>1, <1>2, <1>3 DEF CosReceive, NoCall

\* The manager's turn in the system is a turn of Cos, and its queues stay typed.
LEMMA CosServeStep ==
    ASSUME CloudInv, CosServe
    PROVE  CloudInv' /\ CosNext
<1>1. PICK call \in Calls : CosReceive(Head(cosInbox), call) /\ Transmit(call)
  BY DEF CosServe
<1>2. Head(cosInbox) \in CosMessage /\ Tail(cosInbox) \in Short(CosMessage)
  BY ServedIsShort DEF CosServe, CloudInv, QueuesOK
<1>3. CosNext
  BY <1>1, <1>2 DEF CosNext
<1>4. CosTypes'
  BY <1>3, CosTypesStep DEF CloudInv
<1>5. nodeInbox' \in [Nodes -> Short(NodeMessage)]
  BY <1>1, <1>2, <1>4, DestroyedByName, TransmitIsTyped DEF CloudInv, QueuesOK
<1>6. cosInbox' \in Short(CosMessage)
  BY <1>2, NoneIsShort DEF CosServe
<1>7. UNCHANGED <<nodeUp, vmState, nodeVm, monKnown, cosKnown, guest, sampled, history,
                  monInbox, events>>
  BY DEF CosServe, Unmanaged, nodeVars, monVars
<1>8. QueuesOK' /\ RecordsOK' /\ MonitorsOK' /\ NamesKnown' /\ events' \in 0 .. MaxEvents
  BY <1>5, <1>6, <1>7 DEF CloudInv, QueuesOK, RecordsOK, MonitorsOK, NamesKnown
<1> QED
  BY <1>3, <1>4, <1>8 DEF CloudInv

\* The manager starts: its step is one of Cos.
LEMMA CosBootStep ==
    ASSUME CloudInv, CosBoot
    PROVE  CloudInv' /\ CosNext
<1>1. PICK call \in Calls : CosStart(call) /\ Transmit(call)
  BY DEF CosBoot
<1>2. CosNext
  BY <1>1 DEF CosNext
<1>3. CosTypes'
  BY <1>2, CosTypesStep DEF CloudInv
<1>4. call.op = "CREATE_VM_REQ"
  BY <1>1 DEF CosStart
<1>5. nodeInbox' \in [Nodes -> Short(NodeMessage)]
  BY <1>1, <1>3, <1>4, TransmitIsTyped DEF CloudInv, QueuesOK
<1>6. UNCHANGED <<nodeUp, vmState, nodeVm, monKnown, cosKnown, guest, sampled, history,
                  monInbox, cosInbox, events>>
  BY DEF CosBoot, Unmanaged, nodeVars, monVars
<1>7. QueuesOK' /\ RecordsOK' /\ MonitorsOK' /\ NamesKnown' /\ events' \in 0 .. MaxEvents
  BY <1>5, <1>6 DEF CloudInv, QueuesOK, RecordsOK, MonitorsOK, NamesKnown
<1> QED
  BY <1>2, <1>3, <1>7 DEF CloudInv

\* The manager is ended: its step is one of Cos, and its backlog is gone.
LEMMA CosEndsStep ==
    ASSUME CloudInv, CosEnds
    PROVE  CloudInv' /\ CosNext
<1>1. CosNext
  BY DEF CosEnds, CosNext
<1>2. CosTypes'
  BY <1>1, CosTypesStep DEF CloudInv
<1>3. QueuesOK'
  BY NoneIsShort DEF CosEnds, CloudInv, QueuesOK, Unmanaged
<1>4. RecordsOK' /\ MonitorsOK' /\ NamesKnown'
  BY DEF CosEnds, CloudInv, RecordsOK, MonitorsOK, NamesKnown, Unmanaged, nodeVars, monVars
<1>5. events' \in 0 .. MaxEvents
  BY EventsAssumption DEF CosEnds, Event, CloudInv
<1> QED
  BY <1>1, <1>2, <1>3, <1>4, <1>5 DEF CloudInv

-----------------------------------------------------------------------------
(* The VmMonitors *)

\* What a VmMonitor, its VM and the tool that speaks for it do touches no record of
\* the NodeManagers.
LEMMA MonitorStep ==
    ASSUME QueuesOK, RecordsOK, MonitorsOK, NamesKnown, NEW n \in Nodes,
           NEW listening, UNCHANGED nodeVars,
           \/ MonStart(n, listening)
           \/ MonReceive(n, listening)
           \/ \E high \in BOOLEAN : MonSample(n, high, listening)
           \/ LowCpuTool(n, listening)
           \/ MonStop(n)
    PROVE  QueuesOK' /\ RecordsOK' /\ MonitorsOK' /\ NamesKnown'
<1>1. RecordsOK' /\ NamesKnown'
  BY DEF RecordsOK, NamesKnown, nodeVars
<1> SUFFICES QueuesOK' /\ MonitorsOK'
  BY <1>1
<1>2. CASE MonStart(n, listening)
  <2>1. nodeInbox' \in [Nodes -> Short(NodeMessage)]
    BY <1>2, ToNodeIsTyped DEF MonStart, QueuesOK
  <2>2. NoSamples \in [Samples -> BOOLEAN] /\ 0 \in 0 .. HistoryLen
    BY HistoryAssumption DEF NoSamples
  <2> QED
    BY <1>2, <2>1, <2>2 DEF MonStart, QueuesOK, MonitorsOK, GuestStates
<1>3. CASE MonReceive(n, listening)
  <2>1. nodeInbox' \in [Nodes -> Short(NodeMessage)]
    BY <1>3, ToNodeIsTyped DEF MonReceive, QueuesOK
  <2>2. Tail(monInbox[n]) \in Short({"SHUTDOWN_THEATER_REQ"})
    BY <1>3, ServedIsShort DEF MonReceive, QueuesOK
  <2> QED
    BY <1>3, <2>1, <2>2 DEF MonReceive, QueuesOK, MonitorsOK, monVars
<1>4. CASE \E high \in BOOLEAN : MonSample(n, high, listening)
  <2>1. PICK high \in BOOLEAN : MonSample(n, high, listening)
    BY <1>4
  <2>2. nodeInbox' \in [Nodes -> Short(NodeMessage)]
    BY <2>1, ToNodeIsTyped DEF MonSample, QueuesOK
  <2>3. sampled[n] \in 0 .. HistoryLen /\ history[n] \in [Samples -> BOOLEAN]
    BY DEF MonitorsOK
  <2>4. Recorded(n, high) \in [Samples -> BOOLEAN]
    <3>1. \A i \in Samples : i < HistoryLen => i + 1 \in Samples
      BY HistoryAssumption DEF Samples
    <3> QED
      BY <2>3, <3>1 DEF Recorded
  <2>5. history' \in [Nodes -> [Samples -> BOOLEAN]]
    BY <2>1, <2>4 DEF MonSample, MonitorsOK
  <2>6. sampled' \in [Nodes -> 0 .. HistoryLen]
    BY <2>1, <2>3, HistoryAssumption DEF MonSample, MonitorsOK
  <2> QED
    BY <2>1, <2>2, <2>5, <2>6 DEF MonSample, QueuesOK, MonitorsOK
<1>5. CASE LowCpuTool(n, listening)
  <2>1. nodeInbox' \in [Nodes -> Short(NodeMessage)]
    BY <1>5, ToNodeIsTyped DEF LowCpuTool, QueuesOK
  <2> QED
    BY <1>5, <2>1 DEF LowCpuTool, QueuesOK, MonitorsOK, monVars
<1>6. CASE MonStop(n)
  BY <1>6, NoneIsShort DEF MonStop, QueuesOK, MonitorsOK, GuestStates
<1> QED
  BY <1>2, <1>3, <1>4, <1>5, <1>6

-----------------------------------------------------------------------------
(* The system *)

\* The invariant holds before anything runs.
LEMMA CloudInvInit == ASSUME CloudInit PROVE CloudInv
<1>1. CosTypes
  BY CosTypesInit DEF CloudInit
<1>2. QueuesOK
  <2>1. /\ cosInbox = <<>>
        /\ nodeInbox = [n \in Nodes |-> <<>>]
        /\ monInbox = [n \in Nodes |-> <<>>]
    BY DEF CloudInit, NetInit
  <2> QED
    BY <2>1, NoneIsShort DEF QueuesOK
<1>3. RecordsOK /\ NamesKnown
  BY DEF CloudInit, NodeInit, RecordsOK, NamesKnown, VmStates
<1>4. MonitorsOK
  BY HistoryAssumption DEF CloudInit, MonInit, MonitorsOK, GuestStates, NoSamples
<1>5. events \in 0 .. MaxEvents
  BY EventsAssumption DEF CloudInit
<1> QED
  BY <1>1, <1>2, <1>3, <1>4, <1>5 DEF CloudInv

\* Every step of the system is a step of the manager among peers that may send
\* anything, or one the manager does not notice.
LEMMA CloudStep ==
    ASSUME CloudInv, [CloudNext]_cloudVars
    PROVE  CloudInv' /\ [CosNext]_cosVars
<1> DEFINE Typed == QueuesOK /\ RecordsOK /\ MonitorsOK /\ NamesKnown
<1>t. Typed
  BY DEF CloudInv
<1>e. ASSUME NEW e, Event(e) \/ UNCHANGED events PROVE events' \in 0 .. MaxEvents
  BY <1>e, EventsAssumption DEF Event, CloudInv
<1>u. ASSUME UNCHANGED cosVars, Typed', events' \in 0 .. MaxEvents
      PROVE  CloudInv' /\ [CosNext]_cosVars
  <2>1. CosTypes'
    BY <1>u, CosTypesStep DEF CloudInv
  <2> QED
    BY <1>u, <2>1 DEF CloudInv
<1>1. CASE CosBoot
  BY <1>1, CosBootStep
<1>2. CASE CosServe
  BY <1>2, CosServeStep
<1>3. CASE CosClock
  <2>1. CosNext
    BY <1>3 DEF CosClock, CosNext
  <2>2. CosTypes'
    BY <2>1, CosTypesStep DEF CloudInv
  <2>3. Typed' /\ events' \in 0 .. MaxEvents
    BY <1>3 DEF CosClock, CloudInv, QueuesOK, RecordsOK, MonitorsOK, NamesKnown,
                netVars, nodeVars, monVars
  <2> QED
    BY <2>1, <2>2, <2>3 DEF CloudInv
<1>4. CASE CosEnds
  BY <1>4, CosEndsStep
<1>r. CASE CosRefuses
  <2>1. Tail(cosInbox) \in Short(CosMessage)
    BY <1>r, <1>t, ServedIsShort DEF CosRefuses, QueuesOK
  <2>2. Typed'
    BY <1>r, <1>t, <2>1 DEF CosRefuses, QueuesOK, RecordsOK, MonitorsOK, NamesKnown,
                            Unmanaged, nodeVars, monVars
  <2> QED
    BY <1>r, <1>e, <1>u, <2>2 DEF CosRefuses
<1>5. ASSUME NEW n \in Nodes, NodeServe(n)
      PROVE  CloudInv' /\ [CosNext]_cosVars
  BY <1>5, <1>t, <1>e, <1>u, NodeServeStep DEF NodeServe
<1>6. ASSUME NEW n \in Nodes, MonBoot(n) \/ MonRestarts(n)
      PROVE  CloudInv' /\ [CosNext]_cosVars
  BY <1>6, <1>t, <1>e, <1>u, MonitorStep DEF MonBoot, MonRestarts
<1>7. ASSUME NEW n \in Nodes, MonServe(n)
      PROVE  CloudInv' /\ [CosNext]_cosVars
  BY <1>7, <1>t, <1>e, <1>u, MonitorStep DEF MonServe
<1>8. ASSUME NEW n \in Nodes, MonIdle(n)
      PROVE  CloudInv' /\ [CosNext]_cosVars
  BY <1>8, <1>t, <1>e, <1>u, MonitorStep DEF MonIdle
<1>9. ASSUME NEW n \in Nodes, LowTool(n)
      PROVE  CloudInv' /\ [CosNext]_cosVars
  BY <1>9, <1>t, <1>e, <1>u, MonitorStep DEF LowTool
<1>10. ASSUME NEW n \in Nodes, MonEnds(n)
       PROVE  CloudInv' /\ [CosNext]_cosVars
  BY <1>10, <1>t, <1>e, <1>u, MonitorStep DEF MonEnds
<1>11. ASSUME NEW n \in Nodes, NoBoot(n)
       PROVE  CloudInv' /\ [CosNext]_cosVars
  <2>1. Typed'
    BY <1>11, <1>t DEF NoBoot, QueuesOK, RecordsOK, MonitorsOK, NamesKnown,
                       netVars, nodeVars, GuestStates
  <2> QED
    BY <1>11, <1>e, <1>u, <2>1 DEF NoBoot
<1>12. ASSUME NEW n \in Nodes, NodeEnds(n)
       PROVE  CloudInv' /\ [CosNext]_cosVars
  BY <1>12, <1>t, <1>e, <1>u, CrashIsTyped DEF NodeEnds
<1>13. ASSUME NEW n \in Nodes, NodeRestarts(n)
       PROVE  CloudInv' /\ [CosNext]_cosVars
  <2>1. Typed'
    BY <1>13, <1>t DEF NodeRestarts, NodeStart, QueuesOK, RecordsOK, MonitorsOK, NamesKnown,
                       netVars, monVars
  <2> QED
    BY <1>13, <1>e, <1>u, <2>1 DEF NodeRestarts
<1>14. CASE UNCHANGED cloudVars
  <2>1. Typed' /\ UNCHANGED <<cosVars, events>>
    BY <1>14, <1>t DEF cloudVars, QueuesOK, RecordsOK, MonitorsOK, NamesKnown,
                       netVars, nodeVars, monVars
  <2> QED
    BY <1>e, <1>u, <2>1
<1> QED
  BY <1>1, <1>2, <1>3, <1>4, <1>r, <1>5, <1>6, <1>7, <1>8, <1>9, <1>10, <1>11, <1>12, <1>13,
     <1>14 DEF CloudNext

\* The types, the bounds of the queues and the names the NodeManagers report under,
\* in every reachable state of the whole system.
THEOREM CloudInvariant == CloudSafe => []CloudInv
<1>1. CloudInit => CloudInv
  BY CloudInvInit
<1>2. CloudInv /\ [CloudNext]_cloudVars => CloudInv'
  BY CloudStep
<1> QED
  BY <1>1, <1>2, PTL DEF CloudSafe

\* The manager in the system is a manager among arbitrary peers: what Cos says of
\* cos_main.c holds of it there.
THEOREM CloudImplementsCos == CloudSafe => CosSpec
<1>1. CloudInit => CosInit
  BY DEF CloudInit
<1>2. CloudInv /\ [CloudNext]_cloudVars => [CosNext]_cosVars
  BY CloudStep
<1> QED
  BY <1>1, <1>2, CloudInvariant, PTL DEF CloudSafe, CosSpec

\* No queue of the system passes its backlog (Socket.c:60) and no message carries
\* what its receiver does not expect, whatever ends, is started again or cannot connect.
THEOREM CloudTyped == CloudSafe => []CloudTypeOK
<1>1. CloudInv /\ TypeOK => CloudTypeOK
  BY DEF CloudInv, CloudTypeOK, QueuesOK, RecordsOK, MonitorsOK, Short
<1>2. CloudSafe => []TypeOK
  BY CloudImplementsCos, TypeCorrect, PTL
<1> QED
  BY <1>1, <1>2, CloudInvariant, PTL

\* In the whole system, faults included, VMs come one at a time to the first free
\* Node (cos_main.c:279), and erased Nodes (cos_main.c:527) get none.
THEOREM CloudImplementsPlacement == CloudSafe => ImplementsPlacement
BY CloudImplementsCos, RefinesPlacement, PTL

=============================================================================
