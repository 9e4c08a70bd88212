---------------------------- MODULE StageProofs ----------------------------
(***************************************************************************)
(* Proofs that the three parties of a VM agree about it: the COS manager's *)
(* record, the NodeManager's record, the VM, and the messages about it     *)
(* that wait somewhere.  For every number of Nodes, every backlog, with    *)
(* and without connects that time out and VMs that do not boot.            *)
(*                                                                         *)
(* A VM is handed from one party to the next: a request, the domain        *)
(* booting, the start notice, the answer, and the same again when it is    *)
(* taken down.  At any time one of them, and only one, has it; the         *)
(* inductive invariant says for each Node at which of these stages it is   *)
(* and what every record says then.  It needs the processes to go on:      *)
(* Cloud's other runs show what one that is started again does.            *)
(***************************************************************************)
EXTENDS CloudProofs

\* The manager is not killed, by a user or by its own overrun (cos_main.c:169).
ManagerStays == [][cosUp => cosUp']_cosVars

\* No NodeManager and no VmMonitor is ended.
PeersStay == "node_ends" \notin Events /\ "monitor_ends" \notin Events

-----------------------------------------------------------------------------
(* What waits in a queue, of the messages K *)

NoneOf(q, K) == \A i \in DOMAIN q : q[i] \notin K
JustOne(q, K, m) ==
    \E i \in DOMAIN q : q[i] = m /\ m \in K /\ \A j \in DOMAIN q : q[j] \in K => j = i

\* The messages that hand a VM on; the notices about its CPU do not.
Orders ==
    {m \in NodeMessage : m.type \in {"CREATE_VM_REQ", "DESTROY_VM_REQ",
                                     "NOTIFY_VM_STARTED", "SHUTDOWN_THEATER_RESP"}}
Answers == {m \in CosMessage : m.type \in {"CREATE_VM_RESP", "DESTROY_VM_RESP"}}
AnswersOf(n) == {m \in Answers : m.vm = n}
Strays == {m \in Answers : m.vm \notin Nodes}   \* answers of no Node: there are none

-----------------------------------------------------------------------------
(* The stages of the VM of Node n *)

\* The NodeManager's record and the VM.
Vm(n, state, name, known, up) ==
    vmState[n] = state /\ nodeVm[n] = name /\ monKnown[n] = known /\ guest[n] = up

\* The manager's record, as long as it was not erased.
Listed(n, state) == nodeState[n] = state \/ ~addrOk[n]

\* Nobody was told anything; only the NodeManager was told m; only the COS manager
\* was; only the VmMonitor was asked to shut its theater down.
Quiet(n) ==
    NoneOf(nodeInbox[n], Orders) /\ NoneOf(cosInbox, AnswersOf(n)) /\ monInbox[n] = <<>>
NodeTold(n, m) ==
    JustOne(nodeInbox[n], Orders, m) /\ NoneOf(cosInbox, AnswersOf(n)) /\ monInbox[n] = <<>>
CosTold(n, m) ==
    /\ NoneOf(nodeInbox[n], Orders)
    /\ JustOne(cosInbox, AnswersOf(n), m)
    /\ monInbox[n] = <<>>
MonAsked(n) ==
    /\ NoneOf(nodeInbox[n], Orders)
    /\ NoneOf(cosInbox, AnswersOf(n))
    /\ monInbox[n] = <<"SHUTDOWN_THEATER_REQ">>

Unused(n) == Vm(n, "NULL", NoName, FALSE, "OFF") /\ Quiet(n) /\ Listed(n, "NULL")
Requested(n) ==
    /\ Vm(n, "NULL", NoName, FALSE, "OFF")
    /\ NodeTold(n, CreateVmReqMsg(n, TRUE))
    /\ Listed(n, "IN_VM_CREATION")
\* The VM boots, or does not, or its start notice was lost.
Coming(n) ==
    /\ \E up \in {"OFF", "BOOTING", "RUNNING"} : Vm(n, "IN_CREATION", n, FALSE, up)
    /\ Quiet(n)
    /\ Listed(n, "IN_VM_CREATION")
Started(n) ==
    /\ Vm(n, "IN_CREATION", n, FALSE, "RUNNING")
    /\ NodeTold(n, NodeNotice("NOTIFY_VM_STARTED"))
    /\ Listed(n, "IN_VM_CREATION")
\* The manager could not be told of the VM.
Unheard(n) ==
    Vm(n, "NULL", n, TRUE, "RUNNING") /\ Quiet(n) /\ Listed(n, "IN_VM_CREATION")
Reported(n) ==
    /\ Vm(n, "ACTIVE", n, TRUE, "RUNNING")
    /\ CosTold(n, CosResp("CREATE_VM_RESP", n, 0))
    /\ Listed(n, "IN_VM_CREATION")
\* In use; or no longer, and the request to end it could not be read.
InUse(n) ==
    /\ Vm(n, "ACTIVE", n, TRUE, "RUNNING")
    /\ Quiet(n)
    /\ Listed(n, "VM_ACTIVE") \/ Listed(n, "IN_VM_DESTRUCTION")
Retired(n) ==
    /\ Vm(n, "ACTIVE", n, TRUE, "RUNNING")
    /\ \E retOk \in BOOLEAN : NodeTold(n, DestroyVmReqMsg(n, retOk))
    /\ Listed(n, "IN_VM_DESTRUCTION")
\* The VmMonitor is asked, has answered, or its answer was lost.
Leaving(n) ==
    /\ Vm(n, "IN_SHUTTING_DOWN", n, TRUE, "RUNNING")
    /\ MonAsked(n) \/ NodeTold(n, NodeNotice("SHUTDOWN_THEATER_RESP")) \/ Quiet(n)
    /\ Listed(n, "IN_VM_DESTRUCTION")
\* Over: the manager will hear of it, could not be told, or has erased it.
Gone(n) ==
    /\ Vm(n, "NULL", NoName, FALSE, "RUNNING")
    /\ CosTold(n, CosResp("DESTROY_VM_RESP", n, 0)) \/ Quiet(n)
    /\ Listed(n, "IN_VM_DESTRUCTION")

Staged(n) ==
    \/ Unused(n) \/ Requested(n) \/ Coming(n) \/ Started(n) \/ Unheard(n)
    \/ Reported(n) \/ InUse(n) \/ Retired(n) \/ Leaving(n) \/ Gone(n)

Settled(n) == InUse(n) \/ Retired(n) \/ Leaving(n) \/ Gone(n)

-----------------------------------------------------------------------------
(* How a VM goes from one stage to the next *)

\* It stays where it is.
Kept(n) ==
    \/ Unused(n) /\ Unused(n)'
    \/ Requested(n) /\ Requested(n)'
    \/ Coming(n) /\ Coming(n)'
    \/ Started(n) /\ Started(n)'
    \/ Unheard(n) /\ Unheard(n)'
    \/ Reported(n) /\ Reported(n)'
    \/ InUse(n) /\ InUse(n)'
    \/ Retired(n) /\ Retired(n)'
    \/ Leaving(n) /\ Leaving(n)'
    \/ Gone(n) /\ Gone(n)'

\* A VM is asked for at the first Node that never had one, while no other comes up.
Askable(n) == \A k \in Nodes : IF k < n THEN Settled(k) ELSE Unused(k)

\* It goes on.
Moved(n) ==
    \/ Unused(n) /\ Askable(n) /\ Requested(n)'
    \/ Requested(n) /\ Coming(n)'
    \/ Coming(n) /\ Started(n)'
    \/ Started(n) /\ Reported(n)'
    \/ Started(n) /\ Unheard(n)'
    \/ Reported(n) /\ InUse(n)'
    \/ InUse(n) /\ Retired(n)'
    \/ Retired(n) /\ InUse(n)'
    \/ Retired(n) /\ Leaving(n)'
    \/ Leaving(n) /\ Gone(n)'

\* No two VMs go on at once.
OneGoesOn ==
    \E n \in Nodes : (Kept(n) \/ Moved(n)) /\ \A k \in Nodes \ {n} : Kept(k)

-----------------------------------------------------------------------------
(* The manager's table *)

\* A name is on the list from the answer to the erasure, and is the Node's own.
OwnNames ==
    \A n \in Nodes :
        vmName[n] = IF nodeState[n] \in {"VM_ACTIVE", "IN_VM_DESTRUCTION"} THEN n ELSE NoName

\* Nodes are used from the first on: after one that is free or being created come
\* only free ones.
UsedInOrder ==
    \A m, n \in Nodes :
        m < n /\ nodeState[m] \in {"NULL", "IN_VM_CREATION"} => nodeState[n] = "NULL"

\* Once a record is erased, no other is free or in creation: nothing is created any more.
ErasureEndsCreation ==
    \A m, n \in Nodes :
        ~addrOk[m] /\ nodeState[n] \in {"NULL", "IN_VM_CREATION"} => ~addrOk[n]

\* The manager's own address goes only with a record.
AddressKept == cosUp => cosAddrOk \/ \E n \in Nodes : ~addrOk[n]

\* Before the manager runs nothing has happened.
NothingBefore ==
    ~cosUp => cosInbox = <<>> /\ \A n \in Nodes : nodeInbox[n] = <<>> /\ Unused(n)

TableInv == OwnNames /\ UsedInOrder /\ ErasureEndsCreation /\ AddressKept

\* The inductive invariant, besides CloudInv and CosInv.
StageInv ==
    /\ TableInv
    /\ NothingBefore
    /\ NoneOf(cosInbox, Strays)
    /\ \A n \in Nodes : nodeUp[n] /\ Staged(n)

-----------------------------------------------------------------------------
(* Queues *)

\* A message outside K that is sent, or one that could not be, leaves what a queue
\* holds of K alone; one of K that is sent is the only one when there was none.
LEMMA SentAndK ==
    ASSUME NEW S, NEW q \in Seq(S), NEW K, NEW x, NEW ok \in BOOLEAN
    PROVE  /\ x \notin K \/ ~ok =>
                 /\ NoneOf(q, K) => NoneOf(Sent(q, x, ok), K)
                 /\ \A m : JustOne(q, K, m) => JustOne(Sent(q, x, ok), K, m)
           /\ x \in K /\ ok /\ NoneOf(q, K) => JustOne(Sent(q, x, ok), K, x)
<1>1. CASE ~ok
  BY <1>1 DEF Sent
<1>2. CASE ok
  <2>1. Sent(q, x, ok) = Append(q, x)
    BY <1>2 DEF Sent
  <2>2. /\ DOMAIN q = 1 .. Len(q) /\ Len(q) \in Nat
        /\ DOMAIN Append(q, x) = 1 .. Len(q) + 1
        /\ \A i \in DOMAIN q : Append(q, x)[i] = q[i]
        /\ Append(q, x)[Len(q) + 1] = x
    OBVIOUS
  <2>3. NoneOf(q, K) /\ x \notin K => NoneOf(Append(q, x), K)
    BY <2>2 DEF NoneOf
  <2>4. ASSUME NEW m, JustOne(q, K, m), x \notin K PROVE JustOne(Append(q, x), K, m)
    BY <2>2, <2>4 DEF JustOne
  <2>5. NoneOf(q, K) /\ x \in K => JustOne(Append(q, x), K, x)
    BY <2>2 DEF NoneOf, JustOne
  <2> QED
    BY <1>2, <2>1, <2>3, <2>4, <2>5
<1> QED
  BY <1>1, <1>2

\* The same, when the message may not have been sent at all.
LEMMA SaidAndK ==
    ASSUME NEW S, NEW q \in Seq(S), NEW K, NEW r,
           \/ r = q
           \/ \E x, ok : ok \in BOOLEAN /\ x \notin K /\ r = Sent(q, x, ok)
    PROVE  /\ NoneOf(q, K) => NoneOf(r, K)
           /\ \A m : JustOne(q, K, m) => JustOne(r, K, m)
<1>1. CASE r = q
  BY <1>1
<1>2. ASSUME NEW x, NEW ok \in BOOLEAN, x \notin K, r = Sent(q, x, ok)
      PROVE  /\ NoneOf(q, K) => NoneOf(r, K)
             /\ \A m : JustOne(q, K, m) => JustOne(r, K, m)
  BY <1>2, SentAndK
<1> QED
  BY <1>1, <1>2

\* The first message is of K and was the only one, or leaves what the queue holds of
\* K alone.
LEMMA ServedAndK ==
    ASSUME NEW S, NEW q \in Seq(S), q # <<>>, NEW K
    PROVE  /\ Head(q) \notin K =>
                 /\ NoneOf(q, K) => NoneOf(Tail(q), K)
                 /\ \A m : JustOne(q, K, m) => JustOne(Tail(q), K, m)
           /\ Head(q) \in K =>
                 /\ ~NoneOf(q, K)
                 /\ \A m : JustOne(q, K, m) => m = Head(q) /\ NoneOf(Tail(q), K)
<1>1. /\ DOMAIN q = 1 .. Len(q) /\ Len(q) \in Nat /\ Len(q) # 0
      /\ DOMAIN Tail(q) = 1 .. Len(q) - 1
      /\ \A i \in 1 .. Len(q) - 1 : Tail(q)[i] = q[i + 1]
      /\ Head(q) = q[1]
  OBVIOUS
<1>2. NoneOf(q, K) => NoneOf(Tail(q), K)
  BY <1>1 DEF NoneOf
<1>3. ASSUME NEW m, JustOne(q, K, m), Head(q) \notin K PROVE JustOne(Tail(q), K, m)
  <2>1. PICK i \in DOMAIN q : q[i] = m /\ m \in K /\ \A j \in DOMAIN q : q[j] \in K => j = i
    BY <1>3 DEF JustOne
  <2>2. i # 1
    BY <1>1, <1>3, <2>1
  <2>3. i - 1 \in DOMAIN Tail(q) /\ Tail(q)[i - 1] = m
    BY <1>1, <2>1, <2>2
  <2>4. \A j \in DOMAIN Tail(q) : Tail(q)[j] \in K => j = i - 1
    BY <1>1, <2>1
  <2> QED
    BY <2>1, <2>3, <2>4 DEF JustOne
<1>4. Head(q) \in K => ~NoneOf(q, K)
  BY <1>1 DEF NoneOf
<1>5. ASSUME NEW m, JustOne(q, K, m), Head(q) \in K
      PROVE  m = Head(q) /\ NoneOf(Tail(q), K)
  BY <1>1, <1>5 DEF JustOne, NoneOf
<1> QED
  BY <1>2, <1>3, <1>4, <1>5

-----------------------------------------------------------------------------
(* Stages *)

\* What the lemmas below say of the queues about Node n.
SameOrders(n) ==
    /\ NoneOf(nodeInbox[n], Orders) => NoneOf(nodeInbox'[n], Orders)
    /\ \A m : JustOne(nodeInbox[n], Orders, m) => JustOne(nodeInbox'[n], Orders, m)
SameAnswers(n) ==
    /\ NoneOf(cosInbox, AnswersOf(n)) => NoneOf(cosInbox', AnswersOf(n))
    /\ \A m : JustOne(cosInbox, AnswersOf(n), m) => JustOne(cosInbox', AnswersOf(n), m)
SameVm(n) ==
    UNCHANGED <<vmState[n], nodeVm[n], monKnown[n], guest[n], monInbox[n]>>
SameListing(n) == \A st \in NodeStates : Listed(n, st) => Listed(n, st)'

\* Whether it stays or goes on, a VM is at a stage.
LEMMA StaysStaged ==
    ASSUME NEW n \in Nodes, Kept(n) \/ Moved(n)
    PROVE  Staged(n)'
BY DEF Kept, Moved, Staged

\* When one VM at most goes on, all are at a stage.
LEMMA OneMoves ==
    ASSUME NEW n \in Nodes, Kept(n) \/ Moved(n), \A k \in Nodes \ {n} : Kept(k)
    PROVE  OneGoesOn /\ \A k \in Nodes : Staged(k)'
<1>1. \A k \in Nodes : Staged(k)'
  BY StaysStaged
<1> QED
  BY <1>1 DEF OneGoesOn

\* A step that keeps every VM where it is.
LEMMA NoneMoves ==
    ASSUME \A k \in Nodes : Kept(k)
    PROVE  OneGoesOn /\ \A k \in Nodes : Staged(k)'
<1>1. 0 \in Nodes
  BY NumNodesAssumption DEF Nodes
<1> QED
  BY <1>1, OneMoves

\* A step that nothing about a VM is changed by leaves it at its stage.
LEMMA StagedKeeps ==
    ASSUME NEW n \in Nodes, Staged(n), SameOrders(n), SameAnswers(n), SameVm(n), SameListing(n)
    PROVE  Kept(n)
<1>1. \A st, name, known, up : Vm(n, st, name, known, up) => Vm(n, st, name, known, up)'
  BY DEF SameVm, Vm
<1>2. Quiet(n) => Quiet(n)'
  BY DEF SameOrders, SameAnswers, SameVm, Quiet
<1>3. \A m : NodeTold(n, m) => NodeTold(n, m)'
  BY DEF SameOrders, SameAnswers, SameVm, NodeTold
<1>4. \A m : CosTold(n, m) => CosTold(n, m)'
  BY DEF SameOrders, SameAnswers, SameVm, CosTold
<1>5. MonAsked(n) => MonAsked(n)'
  BY DEF SameOrders, SameAnswers, SameVm, MonAsked
<1>6. /\ Listed(n, "NULL") => Listed(n, "NULL")'
      /\ Listed(n, "IN_VM_CREATION") => Listed(n, "IN_VM_CREATION")'
      /\ Listed(n, "VM_ACTIVE") => Listed(n, "VM_ACTIVE")'
      /\ Listed(n, "IN_VM_DESTRUCTION") => Listed(n, "IN_VM_DESTRUCTION")'
  BY DEF SameListing, NodeStates
<1>7. /\ Unused(n) => Unused(n)'
      /\ Requested(n) => Requested(n)'
      /\ Coming(n) => Coming(n)'
  BY <1>1, <1>2, <1>3, <1>6 DEF Unused, Requested, Coming
<1>8. /\ Started(n) => Started(n)'
      /\ Unheard(n) => Unheard(n)'
      /\ Reported(n) => Reported(n)'
  BY <1>1, <1>2, <1>3, <1>4, <1>6 DEF Started, Unheard, Reported
<1>9. /\ InUse(n) => InUse(n)'
      /\ Retired(n) => Retired(n)'
  BY <1>1, <1>2, <1>3, <1>6 DEF InUse, Retired
<1>10. /\ Leaving(n) => Leaving(n)'
       /\ Gone(n) => Gone(n)'
  BY <1>1, <1>2, <1>3, <1>4, <1>5, <1>6 DEF Leaving, Gone
<1> QED
  BY <1>7, <1>8, <1>9, <1>10 DEF Staged, Kept

\* The stage of a VM that waits in the NodeManager's queue.
LEMMA StageOfOrder ==
    ASSUME NEW n \in Nodes, Staged(n), nodeInbox[n] \in Seq(NodeMessage), nodeInbox[n] # <<>>,
           Head(nodeInbox[n]) \in Orders
    PROVE  /\ \/ Requested(n) /\ Head(nodeInbox[n]) = CreateVmReqMsg(n, TRUE)
              \/ Started(n) /\ Head(nodeInbox[n]) = NodeNotice("NOTIFY_VM_STARTED")
              \/ Retired(n) /\ \E retOk \in BOOLEAN : Head(nodeInbox[n]) = DestroyVmReqMsg(n, retOk)
              \/ Leaving(n) /\ Head(nodeInbox[n]) = NodeNotice("SHUTDOWN_THEATER_RESP")
           /\ NoneOf(Tail(nodeInbox[n]), Orders)
           /\ NoneOf(cosInbox, AnswersOf(n))
           /\ monInbox[n] = <<>>
<1>1. ~NoneOf(nodeInbox[n], Orders)
  BY ServedAndK
<1>2. \A m : JustOne(nodeInbox[n], Orders, m) =>
         m = Head(nodeInbox[n]) /\ NoneOf(Tail(nodeInbox[n]), Orders)
  BY ServedAndK
<1>3. ~Quiet(n) /\ ~MonAsked(n) /\ \A m : ~CosTold(n, m)
  BY <1>1 DEF Quiet, MonAsked, CosTold
<1>4. \A m : NodeTold(n, m) =>
         /\ m = Head(nodeInbox[n])
         /\ NoneOf(Tail(nodeInbox[n]), Orders)
         /\ NoneOf(cosInbox, AnswersOf(n))
         /\ monInbox[n] = <<>>
  BY <1>2 DEF NodeTold
<1>5. ~(Unused(n) \/ Coming(n) \/ Unheard(n) \/ Reported(n) \/ InUse(n) \/ Gone(n))
  BY <1>3 DEF Unused, Coming, Unheard, Reported, InUse, Gone
<1> QED
  BY <1>3, <1>4, <1>5 DEF Staged, Requested, Started, Retired, Leaving

\* The stage of a VM that waits in the manager's queue.
LEMMA StageOfAnswer ==
    ASSUME NEW n \in Nodes, Staged(n), cosInbox \in Seq(CosMessage), cosInbox # <<>>,
           Head(cosInbox) \in AnswersOf(n)
    PROVE  /\ \/ Reported(n) /\ Head(cosInbox) = CosResp("CREATE_VM_RESP", n, 0)
              \/ Gone(n) /\ Head(cosInbox) = CosResp("DESTROY_VM_RESP", n, 0)
           /\ NoneOf(Tail(cosInbox), AnswersOf(n))
           /\ NoneOf(nodeInbox[n], Orders)
           /\ monInbox[n] = <<>>
<1>1. ~NoneOf(cosInbox, AnswersOf(n))
  BY ServedAndK
<1>2. \A m : JustOne(cosInbox, AnswersOf(n), m) =>
         m = Head(cosInbox) /\ NoneOf(Tail(cosInbox), AnswersOf(n))
  BY ServedAndK
<1>3. ~Quiet(n) /\ ~MonAsked(n) /\ \A m : ~NodeTold(n, m)
  BY <1>1 DEF Quiet, MonAsked, NodeTold
<1>4. \A m : CosTold(n, m) =>
         /\ m = Head(cosInbox)
         /\ NoneOf(Tail(cosInbox), AnswersOf(n))
         /\ NoneOf(nodeInbox[n], Orders)
         /\ monInbox[n] = <<>>
  BY <1>2 DEF CosTold
<1>5. ~(Unused(n) \/ Coming(n) \/ Unheard(n) \/ InUse(n) \/ Leaving(n))
  BY <1>3 DEF Unused, Coming, Unheard, InUse, Leaving
<1>6. ~(Requested(n) \/ Started(n) \/ Retired(n))
  BY <1>3 DEF Requested, Started, Retired
<1> QED
  BY <1>3, <1>4, <1>5, <1>6 DEF Staged, Reported, Gone

\* A record that was not erased and says NULL, or VM_ACTIVE, leaves one stage open; the VM
\* of one that names it came up.
LEMMA StageOfListing ==
    ASSUME NEW n \in Nodes, Staged(n), addrOk[n]
    PROVE  /\ nodeState[n] = "NULL" => Unused(n)
           /\ nodeState[n] = "VM_ACTIVE" => InUse(n)
           /\ nodeState[n] \in {"VM_ACTIVE", "IN_VM_DESTRUCTION"} => Settled(n)
<1>1. \A st : Listed(n, st) => nodeState[n] = st
  BY DEF Listed
<1>2. nodeState[n] = "NULL" =>
         ~(\/ Requested(n) \/ Coming(n) \/ Started(n) \/ Unheard(n) \/ Reported(n)
           \/ InUse(n) \/ Retired(n) \/ Leaving(n) \/ Gone(n))
  BY <1>1 DEF Requested, Coming, Started, Unheard, Reported, InUse, Retired, Leaving, Gone
<1>3. nodeState[n] = "VM_ACTIVE" =>
         ~(\/ Unused(n) \/ Requested(n) \/ Coming(n) \/ Started(n) \/ Unheard(n)
           \/ Reported(n) \/ Retired(n) \/ Leaving(n) \/ Gone(n))
  BY <1>1 DEF Unused, Requested, Coming, Started, Unheard, Reported, Retired, Leaving, Gone
<1>4. nodeState[n] \in {"VM_ACTIVE", "IN_VM_DESTRUCTION"} =>
         ~(Unused(n) \/ Requested(n) \/ Coming(n) \/ Started(n) \/ Unheard(n) \/ Reported(n))
  BY <1>1 DEF Unused, Requested, Coming, Started, Unheard, Reported
<1> QED
  BY <1>2, <1>3, <1>4 DEF Staged, Settled

-----------------------------------------------------------------------------
(* The NodeManagers and the VmMonitors *)

\* What a NodeManager says to the manager concerns its own VM.
Tells(n) ==
    \/ UNCHANGED cosInbox
    \/ \E x, ok : /\ ok \in BOOLEAN
                  /\ x \in Answers => x \in AnswersOf(n)
                  /\ cosInbox' = Sent(cosInbox, x, ok)

\* A step at one Node leaves the VMs of the others where they are.
LEMMA OneNodeStep ==
    ASSUME CloudInv, StageInv, NEW n \in Nodes, cosUp, UNCHANGED <<cosVars, nodeUp>>,
           \A k \in Nodes \ {n} : nodeInbox'[k] = nodeInbox[k] /\ SameVm(k),
           Tells(n), Kept(n) \/ Moved(n)
    PROVE  StageInv' /\ OneGoesOn
<1>q. cosInbox \in Seq(CosMessage)
  BY DEF CloudInv, QueuesOK, Short
<1>1. TableInv'
  BY DEF StageInv, TableInv, cosVars, OwnNames, UsedInOrder, ErasureEndsCreation, AddressKept
<1>2. NothingBefore'
  BY DEF NothingBefore, cosVars
<1>3. NoneOf(cosInbox, Strays)'
  <2>1. \A x : (x \in Answers => x \in AnswersOf(n)) => x \notin Strays
    BY DEF Strays, AnswersOf
  <2> QED
    BY <1>q, <2>1, SentAndK DEF Tells, StageInv
<1>4. ASSUME NEW k \in Nodes \ {n} PROVE Kept(k)
  <2>1. SameListing(k)
    BY DEF SameListing, Listed, cosVars
  <2>2. SameOrders(k)
    BY DEF SameOrders
  <2>3. SameAnswers(k)
    <3>1. \A x : (x \in Answers => x \in AnswersOf(n)) => x \notin AnswersOf(k)
      BY DEF AnswersOf
    <3>2. \/ cosInbox' = cosInbox
          \/ \E x, ok : ok \in BOOLEAN /\ x \notin AnswersOf(k) /\ cosInbox' = Sent(cosInbox, x, ok)
      BY <3>1 DEF Tells
    <3> QED
      BY <1>q, <3>2, SaidAndK DEF SameAnswers
  <2> QED
    BY <2>1, <2>2, <2>3, StagedKeeps DEF StageInv
<1> QED
  BY <1>1, <1>2, <1>3, <1>4, OneMoves DEF StageInv

\* Nothing happens at a Node before the manager runs.
LEMMA ManagerCameFirst ==
    ASSUME StageInv, NEW n \in Nodes, nodeInbox[n] # <<>> \/ guest[n] # "OFF"
    PROVE  cosUp
BY DEF StageInv, NothingBefore, Unused, Vm

\* A turn of a NodeManager's loop moves its own VM at most.
LEMMA NodeServeStages ==
    ASSUME CloudInv, StageInv, NEW n \in Nodes, NodeServe(n)
    PROVE  StageInv' /\ OneGoesOn
<1> DEFINE m == Head(nodeInbox[n])
<1>r. NodeReceive(n, cosUp) /\ UNCHANGED cosVars /\ nodeInbox[n] # <<>> /\ cosUp
  BY ManagerCameFirst DEF NodeServe, NodeReceive
<1>q. /\ cosInbox \in Seq(CosMessage)
      /\ nodeInbox \in [Nodes -> Short(NodeMessage)] /\ nodeInbox[n] \in Seq(NodeMessage)
      /\ monInbox \in [Nodes -> Short({"SHUTDOWN_THEATER_REQ"})]
  BY DEF CloudInv, QueuesOK, Short
<1>y. RecordsOK /\ MonitorsOK
  BY DEF CloudInv
<1>m. m \in NodeMessage
  BY <1>q, <1>r
<1>s. Staged(n)
  BY DEF StageInv
<1>1. CASE m \notin Orders
  <2>1. CpuNotice(n, m.type, cosUp) /\ m.type \in Notices
    BY <1>1, <1>m, <1>r DEF NodeReceive, Orders, Notices
  <2>2. Served(n) /\ UNCHANGED <<nodeVars, monInbox, monVars>>
    BY <2>1 DEF CpuNotice
  <2>3. \/ UNCHANGED cosInbox
        \/ \E ok \in BOOLEAN : cosInbox' = Sent(cosInbox, CosNotice(m.type, nodeVm[n]), ok)
    BY <2>1 DEF CpuNotice, ToCos, CosConnect, ConnectResult
  <2>4. CosNotice(m.type, nodeVm[n]) \notin Answers
    BY <2>1 DEF CosNotice, Answers, Notices
  <2>5. Tells(n)
    BY <2>3, <2>4 DEF Tells
  <2>6. SameOrders(n)
    BY <1>1, <1>q, <1>r, <2>2, ServedAndK DEF SameOrders, Served
  <2>7. SameAnswers(n)
    <3>1. CosNotice(m.type, nodeVm[n]) \notin AnswersOf(n)
      BY <2>4 DEF AnswersOf
    <3>2. \/ cosInbox' = cosInbox
          \/ \E x, ok : ok \in BOOLEAN /\ x \notin AnswersOf(n) /\ cosInbox' = Sent(cosInbox, x, ok)
      BY <2>3, <3>1
    <3> QED
      BY <1>q, <3>2, SaidAndK DEF SameAnswers
  <2>8. SameListing(n)
    BY <1>r DEF SameListing, Listed, cosVars
  <2>9. \A k \in Nodes : SameVm(k)
    BY <2>2 DEF SameVm, nodeVars, monVars
  <2>10. Kept(n)
    BY <1>s, <2>6, <2>7, <2>8, <2>9, StagedKeeps
  <2> QED
    BY <1>q, <1>r, <2>2, <2>5, <2>9, <2>10, OneNodeStep DEF Served, nodeVars
<1>2. CASE m \in Orders
  <2>o. /\ \/ Requested(n) /\ m = CreateVmReqMsg(n, TRUE)
           \/ Started(n) /\ m = NodeNotice("NOTIFY_VM_STARTED")
           \/ Retired(n) /\ \E retOk \in BOOLEAN : m = DestroyVmReqMsg(n, retOk)
           \/ Leaving(n) /\ m = NodeNotice("SHUTDOWN_THEATER_RESP")
        /\ NoneOf(Tail(nodeInbox[n]), Orders)
        /\ NoneOf(cosInbox, AnswersOf(n))
        /\ monInbox[n] = <<>>
    BY <1>2, <1>q, <1>r, <1>s, StageOfOrder
  <2>l. \A st : Listed(n, st) => Listed(n, st)'
    BY <1>r DEF Listed, cosVars
  <2>n. n \in VmNames
    BY NamesAssumption
  <2>c. /\ CosResp("CREATE_VM_RESP", n, 0) \in AnswersOf(n)
        /\ CosResp("DESTROY_VM_RESP", n, 0) \in AnswersOf(n)
    BY <2>n, AnswersAreMessages DEF AnswersOf, Answers, CosResp
  <2>s. ASSUME Served(n)
        PROVE  /\ NoneOf(nodeInbox[n], Orders)'
               /\ \A k \in Nodes \ {n} : nodeInbox'[k] = nodeInbox[k]
    BY <1>q, <2>o, <2>s DEF Served
  <2>1. CASE Requested(n) /\ m = CreateVmReqMsg(n, TRUE)
    <3>1. Vm(n, "NULL", NoName, FALSE, "OFF")
      BY <2>1 DEF Requested
    <3>h. CreateVm(n, n)
      <4>1. m.type = "CREATE_VM_REQ" /\ m.vm = n /\ m.retOk = TRUE
        BY <2>1 DEF CreateVmReqMsg
      <4> QED
        BY <1>r, <4>1 DEF NodeReceive
    <3>2. /\ vmState' = [vmState EXCEPT ![n] = "IN_CREATION"]
          /\ nodeVm' = [nodeVm EXCEPT ![n] = n]
          /\ guest' = [guest EXCEPT ![n] = "BOOTING"]
          /\ Served(n)
          /\ UNCHANGED <<nodeUp, monKnown, cosInbox, monInbox>>
      BY <3>1, <3>h DEF CreateVm, Vm
    <3>3. Vm(n, "IN_CREATION", n, FALSE, "BOOTING")'
      BY <1>y, <3>1, <3>2 DEF Vm, RecordsOK, MonitorsOK
    <3>4. Quiet(n)'
      BY <2>o, <2>s, <3>2 DEF Quiet
    <3>5. Moved(n)
      <4>1. Coming(n)'
        BY <2>1, <2>l, <3>3, <3>4 DEF Requested, Coming
      <4> QED
        BY <2>1, <4>1 DEF Moved
    <3>6. \A k \in Nodes \ {n} : SameVm(k)
      BY <1>y, <3>2 DEF SameVm, RecordsOK, MonitorsOK
    <3> QED
      BY <1>r, <2>s, <3>2, <3>5, <3>6, OneNodeStep DEF Tells
  <2>2. CASE Started(n) /\ m = NodeNotice("NOTIFY_VM_STARTED")
    <3>1. Vm(n, "IN_CREATION", n, FALSE, "RUNNING")
      BY <2>2 DEF Started
    <3>h. VmStarted(n, cosUp)
      <4>1. m.type = "NOTIFY_VM_STARTED"
        BY <2>2 DEF NodeNotice
      <4> QED
        BY <1>r, <4>1 DEF NodeReceive
    <3>2. /\ monKnown' = [monKnown EXCEPT ![n] = TRUE]
          /\ Served(n)
          /\ UNCHANGED <<nodeUp, nodeVm, monInbox, monVars>>
      BY <3>1, <3>h DEF VmStarted, Vm
    <3>3. PICK ok \in BOOLEAN :
             /\ cosInbox' = Sent(cosInbox, CosResp("CREATE_VM_RESP", n, 0), ok)
             /\ vmState' = [vmState EXCEPT ![n] = IF ok THEN "ACTIVE" ELSE "NULL"]
      BY <3>1, <3>h DEF VmStarted, Vm, CosConnect, ConnectResult
    <3>l. Listed(n, "IN_VM_CREATION")'
      BY <2>2, <2>l DEF Started
    <3>4. ASSUME ok PROVE Reported(n)'
      <4>1. Vm(n, "ACTIVE", n, TRUE, "RUNNING")'
        BY <1>y, <3>1, <3>2, <3>3, <3>4 DEF Vm, RecordsOK, MonitorsOK, monVars
      <4>2. CosTold(n, CosResp("CREATE_VM_RESP", n, 0))'
        BY <1>q, <2>c, <2>o, <2>s, <3>2, <3>3, <3>4, SentAndK DEF CosTold
      <4> QED
        BY <3>l, <4>1, <4>2 DEF Reported, CosResp
    <3>5. ASSUME ~ok PROVE Unheard(n)'
      <4>1. Vm(n, "NULL", n, TRUE, "RUNNING")'
        BY <1>y, <3>1, <3>2, <3>3, <3>5 DEF Vm, RecordsOK, MonitorsOK, monVars
      <4>2. Quiet(n)'
        BY <1>q, <2>c, <2>o, <2>s, <3>2, <3>3, <3>5, SentAndK DEF Quiet
      <4> QED
        BY <3>l, <4>1, <4>2 DEF Unheard
    <3>6. \A k \in Nodes \ {n} : SameVm(k)
      BY <1>y, <3>2, <3>3 DEF SameVm, RecordsOK, MonitorsOK, monVars
    <3>7. Tells(n)
      BY <2>c, <3>3 DEF Tells
    <3>8. Moved(n)
      BY <2>2, <3>4, <3>5 DEF Moved
    <3> QED
      BY <1>r, <2>s, <3>2, <3>6, <3>7, <3>8, OneNodeStep
  <2>3. CASE Retired(n) /\ \E retOk \in BOOLEAN : m = DestroyVmReqMsg(n, retOk)
    <3>1. Vm(n, "ACTIVE", n, TRUE, "RUNNING")
      BY <2>3 DEF Retired
    <3>2. CASE m = DestroyVmReqMsg(n, TRUE)
      <4>h. nodeVm[n] = n /\ DestroyVm(n, n, cosUp)
        <5>1. m.type = "DESTROY_VM_REQ" /\ m.vm = n /\ m.retOk = TRUE
          BY <3>2 DEF DestroyVmReqMsg
        <5> QED
          BY <1>r, <3>1, <5>1 DEF NodeReceive, Vm
      <4>1. PICK asked \in MonConnect(n) :
               /\ vmState' = [vmState EXCEPT ![n] = IF asked THEN "IN_SHUTTING_DOWN" ELSE "NULL"]
               /\ monInbox' = [monInbox EXCEPT ![n] = Sent(monInbox[n], "SHUTDOWN_THEATER_REQ", asked)]
               /\ IF asked THEN UNCHANGED cosInbox
                  ELSE ToCos(n, CosResp("DESTROY_VM_RESP", n, -1), cosUp)
        BY <3>1, <4>h DEF DestroyVm, Vm
      <4>2. asked = TRUE
        <5>1. monKnown[n]
          BY <3>1, Zenon DEF Vm
        <5>2. Len(monInbox[n]) = 0 /\ guest[n] = "RUNNING"
          BY <2>o, <3>1 DEF Vm
        <5> QED
          BY <4>1, <5>1, <5>2, BacklogAssumption DEF MonConnect, ConnectResult, HasRoom
      <4>3. Served(n) /\ UNCHANGED <<nodeUp, nodeVm, monKnown, cosKnown, monVars>>
        BY <3>1, <4>h DEF DestroyVm, Vm
      <4>4. Vm(n, "IN_SHUTTING_DOWN", n, TRUE, "RUNNING")'
        BY <1>y, <3>1, <4>1, <4>2, <4>3 DEF Vm, RecordsOK, monVars
      <4>5. monInbox'[n] = <<"SHUTDOWN_THEATER_REQ">>
        BY <1>q, <2>o, <4>1, <4>2 DEF Sent
      <4>6. MonAsked(n)'
        BY <2>o, <2>s, <4>1, <4>2, <4>3, <4>5 DEF MonAsked
      <4>7. Moved(n)
        <5>1. Leaving(n)'
          BY <2>3, <2>l, <4>4, <4>6 DEF Retired, Leaving
        <5> QED
          BY <2>3, <5>1 DEF Moved
      <4>8. \A k \in Nodes \ {n} : SameVm(k)
        BY <1>q, <1>y, <4>1, <4>3 DEF SameVm, RecordsOK, monVars
      <4> QED
        BY <1>r, <2>s, <4>1, <4>2, <4>3, <4>7, <4>8, OneNodeStep DEF Tells
    <3>3. CASE m = DestroyVmReqMsg(n, FALSE)
      <4>1. Served(n) /\ UNCHANGED <<nodeVars, cosInbox, monInbox, monVars>>
        <5>1. m.type = "DESTROY_VM_REQ" /\ m.retOk = FALSE
          BY <3>3 DEF DestroyVmReqMsg
        <5> QED
          BY <1>r, <5>1 DEF NodeReceive, Unparsed
      <4>2. Vm(n, "ACTIVE", n, TRUE, "RUNNING")'
        BY <3>1, <4>1 DEF Vm, nodeVars, monVars
      <4>3. Quiet(n)'
        BY <2>o, <2>s, <4>1 DEF Quiet
      <4>4. Moved(n)
        <5>1. InUse(n)'
          BY <2>3, <2>l, <4>2, <4>3 DEF Retired, InUse
        <5> QED
          BY <2>3, <5>1 DEF Moved
      <4>5. \A k \in Nodes \ {n} : SameVm(k)
        BY <4>1 DEF SameVm, nodeVars, monVars
      <4> QED
        BY <1>r, <2>s, <4>1, <4>4, <4>5, OneNodeStep DEF Tells, nodeVars
    <3> QED
      BY <2>3, <3>2, <3>3
  <2>4. CASE Leaving(n) /\ m = NodeNotice("SHUTDOWN_THEATER_RESP")
    <3>1. Vm(n, "IN_SHUTTING_DOWN", n, TRUE, "RUNNING")
      BY <2>4 DEF Leaving
    <3>h. monKnown[n] /\ TheaterShutDown(n, cosUp)
      <4>1. m.type = "SHUTDOWN_THEATER_RESP"
        BY <2>4 DEF NodeNotice
      <4>2. monKnown[n]
        BY <3>1, Zenon DEF Vm
      <4> QED
        BY <1>r, <4>1, <4>2 DEF NodeReceive
    <3>2. /\ vmState' = [vmState EXCEPT ![n] = "NULL"]
          /\ nodeVm' = [nodeVm EXCEPT ![n] = NoName]
          /\ monKnown' = [monKnown EXCEPT ![n] = FALSE]
          /\ Served(n)
          /\ UNCHANGED <<nodeUp, cosKnown, monInbox, monVars>>
      BY <3>h DEF TheaterShutDown
    <3>3. PICK ok \in BOOLEAN : cosInbox' = Sent(cosInbox, CosResp("DESTROY_VM_RESP", n, 0), ok)
      BY <3>1, <3>h DEF TheaterShutDown, Vm, ToCos, CosConnect, ConnectResult
    <3>4. Vm(n, "NULL", NoName, FALSE, "RUNNING")'
      BY <1>y, <3>1, <3>2 DEF Vm, RecordsOK, monVars
    <3>5. CosTold(n, CosResp("DESTROY_VM_RESP", n, 0))' \/ Quiet(n)'
      <4>1. CASE ok
        BY <1>q, <2>c, <2>o, <2>s, <3>2, <3>3, <4>1, SentAndK DEF CosTold
      <4>2. CASE ~ok
        BY <1>q, <2>c, <2>o, <2>s, <3>2, <3>3, <4>2, SentAndK DEF Quiet
      <4> QED
        BY <4>1, <4>2
    <3>6. Moved(n)
      <4>1. Gone(n)'
        BY <2>4, <2>l, <3>4, <3>5 DEF Leaving, Gone
      <4> QED
        BY <2>4, <4>1 DEF Moved
    <3>7. \A k \in Nodes \ {n} : SameVm(k)
      BY <1>y, <3>2 DEF SameVm, RecordsOK, monVars
    <3>8. Tells(n)
      BY <2>c, <3>3 DEF Tells
    <3> QED
      BY <1>r, <2>s, <3>2, <3>6, <3>7, <3>8, OneNodeStep
  <2> QED
    BY <2>o, <2>1, <2>2, <2>3, <2>4
<1> QED
  BY <1>1, <1>2

\* What a VmMonitor, or the tool in its name, sends its NodeManager.
LEMMA ToNodeWaits ==
    ASSUME CloudInv, NEW n \in Nodes, NEW type, NEW listening, ToNode(n, type, listening)
    PROVE  /\ \A k \in Nodes \ {n} : nodeInbox'[k] = nodeInbox[k]
           /\ type \in Notices => SameOrders(n)
           /\ NodeNotice(type) \in Orders /\ NoneOf(nodeInbox[n], Orders) =>
                 \/ NoneOf(nodeInbox'[n], Orders)
                 \/ JustOne(nodeInbox'[n], Orders, NodeNotice(type))
<1>q. nodeInbox \in [Nodes -> Short(NodeMessage)] /\ nodeInbox[n] \in Seq(NodeMessage)
  BY DEF CloudInv, QueuesOK, Short
<1>1. PICK ok \in BOOLEAN :
         nodeInbox' = [nodeInbox EXCEPT ![n] = Sent(nodeInbox[n], NodeNotice(type), ok)]
  BY DEF ToNode, ConnectResult
<1>2. nodeInbox'[n] = Sent(nodeInbox[n], NodeNotice(type), ok)
  BY <1>1, <1>q
<1>3. type \in Notices => NodeNotice(type) \notin Orders
  BY DEF Notices, NodeNotice, Orders
<1>4. type \in Notices => SameOrders(n)
  BY <1>q, <1>2, <1>3, SaidAndK DEF SameOrders
<1>5. CASE ok
  BY <1>1, <1>2, <1>4, <1>5, <1>q, SentAndK
<1>6. CASE ~ok
  BY <1>1, <1>2, <1>4, <1>6, <1>q, SentAndK
<1> QED
  BY <1>5, <1>6

\* A VmMonitor starts: its VM, that was coming, is started if the notice was sent.
LEMMA MonBootStages ==
    ASSUME CloudInv, StageInv, NEW n \in Nodes, MonBoot(n)
    PROVE  StageInv' /\ OneGoesOn
<1>y. MonitorsOK
  BY DEF CloudInv
<1>1. /\ guest[n] = "BOOTING"
      /\ guest' = [guest EXCEPT ![n] = "RUNNING"]
      /\ ToNode(n, "NOTIFY_VM_STARTED", nodeUp[n])
      /\ UNCHANGED <<cosInbox, monInbox, cosVars, nodeVars>>
  BY DEF MonBoot, MonStart
<1>2. Coming(n)
  BY <1>1 DEF StageInv, Staged, Unused, Requested, Started, Unheard, Reported, InUse, Retired,
              Leaving, Gone, Vm
<1>3. Vm(n, "IN_CREATION", n, FALSE, "RUNNING")'
  BY <1>1, <1>2, <1>y DEF Coming, Vm, nodeVars, MonitorsOK
<1>4. Listed(n, "IN_VM_CREATION")'
  BY <1>1, <1>2 DEF Coming, Listed, cosVars
<1>5. NodeNotice("NOTIFY_VM_STARTED") \in Orders
  BY DEF NodeNotice, Orders, NodeMessage
<1>6. Quiet(n)' \/ NodeTold(n, NodeNotice("NOTIFY_VM_STARTED"))'
  BY <1>1, <1>2, <1>5, ToNodeWaits DEF Coming, Quiet, NodeTold, NodeNotice
<1>7. Kept(n) \/ Moved(n)
  <2>1. Coming(n)' \/ Started(n)'
    BY <1>3, <1>4, <1>6 DEF Coming, Started
  <2> QED
    BY <1>2, <2>1 DEF Kept, Moved
<1>8. \A k \in Nodes \ {n} : nodeInbox'[k] = nodeInbox[k] /\ SameVm(k)
  BY <1>1, <1>y, ToNodeWaits DEF SameVm, nodeVars, MonitorsOK
<1> QED
  BY <1>1, <1>7, <1>8, ManagerCameFirst, OneNodeStep DEF Tells, nodeVars

\* A VmMonitor that takes its theater down does so for a VM that stays leaving.
LEMMA MonServeStages ==
    ASSUME CloudInv, StageInv, NEW n \in Nodes, MonServe(n)
    PROVE  StageInv' /\ OneGoesOn
<1>q. monInbox \in [Nodes -> Short({"SHUTDOWN_THEATER_REQ"})]
  BY DEF CloudInv, QueuesOK
<1>1. /\ guest[n] = "RUNNING" /\ monInbox[n] # <<>>
      /\ monInbox' = [monInbox EXCEPT ![n] = Tail(monInbox[n])]
      /\ ToNode(n, "SHUTDOWN_THEATER_RESP", nodeUp[n])
      /\ UNCHANGED <<monVars, cosInbox, cosVars, nodeVars>>
  BY DEF MonServe, MonReceive
<1>2. ~Quiet(n) /\ (\A m : ~NodeTold(n, m)) /\ \A m : ~CosTold(n, m)
  BY <1>1 DEF Quiet, NodeTold, CosTold
<1>3. Leaving(n) /\ MonAsked(n)
  <2>1. ~(Unused(n) \/ Requested(n) \/ Coming(n) \/ Started(n) \/ Unheard(n) \/ Reported(n))
    BY <1>2 DEF Unused, Requested, Coming, Started, Unheard, Reported
  <2>2. ~(InUse(n) \/ Retired(n) \/ Gone(n))
    BY <1>2 DEF InUse, Retired, Gone
  <2>3. Staged(n)
    BY DEF StageInv
  <2> QED
    BY <1>2, <2>1, <2>2, <2>3 DEF Staged, Leaving
<1>4. Vm(n, "IN_SHUTTING_DOWN", n, TRUE, "RUNNING")'
  BY <1>1, <1>3 DEF Leaving, Vm, nodeVars, monVars
<1>5. Listed(n, "IN_VM_DESTRUCTION")'
  BY <1>1, <1>3 DEF Leaving, Listed, cosVars
<1>6. NodeNotice("SHUTDOWN_THEATER_RESP") \in Orders
  BY DEF NodeNotice, Orders, NodeMessage
<1>7. monInbox'[n] = <<>>
  BY <1>1, <1>3, <1>q DEF MonAsked
<1>8. Quiet(n)' \/ NodeTold(n, NodeNotice("SHUTDOWN_THEATER_RESP"))'
  BY <1>1, <1>3, <1>6, <1>7, ToNodeWaits DEF MonAsked, Quiet, NodeTold, NodeNotice
<1>9. Kept(n)
  <2>1. Leaving(n)'
    BY <1>4, <1>5, <1>8 DEF Leaving
  <2> QED
    BY <1>3, <2>1 DEF Kept
<1>10. \A k \in Nodes \ {n} : nodeInbox'[k] = nodeInbox[k] /\ SameVm(k)
  BY <1>1, <1>q, ToNodeWaits DEF SameVm, nodeVars, monVars
<1> QED
  BY <1>1, <1>9, <1>10, ManagerCameFirst, OneNodeStep DEF Tells, nodeVars

\* A notice about the CPU hands no VM on.
LEMMA NoticeStages ==
    ASSUME CloudInv, StageInv, NEW n \in Nodes, MonIdle(n) \/ LowTool(n)
    PROVE  StageInv' /\ OneGoesOn
<1>1. /\ guest[n] # "OFF"
      /\ UNCHANGED <<guest, cosInbox, monInbox, cosVars, nodeVars>>
      /\ \/ UNCHANGED nodeInbox
         \/ \E type \in Notices : ToNode(n, type, nodeUp[n])
  BY DEF MonIdle, MonSample, LowTool, LowCpuTool, monVars, Notices
<1>2. SameOrders(n) /\ \A k \in Nodes \ {n} : nodeInbox'[k] = nodeInbox[k]
  BY <1>1, ToNodeWaits DEF SameOrders
<1>3. \A k \in Nodes : SameVm(k)
  BY <1>1 DEF SameVm, nodeVars
<1>4. SameAnswers(n)
  BY <1>1 DEF SameAnswers
<1>5. SameListing(n)
  BY <1>1 DEF SameListing, Listed, cosVars
<1>6. Kept(n)
  BY <1>2, <1>3, <1>4, <1>5, StagedKeeps DEF StageInv
<1> QED
  BY <1>1, <1>2, <1>3, <1>6, ManagerCameFirst, OneNodeStep DEF Tells, nodeVars

\* A VM that does not boot stays coming.
LEMMA NoBootStages ==
    ASSUME CloudInv, StageInv, NEW n \in Nodes, NoBoot(n)
    PROVE  StageInv' /\ OneGoesOn
<1>y. MonitorsOK
  BY DEF CloudInv
<1>1. /\ guest[n] = "BOOTING"
      /\ guest' = [guest EXCEPT ![n] = "OFF"]
      /\ UNCHANGED <<netVars, cosVars, nodeVars>>
  BY DEF NoBoot
<1>2. Coming(n)
  BY <1>1 DEF StageInv, Staged, Unused, Requested, Started, Unheard, Reported, InUse, Retired,
              Leaving, Gone, Vm
<1>3. Vm(n, "IN_CREATION", n, FALSE, "OFF")'
  BY <1>1, <1>2, <1>y DEF Coming, Vm, nodeVars, MonitorsOK
<1>4. Quiet(n)' /\ Listed(n, "IN_VM_CREATION")'
  <2>1. Quiet(n)'
    BY <1>1, <1>2 DEF Coming, Quiet, AnswersOf, netVars
  <2>2. Listed(n, "IN_VM_CREATION")'
    BY <1>1, <1>2 DEF Coming, Listed, cosVars
  <2> QED
    BY <2>1, <2>2
<1>5. Kept(n)
  <2>1. Coming(n)'
    BY <1>3, <1>4 DEF Coming
  <2> QED
    BY <1>2, <2>1 DEF Kept
<1>6. \A k \in Nodes \ {n} : nodeInbox'[k] = nodeInbox[k] /\ SameVm(k)
  BY <1>1, <1>y DEF SameVm, nodeVars, netVars, MonitorsOK
<1> QED
  BY <1>1, <1>5, <1>6, ManagerCameFirst, OneNodeStep DEF Tells, nodeVars, netVars

-----------------------------------------------------------------------------
(* The COS manager *)

\* Whatever the manager takes from its queue, the VMs it is not an answer about stay at
\* their stages, as long as their NodeManagers are sent nothing.
LEMMA TakenByManager ==
    ASSUME CloudInv, StageInv, cosInbox # <<>>, cosInbox' = Tail(cosInbox), UNCHANGED Unmanaged
    PROVE  /\ NoneOf(cosInbox, Strays)'
           /\ Head(cosInbox) \in Answers => /\ Head(cosInbox).vm \in Nodes
                                           /\ Head(cosInbox) \in AnswersOf(Head(cosInbox).vm)
           /\ \A k \in Nodes :
                 Head(cosInbox) \notin AnswersOf(k) /\ SameOrders(k) /\ SameListing(k) => Kept(k)
<1>q. cosInbox \in Seq(CosMessage)
  BY DEF CloudInv, QueuesOK, Short
<1>1. NoneOf(cosInbox, Strays)
  BY DEF StageInv
<1>2. Head(cosInbox) \notin Strays /\ NoneOf(Tail(cosInbox), Strays)
  BY <1>1, <1>q, ServedAndK
<1>3. Head(cosInbox) \in Answers => /\ Head(cosInbox).vm \in Nodes
                                   /\ Head(cosInbox) \in AnswersOf(Head(cosInbox).vm)
  BY <1>2 DEF Strays, AnswersOf
<1>4. ASSUME NEW k \in Nodes, Head(cosInbox) \notin AnswersOf(k), SameOrders(k), SameListing(k)
      PROVE  Kept(k)
  <2>1. SameVm(k)
    BY DEF SameVm, Unmanaged, nodeVars, monVars
  <2>2. SameAnswers(k)
    BY <1>4, <1>q, ServedAndK DEF SameAnswers
  <2> QED
    BY <1>4, <2>1, <2>2, StagedKeeps DEF StageInv
<1>5. NoneOf(cosInbox, Strays)'
  BY <1>2
<1> QED
  BY <1>3, <1>4, <1>5

\* The answer to a creation finds the Node that gave it (cos_main.c:376).
LEMMA CreateVmRespStages ==
    ASSUME CloudInv, CosInv, StageInv, cosUp, cosInbox # <<>>, cosInbox' = Tail(cosInbox),
           UNCHANGED <<nodeInbox, Unmanaged>>,
           Head(cosInbox).type = "CREATE_VM_RESP",
           CreateVmResp(Head(cosInbox).vm, Head(cosInbox).result)
    PROVE  StageInv' /\ OneGoesOn
<1> DEFINE m == Head(cosInbox)
<1>q. cosInbox \in Seq(CosMessage) /\ m \in CosMessage
  BY DEF CloudInv, QueuesOK, Short
<1>y. nodeState \in [Nodes -> NodeStates] /\ vmName \in [Nodes -> VmNames \cup {NoName}]
  BY DEF CloudInv, CosTypes
<1>1. PICK v \in Nodes : v = m.vm /\ m \in AnswersOf(v)
  BY <1>q, TakenByManager DEF Answers
<1>2. Staged(v)
  BY <1>1 DEF StageInv
<1>3. /\ Reported(v) /\ m = CosResp("CREATE_VM_RESP", v, 0)
      /\ NoneOf(Tail(cosInbox), AnswersOf(v))
      /\ NoneOf(nodeInbox[v], Orders)
      /\ monInbox[v] = <<>>
  BY <1>1, <1>2, <1>q, StageOfAnswer DEF CosResp
<1>4. m.result = 0
  BY <1>3 DEF CosResp
<1>5. PICK n \in Nodes :
         /\ nodeState[n] = "IN_VM_CREATION"
         /\ nodeState' = [nodeState EXCEPT ![n] = "VM_ACTIVE"]
         /\ vmName' = [vmName EXCEPT ![n] = v]
         /\ UNCHANGED <<cosUp, addrOk, cosAddrOk>>
  BY <1>1, <1>4 DEF CreateVmResp, FindNodeByState, IsFirst
<1>6. \A k \in Nodes : addrOk[k]
  <2>1. \A k \in Nodes : ~addrOk[k] => nodeState[k] = "NULL"
    BY NumNodesAssumption DEF CosInv, ErasedNodesStayUnused, Nodes
  <2> QED
    BY <1>5, <2>1 DEF StageInv, TableInv, ErasureEndsCreation
<1>7. v = n
  BY <1>1, <1>3, <1>5, <1>6 DEF Reported, Listed, CosInv, AtMostOneCreation
<1>8. Moved(v)
  <2>1. Vm(v, "ACTIVE", v, TRUE, "RUNNING")'
    BY <1>3 DEF Reported, Vm, Unmanaged, nodeVars, monVars
  <2>2. Quiet(v)'
    BY <1>3 DEF Quiet, AnswersOf, Unmanaged
  <2>3. Listed(v, "VM_ACTIVE")'
    BY <1>5, <1>7, <1>y DEF Listed
  <2>4. InUse(v)'
    BY <2>1, <2>2, <2>3 DEF InUse
  <2> QED
    BY <1>3, <2>4 DEF Moved
<1>9. ASSUME NEW k \in Nodes \ {v} PROVE Kept(k)
  <2>1. m \notin AnswersOf(k)
    BY <1>1 DEF AnswersOf
  <2>2. SameListing(k)
    BY <1>5, <1>7, <1>y DEF SameListing, Listed
  <2>3. SameOrders(k)
    BY DEF SameOrders
  <2> QED
    BY <2>1, <2>2, <2>3, TakenByManager
<1>10. TableInv'
  <2>1. nodeState'[n] = "VM_ACTIVE" /\ \A k \in Nodes \ {n} : nodeState'[k] = nodeState[k]
    BY <1>5, <1>y
  <2>2. OwnNames'
    BY <1>5, <1>7, <1>y, <2>1 DEF OwnNames, StageInv, TableInv
  <2>3. UsedInOrder'
    BY <1>5, <2>1 DEF UsedInOrder, StageInv, TableInv
  <2>4. ErasureEndsCreation'
    BY <1>5, <1>6 DEF ErasureEndsCreation
  <2>5. AddressKept'
    BY <1>5 DEF AddressKept, StageInv, TableInv
  <2> QED
    BY <2>2, <2>3, <2>4, <2>5 DEF TableInv
<1>11. NoneOf(cosInbox, Strays)'
  BY TakenByManager
<1> QED
  BY <1>5, <1>8, <1>9, <1>10, <1>11, OneMoves DEF StageInv, NothingBefore, Unmanaged, nodeVars

\* The answer to a destruction erases a tail of the table (cos_main.c:527).
LEMMA DestroyVmRespStages ==
    ASSUME CloudInv, CosInv, StageInv, cosUp, cosInbox # <<>>, cosInbox' = Tail(cosInbox),
           UNCHANGED <<nodeInbox, Unmanaged>>,
           Head(cosInbox).type = "DESTROY_VM_RESP",
           DestroyVmResp(Head(cosInbox).vm, Head(cosInbox).result)
    PROVE  StageInv' /\ OneGoesOn
<1> DEFINE m == Head(cosInbox)
<1>q. cosInbox \in Seq(CosMessage) /\ m \in CosMessage
  BY DEF CloudInv, QueuesOK, Short
<1>i. \A k \in Nodes : k \in Int
  BY NumNodesAssumption DEF Nodes
<1>1. PICK v \in Nodes : v = m.vm /\ m \in AnswersOf(v)
  BY <1>q, TakenByManager DEF Answers
<1>2. Staged(v)
  BY <1>1 DEF StageInv
<1>3. /\ Gone(v) /\ m = CosResp("DESTROY_VM_RESP", v, 0)
      /\ NoneOf(Tail(cosInbox), AnswersOf(v))
      /\ NoneOf(nodeInbox[v], Orders)
      /\ monInbox[v] = <<>>
  BY <1>1, <1>2, <1>q, StageOfAnswer DEF CosResp
<1>4. m.result = 0
  BY <1>3 DEF CosResp
<1>5. PICK n \in Nodes :
         /\ vmName[n] = v
         /\ nodeState' = [k \in Nodes |-> IF k >= n THEN "NULL" ELSE nodeState[k]]
         /\ addrOk' = [k \in Nodes |-> k < n /\ addrOk[k]]
         /\ vmName' = [k \in Nodes |-> IF k >= n THEN NoName ELSE vmName[k]]
         /\ UNCHANGED cosUp
         /\ cosAddrOk' = cosAddrOk \/ n >= 2
  BY <1>1, <1>4 DEF DestroyVmResp, FindNodeByVmName, IsFirst
<1>6. nodeState[n] \in {"VM_ACTIVE", "IN_VM_DESTRUCTION"}
  BY <1>1, <1>5, NoNameAssumption, NamesAssumption DEF StageInv, TableInv, OwnNames
<1>7. \A k \in Nodes : addrOk'[k] <=> k < n /\ addrOk[k]
  BY <1>5, Zenon
<1>8. /\ \A k \in Nodes : k >= n => ~addrOk'[k] /\ nodeState'[k] = "NULL" /\ vmName'[k] = NoName
      /\ \A k \in Nodes : ~(k >= n) =>
            (addrOk'[k] <=> addrOk[k]) /\ nodeState'[k] = nodeState[k] /\ vmName'[k] = vmName[k]
  BY <1>i, <1>5, <1>7
<1>9. \A k \in Nodes : SameListing(k)
  BY <1>8 DEF SameListing, Listed
<1>10. Kept(v)
  <2>1. Vm(v, "NULL", NoName, FALSE, "RUNNING")'
    BY <1>3 DEF Gone, Vm, Unmanaged, nodeVars, monVars
  <2>2. Quiet(v)'
    BY <1>3 DEF Quiet, AnswersOf, Unmanaged
  <2>3. Listed(v, "IN_VM_DESTRUCTION")'
    BY <1>1, <1>3, <1>9 DEF Gone, SameListing, NodeStates
  <2>4. Gone(v)'
    BY <2>1, <2>2, <2>3 DEF Gone
  <2> QED
    BY <1>3, <2>4 DEF Kept
<1>11. ASSUME NEW k \in Nodes \ {v} PROVE Kept(k)
  <2>1. m \notin AnswersOf(k)
    BY <1>1 DEF AnswersOf
  <2>2. SameOrders(k)
    BY DEF SameOrders
  <2> QED
    BY <1>9, <2>1, <2>2, TakenByManager
<1>12. TableInv'
  <2>1. \A k \in Nodes : ~(k >= n) => nodeState[k] \notin {"NULL", "IN_VM_CREATION"}
    BY <1>6, <1>i DEF StageInv, TableInv, UsedInOrder
  <2>2. OwnNames'
    BY <1>8 DEF OwnNames, StageInv, TableInv
  <2>3. UsedInOrder'
    BY <1>8, <1>i, <2>1 DEF UsedInOrder
  <2>4. ErasureEndsCreation'
    BY <1>8, <2>1 DEF ErasureEndsCreation
  <2>5. AddressKept'
    BY <1>8, <1>i DEF AddressKept
  <2> QED
    BY <2>2, <2>3, <2>4, <2>5 DEF TableInv
<1>13. NoneOf(cosInbox, Strays)'
  BY TakenByManager
<1> QED
  BY <1>5, <1>10, <1>11, <1>12, <1>13, OneMoves DEF StageInv, NothingBefore, Unmanaged, nodeVars

\* A notice that leads to no request.
LEMMA NoticeTaken ==
    ASSUME CloudInv, StageInv, cosInbox # <<>>, cosInbox' = Tail(cosInbox),
           Head(cosInbox) \notin Answers,
           UNCHANGED <<nodeInbox, Unmanaged, cosUp, nodeState, addrOk, vmName, cosAddrOk>>
    PROVE  StageInv' /\ OneGoesOn
<1>1. ASSUME NEW k \in Nodes PROVE Kept(k)
  <2>1. Head(cosInbox) \notin AnswersOf(k)
    BY DEF AnswersOf
  <2>2. SameOrders(k) /\ SameListing(k)
    BY DEF SameOrders, SameListing, Listed
  <2> QED
    BY <2>1, <2>2, TakenByManager
<1>2. TableInv'
  BY DEF StageInv, TableInv, OwnNames, UsedInOrder, ErasureEndsCreation, AddressKept
<1>3. NothingBefore'
  BY DEF StageInv, NothingBefore
<1>4. NoneOf(cosInbox, Strays)'
  BY TakenByManager
<1> QED
  BY <1>1, <1>2, <1>3, <1>4, NoneMoves DEF StageInv, Unmanaged, nodeVars

\* What a call of a stub does to the queues of the NodeManagers.
LEMMA CallWaits ==
    ASSUME CloudInv, NEW call \in Calls, Transmit(call)
    PROVE  /\ call = NoCall \/ ~call.ok => UNCHANGED nodeInbox
           /\ call # NoCall /\ call.ok =>
                 /\ addrOk'[call.node]
                 /\ Request(call) \in Orders /\ NoneOf(nodeInbox[call.node], Orders) =>
                       JustOne(nodeInbox'[call.node], Orders, Request(call))
                 /\ \A k \in Nodes \ {call.node} : nodeInbox'[k] = nodeInbox[k]
<1>q. nodeInbox \in [Nodes -> Short(NodeMessage)]
  BY DEF CloudInv, QueuesOK
<1>1. CASE call = NoCall
  BY <1>1 DEF Transmit
<1>2. CASE call # NoCall
  <2>1. call.node \in Nodes /\ call.ok \in BOOLEAN
    BY <1>2 DEF Calls
  <2>2. /\ nodeInbox' = [nodeInbox EXCEPT ![call.node] =
                            Sent(nodeInbox[call.node], Request(call), call.ok)]
        /\ call.ok => addrOk'[call.node]
    BY <1>2 DEF Transmit
  <2>3. ~call.ok => nodeInbox' = nodeInbox
    BY <1>q, <2>1, <2>2 DEF Sent
  <2>4. nodeInbox[call.node] \in Seq(NodeMessage)
    BY <1>q, <2>1 DEF Short
  <2>5. /\ nodeInbox'[call.node] = Sent(nodeInbox[call.node], Request(call), call.ok)
        /\ \A k \in Nodes \ {call.node} : nodeInbox'[k] = nodeInbox[k]
    BY <1>q, <2>1, <2>2
  <2>6. call.ok /\ Request(call) \in Orders /\ NoneOf(nodeInbox[call.node], Orders) =>
           JustOne(nodeInbox'[call.node], Orders, Request(call))
    BY <2>1, <2>4, <2>5, SentAndK
  <2> QED
    BY <1>2, <2>2, <2>3, <2>5, <2>6
<1> QED
  BY <1>1, <1>2

\* A notice of high usage leads to no call, or to one for the first free Node while no
\* Node is being created (cos_main.c:269-302, 427-459).
LEMMA CallForHighUsage ==
    ASSUME NEW vm, NEW call, NotifyHighCpuUsage(vm, call)
    PROVE  /\ UNCHANGED <<cosUp, addrOk, vmName, cosAddrOk>>
           /\ \/ call = NoCall /\ UNCHANGED nodeState
              \/ \E n \in Nodes :
                    /\ nodeState[n] = "NULL"
                    /\ \A k \in Nodes : nodeState[k] = "NULL" => n <= k
                    /\ \A k \in Nodes : nodeState[k] # "IN_VM_CREATION"
                    /\ call \in Called("CREATE_VM_REQ", n)
                    /\ nodeState' = IF call.ok
                                    THEN [nodeState EXCEPT ![n] = "IN_VM_CREATION"]
                                    ELSE nodeState
<1>1. PICK n \in Nodes :
         \/ call = NoCall /\ UNCHANGED nodeState
         \/ Stopping(Noticed(n)) = {} /\ CreateVmReq(call)
  BY DEF NotifyHighCpuUsage
<1>2. Stopping(Noticed(n)) = {} => \A k \in Nodes : nodeState[k] # "IN_VM_CREATION"
  BY DEF Stopping, StopsCheck
<1> QED
  BY <1>1, <1>2 DEF NotifyHighCpuUsage, CreateVmReq, FindNodeByState, IsFirst

\* The first free Node never had a VM, nor did the ones after it, and the VMs of those
\* before it came up, when no record is erased and none is in creation.
LEMMA FirstFree ==
    ASSUME StageInv, \A k \in Nodes : addrOk[k], NEW n \in Nodes, nodeState[n] = "NULL",
           \A k \in Nodes : nodeState[k] = "NULL" => n <= k,
           \A k \in Nodes : nodeState[k] # "IN_VM_CREATION",
           nodeState \in [Nodes -> NodeStates]
    PROVE  Askable(n)
<1>i. \A k \in Nodes : k \in Int
  BY NumNodesAssumption DEF Nodes
<1>1. ASSUME NEW k \in Nodes, k < n PROVE Settled(k)
  <2>1. nodeState[k] \in {"VM_ACTIVE", "IN_VM_DESTRUCTION"}
    BY <1>i, <1>1 DEF NodeStates
  <2> QED
    BY <2>1, StageOfListing DEF StageInv
<1>2. ASSUME NEW k \in Nodes, ~(k < n) PROVE Unused(k)
  <2>1. nodeState[k] = "NULL"
    BY <1>i, <1>2 DEF StageInv, TableInv, UsedInOrder
  <2> QED
    BY <2>1, StageOfListing DEF StageInv
<1> QED
  BY <1>1, <1>2 DEF Askable

\* The Node that is asked for a VM is unused, and the request names the manager's own
\* address: as long as a free Node can be reached no record was erased, so no erasure
\* ran on into cos_addr (cos_main.c:527).
LEMMA RequestStages ==
    ASSUME CloudInv, CosInv, StageInv, cosUp, cosInbox # <<>>, cosInbox' = Tail(cosInbox),
           UNCHANGED Unmanaged, NEW call \in Calls,
           Head(cosInbox) \notin Answers,
           NotifyHighCpuUsage(Head(cosInbox).vm, call), Transmit(call)
    PROVE  StageInv' /\ OneGoesOn
<1>c. /\ UNCHANGED <<cosUp, addrOk, vmName, cosAddrOk>>
      /\ \/ call = NoCall /\ UNCHANGED nodeState
         \/ \E n \in Nodes :
               /\ nodeState[n] = "NULL"
               /\ \A k \in Nodes : nodeState[k] = "NULL" => n <= k
               /\ \A k \in Nodes : nodeState[k] # "IN_VM_CREATION"
               /\ call \in Called("CREATE_VM_REQ", n)
               /\ nodeState' = IF call.ok
                               THEN [nodeState EXCEPT ![n] = "IN_VM_CREATION"]
                               ELSE nodeState
  BY CallForHighUsage
<1>u. UNCHANGED <<cosUp, addrOk, vmName, cosAddrOk>>
  BY <1>c
<1>y. /\ nodeState \in [Nodes -> NodeStates]
      /\ vmName \in [Nodes -> VmNames \cup {NoName}]
      /\ cosAddrOk \in BOOLEAN
  BY DEF CloudInv, CosTypes
<1>1. CASE UNCHANGED <<nodeState, nodeInbox>>
  BY <1>1, <1>u, NoticeTaken
<1>2. CASE ~UNCHANGED <<nodeState, nodeInbox>>
  <2>1. call # NoCall /\ call.ok
    <3>1. CASE call = NoCall \/ ~call.ok
      <4>1. nodeInbox' = nodeInbox
        BY <3>1, CallWaits
      <4>2. nodeState' = nodeState
        BY <1>c, <3>1 DEF NoCall, Called
      <4> QED
        BY <1>2, <4>1, <4>2
    <3> QED
      BY <3>1
  <2>2. PICK n \in Nodes :
           /\ nodeState[n] = "NULL"
           /\ \A k \in Nodes : nodeState[k] = "NULL" => n <= k
           /\ \A k \in Nodes : nodeState[k] # "IN_VM_CREATION"
           /\ call \in Called("CREATE_VM_REQ", n)
           /\ nodeState' = [nodeState EXCEPT ![n] = "IN_VM_CREATION"]
    BY <1>c, <2>1
  <2>3. call.op = "CREATE_VM_REQ" /\ call.node = n /\ addrOk[n]
    BY <2>1, <2>2 DEF Called
  <2>4. Unused(n)
    BY <2>2, <2>3, StageOfListing DEF StageInv
  <2>5. \A k \in Nodes : addrOk[k]
    BY <2>2, <2>3 DEF StageInv, TableInv, ErasureEndsCreation
  <2>6. cosAddrOk'
    BY <1>u, <2>5 DEF StageInv, TableInv, AddressKept
  <2>7. Request(call) = CreateVmReqMsg(n, TRUE)
    BY <2>3, <2>6, <1>u, <1>y DEF Request
  <2>8. Request(call) \in Orders
    <3>1. n \in VmNames
      BY NamesAssumption
    <3> QED
      BY <2>7, <3>1 DEF CreateVmReqMsg, Orders, NodeMessage
  <2>9. /\ JustOne(nodeInbox'[n], Orders, CreateVmReqMsg(n, TRUE))
        /\ \A k \in Nodes \ {n} : nodeInbox'[k] = nodeInbox[k]
    BY <2>1, <2>3, <2>4, <2>7, <2>8, CallWaits DEF Unused, Quiet
  <2>10. nodeState'[n] = "IN_VM_CREATION" /\ \A k \in Nodes \ {n} : nodeState'[k] = nodeState[k]
    BY <1>y, <2>2
  <2>11. Moved(n)
    <3>1. Vm(n, "NULL", NoName, FALSE, "OFF")'
      BY <2>4 DEF Unused, Vm, Unmanaged, nodeVars, monVars
    <3>2. NoneOf(Tail(cosInbox), AnswersOf(n))
      <4>1. Head(cosInbox) \notin AnswersOf(n) /\ cosInbox \in Seq(CosMessage)
        BY DEF AnswersOf, CloudInv, QueuesOK, Short
      <4> QED
        BY <2>4, <4>1, ServedAndK DEF Unused, Quiet
    <3>3. NodeTold(n, CreateVmReqMsg(n, TRUE))'
      BY <2>4, <2>9, <3>2 DEF NodeTold, Unused, Quiet, AnswersOf, Unmanaged, CreateVmReqMsg
    <3>4. Listed(n, "IN_VM_CREATION")'
      BY <2>10 DEF Listed
    <3>5. Requested(n)'
      BY <3>1, <3>3, <3>4 DEF Requested
    <3>6. Askable(n)
      BY <1>y, <2>2, <2>5, FirstFree
    <3> QED
      BY <2>4, <3>5, <3>6 DEF Moved
  <2>12. ASSUME NEW k \in Nodes \ {n} PROVE Kept(k)
    <3>1. Head(cosInbox) \notin AnswersOf(k)
      BY DEF AnswersOf
    <3>2. SameOrders(k) /\ SameListing(k)
      BY <1>u, <2>9, <2>10 DEF SameOrders, SameListing, Listed
    <3> QED
      BY <3>1, <3>2, TakenByManager
  <2>13. TableInv'
    <3>i. \A k \in Nodes : k \in Int
      BY NumNodesAssumption DEF Nodes
    <3>1. OwnNames'
      BY <1>u, <2>2, <2>10 DEF OwnNames, StageInv, TableInv
    <3>2. UsedInOrder'
      BY <2>2, <2>10, <3>i DEF UsedInOrder, StageInv, TableInv
    <3>3. ErasureEndsCreation'
      BY <1>u, <2>5 DEF ErasureEndsCreation
    <3>4. AddressKept'
      BY <2>6 DEF AddressKept
    <3> QED
      BY <3>1, <3>2, <3>3, <3>4 DEF TableInv
  <2>14. NoneOf(cosInbox, Strays)' /\ NothingBefore'
    BY <1>u, TakenByManager DEF NothingBefore
  <2> QED
    BY <2>11, <2>12, <2>13, <2>14, OneMoves DEF StageInv, Unmanaged, nodeVars
<1> QED
  BY <1>1, <1>2

\* A VM whose end is asked for is in use, and is the one on the Node the request goes
\* to (cos_main.c:472-496).
LEMMA RetireStages ==
    ASSUME CloudInv, CosInv, StageInv, cosUp, cosInbox # <<>>, cosInbox' = Tail(cosInbox),
           UNCHANGED Unmanaged, NEW call \in Calls,
           Head(cosInbox) \notin Answers, Head(cosInbox) \in CosMessage,
           NotifyLowCpuUsage(Head(cosInbox).vm, call), Transmit(call)
    PROVE  StageInv' /\ OneGoesOn
<1>y. /\ nodeState \in [Nodes -> NodeStates]
      /\ vmName \in [Nodes -> VmNames \cup {NoName}]
      /\ cosAddrOk \in BOOLEAN
  BY DEF CloudInv, CosTypes
<1>c. PICK n \in Nodes :
         /\ nodeState[n] = "VM_ACTIVE"
         /\ call \in Called("DESTROY_VM_REQ", n)
         /\ nodeState' = IF call.ok THEN [nodeState EXCEPT ![n] = "IN_VM_DESTRUCTION"]
                                    ELSE nodeState
         /\ UNCHANGED <<cosUp, addrOk, vmName, cosAddrOk>>
  BY DEF NotifyLowCpuUsage, FoundActive
<1>1. CASE ~call.ok
  <2>1. nodeInbox' = nodeInbox
    BY <1>1, CallWaits
  <2>2. nodeState' = nodeState
    BY <1>1, <1>c
  <2> QED
    BY <1>c, <2>1, <2>2, NoticeTaken
<1>2. CASE call.ok
  <2>1. call.op = "DESTROY_VM_REQ" /\ call.node = n /\ addrOk[n] /\ call # NoCall
    BY <1>2, <1>c DEF Called, NoCall
  <2>2. InUse(n)
    BY <1>c, <2>1, StageOfListing DEF StageInv
  <2>3. vmName[n] = n
    BY <1>c DEF StageInv, TableInv, OwnNames
  <2>4. Request(call) = DestroyVmReqMsg(n, cosAddrOk)
    BY <1>c, <2>1, <2>3 DEF Request
  <2>5. Request(call) \in Orders
    <3>1. n \in VmNames
      BY NamesAssumption
    <3> QED
      BY <1>y, <2>4, <3>1 DEF DestroyVmReqMsg, Orders, NodeMessage
  <2>6. /\ JustOne(nodeInbox'[n], Orders, DestroyVmReqMsg(n, cosAddrOk))
        /\ \A k \in Nodes \ {n} : nodeInbox'[k] = nodeInbox[k]
    BY <1>2, <2>1, <2>2, <2>4, <2>5, CallWaits DEF InUse, Quiet
  <2>7. nodeState'[n] = "IN_VM_DESTRUCTION" /\ \A k \in Nodes \ {n} : nodeState'[k] = nodeState[k]
    BY <1>2, <1>c, <1>y
  <2>8. Moved(n)
    <3>1. Vm(n, "ACTIVE", n, TRUE, "RUNNING")'
      BY <2>2 DEF InUse, Vm, Unmanaged, nodeVars, monVars
    <3>2. NoneOf(Tail(cosInbox), AnswersOf(n))
      <4>1. Head(cosInbox) \notin AnswersOf(n) /\ cosInbox \in Seq(CosMessage)
        BY DEF AnswersOf, CloudInv, QueuesOK, Short
      <4> QED
        BY <2>2, <4>1, ServedAndK DEF InUse, Quiet
    <3>3. \E retOk \in BOOLEAN : NodeTold(n, DestroyVmReqMsg(n, retOk))'
      <4>1. PICK retOk \in BOOLEAN : retOk = cosAddrOk
        BY <1>y
      <4>2. NodeTold(n, DestroyVmReqMsg(n, retOk))'
        BY <2>2, <2>6, <3>2, <4>1
           DEF NodeTold, InUse, Quiet, AnswersOf, Unmanaged, DestroyVmReqMsg
      <4> QED
        BY <4>2
    <3>4. Listed(n, "IN_VM_DESTRUCTION")'
      BY <2>7 DEF Listed
    <3>5. Retired(n)'
      BY <3>1, <3>3, <3>4 DEF Retired
    <3> QED
      BY <2>2, <3>5 DEF Moved
  <2>9. ASSUME NEW k \in Nodes \ {n} PROVE Kept(k)
    <3>1. Head(cosInbox) \notin AnswersOf(k)
      BY DEF AnswersOf
    <3>2. SameOrders(k) /\ SameListing(k)
      BY <1>c, <2>6, <2>7 DEF SameOrders, SameListing, Listed
    <3> QED
      BY <3>1, <3>2, TakenByManager
  <2>10. TableInv'
    <3>1. OwnNames'
      BY <1>c, <2>7 DEF OwnNames, StageInv, TableInv
    <3>2. UsedInOrder'
      BY <1>c, <2>7 DEF UsedInOrder, StageInv, TableInv
    <3>3. ErasureEndsCreation'
      BY <1>c, <2>7 DEF ErasureEndsCreation, StageInv, TableInv
    <3>4. AddressKept'
      BY <1>c DEF AddressKept, StageInv, TableInv
    <3> QED
      BY <3>1, <3>2, <3>3, <3>4 DEF TableInv
  <2>11. NoneOf(cosInbox, Strays)' /\ NothingBefore'
    BY <1>c, TakenByManager DEF NothingBefore
  <2> QED
    BY <2>8, <2>9, <2>10, <2>11, OneMoves DEF StageInv, Unmanaged, nodeVars
<1> QED
  BY <1>1, <1>2

\* An answer the manager turns away comes from a Node whose record is erased.
LEMMA RejectedStages ==
    ASSUME CloudInv, StageInv, cosUp, cosInbox # <<>>, cosInbox' = Tail(cosInbox),
           UNCHANGED <<nodeInbox, Unmanaged, cosVars>>, Rejected(Head(cosInbox))
    PROVE  StageInv' /\ OneGoesOn
<1>q. cosInbox \in Seq(CosMessage)
  BY DEF CloudInv, QueuesOK, Short
<1>1. CASE Head(cosInbox) \notin Answers
  BY <1>1, NoticeTaken DEF cosVars
<1>2. CASE Head(cosInbox) \in Answers
  <2>1. PICK v \in Nodes : Head(cosInbox) \in AnswersOf(v)
    BY <1>2, TakenByManager
  <2>2. /\ \/ Reported(v) /\ Head(cosInbox) = CosResp("CREATE_VM_RESP", v, 0)
           \/ Gone(v) /\ Head(cosInbox) = CosResp("DESTROY_VM_RESP", v, 0)
        /\ NoneOf(Tail(cosInbox), AnswersOf(v))
        /\ NoneOf(nodeInbox[v], Orders)
        /\ monInbox[v] = <<>>
    BY <1>q, <2>1, StageOfAnswer DEF StageInv
  <2>3. Quiet(v)'
    BY <2>2 DEF Quiet, AnswersOf, Unmanaged
  <2>4. Kept(v) \/ Moved(v)
    <3>1. CASE Reported(v) /\ Head(cosInbox) = CosResp("CREATE_VM_RESP", v, 0)
      <4>1. Vm(v, "ACTIVE", v, TRUE, "RUNNING")'
        BY <3>1 DEF Reported, Vm, Unmanaged, nodeVars, monVars
      <4>2. \A n \in Nodes : nodeState[n] # "IN_VM_CREATION"
        BY <3>1 DEF Rejected, CosResp
      <4>3. ~addrOk[v]
        BY <3>1, <4>2 DEF Reported, Listed
      <4>4. Listed(v, "VM_ACTIVE")'
        BY <4>3 DEF Listed, cosVars
      <4>5. InUse(v)'
        BY <2>3, <4>1, <4>4 DEF InUse
      <4> QED
        BY <3>1, <4>5 DEF Moved
    <3>2. CASE Gone(v)
      <4>1. Vm(v, "NULL", NoName, FALSE, "RUNNING")'
        BY <3>2 DEF Gone, Vm, Unmanaged, nodeVars, monVars
      <4>2. Listed(v, "IN_VM_DESTRUCTION")'
        BY <3>2 DEF Gone, Listed, cosVars
      <4>3. Gone(v)'
        BY <2>3, <4>1, <4>2 DEF Gone
      <4> QED
        BY <3>2, <4>3 DEF Kept
    <3> QED
      BY <2>2, <3>1, <3>2
  <2>5. ASSUME NEW k \in Nodes \ {v} PROVE Kept(k)
    <3>1. Head(cosInbox) \notin AnswersOf(k)
      BY <2>1 DEF AnswersOf
    <3>2. SameOrders(k) /\ SameListing(k)
      BY DEF SameOrders, SameListing, Listed, cosVars
    <3> QED
      BY <3>1, <3>2, TakenByManager
  <2>6. TableInv'
    BY DEF StageInv, TableInv, OwnNames, UsedInOrder, ErasureEndsCreation, AddressKept, cosVars
  <2>7. NoneOf(cosInbox, Strays)' /\ NothingBefore'
    BY TakenByManager DEF NothingBefore, cosVars
  <2> QED
    BY <2>4, <2>5, <2>6, <2>7, OneMoves DEF StageInv, Unmanaged, nodeVars
<1> QED
  BY <1>1, <1>2

\* A turn of the manager's loop moves at most the VM of which it decides.
LEMMA CosServeStages ==
    ASSUME CloudInv, CosInv, StageInv, CosServe, cosUp => cosUp'
    PROVE  StageInv' /\ OneGoesOn
<1>1. PICK call \in Calls : CosReceive(Head(cosInbox), call) /\ Transmit(call)
  BY DEF CosServe
<1>2. cosUp /\ cosUp' /\ cosInbox # <<>> /\ cosInbox' = Tail(cosInbox) /\ UNCHANGED Unmanaged
  BY <1>1 DEF CosServe, CosReceive
<1>3. Head(cosInbox) \in CosMessage
  BY <1>2 DEF CloudInv, QueuesOK, Short
<1>4. call = NoCall => UNCHANGED nodeInbox
  BY <1>1, CallWaits
<1>5. CASE /\ Head(cosInbox).type = "CREATE_VM_RESP" /\ call = NoCall
           /\ CreateVmResp(Head(cosInbox).vm, Head(cosInbox).result)
  BY <1>2, <1>4, <1>5, CreateVmRespStages
<1>6. CASE /\ Head(cosInbox).type = "DESTROY_VM_RESP" /\ call = NoCall
           /\ DestroyVmResp(Head(cosInbox).vm, Head(cosInbox).result)
  BY <1>2, <1>4, <1>6, DestroyVmRespStages
<1>7. CASE /\ Head(cosInbox).type = "NOTIFY_HIGH_CPU_USAGE"
           /\ NotifyHighCpuUsage(Head(cosInbox).vm, call)
  <2>1. Head(cosInbox) \notin Answers
    BY <1>7 DEF Answers
  <2> QED
    BY <1>1, <1>2, <1>7, <2>1, RequestStages
<1>8. CASE /\ Head(cosInbox).type = "NOTIFY_LOW_CPU_USAGE"
           /\ NotifyLowCpuUsage(Head(cosInbox).vm, call)
  <2>1. Head(cosInbox) \notin Answers
    BY <1>8 DEF Answers
  <2> QED
    BY <1>1, <1>2, <1>3, <1>8, <2>1, RetireStages
<1>9. CASE Rejected(Head(cosInbox)) /\ call = NoCall /\ UNCHANGED cosVars
  BY <1>2, <1>4, <1>9, RejectedStages
<1>10. ~PeersOverrun(Head(cosInbox), call)
  BY <1>2 DEF PeersOverrun, CosStop
<1> QED
  BY <1>1, <1>5, <1>6, <1>7, <1>8, <1>9, <1>10 DEF CosReceive

\* A notice that the manager cannot read moves no VM.
LEMMA CosRefusesStages ==
    ASSUME CloudInv, StageInv, CosRefuses
    PROVE  StageInv' /\ OneGoesOn
<1>1. Head(cosInbox) \notin Answers
  BY DEF CosRefuses, Answers
<1> QED
  BY <1>1, NoticeTaken DEF CosRefuses, cosVars

\* Neither the clock nor a step that changes nothing moves a VM.
LEMMA NothingMoves ==
    ASSUME StageInv, UNCHANGED <<cosInbox, nodeInbox, Unmanaged, cosUp, nodeState, addrOk,
                                 vmName, cosAddrOk>>
    PROVE  StageInv' /\ OneGoesOn
<1>1. ASSUME NEW k \in Nodes PROVE Kept(k)
  <2>1. SameOrders(k) /\ SameListing(k) /\ SameAnswers(k) /\ SameVm(k)
    BY DEF SameOrders, SameListing, SameAnswers, SameVm, Listed, Unmanaged, nodeVars, monVars
  <2> QED
    BY <2>1, StagedKeeps DEF StageInv
<1>2. TableInv'
  BY DEF StageInv, TableInv, OwnNames, UsedInOrder, ErasureEndsCreation, AddressKept
<1>3. NothingBefore'
  <2>1. ASSUME NEW n \in Nodes, Unused(n) PROVE Unused(n)'
    BY <2>1 DEF Unused, Vm, Quiet, Listed, AnswersOf, Unmanaged, nodeVars, monVars
  <2> QED
    BY <2>1 DEF StageInv, NothingBefore
<1> QED
  BY <1>1, <1>2, <1>3, NoneMoves DEF StageInv, Unmanaged, nodeVars

\* Nor does time.
LEMMA CosClockStages ==
    ASSUME StageInv, CosClock
    PROVE  StageInv' /\ OneGoesOn
BY NothingMoves DEF CosClock, CosTick, Unmanaged, netVars

\* main asks the first Node of the list for a VM (cos_main.c:587-588).
LEMMA CosBootStages ==
    ASSUME CloudInv, StageInv, CosBoot
    PROVE  StageInv' /\ OneGoesOn
<1>1. PICK call \in Calls : CosStart(call) /\ Transmit(call)
  BY DEF CosBoot
<1>2. /\ cosInbox = <<>> /\ cosInbox' = <<>>
      /\ \A n \in Nodes : nodeInbox[n] = <<>> /\ Unused(n)
      /\ UNCHANGED Unmanaged
  BY <1>1 DEF CosBoot, CosStart, StageInv, NothingBefore
<1>3. /\ call.op = "CREATE_VM_REQ" /\ call.node = 0 /\ call # NoCall
      /\ call.ok \in BOOLEAN
      /\ cosUp' /\ cosAddrOk' = TRUE
      /\ addrOk' = [n \in Nodes |-> TRUE]
      /\ nodeState' = [n \in Nodes |-> IF n = 0 /\ call.ok THEN "IN_VM_CREATION" ELSE "NULL"]
      /\ vmName' = [n \in Nodes |-> NoName]
  BY <1>1 DEF CosStart, NoCall
<1>0. 0 \in Nodes /\ \A n \in Nodes : n \in Int /\ 0 <= n
  BY NumNodesAssumption DEF Nodes
<1>a. \A n \in Nodes : addrOk'[n]
  BY <1>3, Zenon
<1>4. \A n \in Nodes : Vm(n, "NULL", NoName, FALSE, "OFF")' /\ monInbox'[n] = <<>>
  BY <1>2 DEF Unused, Vm, Quiet, Unmanaged, nodeVars, monVars
<1>5. \A n \in Nodes : NoneOf(cosInbox', AnswersOf(n))
  BY <1>2 DEF NoneOf
<1>6. ASSUME NEW n \in Nodes, nodeInbox'[n] = nodeInbox[n], nodeState'[n] = "NULL"
      PROVE  Kept(n)
  <2>1. NoneOf(nodeInbox'[n], Orders)
    BY <1>2, <1>6 DEF NoneOf
  <2>2. Quiet(n)'
    BY <1>4, <1>5, <2>1 DEF Quiet, AnswersOf
  <2>3. Unused(n)'
    BY <1>4, <1>6, <2>2 DEF Unused, Listed
  <2> QED
    BY <1>2, <2>3 DEF Kept
<1>7. OneGoesOn /\ \A n \in Nodes : Staged(n)'
  <2>1. CASE ~call.ok
    <3>1. nodeInbox' = nodeInbox
      BY <1>1, <2>1, CallWaits
    <3>2. \A n \in Nodes : nodeState'[n] = "NULL"
      BY <1>3, <2>1
    <3> QED
      BY <1>6, <3>1, <3>2, NoneMoves
  <2>2. CASE call.ok
    <3>1. Request(call) = CreateVmReqMsg(0, TRUE)
      BY <1>3 DEF Request
    <3>2. Request(call) \in Orders
      <4>1. 0 \in VmNames
        BY <1>0, NamesAssumption
      <4> QED
        BY <3>1, <4>1 DEF CreateVmReqMsg, Orders, NodeMessage
    <3>3. /\ JustOne(nodeInbox'[0], Orders, CreateVmReqMsg(0, TRUE))
          /\ \A k \in Nodes \ {0} : nodeInbox'[k] = nodeInbox[k]
      <4>1. NoneOf(nodeInbox[0], Orders)
        BY <1>0, <1>2 DEF NoneOf
      <4> QED
        BY <1>1, <1>3, <2>2, <3>1, <3>2, <4>1, CallWaits
    <3>4. \A k \in Nodes : nodeState'[k] = IF k = 0 THEN "IN_VM_CREATION" ELSE "NULL"
      BY <1>3, <2>2
    <3>5. NodeTold(0, CreateVmReqMsg(0, TRUE))'
      BY <1>0, <1>4, <1>5, <3>3 DEF NodeTold, AnswersOf, CreateVmReqMsg
    <3>6. Requested(0)'
      BY <1>0, <1>4, <3>4, <3>5 DEF Requested, Listed
    <3>7. Moved(0)
      <4>1. Askable(0)
        BY <1>0, <1>2 DEF Askable
      <4> QED
        BY <1>0, <1>2, <3>6, <4>1 DEF Moved
    <3>8. \A k \in Nodes \ {0} : Kept(k)
      BY <1>6, <3>3, <3>4
    <3> QED
      BY <1>0, <3>7, <3>8, OneMoves
  <2> QED
    BY <1>3, <2>1, <2>2
<1>8. TableInv'
  <2>1. OwnNames'
    BY <1>3 DEF OwnNames
  <2>2. UsedInOrder'
    BY <1>0, <1>3 DEF UsedInOrder
  <2>3. ErasureEndsCreation' /\ AddressKept'
    BY <1>3, <1>a DEF ErasureEndsCreation, AddressKept
  <2> QED
    BY <2>1, <2>2, <2>3 DEF TableInv
<1>9. NoneOf(cosInbox, Strays)' /\ NothingBefore'
  BY <1>2, <1>3 DEF NoneOf, NothingBefore
<1> QED
  BY <1>2, <1>7, <1>8, <1>9 DEF StageInv, Unmanaged, nodeVars

-----------------------------------------------------------------------------
(* The theorems *)

\* At first no VM was ever used.
LEMMA StageInvInit == ASSUME CloudInit PROVE StageInv
<1>1. /\ ~cosUp /\ cosInbox = <<>>
      /\ \A n \in Nodes : nodeInbox[n] = <<>> /\ monInbox[n] = <<>>
  BY DEF CloudInit, CosInit, NetInit
<1>2. /\ \A n \in Nodes : nodeState[n] = "NULL" /\ vmName[n] = NoName
      /\ \A n \in Nodes : vmState[n] = "NULL" /\ nodeVm[n] = NoName /\ guest[n] = "OFF"
  BY DEF CloudInit, CosInit, NodeInit, MonInit
<1>3. \A n \in Nodes : nodeUp[n] /\ monKnown[n] = FALSE /\ ~addrOk[n]
  BY Zenon DEF CloudInit, CosInit, NodeInit
<1>4. \A n \in Nodes : Unused(n)
  BY <1>1, <1>2, <1>3 DEF Unused, Vm, Quiet, NoneOf, Listed
<1>5. TableInv
  BY <1>1, <1>2, <1>3 DEF TableInv, OwnNames, UsedInOrder, ErasureEndsCreation, AddressKept
<1> QED
  BY <1>1, <1>3, <1>4, <1>5 DEF StageInv, NothingBefore, NoneOf, Staged

\* Every step keeps every VM at one stage, as long as the processes go on.
LEMMA StageStep ==
    ASSUME PeersStay, CloudInv, CosInv, StageInv, [CloudNext]_cloudVars, cosUp => cosUp'
    PROVE  StageInv' /\ OneGoesOn
<1>1. CASE CosBoot
  BY <1>1, CosBootStages
<1>2. CASE CosServe
  BY <1>2, CosServeStages
<1>3. CASE CosRefuses
  BY <1>3, CosRefusesStages
<1>4. CASE CosClock
  BY <1>4, CosClockStages
<1>5. ~CosEnds
  BY DEF CosEnds, CosStop
<1>6. ASSUME NEW n \in Nodes, NodeServe(n) PROVE StageInv' /\ OneGoesOn
  BY <1>6, NodeServeStages
<1>7. ASSUME NEW n \in Nodes, MonBoot(n) PROVE StageInv' /\ OneGoesOn
  BY <1>7, MonBootStages
<1>8. ASSUME NEW n \in Nodes, MonServe(n) PROVE StageInv' /\ OneGoesOn
  BY <1>8, MonServeStages
<1>9. ASSUME NEW n \in Nodes, MonIdle(n) \/ LowTool(n) PROVE StageInv' /\ OneGoesOn
  BY <1>9, NoticeStages
<1>10. ASSUME NEW n \in Nodes, NoBoot(n) PROVE StageInv' /\ OneGoesOn
  BY <1>10, NoBootStages
<1>11. ASSUME NEW n \in Nodes PROVE ~MonEnds(n) /\ ~NodeEnds(n) /\ ~NodeRestarts(n)
  BY DEF MonEnds, NodeEnds, NodeRestarts, Event, PeersStay
<1>12. ASSUME NEW n \in Nodes PROVE ~MonRestarts(n)
  <2>1. guest[n] # "NO_MONITOR"
    BY DEF StageInv, Staged, Unused, Requested, Coming, Started, Unheard, Reported, InUse,
           Retired, Leaving, Gone, Vm
  <2> QED
    BY <2>1 DEF MonRestarts
<1>13. CASE UNCHANGED cloudVars
  BY <1>13, NothingMoves DEF cloudVars, cosVars, netVars, Unmanaged
<1> QED
  BY <1>1, <1>2, <1>3, <1>4, <1>5, <1>6, <1>7, <1>8, <1>9, <1>10, <1>11, <1>12, <1>13
     DEF CloudNext

\* The inductive invariant holds with those of the queues and of the manager.
THEOREM StagesHold ==
    ASSUME PeersStay
    PROVE  CloudSafe /\ ManagerStays => [](CloudInv /\ CosInv /\ StageInv)
<1>1. CloudInit => StageInv
  BY StageInvInit
<1>2. CloudInv /\ CosInv /\ StageInv /\ [CloudNext]_cloudVars /\ [cosUp => cosUp']_cosVars
      => StageInv'
  <2> SUFFICES ASSUME CloudInv, CosInv, StageInv, [CloudNext]_cloudVars,
                      [cosUp => cosUp']_cosVars
               PROVE  StageInv'
    OBVIOUS
  <2>1. cosUp => cosUp'
    BY DEF cosVars
  <2> QED
    BY <2>1, StageStep
<1>3. CloudSafe => []CloudInv /\ []CosInv
  BY CloudInvariant, CloudImplementsCos, CosInvariant, PTL
<1> QED
  BY <1>1, <1>2, <1>3, PTL DEF CloudSafe, ManagerStays

\* No NodeManager meets one of its NULL vm pointers (node_main.c:241, 304, 442): every
\* request and answer finds the record in the state its handler takes for granted.
THEOREM NodesSurvive ==
    ASSUME PeersStay PROVE CloudSafe /\ ManagerStays => []NodesNeverCrash
<1>1. StageInv => NodesNeverCrash
  BY DEF StageInv, NodesNeverCrash
<1> QED
  BY <1>1, StagesHold, PTL

\* create_vm_resp (cos_main.c:376) takes the Node in creation for the one that answers,
\* and it is, or nobody is in creation.
THEOREM AnswersFindTheirNode ==
    ASSUME PeersStay PROVE CloudSafe /\ ManagerStays => []AnswersMatch
<1>1. CloudInv /\ CosInv /\ StageInv => AnswersMatch
  <2> SUFFICES ASSUME CloudInv, CosInv, StageInv, NEW i \in DOMAIN cosInbox,
                      cosInbox[i].type = "CREATE_VM_RESP"
               PROVE  /\ cosInbox[i].vm \in Nodes
                      /\ \/ nodeState[cosInbox[i].vm] = "IN_VM_CREATION"
                         \/ /\ ~addrOk[cosInbox[i].vm]
                            /\ \A n \in Nodes : nodeState[n] # "IN_VM_CREATION"
    BY DEF AnswersMatch
  <2>1. cosInbox[i] \in Answers
    BY DEF CloudInv, QueuesOK, Short, Answers
  <2>2. PICK v \in Nodes : v = cosInbox[i].vm /\ cosInbox[i] \in AnswersOf(v)
    BY <2>1 DEF StageInv, NoneOf, Strays, AnswersOf
  <2>3. /\ ~NoneOf(cosInbox, AnswersOf(v))
        /\ \A m : JustOne(cosInbox, AnswersOf(v), m) => m = cosInbox[i]
    BY <2>2 DEF NoneOf, JustOne
  <2>4. /\ ~Quiet(v) /\ ~MonAsked(v)
        /\ \A m : ~NodeTold(v, m)
        /\ \A m : CosTold(v, m) => m.type = "CREATE_VM_RESP"
    BY <2>3 DEF Quiet, MonAsked, NodeTold, CosTold
  <2>5. Reported(v)
    <3>1. ~(Unused(v) \/ Coming(v) \/ Unheard(v) \/ InUse(v) \/ Leaving(v))
      BY <2>4 DEF Unused, Coming, Unheard, InUse, Leaving
    <3>2. ~(Requested(v) \/ Started(v) \/ Retired(v) \/ Gone(v))
      <4>1. ~CosTold(v, CosResp("DESTROY_VM_RESP", v, 0))
        BY <2>4 DEF CosResp
      <4> QED
        BY <2>4, <4>1 DEF Requested, Started, Retired, Gone
    <3>3. Staged(v)
      BY DEF StageInv
    <3> QED
      BY <3>1, <3>2, <3>3 DEF Staged
  <2>6. nodeState[v] = "IN_VM_CREATION" \/ ~addrOk[v]
    BY <2>5 DEF Reported, Listed
  <2>7. ASSUME ~addrOk[v], NEW n \in Nodes PROVE nodeState[n] # "IN_VM_CREATION"
    <3>1. ~addrOk[n] => nodeState[n] = "NULL"
      BY NumNodesAssumption DEF CosInv, ErasedNodesStayUnused, Nodes
    <3> QED
      BY <2>7, <3>1 DEF StageInv, TableInv, ErasureEndsCreation
  <2> QED
    BY <2>2, <2>6, <2>7
<1> QED
  BY <1>1, StagesHold, PTL

\* A VM the manager takes for active is one: its NodeManager and the VM say the same,
\* and its name is its Node's.
THEOREM ActiveVmsAreReal ==
    ASSUME PeersStay PROVE CloudSafe /\ ManagerStays => []ActiveIsReal
<1>1. CosInv /\ StageInv => ActiveIsReal
  <2> SUFFICES ASSUME CosInv, StageInv, NEW n \in Nodes, nodeState[n] = "VM_ACTIVE"
               PROVE  /\ vmName[n] = n /\ vmState[n] = "ACTIVE" /\ nodeVm[n] = n
                      /\ guest[n] = "RUNNING"
    BY DEF ActiveIsReal
  <2>1. addrOk[n]
    BY NumNodesAssumption DEF CosInv, ErasedNodesStayUnused, Nodes
  <2>2. InUse(n)
    BY <2>1, StageOfListing DEF StageInv
  <2>3. vmName[n] = n
    BY DEF StageInv, TableInv, OwnNames
  <2> QED
    BY <2>2, <2>3 DEF InUse, Vm
<1> QED
  BY <1>1, StagesHold, PTL

\* A VmMonitor takes its theater down only when the manager asked for that, or has
\* erased its record since.
THEOREM ShutdownsAreOrdered ==
    ASSUME PeersStay PROVE CloudSafe /\ ManagerStays => []ShutdownOrdered
<1>1. StageInv => ShutdownOrdered
  <2> SUFFICES ASSUME StageInv, NEW n \in Nodes, monInbox[n] # <<>>
               PROVE  nodeState[n] = "IN_VM_DESTRUCTION" \/ ~addrOk[n]
    BY DEF ShutdownOrdered
  <2>1. ~Quiet(n) /\ (\A m : ~NodeTold(n, m)) /\ \A m : ~CosTold(n, m)
    BY DEF Quiet, NodeTold, CosTold
  <2>2. ~(Unused(n) \/ Requested(n) \/ Coming(n) \/ Started(n) \/ Unheard(n) \/ Reported(n))
    BY <2>1 DEF Unused, Requested, Coming, Started, Unheard, Reported
  <2>3. ~(InUse(n) \/ Retired(n) \/ Gone(n))
    BY <2>1 DEF InUse, Retired, Gone
  <2>4. Staged(n)
    BY DEF StageInv
  <2> QED
    BY <2>2, <2>3, <2>4 DEF Staged, Leaving, Listed
<1> QED
  BY <1>1, StagesHold, PTL

\* Every answer tells of a success.
NoFailureTold == \A i \in DOMAIN cosInbox : cosInbox[i] \in Answers => cosInbox[i].result = 0

\* While the processes go on, no answer tells of a failure: the manager's error branches
\* (cos_main.c:382, 520) are for what those that were started again answer.
THEOREM AnswersSucceed ==
    ASSUME PeersStay PROVE CloudSafe /\ ManagerStays => []NoFailureTold
<1>1. StageInv => NoFailureTold
  <2> SUFFICES ASSUME StageInv, NEW i \in DOMAIN cosInbox, cosInbox[i] \in Answers
               PROVE  cosInbox[i].result = 0
    BY DEF NoFailureTold
  <2>1. PICK v \in Nodes : cosInbox[i] \in AnswersOf(v)
    BY DEF StageInv, NoneOf, Strays, AnswersOf
  <2>2. /\ ~NoneOf(cosInbox, AnswersOf(v))
        /\ \A m : JustOne(cosInbox, AnswersOf(v), m) => m = cosInbox[i]
    BY <2>1 DEF NoneOf, JustOne
  <2>3. /\ ~Quiet(v) /\ ~MonAsked(v)
        /\ \A m : ~NodeTold(v, m)
        /\ \A m : CosTold(v, m) => m = cosInbox[i]
    BY <2>2 DEF Quiet, MonAsked, NodeTold, CosTold
  <2>4. \E type : cosInbox[i] = CosResp(type, v, 0)
    <3>1. ~(Unused(v) \/ Coming(v) \/ Unheard(v) \/ InUse(v) \/ Leaving(v))
      BY <2>3 DEF Unused, Coming, Unheard, InUse, Leaving
    <3>2. ~(Requested(v) \/ Started(v) \/ Retired(v))
      BY <2>3 DEF Requested, Started, Retired
    <3>3. Reported(v) \/ Gone(v)
      BY <3>1, <3>2 DEF StageInv, Staged
    <3> QED
      BY <2>3, <3>3 DEF Reported, Gone
  <2> QED
    BY <2>4 DEF CosResp
<1> QED
  BY <1>1, StagesHold, PTL

-----------------------------------------------------------------------------
(* Each VM leads one life: module Lifecycle is implemented *)

\* What StageOf reads off a queue of a NodeManager, and off that of the manager.
LEMMA OrdersTell ==
    ASSUME NEW q \in Seq(NodeMessage)
    PROVE  /\ NoneOf(q, Orders) =>
                 ~Waits(q, "CREATE_VM_REQ") /\ ~Waits(q, "DESTROY_VM_REQ")
                 /\ ~Waits(q, "NOTIFY_VM_STARTED")
           /\ \A m : JustOne(q, Orders, m) =>
                 /\ Waits(q, m.type)
                 /\ Waits(q, "CREATE_VM_REQ") => m.type = "CREATE_VM_REQ"
                 /\ Waits(q, "DESTROY_VM_REQ") => m.type = "DESTROY_VM_REQ"
                 /\ Waits(q, "NOTIFY_VM_STARTED") => m.type = "NOTIFY_VM_STARTED"
<1>1. \A i \in DOMAIN q : q[i] \in NodeMessage
  OBVIOUS
<1>2. ASSUME NEW i \in DOMAIN q,
             q[i].type \in {"CREATE_VM_REQ", "DESTROY_VM_REQ", "NOTIFY_VM_STARTED"}
      PROVE  q[i] \in Orders
  BY <1>1, <1>2 DEF Orders
<1>3. NoneOf(q, Orders) => ~Waits(q, "CREATE_VM_REQ") /\ ~Waits(q, "DESTROY_VM_REQ")
                           /\ ~Waits(q, "NOTIFY_VM_STARTED")
  BY <1>2 DEF NoneOf, Waits
<1>4. ASSUME NEW m, JustOne(q, Orders, m)
      PROVE  /\ Waits(q, m.type)
             /\ Waits(q, "CREATE_VM_REQ") => m.type = "CREATE_VM_REQ"
             /\ Waits(q, "DESTROY_VM_REQ") => m.type = "DESTROY_VM_REQ"
             /\ Waits(q, "NOTIFY_VM_STARTED") => m.type = "NOTIFY_VM_STARTED"
  <2>1. PICK i \in DOMAIN q : q[i] = m /\ \A j \in DOMAIN q : q[j] \in Orders => j = i
    BY <1>4 DEF JustOne
  <2>2. Waits(q, m.type)
    BY <2>1 DEF Waits
  <2>3. ASSUME NEW type \in {"CREATE_VM_REQ", "DESTROY_VM_REQ", "NOTIFY_VM_STARTED"},
               Waits(q, type)
        PROVE  m.type = type
    BY <1>2, <2>1, <2>3 DEF Waits
  <2> QED
    BY <2>2, <2>3
<1> QED
  BY <1>3, <1>4

\* A success of Node n waits at the manager.
Known(n) == \E i \in DOMAIN cosInbox : cosInbox[i] = CosResp("CREATE_VM_RESP", n, 0)

\* What the answers about a VM tell of its success.
LEMMA AnswersTell ==
    ASSUME NEW n \in Nodes
    PROVE  /\ NoneOf(cosInbox, AnswersOf(n)) => ~Known(n)
           /\ JustOne(cosInbox, AnswersOf(n), CosResp("CREATE_VM_RESP", n, 0)) => Known(n)
<1>1. CosResp("CREATE_VM_RESP", n, 0) \in AnswersOf(n)
  BY AnswersAreMessages, NamesAssumption DEF AnswersOf, Answers, CosResp
<1> QED
  BY <1>1 DEF NoneOf, JustOne, Known

\* Each stage of the proof is the one StageOf names.
Named(n) ==
    /\ Unused(n) => StageOf(n) = "UNUSED"
    /\ Requested(n) => StageOf(n) = "REQUESTED"
    /\ Coming(n) => StageOf(n) = "COMING"
    /\ Started(n) => StageOf(n) = "STARTED"
    /\ Unheard(n) => StageOf(n) = "UNHEARD"
    /\ Reported(n) => StageOf(n) = "REPORTED"
    /\ InUse(n) => StageOf(n) = "IN_USE"
    /\ Retired(n) => StageOf(n) = "RETIRED"
    /\ Leaving(n) => StageOf(n) = "LEAVING"
    /\ Gone(n) => StageOf(n) = "GONE"

\* The stages of the proof are the ones of the refinement mapping.
LEMMA StagesAreNamed ==
    ASSUME CloudInv, NEW n \in Nodes
    PROVE  Named(n)
<1>q. nodeInbox[n] \in Seq(NodeMessage)
  BY DEF CloudInv, QueuesOK, Short
<1> DEFINE c == Waits(nodeInbox[n], "CREATE_VM_REQ")
           s == Waits(nodeInbox[n], "NOTIFY_VM_STARTED")
           d == Waits(nodeInbox[n], "DESTROY_VM_REQ")
<1>1. /\ vmState[n] = "NULL" /\ guest[n] = "OFF" =>
            StageOf(n) = IF c THEN "REQUESTED" ELSE "UNUSED"
      /\ vmState[n] = "NULL" /\ guest[n] # "OFF" =>
            StageOf(n) = IF nodeVm[n] = NoName THEN "GONE" ELSE "UNHEARD"
      /\ vmState[n] = "IN_CREATION" => StageOf(n) = IF s THEN "STARTED" ELSE "COMING"
      /\ vmState[n] = "ACTIVE" =>
            StageOf(n) = IF Known(n) THEN "REPORTED" ELSE IF d THEN "RETIRED" ELSE "IN_USE"
      /\ vmState[n] = "IN_SHUTTING_DOWN" => StageOf(n) = "LEAVING"
  BY DEF StageOf, Known
<1>2. Quiet(n) => ~c /\ ~s /\ ~d /\ ~Known(n)
  BY <1>q, OrdersTell, AnswersTell DEF Quiet
<1>3. /\ NodeTold(n, CreateVmReqMsg(n, TRUE)) => c
      /\ NodeTold(n, NodeNotice("NOTIFY_VM_STARTED")) => s
      /\ \A retOk : NodeTold(n, DestroyVmReqMsg(n, retOk)) => d /\ ~Known(n)
  <2>1. /\ CreateVmReqMsg(n, TRUE).type = "CREATE_VM_REQ"
        /\ NodeNotice("NOTIFY_VM_STARTED").type = "NOTIFY_VM_STARTED"
        /\ \A retOk : DestroyVmReqMsg(n, retOk).type = "DESTROY_VM_REQ"
    BY DEF CreateVmReqMsg, NodeNotice, DestroyVmReqMsg
  <2>2. \A m : NodeTold(n, m) => Waits(nodeInbox[n], m.type) /\ ~Known(n)
    BY <1>q, OrdersTell, AnswersTell DEF NodeTold
  <2> QED
    BY <2>1, <2>2
<1>4. CosTold(n, CosResp("CREATE_VM_RESP", n, 0)) => Known(n)
  BY AnswersTell DEF CosTold
<1>5. n # NoName
  BY NoNameAssumption, NamesAssumption
<1> HIDE DEF c, s, d
<1>6. /\ Unused(n) => StageOf(n) = "UNUSED"
      /\ Requested(n) => StageOf(n) = "REQUESTED"
  BY <1>1, <1>2, <1>3 DEF Unused, Requested, Vm
<1>7. /\ Coming(n) => StageOf(n) = "COMING"
      /\ Started(n) => StageOf(n) = "STARTED"
  BY <1>1, <1>2, <1>3 DEF Coming, Started, Vm
<1>8. /\ Unheard(n) => StageOf(n) = "UNHEARD"
      /\ Gone(n) => StageOf(n) = "GONE"
  BY <1>1, <1>5 DEF Unheard, Gone, Vm
<1>9. /\ Reported(n) => StageOf(n) = "REPORTED"
      /\ InUse(n) => StageOf(n) = "IN_USE"
  BY <1>1, <1>2, <1>4 DEF Reported, InUse, Vm
<1>10. /\ Retired(n) => StageOf(n) = "RETIRED"
       /\ Leaving(n) => StageOf(n) = "LEAVING"
  BY <1>1, <1>3 DEF Retired, Leaving, Vm
<1> QED
  BY <1>6, <1>7, <1>8, <1>9, <1>10 DEF Named

AllNamed == \A n \in Nodes : Named(n)

\* A VM that stays keeps its stage's name, and one that goes on does a step of Lifecycle.
LEMMA KeptIsStutter ==
    ASSUME NEW n \in Nodes, Named(n), Named(n)', Kept(n)
    PROVE  StageOf(n)' = StageOf(n)
BY DEF Kept, Named

\* The steps that Lifecycle has for a VM, besides the request.
Goes(a, b) ==
    \/ a = "REQUESTED" /\ b = "COMING"
    \/ a = "COMING" /\ b = "STARTED"
    \/ a = "STARTED" /\ b \in {"REPORTED", "UNHEARD"}
    \/ a = "REPORTED" /\ b = "IN_USE"
    \/ a = "IN_USE" /\ b = "RETIRED"
    \/ a = "RETIRED" /\ b \in {"IN_USE", "LEAVING"}
    \/ a = "LEAVING" /\ b = "GONE"

AskedFor(n) ==
    /\ \A k \in Nodes : IF k < n THEN StageOf(k) \in Cycle!Up ELSE StageOf(k) = "UNUSED"
    /\ StageOf(n)' = "REQUESTED"

\* A VM that moves is asked for, or goes a step of Lifecycle.
LEMMA MovedGoes ==
    ASSUME AllNamed, AllNamed', NEW n \in Nodes, Moved(n)
    PROVE  AskedFor(n) \/ Goes(StageOf(n), StageOf(n)')
<1>1. Named(n) /\ Named(n)'
  BY DEF AllNamed
<1>2. CASE Unused(n) /\ Askable(n) /\ Requested(n)'
  <2>1. \A k \in Nodes : Unused(k) => StageOf(k) = "UNUSED"
    BY DEF AllNamed, Named
  <2>2. \A k \in Nodes : Settled(k) => StageOf(k) \in {"IN_USE", "RETIRED", "LEAVING", "GONE"}
    BY DEF AllNamed, Named, Settled
  <2>3. StageOf(n)' = "REQUESTED"
    BY <1>1, <1>2 DEF Named
  <2> QED
    BY <1>2, <2>1, <2>2, <2>3 DEF AskedFor, Askable, Cycle!Up
<1>3. CASE \/ Requested(n) /\ Coming(n)'
           \/ Coming(n) /\ Started(n)'
           \/ Started(n) /\ Reported(n)'
           \/ Started(n) /\ Unheard(n)'
           \/ Reported(n) /\ InUse(n)'
  BY <1>1, <1>3 DEF Named, Goes
<1>4. CASE \/ InUse(n) /\ Retired(n)'
           \/ Retired(n) /\ InUse(n)'
           \/ Retired(n) /\ Leaving(n)'
           \/ Leaving(n) /\ Gone(n)'
  BY <1>1, <1>4 DEF Named, Goes
<1> QED
  BY <1>2, <1>3, <1>4 DEF Moved

\* The stages of all VMs, as Lifecycle sees them.
AllStages == [n \in Nodes |-> StageOf(n)]

\* The mapping leaves the Nodes alone.
LEMMA CycleNodes == Cycle!Nodes = Nodes
BY DEF Cycle!Nodes, Nodes

\* So a step of the cloud is one of Lifecycle or none.
LEMMA LivesStep ==
    ASSUME AllNamed, AllNamed', OneGoesOn
    PROVE  [Cycle!LifecycleNext]_AllStages
<1>1. PICK n \in Nodes : (Kept(n) \/ Moved(n)) /\ \A k \in Nodes \ {n} : Kept(k)
  BY DEF OneGoesOn
<1>2. \A k \in Nodes \ {n} : StageOf(k)' = StageOf(k)
  BY <1>1, KeptIsStutter DEF AllNamed
<1>3. CASE Kept(n)
  <2>1. \A k \in Nodes : StageOf(k)' = StageOf(k)
    BY <1>2, <1>3, KeptIsStutter DEF AllNamed
  <2> QED
    BY <2>1 DEF AllStages
<1>4. CASE Moved(n)
  <2>1. AllStages' = [AllStages EXCEPT ![n] = StageOf(n)']
    BY <1>2 DEF AllStages
  <2>2. AllStages[n] = StageOf(n) /\ \A k \in Nodes : AllStages[k] = StageOf(k)
    BY DEF AllStages
  <2>3. ASSUME NEW b, b = StageOf(n)' PROVE Cycle!To(n, b)
    BY <2>1, <2>3 DEF Cycle!To, AllStages
  <2>4. CASE AskedFor(n)
    <3>1. Cycle!To(n, "REQUESTED")
      BY <2>3, <2>4 DEF AskedFor
    <3>2. Cycle!Request(n)
      BY <2>2, <2>4, <3>1, CycleNodes DEF AskedFor, Cycle!Request, AllStages
    <3> QED
      BY <3>2, CycleNodes DEF Cycle!LifecycleNext
  <2>5. CASE Goes(StageOf(n), StageOf(n)')
    <3>1. \/ Cycle!Create(n) \/ Cycle!Start(n) \/ Cycle!Report(n) \/ Cycle!Accept(n)
          \/ Cycle!Retire(n) \/ Cycle!Refuse(n) \/ Cycle!ShutDown(n) \/ Cycle!Finish(n)
      BY <2>2, <2>3, <2>5
         DEF Goes, Cycle!Create, Cycle!Start, Cycle!Report, Cycle!Accept, Cycle!Retire,
             Cycle!Refuse, Cycle!ShutDown, Cycle!Finish, AllStages
    <3> QED
      BY <3>1, CycleNodes DEF Cycle!LifecycleNext
  <2> QED
    BY <1>4, <2>4, <2>5, MovedGoes
<1> QED
  BY <1>1, <1>3, <1>4

\* The three programs give each VM one life, in the order of the Nodes, whatever connects
\* time out, whatever cannot be read and whatever does not boot.
THEOREM CloudImplementsLifecycle ==
    ASSUME PeersStay PROVE CloudSafe /\ ManagerStays => ImplementsLifecycle
<1>1. CloudInit => Cycle!LifecycleInit
  <2> SUFFICES ASSUME CloudInit PROVE Cycle!LifecycleInit
    OBVIOUS
  <2>1. \A n \in Nodes : Unused(n)
    BY StageInvInit DEF StageInv, NothingBefore, CloudInit, CosInit
  <2>2. \A n \in Nodes : Named(n)
    BY CloudInvInit, StagesAreNamed
  <2> QED
    BY <2>1, <2>2, CycleNodes DEF Cycle!LifecycleInit, Named
<1>2. CloudInv => AllNamed
  BY StagesAreNamed DEF AllNamed
<1>3. CloudInv /\ CosInv /\ StageInv /\ [CloudNext]_cloudVars /\ [cosUp => cosUp']_cosVars
      => OneGoesOn
  <2> SUFFICES ASSUME CloudInv, CosInv, StageInv, [CloudNext]_cloudVars,
                      [cosUp => cosUp']_cosVars
               PROVE  OneGoesOn
    OBVIOUS
  <2>1. cosUp => cosUp'
    BY DEF cosVars
  <2> QED
    BY <2>1, StageStep
<1>4. AllNamed /\ AllNamed' /\ OneGoesOn => [Cycle!LifecycleNext]_AllStages
  BY LivesStep
<1> QED
  BY <1>1, <1>2, <1>3, <1>4, StagesHold, PTL
     DEF CloudSafe, ManagerStays, ImplementsLifecycle, Cycle!LifecycleSpec, AllStages

\* While Lifecycle goes on, after a VM that is not up yet come only Nodes never used.
InTurn(s) ==
    /\ s \in [Nodes -> Cycle!Stages]
    /\ \A m, n \in Nodes : m < n /\ s[m] \notin Cycle!Up => s[n] = "UNUSED"

\* A step of one VM keeps the order of the Nodes.
LEMMA GoesInTurn ==
    ASSUME NEW s, InTurn(s), NEW n \in Nodes, NEW b,
           \/ Goes(s[n], b)
           \/ /\ b = "REQUESTED"
              /\ \A k \in Nodes : IF k < n THEN s[k] \in Cycle!Up ELSE s[k] = "UNUSED"
    PROVE  InTurn([s EXCEPT ![n] = b])
<1> DEFINE t == [s EXCEPT ![n] = b]
<1>i. \A k \in Nodes : k \in Int
  BY NumNodesAssumption DEF Nodes
<1>1. /\ t[n] = b /\ \A k \in Nodes \ {n} : t[k] = s[k]
      /\ b \in Cycle!Stages /\ t \in [Nodes -> Cycle!Stages]
  BY DEF InTurn, Goes, Cycle!Stages, Cycle!Rising, Cycle!Up
<1>2. Goes(s[n], b) => s[n] # "UNUSED" /\ (b \notin Cycle!Up => s[n] \notin Cycle!Up)
  BY DEF Goes, Cycle!Up
<1> HIDE DEF t
<1>3. ASSUME NEW k \in Nodes, NEW l \in Nodes, k < l, t[k] \notin Cycle!Up
      PROVE  t[l] = "UNUSED"
  <2>1. CASE Goes(s[n], b)
    <3>1. s[k] \notin Cycle!Up
      BY <1>1, <1>2, <1>3, <2>1
    <3>2. s[l] = "UNUSED"
      BY <1>3, <3>1 DEF InTurn
    <3> QED
      BY <1>1, <1>2, <2>1, <3>2
  <2>2. CASE \A j \in Nodes : IF j < n THEN s[j] \in Cycle!Up ELSE s[j] = "UNUSED"
    <3>1. ~(k < n) /\ l # n /\ ~(l < n)
      BY <1>i, <1>1, <1>3, <2>2
    <3> QED
      BY <1>1, <2>2, <3>1
  <2> QED
    BY <2>1, <2>2
<1> QED
  BY <1>1, <1>3 DEF InTurn, t

\* Lifecycle goes through the Nodes in order.
LEMMA LivesAreInTurn == Cycle!LifecycleSpec => []InTurn(AllStages)
<1>1. Cycle!LifecycleInit => InTurn(AllStages)
  BY CycleNodes DEF Cycle!LifecycleInit, InTurn, AllStages, Cycle!Stages
<1>2. InTurn(AllStages) /\ [Cycle!LifecycleNext]_AllStages => InTurn(AllStages)'
  <2> SUFFICES ASSUME InTurn(AllStages), [Cycle!LifecycleNext]_AllStages
               PROVE  InTurn(AllStages')
    BY DEF InTurn
  <2>1. CASE AllStages' = AllStages
    BY <2>1
  <2>2. ASSUME NEW n \in Nodes,
               \/ Cycle!Request(n) \/ Cycle!Create(n) \/ Cycle!Start(n) \/ Cycle!Report(n)
               \/ Cycle!Accept(n) \/ Cycle!Retire(n) \/ Cycle!Refuse(n) \/ Cycle!ShutDown(n)
               \/ Cycle!Finish(n)
        PROVE  \E b : /\ AllStages' = [AllStages EXCEPT ![n] = b]
                      /\ \/ Goes(AllStages[n], b)
                         \/ /\ b = "REQUESTED"
                            /\ \A k \in Nodes : IF k < n THEN AllStages[k] \in Cycle!Up
                                                         ELSE AllStages[k] = "UNUSED"
    <3>1. \A b : Cycle!To(n, b) => AllStages' = [AllStages EXCEPT ![n] = b]
      BY DEF Cycle!To, AllStages
    <3>2. CASE Cycle!Request(n)
      BY <3>1, <3>2, CycleNodes DEF Cycle!Request, AllStages
    <3>3. CASE Cycle!Create(n) \/ Cycle!Start(n)
      BY <3>1, <3>3 DEF Cycle!Create, Cycle!Start, Goes, AllStages
    <3>4. CASE Cycle!Report(n) \/ Cycle!Accept(n)
      BY <3>1, <3>4 DEF Cycle!Report, Cycle!Accept, Goes, AllStages
    <3>5. CASE Cycle!Retire(n) \/ Cycle!Refuse(n)
      BY <3>1, <3>5 DEF Cycle!Retire, Cycle!Refuse, Goes, AllStages
    <3>6. CASE Cycle!ShutDown(n) \/ Cycle!Finish(n)
      BY <3>1, <3>6 DEF Cycle!ShutDown, Cycle!Finish, Goes, AllStages
    <3> QED
      BY <2>2, <3>2, <3>3, <3>4, <3>5, <3>6
  <2>3. CASE Cycle!LifecycleNext
    <3>0. PICK n \in Nodes : \E b :
             /\ AllStages' = [AllStages EXCEPT ![n] = b]
             /\ \/ Goes(AllStages[n], b)
                \/ /\ b = "REQUESTED"
                   /\ \A k \in Nodes : IF k < n THEN AllStages[k] \in Cycle!Up
                                                ELSE AllStages[k] = "UNUSED"
      BY <2>2, <2>3, CycleNodes DEF Cycle!LifecycleNext
    <3>1. PICK b :
             /\ AllStages' = [AllStages EXCEPT ![n] = b]
             /\ \/ Goes(AllStages[n], b)
                \/ /\ b = "REQUESTED"
                   /\ \A k \in Nodes : IF k < n THEN AllStages[k] \in Cycle!Up
                                                ELSE AllStages[k] = "UNUSED"
      BY <3>0
    <3> QED
      BY <3>1, GoesInTurn
  <2> QED
    BY <2>1, <2>3
<1> QED
  BY <1>1, <1>2, PTL DEF Cycle!LifecycleSpec, AllStages

\* Nowhere in the cloud does the making of a VM cross that of another, the VMs whose
\* records the manager has erased included (cos_main.c:376, node_main.c:324).
THEOREM VmsRiseInTurn ==
    ASSUME PeersStay PROVE CloudSafe /\ ManagerStays => []OneVmRises
<1>1. InTurn(AllStages) => OneVmRises
  <2> SUFFICES ASSUME InTurn(AllStages), NEW m \in Nodes, NEW n \in Nodes,
                      StageOf(m) \in Cycle!Rising, StageOf(n) \in Cycle!Rising
               PROVE  m = n
    BY DEF OneVmRises
  <2>1. m \in Int /\ n \in Int
    BY NumNodesAssumption DEF Nodes
  <2>2. /\ AllStages[m] \notin Cycle!Up /\ AllStages[n] \notin Cycle!Up
        /\ AllStages[m] # "UNUSED" /\ AllStages[n] # "UNUSED"
    BY DEF AllStages, Cycle!Rising, Cycle!Up
  <2> QED
    BY <2>1, <2>2 DEF InTurn
<1> QED
  BY <1>1, CloudImplementsLifecycle, LivesAreInTurn, PTL DEF ImplementsLifecycle

\* A list of fewer Nodes than MAX_THEATERS leaves the peer list of every request its NULL
\* and collect_active_theaters in its array (cos_main.c:169-199): the manager is not
\* killed by its own overrun.
LEMMA NoOverrun ==
    ASSUME NumNodes < MaxTheaters, CosInv, NEW m, NEW call
    PROVE  ~PeersOverrun(m, call)
<1>1. ASSUME NEW n \in Nodes, nodeState[n] # "VM_ACTIVE"
      PROVE  Cardinality(Active) \in Nat /\ Cardinality(Active) <= NumNodes - 1
  <2>1. Active \subseteq Nodes \ {n}
    BY <1>1 DEF Active
  <2>2. IsFiniteSet(Nodes \ {n}) /\ Cardinality(Nodes \ {n}) = NumNodes - 1
    BY NodesFinite, FS_RemoveElement
  <2> QED
    BY <2>1, <2>2, FS_Subset, FS_CardinalityType
<1>2. NumNodes \in Nat /\ MaxTheaters \in Nat
  BY NumNodesAssumption, MaxTheatersAssumption
<1> QED
  BY <1>1, <1>2 DEF PeersOverrun, FindNodeByState, IsFirst

\* When nobody ends it, the manager of a short enough list goes on for ever.
THEOREM ManagerIsNotKilled ==
    ASSUME "manager_ends" \notin Events, NumNodes < MaxTheaters
    PROVE  CloudSafe => ManagerStays
<1>1. CosInv /\ [CloudNext]_cloudVars => [cosUp => cosUp']_cosVars
  <2> SUFFICES ASSUME CosInv, [CloudNext]_cloudVars, cosUp PROVE cosUp'
    OBVIOUS
  <2>1. CASE CosBoot
    BY <2>1 DEF CosBoot, CosStart
  <2>2. CASE CosServe
    <3>1. PICK call \in Calls : CosReceive(Head(cosInbox), call)
      BY <2>2 DEF CosServe
    <3> QED
      BY <3>1, NoOverrun DEF CosReceive, CreateVmResp, DestroyVmResp, NotifyHighCpuUsage,
                             NotifyLowCpuUsage, cosVars
  <2>3. CASE CosRefuses \/ CosClock
    BY <2>3 DEF CosRefuses, CosClock, CosTick, cosVars
  <2>4. ~CosEnds
    BY DEF CosEnds, Event
  <2>5. ASSUME NEW n \in Nodes, NodeServe(n) \/ MonBoot(n) \/ MonServe(n) \/ MonIdle(n)
                                \/ LowTool(n) \/ MonEnds(n) \/ MonRestarts(n) \/ NoBoot(n)
                                \/ NodeEnds(n) \/ NodeRestarts(n)
        PROVE  cosUp'
    BY <2>5 DEF NodeServe, MonBoot, MonServe, MonIdle, LowTool, MonEnds, MonRestarts, NoBoot,
                NodeEnds, NodeRestarts, cosVars
  <2>6. CASE UNCHANGED cloudVars
    BY <2>6 DEF cloudVars, cosVars
  <2> QED
    BY <2>1, <2>2, <2>3, <2>4, <2>5, <2>6 DEF CloudNext
<1>2. CloudSafe => []CosInv
  BY CloudImplementsCos, CosInvariant, PTL
<1> QED
  BY <1>1, <1>2, PTL DEF CloudSafe, ManagerStays

\* Put together, from the constants alone: on a list of fewer Nodes than MAX_THEATERS,
\* with nobody ending a process, no NodeManager dies and the manager's picture of the VMs
\* in use is right, whatever connects time out and VMs do not boot.
THEOREM ShortListsAreSafe ==
    ASSUME PeersStay, "manager_ends" \notin Events, NumNodes < MaxTheaters
    PROVE  /\ CloudSafe => [](NodesNeverCrash /\ AnswersMatch /\ ActiveIsReal /\ ShutdownOrdered)
           /\ CloudSafe => []OneVmRises /\ ImplementsLifecycle
BY ManagerIsNotKilled, NodesSurvive, AnswersFindTheirNode, ActiveVmsAreReal,
   ShutdownsAreOrdered, VmsRiseInTurn, CloudImplementsLifecycle, PTL

=============================================================================
