# COS-in-C: a TLA+ verification project

COS-in-C is a first-generation Cloud Operating System. A COS manager starts and
stops Xen virtual machines on a list of Nodes according to the CPU usage the
VMs report. This directory models its three programs and their interplay in
TLA+, from the bytes of a message up to the whole cloud, checks them with TLC on
small instances and proves the central facts about the COS manager, the whole
cloud, the transport and its messages, the VmMonitor and `exec_command` with
TLAPS.

## 1. The system

| part | source | state it keeps | operations |
|---|---|---|---|
| COS manager | `COS/cos_main.c` | `node_array` (per Node: state, address, VM name, theater, high-CPU flag and its time), `num_active_vm`, `cos_addr` | start (reads nodelist.txt, asks for a first VM), CREATE_VM_RESP, DESTROY_VM_RESP, NOTIFY_HIGH/LOW_CPU_USAGE, Ctrl-C |
| NodeManager, one per Node | `Node/node_main.c` | `vm_array` of length 1 (state, VM name, VmMonitor address), `cos__addr` | CREATE_VM_REQ, DESTROY_VM_REQ, NOTIFY_VM_STARTED, NOTIFY_HIGH/LOW, SHUTDOWN_THEATER_RESP |
| VmMonitor, one per VM | `VmMon/vmmon_main.c` | `cpu_usage_history`, `cpu_check_iteration` | start notice, a sample after every idle `accept` time-out, SHUTDOWN_THEATER_REQ |
| t_lowcpu | `VmMon/t_lowcpu.c` | none | sends a low-CPU notice in a VmMonitor's name, run by hand |
| stubs | `COS/CosManager.c`, `Node/NodeManager.c`, `VmMon/VmMonitor.c` | none | connect, convert to text, send, close |
| transport | `Common/Socket.c` | the kernel's backlog | listen (5), accept, connect, send, receive |
| codec | `*_msg.c`, `Common/ParseMsg.c` | none | message to text and back |
| exec_command | in `cos_main.c` and `vmmon_main.c` | the process's signal mask and pending signals | run a program, wait with a time-out |

Each program is one process and one thread with one loop: accept a connection,
read one message, run its handler to the end, close. A handler may itself
connect to another process and send (without waiting for an answer). All
answers are separate messages on connections of their own.

    COS manager --CREATE_VM_REQ / DESTROY_VM_REQ--> NodeManager --xm create--> VM
         ^                                            |    ^
         |   CREATE_VM_RESP / DESTROY_VM_RESP         |    | NOTIFY_VM_STARTED, HIGH, LOW,
         +---NOTIFY_HIGH / NOTIFY_LOW-----------------+    | SHUTDOWN_THEATER_RESP
                        SHUTDOWN_THEATER_REQ --> VmMonitor +

What makes it hard:

* **Three tables for one fact.** Whether a VM exists is recorded by the manager,
  by the NodeManager and by the domain itself, and updated by messages that are
  under way for a while. Low-CPU notices, destructions and creations cross.
* **Answers without a request id.** `create_vm_resp` books an answer on the first
  Node in creation, `notify_vm_started` on the first record in creation.
* **Guards on a counter.** `num_active_vm` changes with the answers only, is not
  decremented by a failed destruction, and may be overwritten by a `memset`.
* **Memory.** `destroy_vm_resp` clears `sizeof(node_array)` bytes starting at one
  record; peer lists have room for four theaters and no bound check; the
  NodeManager uses a NULL record pointer on three error paths.
* **Nothing is retried.** A request or an answer that is lost is lost.
* **Fixed buffers.** Messages are text in buffers of 128 bytes, some of which are
  written before a length is compared; a failed conversion or a failed read leaves
  a connection open or an old text in the buffer.
* **Blocking.** Sends connect from inside handlers, and `exec_command` may block
  the only thread.

What makes each part correct:

* COS manager: at most one creation at a time; a VM is asked for only on fresh
  notices of all active VMs, at the first free Node; the counter stays within its
  bounds; a Node whose record was erased is never used again; load makes it ask.
* NodeManager: never meets a request or answer in a state it cannot handle;
  reports only what happened; answers every request.
* VmMonitor: its window is the latest samples; it reports by the K out of N rule.
* transport and codec: messages are handled in order, at most once and as they were
  sent; those within the documented limits fit.
* exec_command: returns within its time-out.
* The cloud: the tables agree where they must; creations and destructions end.

## 2. The modules

| module | models | state and actions |
|---|---|---|
| `NodeList` | what all parts agree on | `Nodes` are the lines of nodelist.txt; a VM has the id of its Node as its name |
| `Cos` | COS manager | one variable per field of `node_array` and per static; one operator per handler; `CosReceive` is a turn of main's loop |
| `Network` | transport | one queue of messages per process: the connections in its backlog |
| `VmMonitor` | VmMonitor, t_lowcpu and the VM's domain | `guest`, `sampled`, `history`; `MonStart`, `MonSample`, `MonReceive`, `MonStop`, `LowCpuTool` |
| `NodeManager` | NodeManager | `vmState`, `nodeVm`, `monKnown`, `cosKnown`, `nodeUp`; one operator per handler, `NodeReceive` is a turn of main's loop |
| `Cloud` | all of it | extends `Cos` and `NodeManager`; joins the manager's calls with the network; faults; fairness |
| `MonitorRule` | VmMonitor against the K out of N rule | adds the log of all samples |
| `ExecCommand` | exec_command | one variable per thing the kernel and the caller know |
| `Placement` | what the manager promises of its Nodes | one variable, `life`; `Request`, `Answer`, `Retire`, `Abandon`, `Erase`, `Start`, `Stop` |
| `Lifecycle` | what the three programs promise together of each Node's VM | one variable, `stage`; `Request`, `Create`, `Start`, `Report`, `Accept`, `Retire`, `Refuse`, `ShutDown`, `Finish` |
| `Codec` | `*_stringify_msg`, `ParseMsg_parse`, `*_parse_msg` | operators only: a message is printed as a sequence of fields with lengths, and parsed back |
| `Wire` | transport and main's loop, byte by byte | one program, its connections, `recvbuf`'s fill, `buf`; `Connect`, `Send`, `Accept`, `Read`, `Finish`, `TimeOut`, ends |
| `Mailbox` | what a program may expect of the messages sent to it | a queue of messages; `Put`, `Fill`, `Void`, `Take`, `Lose`, `Reset` |
| `MCCos`, `MCCloud`, `MCWire` | for TLC | symmetry of the names; messages of every type |
| `CosProofs`, `CloudProofs`, `BootProofs`, `StageProofs` | proofs about the manager and the cloud | inductive invariants and theorems; each but the first extends an earlier one |
| `CodecProofs`, `WireProofs` | proofs about texts and about the transport | lemmas about `Codec`'s operators; inductive invariant, theorems and refinement of `Wire` |
| `MonitorProofs`, `ExecProofs` | proofs about `MonitorRule` and `ExecCommand` | inductive invariants and theorems |

`NodeList` is extended by `Cos` and by `Network`, `Network` by `VmMonitor`,
`VmMonitor` by `NodeManager`, and both branches by `Cloud`. `Wire` extends `Codec`
and stands beside them: it looks at a single program and refines what `Network`
takes for granted.

Four refinements connect the levels (each an `INSTANCE` or a specification of one
module checked as a property of another):

    Placement  <--  Cos  <--  Cloud  -->  Lifecycle        Mailbox  <--  Wire

* `Cos!ImplementsPlacement`: the manager, whatever messages arrive, gives VMs to Nodes
  one at a time, at the first free Node and only for the help of a VM that is
  there; a Node whose address was erased is dead until a restart. The mapping
  (`Life`) joins the state of a record with its address.
* `CosSpec` as a property of `Cloud`: the manager in the whole system.
* `Cloud!ImplementsLifecycle`: the three programs and their messages together, while no
  process is ended. `Placement` says how the manager sees its Nodes, `Lifecycle` what
  happens at them: the VM of a Node is asked for, created, heard of, used, taken down,
  and never again; and the VMs come up one after the other. The mapping (`StageOf`)
  reads the stage off the NodeManager's record, the domain, and the one message about
  the VM that is under way. It does not look at the manager's table, part of which the
  `memset` erases.
* `Wire!Delivers`: the bytes implement a mailbox. `Arrivals` and `MayBeRefused` say in
  which forms a message may arrive and which may be refused, without the text.

Points where the reading of the code matters:

* `Cos` takes its calls of the `NodeManager_*` stubs as a parameter `call` with
  the stub's result. Alone, a call may always fail and any message may arrive
  at any time, with any VM name. In `Cloud` the call decides what enters the
  NodeManager's queue. `CosSpec` is therefore the abstract specification that
  the manager in the whole system implements; the run `faults` checks it and
  `CloudProofs` proves it.
* The length of a `memset` in `destroy_vm_resp` is that of the whole table. The
  model clears this record, all later ones, and leaves open whether
  `num_active_vm` and `cos_addr`, which may follow the table in memory, are
  cleared too: that depends on the linker.
* `highAge` joins the high-CPU flag with its time. An age beyond the threshold is
  kept at `CheckTime + 1`, because the code does nothing but compare it.
* `PeersOverrun` is the undefined behaviour of a peer list without a terminator:
  the process goes on or is killed.
* A NodeManager that uses a NULL record dies (`NodeCrash`). Its VM lives on.
* The VM's domain is never shut down: that code is switched off
  (`node_main.c:430`), so a later `xm create` of the same VM fails, which nobody
  looks at. After a successful destruction the manager has erased the Node's
  address and never asks it again. After a failed one it may, when there are
  three Nodes or more (with two, the counter that a failure leaves too high stops
  all requests): `CreateVm` then leaves `guest` as it is, no start notice comes,
  and the Node stays in creation.
* A handler is one step although it does several things. Processes share no
  memory, a handler makes at most one connection that succeeds, and a process that
  ends in the middle of a handler loses its memory as it would before or after.
* A request without a return address (an erased `cos_addr`) has a field too few;
  `node_parse_msg` refuses it.
* `VmMonitor` never reports low usage: the branch is commented out
  (`vmmon_main.c:333`). Low notices come from `t_lowcpu` only.
* In `Codec` a field is a value and a length. A pointer that is not set is printed as
  "(null)"; an empty field makes no token, so that the text has a field less than
  it says; a sample that prints as 0.000000 arrives as 0.0. A notice of the COS
  manager whose five samples are all nonzero is printed with what lies behind the
  struct, up to the next 0.0. Nothing in the code bounds how many values that are,
  and "%lf" of any double has from 3 characters ("nan") to more than 300: `Strays`
  has one of each length in `StrayLens`, `MaxExtra` bounds their number for TLC
  alone. With three or more the parser refuses the notice; with long ones it is cut
  by `recvbuf`, is given up after the connect, or overruns `tempbuf`.
* `CosRefuses` in `Cloud` is the same for the whole system: a high-CPU notice may turn
  out to be unreadable when the manager parses it. t_lowcpu's history is all zero.
* In `Wire` `buf` keeps its text from one connection to the next, as main's does,
  and `AfterParse` is the 0 that `ParseMsg_parse` writes over the newline.
* What a text longer than `recvbuf` loses is in its last field (`Damaged`), or all of
  it. The bytes that are missing are copied from behind `recvbuf`; that a comma may be
  among them and begin one more field is left out. A text that overran `tempbuf` either
  fails the comparison of lengths or kills the sender.
* `parse_contlen` puts a 0 behind what was read, until it has the header
  (`Socket.c:126`). If the first read fills `recvbuf` with 128 bytes, that 0 is one byte
  behind it (`WritesBehind`). With gcc and the options of the Makefile padding and then
  `contlen` lie there, which is set right afterwards, and the program goes on; in
  another build it may end. `Read` has both outcomes.
* `TimeOut` exists for VmMonitor only: it sets a time-out on its listening socket,
  which accepted sockets inherit.
* A sender whose connection was reset before it wrote dies of SIGPIPE (`Send`).
* A VmMonitor starts in a `BOOTING` guest (`MonBoot`) or again after its end
  (`MonRestarts`).

## 3. The runs

| run | instance | checks | result |
|---|---|---|---|
| `cos` | 3 Nodes, 3 names, threshold 2, peer arrays of 2 | `TypeOK`, `AtMostOneCreation`, `ErasedNodesStayUnused`, `CounterWithinNodes`, `CounterCoversVms`, `FreeNodeWhenAsked`, `ScaleOutJustified`, `ImplementsPlacement` (refinement) | hold |
| `lifecycle` | 2 Nodes, 3 low notices, backlog 3, fair | `CreationEnds`, `DestructionEnds`, `FirstVmComes`, `GrowsWhenBusy` | hold |
| `scale_in` | 3 Nodes, 2 low notices, backlog 5 | `NodesNeverCrash`, `AnswersMatch`, `ActiveIsReal`, `ShutdownOrdered`, `OneVmRises`, `ImplementsLifecycle` (refinement) | hold |
| `faults` | 2 Nodes, any 2 events, backlog 2 with time-outs | `CloudTypeOK`, `KnownVmsBooted`, `CosSpec` (refinement) | hold |
| `wire` | buffers of 128, backlog 1, 2 senders, 3 messages, 1 end | `WireTypeOK`, `RequestsFit`, `Delivers` (refinement), `Drains` | hold |
| `monitor` | N = 5, K = 2 as in the code, 9 samples | `WindowIsRecent`, `ReportsWhenDue` | hold |
| `exec` | time-out 10, followed for 25 ticks | `FreshCallsEndInTime`, `LeftOverOnlyAfterTimeout`, `KilledOnlyAfterTimeout` | hold |
| `exec_late` | the same | `CallsEndInTime` | violated |
| `erase` | 2 Nodes, 2 low notices | `OneVmPerMessage` | violated |
| `last_vm` | 2 Nodes, 2 low notices | `LastVmStays` | violated |
| `monitor_restart` | 2 Nodes, one VmMonitor ends | `FailureIsReal` | violated |
| `peers` | 5 Nodes, peer arrays of 4 as in the code | `PeersTerminated` | violated |

What the violations show:

* `exec_late`: SIGCHLD stays blocked. After a time-out the killed child's signal is
  pending when the next call begins; that call takes it at once and then waits
  in `waitpid` without a limit, although the comment at `cos_main.c:236` says
  the wait has a time-out.
* `erase`: with VMs on Nodes 0 and 1, the destruction of the first erases the
  record of the second, against "one VM per Node" (`cos_main.c:47`).
* `last_vm`: two low notices handled before the first destruction is answered both
  pass the guard of `cos_main.c:629`.
* `monitor_restart`: the comment at `node_main.c:324` expects a problem with several
  creations; a VmMonitor that is started again is enough to make the manager
  free a Node whose VM is being created.
* `peers`: with four active VMs the peer list has no terminating NULL, which
  `NodeManager.c:66` requires.

What the passing runs show beyond their names:

* `GrowsWhenBusy`: if the manager goes on hearing of high usage from every VM that
  stays up and in use, and from some time on no notice gets stale, it always comes
  back to a state in which no usable Node is free, although each check drops a notice,
  notices cross requests and destructions, and some cannot be read. It cannot be
  stated for the notices the VmMonitors send: all of them may be refused
  (`CosRefuses`), because a busy VM has no zero in its history.
* `AnswersMatch`: a creation is answered by the Node that is in creation, or by one
  whose record was erased meanwhile; in that case no Node is in creation that
  could take the answer for its own. So the first-match lookup of
  `create_vm_resp` is safe without faults.
* `ImplementsLifecycle`, `OneVmRises`: no VM is ever created twice, none is taken down that
  the manager has not taken on, and the record of a VM on its way is not cleared in
  between, although `node_main.c:304` has a branch that does so. Of two VMs one at
  most is between its request and the manager's list, also when the manager has
  erased the record of one of them; this is the assumption of the first-match lookups.
  Both were also checked with unpaced samples and connects that time out on two
  Nodes (452,000 states) and, with VMs that do not boot, on three (796,000).
* `RequestsFit`: the longest request within the documented limits (addresses of 20
  characters, room left in the peer list) is a text of 122 bytes, 126 with the
  content length. It has to stay below 128, so that the 0 of `parse_contlen` stays
  inside `recvbuf`. A notice to the manager without an idle sample is not within the
  limits: its loop (`cos_msg.c:160`) has no end in the struct. Outside of the limits the
  run has requests that are read short (three peers of 21 characters: 129 bytes), given
  up after the connect (four peers of 17) and that overrun `tempbuf` (four peers of
  20), and notices that do the same, by their strays.
* `TypeOK`: besides the types, that `num_active_vm` runs at most one below zero for each
  Node: the memset may clear it before it is decremented, but an answer that
  lowers it erases the name by which a second one would be taken.
* `Delivers`: a message is lost only with its sender, by a VmMonitor's time-out, or
  because it cannot be read: an empty field, or a history without a zero. Each
  loss costs the descriptor. After a failed read main does parse the old text
  again, and only the overwritten newline keeps an old message from being handled
  twice: the mutant that leaves the newline is refuted.
* `Drains`: again and again a program is through with all its connections, and no
  connection stops it for good but one that its sender left open
  (`CosManager.c:73`); that one stops the COS manager and a NodeManager for ever.

Bounds, and why they are enough:

* *Nodes.* Two Nodes give creations that cross notices and destructions, and the
  erasure of one later record. Three are needed for a destruction between two
  others (`scale_in`) and for the counter and `cos_addr` cases of the `memset`
  (`cos`). Five is one more than a peer list holds (`peers`).
* *Names.* In `cos` a name can be given to two Nodes, as a wrong peer could do. In
  `Cloud` names are the Nodes' ids, as `create_vm_req` builds them, and the
  text printed for a NULL name.
* *MaxEvents* bounds what happens by hand or by accident: low notices, ends of
  processes, VMs that do not boot. Two suffice for every crossing of two faults;
  `lifecycle` takes three.
* *Backlog* is 5 in the code; queues of 2 or 3 fill sooner. `faults` has them fill
  and time out.
* *Paced* says that a VM's notice is handled before its VmMonitor samples again:
  samples are five seconds apart. It bounds the queues. Without it, and without
  connect time-outs, the COS manager and a NodeManager can block each other with
  full backlogs.
* *CheckTime* is one or two ticks: the code distinguishes only fresh from stale.
* *HistoryLen* and *KHigh* are 1 in the cloud runs, where a sample needs only the
  power to cause a notice; the run `monitor` has the code's 5 and 2.
* *Wire.* The buffers have the code's lengths and the addresses the lengths at which
  they just fit or just do not. Three messages are an old text, one that goes wrong
  and one behind it; a backlog of 1 fills. *Cuts* let a text arrive in pieces that end
  behind the header and at the last byte but one of `recvbuf`; only the number of
  bytes matters, so more cuts show the same. One end of a sender or of the program
  meets every state of three connections. *StrayLens* 3 and 26: 26 and 3 make a text of 131 bytes with its header, whose
  last stray is not read at all, 3 and 26 one that is cut inside the last, 26 and
  26 or 26 and twice 3 one that overruns `tempbuf` and fails the comparison of lengths.
  *MaxExtra* 3 passes the ten fields: one more stray is refused or given up as well.
  The proofs have any number and any lengths.
* *MaxSamples* 9 moves the whole window through four shifts.

Deadlock is checked in all runs but `faults` and `wire`. In `wire` a sender that kept
its connection open stops the program. In `faults` a fault (a first request that
could not be sent, a NodeManager whose answer is lost) can leave the system with
nothing to do, which is what the code does.

Fairness (`Cloud!Fairness`): weak fairness of the manager's start and loop, of each
NodeManager's loop, of each VmMonitor's start and loop. The manager's loop may handle
a high-CPU notice or refuse it: fairness is for either. Each is a process that
waits in `accept` with a connection in its backlog, or a VM that boots; the
operating system runs them. The clock, the samples and the events have none:
`GrowsWhenBusy` states what it needs of them as its assumption.
`Wire!WireFairness`: a sender that has its connection goes on to its end, the program
goes on, the network delivers what was written, and a read with a time-out ends.
Nothing obliges a process to connect or to end.
`lifecycle` has no connect time-outs and no faults: with them creations need not
end, because nothing is retried. `DestructionEnds` is stated for a manager
whose `cos_addr` is intact, because a request without it is refused and the Node
then stays in destruction.

## 4. The proofs

`CosProofs` proves, for every number of Nodes, every threshold, every peer limit
and whatever messages arrive, that `CosSpec` implies

* `TypeCorrect`: `TypeOK`, the lower end of the counter included;
* `OneCreation`, `ErasedForGood`, `CounterBounded`, `CounterCovers`,
  `FreeNodeExists`: the other invariants of the run `cos`;
* `ScaleOutOnlyWhenAllHigh`: its action property;
* `ShortPeerListsEnd`: `PeersTerminated`, for no more Nodes than MAX_THEATERS. The run
  `peers` refutes it with one Node more, so the bound is exact.

The inductive invariant `CosInv` (theorem `CosInvariant`) is the conjunction of
the types (`CosTypes`), `AtMostOneCreation`, `ErasedNodesStayUnused`, `CounterWithinNodes`,
`CounterCoversVms`, `CounterAboveErased` and `CreationLeavesRoom`. The last one is needed because the
limit is tested when a VM is asked for and the counter grows when it comes:
while a VM is in creation the counter is below the number of Nodes. It can only
be kept because two VMs are never in creation together. `CounterCoversVms` counts
Nodes, so its step uses the library's facts about cardinalities: a step moves at
most one Node into or out of the set that holds VMs, until a record is erased.
`CounterAboveErased` bounds the counter from below by the number of erased records: a
success is booked on a Node with a name, which is not erased, and erases it.
`FreeNodeWhenAsked` follows: if the counter is below the number of Nodes then the
Nodes that hold a VM do not fill the table, and none is in creation; if a record
is erased, that Node is free.

The lemmas `CosCases` (what a step can be), `CreateVmReqEffect` and
`NotifyHighEffect` (what the handlers do, whichever branch they take) are cited by
all the others. The assumptions used are those of `NodeList` and `Cos`: at least one
Node, a name that is no VM's, a threshold and a limit in Nat.

`ExecProofs` proves for every time-out that calls that begin without a pending
signal keep it (`FreshCallsAreTimed`), that a signal is left over only after a
time-out (`SignalsAreConsumed`) and when children are killed (`KillsAreInTime`).
`ExecInv` strengthens them with what is known at each place: whether the child is
dead, and that a call with an inherited signal still has it pending while it
sleeps, so that it can never see its own time-out.

`RefinesPlacement` (in `CosProofs`) proves `CosSpec => ImplementsPlacement`: lemma by
lemma each handler maps to a step of `Placement` or to none. It needs
`AtMostOneCreation` (a request is made only when no other is under way),
`ErasedNodesStayUnused` (the erased Nodes are the last, so that the first free
record is the first free Node) and `NoTableWhenDown` (a manager that starts finds
every Node dead); `LifeOf` and `OneLifeChanges` carry the mapping.

`CloudProofs` proves of the whole system, for every number of Nodes, backlog, history
and set of events, with and without connect time-outs:

* `CloudInvariant`: `CloudInv`, that is `CosTypes`, the types and lengths of the queues
  (`QueuesOK`), of the NodeManagers' records (`RecordsOK`) and of the VMs
  (`MonitorsOK`), and `NamesKnown`: what a NodeManager or the manager holds as a name
  it can put into a message is a name. `CloudTyped` follows with `TypeCorrect`.
* `CloudImplementsCos`: every step of `Cloud` is a step of `Cos` or leaves the manager
  alone. The invariant is needed because `CosReceive` expects a message of the
  type `CosMessage` at the head of the queue. With it `TypeCorrect` to
  `RefinesPlacement` hold of the whole system; `CloudImplementsPlacement` is one case.

`BootProofs` proves `ListedVmsBooted`, that is `KnownVmsBooted`, under all events. The
invariant `BootInv` follows the news of a VM through the system: a start notice in a
NodeManager's queue, a success in the manager's queue and a name in its table are each
there only when the VM they name has booted (`NewsIsTrue`, `ListedBooted`), and a
NodeManager's record in use names the VM of its own Node (`OwnVm`), which is what
makes the name in a success the name of the VM whose start notice came.

`MonitorProofs` proves for every N and K, any number of samples and any restarts that
the shifted array is the latest N samples (`WindowAlwaysRecent`) and that a notice is
sent exactly when K of them are high (`ReportsByTheRule`). The counts are over different
sets, positions of the array and positions of the log; `SameCount` has the bijection
between them. `ReportsByTheRule` assumes that connects do not time out: with a full
backlog and a time-out the notice is lost.

`StageProofs` proves that the three parties of a VM agree about it: the manager's record,
the NodeManager's record, the VM itself and the messages about it, for every number of
Nodes, every backlog, with and without connects that time out, paced or not, with VMs
that do not boot and any number of low-CPU notices:

* `StagesHold`: `StageInv` holds next to `CloudInv` and `CosInv`;
* `NodesSurvive` (`NodesNeverCrash`), `AnswersFindTheirNode` (`AnswersMatch`),
  `ActiveVmsAreReal` (`ActiveIsReal`), `ShutdownsAreOrdered` (`ShutdownOrdered`): the
  invariants of the run `scale_in`;
* `AnswersSucceed`: no answer tells of a failure;
* `CloudImplementsLifecycle` (`ImplementsLifecycle`), `VmsRiseInTurn` (`OneVmRises`): its
  refinement and the order of the VMs.

None of these is inductive: whether an answer finds its Node depends on what the
NodeManager did when it was asked, which depends on how the VM stood then. `StageInv` therefore follows each VM through its life. It is at one
of ten stages: `Unused`, `Requested`, `Coming`, `Started`, `Unheard` (the success could not be sent),
`Reported`, `InUse`, `Retired`, `Leaving`, `Gone`. A stage fixes the two records, the VM, and which one
order or answer about it is under way, if any (`JustOne`): one party at a time has the VM
to hand on. Notices about CPU usage are not among these messages, and may cross
them in any number. Three facts of the manager's table join the stages of different
Nodes: names are the Nodes' own (`OwnNames`), Nodes are used from the first on
(`UsedInOrder`), and once a record is erased none is free or in creation any more
(`ErasureEndsCreation`), so that a late success finds either its own Node or none.
A lemma per action moves one VM on and shows by the lemmas about queues (`SentAndK`,
`ServedAndK`) that every other one stays where it is. TLC checked `StageInv` on three Nodes
(864,000 states) before it was proved.

For the refinement of `Lifecycle` the same lemmas say more: not only that every VM is at some
stage after the step, but which one moved and where to. `Kept` says that a VM stays at its
stage, `Moved` lists the moves there are, and every action ends in `StageInv' /\ OneGoesOn`:
one VM moves at most. A VM is asked for only at `Askable` Nodes, where every earlier one is
`Settled`; that these are the first ones never used is the part of `StageInv` about
different Nodes (`UsedInOrder`, `ErasureEndsCreation`) and of the manager's check of all Nodes.
`StagesAreNamed` shows that the stages of the invariant are the values of the mapping
`StageOf`, so that `Moved` becomes a step of `Lifecycle` (`MovedGoes`, `LivesStep`).
`OneVmRises` then needs no look at the cloud any more: `InTurn`, after a VM that is not up yet come only
Nodes never used, is an inductive invariant of `Lifecycle` alone (`LivesAreInTurn`).

The theorems have two hypotheses. `PeersStay`: NodeManagers and VmMonitors are not ended.
It is needed: `monitor_restart` has the counterexample. `ManagerStays`: the manager goes
on once it is up. `ManagerIsNotKilled` proves this of every list of fewer than
MAX_THEATERS Nodes when nobody ends the manager, since the peer list can then not be
overrun; `ShortListsAreSafe` puts it together and has hypotheses about the constants
only, which the run `scale_in` meets.

`CodecProofs` has what the other modules need of texts with any number of fields. `Joined`
and `Tokens` are recursive functions over the fields; since the provers cannot use an
induction theorem about a predicate, `NatClosed` states induction for a *set* of numbers
(proved from the cardinality of finite sets), and each claim is proved of the set of the
lengths for which it holds. The lemmas say what a text's length is, that tokens are the
fields unless one is empty, and where a printed field stands.

`WireProofs` proves of `Wire`, for every set of messages, any number of senders, every backlog,
every way to cut a text and any number of ends:

* `WireTypes`: `WireTypeOK`;
* `RequestsAlwaysFit`: `RequestsFit`;
* `WireDelivers`: `Delivers`, the refinement of `Mailbox`.

`WireInv` (theorem `WireInvHolds`) strengthens the type invariant: a connection that is sent
carries a text that its message may be printed as and that was let through by the
comparison of lengths; not more is read than it has; every connection is to the
program that runs; and `buf` is left without a newline, which is what keeps an old
text from being parsed again. TLC checked it on the instance of the run `wire` first.

`RequestsAlwaysFit` and `WireDelivers` assume `CodeSizes`: the numbers of the code (buffers of 128,
ten fields, five samples, four theaters) and the lengths that its programs give to their texts.
They assume nothing of strays: not how many there are (`MaxExtra` is any number) and not how long
(`StrayLens` any set of lengths from 3). The run `wire` evaluates `CodeSizes` for its constants
(`SizesAssumption` in `MCWire`). `DocumentedFits` adds up the longest printout: 120 characters of
fields and commas, 122 with the number and its newline, to which the content length and its
newline add at most four: 126. For the refinement,
`WholeTextRead` shows that the parser undoes the printer (`ListReadWhole`, `ReadsFields`: names are
taken in the order in which they were printed) unless a field is empty or there are
more than ten, and in these cases `MayBeRefused` holds of the message; `CutTextRead` that a text
longer than `recvbuf` is a creation request beyond the documented limits, or a notice to the manager
without an idle sample, and that only its last field is damaged or lost (`LongText`, `CutFields`):
at most three bytes are missing, and no stray is shorter, so that what is lost is never more than
one field (`LongList`). Then each action of `Wire` maps to one of
`Mailbox` or to none (the lemmas `ConnectMails` to `ProgramEndsMails`): `Finish` to `Take` or to
`Lose`, `TimeOut` to `Lose`, the end of a sender to `Void` of its connections.

The assumptions are the named ones of the modules' constants.

Only model-checked:

* all liveness: `Drains` and the properties of `lifecycle` (temporal properties under
  fairness are out of the prover's reach);
* that `CodeSizes` is as tight as it says: the run `wire` has the requests that are read short,
  given up, or overrun `tempbuf`;
* the five violations, which are counterexamples; of one of them, `peers`, `ShortPeerListsEnd` says
  for which lists it cannot occur.

## 5. Not modelled

* The contents of theater lists, which are only passed on.
* `analyze_cpu_usage1`, which is never called; reading `/proc/stat`; debug output;
  t_highcpu, whose effect is a high sample; scripts, Makefiles, jars.
* Failures of `fork`, `sigprocmask`, `malloc` and of socket creation; the limit of
  descriptors; `accept` failing on its uninitialised length.
* Host names: addresses are numbers as `CommonDef.h:6` has them, so that the 16 bytes of
  `dest_host` suffice. The reading of nodelist.txt: the table has as many entries as
  the file has Nodes.
* `Cloud` uses `Network`, not `Wire`. Of what `Delivers` lets a program lose it has the
  notices without a zero (`CosRefuses`), requests without a return address and the
  ends of processes; a VmMonitor always waits there for the request of a connection
  it accepted, because the handler that connects writes at once.
* What a parser destroys when it writes strays behind a history (`cos_msg.c:234`): in
  the cloud it is one of the ways in which the manager may end.

## 6. Plan

Done: `Cos`, `Placement`, `Network`, `VmMonitor`, `NodeManager`, `Cloud`, `MonitorRule`, `ExecCommand`,
`Lifecycle`, `Codec`, `Wire` and `Mailbox`; proofs of every invariant and action property that
a passing run checks, and of all four refinements.

To come, in this order:

1. `Cloud` with VmMonitors that do not wait for a request, and what is left of
   `DestructionEnds` then.
2. The stages of a VM with a manager that is ended and started again: which of the
   invariants of `StageProofs` the old answers then spoil, and which not.
3. `exec_command` inside the COS manager: how long a handler can keep the loop.
4. `GrowsWhenBusy` with failed destructions: how many Nodes `num_active_vm` loses.
