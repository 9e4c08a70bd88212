--------------------------- MODULE MonitorProofs ---------------------------
(***************************************************************************)
(* Proofs about MonitorRule, for every length of the history, every K and  *)
(* any number of samples and restarts: the array that analyze_cpu_usage2   *)
(* fills and shifts is a window on the latest samples, and notices follow  *)
(* the K out of N rule exactly.                                            *)
(***************************************************************************)
EXTENDS MonitorRule, FiniteSetTheorems, FunctionTheorems, SequenceTheorems, TLAPS

\* What a VmMonitor sends its NodeManager.
NoticeTypes == {"NOTIFY_VM_STARTED", "NOTIFY_HIGH_CPU_USAGE", "SHUTDOWN_THEATER_RESP"}

RuleTypes ==
    /\ log \in Seq(BOOLEAN)
    /\ guest \in [Nodes -> GuestStates]
    /\ sampled \in [Nodes -> 0 .. HistoryLen]
    /\ history \in [Nodes -> [Samples -> BOOLEAN]]
    /\ nodeInbox \in [Nodes -> Seq([type : NoticeTypes])]

\* cpu_check_iteration counts the samples until the window is full.
SampledCounts ==
    guest[Mon] = "RUNNING" =>
        sampled[Mon] = IF Len(log) < HistoryLen THEN Len(log) ELSE HistoryLen

\* The inductive invariant.
RuleInv == RuleTypes /\ SampledCounts /\ WindowIsRecent

-----------------------------------------------------------------------------
\* The VmMonitor looked at is that of a Node.
LEMMA MonIsNode == Mon \in Nodes
  BY NumNodesAssumption DEF Mon, Nodes

\* What the window shows after a sample: all samples until it is full, the latest
\* HistoryLen afterwards.
LEMMA RecordedIsRecent ==
    ASSUME RuleInv, guest[Mon] = "RUNNING", NEW high \in BOOLEAN, NEW i \in Samples
    PROVE  LET s == Append(log, high)
           IN  /\ Len(s) <= HistoryLen /\ i <= Len(s) => Recorded(Mon, high)[i] = s[i]
               /\ HistoryLen < Len(s) => Recorded(Mon, high)[i] = s[Len(s) - HistoryLen + i]
<1> DEFINE s == Append(log, high)
<1>1. log \in Seq(BOOLEAN) /\ Len(log) \in Nat
  BY DEF RuleInv, RuleTypes
<1>2. /\ Len(s) = Len(log) + 1
      /\ s[Len(log) + 1] = high
      /\ \A j \in 1 .. Len(log) : s[j] = log[j]
  BY <1>1
<1>3. i \in Int /\ 1 <= i /\ i <= HistoryLen /\ HistoryLen \in Nat \ {0}
  BY HistoryAssumption DEF Samples
<1>4. CASE Len(log) < HistoryLen
  <2>1. sampled[Mon] = Len(log)
    BY <1>4 DEF RuleInv, SampledCounts
  <2>2. Recorded(Mon, high)[i] = IF i = Len(log) + 1 THEN high ELSE history[Mon][i]
    BY <1>4, <2>1 DEF Recorded
  <2>3. i <= Len(log) => history[Mon][i] = log[i]
    BY <1>1, <1>3, <1>4 DEF RuleInv, WindowIsRecent
  <2>4. i <= Len(log) + 1 => Recorded(Mon, high)[i] = s[i]
    BY <1>1, <1>2, <1>3, <2>2, <2>3
  <2> QED
    BY <1>1, <1>2, <1>3, <1>4, <2>4
<1>5. CASE HistoryLen <= Len(log)
  <2>1. sampled[Mon] = HistoryLen
    BY <1>1, <1>3, <1>5 DEF RuleInv, SampledCounts
  <2>2. Recorded(Mon, high)[i] = IF i < HistoryLen THEN history[Mon][i + 1] ELSE high
    BY <1>3, <2>1 DEF Recorded
  <2>3. i < HistoryLen => history[Mon][i + 1] = log[Len(log) - HistoryLen + i + 1]
    <3>1. i < HistoryLen => i + 1 \in Samples
      BY <1>3 DEF Samples
    <3> QED
      BY <1>1, <1>3, <1>5, <3>1 DEF RuleInv, WindowIsRecent
  <2>4. Recorded(Mon, high)[i] = s[Len(s) - HistoryLen + i]
    BY <1>1, <1>2, <1>3, <1>5, <2>2, <2>3
  <2> QED
    BY <1>1, <1>2, <1>3, <1>5, <2>4
<1> QED
  BY <1>1, <1>3, <1>4, <1>5

\* The invariant holds before the first sample.
LEMMA RuleInvInit == ASSUME RuleInit PROVE RuleInv
<1>1. RuleTypes
  <2>1. log \in Seq(BOOLEAN) /\ nodeInbox \in [Nodes -> Seq([type : NoticeTypes])]
    BY DEF RuleInit, NetInit
  <2>2. NoSamples \in [Samples -> BOOLEAN] /\ 0 \in 0 .. HistoryLen
    BY HistoryAssumption DEF NoSamples
  <2> QED
    BY <2>1, <2>2 DEF RuleInit, MonInit, RuleTypes, GuestStates
<1>2. guest[Mon] # "RUNNING"
  BY MonIsNode DEF RuleInit, MonInit
<1> QED
  BY <1>1, <1>2 DEF RuleInv, SampledCounts, WindowIsRecent

\* What a message to the NodeManager does to its queue.
LEMMA ToNodeAppends ==
    ASSUME RuleTypes, NEW type \in NoticeTypes, ToNode(Mon, type, TRUE)
    PROVE  /\ nodeInbox' \in [Nodes -> Seq([type : NoticeTypes])]
           /\ ~ConnectTimeouts => nodeInbox' # nodeInbox
<1>1. PICK ok \in ConnectResult(TRUE, nodeInbox[Mon]) :
         nodeInbox' = [nodeInbox EXCEPT ![Mon] = Sent(nodeInbox[Mon], NodeNotice(type), ok)]
  BY DEF ToNode
<1>2. nodeInbox[Mon] \in Seq([type : NoticeTypes]) /\ NodeNotice(type) \in [type : NoticeTypes]
  BY MonIsNode DEF RuleTypes, NodeNotice
<1>3. /\ Append(nodeInbox[Mon], NodeNotice(type)) \in Seq([type : NoticeTypes])
      /\ Append(nodeInbox[Mon], NodeNotice(type)) # nodeInbox[Mon]
  <2>1. Len(Append(nodeInbox[Mon], NodeNotice(type))) = Len(nodeInbox[Mon]) + 1
    BY <1>2
  <2> QED
    BY <1>2, <2>1
<1>4. ok \in BOOLEAN /\ (~ConnectTimeouts => ok)
  BY DEF ConnectResult
<1> QED
  BY <1>1, <1>2, <1>3, <1>4, MonIsNode DEF RuleTypes, Sent

\* Every step keeps it.
LEMMA RuleInvStep ==
    ASSUME RuleInv, [RuleNext]_ruleVars
    PROVE  RuleInv'
<1> USE MonIsNode DEF RuleInv
<1>1. CASE Create
  BY <1>1 DEF Create, RuleTypes, SampledCounts, WindowIsRecent, GuestStates, netVars
<1>2. CASE Start
  <2>1. nodeInbox' \in [Nodes -> Seq([type : NoticeTypes])]
    BY <1>2, ToNodeAppends DEF Start, MonStart, NoticeTypes
  <2>2. log' = <<>> /\ sampled'[Mon] = 0
    BY <1>2 DEF Start, MonStart, RuleTypes
  <2>3. RuleTypes'
    <3>1. NoSamples \in [Samples -> BOOLEAN] /\ 0 \in 0 .. HistoryLen
      BY HistoryAssumption DEF NoSamples
    <3>2. <<>> \in Seq(BOOLEAN)
      OBVIOUS
    <3> QED
      BY <1>2, <2>1, <3>1, <3>2 DEF Start, MonStart, RuleTypes, GuestStates
  <2> QED
    BY <2>2, <2>3, HistoryAssumption DEF SampledCounts, WindowIsRecent, Samples
<1>3. CASE Sample
  <2>1. PICK high \in BOOLEAN : MonSample(Mon, high, TRUE) /\ log' = Append(log, high)
    BY <1>3 DEF Sample
  <2>2. log \in Seq(BOOLEAN) /\ log' \in Seq(BOOLEAN) /\ Len(log') = Len(log) + 1
    BY <2>1 DEF RuleTypes
  <2>3. Recorded(Mon, high) \in [Samples -> BOOLEAN]
    <3>1. \A i \in Samples : i < HistoryLen => i + 1 \in Samples
      BY HistoryAssumption DEF Samples
    <3>2. history[Mon] \in [Samples -> BOOLEAN]
      BY DEF RuleTypes
    <3> QED
      BY <3>1, <3>2 DEF Recorded
  <2>4. nodeInbox' \in [Nodes -> Seq([type : NoticeTypes])]
    BY <2>1, ToNodeAppends DEF MonSample, RuleTypes, NoticeTypes
  <2>5. guest[Mon] = "RUNNING" /\ guest' = guest
    BY <2>1 DEF MonSample
  <2>6. /\ history'[Mon] = Recorded(Mon, high)
        /\ sampled'[Mon] = IF sampled[Mon] < HistoryLen THEN sampled[Mon] + 1 ELSE sampled[Mon]
    BY <2>1 DEF MonSample, RuleTypes
  <2>7. sampled' \in [Nodes -> 0 .. HistoryLen] /\ history' \in [Nodes -> [Samples -> BOOLEAN]]
    BY <2>1, <2>3, HistoryAssumption DEF MonSample, RuleTypes
  <2>8. SampledCounts'
    BY <2>2, <2>5, <2>6, HistoryAssumption DEF SampledCounts
  <2>9. WindowIsRecent'
    <3> DEFINE old == IF Len(log') <= HistoryLen THEN 0 ELSE Len(log') - HistoryLen
    <3> SUFFICES ASSUME NEW i \in Samples, old + i <= Len(log')
                 PROVE  history'[Mon][i] = log'[old + i]
      BY DEF WindowIsRecent
    <3>1. Len(log') \in Nat /\ HistoryLen \in Nat /\ i \in Int
      BY <2>2, HistoryAssumption DEF Samples
    <3>2. /\ Len(log') <= HistoryLen /\ i <= Len(log') => history'[Mon][i] = log'[i]
          /\ HistoryLen < Len(log') => history'[Mon][i] = log'[Len(log') - HistoryLen + i]
      BY <2>1, <2>5, <2>6, RecordedIsRecent
    <3> QED
      BY <3>1, <3>2
  <2> QED
    BY <2>2, <2>4, <2>5, <2>7, <2>8, <2>9 DEF RuleTypes
<1>4. CASE Serve
  <2>1. nodeInbox' \in [Nodes -> Seq([type : NoticeTypes])]
    BY <1>4, ToNodeAppends DEF Serve, MonReceive, NoticeTypes
  <2> QED
    BY <1>4, <2>1 DEF Serve, MonReceive, monVars, RuleTypes, SampledCounts, WindowIsRecent
<1>5. CASE Stop
  BY <1>5 DEF Stop, MonStop, RuleTypes, SampledCounts, WindowIsRecent, GuestStates
<1>6. CASE Read
  <2>1. nodeInbox[Mon] \in Seq([type : NoticeTypes]) /\ nodeInbox[Mon] # <<>>
    BY <1>6 DEF Read, RuleTypes
  <2>2. Tail(nodeInbox[Mon]) \in Seq([type : NoticeTypes])
    BY <2>1, HeadTailProperties
  <2> QED
    BY <1>6, <2>2 DEF Read, monVars, RuleTypes, SampledCounts, WindowIsRecent
<1>7. CASE Ask
  BY <1>7 DEF Ask, monVars, RuleTypes, SampledCounts, WindowIsRecent
<1>8. CASE UNCHANGED ruleVars
  BY <1>8 DEF ruleVars, monVars, netVars, RuleTypes, SampledCounts, WindowIsRecent
<1> QED
  BY <1>1, <1>2, <1>3, <1>4, <1>5, <1>6, <1>7, <1>8 DEF RuleNext

\* So it holds of every behaviour.
LEMMA RuleInvariant == RuleSpec => []RuleInv
<1>1. RuleInit => RuleInv
  BY RuleInvInit
<1>2. RuleInv /\ [RuleNext]_ruleVars => RuleInv'
  BY RuleInvStep
<1> QED
  BY <1>1, <1>2, PTL DEF RuleSpec

\* The window is the latest HistoryLen samples since the start (vmmon_main.c:301-315),
\* for every HistoryLen.
THEOREM WindowAlwaysRecent == RuleSpec => []WindowIsRecent
<1>1. RuleInv => WindowIsRecent
  BY DEF RuleInv
<1> QED
  BY <1>1, RuleInvariant, PTL

-----------------------------------------------------------------------------
(* Counting the high samples *)

\* As many entries of a full window are high as of the samples it shows.
LEMMA SameCount ==
    ASSUME NEW w \in [Samples -> BOOLEAN], NEW s \in Seq(BOOLEAN), HistoryLen <= Len(s),
           \A i \in Samples : w[i] = s[Len(s) - HistoryLen + i]
    PROVE  Cardinality({i \in Samples : w[i]}) =
           Cardinality({i \in Len(s) - HistoryLen + 1 .. Len(s) : s[i]})
<1> DEFINE old == Len(s) - HistoryLen
           A == {i \in Samples : w[i]}
           B == {i \in old + 1 .. Len(s) : s[i]}
           f == [i \in A |-> old + i]
<1>1. HistoryLen \in Nat /\ Len(s) \in Nat /\ old \in Nat
  BY HistoryAssumption
<1>2. f \in [A -> B]
  BY <1>1 DEF Samples
<1>3. \A a, b \in A : f[a] = f[b] => a = b
  BY <1>1 DEF Samples
<1>4. \A t \in B : \E a \in A : f[a] = t
  <2> SUFFICES ASSUME NEW t \in B PROVE t - old \in A /\ f[t - old] = t
    OBVIOUS
  <2>1. t \in Int /\ t - old \in Samples /\ old + (t - old) = t
    BY <1>1 DEF Samples
  <2>2. w[t - old]
    BY <2>1
  <2> QED
    BY <2>1, <2>2
<1>5. f \in Bijection(A, B)
  BY <1>2, <1>3, <1>4, Fun_IsBij
<1>6. ExistsBijection(A, B)
  BY <1>5 DEF ExistsBijection
<1>7. IsFiniteSet(A)
  <2>1. IsFiniteSet(Samples)
    BY <1>1, FS_Interval DEF Samples
  <2> QED
    BY <2>1, FS_Subset
<1> QED
  BY <1>6, <1>7, FS_Bijection

\* When a connect to a full backlog waits, a high-CPU notice is sent for exactly the
\* samples the K out of N rule asks for (vmmon_main.c:317-332), for every K and N.
THEOREM ReportsByTheRule == ~ConnectTimeouts => (RuleSpec => ReportsWhenDue)
<1> SUFFICES ASSUME ~ConnectTimeouts PROVE RuleSpec => ReportsWhenDue
  OBVIOUS
<1>1. RuleInv /\ [RuleNext]_ruleVars => [ReportStep]_ruleVars
  <2> SUFFICES ASSUME RuleInv, RuleNext, Len(log') = Len(log) + 1
               PROVE  nodeInbox' # nodeInbox <=> Due(log')
    BY DEF ReportStep, ruleVars
  <2>1. log \in Seq(BOOLEAN) /\ Len(log) \in Nat
    BY DEF RuleInv, RuleTypes
  <2>2. Sample
    <3>1. log' # log /\ log' # <<>>
      BY <2>1
    <3> QED
      BY <3>1 DEF RuleNext, Create, Start, Serve, Stop, Read, Ask
  <2>3. PICK high \in BOOLEAN : MonSample(Mon, high, TRUE) /\ log' = Append(log, high)
    BY <2>2 DEF Sample
  <2>4. guest[Mon] = "RUNNING" /\ log' \in Seq(BOOLEAN)
    BY <2>1, <2>3 DEF MonSample
  <2>5. nodeInbox' # nodeInbox <=> ReportsHigh(Mon, high)
    BY <2>3, ToNodeAppends DEF MonSample, RuleInv, NoticeTypes
  <2>6. sampled[Mon] >= HistoryLen <=> HistoryLen < Len(log')
    BY <2>1, <2>4, HistoryAssumption DEF RuleInv, SampledCounts
  <2>7. CASE HistoryLen < Len(log')
    <3>1. Recorded(Mon, high) \in [Samples -> BOOLEAN]
      <4>1. \A i \in Samples : i < HistoryLen => i + 1 \in Samples
        BY HistoryAssumption DEF Samples
      <4>2. history[Mon] \in [Samples -> BOOLEAN]
        BY MonIsNode DEF RuleInv, RuleTypes
      <4> QED
        BY <4>1, <4>2 DEF Recorded
    <3>2. \A i \in Samples : Recorded(Mon, high)[i] = log'[Len(log') - HistoryLen + i]
      <4> SUFFICES ASSUME NEW i \in Samples
                   PROVE  Recorded(Mon, high)[i] = log'[Len(log') - HistoryLen + i]
        OBVIOUS
      <4> QED
        BY <2>3, <2>4, <2>7, RecordedIsRecent
    <3>3. HistoryLen <= Len(log')
      BY <2>4, <2>7, HistoryAssumption
    <3>4. Cardinality({i \in Samples : Recorded(Mon, high)[i]}) =
          Cardinality({i \in Len(log') - HistoryLen + 1 .. Len(log') : log'[i]})
      BY <2>4, <3>1, <3>2, <3>3, SameCount
    <3> QED
      BY <2>5, <2>6, <2>7, <3>4 DEF ReportsHigh, Due
  <2>8. CASE ~(HistoryLen < Len(log'))
    BY <2>5, <2>6, <2>8 DEF ReportsHigh, Due
  <2> QED
    BY <2>7, <2>8
<1> QED
  BY <1>1, RuleInvariant, PTL DEF RuleSpec, ReportsWhenDue

=============================================================================
