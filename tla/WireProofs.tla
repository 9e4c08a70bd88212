----------------------------- MODULE WireProofs -----------------------------
(***************************************************************************)
(* Proofs about the network, byte by byte: the type invariant, that every  *)
(* documented request fits the buffers, and that Wire implements Mailbox.  *)
(* For every set of messages, any number of senders, every backlog, and    *)
(* wherever the network cuts a text.                                       *)
(*                                                                         *)
(* The inductive invariant WireInv says that a connection that is sent has *)
(* a text its message may be printed as, and one that fits; that no more   *)
(* is read than it has; and that buf is left without a newline, so that a  *)
(* stale buffer is never parsed again.  What a program makes of a text is  *)
(* then a matter of Codec: the parser undoes the printer unless a field is *)
(* empty, there are more than ten, or the text is longer than recvbuf. The *)
(* last can only damage the last field of a message beyond the documented  *)
(* limits: of a request, or of a notice without an idle sample, which may  *)
(* be printed with any number of strays of any lengths.                    *)
(***************************************************************************)
EXTENDS Wire, CodecProofs

-----------------------------------------------------------------------------
(* The parts a message is printed in *)

\* The named fields of m in the order of printing.
Named(m) == [i \in DOMAIN Printed(m) |-> m.arg[Printed(m)[i]]]

\* What may be printed of its list.
Lists(m) ==
    IF m.to = "COS" /\ m.type \in Notices THEN SamplesPrinted(m.list) ELSE {m.list}

\* The texts of m, and what may lie behind its history.
Own(m) == {m.return_addr} \cup Strays \cup
          {m.arg[f] : f \in ToSet(Printed(m))} \cup ToSet(m.list)

\* The texts that m may be printed with or read as.
Texts(m) ==
    Own(m) \cup {Shown(t) : t \in Own(m)} \cup {Damaged, Text(m.type, IdLen[m.type])}

\* A stray sample is a text of three characters or more, none of the named ones, and
\* printed as it is.
LEMMA StrayTexts ==
   ASSUME NEW t \in Strays
   PROVE  /\ IsText(t) /\ 3 <= t.len /\ t \notin {Null, Empty, Idle, Tiny}
          /\ Shown(t) = t
<1>1. PICK n \in StrayLens : t = [val |-> "stray", len |-> n]
  BY DEF Strays, Text
<1>2. n \in Nat /\ 3 <= n
  BY CodecAssumption
<1>3. t.val = "stray" /\ t.len = n
  BY <1>1
<1>4. t \notin {Null, Empty, Idle, Tiny}
  <2>1. /\ Null.val = "NULL" /\ Empty.val = ""
        /\ Idle.val = "0.000000" /\ Tiny.val = "tiny"
    BY DEF Null, Empty, Idle, Tiny, Text
  <2>2. "stray" # "NULL" /\ "stray" # "" /\ "stray" # "0.000000" /\ "stray" # "tiny"
    OBVIOUS
  <2> QED
    BY <1>3, <2>1, <2>2
<1>5. IsText(t)
  BY <1>1, <1>2 DEF IsText, Text
<1> QED
  BY <1>2, <1>3, <1>4, <1>5 DEF Shown

\* All of them are texts.
LEMMA TextsAreTexts ==
   ASSUME NEW m, Message(m)
   PROVE  \A t \in Texts(m) : IsText(t)
<1>1. \A t \in Own(m) : IsText(t)
  <2>1. \A t \in Strays : IsText(t)
    BY StrayTexts
  <2>2. ASSUME NEW t \in Own(m), t \notin Strays PROVE IsText(t)
    <3>1. t \in {m.return_addr} \cup {m.arg[f] : f \in ToSet(Printed(m))} \cup
          ToSet(m.list)
      BY <2>2 DEF Own
    <3> QED
      BY <3>1 DEF Message
  <2> QED
    BY <2>1, <2>2
<1>2. \A t \in Own(m) : IsText(Shown(t))
  BY <1>1, ShownText
<1>3. IsText(Damaged)
  BY DEF IsText, Damaged, Text
<1>4. IsText(Text(m.type, IdLen[m.type]))
  <2>1. IdLen[m.type] \in 13 .. 21
     BY AssignedTypes, IdLens DEF Message
  <2> QED
    BY <2>1 DEF IsText, Text
<1> QED
  BY <1>1, <1>2, <1>3, <1>4 DEF Texts

\* A message is of a type that its program takes, and has its fields.
LEMMA FieldNames ==
    ASSUME NEW m, Message(m)
    PROVE  /\ m.to \in {"COS", "NODE", "MON"} /\ m.type \in TypesOf(m.to)
           /\ Distinct(Printed(m), Names)
<1>1. m.to \in {"COS", "NODE", "MON"} /\ m.type \in TypesOf(m.to)
  BY AssignedTypes DEF Message
<1> QED
  BY <1>1, PrintedNames, NamesInLists

\* The parts are sequences of the texts of m.
LEMMA PrintedParts ==
   ASSUME NEW m, Message(m)
   PROVE  /\ Named(m) \in Seq(Own(m)) /\ Len(Named(m)) = Len(Printed(m))
          /\ m.list \in Seq(Own(m))
          /\ \A l \in Lists(m) : l \in Seq(Own(m))
<1>1. Printed(m) \in Seq(Names) /\ DOMAIN Printed(m) = 1 .. Len(Printed(m))
  BY FieldNames DEF Distinct
<1>2. Named(m) \in Seq(Own(m)) /\ Len(Named(m)) = Len(Printed(m))
  <2>1. \A i \in 1 .. Len(Printed(m)) : m.arg[Printed(m)[i]] \in Own(m)
     BY <1>1 DEF Own, ToSet
  <2> QED
    BY <2>1, <1>1 DEF Named
<1>3. m.list \in Seq(Own(m))
  <2>1. m.list \in Seq(ToSet(m.list)) BY DEF Message
  <2> QED
    BY <2>1 DEF Own
<1>4. ASSUME NEW l \in Lists(m) PROVE l \in Seq(Own(m))
  <2>1. CASE l \in SamplesPrinted(m.list)
    <3>1. CASE \E s \in SeqOf(Strays, MaxExtra) : l = m.list \o s
      <4>1. PICK s \in SeqOf(Strays, MaxExtra) : l = m.list \o s
        BY <3>1
      <4>2. s \in Seq(Strays) /\ Strays \subseteq Own(m)
        BY BoundedSequence, CodecAssumption DEF Own
      <4> QED
        BY <4>1, <4>2, <1>3
    <3>2. CASE \E j \in 1 .. Len(m.list) : l = SubSeq(m.list, 1, j - 1)
      BY <3>2, <1>3
    <3> QED
      BY <3>1, <3>2, <2>1, <1>3, SampleLists
  <2>2. CASE l = m.list
    BY <2>2, <1>3
  <2> QED
    BY <1>4, <2>1, <2>2 DEF Lists
<1> QED
  BY <1>2, <1>3, <1>4

\* A printout is the type, the return address, the named fields and a list.
LEMMA PrintoutShape ==
   ASSUME NEW m, Message(m), NEW fs \in Printouts(m)
   PROVE  \E l \in Lists(m) :
             fs = <<Text(m.type, IdLen[m.type])>> \o
             (<<Shown(m.return_addr)>> \o (Show(Named(m)) \o Show(l)))
<1>1. PICK l \in Lists(m) :
         fs = <<Text(m.type, IdLen[m.type])>> \o Show(<<m.return_addr>> \o Named(m) \o l)
  BY DEF Printouts, Lists, Named, Show
<1>2. Named(m) \in Seq(Own(m)) /\ l \in Seq(Own(m)) /\ <<m.return_addr>> \in Seq(Own(m))
  <2>1. m.return_addr \in Own(m)
    BY DEF Own
  <2> QED
    BY <2>1, PrintedParts
<1> DEFINE r == <<m.return_addr>>
           n == Named(m)
<1>3. r \o n \in Seq(Own(m))
  BY <1>2
<1>4. Show(r) = <<Shown(m.return_addr)>>
  BY DEF Show
<1>5. Show((r \o n) \o l) = Show(r \o n) \o Show(l)
  BY <1>2, <1>3, ShowConcat
<1>6. Show(r \o n) = Show(r) \o Show(n)
  BY <1>2, ShowConcat
<1>7. (Show(r) \o Show(n)) \o Show(l) = Show(r) \o (Show(n) \o Show(l))
  <2> DEFINE T == {Shown(t) : t \in Own(m)}
  <2>1. Show(r) \in Seq(T) /\ Show(n) \in Seq(T) /\ Show(l) \in Seq(T)
    BY <1>2, ShowAt
  <2> HIDE DEF T
  <2> QED
    BY <2>1, Associative
<1> QED
  BY <1>1, <1>4, <1>5, <1>6, <1>7

\* Where the fields stand in a printout, and how long it is.
LEMMA PrintoutParts ==
   ASSUME NEW m, Message(m), NEW fs \in Printouts(m)
   PROVE  /\ fs \in Seq(Texts(m)) /\ Measured(fs)
          /\ \E l \in Lists(m) :
                /\ l \in Seq(Own(m)) /\ Show(l) \in Seq(Texts(m)) /\ Len(Show(l)) = Len(l)
                /\ PrintedAs(m, fs, Show(l))
                /\ Joined(fs) = IdLen[m.type] + Shown(m.return_addr).len
                                  + Joined(Show(Named(m))) + Joined(Show(l)) + 3
<1>1. PICK l \in Lists(m) :
          fs = <<Text(m.type, IdLen[m.type])>> \o
          (<<Shown(m.return_addr)>> \o (Show(Named(m)) \o Show(l)))
  BY PrintoutShape
<1> DEFINE t == Text(m.type, IdLen[m.type])
           r == Shown(m.return_addr)
           c == Show(Named(m))
           d == Show(l)
           S == Texts(m)
<1>2. l \in Seq(Own(m)) /\ Named(m) \in Seq(Own(m)) /\ Len(Named(m)) = Len(Printed(m))
  BY PrintedParts
<1>3. t \in S /\ r \in S
  BY DEF Texts, Own
<1>4. {Shown(x) : x \in Own(m)} \subseteq S
  BY DEF Texts
<1>5. /\ c \in Seq(S) /\ Len(c) = Len(Printed(m))
      /\ \A i \in 1 .. Len(c) : c[i] = Shown(Named(m)[i])
      /\ d \in Seq(S) /\ Len(d) = Len(l)
      /\ \A i \in 1 .. Len(d) : d[i] = Shown(l[i])
  <2> HIDE DEF S
  <2>1. Seq({Shown(x) : x \in Own(m)}) \subseteq Seq(S)
    BY <1>4
  <2> QED
    BY <1>2, <2>1, ShowAt
<1>6. \A x \in S : x.len \in Nat
  BY TextsAreTexts DEF IsText
<1> HIDE DEF t, r, c, d, S
<1>7. fs = <<t>> \o (<<r>> \o (c \o d))
  BY <1>1 DEF t, r, c, d
<1>8. fs \in Seq(S) /\ Parts(fs, t, r, c, d)
  BY <1>3, <1>5, <1>6, <1>7, FourParts
<1>9. Measured(fs)
  BY <1>6, <1>8 DEF Measured
<1>10. \A i \in 1 .. Len(Printed(m)) : Named(m)[i] = m.arg[Printed(m)[i]]
  BY FieldNames DEF Named, Distinct
<1>11. PrintedAs(m, fs, d)
  <2>1. Len(fs) = 2 + Len(Printed(m)) + Len(d) /\ fs[1] = t /\ fs[2] = r
    BY <1>5, <1>8 DEF Parts
  <2>2. \A i \in 1 .. Len(Printed(m)) : fs[2 + i] = Shown(m.arg[Printed(m)[i]])
    BY <1>5, <1>8, <1>10 DEF Parts
  <2>3. \A j \in 1 .. Len(d) : fs[2 + Len(Printed(m)) + j] = d[j]
    BY <1>5, <1>8 DEF Parts
  <2> QED
    BY <2>1, <2>2, <2>3 DEF PrintedAs, t, r
<1>12. t.len = IdLen[m.type]
  BY DEF t, Text
<1> QED
  BY <1>2, <1>5, <1>8, <1>9, <1>11, <1>12 DEF Parts, S, r, c, d

\* A printout has an empty field only if the message has.
LEMMA EmptyFields ==
    ASSUME NEW m, Message(m), NEW fs \in Printouts(m), NEW i \in 1 .. Len(fs),
           fs[i].len = 0
    PROVE  Unreadable(m)
<1>1. PICK l \in Lists(m) : l \in Seq(Own(m)) /\ Len(Show(l)) = Len(l) /\
           PrintedAs(m, fs, Show(l))
  BY PrintoutParts
<1> DEFINE k == Len(Printed(m))
<1>2. k \in Nat /\ Len(l) \in Nat /\ Len(fs) = 2 + k + Len(l)
  BY <1>1, FieldNames DEF Distinct, PrintedAs
<1>3. fs[1].len # 0
  <2>1. IdLen[m.type] \in 13 .. 21
    BY FieldNames, IdLens
  <2> QED
    BY <1>1, <2>1 DEF PrintedAs, Text
<1>4. \E t \in Own(m) : fs[i] = Shown(t)
  <2>1. CASE i = 2
    BY <1>1, <2>1 DEF PrintedAs, Own
  <2>2. CASE i - 2 \in 1 .. k
    <3>1. i = 2 + (i - 2)
      BY <1>2
    <3>2. fs[i] = Shown(m.arg[Printed(m)[i - 2]])
      BY <1>1, <2>2, <3>1 DEF PrintedAs
    <3>3. Printed(m)[i - 2] \in ToSet(Printed(m))
      BY <2>2, FieldNames DEF Distinct, ToSet
    <3> QED
      BY <3>2, <3>3 DEF Own
  <2>3. CASE i - 2 - k \in 1 .. Len(l)
    <3>1. i = 2 + k + (i - 2 - k)
      BY <1>2
    <3>2. fs[i] = Show(l)[i - 2 - k]
      BY <1>1, <2>3, <3>1 DEF PrintedAs
    <3>3. fs[i] = Shown(l[i - 2 - k])
      BY <1>1, <2>3, <3>2, ShowAt
    <3> QED
      BY <1>1, <2>3, <3>3
  <2>4. i = 2 \/ i - 2 \in 1 .. k \/ i - 2 - k \in 1 .. Len(l)
    <3> HIDE DEF k
    <3> QED
      BY <1>2, <1>3
  <2> QED
    BY <2>1, <2>2, <2>3, <2>4
<1>5. Empty \in Own(m)
  <2>1. PICK t \in Own(m) : fs[i] = Shown(t)
    BY <1>4
  <2>2. IsText(t)
    BY TextsAreTexts DEF Texts
  <2> QED
    BY <2>1, <2>2, ShownText
<1>6. Empty \notin Strays
  BY StrayTexts
<1>7. DOMAIN m.arg = ToSet(Printed(m))
  BY DEF Message
<1> QED
  BY <1>5, <1>6, <1>7 DEF Own, Unreadable

-----------------------------------------------------------------------------
(* How long a message is printed *)

\* The texts of m have lengths, printed or not.
LEMMA MeasuredTexts ==
    ASSUME NEW m, Message(m), NEW s \in Seq(Own(m))
    PROVE  Measured(s) /\ Measured(Show(s)) /\ Joined(Show(s)) \in Int
<1>1. \A t \in Own(m) : IsText(t) /\ IsText(Shown(t))
  BY TextsAreTexts DEF Texts
<1>2. Measured(s)
  BY <1>1 DEF Measured, IsText
<1>3. Measured(Show(s))
  <2>1. Len(Show(s)) = Len(s) /\ \A i \in 1 .. Len(s) : Show(s)[i] = Shown(s[i])
    BY ShowAt
  <2>2. \A i \in 1 .. Len(s) : IsText(Shown(s[i]))
    BY <1>1
  <2> QED
    BY <2>1, <2>2 DEF Measured, IsText
<1> QED
  BY <1>2, <1>3, JoinedInt

\* Texts of at most b characters are printed with at most b + 1 each; "(null)" has 6.
LEMMA ShownBound ==
    ASSUME NEW m, Message(m), NEW s \in Seq(Own(m)), NEW b \in Nat, 6 <= b,
           \A i \in 1 .. Len(s) : s[i].len <= b
    PROVE  -1 <= Joined(Show(s)) /\ Joined(Show(s)) <= Len(s) * (b + 1) - 1
<1>1. Measured(Show(s))
  BY MeasuredTexts
<1>2. Len(Show(s)) = Len(s)
  BY ShowAt
<1>3. ASSUME NEW i \in 1 .. Len(s) PROVE Show(s)[i].len <= b
  <2>1. Show(s)[i] = Shown(s[i])
    BY ShowAt
  <2>2. IsText(s[i])
    <3>1. s[i] \in Texts(m)
      BY DEF Texts
    <3> QED
      BY <3>1, TextsAreTexts
  <2>3. Shown(s[i]).len = IF s[i] = Null THEN 6 ELSE s[i].len
    BY <2>2, ShownText
  <2> QED
    BY <2>1, <2>3
<1> QED
  BY <1>1, <1>2, <1>3, JoinedBound

\* The named fields: 22 characters each, the name of a VM 5.
LEMMA NamedLen ==
    ASSUME CodeSizes, NEW m \in Messages
    PROVE  /\ -1 <= Joined(Show(Named(m)))
           /\ Joined(Show(Named(m))) <= Len(Printed(m)) * 23 - 1
           /\ Printed(m) = <<"vm_name">> => Joined(Show(Named(m))) <= 6
<1>1. Message(m)
  BY MessagesAssumption
<1>2. Named(m) \in Seq(Own(m)) /\ Len(Named(m)) = Len(Printed(m))
  BY <1>1, PrintedParts
<1>3. ASSUME NEW i \in 1 .. Len(Printed(m))
      PROVE  Named(m)[i].len <= IF Printed(m)[i] = "vm_name" THEN 5 ELSE 22
  <2>1. DOMAIN Printed(m) = 1 .. Len(Printed(m)) /\ Named(m)[i] = m.arg[Printed(m)[i]]
    BY <1>1, FieldNames DEF Distinct, Named
  <2>2. Printed(m)[i] \in DOMAIN m.arg
    BY <1>1, <2>1 DEF Message, ToSet
  <2> QED
    BY <2>1, <2>2 DEF CodeSizes
<1>4. \A i \in 1 .. Len(Named(m)) : Named(m)[i].len <= 22
  <2>1. ASSUME NEW i \in 1 .. Len(Named(m)) PROVE Named(m)[i].len <= 22
    <3>1. IsText(Named(m)[i])
      <4>1. Named(m)[i] \in Texts(m)
        BY <1>2 DEF Texts
      <4> QED
        BY <1>1, <4>1, TextsAreTexts
    <3> QED
      BY <1>2, <1>3, <3>1 DEF IsText
  <2> QED
    BY <2>1
<1>5. -1 <= Joined(Show(Named(m))) /\
      Joined(Show(Named(m))) <= Len(Printed(m)) * (22 + 1) - 1
  <2> DEFINE b == 22
             s == Named(m)
  <2>1. b \in Nat /\ 6 <= b /\ (\A i \in 1 .. Len(s) : s[i].len <= b) /\ s \in Seq(Own(m))
    BY <1>2, <1>4
  <2> HIDE DEF b, s
  <2>2. -1 <= Joined(Show(s)) /\ Joined(Show(s)) <= Len(s) * (b + 1) - 1
    BY <1>1, <2>1, ShownBound
  <2> QED
    BY <1>2, <2>2 DEF b, s
<1>6. ASSUME Printed(m) = <<"vm_name">> PROVE Joined(Show(Named(m))) <= 6
  <2>1. Len(Printed(m)) = 1 /\ Printed(m)[1] = "vm_name"
    BY <1>6
  <2>2. \A i \in 1 .. Len(Named(m)) : Named(m)[i].len <= 6
    <3>1. Named(m)[1].len <= 5 /\ IsText(Named(m)[1])
      <4>1. Named(m)[1] \in Texts(m)
        <5>1. 1 \in 1 .. Len(Named(m))
          BY <1>2, <2>1
        <5>2. Named(m)[1] \in Own(m)
          BY <1>2, <5>1
        <5> QED
          BY <5>2 DEF Texts
      <4> QED
        BY <1>1, <1>3, <2>1, <4>1, TextsAreTexts
    <3> QED
      BY <1>2, <2>1, <3>1 DEF IsText
  <2>3. Joined(Show(Named(m))) <= 1 * (6 + 1) - 1
    <3> DEFINE b == 6
               s == Named(m)
    <3>1. /\ b \in Nat /\ 6 <= b /\ (\A i \in 1 .. Len(s) : s[i].len <= b)
          /\ s \in Seq(Own(m)) /\ Len(s) = 1
      BY <1>2, <2>1, <2>2
    <3> HIDE DEF b, s
    <3>2. Joined(Show(s)) <= Len(s) * (b + 1) - 1
      BY <1>1, <3>1, ShownBound
    <3> QED
      BY <3>1, <3>2 DEF b, s
  <2> QED
    BY <2>3, <1>5
<1> QED
  BY <1>5, <1>6

\* The lists: at most three full addresses in a documented request, four samples in
\* a documented notice to the manager, five in one to a NodeManager.
LEMMA ListLen ==
    ASSUME CodeSizes, NEW m \in Messages, NEW l \in Lists(m)
    PROVE  /\ l \in Seq(Own(m)) /\ -1 <= Joined(Show(l)) /\ Joined(Show(l)) \in Int
           /\ m.type \in Notices /\ (m.to = "COS" => Documented(m)) =>
                 Len(l) <= 5 /\ Joined(Show(l)) <= Len(l) * 9 - 1
           /\ m.type = "CREATE_VM_REQ" => l = m.list /\ Len(l) <= 4
           /\ m.type = "CREATE_VM_REQ" /\ Documented(m) =>
                 Len(l) <= 3 /\ Joined(Show(l)) <= Len(l) * 21 - 1
           /\ m.type \notin Notices /\ m.type # "CREATE_VM_REQ" => l = <<>> /\
              Joined(Show(l)) = -1
<1>1. Message(m)
  BY MessagesAssumption
<1>2. l \in Seq(Own(m)) /\ m.list \in Seq(Own(m))
  BY <1>1, PrintedParts
<1>3. -1 <= Joined(Show(l)) /\ Joined(Show(l)) \in Int
  <2>1. Measured(Show(l)) /\ Joined(Show(l)) \in Int
    BY <1>1, <1>2, MeasuredTexts
  <2> QED
    BY <2>1, JoinedAtLeast
<1>4. ASSUME m.type \in Notices, m.to = "COS" => Documented(m)
      PROVE  Len(l) <= 5 /\ Joined(Show(l)) <= Len(l) * 9 - 1
  <2>1. Len(m.list) = 5
    BY <1>1, <1>4 DEF Message, CodeSizes, Notices
  <2>2. \A i \in 1 .. Len(m.list) : m.list[i].len = 8
    BY <1>2, <1>4 DEF CodeSizes, ToSet
  <2>3. Len(l) <= 5 /\ \A i \in 1 .. Len(l) : l[i].len = 8
    <3>1. CASE m.to = "COS"
      <4>1. l \in SamplesPrinted(m.list) /\ Idle \in ToSet(m.list)
        BY <1>4, <3>1 DEF Lists, Documented
      <4>2. /\ Len(l) \in 0 .. Len(m.list) - 1
            /\ \A i \in 1 .. Len(l) : i \in 1 .. Len(m.list) /\ l[i] = m.list[i]
        BY <1>2, <4>1, SamplesLen
      <4> QED
        BY <2>1, <2>2, <4>2
    <3>2. CASE m.to # "COS"
      <4>1. l = m.list
        BY <3>2 DEF Lists
      <4>2. Len(l) = 5 /\ \A i \in 1 .. Len(l) : l[i].len = 8
        BY <2>1, <2>2, <4>1
      <4> QED
        BY <4>2
    <3> QED
      BY <3>1, <3>2
  <2> DEFINE b == 8
  <2>4. b \in Nat /\ 6 <= b /\ \A i \in 1 .. Len(l) : l[i].len <= b
    BY <2>3
  <2> HIDE DEF b
  <2>5. Joined(Show(l)) <= Len(l) * (b + 1) - 1
    BY <1>1, <1>2, <2>4, ShownBound
  <2> QED
    BY <2>3, <2>5 DEF b
<1>5. ASSUME m.type = "CREATE_VM_REQ"
      PROVE  l = m.list /\ Len(l) <= 4
  <2>1. l = m.list
    BY <1>5 DEF Lists, Notices
  <2>2. Len(m.list) <= MaxTheaters
    BY <1>1, <1>5 DEF Message, Notices
  <2> QED
    BY <2>1, <2>2 DEF CodeSizes
<1>6. ASSUME m.type = "CREATE_VM_REQ", Documented(m)
      PROVE  Len(l) <= 3 /\ Joined(Show(l)) <= Len(l) * 21 - 1
  <2>1. Len(l) <= 3 /\ \A i \in 1 .. Len(l) : l[i].len <= 20
    BY <1>2, <1>5, <1>6 DEF Documented, CodeSizes, ToSet
  <2> DEFINE b == 20
  <2>2. b \in Nat /\ 6 <= b /\ \A i \in 1 .. Len(l) : l[i].len <= b
    BY <2>1
  <2> HIDE DEF b
  <2>3. Joined(Show(l)) <= Len(l) * (b + 1) - 1
    BY <1>1, <1>2, <2>2, ShownBound
  <2> QED
    BY <2>1, <2>3 DEF b
<1>7. ASSUME m.type \notin Notices, m.type # "CREATE_VM_REQ"
      PROVE  l = <<>> /\ Joined(Show(l)) = -1
  <2>1. l = m.list /\ m.list = <<>>
    BY <1>1, <1>7 DEF Lists, Message
  <2>2. Show(<<>>) = <<>>
    BY DEF Show
  <2> QED
    BY <2>1, <2>2, JoinedNothing
<1> QED
  BY <1>2, <1>3, <1>4, <1>5, <1>6, <1>7

\* The longest documented message has 120 characters in its fields.
LEMMA PrintoutLen ==
    ASSUME CodeSizes, NEW m \in Messages, Documented(m), NEW fs \in Printouts(m)
    PROVE  Len(fs) \in 1 .. 8 /\ Joined(fs) \in 0 .. 120
<1>1. Message(m) /\ m.to \in {"COS", "NODE", "MON"} /\ m.type \in TypesOf(m.to)
  BY MessagesAssumption, FieldNames
<1>2. PICK l \in Lists(m) :
          /\ Len(Show(l)) = Len(l) /\ PrintedAs(m, fs, Show(l))
          /\ Joined(fs) = IdLen[m.type] + Shown(m.return_addr).len
                            + Joined(Show(Named(m))) + Joined(Show(l)) + 3
  BY <1>1, PrintoutParts
<1> DEFINE i == IdLen[m.type]
           r == Shown(m.return_addr).len
           n == Joined(Show(Named(m)))
           k == Len(Printed(m))
           j == Joined(Show(l))
           x == Len(l)
<1>3. i \in 13 .. 21 /\ (m.type = "CREATE_VM_REQ" => i = 13)
  BY <1>1, IdLens
<1>4. r \in Nat /\ r <= 21 /\ (m.to = "COS" => r <= 20) /\
      (m.type = "CREATE_VM_REQ" => r <= 20)
  <2>1. IsText(m.return_addr)
    BY <1>1 DEF Message
  <2>2. IsText(Shown(m.return_addr)) /\
        r = IF m.return_addr = Null THEN 6 ELSE m.return_addr.len
    BY <2>1, ShownText
  <2>3. r \in Nat
    BY <2>2 DEF IsText
  <2>4. m.return_addr.len <= IF m.to = "COS" THEN 20 ELSE 21
    BY DEF CodeSizes
  <2>5. m.type = "CREATE_VM_REQ" => m.return_addr.len <= 20
    BY DEF Documented, CodeSizes
  <2> HIDE DEF r
  <2> QED
    BY <2>2, <2>3, <2>4, <2>5
<1>5. k \in 1 .. 3 /\ n <= k * 23 - 1 /\ -1 <= n /\
      (Printed(m) = <<"vm_name">> => k = 1 /\ n <= 6)
  BY <1>1, FieldNames, NamedLen DEF Distinct
<1>6. /\ x \in Nat /\ -1 <= j /\ j \in Int
      /\ m.type \in Notices => x <= 5 /\ j <= x * 9 - 1
      /\ m.type = "CREATE_VM_REQ" => x <= 3 /\ j <= x * 21 - 1
      /\ m.type \notin Notices /\ m.type # "CREATE_VM_REQ" => x = 0 /\ j = -1
  BY ListLen
<1>7. /\ m.type \in Notices => k = 1 /\ (m.to = "COS" => n <= 6)
      /\ m.type = "CREATE_VM_REQ" => k = 1
  <2>1. Len(<<"vm_name">>) = 1 /\ Len(<<"vmmon_addr">>) = 1 /\ Len(<<"vmcfg_file">>) = 1
    OBVIOUS
  <2> QED
    BY <1>1, <1>5, <2>1, PrintedNames
<1>8. n \in Int
  BY <1>1, PrintedParts, MeasuredTexts
<1>9. Len(fs) = 2 + k + x /\ Joined(fs) = i + r + n + j + 3
  BY <1>2 DEF PrintedAs
<1> HIDE DEF i, r, n, k, j, x
<1>11. CASE m.type \in Notices
  BY <1>3, <1>4, <1>5, <1>6, <1>7, <1>8, <1>9, <1>11
<1>12. CASE m.type = "CREATE_VM_REQ"
  BY <1>3, <1>4, <1>5, <1>6, <1>7, <1>8, <1>9, <1>12
<1>13. CASE m.type \notin Notices /\ m.type # "CREATE_VM_REQ"
  BY <1>3, <1>4, <1>5, <1>6, <1>7, <1>8, <1>9, <1>13
<1> QED
  BY <1>11, <1>12, <1>13

\* The length that is compared with the buffer is at most the length.
LEMMA CurrLenBound ==
    ASSUME NEW m \in Messages, NEW fs \in Printouts(m)
    PROVE  CurrLen(fs) <= Joined(fs) /\ CurrLen(fs) \in Int
<1>1. fs \in Seq(Texts(m)) /\ Measured(fs)
  BY MessagesAssumption, PrintoutParts
<1>2. Joined(fs) \in Int
  BY <1>1, JoinedInt
<1>3. Len(fs) \in Nat /\ Len(fs) # 0
  BY <1>1, MessagesAssumption, PrintoutParts, FieldNames DEF PrintedAs, Distinct
<1> DEFINE f == Front(fs)
           l == fs[Len(fs)]
           o == <<l>>
<1>4. /\ f \in Seq(Texts(m)) /\ Len(f) = Len(fs) - 1
      /\ \A i \in 1 .. Len(fs) - 1 : f[i] = fs[i]
      /\ l \in Texts(m) /\ fs = f \o o
  <2>1. fs # <<>>
    BY <1>3
  <2> QED
    BY <1>1, <2>1, FrontAndLast
<1>5. Measured(f) /\ l.len \in Nat
  BY <1>1, <1>3, <1>4 DEF Measured
<1>6. o \in Seq(Texts(m)) /\ Measured(o) /\ Joined(o) = l.len
  BY <1>4, <1>5, JoinedOne DEF Measured
<1> HIDE DEF f, l, o
<1>7. Joined(fs) = Joined(f) + 1 + Joined(o)
  BY <1>4, <1>5, <1>6, JoinedConcat
<1>8. Joined(f) \in Int
  BY <1>5, JoinedInt
<1>9. Joined(f) <= Joined(fs)
  BY <1>2, <1>5, <1>6, <1>7, <1>8
<1> QED
  BY <1>2, <1>8, <1>9 DEF CurrLen, f

\* A documented message fits, number and newline included.
LEMMA DocumentedFits ==
    ASSUME CodeSizes, NEW m \in Messages, Documented(m), NEW fs \in Printouts(m)
    PROVE  Fits(fs) /\ TextLen(fs) \in 0 .. 122
<1>1. Len(fs) \in 1 .. 8 /\ Joined(fs) \in 0 .. 120
  BY PrintoutLen
<1> DEFINE n == Len(fs)
           d == Digits(n)
<1>2. d = 1
  <2>1. n \in 1 .. 8
    BY <1>1
  <2> HIDE DEF n
  <2> QED
    BY <2>1 DEF Digits
<1>3. CurrLen(fs) <= Joined(fs) /\ CurrLen(fs) \in Int
  BY CurrLenBound
<1>4. SendBuf = 128
  BY DEF CodeSizes
<1> HIDE DEF d
<1>5. TextLen(fs) = d + 1 + Joined(fs) /\ (Fits(fs) <=> CurrLen(fs) + d + 1 + 1 <= 128)
  BY <1>4 DEF Fits, TextLen, d
<1> QED
  BY <1>1, <1>2, <1>3, <1>5

\* A notice to the manager within the documented limits has an idle sample, and
\* without one it may be refused.
LEMMA NoticeWithIdle ==
    ASSUME NEW m, m.to = "COS", m.type \in Notices
    PROVE  MayBeRefused(m) \/ Documented(m)
BY DEF MayBeRefused, Documented, Notices

\* Only a notice whose history has no idle sample has more fields than are parsed.
LEMMA ManyFields ==
    ASSUME CodeSizes, NEW m \in Messages, NEW fs \in Printouts(m), Len(fs) > MaxParsed
    PROVE  MayBeRefused(m)
<1> SUFFICES ASSUME ~MayBeRefused(m) PROVE FALSE
  OBVIOUS
<1>1. Message(m)
  BY MessagesAssumption
<1>2. PICK l \in Lists(m) : Len(Show(l)) = Len(l) /\ PrintedAs(m, fs, Show(l))
  BY <1>1, PrintoutParts
<1>3. /\ l \in Seq(Own(m))
      /\ m.type \in Notices => Len(l) <= 5
      /\ m.type = "CREATE_VM_REQ" => Len(l) <= 4
      /\ m.type \notin Notices /\ m.type # "CREATE_VM_REQ" => l = <<>>
  BY ListLen, NoticeWithIdle
<1>4. /\ Len(Printed(m)) \in 1 .. 3
      /\ m.type \in Notices \/ m.type = "CREATE_VM_REQ" => Len(Printed(m)) = 1
  <2>1. Len(<<"vm_name">>) = 1 /\ Len(<<"vmmon_addr">>) = 1 /\ Len(<<"vmcfg_file">>) = 1
    OBVIOUS
  <2> QED
    BY <1>1, <2>1, FieldNames, PrintedNames DEF Distinct
<1>5. 2 + Len(Printed(m)) + Len(l) > 10
  BY <1>2 DEF PrintedAs, CodeSizes
<1> DEFINE x == Len(l)
           k == Len(Printed(m))
<1>6. x \in Nat /\ (l = <<>> => x = 0)
  BY <1>3
<1>7. /\ m.type \in Notices => x <= 5
      /\ m.type = "CREATE_VM_REQ" => x <= 4
      /\ m.type \notin Notices /\ m.type # "CREATE_VM_REQ" => x = 0
  BY <1>3, <1>6
<1>8. k \in 1 .. 3 /\ 2 + k + x > 10
  BY <1>4, <1>5
<1> HIDE DEF x, k
<1> QED
  BY <1>6, <1>7, <1>8

-----------------------------------------------------------------------------
(* The inductive invariant *)

\* The fields a connection may carry; none before it is sent.
AllPrintouts == (UNION {Printouts(m) : m \in Messages}) \cup {<<>>}

\* A connection that is sent carries a printout of its message, one that fits; one
\* that is given up had one that does not.
Connections ==
    {c \in [msg : Messages, from : Senders, st : {"OPEN", "SENT", "LEFT", "GONE"},
            fields : AllPrintouts, len : Nat] :
        /\ c.st = "SENT" => /\ c.fields \in Printouts(c.msg) /\ Fits(c.fields)
                            /\ c.len = TextLen(c.fields)
        /\ c.st = "LEFT" => \E fs \in Printouts(c.msg) : ~Fits(fs)}

\* At most one connection more than the backlog has been accepted and not closed;
\* only of that one something is read, and not more than it has; what buf has was
\* parsed; no descriptor is lost without a connection that was made.
WireInv ==
    /\ program \in {"COS", "NODE", "MON"}
    /\ conns \in Seq(Connections)
    /\ \A i \in 1 .. Len(conns) : conns[i].msg.to = program
    /\ accepted \in BOOLEAN /\ (accepted => conns # <<>>)
    /\ Len(conns) <= Backlog + (IF accepted THEN 1 ELSE 0)
    /\ readlen \in 0 .. RecvBuf
    /\ accepted /\ conns[1].st = "SENT" => readlen <= TotalLen(conns[1])
    /\ ~accepted \/ conns[1].st # "SENT" => readlen = 0
    /\ DOMAIN buf = {"num", "fields", "newline"} /\ buf.newline = FALSE
    /\ leaked \in Nat /\ sends \in 0 .. MaxSends /\ leaked + Len(conns) <= sends
    /\ out \in [Senders -> {"CLOSED", "OPEN", "UNREAD", "RESET"}]
    /\ ends \in 0 .. MaxEnds

\* A printout has a length.
LEMMA TextLenNat ==
    ASSUME NEW m \in Messages, NEW fs \in Printouts(m)
    PROVE  TextLen(fs) \in Nat /\ fs \in AllPrintouts
<1>1. Measured(fs)
  BY MessagesAssumption, PrintoutParts
<1>2. Joined(fs) \in Int /\ -1 <= Joined(fs)
  BY <1>1, JoinedInt, JoinedAtLeast
<1> QED
  BY <1>2 DEF TextLen, Digits, AllPrintouts

\* A new connection is one.
LEMMA NewConnection ==
    ASSUME NEW s \in Senders, NEW m \in Messages
    PROVE  /\ Connection(m, s) \in Connections
           /\ Connection(m, s).st = "OPEN" /\ Connection(m, s).msg = m
<1> DEFINE c == Connection(m, s)
<1>1. <<>> \in AllPrintouts /\ 0 \in Nat
  BY DEF AllPrintouts
<1>2. c = [msg |-> m, from |-> s, st |-> "OPEN", fields |-> <<>>, len |-> 0]
  BY DEF Connection
<1>3. c \in [msg : Messages, from : Senders, st : {"OPEN", "SENT", "LEFT", "GONE"},
             fields : AllPrintouts, len : Nat]
  BY <1>1, <1>2
<1>4. c.st = "OPEN" /\ c.msg = m
  BY <1>2
<1> HIDE DEF c
<1>5. c \in Connections /\ c.st = "OPEN" /\ c.msg = m
  BY <1>3, <1>4 DEF Connections
<1> QED
  BY <1>5 DEF c

\* One that is sent is one.
LEMMA SentConnection ==
    ASSUME NEW c \in Connections, NEW fs \in Printouts(c.msg), Fits(fs)
    PROVE  LET d == [c EXCEPT !.st = "SENT", !.fields = fs, !.len = TextLen(fs)]
           IN  d \in Connections /\ d.msg = c.msg /\ d.st = "SENT"
<1>1. c.msg \in Messages
  BY DEF Connections
<1>2. TextLen(fs) \in Nat /\ fs \in AllPrintouts
  BY <1>1, TextLenNat
<1> QED
  BY <1>2 DEF Connections

\* One whose sender gave up or ended is one.
LEMMA OtherConnection ==
    ASSUME NEW c \in Connections
    PROVE  /\ [c EXCEPT !.st = "GONE"] \in Connections
           /\ LET d == [c EXCEPT !.st = "LEFT"]
              IN  /\ d.msg = c.msg /\ d.st = "LEFT"
                  /\ (\E fs \in Printouts(c.msg) : ~Fits(fs)) => d \in Connections
BY DEF Connections

\* With its header it has a length.
LEMMA TotalLenNat ==
    ASSUME NEW c \in Connections
    PROVE  TotalLen(c) \in Nat
<1>1. c.len \in Nat
  BY DEF Connections
<1> QED
  BY <1>1 DEF TotalLen, HeaderLen, Digits

\* The invariant holds at the start.
LEMMA WireInvInit == ASSUME WireInit PROVE WireInv
<1> USE DEF WireInit
<1>1. /\ conns \in Seq(Connections) /\ Len(conns) = 0 /\ 1 .. Len(conns) = {} /\
         conns = <<>> /\ accepted = FALSE
      /\ readlen = 0 /\ leaked = 0 /\ sends = 0 /\ ends = 0
      /\ program \in {"COS", "NODE", "MON"}
  OBVIOUS
<1>2. buf = [num |-> 0, fields |-> <<>>, newline |-> FALSE]
  BY DEF NoText
<1>3. DOMAIN buf = {"num", "fields", "newline"} /\ buf.newline = FALSE
  BY <1>2
<1>4. out \in [Senders -> {"CLOSED", "OPEN", "UNREAD", "RESET"}]
  OBVIOUS
<1> HIDE DEF WireInit
<1>5. Len(conns) <= Backlog + (IF accepted THEN 1 ELSE 0) /\ leaked + Len(conns) <= sends
  BY <1>1, WireAssumption
<1>6. readlen \in 0 .. RecvBuf /\ sends \in 0 .. MaxSends /\ ends \in 0 .. MaxEnds
  BY <1>1, WireAssumption
<1> QED
  BY <1>1, <1>3, <1>4, <1>5, <1>6 DEF WireInv

\* Connect keeps it.
LEMMA ConnectInv ==
    ASSUME WireInv, NEW s \in Senders, NEW m \in Messages, Connect(s, m)
    PROVE  WireInv'
<1> DEFINE c == Connection(m, s)
<1>1. c \in Connections /\ c.msg = m /\ conns \in Seq(Connections) /\
      conns' = Append(conns, c)
  BY NewConnection DEF WireInv, Connect
<1> HIDE DEF c
<1>2. /\ conns' \in Seq(Connections) /\ Len(conns') = Len(conns) + 1 /\ conns' # <<>>
      /\ conns # <<>> => conns'[1] = conns[1]
  BY <1>1
<1>3. ASSUME NEW i \in 1 .. Len(conns') PROVE conns'[i].msg.to = program'
  <2>1. m.to = program /\ program' = program
    BY DEF Connect
  <2>2. CASE i \in 1 .. Len(conns)
    BY <1>1, <2>1, <2>2 DEF WireInv
  <2>3. CASE i = Len(conns) + 1
    BY <1>1, <2>1, <2>3
  <2> QED
    BY <1>1, <1>2, <2>2, <2>3
<1>4. Len(conns') <= Backlog + (IF accepted THEN 1 ELSE 0)
  BY <1>2, WireAssumption DEF WireInv, Connect
<1>5. /\ accepted' = accepted /\ readlen' = readlen /\ program' = program
      /\ buf' = buf /\ leaked' = leaked /\ ends' = ends
      /\ sends' = sends + 1 /\ sends < MaxSends /\ out' = [out EXCEPT ![s] = "OPEN"]
  BY DEF Connect
<1>6. accepted' => conns # <<>> /\ conns' # <<>> /\ conns'[1] = conns[1]
  BY <1>2, <1>5 DEF WireInv
<1>7. readlen' \in 0 .. RecvBuf
  BY <1>5 DEF WireInv
<1>8. /\ accepted' /\ conns'[1].st = "SENT" => readlen' <= TotalLen(conns'[1])
      /\ ~accepted' \/ conns'[1].st # "SENT" => readlen' = 0
  BY <1>5, <1>6 DEF WireInv
<1>9. /\ leaked' \in Nat /\ sends' \in 0 .. MaxSends
      /\ leaked' + Len(conns') <= sends'
  BY <1>1, <1>2, <1>5, WireAssumption DEF WireInv
<1>10. out' \in [Senders -> {"CLOSED", "OPEN", "UNREAD", "RESET"}]
  BY <1>5 DEF WireInv
<1>11. /\ program' \in {"COS", "NODE", "MON"} /\ accepted' \in BOOLEAN
       /\ DOMAIN buf' = {"num", "fields", "newline"} /\ buf'.newline = FALSE
       /\ ends' \in 0 .. MaxEnds
  BY <1>5 DEF WireInv
<1>12. Len(conns') <= Backlog + (IF accepted' THEN 1 ELSE 0) /\ (accepted' => conns' # <<>>)
  BY <1>2, <1>4, <1>5
<1>13. \A i \in 1 .. Len(conns') : conns'[i].msg.to = program'
  BY <1>3
<1>14. conns' \in Seq(Connections)
  BY <1>2
<1> QED
  BY <1>7, <1>8, <1>9, <1>10, <1>11, <1>12, <1>13, <1>14, Zenon DEF WireInv

\* A sender that ends loses what it has not sent, nothing else.
LEMMA EndedInv ==
    ASSUME WireInv, NEW s \in Senders, Ended(s)
    PROVE  /\ conns' \in Seq(Connections) /\ Len(conns') = Len(conns)
           /\ \A i \in 1 .. Len(conns) : conns'[i].msg = conns[i].msg
           /\ \A i \in 1 .. Len(conns) :
                 \/ conns'[i] = conns[i]
                 \/ conns[i].st # "SENT" /\ conns'[i].st = "GONE"
           /\ out' \in [Senders -> {"CLOSED", "OPEN", "UNREAD", "RESET"}]
<1> DEFINE new(i) == IF conns[i].from = s /\ conns[i].st \in {"OPEN", "LEFT"}
                     THEN [conns[i] EXCEPT !.st = "GONE"] ELSE conns[i]
<1>1. conns \in Seq(Connections) /\ DOMAIN conns = 1 .. Len(conns) /\ Len(conns) \in Nat
  BY DEF WireInv
<1>2. conns' = [i \in 1 .. Len(conns) |-> new(i)]
  BY <1>1 DEF Ended
<1>3. ASSUME NEW i \in 1 .. Len(conns)
      PROVE  /\ new(i) \in Connections /\ new(i).msg = conns[i].msg
             /\ \/ new(i) = conns[i]
                \/ conns[i].st # "SENT" /\ new(i).st = "GONE"
  <2>1. conns[i] \in Connections
    BY <1>1
  <2>2. /\ [conns[i] EXCEPT !.st = "GONE"].st = "GONE"
        /\ [conns[i] EXCEPT !.st = "GONE"].msg = conns[i].msg
    BY <2>1 DEF Connections
  <2> QED
    BY <2>1, <2>2, OtherConnection
<1> HIDE DEF new
<1>4. conns' \in Seq(Connections) /\ Len(conns') = Len(conns)
  BY <1>1, <1>2, <1>3
<1>5. \A i \in 1 .. Len(conns) : conns'[i] = new(i)
  BY <1>2
<1> QED
  BY <1>3, <1>4, <1>5 DEF WireInv, Ended

\* What the senders do changes no connection that has its message; that is enough.
LEMMA SenderStepInv ==
    ASSUME WireInv, conns' \in Seq(Connections), Len(conns') = Len(conns),
           \A i \in 1 .. Len(conns) : conns'[i] = conns[i] \/ conns[i].st # "SENT",
           \A i \in 1 .. Len(conns) : conns'[i].msg = conns[i].msg,
           out' \in [Senders -> {"CLOSED", "OPEN", "UNREAD", "RESET"}],
           ends' \in 0 .. MaxEnds,
           UNCHANGED <<program, accepted, readlen, buf, leaked, sends>>
    PROVE  WireInv'
<1>1. conns \in Seq(Connections)
  BY DEF WireInv
<1>2. conns # <<>> => conns' # <<>> /\ 1 \in 1 .. Len(conns)
  BY <1>1
<1>3. ASSUME accepted', conns'[1].st = "SENT" PROVE readlen' <= TotalLen(conns'[1])
  <2>1. accepted /\ conns # <<>> /\ readlen' = readlen
    BY <1>3 DEF WireInv
  <2>2. CASE conns'[1] = conns[1]
    BY <1>3, <2>1, <2>2 DEF WireInv, TotalLen, HeaderLen
  <2>3. CASE conns[1].st # "SENT"
    <3>1. readlen' = 0
      BY <2>1, <2>3 DEF WireInv
    <3>2. conns'[1] \in Connections
      BY <1>2, <2>1
    <3>3. TotalLen(conns'[1]) \in Nat
      BY <3>2, TotalLenNat
    <3> QED
      BY <3>1, <3>3
  <2> QED
    BY <1>2, <2>1, <2>2, <2>3
<1>4. ASSUME ~accepted' \/ conns'[1].st # "SENT" PROVE readlen' = 0
  <2>1. CASE ~accepted
    BY <2>1 DEF WireInv
  <2>2. CASE accepted
    <3>1. conns[1].st # "SENT"
      BY <1>2, <1>4, <2>2 DEF WireInv
    <3> QED
      BY <3>1, <2>2 DEF WireInv
  <2> QED
    BY <2>1, <2>2
<1>5. accepted' => conns' # <<>>
  BY <1>2 DEF WireInv
<1>6. \A i \in 1 .. Len(conns') : conns'[i].msg.to = program'
  BY DEF WireInv
<1> QED
  BY <1>3, <1>4, <1>5, <1>6 DEF WireInv, TotalLen, HeaderLen

\* Send keeps the invariant.
LEMMA SendInv ==
    ASSUME WireInv, NEW s \in Senders, Send(s)
    PROVE  WireInv'
<1>1. conns \in Seq(Connections) /\ DOMAIN conns = 1 .. Len(conns)
  BY DEF WireInv
<1>2. UNCHANGED <<program, accepted, readlen, buf, leaked, sends>> /\
      ends' \in 0 .. MaxEnds
  BY DEF Send, WireInv
<1>3. [out EXCEPT ![s] = "CLOSED"] \in [Senders -> {"CLOSED", "OPEN", "UNREAD", "RESET"}]
  BY DEF WireInv
<1>4. CASE Ended(s)
  BY <1>4, <1>2, EndedInv, SenderStepInv
<1>5. CASE out' = [out EXCEPT ![s] = "CLOSED"] /\ UNCHANGED conns
  BY <1>1, <1>5, <1>3, <1>2, SenderStepInv
<1>6. ASSUME NEW i \in DOMAIN conns, conns[i].st = "OPEN",
             NEW fs \in Printouts(conns[i].msg),
             \/ /\ Fits(fs)
                /\ conns' = [conns EXCEPT ![i].st = "SENT", ![i].fields = fs,
                                          ![i].len = TextLen(fs)]
                /\ out' = [out EXCEPT ![s] = "CLOSED"]
             \/ /\ ~Fits(fs)
                /\ conns' = [conns EXCEPT ![i].st = "LEFT"]
                /\ out' = [out EXCEPT ![s] = "CLOSED"]
      PROVE  WireInv'
  <2>1. conns[i] \in Connections
    BY <1>1, <1>6
  <2>2. \E c \in Connections : conns' = [conns EXCEPT ![i] = c] /\ c.msg = conns[i].msg
    <3>1. CASE Fits(fs)
      <4>1. conns' =
              [conns EXCEPT ![i] =
                 [@ EXCEPT !.st = "SENT", !.fields = fs, !.len = TextLen(fs)]]
        BY <1>6, <3>1
      <4> DEFINE c == [conns[i] EXCEPT !.st = "SENT", !.fields = fs, !.len = TextLen(fs)]
      <4>2. c \in Connections /\ c.msg = conns[i].msg
        BY <1>6, <2>1, <3>1, SentConnection
      <4> HIDE DEF c
      <4>3. conns' = [conns EXCEPT ![i] = c]
        BY <4>1 DEF c
      <4> QED
        BY <4>2, <4>3
    <3>2. CASE ~Fits(fs)
      <4>1. conns' = [conns EXCEPT ![i] = [@ EXCEPT !.st = "LEFT"]]
        BY <1>6, <3>2
      <4> QED
        BY <1>6, <2>1, <3>2, <4>1, OtherConnection
    <3> QED
      BY <3>1, <3>2
  <2>3. PICK c \in Connections : conns' = [conns EXCEPT ![i] = c] /\ c.msg = conns[i].msg
    BY <2>2
  <2>4. conns' \in Seq(Connections) /\ Len(conns') = Len(conns)
    BY <1>1, <1>6, <2>3
  <2>5. \A j \in 1 .. Len(conns) : conns'[j] = conns[j] \/ conns[j].st # "SENT"
    BY <1>1, <1>6, <2>3
  <2>6. \A j \in 1 .. Len(conns) : conns'[j].msg = conns[j].msg
    BY <1>1, <1>6, <2>3
  <2>7. out' \in [Senders -> {"CLOSED", "OPEN", "UNREAD", "RESET"}]
    BY <1>6, <1>3
  <2> QED
    BY <1>2, <2>4, <2>5, <2>7, <2>6, SenderStepInv
<1> QED
  BY <1>4, <1>5, <1>6 DEF Send

\* SenderEnds keeps it.
LEMMA SenderEndsInv ==
    ASSUME WireInv, NEW s \in Senders, SenderEnds(s)
    PROVE  WireInv'
<1>1. Ended(s) /\ UNCHANGED <<program, accepted, readlen, buf, leaked, sends>>
  BY DEF SenderEnds
<1>2. ends' \in 0 .. MaxEnds
  BY WireAssumption DEF SenderEnds, WireInv
<1> QED
  BY <1>1, <1>2, EndedInv, SenderStepInv

\* Accept keeps it.
LEMMA AcceptInv ==
    ASSUME WireInv, Accept
    PROVE  WireInv'
<1>1. conns \in Seq(Connections) /\ conns # <<>>
  BY DEF WireInv, Accept
<1>2. conns[1] \in Connections
  BY <1>1
<1>3. TotalLen(conns[1]) \in Nat
  BY <1>2, TotalLenNat
<1>4. 0 <= TotalLen(conns[1])
  BY <1>3
<1>5. Len(conns) <= Backlog + 1
  BY <1>1, WireAssumption DEF WireInv, Accept
<1> QED
  BY <1>1, <1>4, <1>5, WireAssumption DEF WireInv, Accept, TotalLen, HeaderLen

\* A program that has ended and is started again has nothing to break it.
LEMMA RestartedInv ==
    ASSUME WireInv, Restarted, ends' \in 0 .. MaxEnds
    PROVE  WireInv'
<1> USE DEF Restarted
<1>1. /\ conns' \in Seq(Connections) /\ Len(conns') = 0 /\ 1 .. Len(conns') = {} /\
         accepted' = FALSE
      /\ readlen' = 0 /\ leaked' = 0 /\ sends' = sends /\ program' = program
  OBVIOUS
<1>2. buf' = [num |-> 0, fields |-> <<>>, newline |-> FALSE]
  BY DEF NoText
<1>3. DOMAIN buf' = {"num", "fields", "newline"} /\ buf'.newline = FALSE
  BY <1>2
<1>4. out' \in [Senders -> {"CLOSED", "OPEN", "UNREAD", "RESET"}]
  BY DEF WireInv
<1> HIDE DEF Restarted
<1>5. Len(conns') <= Backlog + (IF accepted' THEN 1 ELSE 0) /\
      leaked' + Len(conns') <= sends'
  BY <1>1, WireAssumption DEF WireInv
<1>6. readlen' \in 0 .. RecvBuf /\ program' \in {"COS", "NODE", "MON"} /\
      sends' \in 0 .. MaxSends
  BY <1>1, WireAssumption DEF WireInv
<1> QED
  BY <1>1, <1>3, <1>4, <1>5, <1>6 DEF WireInv

\* ProgramEnds keeps it.
LEMMA ProgramEndsInv ==
    ASSUME WireInv, ProgramEnds
    PROVE  WireInv'
<1>1. ends' \in 0 .. MaxEnds
  BY WireAssumption DEF WireInv, ProgramEnds
<1> QED
  BY <1>1, RestartedInv DEF ProgramEnds

\* Read keeps it, whatever becomes of the byte behind recvbuf.
LEMMA ReadInv ==
    ASSUME WireInv, Read
    PROVE  WireInv'
<1>1. conns[1].st = "SENT" /\ accepted /\ UNCHANGED ends
  BY DEF Read, WireInv
<1>2. PICK n \in 1 .. Room :
          /\ readlen + n <= TotalLen(conns[1])
          /\ \/ /\ readlen' = readlen + n
                /\ UNCHANGED <<program, conns, accepted, buf, handled, leaked, out, sends>>
             \/ Restarted
  <2>1. Head(conns) = conns[1]
    BY <1>1 DEF WireInv
  <2>2. PICK n \in 1 .. Room :
          /\ readlen + n <= TotalLen(Head(conns))
          /\ \/ /\ readlen' = readlen + n
                /\ UNCHANGED <<program, conns, accepted, buf, handled, leaked, out, sends>>
             \/ Restarted
    BY Zenon DEF Read
  <2> QED
    BY <2>1, <2>2
<1>3. CASE Restarted
  BY <1>1, <1>3, RestartedInv DEF WireInv
<1>4. CASE /\ readlen' = readlen + n
           /\ UNCHANGED <<program, conns, accepted, buf, handled, leaked, out, sends>>
  <2>1. readlen' \in 0 .. RecvBuf
    BY <1>4, WireAssumption DEF WireInv, Room
  <2> QED
    BY <1>1, <1>2, <1>4, <2>1 DEF WireInv, TotalLen, HeaderLen
<1> QED
  BY <1>2, <1>3, <1>4

\* Serve keeps it: it leaves one connection less, and one descriptor more at most.
LEMMA ServeInv ==
    ASSUME WireInv, accepted, NEW b, DOMAIN b = {"num", "fields", "newline"}, Serve(b)
    PROVE  WireInv'
<1>1. conns \in Seq(Connections) /\ conns # <<>>
  BY DEF WireInv
<1>2. /\ conns' = Tail(conns) /\ conns' \in Seq(Connections) /\
         Len(conns') = Len(conns) - 1
      /\ Len(conns) \in Nat
  BY <1>1 DEF Serve
<1>3. conns[1] \in Connections /\ Head(conns) = conns[1]
  BY <1>1
<1>4. \A i \in 1 .. Len(conns') : conns'[i].msg.to = program'
  <2>1. \A i \in 1 .. Len(conns') : i + 1 \in 1 .. Len(conns) /\ conns'[i] = conns[i + 1]
    BY <1>1, <1>2
  <2>2. program' = program
    BY DEF Serve
  <2> QED
    <3>1. ASSUME NEW i \in 1 .. Len(conns') PROVE conns'[i].msg.to = program'
      <4>1. i + 1 \in 1 .. Len(conns) /\ conns'[i] = conns[i + 1]
        BY <2>1, <3>1
      <4>2. conns[i + 1].msg.to = program
        BY <4>1 DEF WireInv
      <4> QED
        BY <2>2, <4>1, <4>2
    <3> QED
      BY <3>1
<1>5. out' \in [Senders -> {"CLOSED", "OPEN", "UNREAD", "RESET"}]
  BY <1>3 DEF Serve, WireInv
<1>6. DOMAIN buf' = {"num", "fields", "newline"} /\ buf'.newline = FALSE
  <2>1. buf' = [b EXCEPT !.newline = FALSE]
    BY DEF Serve, AfterParse
  <2> QED
    BY <2>1
<1>7. leaked' \in Nat /\ leaked' <= leaked + 1
  BY DEF Serve, WireInv
<1>8. leaked' + Len(conns') <= sends'
  BY <1>2, <1>7 DEF Serve, WireInv
<1>9. accepted' = FALSE /\ readlen' = 0 /\ UNCHANGED <<program, sends, ends>>
  BY DEF Serve
<1>10. Len(conns') <= Backlog
  BY <1>2, WireAssumption DEF WireInv
<1>11. /\ Len(conns') <= Backlog + (IF accepted' THEN 1 ELSE 0) /\
          readlen' \in 0 .. RecvBuf
       /\ program' \in {"COS", "NODE", "MON"} /\ sends' \in 0 .. MaxSends /\
          ends' \in 0 .. MaxEnds
  BY <1>9, <1>10, <1>2, WireAssumption DEF WireInv
<1> QED
  BY <1>2, <1>5, <1>6, <1>7, <1>8, <1>9, <1>11, <1>4 DEF WireInv

\* Finish keeps it.
LEMMA FinishInv ==
    ASSUME WireInv, Finish
    PROVE  WireInv'
<1>1. accepted
  BY DEF Finish
<1>2. DOMAIN NoText = {"num", "fields", "newline"}
  BY DEF NoText
<1>3. ASSUME NEW k, NEW fs, Serve([num |-> k, fields |-> fs, newline |-> TRUE])
      PROVE  WireInv'
  <2> DEFINE b == [num |-> k, fields |-> fs, newline |-> TRUE]
  <2>1. DOMAIN b = {"num", "fields", "newline"} /\ Serve(b)
    BY <1>3
  <2> HIDE DEF b
  <2> QED
    BY <1>1, <2>1, ServeInv
<1>4. CASE Serve(NoText)
  BY <1>1, <1>2, <1>4, ServeInv
<1> QED
  BY <1>3, <1>4 DEF Finish

\* TimeOut keeps it.
LEMMA TimeOutInv ==
    ASSUME WireInv, TimeOut
    PROVE  WireInv'
<1>1. accepted /\ DOMAIN buf = {"num", "fields", "newline"} /\ Serve(buf)
  BY DEF TimeOut, WireInv
<1> QED
  BY <1>1, ServeInv

\* The inductive invariant holds in every state.
THEOREM WireInvHolds == WireSpec => []WireInv
<1>1. WireInit => WireInv
  BY WireInvInit
<1>2. WireInv /\ [WireNext]_wireVars => WireInv'
  <2> SUFFICES ASSUME WireInv, [WireNext]_wireVars PROVE WireInv'
    OBVIOUS
  <2>1. CASE UNCHANGED wireVars
    BY <2>1 DEF wireVars, WireInv, TotalLen, HeaderLen
  <2> QED
    BY <2>1, ConnectInv, SendInv, SenderEndsInv, AcceptInv, ReadInv, FinishInv,
       TimeOutInv,
       ProgramEndsInv DEF WireNext
<1> QED
  BY <1>1, <1>2, PTL DEF WireSpec

\* Every variable keeps its type: no more connections wait than the backlog takes,
\* read is never given more room than recvbuf has left (Socket.c:150), and no more
\* descriptors are lost than connections were made.
THEOREM WireTypes == WireSpec => []WireTypeOK
<1>1. WireInv => WireTypeOK
  <2> SUFFICES ASSUME WireInv PROVE WireTypeOK
    OBVIOUS
  <2>1. conns \in Seq(Connections) /\ DOMAIN conns = 1 .. Len(conns) /\ Len(conns) \in Nat
    BY DEF WireInv
  <2>2. Len(conns) <= Backlog + 1 /\ leaked \in 0 .. MaxSends
    BY <2>1, WireAssumption DEF WireInv
  <2>3. \A i \in DOMAIN conns :
          /\ conns[i].msg \in Messages /\ conns[i].from \in Senders
          /\ conns[i].st \in {"OPEN", "SENT", "LEFT", "GONE"}
          /\ conns[i].len \in Nat
    BY <2>1 DEF Connections
  <2> QED
    BY <2>2, <2>3 DEF WireInv, WireTypeOK
<1> QED
  BY <1>1, WireInvHolds, PTL

\* With the sizes of the code, a message within the documented limits is never given
\* up for its length (node_msg.c:230), and recvbuf takes it with its header
\* (Socket.c:150) and the 0 that parse_contlen puts behind it (Socket.c:126): header
\* and text are 126 bytes at the most.
THEOREM RequestsAlwaysFit ==
    ASSUME CodeSizes
    PROVE  WireSpec => []RequestsFit
<1>1. WireInv => RequestsFit
  <2> SUFFICES ASSUME WireInv PROVE RequestsFit
    OBVIOUS
  <2> SUFFICES ASSUME NEW i \in DOMAIN conns, Documented(conns[i].msg)
               PROVE  /\ conns[i].st # "LEFT"
                      /\ conns[i].st = "SENT" => TotalLen(conns[i]) < RecvBuf
    BY DEF RequestsFit
  <2>1. conns[i] \in Connections /\ conns[i].msg \in Messages
    BY DEF WireInv, Connections
  <2>2. \A fs \in Printouts(conns[i].msg) : Fits(fs) /\ TextLen(fs) \in 0 .. 122
    BY <2>1, DocumentedFits
  <2>3. conns[i].st # "LEFT"
    BY <2>1, <2>2 DEF Connections
  <2>4. ASSUME conns[i].st = "SENT" PROVE TotalLen(conns[i]) < RecvBuf
    <3> DEFINE x == conns[i].len
    <3>1. x \in 0 .. 122
      BY <2>1, <2>2, <2>4 DEF Connections
    <3> HIDE DEF x
    <3>2. Digits(x) + 1 + x < 128
      BY <3>1 DEF Digits
    <3> QED
      BY <3>2 DEF x, TotalLen, HeaderLen, CodeSizes
  <2> QED
    BY <2>3, <2>4
<1> QED
  BY <1>1, WireInvHolds, PTL

-----------------------------------------------------------------------------
(* What a program reads of a text *)

\* m as it is read with the list l.
Reading(m, l) ==
    [to |-> m.to, type |-> m.type, return_addr |-> Shown(m.return_addr),
     arg |-> [f \in DOMAIN m.arg |-> Shown(m.arg[f])], list |-> l]

\* The list it should be read with.
ReceivedList(m) ==
    [i \in DOMAIN m.list |->
        IF m.to = "COS" /\ \E j \in 1 .. i : m.list[j] = Idle
        THEN Idle ELSE Shown(m.list[i])]

\* What is read into the list from the fields d.
ListRead(type, d) ==
    IF type \in Notices THEN d \o [i \in 1 .. HistoryLen - Len(d) |-> Idle]
    ELSE IF type = "CREATE_VM_REQ" THEN d ELSE <<>>

\* Received is such a reading.
LEMMA ReceivedReading ==
    ASSUME NEW m, Message(m)
    PROVE  Received(m) = Reading(m, ReceivedList(m))
<1> DEFINE a == [f \in DOMAIN m.arg |-> Shown(m.arg[f])]
           l == ReceivedList(m)
<1>1. m = [to |-> m.to, type |-> m.type, return_addr |-> m.return_addr,
           arg |-> m.arg, list |-> m.list]
  BY DEF Message
<1>2. Received(m) = [m EXCEPT !.return_addr = Shown(m.return_addr), !.arg = a, !.list = l]
  BY <1>1 DEF Received, ReceivedList
<1> HIDE DEF l, a
<1> DEFINE e == [m EXCEPT !.return_addr = Shown(m.return_addr), !.arg = a, !.list = l]
<1>3. DOMAIN m = {"to", "type", "return_addr", "arg", "list"}
  BY <1>1
<1>4. DOMAIN e = {"to", "type", "return_addr", "arg", "list"}
  BY <1>3
<1>5. /\ e.to = m.to /\ e.type = m.type /\ e.return_addr = Shown(m.return_addr)
      /\ e.arg = a /\ e.list = l
  BY <1>3
<1>6. e = [k \in DOMAIN e |-> e[k]]
  OBVIOUS
<1> HIDE DEF e
<1>7. e = [to |-> m.to, type |-> m.type, return_addr |-> Shown(m.return_addr),
           arg |-> a, list |-> l]
  BY <1>4, <1>5, <1>6
<1> QED
  BY <1>2, <1>7 DEF Reading, l, a, e

\* What is read of the fields gs by the names p.
ByName(p, gs) == [f \in ToSet(p) |-> gs[2 + SelectInSeq(p, LAMBDA n : n = f)]]

\* Every named field is found in its place.
LEMMA ArgRead ==
    ASSUME NEW m, Message(m), NEW S, NEW gs \in Seq(S), NEW d \in Seq(S),
           PrintedAs(m, gs, d)
    PROVE  ByName(Printed(m), gs) = [f \in DOMAIN m.arg |-> Shown(m.arg[f])]
<1> DEFINE p == Printed(m)
<1>1. p \in Seq(Names) /\ Len(p) \in Nat /\ DOMAIN p = 1 .. Len(p)
      /\ \A i, j \in 1 .. Len(p) : p[i] = p[j] => i = j
  BY FieldNames DEF Distinct
<1>2. DOMAIN m.arg = ToSet(p)
  BY DEF Message
<1>3. ASSUME NEW f \in ToSet(p)
      PROVE  gs[2 + SelectInSeq(p, LAMBDA n : n = f)] = Shown(m.arg[f])
  <2>1. PICK i \in 1 .. Len(p) : p[i] = f
    BY <1>1 DEF ToSet
  <2> DEFINE k == IndexOf(p, f)
  <2>2. k \in 1 .. Len(p) /\ p[k] = f
    <3>1. \/ k = 0 /\ \A j \in 1 .. Len(p) : p[j] # f
          \/ k \in 1 .. Len(p) /\ p[k] = f /\ \A j \in 1 .. k - 1 : p[j] # f
      BY <1>1, FirstIndex
    <3> QED
      BY <2>1, <3>1
  <2>3. SelectInSeq(p, LAMBDA n : n = f) = k
    BY DEF IndexOf, SelectInSeq
  <2> HIDE DEF k
  <2>4. gs[2 + k] = Shown(m.arg[p[k]])
    BY <2>2 DEF PrintedAs
  <2> QED
    BY <2>2, <2>3, <2>4
<1> QED
  BY <1>2, <1>3 DEF ByName

\* The fields of the list are those after the named ones.
LEMMA ListFields ==
    ASSUME NEW m, Message(m), NEW S, NEW gs \in Seq(S), NEW d \in Seq(S),
           PrintedAs(m, gs, d)
    PROVE  SubSeq(gs, 3 + Len(Printed(m)), Len(gs)) = d
<1> DEFINE k == Len(Printed(m))
           e == SubSeq(gs, 3 + k, Len(gs))
<1>1. k \in Nat /\ Len(d) \in Nat /\ Len(gs) = 2 + k + Len(d)
  BY FieldNames DEF Distinct, PrintedAs
<1>2. \A j \in 1 .. Len(d) : gs[2 + k + j] = d[j]
  BY DEF PrintedAs
<1> HIDE DEF k
<1>3. e \in Seq(S) /\ Len(e) = Len(d) /\ \A j \in 1 .. Len(e) : e[j] = gs[3 + k + j - 1]
  BY <1>1
<1>4. ASSUME NEW j \in 1 .. Len(d) PROVE e[j] = d[j]
  <2>1. 3 + k + j - 1 = 2 + k + j
    BY <1>1
  <2> QED
    BY <1>2, <1>3, <2>1
<1> HIDE DEF e
<1>5. e = d
  BY <1>3, <1>4, SameSeq
<1> QED
  BY <1>5 DEF e, k

\* Fields that are all tokens are read as the message they were printed from.
LEMMA ReadsFields ==
    ASSUME NEW m, Message(m), NEW S, NEW gs \in Seq(S), NEW d \in Seq(S),
           PrintedAs(m, gs, d),
           Tokens(gs) = gs, NEW b, b.fields = gs
    PROVE  Known(m.to, b) /\ Parsed(m.to, b) = Reading(m, ListRead(m.type, d))
<1>1. gs[1].val = m.type /\ gs[2] = Shown(m.return_addr)
  BY DEF PrintedAs, Text
<1>2. m.type \in DOMAIN Assigned(m.to) /\ Assigned(m.to)[m.type] = Printed(m)
  BY FieldNames, PrintedNames DEF Message
<1>3. Known(m.to, b)
  BY <1>1, <1>2 DEF Known
<1>4. Parsed(m.to, b) =
        [to |-> m.to, type |-> m.type, return_addr |-> Shown(m.return_addr),
         arg |-> ByName(Printed(m), gs),
         list |-> ListRead(m.type, SubSeq(gs, 3 + Len(Printed(m)), Len(gs)))]
  BY <1>1, <1>2 DEF Parsed, ListRead, ByName
<1>5. ByName(Printed(m), gs) = [f \in DOMAIN m.arg |-> Shown(m.arg[f])]
  BY ArgRead
<1>6. SubSeq(gs, 3 + Len(Printed(m)), Len(gs)) = d
  BY ListFields
<1> QED
  BY <1>3, <1>4, <1>5, <1>6 DEF Reading

\* A reading with another list.
LEMMA ReadingWith ==
    ASSUME NEW m, NEW l, NEW x
    PROVE  [Reading(m, l) EXCEPT !.list = x] = Reading(m, x) /\ Reading(m, l).list = l
<1> DEFINE a == Shown(m.return_addr)
           b == [f \in DOMAIN m.arg |-> Shown(m.arg[f])]
           r == Reading(m, l)
           e == [r EXCEPT !.list = x]
<1>1. r = [to |-> m.to, type |-> m.type, return_addr |-> a, arg |-> b, list |-> l]
  BY DEF Reading
<1> HIDE DEF a, b, r
<1>2. DOMAIN r = {"to", "type", "return_addr", "arg", "list"} /\ r.list = l
  BY <1>1
<1>3. /\ DOMAIN e = {"to", "type", "return_addr", "arg", "list"}
      /\ e.to = m.to /\ e.type = m.type /\ e.return_addr = a /\ e.arg = b /\ e.list = x
  BY <1>1, <1>2
<1>4. e = [k \in DOMAIN e |-> e[k]]
  OBVIOUS
<1> HIDE DEF e
<1>5. e = [to |-> m.to, type |-> m.type, return_addr |-> a, arg |-> b, list |-> x]
  BY <1>3, <1>4
<1> QED
  BY <1>2, <1>5 DEF Reading, a, b, r, e

\* The lists it may be sent with: a history without an idle sample has strays behind.
SentLists(m) ==
    IF m.to = "COS" /\ ~Documented(m)
    THEN {ReceivedList(m) \o s : s \in SeqOf(Strays, MaxExtra)} ELSE {ReceivedList(m)}

\* A message may arrive with these lists, and beyond the limits with a damaged one.
LEMMA ArrivesAs ==
    ASSUME NEW m, Message(m), NEW l \in SentLists(m)
    PROVE  /\ Reading(m, l) \in Arrivals(m)
           /\ ~Documented(m) => Reading(m, Append(Front(l), Damaged)) \in Arrivals(m)
<1> DEFINE r == Received(m)
           cut == IF Documented(m) THEN {} ELSE {Append(Front(k), Damaged) : k \in SentLists(m)}
<1>1. r = Reading(m, ReceivedList(m))
  BY ReceivedReading
<1>2. r.list = ReceivedList(m)
  BY <1>1, ReadingWith
<1>3. \A x : [r EXCEPT !.list = x] = Reading(m, x)
  BY <1>1, ReadingWith
<1>4. Arrivals(m) = {[r EXCEPT !.list = k] : k \in SentLists(m) \cup cut}
  <2> HIDE DEF r
  <2> QED
    BY <1>2 DEF Arrivals, SentLists, r
<1> HIDE DEF r
<1>5. l \in SentLists(m) \cup cut /\
      (~Documented(m) => Append(Front(l), Damaged) \in SentLists(m) \cup cut)
  OBVIOUS
<1> HIDE DEF cut
<1> QED
  BY <1>3, <1>4, <1>5

\* What is received may arrive.
LEMMA ArrivesWhole ==
    ASSUME NEW m, Message(m)
    PROVE  Reading(m, ReceivedList(m)) \in Arrivals(m)
<1>1. ReceivedList(m) \in SentLists(m)
  <2>1. <<>> \in SeqOf(Strays, MaxExtra)
    <3>1. <<>> \in Seq(Strays) /\ Len(<<>>) <= MaxExtra /\ MaxExtra \in Nat
      BY CodecAssumption
    <3> QED
      BY <3>1, BoundedSequence
  <2>2. ReceivedList(m) = ReceivedList(m) \o <<>>
    <3> DEFINE T == {Shown(t) : t \in Own(m)} \cup {Idle}
               l == ReceivedList(m)
    <3>1. l \in Seq(T)
      <4>1. m.list \in Seq(Own(m)) /\ DOMAIN m.list = 1 .. Len(m.list) /\ Len(m.list) \in Nat
        BY PrintedParts
      <4>2. \A i \in 1 .. Len(m.list) : m.list[i] \in Own(m)
        BY <4>1
      <4> QED
        BY <4>1, <4>2 DEF ReceivedList
    <3> HIDE DEF l, T
    <3>2. l = l \o <<>>
      BY <3>1
    <3> QED
      BY <3>2 DEF l
  <2> QED
    BY <2>1, <2>2 DEF SentLists
<1> QED
  BY <1>1, ArrivesAs

\* Nothing is cut off a list but the samples behind an idle one.
LEMMA ReceivedAsSent ==
    ASSUME NEW m, Message(m), m.to # "COS" \/ \A j \in 1 .. Len(m.list) : m.list[j] # Idle
    PROVE  ReceivedList(m) = Show(m.list)
<1>1. DOMAIN m.list = 1 .. Len(m.list)
  BY PrintedParts
<1>2. ASSUME NEW i \in 1 .. Len(m.list)
      PROVE  ~(m.to = "COS" /\ \E j \in 1 .. i : m.list[j] = Idle)
  BY PrintedParts
<1> QED
  BY <1>1, <1>2 DEF ReceivedList, Show

\* Strays follow the whole of a history, of which there is no idle sample.
LEMMA StraysBehind ==
    ASSUME NEW m, Message(m), m.to = "COS", m.type \in Notices,
           \A j \in 1 .. Len(m.list) : m.list[j] # Idle, NEW s \in SeqOf(Strays, MaxExtra)
    PROVE  /\ Show(m.list \o s) \in SentLists(m)
           /\ m.list \o s \in Seq(Own(m)) /\ Len(m.list \o s) = HistoryLen + Len(s)
           /\ Len(s) \in Nat
<1>1. m.list \in Seq(Own(m)) /\ s \in Seq(Own(m)) /\ s \in Seq(Strays) /\ Len(s) \in Nat
  <2>1. s \in Seq(Strays) /\ Strays \subseteq Own(m)
    BY BoundedSequence, CodecAssumption DEF Own
  <2> QED
    BY <2>1, PrintedParts
<1>2. Len(m.list) = HistoryLen /\ HistoryLen \in Nat
  BY CodecAssumption DEF Message, Notices
<1>3. Show(s) = s
  <2>1. \A i \in 1 .. Len(s) : Shown(s[i]) = s[i]
    BY <1>1, StrayTexts
  <2>2. Show(s) = [i \in 1 .. Len(s) |-> s[i]]
    BY <1>1, <2>1 DEF Show
  <2> QED
    BY <1>1, <2>2
<1>4. Show(m.list \o s) = ReceivedList(m) \o s
  <2>1. Show(m.list \o s) = Show(m.list) \o Show(s)
    BY <1>1, ShowConcat
  <2>2. ReceivedList(m) = Show(m.list)
    BY ReceivedAsSent
  <2> QED
    BY <1>3, <2>1, <2>2
<1>5. ~Documented(m)
  <2>1. Idle \notin ToSet(m.list)
    BY <1>1 DEF ToSet
  <2> QED
    BY <2>1 DEF Documented
<1>6. m.list \o s \in Seq(Own(m)) /\ Len(m.list \o s) = HistoryLen + Len(s)
  BY <1>1, <1>2, ConcatAt
<1> QED
  BY <1>1, <1>4, <1>5, <1>6 DEF SentLists

\* What a program reads of a whole printout is a form in which its message may
\* arrive: the samples before the first idle one and zeros, or all of them and what
\* lay behind; the peers of a request.
LEMMA ListReadWhole ==
    ASSUME NEW m, Message(m), NEW l \in Lists(m)
    PROVE  Reading(m, ListRead(m.type, Show(l))) \in Arrivals(m)
<1>1. m.list \in Seq(Own(m)) /\ l \in Seq(Own(m))
  BY PrintedParts
<1>2. CASE m.type \notin Notices /\ m.type # "CREATE_VM_REQ"
  <2>1. m.list = <<>> /\ ListRead(m.type, Show(l)) = <<>>
    BY <1>2 DEF Message, ListRead
  <2>2. ReceivedList(m) = <<>>
    <3>1. Show(<<>>) = <<>>
      BY DEF Show
    <3>2. \A j \in 1 .. Len(m.list) : m.list[j] # Idle
      BY <2>1
    <3> QED
      BY <2>1, <3>1, <3>2, ReceivedAsSent
  <2> QED
    BY <2>1, <2>2, ArrivesWhole
<1>3. CASE m.type = "CREATE_VM_REQ"
  <2>1. l = m.list /\ ListRead(m.type, Show(l)) = Show(l)
    BY <1>3 DEF Lists, Notices, ListRead
  <2>2. m.to # "COS"
    BY <1>3, FieldNames, PrintedNames
  <2>3. ReceivedList(m) = Show(l)
    BY <2>1, <2>2, ReceivedAsSent
  <2> QED
    BY <2>1, <2>3, ArrivesWhole
<1>4. CASE m.type \in Notices
  <2>1. Len(m.list) = HistoryLen /\ HistoryLen \in Nat
    BY <1>4, CodecAssumption DEF Message, Notices
  <2> DEFINE d == Show(l)
             T == {Shown(t) : t \in Own(m)} \cup {Idle}
             e == [i \in 1 .. HistoryLen - Len(d) |-> Idle]
  <2>2. /\ d \in Seq(T) /\ Len(d) = Len(l) /\ \A i \in 1 .. Len(l) : d[i] = Shown(l[i])
        /\ Show(m.list) \in Seq(T) /\ Len(Show(m.list)) = Len(m.list)
        /\ \A i \in 1 .. Len(m.list) : Show(m.list)[i] = Shown(m.list[i])
        /\ Len(l) \in Nat
    <3> DEFINE T0 == {Shown(t) : t \in Own(m)}
    <3>1. Seq(T0) \subseteq Seq(T)
      OBVIOUS
    <3> HIDE DEF T
    <3>2. /\ d \in Seq(T0) /\ Len(d) = Len(l) /\ \A i \in 1 .. Len(l) : d[i] = Shown(l[i])
      BY <1>1, ShowAt
    <3>3. /\ Show(m.list) \in Seq(T0) /\ Len(Show(m.list)) = Len(m.list)
          /\ \A i \in 1 .. Len(m.list) : Show(m.list)[i] = Shown(m.list[i])
      BY <1>1, ShowAt
    <3>4. Len(l) \in Nat
      BY <1>1
    <3> HIDE DEF T0, d
    <3> QED
      BY <3>1, <3>2, <3>3, <3>4
  <2>3. ListRead(m.type, d) = d \o e
    BY <1>4 DEF ListRead
  <2> HIDE DEF d
  <2>4. CASE m.to # "COS"
    <3>1. l = m.list
      BY <2>4 DEF Lists
    <3>2. HistoryLen - Len(d) = 0
      BY <2>2, <2>1, <3>1
    <3>3. d \o e = d
      BY <2>2, <3>2
    <3> QED
      BY <2>4, <2>3, <3>1, <3>3, ArrivesWhole, ReceivedAsSent DEF d
  <2>5. CASE m.to = "COS"
    <3>1. l \in SamplesPrinted(m.list)
      BY <1>4, <2>5 DEF Lists
    <3>2. ASSUME NEW j \in 1 .. Len(m.list), m.list[j] = Idle,
                 \A i \in 1 .. j - 1 : m.list[i] # Idle,
                 l = SubSeq(m.list, 1, j - 1)
          PROVE  d \o e = ReceivedList(m)
      <4>1. Len(d) = j - 1 /\ Len(d) \in Nat
        BY <1>1, <2>2, <3>2
      <4>2. e \in Seq(T) /\ Len(e) = HistoryLen - (j - 1) /\
            \A i \in 1 .. Len(e) : e[i] = Idle
        BY <2>1, <4>1
      <4>3. j - 1 < HistoryLen /\ j \in Nat
        BY <2>1
      <4> HIDE DEF e, T
      <4>4. /\ d \o e \in Seq(T) /\ Len(d \o e) = HistoryLen
            /\ \A i \in 1 .. j - 1 : (d \o e)[i] = d[i]
            /\ \A i \in 1 .. HistoryLen : i > j - 1 => (d \o e)[i] = Idle
        <5> DEFINE x == d \o e
        <5>1. /\ d \o e \in Seq(T) /\ Len(d \o e) = Len(d) + Len(e)
              /\ \A i \in 1 .. Len(d) : (d \o e)[i] = d[i]
              /\ \A i \in 1 .. Len(d) + Len(e) :
                    i > Len(d) => i - Len(d) \in 1 .. Len(e) /\
                    (d \o e)[i] = e[i - Len(d)]
          BY <2>2, <4>2, ConcatAt
        <5>2. Len(d) + Len(e) = HistoryLen
          BY <4>1, <4>2, <4>3, <2>1
        <5>3. \A i \in 1 .. HistoryLen : i > j - 1 => x[i] = Idle
          <6> HIDE DEF x
          <6> QED
            BY <5>1, <5>2, <4>1, <4>2 DEF x
        <5> HIDE DEF x
        <5> QED
          BY <5>1, <5>2, <5>3, <4>1 DEF x
      <4>5. ASSUME NEW i \in 1 .. HistoryLen
            PROVE  (d \o e)[i] = IF m.to = "COS" /\ \E k \in 1 .. i : m.list[k] = Idle
                                 THEN Idle ELSE Shown(m.list[i])
        <5>1. CASE i > j - 1
          <6>1. j \in 1 .. i
            BY <5>1
          <6> QED
            BY <3>2, <2>5, <4>4, <5>1, <6>1
        <5>2. CASE i <= j - 1
          <6>1. i \in 1 .. j - 1 /\ \A k \in 1 .. i : k \in 1 .. j - 1
            BY <5>2
          <6>2. l[i] = m.list[i] /\ i \in 1 .. Len(l)
            BY <1>1, <3>2, <6>1
          <6>3. ~ \E k \in 1 .. i : m.list[k] = Idle
            BY <3>2, <6>1
          <6>4. (d \o e)[i] = d[i] /\ d[i] = Shown(l[i])
            BY <2>2, <4>4, <6>1, <6>2
          <6> QED
            BY <6>2, <6>3, <6>4
        <5>3. i > j - 1 \/ i <= j - 1
          BY <4>3
        <5> HIDE DEF e
        <5> QED
          BY <5>1, <5>2, <5>3
      <4>6. ReceivedList(m) = [i \in 1 .. HistoryLen |->
                                 IF m.to = "COS" /\ \E k \in 1 .. i : m.list[k] = Idle
                                 THEN Idle ELSE Shown(m.list[i])]
        BY <1>1, <2>1 DEF ReceivedList
      <4>7. d \o e = [i \in 1 .. HistoryLen |-> (d \o e)[i]]
        <5> DEFINE x == d \o e
        <5>1. x \in Seq(T) /\ Len(x) = HistoryLen
          BY <4>4
        <5> HIDE DEF x
        <5>2. x = [i \in 1 .. HistoryLen |-> x[i]]
          BY <5>1, <2>1
        <5> QED
          BY <5>2 DEF x
      <4> QED
        BY <4>5, <4>6, <4>7
    <3>3. ASSUME \A j \in 1 .. Len(m.list) : m.list[j] # Idle,
                 NEW s \in SeqOf(Strays, MaxExtra), l = m.list \o s
          PROVE  Reading(m, d \o e) \in Arrivals(m)
      <4>1. d \in SentLists(m) /\ Len(l) = HistoryLen + Len(s) /\ Len(s) \in Nat
        BY <1>4, <2>5, <3>3, StraysBehind DEF d
      <4>2. d \o e = d
        <5>1. 1 .. HistoryLen - Len(d) = {}
          BY <2>2, <2>1, <4>1
        <5>2. e = <<>>
          BY <5>1
        <5> HIDE DEF e, T
        <5> QED
          BY <2>2, <5>2
      <4> QED
        BY <4>1, <4>2, ArrivesAs
    <3>4. \/ \E j \in 1 .. Len(m.list) :
               m.list[j] = Idle /\ (\A i \in 1 .. j - 1 : m.list[i] # Idle) /\
               l = SubSeq(m.list, 1, j - 1)
          \/ /\ \A j \in 1 .. Len(m.list) : m.list[j] # Idle
             /\ \E s \in SeqOf(Strays, MaxExtra) : l = m.list \o s
      BY <1>1, <3>1, SampleLists
    <3> HIDE DEF e
    <3> QED
      BY <2>3, <3>2, <3>3, <3>4, ArrivesWhole DEF d
  <2> QED
    BY <2>4, <2>5
<1> QED
  BY <1>2, <1>3, <1>4

\* A text that is read whole is parsed as a form of its message, or it may be refused.
LEMMA WholeTextRead ==
    ASSUME CodeSizes, NEW m \in Messages, NEW fs \in Printouts(m),
           NEW b, b.num = Len(fs), b.fields = fs
    PROVE  /\ ParsesMsg(b) => Known(m.to, b) /\ Parsed(m.to, b) \in Arrivals(m)
           /\ ~ParsesMsg(b) => MayBeRefused(m)
<1>1. Message(m)
  BY MessagesAssumption
<1>2. fs \in Seq(Texts(m)) /\ Len(fs) \in Nat
  BY <1>1, PrintoutParts
<1>3. PICK l \in Lists(m) : Show(l) \in Seq(Texts(m)) /\ PrintedAs(m, fs, Show(l))
  BY <1>1, PrintoutParts
<1>4. ASSUME ParsesMsg(b)
      PROVE  Known(m.to, b) /\ Parsed(m.to, b) \in Arrivals(m)
  <2>1. Tokens(fs) = fs
    BY <1>2, <1>4, TokensOrEmpty DEF ParsesMsg
  <2>2. Known(m.to, b) /\ Parsed(m.to, b) = Reading(m, ListRead(m.type, Show(l)))
    BY <1>1, <1>2, <1>3, <2>1, ReadsFields
  <2> QED
    BY <1>1, <2>2, ListReadWhole
<1>5. ASSUME ~ParsesMsg(b)
      PROVE  MayBeRefused(m)
  <2>1. CASE Len(fs) > MaxParsed
    BY <2>1, ManyFields
  <2>2. CASE Len(fs) > Len(Tokens(fs))
    <3>1. PICK i \in 1 .. Len(fs) : fs[i].len = 0
      BY <1>2, <2>2, TokensOrEmpty
    <3> QED
      BY <1>1, <3>1, EmptyFields DEF MayBeRefused
  <2>3. Len(Tokens(fs)) \in Nat
    BY <1>2, TokensAreFields
  <2> QED
    BY <1>2, <1>5, <2>1, <2>2, <2>3, CodecAssumption DEF ParsesMsg
<1> QED
  BY <1>4, <1>5

-----------------------------------------------------------------------------
(* A text that is longer than recvbuf *)

\* How many bytes of its fields the first n bytes of the connection c have.
FieldBytes(c, n) == n - HeaderLen(c) - (Digits(Len(c.fields)) + 1)

\* Only a message beyond the limits is that long, a request or a notice without an
\* idle sample, and then by three bytes at most: what was compared with the buffer
\* leaves out the header.
LEMMA LongText ==
    ASSUME CodeSizes, NEW c \in Connections, c.st = "SENT", TotalLen(c) > RecvBuf
    PROVE  /\ ~Documented(c.msg)
           /\ c.msg.type = "CREATE_VM_REQ" \/ (c.msg.to = "COS" /\ c.msg.type \in Notices)
           /\ Joined(c.fields) - FieldBytes(c, RecvBuf) \in 1 .. 3
           /\ Joined(c.fields) >= 121
<1> DEFINE m == c.msg
           fs == c.fields
<1>1. m \in Messages /\ fs \in Printouts(m) /\ Fits(fs) /\ c.len = TextLen(fs)
  BY DEF Connections
<1>2. Message(m)
  BY <1>1, MessagesAssumption
<1>3. RecvBuf = 128 /\ SendBuf = 128
  BY DEF CodeSizes
<1>4. c.len > 124 /\ c.len \in Nat
  <2>1. c.len \in Nat
    BY DEF Connections
  <2>2. TotalLen(c) = Digits(c.len) + 1 + c.len
    BY DEF TotalLen, HeaderLen
  <2> DEFINE x == c.len
  <2>3. x \in Nat /\ Digits(x) + 1 + x > 128
    BY <1>3, <2>1, <2>2
  <2> HIDE DEF x
  <2>4. x > 124 /\ x \in Nat
    BY <2>3 DEF Digits
  <2> QED
    BY <2>4 DEF x
<1>5. ~Documented(m)
  BY <1>1, <1>4, DocumentedFits
<1>6. m.type = "CREATE_VM_REQ" \/ (m.to = "COS" /\ m.type \in Notices)
  BY <1>5 DEF Documented
<1>7. Joined(fs) \in Int /\ fs[1].val = m.type
  <2>1. PICK l \in Lists(m) : PrintedAs(m, fs, Show(l))
    BY <1>1, <1>2, PrintoutParts
  <2>2. Joined(fs) \in Int
    BY <1>2, <1>1, PrintoutParts, JoinedInt
  <2> QED
    BY <2>1, <2>2 DEF PrintedAs, Text
<1>8. CurrLen(fs) = Joined(fs)
  BY <1>6, <1>7 DEF CurrLen, Notices
<1> DEFINE x == c.len
           d == Digits(Len(fs))
           j == Joined(fs)
           h == Digits(x) + 1
           b == FieldBytes(c, RecvBuf)
<1>9. d \in 1 .. 3
  <2> DEFINE n == Len(fs)
  <2> HIDE DEF n
  <2>1. Digits(n) \in 1 .. 3
    BY DEF Digits
  <2> QED
    BY <2>1 DEF n
<1>10. x = d + 1 + j /\ x \in Nat /\ x > 124 /\ j \in Int
  BY <1>1, <1>4, <1>7 DEF TextLen
<1>11. j + d + 1 + 1 <= 128
  BY <1>1, <1>3, <1>8 DEF Fits
<1>12. b = 128 - h - (d + 1)
  BY <1>3 DEF FieldBytes, HeaderLen
<1>13. h = 4
  <2> HIDE DEF x
  <2> QED
    BY <1>10 DEF Digits
<1> HIDE DEF x, d, j, h, b
<1>14. j - b \in 1 .. 3 /\ j >= 121
  BY <1>9, <1>10, <1>11, <1>12, <1>13
<1> QED
  BY <1>5, <1>6, <1>14 DEF j, b

\* The fields that are read: all but the last, and of that a damaged one; fewer, or
\* nothing of the last, only if that is too short.
LEMMA CutFields ==
    ASSUME CodeSizes, NEW c \in Connections, c.st = "SENT", TotalLen(c) > RecvBuf
    PROVE  LET fs == c.fields
           IN  \E k \in 0 .. Len(fs) - 1 :
                  /\ \A gs \in FieldsIn(c, RecvBuf) :
                        \/ gs = Append(SubSeq(fs, 1, k), Damaged)
                        \/ gs = SubSeq(fs, 1, k) /\ ~(4 <= fs[Len(fs)].len)
                  /\ 2 <= fs[Len(fs)].len => k = Len(fs) - 1
<1> DEFINE fs == c.fields
           b == FieldBytes(c, RecvBuf)
           whole == {i \in 1 .. Len(fs) : Joined(SubSeq(fs, 1, i)) <= b}
           k == Cardinality(whole)
<1>1. c.msg \in Messages /\ fs \in Printouts(c.msg)
  BY DEF Connections
<1>2. fs \in Seq(Texts(c.msg)) /\ Measured(fs) /\ Len(fs) \in Nat /\
      DOMAIN fs = 1 .. Len(fs)
  BY <1>1, MessagesAssumption, PrintoutParts
<1>3. Joined(fs) - b \in 1 .. 3
  BY LongText
<1>4. b \in Int /\ Joined(fs) \in Int
  <2>1. Joined(fs) \in Int
    BY <1>2, JoinedInt
  <2>2. c.len \in Nat
    BY DEF Connections
  <2>3. HeaderLen(c) \in Nat /\ Digits(Len(fs)) \in Nat /\ RecvBuf \in Nat
    BY <1>2, <2>2, WireAssumption DEF HeaderLen, Digits
  <2> QED
    BY <2>1, <2>3 DEF FieldBytes
<1>5. FieldsIn(c, RecvBuf) = {Append(SubSeq(fs, 1, k), Damaged)} \cup
         (IF b <= Joined(SubSeq(fs, 1, k)) + 1 THEN {SubSeq(fs, 1, k)} ELSE {})
  <2>1. TotalLen(c) # RecvBuf
    BY TotalLenNat, WireAssumption
  <2> QED
    BY <1>2, <2>1 DEF FieldsIn, FieldBytes
<1>6. whole \subseteq 1 .. Len(fs) - 1
  <2>1. SubSeq(fs, 1, Len(fs)) = fs
    BY <1>2
  <2>2. ~(Joined(fs) <= b)
    <3> HIDE DEF b
    <3> QED
      BY <1>3, <1>4
  <2>3. Len(fs) \notin whole
    BY <2>1, <2>2
  <2> QED
    BY <1>2, <2>3
<1>7. k \in 0 .. Len(fs) - 1
  <2>1. Len(fs) # 0
    BY <1>1, MessagesAssumption, PrintoutParts, FieldNames DEF PrintedAs, Distinct
  <2>2. /\ IsFiniteSet(1 .. Len(fs) - 1) /\ Cardinality(1 .. Len(fs) - 1) = Len(fs) - 1
        /\ Len(fs) - 1 \in Nat
    <3> DEFINE n == Len(fs) - 1
    <3>1. n \in Nat
      BY <1>2, <2>1
    <3> HIDE DEF n
    <3>2. IsFiniteSet(1 .. n) /\ Cardinality(1 .. n) = n
      BY <3>1, FS_Interval
    <3> QED
      BY <3>1, <3>2 DEF n
  <2> HIDE DEF whole
  <2>3. IsFiniteSet(whole) /\ Cardinality(whole) <= Cardinality(1 .. Len(fs) - 1)
    BY <1>6, <2>2, FS_Subset
  <2>4. Cardinality(whole) \in Nat
    BY <2>3, FS_CardinalityType
  <2> QED
    BY <2>2, <2>3, <2>4
<1>8. /\ Len(fs) # 0 /\ fs[Len(fs)].len \in Nat
      /\ \A i \in 1 .. Len(fs) - 1 :
            /\ Joined(SubSeq(fs, 1, i)) + 1 + fs[Len(fs)].len <= Joined(fs)
            /\ Joined(SubSeq(fs, 1, i)) \in Int
  <2>1. Len(fs) # 0 /\ fs[Len(fs)].len \in Nat
    BY <1>7, <1>2 DEF Measured
  <2>2. ASSUME NEW i \in 1 .. Len(fs) - 1 PROVE Joined(SubSeq(fs, 1, i)) \in Int
    <3>1. Measured(SubSeq(fs, 1, i))
      BY <1>2 DEF Measured
    <3> QED
      BY <3>1, JoinedInt
  <2> QED
    BY <1>2, <2>1, <2>2, JoinedPrefix
<1>9. ASSUME 2 <= fs[Len(fs)].len
      PROVE  k = Len(fs) - 1
  <2>1. ASSUME NEW i \in 1 .. Len(fs) - 1
        PROVE  Joined(SubSeq(fs, 1, i)) <= b
    <3> DEFINE x == Joined(SubSeq(fs, 1, i))
               y == fs[Len(fs)].len
               j == Joined(fs)
    <3> HIDE DEF x, y, j, b
    <3>1. x + 1 + y <= j /\ x \in Int /\ y \in Nat /\ 2 <= y /\ j - b \in 1 .. 3 /\
          j \in Int /\ b \in Int
      BY <1>3, <1>8, <1>9, <1>4 DEF x, y, j
    <3>2. x <= b
      BY <3>1
    <3> QED
      BY <3>2 DEF x
  <2>2. whole = 1 .. Len(fs) - 1
    BY <1>2, <1>6, <2>1
  <2>3. Cardinality(1 .. Len(fs) - 1) = Len(fs) - 1
    <3> DEFINE n == Len(fs) - 1
    <3>1. n \in Nat
      BY <1>2, <1>8
    <3> HIDE DEF n
    <3>2. Cardinality(1 .. n) = n
      BY <3>1, FS_Interval
    <3> QED
      BY <3>1, <3>2 DEF n
  <2> HIDE DEF whole
  <2> QED
    BY <2>2, <2>3
<1>10. ASSUME 4 <= fs[Len(fs)].len, b <= Joined(SubSeq(fs, 1, k)) + 1
       PROVE  FALSE
  <2>1. k = Len(fs) - 1
    BY <1>8, <1>9, <1>10
  <2>2. CASE k = 0
    <3>1. SubSeq(fs, 1, k) = <<>>
      <4>1. SubSeq(fs, 1, 0) = <<>>
        BY <1>2
      <4> HIDE DEF k
      <4> QED
        BY <2>2, <4>1
    <3>2. Joined(SubSeq(fs, 1, k)) = -1
      BY <3>1, JoinedNothing
    <3>3. Joined(fs) >= 121
      BY LongText
    <3> HIDE DEF b, k
    <3> QED
      BY <1>3, <1>4, <1>10, <3>2, <3>3
  <2>3. CASE k # 0
    <3>1. k \in 1 .. Len(fs) - 1
      BY <1>7, <2>3
    <3> DEFINE x == Joined(SubSeq(fs, 1, k))
               y == fs[Len(fs)].len
               j == Joined(fs)
    <3>2. x + 1 + y <= j /\ x \in Int
      <4> HIDE DEF k, b
      <4> QED
        BY <1>8, <3>1
    <3>3. y \in Nat /\ 4 <= y /\ b <= x + 1 /\ j - b \in 1 .. 3 /\ j \in Int /\ b \in Int
      BY <1>3, <1>4, <1>8, <1>10
    <3> HIDE DEF x, y, j, b, k
    <3> QED
      BY <3>2, <3>3
  <2> QED
    BY <2>2, <2>3
<1> HIDE DEF k, b
<1> QED
  BY <1>5, <1>7, <1>9, <1>10

\* The list of a message that is longer than recvbuf is not empty; the last of its
\* fields is empty or has four characters or more, if it is a request.
LEMMA LongList ==
    ASSUME CodeSizes, NEW c \in Connections, c.st = "SENT", TotalLen(c) > RecvBuf,
           NEW l \in Lists(c.msg), PrintedAs(c.msg, c.fields, Show(l)),
           Joined(c.fields) = IdLen[c.msg.type] + Shown(c.msg.return_addr).len
                            + Joined(Show(Named(c.msg))) + Joined(Show(l)) + 3
    PROVE  /\ Show(l) \in SentLists(c.msg) /\ l \in Seq(Own(c.msg)) /\ Len(l) \in Nat \ {0}
           /\ c.msg.type = "CREATE_VM_REQ" =>
                 Len(l) <= 4 /\ (Shown(l[Len(l)]).len = 0 \/ 4 <= Shown(l[Len(l)]).len)
           /\ c.msg.type \in Notices => HistoryLen <= Len(l)
<1> DEFINE m == c.msg
           fs == c.fields
<1>1. m \in Messages
  BY DEF Connections
<1>2. Message(m)
  BY <1>1, MessagesAssumption
<1>3. l \in Seq(Own(m)) /\ m.list \in Seq(Own(m)) /\ Len(l) \in Nat
  <2>1. l \in Seq(Own(m)) /\ m.list \in Seq(Own(m))
    BY <1>2, PrintedParts
  <2> QED
    BY <2>1
<1>4. CASE m.type = "CREATE_VM_REQ"
  <2>1. l = m.list /\ Len(l) <= 4
    BY <1>1, <1>4, ListLen
  <2>2. m.to # "COS" /\ Printed(m) = <<"vmcfg_file">> /\ Len(Printed(m)) = 1 /\
        IdLen[m.type] = 13
    <3>1. Len(<<"vmcfg_file">>) = 1
      OBVIOUS
    <3> QED
      BY <1>2, <1>4, <3>1, FieldNames, PrintedNames DEF IdLen
  <2>3. Len(l) # 0
    <3> SUFFICES ASSUME Len(l) = 0 PROVE FALSE
      OBVIOUS
    <3>1. Joined(Show(l)) = -1
      <4>1. l = <<>>
        BY <1>3
      <4>2. Show(l) = <<>>
        BY <4>1 DEF Show
      <4> QED
        BY <4>2, JoinedNothing
    <3> DEFINE a == Shown(m.return_addr).len
               n == Joined(Show(Named(m)))
               j == Joined(fs)
    <3>2. n <= 22 /\ n \in Int
      <4>1. n <= 1 * 23 - 1 /\ n \in Int
        BY <1>1, <1>2, <2>2, NamedLen, PrintedParts, MeasuredTexts
      <4> HIDE DEF n
      <4> QED
        BY <4>1
    <3>3. a <= 21 /\ a \in Nat
      <4>1. IsText(m.return_addr) /\ m.return_addr.len <= 21 /\ m.return_addr.len \in Nat
        BY <1>1, <1>2 DEF Message, CodeSizes, IsText
      <4>2. a = IF m.return_addr = Null THEN 6 ELSE m.return_addr.len
        BY <4>1, ShownText
      <4> HIDE DEF a
      <4> QED
        BY <4>1, <4>2
    <3>4. j = 13 + a + n + (-1) + 3
      BY <2>2, <3>1
    <3>5. j >= 121
      BY LongText
    <3> HIDE DEF a, n, j
    <3> QED
      BY <3>2, <3>3, <3>4, <3>5
  <2>4. Shown(l[Len(l)]).len = 0 \/ 4 <= Shown(l[Len(l)]).len
    <3> DEFINE x == Len(l)
               t == l[x]
    <3>1. x \in 1 .. x /\ x \in DOMAIN l
      BY <1>3, <2>3
    <3>2. t \in ToSet(m.list) /\ t \in Own(m)
      BY <2>1, <3>1 DEF ToSet, Own
    <3>3. t.len = 0 \/ 4 <= t.len
      BY <1>1, <1>4, <3>2 DEF CodeSizes, Notices
    <3>4. IsText(t) /\ Shown(t).len = IF t = Null THEN 6 ELSE t.len
      BY <1>2, <3>2, TextsAreTexts, ShownText DEF Texts
    <3> HIDE DEF t
    <3>5. Shown(t).len = 0 \/ 4 <= Shown(t).len
      BY <3>3, <3>4
    <3> QED
      BY <3>5 DEF t
  <2>5. Show(l) \in SentLists(m)
    BY <1>2, <2>1, <2>2, ReceivedAsSent DEF SentLists
  <2> QED
    BY <1>3, <1>4, <2>1, <2>3, <2>4, <2>5 DEF Notices
<1>5. CASE m.to = "COS" /\ m.type \in Notices
  <2>1. ~Documented(m)
    BY LongText
  <2>2. \A j \in 1 .. Len(m.list) : m.list[j] # Idle
    <3>1. Idle \notin ToSet(m.list)
      BY <1>5, <2>1 DEF Documented, Notices
    <3> QED
      BY <1>3, <3>1 DEF ToSet
  <2>3. l \in SamplesPrinted(m.list)
    BY <1>5 DEF Lists
  <2>4. PICK s \in SeqOf(Strays, MaxExtra) : l = m.list \o s
    BY <1>3, <2>2, <2>3, SampleLists
  <2>5. Show(l) \in SentLists(m) /\ Len(l) = HistoryLen + Len(s) /\ Len(s) \in Nat
    BY <1>2, <1>5, <2>2, <2>4, StraysBehind
  <2>6. Len(l) # 0 /\ HistoryLen <= Len(l)
    BY <2>5, CodecAssumption
  <2> QED
    BY <1>3, <1>5, <2>5, <2>6 DEF Notices
<1> QED
  BY <1>4, <1>5, LongText

\* It is parsed as the message with the last field of its list damaged, or it may be
\* refused.
LEMMA CutTextRead ==
    ASSUME CodeSizes, NEW c \in Connections, c.st = "SENT", TotalLen(c) > RecvBuf,
           NEW b, b.num = Len(c.fields), b.fields \in FieldsIn(c, RecvBuf)
    PROVE  /\ ParsesMsg(b) => Known(c.msg.to, b) /\
              Parsed(c.msg.to, b) \in Arrivals(c.msg)
           /\ ~ParsesMsg(b) => MayBeRefused(c.msg)
<1> DEFINE m == c.msg
           fs == c.fields
           n == Len(fs)
           gs == b.fields
<1>1. m \in Messages /\ fs \in Printouts(m)
  BY DEF Connections
<1>2. Message(m)
  BY <1>1, MessagesAssumption
<1>3. ~Documented(m) /\
      (m.type = "CREATE_VM_REQ" \/ (m.to = "COS" /\ m.type \in Notices))
  BY LongText
<1>4. fs \in Seq(Texts(m)) /\ Measured(fs) /\ n \in Nat
  BY <1>1, <1>2, PrintoutParts
<1>5. PICK k \in 0 .. n - 1 :
         /\ \/ gs = Append(SubSeq(fs, 1, k), Damaged)
            \/ gs = SubSeq(fs, 1, k) /\ ~(4 <= fs[n].len)
         /\ 2 <= fs[n].len => k = n - 1
  BY CutFields
<1>6. PICK l \in Lists(m) :
         /\ Show(l) \in Seq(Texts(m)) /\ Len(Show(l)) = Len(l) /\ PrintedAs(m, fs, Show(l))
         /\ Joined(fs) = IdLen[m.type] + Shown(m.return_addr).len
                            + Joined(Show(Named(m))) + Joined(Show(l)) + 3
  BY <1>1, <1>2, PrintoutParts
<1>7. /\ Show(l) \in SentLists(m) /\ l \in Seq(Own(m)) /\ Len(l) \in Nat \ {0}
      /\ m.type = "CREATE_VM_REQ" =>
            Len(l) <= 4 /\ (Shown(l[Len(l)]).len = 0 \/ 4 <= Shown(l[Len(l)]).len)
      /\ m.type \in Notices => HistoryLen <= Len(l)
  BY <1>6, LongList
<1>8. n = 2 + Len(Printed(m)) + Len(l) /\ Len(Printed(m)) \in Nat
  BY <1>2, <1>6, FieldNames DEF PrintedAs, Distinct
<1>9. fs[n] = Shown(l[Len(l)])
  <2> DEFINE x == Len(l)
  <2>1. x \in 1 .. x /\ x \in 1 .. Len(Show(l))
    BY <1>6, <1>7
  <2>2. fs[n] = Show(l)[x]
    <3> HIDE DEF x, n
    <3> QED
      BY <1>6, <1>8, <2>1 DEF PrintedAs, x
  <2>3. Show(l)[x] = Shown(l[x])
    BY <1>7, <2>1, ShowAt
  <2> QED
    BY <2>2, <2>3
<1>10. ASSUME m.type = "CREATE_VM_REQ", ~(4 <= fs[n].len)
       PROVE  MayBeRefused(m)
  <2>1. fs[n].len = 0
    BY <1>7, <1>9, <1>10
  <2>2. n \in 1 .. Len(fs)
    <3> DEFINE x == Len(l)
               y == Len(Printed(m))
    <3>1. n = 2 + y + x /\ x \in Nat /\ y \in Nat
      BY <1>7, <1>8
    <3> HIDE DEF x, y
    <3>2. 1 <= n
      <4> HIDE DEF n
      <4> QED
        BY <3>1
    <3> QED
      BY <1>4, <3>2
  <2>3. Unreadable(m)
    BY <1>1, <1>2, <2>1, <2>2, EmptyFields
  <2> QED
    BY <2>3 DEF MayBeRefused
<1>11. ASSUME m.to = "COS" /\ m.type \in Notices
       PROVE  MayBeRefused(m)
  BY <1>3, <1>11, NoticeWithIdle
<1>12. ASSUME Len(gs) \in Nat, Len(gs) < n, gs \in Seq(Texts(m))
       PROVE  ~ParsesMsg(b)
  <2>1. Len(Tokens(gs)) <= Len(gs) /\ Len(Tokens(gs)) \in Nat
    BY <1>12, TokensAreFields
  <2>2. ~(n <= Len(Tokens(gs)))
    BY <1>4, <1>12, <2>1
  <2> QED
    BY <2>2 DEF ParsesMsg
<1>13. CASE gs = SubSeq(fs, 1, k) /\ ~(4 <= fs[n].len)
  <2>1. gs \in Seq(Texts(m)) /\ Len(gs) = k
    BY <1>4, <1>13
  <2>2. ~ParsesMsg(b)
    BY <1>4, <1>12, <2>1
  <2> QED
    BY <1>3, <1>10, <1>11, <1>13, <2>2
<1>14. CASE gs = Append(SubSeq(fs, 1, k), Damaged) /\ k # n - 1
  <2>1. gs \in Seq(Texts(m)) /\ Len(gs) = k + 1
    <3>1. SubSeq(fs, 1, k) \in Seq(Texts(m)) /\ Len(SubSeq(fs, 1, k)) = k /\ Damaged \in Texts(m)
      BY <1>4 DEF Texts
    <3> QED
      BY <1>14, <3>1
  <2>2. ~ParsesMsg(b)
    BY <1>4, <1>12, <1>14, <2>1
  <2>3. ~(4 <= fs[n].len)
    <3>1. ~(2 <= fs[n].len)
      BY <1>5, <1>14
    <3>2. fs[n].len \in Nat
      <4>1. n \in 1 .. n
        BY <1>4, <1>5
      <4> QED
        BY <1>4, <4>1 DEF Measured
    <3> QED
      BY <3>1, <3>2
  <2> QED
    BY <1>3, <1>10, <1>11, <2>2, <2>3
<1>15. CASE gs = Append(SubSeq(fs, 1, k), Damaged) /\ k = n - 1
  <2> DEFINE e == Append(Front(Show(l)), Damaged)
             o == <<Damaged>>
  <2>1. gs \in Seq(Texts(m)) /\ e \in Seq(Texts(m)) /\ Len(gs) = n /\ PrintedAs(m, gs, e)
    <3>1. o \in Seq(Texts(m)) /\ Len(o) = 1
      BY DEF Texts
    <3>2. Len(Show(l)) # 0
      BY <1>6, <1>7
    <3> HIDE DEF o
    <3>3. LET hs == SubSeq(fs, 1, Len(fs) - 1) \o o
              f == Front(Show(l)) \o o
          IN  /\ hs \in Seq(Texts(m)) /\ f \in Seq(Texts(m)) /\ PrintedAs(m, hs, f)
              /\ Len(hs) = Len(fs) - 1 + Len(o)
      <4>1. /\ fs \in Seq(Texts(m)) /\ Show(l) \in Seq(Texts(m)) /\ o \in Seq(Texts(m))
            /\ PrintedAs(m, fs, Show(l)) /\ Len(Show(l)) # 0 /\ Len(Printed(m)) \in Nat
        BY <1>4, <1>6, <1>8, <3>1, <3>2
      <4> HIDE DEF fs, m, n, gs, e
      <4> QED
        BY <4>1, CutPrinted, ZenonT(60)
    <3>4. gs = SubSeq(fs, 1, Len(fs) - 1) \o o
      <4> DEFINE u == SubSeq(fs, 1, n - 1)
      <4>1. u \in Seq(Texts(m)) /\ gs = Append(u, Damaged)
        BY <1>4, <1>5, <1>15
      <4> HIDE DEF u
      <4>2. gs = u \o o
        BY <4>1 DEF o
      <4> QED
        BY <4>2 DEF u
    <3>5. e = Front(Show(l)) \o o
      <4> DEFINE u == Front(Show(l))
      <4>1. u \in Seq(Texts(m))
        <5>1. Show(l) # <<>>
          BY <3>2
        <5> QED
          BY <1>6, <5>1, FrontAndLast
      <4> HIDE DEF u
      <4>2. Append(u, Damaged) = u \o o
        BY <4>1 DEF o
      <4> QED
        BY <4>2 DEF u
    <3>6. Len(fs) - 1 + Len(o) = n
      BY <1>4, <3>1
    <3> HIDE DEF e
    <3> QED
      BY <3>3, <3>4, <3>5, <3>6
  <2>2. ASSUME ParsesMsg(b)
        PROVE  Known(m.to, b) /\ Parsed(m.to, b) \in Arrivals(m)
    <3>1. Tokens(gs) = gs
      BY <2>1, <2>2, TokensOrEmpty DEF ParsesMsg
    <3>2. Known(m.to, b) /\ Parsed(m.to, b) = Reading(m, ListRead(m.type, e))
      BY <1>2, <2>1, <3>1, ReadsFields
    <3>3. ListRead(m.type, e) = e
      <4>1. CASE m.type = "CREATE_VM_REQ"
        BY <4>1 DEF ListRead, Notices
      <4>2. CASE m.type \in Notices
        <5> DEFINE u == Front(Show(l))
                   z == [i \in 1 .. HistoryLen - Len(e) |-> Idle]
        <5>1. u \in Seq(Texts(m)) /\ Len(u) = Len(l) - 1
          <6>1. Show(l) # <<>>
            BY <1>6, <1>7
          <6> QED
            BY <1>6, <6>1, FrontAndLast
        <5>2. Len(e) = Len(l)
          <6> HIDE DEF u
          <6>1. Len(Append(u, Damaged)) = Len(u) + 1
            BY <5>1
          <6> QED
            BY <1>7, <5>1, <6>1 DEF u
        <5>3. 1 .. HistoryLen - Len(e) = {}
          BY <1>7, <4>2, <5>2, CodecAssumption
        <5>4. z = <<>>
          BY <5>3
        <5>5. ListRead(m.type, e) = e \o z
          BY <4>2 DEF ListRead
        <5> HIDE DEF e, z
        <5> QED
          BY <2>1, <5>4, <5>5
      <4> QED
        BY <1>3, <4>1, <4>2
    <3>4. Reading(m, e) \in Arrivals(m)
      BY <1>2, <1>3, <1>7, ArrivesAs
    <3> QED
      BY <3>2, <3>3, <3>4
  <2>3. ASSUME ~ParsesMsg(b), m.type = "CREATE_VM_REQ", 4 <= fs[n].len
        PROVE  MayBeRefused(m)
    <3>1. ~(n > MaxParsed)
      <4> DEFINE x == Len(l)
      <4>1. n = 3 + x /\ x \in Nat /\ x <= 4 /\ MaxParsed = 10
        <5>1. Len(Printed(m)) = 1
          <6>1. Len(<<"vmcfg_file">>) = 1
            OBVIOUS
          <6> QED
            BY <1>2, <2>3, <6>1, FieldNames, PrintedNames
        <5> QED
          BY <1>7, <1>8, <2>3, <5>1 DEF CodeSizes
      <4> HIDE DEF n, x
      <4> QED
        BY <4>1
    <3>2. Len(gs) > Len(Tokens(gs))
      <4>1. Len(Tokens(gs)) \in Nat
        BY <2>1, TokensAreFields
      <4> QED
        BY <1>4, <2>1, <2>3, <3>1, <4>1, CodecAssumption DEF ParsesMsg
    <3>3. PICK i \in 1 .. Len(gs) : gs[i].len = 0
      BY <2>1, <3>2, TokensOrEmpty
    <3>4. i # n
      <4>1. gs[n] = Damaged
        BY <1>4, <1>5, <1>15, <2>1
      <4>2. Damaged.len # 0
        BY DEF Damaged, Text
      <4> QED
        BY <3>3, <4>1, <4>2
    <3>5. i \in 1 .. Len(fs) /\ fs[i].len = 0
      <4>1. i \in 1 .. n - 1
        BY <1>4, <2>1, <3>3, <3>4
      <4>2. gs[i] = fs[i]
        BY <1>4, <1>5, <1>15, <4>1
      <4> QED
        BY <3>3, <4>1, <4>2
    <3> QED
      BY <1>1, <1>2, <3>5, EmptyFields DEF MayBeRefused
  <2> QED
    BY <1>3, <1>10, <1>11, <2>2, <2>3
<1> QED
  BY <1>5, <1>13, <1>14, <1>15

-----------------------------------------------------------------------------
(* Wire implements Mailbox *)

\* The queue of Mailbox that stands for the connections cs.
Queue(cs) == [i \in DOMAIN cs |-> [msg |-> cs[i].msg, st |-> cs[i].st]]

\* What such a queue consists of.
Waiting == [msg : Messages, st : {"OPEN", "SENT", "LEFT", "GONE"}]

\* The queue has an entry for every connection.
LEMMA QueueAt ==
    ASSUME NEW cs \in Seq(Connections)
    PROVE  /\ Queue(cs) \in Seq(Waiting) /\ Len(Queue(cs)) = Len(cs)
           /\ DOMAIN Queue(cs) = 1 .. Len(cs) /\ Len(cs) \in Nat /\
              DOMAIN cs = 1 .. Len(cs)
           /\ \A i \in 1 .. Len(cs) :
                 Queue(cs)[i] = [msg |-> cs[i].msg, st |-> cs[i].st]
<1>1. \A i \in 1 .. Len(cs) : [msg |-> cs[i].msg, st |-> cs[i].st] \in Waiting
  BY DEF Connections, Waiting
<1>2. DOMAIN cs = 1 .. Len(cs) /\ Len(cs) \in Nat
  OBVIOUS
<1> QED
  BY <1>1, <1>2 DEF Queue

\* A new connection is a new entry.
LEMMA QueueAppend ==
    ASSUME NEW cs \in Seq(Connections), NEW c \in Connections
    PROVE  Queue(Append(cs, c)) = Append(Queue(cs), [msg |-> c.msg, st |-> c.st])
<1> DEFINE d == Append(cs, c)
           w == [msg |-> c.msg, st |-> c.st]
           q == Append(Queue(cs), w)
<1>1. w \in Waiting
  BY DEF Connections, Waiting
<1>2. /\ d \in Seq(Connections) /\ Len(d) = Len(cs) + 1 /\ d[Len(cs) + 1] = c
      /\ \A i \in 1 .. Len(cs) : d[i] = cs[i]
  OBVIOUS
<1> HIDE DEF d
<1>3. /\ Queue(d) \in Seq(Waiting) /\ Len(Queue(d)) = Len(d)
      /\ \A i \in 1 .. Len(d) : Queue(d)[i] = [msg |-> d[i].msg, st |-> d[i].st]
  BY <1>2, QueueAt
<1>4. /\ Queue(cs) \in Seq(Waiting) /\ Len(Queue(cs)) = Len(cs) /\ Len(cs) \in Nat
      /\ \A i \in 1 .. Len(cs) : Queue(cs)[i] = [msg |-> cs[i].msg, st |-> cs[i].st]
  BY QueueAt
<1> HIDE DEF w
<1>5. /\ q \in Seq(Waiting) /\ Len(q) = Len(cs) + 1 /\ q[Len(cs) + 1] = w
      /\ \A i \in 1 .. Len(cs) : q[i] = Queue(cs)[i]
  BY <1>1, <1>4
<1> HIDE DEF q
<1>6. ASSUME NEW i \in 1 .. Len(cs) + 1 PROVE Queue(d)[i] = q[i]
  <2>1. CASE i = Len(cs) + 1
    BY <1>2, <1>3, <1>4, <1>5, <2>1 DEF w
  <2>2. CASE i # Len(cs) + 1
    <3>1. i \in 1 .. Len(cs)
      BY <1>4, <2>2
    <3> QED
      BY <3>1, <1>2, <1>3, <1>4, <1>5
  <2> QED
    BY <2>1, <2>2
<1>7. Queue(d) = q
  BY <1>2, <1>3, <1>5, <1>6, SameSeq
<1> QED
  BY <1>7 DEF d, q, w

\* The connection that is served first is the head of the queue.
LEMMA QueueTail ==
    ASSUME NEW cs \in Seq(Connections), cs # <<>>
    PROVE  /\ Queue(cs) # <<>> /\ Queue(Tail(cs)) = Tail(Queue(cs))
           /\ Head(Queue(cs)) = [msg |-> cs[1].msg, st |-> cs[1].st] /\ Head(cs) = cs[1]
<1> DEFINE d == Tail(cs)
           q == Queue(cs)
           t == Tail(q)
<1>1. /\ d \in Seq(Connections) /\ Len(d) = Len(cs) - 1 /\ Len(cs) # 0 /\ Head(cs) = cs[1]
      /\ \A i \in 1 .. Len(cs) - 1 : d[i] = cs[i + 1]
  OBVIOUS
<1> HIDE DEF d
<1>2. /\ Queue(d) \in Seq(Waiting) /\ Len(Queue(d)) = Len(d)
      /\ \A i \in 1 .. Len(d) : Queue(d)[i] = [msg |-> d[i].msg, st |-> d[i].st]
  BY <1>1, QueueAt
<1>3. /\ q \in Seq(Waiting) /\ Len(q) = Len(cs) /\ Len(cs) \in Nat
      /\ \A i \in 1 .. Len(cs) : q[i] = [msg |-> cs[i].msg, st |-> cs[i].st]
  BY QueueAt
<1> HIDE DEF q
<1>4. q # <<>> /\ Head(q) = q[1] /\ 1 \in 1 .. Len(cs)
  BY <1>1, <1>3
<1>5. /\ t \in Seq(Waiting) /\ Len(t) = Len(cs) - 1
      /\ \A i \in 1 .. Len(cs) - 1 : t[i] = q[i + 1]
  BY <1>1, <1>3, <1>4
<1> HIDE DEF t
<1>6. ASSUME NEW i \in 1 .. Len(cs) - 1 PROVE Queue(d)[i] = t[i]
  <2>1. i + 1 \in 1 .. Len(cs) /\ i \in 1 .. Len(d)
    BY <1>1, <1>3
  <2> QED
    BY <2>1, <1>1, <1>2, <1>3, <1>5
<1>7. Queue(d) = t
  BY <1>1, <1>2, <1>3, <1>5, <1>6, SameSeq
<1> QED
  BY <1>1, <1>3, <1>4, <1>7 DEF d, q, t

\* The connections q when the one at i gets into the state st.
Restated(q, i, st) == [q EXCEPT ![i].st = st]

\* A connection that changes changes the state of its entry.
LEMMA QueueOne ==
    ASSUME NEW cs \in Seq(Connections), NEW i \in DOMAIN cs, NEW c \in Connections,
           c.msg = cs[i].msg
    PROVE  Queue([cs EXCEPT ![i] = c]) = Restated(Queue(cs), i, c.st)
<1> DEFINE d == [cs EXCEPT ![i] = c]
           q == Queue(cs)
           p == [q EXCEPT ![i].st = c.st]
<1>1. DOMAIN d = 1 .. Len(cs) /\ \A j \in 1 .. Len(cs) : d[j] = IF j = i THEN c ELSE cs[j]
  OBVIOUS
<1>2. /\ DOMAIN q = 1 .. Len(cs) /\ DOMAIN cs = 1 .. Len(cs)
      /\ \A j \in 1 .. Len(cs) : q[j] = [msg |-> cs[j].msg, st |-> cs[j].st]
  BY QueueAt
<1> HIDE DEF d, q
<1>3. \A j \in 1 .. Len(cs) : p[j] = IF j = i THEN [q[j] EXCEPT !.st = c.st] ELSE q[j]
  BY <1>2
<1>4. p = [j \in 1 .. Len(cs) |-> p[j]]
  BY <1>2
<1> HIDE DEF p
<1>5. Queue(d) = [j \in 1 .. Len(cs) |-> [msg |-> d[j].msg, st |-> d[j].st]]
  BY <1>1 DEF Queue
<1>6. ASSUME NEW j \in 1 .. Len(cs) PROVE p[j] = [msg |-> d[j].msg, st |-> d[j].st]
  <2>1. CASE j = i
    <3>1. p[j] = [[msg |-> cs[j].msg, st |-> cs[j].st] EXCEPT !.st = c.st] /\ d[j] = c
      BY <1>1, <1>2, <1>3, <2>1
    <3>2. \A a, b, e : [[msg |-> a, st |-> b] EXCEPT !.st = e] = [msg |-> a, st |-> e]
      OBVIOUS
    <3> QED
      BY <3>1, <3>2, <2>1
  <2>2. CASE j # i
    BY <1>1, <1>2, <1>3, <2>2
  <2> QED
    BY <2>1, <2>2
<1>7. Queue(d) = p
  BY <1>4, <1>5, <1>6
<1> QED
  BY <1>7 DEF d, p, q, Restated

\* The initial states of Wire are those of Mailbox.
LEMMA MailStarts == WireInit => Mail!MailInit
<1> SUFFICES ASSUME WireInit PROVE Mail!MailInit
  OBVIOUS
<1>1. conns = <<>> /\ handled = Nothing /\ leaked = 0 /\ (program # "MON") \in BOOLEAN
  BY DEF WireInit
<1>2. [i \in DOMAIN conns |-> [msg |-> conns[i].msg, st |-> conns[i].st]] = <<>>
  BY <1>1
<1> QED
  BY <1>1, <1>2 DEF Mail!MailInit, Nothing, Mail!Nothing

\* What Mailbox does not see.
LEMMA MailRests ==
    ASSUME UNCHANGED <<program, conns, handled, leaked>>
    PROVE  UNCHANGED Mail!mailVars
BY DEF Mail!mailVars

\* Connect puts a message into the queue.
LEMMA ConnectMails ==
    ASSUME WireInv, NEW s \in Senders, NEW m \in Messages, Connect(s, m)
    PROVE  Mail!MailNext
<1> DEFINE c == Connection(m, s)
<1>1. /\ c \in Connections /\ c.st = "OPEN" /\ c.msg = m
      /\ conns \in Seq(Connections) /\ conns' = Append(conns, c)
      /\ UNCHANGED <<program, handled, leaked>>
  BY NewConnection DEF WireInv, Connect
<1> HIDE DEF c
<1>2. Queue(conns') = Append(Queue(conns), [msg |-> m, st |-> "OPEN"])
  BY <1>1, QueueAppend
<1>3. Len(Queue(conns)) < Backlog + 1
  <2>1. Len(Queue(conns)) = Len(conns) /\ Len(conns) \in Nat
    BY <1>1, QueueAt
  <2>2. Len(conns) - (IF accepted THEN 1 ELSE 0) < Backlog /\ accepted \in BOOLEAN
    BY DEF Connect, WireInv
  <2> QED
    BY <2>1, <2>2, WireAssumption
<1>4. Mail!Put(m)
  BY <1>1, <1>2, <1>3 DEF Mail!Put, Queue
<1> QED
  BY <1>4 DEF Mail!MailNext

\* A sender that ends voids what it has not sent.
LEMMA EndedMails ==
    ASSUME WireInv, NEW s \in Senders, Ended(s), UNCHANGED <<program, handled, leaked>>
    PROVE  Mail!MailNext
<1> DEFINE D == DOMAIN conns
           q == Queue(conns)
<1>1. conns \in Seq(Connections)
  BY DEF WireInv
<1>2. DOMAIN q = D /\ \A i \in D : q[i] = [msg |-> conns[i].msg, st |-> conns[i].st]
  BY <1>1, QueueAt
<1>3. PICK S \in SUBSET D :
         S = {i \in D : conns[i].from = s /\ conns[i].st \in {"OPEN", "LEFT"}}
  OBVIOUS
<1>4. conns' = [i \in D |-> IF i \in S THEN [conns[i] EXCEPT !.st = "GONE"] ELSE conns[i]]
  BY <1>3 DEF Ended
<1>5. ASSUME NEW i \in D
      PROVE  [msg |-> conns'[i].msg, st |-> conns'[i].st]
               = IF i \in S THEN [q[i] EXCEPT !.st = "GONE"] ELSE q[i]
  <2>1. conns[i] \in Connections
    BY <1>1
  <2>2. /\ [conns[i] EXCEPT !.st = "GONE"].st = "GONE"
        /\ [conns[i] EXCEPT !.st = "GONE"].msg = conns[i].msg
    BY <2>1 DEF Connections
  <2>3. \A a, b, e : [[msg |-> a, st |-> b] EXCEPT !.st = e] = [msg |-> a, st |-> e]
    OBVIOUS
  <2> HIDE DEF q
  <2> QED
    BY <1>2, <1>4, <2>2, <2>3
<1>6. Queue(conns') = [i \in D |-> IF i \in S THEN [q[i] EXCEPT !.st = "GONE"] ELSE q[i]]
  <2>1. DOMAIN conns' = D
    BY <1>4
  <2> HIDE DEF q, D
  <2> QED
    BY <1>5, <2>1 DEF Queue
<1>7. \A i \in S : q[i].st \in {"OPEN", "LEFT"}
  BY <1>2, <1>3
<1>8. Mail!Void(S)
  BY <1>2, <1>6, <1>7 DEF Mail!Void, Queue
<1> QED
  BY <1>2, <1>8 DEF Mail!MailNext, Queue

\* Send fills an entry, voids entries, or is not seen.
LEMMA SendMails ==
    ASSUME WireInv, NEW s \in Senders, Send(s)
    PROVE  Mail!MailNext \/ UNCHANGED Mail!mailVars
<1>1. UNCHANGED <<program, handled, leaked>>
  BY DEF Send
<1>2. CASE Ended(s)
  BY <1>2, <1>1, EndedMails
<1>3. CASE UNCHANGED conns
  BY <1>3, <1>1, MailRests
<1>4. ASSUME NEW i \in DOMAIN conns, conns[i].st = "OPEN",
             NEW fs \in Printouts(conns[i].msg),
             \/ /\ Fits(fs)
                /\ conns' = [conns EXCEPT ![i].st = "SENT", ![i].fields = fs,
                                          ![i].len = TextLen(fs)]
             \/ /\ ~Fits(fs)
                /\ conns' = [conns EXCEPT ![i].st = "LEFT"]
      PROVE  Mail!MailNext
  <2>1. conns \in Seq(Connections)
    BY DEF WireInv
  <2>2. conns[i] \in Connections
    BY <2>1
  <2>3. PICK c \in Connections :
           /\ conns' = [conns EXCEPT ![i] = c]
           /\ c.msg = conns[i].msg
                                 /\ c.st \in {"SENT", "LEFT"}
    <3>1. CASE Fits(fs)
      <4>1. conns' = [conns EXCEPT ![i] = [@ EXCEPT !.st = "SENT", !.fields = fs,
                                                    !.len = TextLen(fs)]]
        BY <1>4, <3>1
      <4> DEFINE c == [conns[i] EXCEPT !.st = "SENT", !.fields = fs, !.len = TextLen(fs)]
      <4>2. c \in Connections /\ c.msg = conns[i].msg /\ c.st = "SENT"
        BY <1>4, <2>2, <3>1, SentConnection
      <4> HIDE DEF c
      <4>3. conns' = [conns EXCEPT ![i] = c]
        BY <4>1 DEF c
      <4> QED
        BY <4>2, <4>3
    <3>2. CASE ~Fits(fs)
      <4>1. conns' = [conns EXCEPT ![i] = [@ EXCEPT !.st = "LEFT"]]
        BY <1>4, <3>2
      <4> QED
        BY <1>4, <2>2, <3>2, <4>1, OtherConnection
    <3> QED
      BY <3>1, <3>2
  <2>4. Queue(conns') = [Queue(conns) EXCEPT ![i].st = c.st]
    <3>1. c.msg = conns[i].msg
      BY <2>3
    <3>2. Queue([conns EXCEPT ![i] = c]) = Restated(Queue(conns), i, c.st)
      BY <2>1, <3>1, QueueOne
    <3>3. Queue(conns') = Restated(Queue(conns), i, c.st)
      BY <2>3, <3>2
    <3> QED
      BY <3>3 DEF Restated
  <2>5. Queue(conns)[i].st = "OPEN" /\ i \in DOMAIN Queue(conns)
    <3>1. DOMAIN Queue(conns) = 1 .. Len(conns) /\ i \in 1 .. Len(conns)
      BY <1>4, <2>1, QueueAt
    <3>2. Queue(conns)[i] = [msg |-> conns[i].msg, st |-> conns[i].st]
      BY <2>1, <3>1, QueueAt
    <3> QED
      BY <1>4, <3>1, <3>2
  <2>6. Mail!Fill(i)
    BY <1>1, <2>3, <2>4, <2>5 DEF Mail!Fill, Queue
  <2> QED
    BY <2>5, <2>6 DEF Mail!MailNext, Queue
<1> QED
  BY <1>2, <1>3, <1>4 DEF Send

\* Serve takes the first message or loses it.
LEMMA ServeMails ==
    ASSUME WireInv, accepted, NEW b, Serve(b),
           /\ b.newline /\ ParsesMsg(b) /\ Known(program, b)
              => conns[1].st = "SENT" /\ Parsed(program, b) \in Arrivals(conns[1].msg)
           /\ ~(b.newline /\ ParsesMsg(b) /\ Known(program, b))
              => \/ conns[1].st = "GONE"
                 \/ conns[1].st = "SENT" /\ MayBeRefused(conns[1].msg)
                 \/ program = "MON"
    PROVE  Mail!MailNext
<1>1. conns \in Seq(Connections) /\ conns # <<>> /\ conns' = Tail(conns) /\
      program' = program
  BY DEF WireInv, Serve
<1>2. /\ Queue(conns) # <<>> /\ Queue(conns') = Tail(Queue(conns))
      /\ Head(Queue(conns)).msg = conns[1].msg /\ Head(Queue(conns)).st = conns[1].st
  BY <1>1, QueueTail
<1>3. CASE b.newline /\ ParsesMsg(b) /\ Known(program, b)
  <2>1. handled' = Parsed(program, b) /\ UNCHANGED leaked
    BY <1>3 DEF Serve
  <2>2. Mail!Take
    BY <1>1, <1>2, <1>3, <2>1 DEF Mail!Take, Queue
  <2> QED
    BY <2>2 DEF Mail!MailNext
<1>4. CASE ~(b.newline /\ ParsesMsg(b) /\ Known(program, b))
  <2>1. leaked' = leaked + 1 /\ UNCHANGED handled
    BY <1>4 DEF Serve
  <2>2. Mail!Lose
    BY <1>1, <1>2, <1>4, <2>1 DEF Mail!Lose, Queue
  <2> QED
    BY <2>2 DEF Mail!MailNext
<1> QED
  BY <1>3, <1>4

\* Finish takes it unless its sender ended or it may be refused.
LEMMA FinishMails ==
    ASSUME CodeSizes, WireInv, Finish
    PROVE  Mail!MailNext
<1> DEFINE c == conns[1]
<1>1. conns \in Seq(Connections) /\ conns # <<>> /\ accepted /\ c \in Connections /\
      Head(conns) = c
  BY DEF WireInv, Finish
<1>2. c.msg.to = program
  BY <1>1 DEF WireInv
<1>3. CASE c.st = "GONE" /\ Serve(NoText)
  <2>1. ~NoText.newline
    BY DEF NoText
  <2> QED
    BY <1>1, <1>3, <2>1, ServeMails
<1>4. ASSUME c.st = "SENT", ~ReadsOn(c) \/ Room = 0, NEW fs \in FieldsIn(c, readlen),
             Serve([num |-> Len(c.fields), fields |-> fs, newline |-> TRUE])
      PROVE  Mail!MailNext
  <2> DEFINE b == [num |-> Len(c.fields), fields |-> fs, newline |-> TRUE]
  <2>1. b.newline /\ b.num = Len(c.fields) /\ b.fields \in FieldsIn(c, readlen) /\ Serve(b)
    BY <1>4
  <2> HIDE DEF b
  <2>2. c.msg \in Messages /\ c.fields \in Printouts(c.msg)
    BY <1>1, <1>4 DEF Connections
  <2>3. readlen \in Nat /\ RecvBuf \in Nat /\ readlen <= TotalLen(c) /\
        TotalLen(c) \in Nat
    BY <1>1, <1>4, TotalLenNat, WireAssumption DEF WireInv
  <2>4. readlen = TotalLen(c) \/ (readlen = RecvBuf /\ TotalLen(c) > RecvBuf)
    BY <1>4, <2>3 DEF ReadsOn, Room
  <2>5. /\ ParsesMsg(b) => Known(c.msg.to, b) /\ Parsed(c.msg.to, b) \in Arrivals(c.msg)
        /\ ~ParsesMsg(b) => MayBeRefused(c.msg)
    <3>1. CASE readlen = TotalLen(c)
      <4>1. b.fields = c.fields
        BY <2>1, <3>1 DEF FieldsIn
      <4> QED
        BY <2>1, <2>2, <4>1, WholeTextRead
    <3>2. CASE readlen = RecvBuf /\ TotalLen(c) > RecvBuf
      BY <1>1, <1>4, <2>1, <3>2, CutTextRead
    <3> QED
      BY <2>4, <3>1, <3>2
  <2> QED
    BY <1>1, <1>2, <1>4, <2>1, <2>5, ServeMails
<1> QED
  BY <1>1, <1>3, <1>4 DEF Finish

\* TimeOut loses it: buf has no newline, so nothing is handled twice (Socket.c:152).
LEMMA TimeOutMails ==
    ASSUME WireInv, TimeOut
    PROVE  Mail!MailNext
<1>1. program = "MON" /\ accepted /\ Serve(buf) /\ ~buf.newline
  BY DEF TimeOut, WireInv
<1> QED
  BY <1>1, ServeMails

\* A program that is started again has an empty queue.
LEMMA RestartedMails ==
    ASSUME Restarted
    PROVE  Mail!MailNext
<1>1. conns' = <<>> /\ handled' = Nothing /\ leaked' = 0 /\ program' = program
  BY DEF Restarted
<1>2. Queue(conns') = <<>>
  BY <1>1 DEF Queue
<1>3. Mail!Reset
  BY <1>1, <1>2 DEF Mail!Reset, Nothing, Mail!Nothing, Queue
<1> QED
  BY <1>3 DEF Mail!MailNext

\* Read is not seen, unless the program ends of the byte it writes behind recvbuf.
LEMMA ReadMails ==
    ASSUME Read
    PROVE  Mail!MailNext \/ UNCHANGED Mail!mailVars
<1>1. Restarted \/ UNCHANGED <<program, conns, handled, leaked>>
  BY DEF Read
<1> QED
  BY <1>1, RestartedMails, MailRests

\* With the sizes of the code, the bytes keep the promise of a mailbox: messages are
\* handled one at a time in the order of their connections, in a form in which they
\* may arrive, none twice and none from a stale buffer (Socket.c:152); one is lost,
\* with its descriptor (cos_main.c:599), only if its sender ended, it may be
\* refused, or the program is a VmMonitor, which does not wait for ever.
THEOREM WireDelivers ==
    ASSUME CodeSizes
    PROVE  WireSpec => Delivers
<1>1. WireInv /\ [WireNext]_wireVars => [Mail!MailNext]_(Mail!mailVars)
  <2> SUFFICES ASSUME WireInv, [WireNext]_wireVars
               PROVE  Mail!MailNext \/ UNCHANGED Mail!mailVars
    OBVIOUS
  <2>1. CASE UNCHANGED wireVars
    BY <2>1, MailRests DEF wireVars
  <2>2. ASSUME NEW s \in Senders, SenderEnds(s) PROVE Mail!MailNext
    BY <2>2, EndedMails DEF SenderEnds
  <2>3. CASE Accept
    BY <2>3, MailRests DEF Accept
  <2>4. CASE ProgramEnds
    BY <2>4, RestartedMails DEF ProgramEnds
  <2> QED
    BY <2>1, <2>2, <2>3, <2>4, ConnectMails, SendMails, ReadMails, FinishMails,
       TimeOutMails
       DEF WireNext
<1> QED
  BY <1>1, MailStarts, WireInvHolds, PTL DEF WireSpec, Delivers, Mail!MailSpec

=============================================================================
