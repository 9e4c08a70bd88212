------------------------------- MODULE Codec -------------------------------
(***************************************************************************)
(* Messages and their text (COS/cos_msg.c, Node/node_msg.c,                 *)
(* VmMon/vmmon_msg.c, Common/ParseMsg.c).  A message is a struct filled by  *)
(* a stub; its text is the number of its fields, a newline, and the fields  *)
(* joined by commas.                                                        *)
(*                                                                          *)
(* A field's text is a value and a length: which characters it is made of   *)
(* does not matter, how many and whether it is empty does.                  *)
(***************************************************************************)
EXTENDS Integers, SequencesExt

CONSTANTS
    SendBuf,      \* SENDBUF_LEN, and the length of tempbuf
    MaxParsed,    \* MAX_PARSED_MSG
    HistoryLen,   \* CPU_USAGE_HISTORY_LEN
    StrayLens,    \* how long a value from behind a history may be printed
    MaxExtra      \* bound on the number of these values

(* "%lf" of any double is "nan", "inf" or longer. *)
ASSUME CodecAssumption ==
    /\ SendBuf \in Nat /\ MaxParsed \in Nat /\ HistoryLen \in Nat \ {0}
    /\ StrayLens \subseteq Nat \ (0 .. 2) /\ MaxExtra \in Nat

Text(val, len) == [val |-> val, len |-> len]

Null == Text("NULL", 0)         \* a pointer that is not set; not the text of one
Empty == Text("", 0)
Idle == Text("0.000000", 8)     \* the sample 0.0
Tiny == Text("tiny", 8)         \* a sample that "%lf" prints as 0.000000
Damaged == Text("damaged", 8)   \* a field with bytes from behind recvbuf

(* What memory behind a history is printed as: any double but 0.0. *)
Strays == {Text("stray", n) : n \in StrayLens}

(* A text of no characters is one of these two. *)
IsText(t) ==
    /\ t = Text(t.val, t.len) /\ t.len \in Nat
    /\ t.len = 0 => t \in {Null, Empty}

Notices == {"NOTIFY_HIGH_CPU_USAGE", "NOTIFY_LOW_CPU_USAGE"}

(* A message to the program m.to has a return address, the named fields of  *)
(* its struct in m.arg, and in m.list its peer theaters or its samples.     *)
IdLen ==
    [CREATE_VM_RESP |-> 14, NOTIFY_HIGH_CPU_USAGE |-> 21, NOTIFY_LOW_CPU_USAGE |-> 20,
     DESTROY_VM_RESP |-> 15, CREATE_VM_REQ |-> 13, DESTROY_VM_REQ |-> 14,
     NOTIFY_VM_STARTED |-> 17, SHUTDOWN_THEATER_RESP |-> 21, SHUTDOWN_THEATER_REQ |-> 20]

-----------------------------------------------------------------------------
(* The three *_stringify_msg: the order in which named fields are printed,  *)
(* and what follows them.                                                   *)

CosPrinted ==
    [CREATE_VM_RESP |-> <<"vm_name", "new_theater", "result">>,
     NOTIFY_HIGH_CPU_USAGE |-> <<"vm_name">>,
     NOTIFY_LOW_CPU_USAGE |-> <<"vm_name">>,
     DESTROY_VM_RESP |-> <<"vm_name", "result">>]

NodePrinted ==
    [CREATE_VM_REQ |-> <<"vmcfg_file">>,
     DESTROY_VM_REQ |-> <<"vm_name">>,
     NOTIFY_VM_STARTED |-> <<"vmmon_addr", "theater">>,
     NOTIFY_HIGH_CPU_USAGE |-> <<"vmmon_addr">>,
     NOTIFY_LOW_CPU_USAGE |-> <<"vmmon_addr">>,
     SHUTDOWN_THEATER_RESP |-> <<"vmmon_addr", "result">>]

MonPrinted == [SHUTDOWN_THEATER_REQ |-> <<"theater">>]

Printed(m) ==
    CASE m.to = "COS"  -> CosPrinted[m.type]
      [] m.to = "NODE" -> NodePrinted[m.type]
      [] m.to = "MON"  -> MonPrinted[m.type]

(* "%s" of a NULL pointer, "%lf" of a double. *)
Shown(t) == CASE t = Null -> Text("(null)", 6)
              [] t = Tiny -> Idle
              [] OTHER -> t

(* The loop of cos_stringify_msg over the history ends at the first 0.0.    *)
(* Without one it goes on behind the struct until it meets a 0.0 there, and *)
(* nothing says how soon that is.                                           *)
SamplesPrinted(h) ==
    LET idle == SelectInSeq(h, LAMBDA t : t = Idle)
    IN  IF idle # 0 THEN {SubSeq(h, 1, idle - 1)}
        ELSE {h \o s : s \in SeqOf(Strays, MaxExtra)}

(* The sequences of fields a message may be printed as. *)
Printouts(m) ==
    LET names == Printed(m)
        named == [i \in DOMAIN names |-> m.arg[names[i]]]
        lists == IF m.to = "COS" /\ m.type \in Notices THEN SamplesPrinted(m.list)
                 ELSE {m.list}
    IN  {<<Text(m.type, IdLen[m.type])>>
            \o LET fs == <<m.return_addr>> \o named \o l
               IN  [i \in DOMAIN fs |-> Shown(fs[i])] : l \in lists}

-----------------------------------------------------------------------------
(* Lengths.  tempbuf takes the joined fields, buf the number, the newline   *)
(* and tempbuf.  (No text of 1000 bytes fits: their digits do not matter.)  *)

Digits(n) == IF n < 10 THEN 1 ELSE IF n < 100 THEN 2 ELSE 3

Joined(fs) ==
    LET upto[i \in 0 .. Len(fs)] == IF i = 0 THEN -1 ELSE upto[i - 1] + 1 + fs[i].len
    IN  upto[Len(fs)]

TextLen(fs) == Digits(Len(fs)) + 1 + Joined(fs)

(* tempbuf is written before any length is compared... *)
Overruns(fs) == SendBuf < Joined(fs) + 1

(* ... with currlen, which the last field of DESTROY_VM_REQ is not added to. *)
CurrLen(fs) ==
    IF fs[1].val = "DESTROY_VM_REQ" THEN Joined(Front(fs)) ELSE Joined(fs)

FitsWithHeader(fs) ==   \* the 64 bytes of Socket.c:106 are taken off as well
    CurrLen(fs) + Digits(Len(fs)) + 1 + 1 <= SendBuf - 64

Fits(fs) == CurrLen(fs) + Digits(Len(fs)) + 1 + 1 <= SendBuf

-----------------------------------------------------------------------------
(* ParseMsg_parse: strtok makes no token of an empty field, and the tokens  *)
(* must be as many as the text says.                                        *)

Tokens(fs) ==
    LET upto[i \in 0 .. Len(fs)] ==
            IF i = 0 THEN <<>>
            ELSE IF fs[i].len = 0 THEN upto[i - 1] ELSE Append(upto[i - 1], fs[i])
    IN  upto[Len(fs)]

ParsesMsg(text) == text.num <= MaxParsed /\ text.num <= Len(Tokens(text.fields))

(* The three *_parse_msg: the order in which tokens are taken. *)

CosAssigned ==
    [CREATE_VM_RESP |-> <<"vm_name", "new_theater", "result">>,
     NOTIFY_HIGH_CPU_USAGE |-> <<"vm_name">>,
     NOTIFY_LOW_CPU_USAGE |-> <<"vm_name">>,
     DESTROY_VM_RESP |-> <<"vm_name", "result">>]

NodeAssigned ==
    [CREATE_VM_REQ |-> <<"vmcfg_file">>,
     DESTROY_VM_REQ |-> <<"vm_name">>,
     NOTIFY_VM_STARTED |-> <<"vmmon_addr", "theater">>,
     NOTIFY_HIGH_CPU_USAGE |-> <<"vmmon_addr">>,
     NOTIFY_LOW_CPU_USAGE |-> <<"vmmon_addr">>,
     SHUTDOWN_THEATER_RESP |-> <<"vmmon_addr", "result">>]

MonAssigned == [SHUTDOWN_THEATER_REQ |-> <<"theater">>]

Assigned(to) ==
    CASE to = "COS"  -> CosAssigned
      [] to = "NODE" -> NodeAssigned
      [] to = "MON"  -> MonAssigned

Known(to, text) == Tokens(text.fields)[1].val \in DOMAIN Assigned(to)

(* The message a program reads; the history of the struct is zero where no  *)
(* token is, and more tokens than it has entries are written behind it.     *)
Parsed(to, text) ==
    LET t == Tokens(text.fields)
        type == t[1].val
        names == Assigned(to)[type]
        rest == SubSeq(t, 3 + Len(names), Len(t))
    IN  [to |-> to, type |-> type, return_addr |-> t[2],
         arg |-> [f \in ToSet(names) |-> t[2 + SelectInSeq(names, LAMBDA n : n = f)]],
         list |-> IF type \in Notices
                  THEN rest \o [i \in 1 .. HistoryLen - Len(rest) |-> Idle]
                  ELSE IF type = "CREATE_VM_REQ" THEN rest ELSE <<>>]

-----------------------------------------------------------------------------
(* What a reader of a message may rely on, said without the text. *)

(* A program can read a message none of whose fields is empty and that has  *)
(* at most MaxParsed fields, strays included.                               *)
Unreadable(m) ==
    \/ m.return_addr = Empty
    \/ \E f \in DOMAIN m.arg : m.arg[f] = Empty
    \/ Empty \in ToSet(m.list)

MayBeRefused(m) ==
    Unreadable(m) \/ (m.to = "COS" /\ m.type \in Notices /\ Idle \notin ToSet(m.list))

(* The message as it arrives: pointers that are not set have become a name, *)
(* and of a history the samples before the first idle one are left.          *)
Received(m) ==
    [m EXCEPT
        !.return_addr = Shown(@),
        !.arg = [f \in DOMAIN m.arg |-> Shown(m.arg[f])],
        !.list = [i \in DOMAIN m.list |->
                    IF m.to = "COS" /\ \E j \in 1 .. i : m.list[j] = Idle
                    THEN Idle ELSE Shown(m.list[i])]]

=============================================================================
