-------------------------------- MODULE Wire --------------------------------
(***************************************************************************)
(* One program's end of the network, byte by byte: the send_msg of its      *)
(* peers, Common/Socket.c, and the loop in main that all three programs     *)
(* have.  A peer connects, converts its message, writes it and closes; the  *)
(* program accepts one connection, reads until it has what the content      *)
(* length says, parses, handles and closes.                                 *)
(***************************************************************************)
EXTENDS Codec

CONSTANTS
    Senders,     \* processes that send to the program
    Messages,    \* what they may send
    Backlog,     \* connections that can wait for accept
    RecvBuf,     \* MAX_RECVBUF_LEN, and the length of recvbuf
    AddrLen,     \* length of a full "x.x.x.x:yyyy" (CommonDef.h:6)
    MaxTheaters, \* MAX_THEATERS
    Cuts,        \* where the network may cut a text in two
    MaxSends,    \* bound on the messages sent in all
    MaxEnds      \* bound on the processes that end in all

(* A message as its stub fills it: the texts of its named fields, a history *)
(* of HistoryLen samples, at most MaxTheaters peer theaters.                *)
Message(m) ==
    /\ m = [to |-> m.to, type |-> m.type, return_addr |-> m.return_addr,
            arg |-> m.arg, list |-> m.list]
    /\ m.to \in {"COS", "NODE", "MON"} /\ m.type \in DOMAIN Assigned(m.to)
    /\ m.arg = [f \in ToSet(Printed(m)) |-> m.arg[f]]
    /\ m.list \in Seq(ToSet(m.list))
    /\ \A t \in {m.return_addr} \cup {m.arg[f] : f \in ToSet(Printed(m))} \cup ToSet(m.list) :
          IsText(t)
    /\ CASE m.type \in Notices -> Len(m.list) = HistoryLen
         [] m.type = "CREATE_VM_REQ" -> Len(m.list) <= MaxTheaters
         [] OTHER -> m.list = <<>>

ASSUME MessagesAssumption == \A m \in Messages : Message(m)

ASSUME WireAssumption ==
    /\ Backlog \in Nat \ {0} /\ RecvBuf \in Nat \ {0}
    /\ AddrLen \in Nat /\ MaxTheaters \in Nat /\ Cuts \subseteq Nat
    /\ MaxSends \in Nat /\ MaxEnds \in Nat

VARIABLES
    program,    \* which program it is: COS, NODE or MON
    conns,      \* its connections in their order, [msg, from, st, fields, len]
    accepted,   \* the first of them is accepted
    readlen,    \* bytes of it that were read
    buf,        \* main's buf: the text in it, and whether its newline is there
    handled,    \* the message handled last since the program started
    leaked,     \* accepted sockets that were not closed
    out,        \* what a sender's socket is in between connect and write
    sends,      \* messages sent so far
    ends        \* processes that ended so far

wireVars ==
    <<program, conns, accepted, readlen, buf, handled, leaked, out, sends, ends>>

Nothing == [type |-> "NOTHING"]

\* No text: what buf holds is not initialised, or is empty.
NoText == [num |-> 0, fields |-> <<>>, newline |-> FALSE]

Connection(m, s) == [msg |-> m, from |-> s, st |-> "OPEN", fields |-> <<>>, len |-> 0]

-----------------------------------------------------------------------------
(* A sender. *)

(* connect returns once the connection is in the backlog. *)
Connect(s, m) ==
    /\ out[s] = "CLOSED"
    /\ sends < MaxSends
    /\ m.to = program
    /\ Len(conns) - (IF accepted THEN 1 ELSE 0) < Backlog
    /\ conns' = Append(conns, Connection(m, s))
    /\ out' = [out EXCEPT ![s] = "OPEN"]
    /\ sends' = sends + 1
    /\ UNCHANGED <<program, accepted, readlen, buf, handled, leaked, ends>>

(* The process s ends, and is started again when it is needed: the kernel   *)
(* closes its sockets.                                                      *)
Ended(s) ==
    /\ conns' = [i \in DOMAIN conns |->
                    IF conns[i].from = s /\ conns[i].st \in {"OPEN", "LEFT"}
                    THEN [conns[i] EXCEPT !.st = "GONE"] ELSE conns[i]]
    /\ out' = [out EXCEPT ![s] = "CLOSED"]

(* The rest of send_msg.  A message that does not fit is given up without a *)
(* close; the process may also die of what it wrote behind tempbuf.         *)
Send(s) ==
    /\ \/ /\ out[s] = "OPEN"
          /\ \E i \in DOMAIN conns :
                /\ conns[i].from = s /\ conns[i].st = "OPEN"
                /\ \E fs \in Printouts(conns[i].msg) :
                      \/ /\ Fits(fs)
                         /\ conns' = [conns EXCEPT ![i].st = "SENT", ![i].fields = fs,
                                                  ![i].len = TextLen(fs)]
                         /\ out' = [out EXCEPT ![s] = "CLOSED"]
                      \/ /\ ~Fits(fs)
                         /\ conns' = [conns EXCEPT ![i].st = "LEFT"]
                         /\ out' = [out EXCEPT ![s] = "CLOSED"]
                      \/ Overruns(fs) /\ Ended(s)
       \/ (* the program has stopped reading this connection *)
          /\ out[s] = "UNREAD"
          /\ out' = [out EXCEPT ![s] = "CLOSED"]
          /\ UNCHANGED conns
       \/ (* the connection was reset: write fails, is repeated, raises SIGPIPE *)
          out[s] = "RESET" /\ Ended(s)
    /\ UNCHANGED <<program, accepted, readlen, buf, handled, leaked, sends, ends>>

SenderEnds(s) ==
    /\ ends < MaxEnds
    /\ ends' = ends + 1
    /\ Ended(s)
    /\ UNCHANGED <<program, accepted, readlen, buf, handled, leaked, sends>>

-----------------------------------------------------------------------------
(* The program. *)

Accept ==
    /\ ~accepted /\ conns # <<>>
    /\ accepted' = TRUE
    /\ readlen' = 0
    /\ UNCHANGED <<program, conns, buf, handled, leaked, out, sends, ends>>

(* The header is the content length and a newline. *)
HeaderLen(c) == Digits(c.len) + 1
TotalLen(c) == HeaderLen(c) + c.len

(* The condition of the loop in Socket_receive_data. *)
ReadsOn(c) == c.st = "SENT" => readlen < TotalLen(c)

RoomForAll == RecvBuf   \* the bytes already read are not taken off

Room == RecvBuf - readlen

(* The program has ended and is started again.  Connections it has not      *)
(* accepted are reset; what is sent on the others is taken and not read.    *)
Restarted ==
    /\ conns' = <<>>
    /\ accepted' = FALSE
    /\ readlen' = 0
    /\ buf' = NoText
    /\ handled' = Nothing
    /\ leaked' = 0
    /\ out' = [s \in Senders |->
                  IF out[s] # "OPEN" THEN out[s]
                  ELSE IF accepted /\ Head(conns).from = s /\ Head(conns).st = "OPEN"
                       THEN "UNREAD" ELSE "RESET"]
    /\ UNCHANGED <<program, sends>>

(* While there is no header, parse_contlen puts a 0 behind what was read.   *)
(* If recvbuf is full that is a byte which is not its own.                  *)
WritesBehind(c, n) == readlen < HeaderLen(c) /\ readlen + n = RecvBuf

(* read returns what has come, up to a cut, and what there is room for.     *)
(* The byte behind recvbuf may be of no use to anyone (what the compiler    *)
(* puts there is padding, or contlen, which is set right after it), or the  *)
(* program ends of it.                                                      *)
Read ==
    /\ accepted
    /\ LET c == Head(conns)
       IN  /\ c.st = "SENT" /\ ReadsOn(c)
           /\ \E n \in 1 .. Room :
                 /\ readlen + n <= TotalLen(c)
                 /\ readlen + n \in Cuts \cup {TotalLen(c), readlen + Room}
                 /\ \/ /\ readlen' = readlen + n
                       /\ UNCHANGED <<program, conns, accepted, buf, handled, leaked,
                                      out, sends>>
                    \/ WritesBehind(c, n) /\ Restarted
    /\ UNCHANGED ends

(* The fields that the first n bytes of c may make.  What is missing of the *)
(* one that is cut, three bytes at the most, is copied from behind recvbuf; *)
(* nothing may be left of it if none of it was read.  (That a comma may be  *)
(* behind recvbuf and begin one more field is left out.)                    *)
FieldsIn(c, n) ==
    LET bytes == n - HeaderLen(c) - (Digits(Len(c.fields)) + 1)
        whole == {i \in DOMAIN c.fields : Joined(SubSeq(c.fields, 1, i)) <= bytes}
        kept == SubSeq(c.fields, 1, Cardinality(whole))
    IN  IF n = TotalLen(c) THEN {c.fields}
        ELSE {Append(kept, Damaged)} \cup (IF bytes <= Joined(kept) + 1 THEN {kept} ELSE {})

(* main after Socket_receive_data, with b in buf.  ParseMsg_parse puts a 0  *)
(* where it finds the newline.                                              *)
AfterParseKept(b) == b   \* the newline is left as it is

AfterParse(b) == [b EXCEPT !.newline = FALSE]

Serve(b) ==
    /\ buf' = AfterParse(b)
    /\ IF b.newline /\ ParsesMsg(b) /\ Known(program, b)
       THEN handled' = Parsed(program, b) /\ UNCHANGED leaked
       ELSE leaked' = leaked + 1 /\ UNCHANGED handled
    /\ conns' = Tail(conns)
    /\ accepted' = FALSE
    /\ readlen' = 0
    /\ out' = IF Head(conns).st = "OPEN"
              THEN [out EXCEPT ![Head(conns).from] = "UNREAD"] ELSE out
    /\ UNCHANGED <<program, sends, ends>>

(* All is read, or read returns 0: recvbuf is full, or the sender closed    *)
(* without a word, and then buflen is 0 and main goes on to the next.       *)
FinishWaits ==   \* read returning 0 does not end the loop
    /\ accepted
    /\ LET c == Head(conns)
       IN  /\ c.st = "SENT" /\ ~ReadsOn(c)
           /\ \E fs \in FieldsIn(c, readlen) :
                 Serve([num |-> Len(c.fields), fields |-> fs, newline |-> TRUE])

Finish ==
    /\ accepted
    /\ LET c == Head(conns)
       IN  \/ /\ c.st = "SENT" /\ (~ReadsOn(c) \/ Room = 0)
              /\ \E fs \in FieldsIn(c, readlen) :
                    Serve([num |-> Len(c.fields), fields |-> fs, newline |-> TRUE])
           \/ c.st = "GONE" /\ Serve(NoText)

(* read fails: the sockets that VmMonitor accepts inherit its time-out.     *)
(* What Socket_receive_data returns is not looked at.                       *)
TimeOut ==
    /\ program = "MON"
    /\ accepted
    /\ Head(conns).st # "GONE"
    /\ ReadsOn(Head(conns))
    /\ Serve(buf)

ProgramEnds ==
    /\ ends < MaxEnds
    /\ ends' = ends + 1
    /\ Restarted

-----------------------------------------------------------------------------
WireInit ==
    /\ program \in {"COS", "NODE", "MON"}
    /\ conns = <<>>
    /\ accepted = FALSE
    /\ readlen = 0
    /\ buf = NoText
    /\ handled = Nothing
    /\ leaked = 0
    /\ out = [s \in Senders |-> "CLOSED"]
    /\ sends = 0
    /\ ends = 0

WireNext ==
    \/ \E s \in Senders :
          \/ \E m \in Messages : Connect(s, m)
          \/ Send(s)
          \/ SenderEnds(s)
    \/ Accept
    \/ Read
    \/ Finish
    \/ TimeOut
    \/ ProgramEnds

(* A sender that has its connection goes on, the program goes on, the       *)
(* network delivers what was written, and a read with a time-out ends.      *)
WireFairness ==
    /\ \A s \in Senders : WF_wireVars(Send(s))
    /\ WF_wireVars(Accept)
    /\ WF_wireVars(Read)
    /\ WF_wireVars(Finish)
    /\ WF_wireVars(TimeOut)

WireSpec == WireInit /\ [][WireNext]_wireVars /\ WireFairness

-----------------------------------------------------------------------------
(* Properties *)

\* Every variable keeps its type; no more connections wait than the backlog takes,
\* and read never gets more room than recvbuf has left (Socket.c:150).  (The 0 that
\* parse_contlen puts behind a full recvbuf is another matter: see RequestsFit.)
WireTypeOK ==
    /\ program \in {"COS", "NODE", "MON"}
    /\ Len(conns) <= Backlog + 1
    /\ \A i \in DOMAIN conns :
          /\ conns[i].msg \in Messages /\ conns[i].from \in Senders
          /\ conns[i].st \in {"OPEN", "SENT", "LEFT", "GONE"}
          /\ conns[i].len \in Nat
    /\ accepted \in BOOLEAN /\ (accepted => conns # <<>>)
    /\ readlen \in 0 .. RecvBuf
    /\ DOMAIN buf = {"num", "fields", "newline"} /\ buf.newline \in BOOLEAN
    /\ leaked \in 0 .. MaxSends
    /\ out \in [Senders -> {"CLOSED", "OPEN", "UNREAD", "RESET"}]
    /\ sends \in 0 .. MaxSends
    /\ ends \in 0 .. MaxEnds

\* A message within the documented limits: a request has addresses "x.x.x.x:yyyy"
\* and room left in the peer list; a notice to the manager has an idle sample, as
\* the loop of cos_msg.c:160 has no other end.
Documented(m) ==
    /\ m.type = "CREATE_VM_REQ" =>
          /\ Len(m.list) < MaxTheaters
          /\ \A t \in ToSet(m.list) \cup {m.return_addr} : t.len <= AddrLen
    /\ m.to = "COS" /\ m.type \in Notices => Idle \in ToSet(m.list)

\* The numbers of the code, and how long it makes its texts: an address has a port
\* of at most five digits, and one a NodeManager gives as its own is full-length at
\* the most (CommonDef.h:6); names and files of virtual machines are made by
\* cos_main.c:285, samples are printed by "%lf".
CodeSizes ==
    /\ SendBuf = 128 /\ RecvBuf = 128 /\ MaxParsed = 10
    /\ HistoryLen = 5 /\ AddrLen = 20 /\ MaxTheaters = 4
    /\ \A m \in Messages :
          /\ m.return_addr.len <= IF m.to = "COS" THEN AddrLen ELSE AddrLen + 1
          /\ \A f \in DOMAIN m.arg : m.arg[f].len <= IF f = "vm_name" THEN 5 ELSE 22
          /\ \A t \in ToSet(m.list) :
                IF m.type \in Notices THEN t.len = 8 ELSE t.len = 0 \/ 4 <= t.len

\* A message within the documented limits always fits: it is never given up after
\* the connect (node_msg.c:230), and header and text leave room in recvbuf for the
\* 0 of parse_contlen (Socket.c:126), which is thus never written behind it.
RequestsFit ==
    \A i \in DOMAIN conns : Documented(conns[i].msg) =>
        /\ conns[i].st # "LEFT"
        /\ conns[i].st = "SENT" => TotalLen(conns[i]) < RecvBuf

\* How a message may arrive.  A history without an idle sample may be followed by
\* what lies behind it; the last field of a message beyond the limits may be damaged.
Arrivals(m) ==
    LET r == Received(m)
        lists == IF m.to = "COS" /\ ~Documented(m)
                 THEN {r.list \o s : s \in SeqOf(Strays, MaxExtra)} ELSE {r.list}
        cut == IF Documented(m) THEN {} ELSE {Append(Front(l), Damaged) : l \in lists}
    IN  {[r EXCEPT !.list = l] : l \in lists \cup cut}

\* The bytes keep the promise of a mailbox: messages are handled one at a time in
\* the order of their connections, as they were sent, and none is handled twice or
\* from a stale buffer (Socket.c:152).  A message is lost, with the descriptor of
\* its connection (cos_main.c:599), only if its sender ended, if it cannot be read,
\* or if the program, a VmMonitor, would not wait for it.
Mail == INSTANCE Mailbox WITH
    Msgs <- Messages,
    Capacity <- Backlog + 1,
    patient <- program # "MON",
    queue <- [i \in DOMAIN conns |-> [msg |-> conns[i].msg, st |-> conns[i].st]],
    lost <- leaked

Delivers == Mail!MailSpec

\* The program catches up: again and again it is through with every connection made
\* so far (they are bounded, so each is got through), unless it waits for a sender
\* that gave up and left the connection open (CosManager.c:73): then it waits for
\* ever, but for a VmMonitor.
Drains ==
    []<>(\/ conns = <<>>
         \/ program # "MON" /\ conns[1].st = "LEFT")

=============================================================================
