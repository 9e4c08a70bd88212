------------------ MODULE Network ------------------
(***************************************************************************)
(* How the processes talk (Common/Socket.c and the send_msg functions).    *)
(* Each process accepts connections on one listening socket and serves     *)
(* them one after the other in the order they were made; a message is a    *)
(* connection of its own, written whole and closed by the sender.  So a    *)
(* process has one queue of messages, the connections waiting in its       *)
(* backlog.  A sender knows only whether the connection could be made: it  *)
(* returns once the kernel of the peer has taken the message.              *)
(***************************************************************************)
EXTENDS NodeList, Sequences

CONSTANTS
    Backlog,          \* connections that can wait for accept
    ConnectTimeouts   \* whether a connect to a full backlog gives up in the end

ASSUME BacklogAssumption == Backlog \in Nat \ {0}
ASSUME ConnectTimeoutsAssumption == ConnectTimeouts \in BOOLEAN

VARIABLES
    cosInbox,    \* connections waiting at the COS manager
    nodeInbox,   \* ... at the NodeManager of each Node
    monInbox     \* ... at the VmMonitor in each Node's VM

netVars == <<cosInbox, nodeInbox, monInbox>>

HasRoom(q) == Len(q) < Backlog

\* A backlog that never fills.
ConnectUnlimited(listening, q) == {listening}

\* What connect can return (TRUE: a connection) when the peer's process is, or
\* is not, listening.  With a full backlog the caller waits, which is this step
\* not being taken, or gives up.
ConnectResult(listening, q) ==
    {r \in BOOLEAN : IF r THEN listening /\ HasRoom(q)
                     ELSE ~listening \/ (ConnectTimeouts /\ ~HasRoom(q))}

\* The queue after a send that made its connection, or did not.
Sent(q, m, ok) == IF ok THEN Append(q, m) ELSE q

NetInit ==
    /\ cosInbox = <<>>
    /\ nodeInbox = [n \in Nodes |-> <<>>]
    /\ monInbox = [n \in Nodes |-> <<>>]

=============================================================================
