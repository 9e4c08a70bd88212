------------------------------ MODULE Mailbox ------------------------------
(***************************************************************************)
(* What a program may expect of the messages sent to it, without bytes:     *)
(* they are handled one after the other in the order in which their senders *)
(* connected, each at most once and as it was sent.  Module Network takes   *)
(* this for granted; module Wire implements it.                             *)
(***************************************************************************)
EXTENDS Integers, Sequences

CONSTANTS
    Msgs,              \* what may be sent
    Capacity,          \* messages that can wait or be in service
    Arrivals(_),       \* the forms in which a message may arrive
    MayBeRefused(_)    \* a message that may be impossible to read

VARIABLES
    patient,   \* the program waits for a message as long as it takes
    queue,     \* [msg, st] in the order of the connections: a message not sent yet
               \* (OPEN), sent, given up by its sender (LEFT), or lost with it (GONE)
    handled,   \* the message handled last since the program started
    lost       \* messages lost since the program started

mailVars == <<patient, queue, handled, lost>>

Nothing == [type |-> "NOTHING"]

Put(m) ==
    /\ Len(queue) < Capacity
    /\ queue' = Append(queue, [msg |-> m, st |-> "OPEN"])
    /\ UNCHANGED <<patient, handled, lost>>

Fill(i) ==
    /\ queue[i].st = "OPEN"
    /\ \E st \in {"SENT", "LEFT"} : queue' = [queue EXCEPT ![i].st = st]
    /\ UNCHANGED <<patient, handled, lost>>

(* A sender ends: what it has not sent will not come. *)
Void(S) ==
    /\ \A i \in S : queue[i].st \in {"OPEN", "LEFT"}
    /\ queue' = [i \in DOMAIN queue |->
                    IF i \in S THEN [queue[i] EXCEPT !.st = "GONE"] ELSE queue[i]]
    /\ UNCHANGED <<patient, handled, lost>>

Take ==
    /\ queue # <<>>
    /\ Head(queue).st = "SENT"
    /\ handled' \in Arrivals(Head(queue).msg)
    /\ queue' = Tail(queue)
    /\ UNCHANGED <<patient, lost>>

Lose ==
    /\ queue # <<>>
    /\ \/ Head(queue).st = "GONE"
       \/ Head(queue).st = "SENT" /\ MayBeRefused(Head(queue).msg)
       \/ ~patient
    /\ queue' = Tail(queue)
    /\ lost' = lost + 1
    /\ UNCHANGED <<patient, handled>>

(* The program ends and is started again. *)
Reset ==
    /\ queue' = <<>>
    /\ handled' = Nothing
    /\ lost' = 0
    /\ UNCHANGED patient

MailInit == patient \in BOOLEAN /\ queue = <<>> /\ handled = Nothing /\ lost = 0

MailNext ==
    \/ \E m \in Msgs : Put(m)
    \/ \E i \in DOMAIN queue : Fill(i)
    \/ \E S \in SUBSET DOMAIN queue : Void(S)
    \/ Take
    \/ Lose
    \/ Reset

MailSpec == MailInit /\ [][MailNext]_mailVars

=============================================================================
