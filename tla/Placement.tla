----------------------------- MODULE Placement -----------------------------
(***************************************************************************)
(* What the manager promises of its Nodes, without messages, names,         *)
(* notices and counters: in which order Nodes get their VMs and lose them.  *)
(* Module Cos implements it.                                                *)
(***************************************************************************)
EXTENDS NodeList

VARIABLE life   \* of each Node: what its VM is to the manager

Lives == {"FREE", "COMING", "HERE", "LEAVING", "DEAD"}

(* A manager starts and asks for the first VM, and may fail to. *)
Start ==
    /\ \A n \in Nodes : life[n] = "DEAD"
    /\ \E first \in {"FREE", "COMING"} :
          life' = [n \in Nodes |-> IF n = 0 THEN first ELSE "FREE"]

(* One VM at a time is asked for, at the first free Node of the list, and   *)
(* only for the help of a VM that is here.                                  *)
Request(n) ==
    /\ life[n] = "FREE" /\ \A k \in Nodes : k < n => life[k] # "FREE"
    /\ \A k \in Nodes : life[k] # "COMING"
    /\ \E k \in Nodes : life[k] = "HERE"
    /\ life' = [life EXCEPT ![n] = "COMING"]

Answer(n) ==
    /\ life[n] = "COMING"
    /\ \E st \in {"HERE", "FREE"} : life' = [life EXCEPT ![n] = st]

Retire(n) ==
    /\ life[n] = "HERE"
    /\ life' = [life EXCEPT ![n] = "LEAVING"]

(* An answer that a VM cannot be destroyed frees its Node in any state. *)
Abandon(n) ==
    /\ life[n] # "DEAD"
    /\ life' = [life EXCEPT ![n] = "FREE"]

(* The end of a VM takes the Nodes behind its own with it, until the       *)
(* manager ends.                                                           *)
Erase(n) ==
    /\ life[n] # "DEAD"
    /\ life' = [k \in Nodes |-> IF k >= n THEN "DEAD" ELSE life[k]]

Stop == life' = [n \in Nodes |-> "DEAD"]

PlacementInit == life = [n \in Nodes |-> "DEAD"]

PlacementNext ==
    \/ Start
    \/ \E n \in Nodes :
          Request(n) \/ Answer(n) \/ Retire(n) \/ Abandon(n) \/ Erase(n)
    \/ Stop

PlacementSpec == PlacementInit /\ [][PlacementNext]_life

=============================================================================
