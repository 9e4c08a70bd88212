------------------ MODULE NodeList ------------------
(* What every part of the system agrees on: the Nodes *)
(* of nodelist.txt and the names of the VMs on them.  *)
EXTENDS Integers

CONSTANTS
    NumNodes,   \* lines of nodelist.txt (num_node)
    VmNames,    \* VM names a message can carry
    NoName      \* the empty vm_name of a record without a VM

\* Without a line the manager has no Node for the VM it starts with.
ASSUME NumNodesAssumption == NumNodes \in Nat \ {0}
ASSUME NoNameAssumption == NoName \notin VmNames

\* A Node is known by its place in the file.
Nodes == 0 .. NumNodes - 1

=====================================================
