------------------------------- MODULE MCWire -------------------------------
(***************************************************************************)
(* Wire with the buffers of the code and messages of every type, for TLC.  *)
(***************************************************************************)
EXTENDS Wire

Addr(n) == Text("addr", n)
Cfg == Text("/etc/xen/cos/cos00.cfg", 22)
Name == Text("cos00", 5)
Ok == Text("0", 1)
Fail == Text("-1", 2)
Busy == Text("0.873421", 8)

CosMsg(type, arg, list) ==
    [to |-> "COS", type |-> type, return_addr |-> Addr(20), arg |-> arg, list |-> list]
NodeMsg(type, ret, arg, list) ==
    [to |-> "NODE", type |-> type, return_addr |-> ret, arg |-> arg, list |-> list]
MonMsg(theater) ==
    [to |-> "MON", type |-> "SHUTDOWN_THEATER_REQ", return_addr |-> Addr(20),
     arg |-> [theater |-> theater], list |-> <<>>]

CreateVmReq(ret, peers) == NodeMsg("CREATE_VM_REQ", ret, [vmcfg_file |-> Cfg], peers)

CosMessages == {
    CosMsg("CREATE_VM_RESP", [vm_name |-> Name, new_theater |-> Addr(20), result |-> Ok], <<>>),
    CosMsg("CREATE_VM_RESP", [vm_name |-> Null, new_theater |-> Null, result |-> Fail], <<>>),
    CosMsg("NOTIFY_HIGH_CPU_USAGE", [vm_name |-> Name], <<Busy, Busy, Busy, Busy, Busy>>),
    CosMsg("NOTIFY_LOW_CPU_USAGE", [vm_name |-> Name], <<Busy, Busy, Idle, Busy, Idle>>),
    CosMsg("DESTROY_VM_RESP", [vm_name |-> Name, result |-> Ok], <<>>)}

\* Creation requests: the manager's address erased; the longest documented one; one
\* that is read short; one that cannot be sent; one that overruns tempbuf.
NodeMessages == {
    CreateVmReq(Empty, <<>>),
    CreateVmReq(Addr(20), <<Addr(20), Addr(20), Addr(20)>>),
    CreateVmReq(Addr(20), <<Addr(21), Addr(21), Addr(21)>>),
    CreateVmReq(Addr(17), <<Addr(17), Addr(17), Addr(17), Addr(17)>>),
    CreateVmReq(Addr(20), <<Addr(20), Addr(20), Addr(20), Addr(20)>>),
    NodeMsg("DESTROY_VM_REQ", Addr(20), [vm_name |-> Name], <<>>),
    NodeMsg("NOTIFY_VM_STARTED", Null, [vmmon_addr |-> Addr(19), theater |-> Addr(20)], <<>>),
    NodeMsg("NOTIFY_HIGH_CPU_USAGE", Addr(19), [vmmon_addr |-> Addr(19)],
            <<Busy, Tiny, Busy, Idle, Busy>>),
    NodeMsg("SHUTDOWN_THEATER_RESP", Addr(19), [vmmon_addr |-> Addr(19), result |-> Ok], <<>>)}

MonMessages == {MonMsg(Addr(20)), MonMsg(Addr(19))}

AllMessages == CosMessages \cup NodeMessages \cup MonMessages

\* The hypothesis under which RequestsFit and Delivers are proved.
ASSUME SizesAssumption == CodeSizes

=============================================================================
