--------------------------- MODULE MCDevicePlugin ---------------------------
(* Small instances of DevicePlugin.                                          *)
EXTENDS DevicePlugin, TLC

CONSTANTS d1, d2

(* Server 1 is an aggregated resource, server 2 its topology-aware variant *)
(* over the same devices, server 3 the per-device resource of d1.          *)
MCPoolDevices == [s \in Servers |-> IF s = 3 THEN {d1} ELSE Devices]
PathSymmetry == Permutations(Paths)
FullSymmetry == Permutations(Paths) \cup Permutations(Devices)

(* Bound of the faults run: one pod and every fault, or two pods and no    *)
(* restart, failed send, timed-out wait, failed config write for a pod     *)
(* that lives, or deallocation that is repeated.                           *)
FaultBudget ==
    \/ Cardinality({p \in Paths : pod[p] # "none"}) <= 1
    \/ /\ restarts + failures + timeouts = 0
       /\ \A p \in Paths : pod[p] = "created" => p \in dirs
       /\ \A p \in memo : Ended(p) => p \in mdirs \cup dropping

MCPeers == [s \in Servers |-> [d \in Devices |-> Devices \ {d}]]
=============================================================================
