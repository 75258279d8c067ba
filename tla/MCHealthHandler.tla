-------------------------- MODULE MCHealthHandler --------------------------
(* A node with a PF, its VF and an isolated VF, all connected.             *)
EXTENDS HealthHandler, TLC

CONSTANTS p, v, s

MCPfOf == (v :> p) @@ (s :> NoPf)
MCReports == UNION {[S -> {"ONLINE", "FAULT"}] : S \in SUBSET Devices}
MCOriginal == [devs |-> Devices, peers |-> [d \in Devices |-> Devices \ {d}],
               num |-> Cardinality(Devices)]
=============================================================================
