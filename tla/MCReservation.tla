--------------------------- MODULE MCReservation ---------------------------
(* Three pods of one resource, two of which ask for as many devices, and   *)
(* one of another resource over the same devices.                          *)
EXTENDS Reservation

MCResourceOf == [p \in Pods |-> IF p = 3 THEN "tier" ELSE "pf"]
MCSizeOf == [p \in Pods |-> IF p = 4 THEN 2 ELSE 1]
=============================================================================
