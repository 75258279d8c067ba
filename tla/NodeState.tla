----------------------------- MODULE NodeState -----------------------------
(***************************************************************************)
(* What WriteSpyreInterfacesToNodeState makes of the SpyreNodeState of the *)
(* node: the interfaces of its spec (one per PF, with its VFs, and one per *)
(* isolated VF), the list of unhealthy devices and the DeviceHealthy       *)
(* condition of its status.                                                *)
(***************************************************************************)
EXTENDS Naturals, FiniteSets

CONSTANTS Pfs, Vfs,
          PfOf,         \* the PF of a VF
          NoPf          \* an isolated VF has none

IsIsolatedVF(d) == d \in Vfs /\ PfOf[d] = NoPf

(* getSpyreInterfaceMaps. The entry of a PF seen only through its VFs has  *)
(* no health.                                                              *)
GetSpyreInterfaceMaps(devs, health) ==
    LET vfsOf(a) == {v \in devs \cap Vfs : PfOf[v] = a}
        own == {d \in devs : d \in Pfs \/ IsIsolatedVF(d)}
    IN  [a \in own \cup {p \in Pfs : vfsOf(p) # {}} |->
            [health |-> IF a \in own THEN health[a] ELSE "", vfs |-> vfsOf(a)]]

(* (mutant: interfaces not found are left as they are)                     *)
UnmarkedInterfaces(spec, found) ==
    [a \in DOMAIN spec \cup DOMAIN found |-> IF a \in DOMAIN found THEN found[a] ELSE spec[a]]

(* updateSpyreInterfacesChanges: interfaces found replace or join those of *)
(* the spec, the others are marked.                                        *)
UpdatedInterfaces(spec, found) ==
    [a \in DOMAIN spec \cup DOMAIN found |->
        IF a \in DOMAIN found THEN found[a] ELSE [spec[a] EXCEPT !.health = "Unhealthy"]]

(* ... and reported as removed when they are marked for the first time.    *)
Removed(spec, found) ==
    [a \in {b \in DOMAIN spec \ DOMAIN found : spec[b].health # "Unhealthy"} |-> "REMOVED"]

Unhealthy(spec) == {a \in DOMAIN spec : spec[a].health = "Unhealthy"}

(* the condition, its message reduced to the number in it                  *)
HealthCondition(spec, unhealthy) ==
    [status |-> IF unhealthy # {} THEN "False" ELSE IF DOMAIN spec # {} THEN "True" ELSE "Unknown",
     count  |-> Cardinality(unhealthy)]

(* (mutant: a list that lost an entry is not written)                      *)
NewUpdates(merged, list, updated) ==
    \E a \in DOMAIN updated : a \notin DOMAIN list \/ list[a] # updated[a]

(* The list is written only if an update is new or the length differs.     *)
ListChanged(merged, list, updated) ==
    \/ \E a \in DOMAIN updated : a \notin DOMAIN list \/ list[a] # updated[a]
    \/ Cardinality(DOMAIN merged) # Cardinality(DOMAIN list)

(* mergePatchUpdatedUnhealthyDevice: the list follows the spec, with the   *)
(* states just reported, else the ones known before.                       *)
MergePatch(spec, status, updated) ==
    LET merged == [a \in Unhealthy(spec) |->
                      IF a \in DOMAIN updated THEN updated[a]
                      ELSE IF a \in DOMAIN status.list THEN status.list[a]
                      ELSE "UNSPECIFIED"]
    IN  [list |-> IF ListChanged(merged, status.list, updated) THEN merged ELSE status.list,
         condition |-> HealthCondition(spec, DOMAIN merged)]
=============================================================================
