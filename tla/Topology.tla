------------------------------ MODULE Topology ------------------------------
(***************************************************************************)
(* The PCI topology of a node (pkg/spyredevice/topology): which devices it *)
(* lists, the peers of each and the number of devices it claims. The three *)
(* peer tiers, and PFs and VFs, are filtered alike and kept as one set.    *)
(***************************************************************************)
EXTENDS Naturals, FiniteSets

CONSTANTS Devices,
          NoTopo        \* no file, or no cached topology

Topologies == [devs : SUBSET Devices, peers : [Devices -> SUBSET Devices], num : Nat]

(* Keep the devices of a set: off the device map and off the peer lists of *)
(* the devices that stay, with the count brought up to date.               *)
Restricted(topo, keep) ==
    [devs  |-> topo.devs \cap keep,
     peers |-> [d \in Devices |-> IF d \in keep THEN topo.peers[d] \cap keep ELSE {}],
     num   |-> Cardinality(topo.devs \cap keep)]

FilterTopologyByDeviceHealth(original, healthy) == Restricted(original, healthy)

FilterOutMissingDevice(topo, present) == Restricted(topo, topo.devs \cap present)

(* GetCurrentTopologyFile: the dynamic file before the original one.       *)
CurrentFile(dynamic, original) == IF dynamic # NoTopo THEN dynamic ELSE original

(* GetPciTopology("", false): the cached topology wins over every file.    *)
GetPciTopology(cache, dynamic, original) ==
    IF cache # NoTopo THEN cache ELSE CurrentFile(dynamic, original)

(* What EnsureDynamicTopologyFiltered has saved and cached when it is      *)
(* done. With a cached topology GetPciTopology(original, true) returns it  *)
(* as it is. Otherwise it caches what it read and filters a copy that      *)
(* shares the maps, but not the count.                                     *)
Ensured(cache, dynamic, original, present) ==
    IF dynamic # NoTopo \/ original = NoTopo
    THEN [dynamic |-> dynamic, cache |-> cache]
    ELSE IF cache # NoTopo
    THEN [dynamic |-> cache, cache |-> cache]
    ELSE LET filtered == FilterOutMissingDevice(original, present)
         IN  [dynamic |-> filtered, cache |-> [filtered EXCEPT !.num = original.num]]
=============================================================================
