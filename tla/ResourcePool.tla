---------------------------- MODULE ResourcePool ----------------------------
(***************************************************************************)
(* The part of a resource pool that decides which devices its server       *)
(* advertises to the kubelet: the two allocation maps of ResourcePoolImpl  *)
(* and the topology filter applied to topology-aware ("tier") resources.   *)
(*                                                                         *)
(* A Go map device -> bool in which a missing key and a key bound to false *)
(* behave alike (every reader tests "found && allocated", and the writer   *)
(* below treats the two the same way) is the set of devices bound to true. *)
(***************************************************************************)
EXTENDS Naturals, FiniteSets

(* otherAllocation: devices handed out through another resource name;      *)
(* selfAllocation: devices handed out through this resource name, kept for *)
(* topology-aware pools only.                                              *)
GetDevicesUnfiltered(devices, otherAllocation) == devices  \* mutant

GetDevices(devices, otherAllocation) == devices \ otherAllocation

(* Which of the two maps InformedBySharedInfo writes. A deallocation told  *)
(* as "other" switches to the self map as soon as one device of the list   *)
(* is self-allocated ("anonymous de-allocation").                          *)
UsesSelfMapForDeallocation(selfAllocation, deviceList, allocated, self) ==  \* mutant
    self \/ ~allocated

UsesSelfMap(selfAllocation, deviceList, allocated, self) ==
    self \/ (~allocated /\ deviceList \cap selfAllocation # {})

(* The written map after the call: only devices of the pool are touched.   *)
Marked(map, devices, deviceList, allocated) ==
    IF allocated THEN map \cup (deviceList \cap devices)
                 ELSE map \ (deviceList \cap devices)

(* otherAllocation and selfAllocation after InformedBySharedInfo.          *)
InformedOther(devices, otherAllocation, selfAllocation, deviceList, allocated, self) ==
    IF UsesSelfMap(selfAllocation, deviceList, allocated, self)
    THEN otherAllocation
    ELSE Marked(otherAllocation, devices, deviceList, allocated)

InformedSelf(devices, otherAllocation, selfAllocation, deviceList, allocated, self) ==
    IF UsesSelfMap(selfAllocation, deviceList, allocated, self)
    THEN Marked(selfAllocation, devices, deviceList, allocated)
    ELSE selfAllocation

-----------------------------------------------------------------------------
(* GetMaxValidPeers: the devices reachable within the resource's tier from *)
(* one free device, for a device where that group is largest, plus the     *)
(* self-allocated devices. Go ranges over a map, so among groups of equal  *)
(* size any may win: the operator is the set of possible answers.          *)
(* peers[dev] is the union of the peer tables up to the resource's tier    *)
(* (empty when the topology has no entry for dev).                         *)
ValidPeers(dev, deviceMap, selfAllocation, peers) ==
    {dev} \cup ((peers[dev] \cap deviceMap) \ selfAllocation)

GetMaxValidPeers(deviceMap, selfAllocation, peers) ==
    LET free   == {dev \in deviceMap \ selfAllocation : peers[dev] # {}}
        groups == {ValidPeers(dev, deviceMap, selfAllocation, peers) : dev \in free}
        max    == {g \in groups : \A h \in groups : Cardinality(h) <= Cardinality(g)}
    IN  {g \cup (selfAllocation \cap deviceMap) : g \in IF free = {} THEN {{}} ELSE max}
=============================================================================
