---------------------------- MODULE Reservation ----------------------------
(***************************************************************************)
(* Reservation mode: the scheduler reserves devices for a pod in the       *)
(* SpyreNodeState, GetPreferredAllocation hands the kubelet a reserved set *)
(* without knowing the pod, and the PodWatcher turns the pod's reservation *)
(* into an entry of AllocationList. No conflict check and no SharedInfo:   *)
(* the node state alone tells the scheduler which devices are free.        *)
(* Scheduler, kubelet and the reservation type's methods are external.     *)
(***************************************************************************)
EXTENDS Naturals, FiniteSets

CONSTANTS Pods, Devices,
          ResourceOf,       \* the resource a pod asks for
          SizeOf,           \* and how many devices of it
          Paced,            \* environment: the scheduler waits for the PodWatcher
          MaxCreations,     \* bound: pods created
          MaxFaults         \* bound: node states that cannot be read, lists that are refused

ASSUME SetsAssumption == IsFiniteSet(Pods) /\ IsFiniteSet(Devices)
ASSUME PacedAssumption == Paced \in BOOLEAN
ASSUME SizesAssumption == SizeOf \in [Pods -> Nat \ {0}]
ASSUME BoundsAssumption == {MaxCreations, MaxFaults} \subseteq Nat

VARIABLES phase,            \* where each pod is
          reserved,         \* Status.Reservations: the entry of each pod, {} if none
          allocated,        \* Status.AllocationList, likewise
          granted,          \* what the kubelet has picked for, or given to, each pod
          creations, faults

vars == <<phase, reserved, allocated, granted, creations, faults>>

Holding == {p \in Pods : phase[p] \in {"admitted", "running"}}
InNodeState(d) == \E p \in Pods : d \in reserved[p] \cup allocated[p]

Init ==
    /\ phase = [p \in Pods |-> "none"]
    /\ reserved = [p \in Pods |-> {}] /\ allocated = [p \in Pods |-> {}]
    /\ granted = [p \in Pods |-> {}]
    /\ creations = 0 /\ faults = 0

(* Every grant is in AllocationList.                                       *)
AtRest ==
    \A h \in Pods :
        /\ phase[h] \notin {"picked", "admitted"}
        /\ phase[h] = "running" => allocated[h] # {}

(* The scheduler reserves devices the node state has for nobody.           *)
Reserve(p, devs) ==
    /\ phase[p] = "none"
    /\ Paced => AtRest
    /\ creations < MaxCreations
    /\ Cardinality(devs) = SizeOf[p]
    /\ \A d \in devs : ~InNodeState(d)
    /\ creations' = creations + 1
    /\ phase' = [phase EXCEPT ![p] = "scheduled"]
    /\ reserved' = [reserved EXCEPT ![p] = devs]
    /\ UNCHANGED <<allocated, granted, faults>>

(* What the kubelet's own books of a resource leave.                       *)
AvailableDeviceIDs(r) == Devices \ UNION {granted[q] : q \in {h \in Holding : ResourceOf[h] = r}}

(* (mutant: a set of at least that size)                                   *)
EntryForMinSize(p, q) ==
    /\ ResourceOf[q] = ResourceOf[p]
    /\ Cardinality(reserved[q]) >= SizeOf[p]
    /\ reserved[q] \subseteq AvailableDeviceIDs(ResourceOf[p])

(* (mutant: an entry of any resource)                                      *)
EntryOfAnyResource(p, q) ==
    /\ Cardinality(reserved[q]) = SizeOf[p]
    /\ reserved[q] \subseteq AvailableDeviceIDs(ResourceOf[p])

(* The entry of q in the resource of p serves p.                           *)
EntryForSize(p, q) ==
    /\ ResourceOf[q] = ResourceOf[p]
    /\ Cardinality(reserved[q]) = SizeOf[p]
    /\ reserved[q] \subseteq AvailableDeviceIDs(ResourceOf[p])

(* GetPreferredAllocation. The kubelet admits one pod at a time and        *)
(* refuses it if the call fails.                                           *)
GetPreferredAllocation(p) ==
    /\ phase[p] = "scheduled"
    /\ \A q \in Pods : phase[q] # "picked"
    /\ \/ \E q \in Pods :
             /\ EntryForSize(p, q)
             /\ granted' = [granted EXCEPT ![p] = reserved[q]]
             /\ phase' = [phase EXCEPT ![p] = "picked"]
             /\ UNCHANGED faults
       \/ /\ \/ ~(\E q \in Pods : EntryForSize(p, q)) /\ UNCHANGED faults
             \/ faults < MaxFaults /\ faults' = faults + 1
          /\ phase' = [phase EXCEPT ![p] = "refused"]
          /\ UNCHANGED granted
    /\ UNCHANGED <<reserved, allocated, creations>>

(* valid() looks at the tier only, and says no to a list it finds wrong.   *)
Allocate(p) ==
    /\ phase[p] = "picked"
    /\ \/ /\ phase' = [phase EXCEPT ![p] = "admitted"]
          /\ UNCHANGED <<granted, faults>>
       \/ /\ faults < MaxFaults /\ faults' = faults + 1
          /\ phase' = [phase EXCEPT ![p] = "refused"]
          /\ granted' = [granted EXCEPT ![p] = {}]
    /\ UNCHANGED <<reserved, allocated, creations>>

ContainerStarts(p) ==
    /\ phase[p] = "admitted"
    /\ phase' = [phase EXCEPT ![p] = "running"]
    /\ UNCHANGED <<reserved, allocated, granted, creations, faults>>

(* A pod ends, or is deleted before it got anywhere, but not in the middle *)
(* of its admission.                                                       *)
PodEnds(p) ==
    /\ phase[p] \in {"scheduled", "refused", "admitted", "running"}
    /\ phase' = [phase EXCEPT ![p] = "ended"]
    /\ granted' = [granted EXCEPT ![p] = {}]
    /\ UNCHANGED <<reserved, allocated, creations, faults>>

(* (mutant: by size, as the scheduler used to)                             *)
ReconcileBySize(p, devs) ==
    [q \in Pods |-> IF Cardinality(reserved[q]) = Cardinality(devs) THEN {} ELSE reserved[q]]

(* reconcileReservation: in every resource the entry of the pod goes, or,  *)
(* where it has none, the one with its very devices.                       *)
ReconcileReservation(p, devs) ==
    [q \in Pods |->
        IF q = p \/ (reserved[q] = devs /\ (ResourceOf[q] # ResourceOf[p] \/ reserved[p] = {}))
        THEN {} ELSE reserved[q]]

(* PodWatcher.allocate, of a pod whose container has mounted its devices.  *)
WatcherAllocates(p) ==
    /\ phase[p] = "running"
    /\ allocated[p] = {}
    /\ allocated' = [allocated EXCEPT ![p] = granted[p]]
    /\ reserved' = ReconcileReservation(p, granted[p])
    /\ UNCHANGED <<phase, granted, creations, faults>>

(* removeAllocationOrReservation: the one or the other.                    *)
WatcherRemoves(p) ==
    /\ phase[p] = "ended"
    /\ phase' = [phase EXCEPT ![p] = "none"]
    /\ IF allocated[p] # {}
       THEN allocated' = [allocated EXCEPT ![p] = {}] /\ UNCHANGED reserved
       ELSE reserved' = ReconcileReservation(p, {}) /\ UNCHANGED allocated
    /\ UNCHANGED <<granted, creations, faults>>

Next ==
    \E p \in Pods :
        \/ \E devs \in SUBSET Devices : Reserve(p, devs)
        \/ GetPreferredAllocation(p) \/ Allocate(p) \/ ContainerStarts(p) \/ PodEnds(p)
        \/ WatcherAllocates(p) \/ WatcherRemoves(p)

Spec == Init /\ [][Next]_vars

(***************************************************************************)
(* Properties                                                              *)
(***************************************************************************)

(* Type invariant: entries and grants are sets of devices, and a pod that  *)
(* was admitted has as many devices as it asked for.                       *)
ReservationTypeOK ==
    /\ phase \in [Pods -> {"none", "scheduled", "picked", "admitted", "running",
                           "refused", "ended"}]
    /\ reserved \in [Pods -> SUBSET Devices] /\ allocated \in [Pods -> SUBSET Devices]
    /\ granted \in [Pods -> SUBSET Devices]
    /\ \A p \in Holding : Cardinality(granted[p]) = SizeOf[p]
    /\ creations \in 0 .. MaxCreations /\ faults \in 0 .. MaxFaults

(* No device is held by two pods, through the same resource or another.    *)
(* That takes every device a pod has been given to be in the node state at *)
(* every moment, as somebody's reservation or as the pod's allocation.     *)
HoldersDisjoint ==
    \A p, q \in Holding : p # q => granted[p] \cap granted[q] = {}

(* EntryForSize may serve a pod from the entry of another. Still, as long  *)
(* as no pod of its resource and size has been entered in AllocationList   *)
(* with devices that another has reserved, a scheduled pod finds an entry  *)
(* that serves it: entries picked by others are made up for by theirs.     *)
ServedUnlessSwapped ==
    \A p \in Pods : phase[p] = "scheduled" =>
        \/ \E q \in Pods : EntryForSize(p, q)
        \/ \E h, q \in Pods :
              /\ h # q /\ ResourceOf[h] = ResourceOf[p] /\ SizeOf[h] = SizeOf[p]
              /\ allocated[h] # {} /\ allocated[h] = reserved[q]

(* A pod that waits for its admission finds a reservation that serves it:  *)
(* "any two reservations of the same size are interchangeable ..., either  *)
(* set serves either Pod".                                                 *)
ReservedIsServed ==
    \A p \in Pods : phase[p] = "scheduled" => \E q \in Pods : EntryForSize(p, q)
=============================================================================
