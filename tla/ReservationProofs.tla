------------------------- MODULE ReservationProofs -------------------------
(***************************************************************************)
(* Reservation mode, for any pods, devices, resources and sizes, pods that *)
(* ask for as many devices as others included: types and, with a scheduler *)
(* that waits for the PodWatcher, that devices are never held twice and    *)
(* that a waiting pod is served unless a swap has been entered.            *)
(***************************************************************************)
EXTENDS Reservation, FiniteSetTheorems, TLAPS

(* A pod has as many devices as it asked for from the moment the kubelet   *)
(* picks them, whosever reservation they are.                              *)
SizeInv ==
    /\ ReservationTypeOK
    /\ \A p \in Pods : phase[p] = "picked" => Cardinality(granted[p]) = SizeOf[p]

LEMMA SizeStep ==
    ASSUME SizeInv, [Next]_vars
    PROVE  SizeInv'
<1> USE DEF SizeInv, ReservationTypeOK
<1>1. CASE UNCHANGED vars
  BY <1>1 DEF vars, Holding
<1>2. ASSUME NEW p \in Pods, NEW devs \in SUBSET Devices, Reserve(p, devs) PROVE SizeInv'
  BY <1>2, BoundsAssumption DEF Reserve, Holding
<1>3. ASSUME NEW p \in Pods, GetPreferredAllocation(p) PROVE SizeInv'
  <2>1. CASE \E q \in Pods :
                /\ EntryForSize(p, q)
                /\ granted' = [granted EXCEPT ![p] = reserved[q]]
                /\ phase' = [phase EXCEPT ![p] = "picked"]
                /\ UNCHANGED faults
    BY <1>3, <2>1 DEF GetPreferredAllocation, EntryForSize, Holding
  <2>2. CASE phase' = [phase EXCEPT ![p] = "refused"] /\ UNCHANGED granted /\ faults' \in 0 .. MaxFaults
    BY <1>3, <2>2 DEF GetPreferredAllocation, Holding
  <2> QED  BY <1>3, <2>1, <2>2, BoundsAssumption DEF GetPreferredAllocation
<1>4. ASSUME NEW p \in Pods, Allocate(p) PROVE SizeInv'
  BY <1>4, BoundsAssumption DEF Allocate, Holding
<1>5. ASSUME NEW p \in Pods, ContainerStarts(p) \/ PodEnds(p) PROVE SizeInv'
  BY <1>5 DEF ContainerStarts, PodEnds, Holding
<1>6. ASSUME NEW p \in Pods, WatcherAllocates(p) \/ WatcherRemoves(p) PROVE SizeInv'
  <2>1. reserved' \in [Pods -> SUBSET Devices] /\ allocated' \in [Pods -> SUBSET Devices]
    BY <1>6 DEF WatcherAllocates, WatcherRemoves, ReconcileReservation
  <2> QED  BY <1>6, <2>1 DEF WatcherAllocates, WatcherRemoves, Holding
<1> QED  BY <1>1, <1>2, <1>3, <1>4, <1>5, <1>6 DEF Next

(* Whatever sizes pods ask for, entries and grants are sets of devices and *)
(* an admitted pod has exactly as many as it asked for, although           *)
(* GetPreferredAllocation may hand it the reservation of another pod.      *)
THEOREM ReservationTypes == Spec => []ReservationTypeOK
<1>1. Init => SizeInv
  BY BoundsAssumption DEF Init, SizeInv, ReservationTypeOK, Holding
<1>2. SizeInv /\ [Next]_vars => SizeInv'
  BY SizeStep
<1>3. SizeInv => ReservationTypeOK
  BY DEF SizeInv
<1> QED  BY <1>1, <1>2, <1>3, PTL DEF Spec
-----------------------------------------------------------------------------
Picked == {p \in Pods : phase[p] \in {"picked", "admitted", "running"}}

(* The pods that are on their way from a reservation to an allocation.     *)
OnTheWay ==
    {p \in Pods : \/ phase[p] \in {"scheduled", "picked", "admitted"}
                  \/ phase[p] = "running" /\ allocated[p] = {}}

(* An entry of Reservations has the size asked for, its pod none in        *)
(* AllocationList, and shares no device with another entry; a pod on its   *)
(* way to an allocation has one.                                           *)
EntryInv ==
    /\ \A p \in Pods : reserved[p] # {} => allocated[p] = {} /\ Cardinality(reserved[p]) = SizeOf[p]
    /\ \A p, q \in Pods : p # q => reserved[p] \cap reserved[q] = {}
    /\ \A p \in OnTheWay : reserved[p] # {}
    /\ \A p \in Pods : phase[p] = "none" => reserved[p] = {}

(* An entry of AllocationList is what its pod has been given.              *)
AllocatedInv ==
    \A p \in Pods :
        /\ phase[p] \notin {"running", "ended"} => allocated[p] = {}
        /\ phase[p] = "running" /\ allocated[p] # {} => allocated[p] = granted[p]

(* Only one pod is being admitted, no device is given twice, and what a    *)
(* pod has been given is a whole entry of its resource or in none.         *)
GrantInv ==
    /\ \A p, q \in Pods : phase[p] = "picked" /\ phase[q] = "picked" => p = q
    /\ \A p \in Pods : p \notin Picked => granted[p] = {}
    /\ \A p, q \in Pods : p # q => granted[p] \cap granted[q] = {}
    /\ \A p, q \in Pods :
          \/ granted[p] \cap reserved[q] = {}
          \/ granted[p] = reserved[q] /\ ResourceOf[p] = ResourceOf[q]

SwapInv == SizeInv /\ EntryInv /\ AllocatedInv /\ GrantInv

LEMMA SwapInit == Init => SwapInv
<1> SUFFICES ASSUME Init PROVE SwapInv
  OBVIOUS
<1>1. SizeInv
  BY BoundsAssumption DEF Init, SizeInv, ReservationTypeOK, Holding
<1> QED  BY <1>1 DEF Init, SwapInv, EntryInv, AllocatedInv, GrantInv, OnTheWay, Picked

(* What a pod has been given is not empty.                                 *)
LEMMA GrantNotEmpty ==
    ASSUME SizeInv, NEW p \in Picked
    PROVE  granted[p] # {}
<1>1. Cardinality(granted[p]) = SizeOf[p] /\ p \in Pods
  BY DEF SizeInv, ReservationTypeOK, Holding, Picked
<1> QED  BY <1>1, FS_EmptySet, SizesAssumption

LEMMA SwapReserve ==
    ASSUME Paced, SwapInv, SizeInv', NEW p \in Pods, NEW devs \in SUBSET Devices, Reserve(p, devs)
    PROVE  SwapInv'
<1> USE DEF SwapInv, Reserve
<1>a. /\ phase \in [Pods -> {"none", "scheduled", "picked", "admitted", "running", "refused", "ended"}]
      /\ reserved \in [Pods -> SUBSET Devices]
  BY DEF SizeInv, ReservationTypeOK
<1>1. devs # {} /\ Cardinality(devs) = SizeOf[p]
  BY FS_EmptySet, SizesAssumption
<1>2. \A q \in Pods : devs \cap reserved[q] = {} /\ devs \cap allocated[q] = {}
  BY DEF InNodeState
<1>3. \A q \in Pods : devs \cap granted[q] = {}
  <2> SUFFICES ASSUME NEW q \in Pods PROVE devs \cap granted[q] = {}
    OBVIOUS
  <2>1. CASE q \in Picked
    <3>1. phase[q] = "running" /\ allocated[q] # {}
      BY <2>1 DEF AtRest, Picked
    <3> QED  BY <1>2, <3>1 DEF AllocatedInv
  <2>2. CASE q \notin Picked
    BY <2>2 DEF GrantInv
  <2> QED  BY <2>1, <2>2
<1>4. /\ reserved'[p] = devs /\ phase'[p] = "scheduled" /\ allocated[p] = {}
      /\ \A q \in Pods : q # p => reserved'[q] = reserved[q] /\ phase'[q] = phase[q]
  BY <1>a DEF AllocatedInv
<1>5. EntryInv'
  BY <1>1, <1>2, <1>4 DEF EntryInv, OnTheWay
<1>6. AllocatedInv'
  BY <1>4 DEF AllocatedInv
<1>7. GrantInv'
  BY <1>3, <1>4 DEF GrantInv, Picked
<1> QED  BY <1>5, <1>6, <1>7

LEMMA SwapPick ==
    ASSUME SwapInv, SizeInv', NEW p \in Pods, NEW q \in Pods, EntryForSize(p, q),
           phase[p] = "scheduled", \A h \in Pods : phase[h] # "picked",
           granted' = [granted EXCEPT ![p] = reserved[q]],
           phase' = [phase EXCEPT ![p] = "picked"],
           UNCHANGED <<reserved, allocated>>
    PROVE  SwapInv'
<1> USE DEF SwapInv
<1>a. /\ phase \in [Pods -> {"none", "scheduled", "picked", "admitted", "running", "refused", "ended"}]
      /\ granted \in [Pods -> SUBSET Devices]
  BY DEF SizeInv, ReservationTypeOK
<1>1. /\ granted'[p] = reserved[q] /\ phase'[p] = "picked"
      /\ \A h \in Pods : h # p => granted'[h] = granted[h] /\ phase'[h] = phase[h]
  BY <1>a
<1>2. \A h \in Pods : h # p => granted[h] \cap reserved[q] = {}
  <2> SUFFICES ASSUME NEW h \in Pods, h # p PROVE granted[h] \cap reserved[q] = {}
    OBVIOUS
  <2>1. CASE h \in Holding /\ ResourceOf[h] = ResourceOf[p]
    BY <2>1 DEF EntryForSize, AvailableDeviceIDs
  <2>2. CASE h \notin Holding
    BY <2>2 DEF GrantInv, Holding, Picked
  <2>3. CASE ResourceOf[h] # ResourceOf[p]
    BY <2>3 DEF GrantInv, EntryForSize
  <2> QED  BY <2>1, <2>2, <2>3
<1>3. EntryInv'
  BY <1>1 DEF EntryInv, OnTheWay
<1>4. AllocatedInv'
  BY <1>1 DEF AllocatedInv
<1>5. GrantInv'
  <2>1. \A g, h \in Pods : phase'[g] = "picked" /\ phase'[h] = "picked" => g = h
    BY <1>1
  <2>2. \A h \in Pods : h \notin Picked' => granted'[h] = {}
    BY <1>1 DEF GrantInv, Picked
  <2>3. \A g, h \in Pods : g # h => granted'[g] \cap granted'[h] = {}
    BY <1>1, <1>2 DEF GrantInv
  <2>4. ASSUME NEW h \in Pods
        PROVE  \/ granted'[p] \cap reserved[h] = {}
               \/ granted'[p] = reserved[h] /\ ResourceOf[p] = ResourceOf[h]
    BY <1>1 DEF EntryInv, EntryForSize
  <2> QED  BY <1>1, <2>1, <2>2, <2>3, <2>4 DEF GrantInv
<1> QED  BY <1>3, <1>4, <1>5

LEMMA SwapAdmission ==
    ASSUME SwapInv, SizeInv', NEW p \in Pods,
           \/ GetPreferredAllocation(p) \/ Allocate(p) \/ ContainerStarts(p) \/ PodEnds(p)
    PROVE  SwapInv'
<1> USE DEF SwapInv
<1>1. CASE \E q \in Pods :
              /\ EntryForSize(p, q)
              /\ granted' = [granted EXCEPT ![p] = reserved[q]]
              /\ phase' = [phase EXCEPT ![p] = "picked"]
              /\ GetPreferredAllocation(p)
  BY <1>1, SwapPick DEF GetPreferredAllocation
<1>2. CASE /\ granted' \in {granted, [granted EXCEPT ![p] = {}]}
           /\ UNCHANGED <<reserved, allocated>>
           /\ \/ phase[p] = "scheduled" /\ phase' = [phase EXCEPT ![p] = "refused"]
              \/ /\ phase[p] = "picked" /\ phase' = [phase EXCEPT ![p] = "refused"]
                 /\ granted' = [granted EXCEPT ![p] = {}]
              \/ phase[p] = "picked" /\ phase' = [phase EXCEPT ![p] = "admitted"] /\ granted' = granted
              \/ phase[p] = "admitted" /\ phase' = [phase EXCEPT ![p] = "running"] /\ granted' = granted
              \/ phase' = [phase EXCEPT ![p] = "ended"] /\ granted' = [granted EXCEPT ![p] = {}]
  <2>a. /\ phase \in [Pods -> {"none", "scheduled", "picked", "admitted", "running", "refused", "ended"}]
        /\ granted \in [Pods -> SUBSET Devices]
    BY DEF SizeInv, ReservationTypeOK
  <2>1. \A h \in Pods : h # p => granted'[h] = granted[h] /\ phase'[h] = phase[h]
    BY <1>2, <2>a
  <2>2. granted'[p] \in {granted[p], {}} /\ phase'[p] \notin {"picked", "none", "scheduled"}
    BY <1>2, <2>a
  <2>3. EntryInv'
    <3>1. OnTheWay' \subseteq OnTheWay
      BY <1>2, <2>1, <2>2, <2>a DEF OnTheWay
    <3> QED  BY <1>2, <2>1, <2>2, <3>1 DEF EntryInv
  <2>4. AllocatedInv'
    BY <1>2, <2>1, <2>2, <2>a DEF AllocatedInv
  <2>5. GrantInv'
    <3>1. p \notin Picked' => granted'[p] = {}
      BY <1>2, <2>a DEF Picked, GrantInv
    <3>2. \A h \in Pods : h \notin Picked' => granted'[h] = {}
      BY <2>1, <3>1 DEF Picked, GrantInv
    <3> QED  BY <1>2, <2>1, <2>2, <3>2 DEF GrantInv
  <2> QED  BY <2>3, <2>4, <2>5
<1> QED  BY <1>1, <1>2 DEF GetPreferredAllocation, Allocate, ContainerStarts, PodEnds

(* The watcher's two updates retire the pod's own entry and leave those of *)
(* the pods on their way to an allocation alone.                           *)
LEMMA SwapRetires ==
    ASSUME SwapInv, NEW p \in Pods, WatcherAllocates(p) \/ (WatcherRemoves(p) /\ allocated[p] = {})
    PROVE  /\ reserved'[p] = {}
           /\ \A q \in Pods : q # p => reserved'[q] = reserved[q]
<1> USE DEF SwapInv
<1>1. CASE WatcherAllocates(p)
  <2> USE <1>1 DEF WatcherAllocates
  <2>1. p \in Picked /\ p \in OnTheWay
    BY DEF Picked, OnTheWay
  <2>2. granted[p] # {} /\ reserved[p] # {}
    BY <2>1, GrantNotEmpty DEF EntryInv
  <2>3. \A q \in Pods : reserved[q] = granted[p] => ResourceOf[q] = ResourceOf[p]
    BY <2>2 DEF GrantInv
  <2> QED  BY <2>2, <2>3 DEF ReconcileReservation
<1>2. CASE WatcherRemoves(p) /\ allocated[p] = {}
  BY <1>2 DEF WatcherRemoves, ReconcileReservation
<1> QED  BY <1>1, <1>2

LEMMA SwapWatcher ==
    ASSUME SwapInv, SizeInv', NEW p \in Pods, WatcherAllocates(p) \/ WatcherRemoves(p)
    PROVE  SwapInv'
<1> USE DEF SwapInv
<1>a. /\ phase \in [Pods -> {"none", "scheduled", "picked", "admitted", "running", "refused", "ended"}]
      /\ allocated \in [Pods -> SUBSET Devices]
  BY DEF SizeInv, ReservationTypeOK
<1>b. UNCHANGED granted
  BY DEF WatcherAllocates, WatcherRemoves
<1>1. reserved'[p] = {} /\ \A q \in Pods : q # p => reserved'[q] = reserved[q]
  <2>1. CASE WatcherRemoves(p) /\ allocated[p] # {}
    BY <2>1 DEF WatcherRemoves, EntryInv
  <2> QED  BY <2>1, SwapRetires
<1>2. \A q \in Pods : q # p => allocated'[q] = allocated[q] /\ phase'[q] = phase[q]
  BY <1>a DEF WatcherAllocates, WatcherRemoves
<1>3. /\ p \notin OnTheWay'
      /\ \/ phase'[p] = "none" /\ phase[p] = "ended" /\ allocated'[p] = {}
         \/ phase'[p] = "running" /\ phase[p] = "running" /\ allocated'[p] = granted[p]
  <2>1. CASE WatcherAllocates(p)
    <3>1. granted[p] # {}
      BY <2>1, GrantNotEmpty DEF WatcherAllocates, Picked
    <3> QED  BY <1>a, <2>1, <3>1 DEF WatcherAllocates, OnTheWay
  <2>2. CASE WatcherRemoves(p)
    BY <1>a, <2>2 DEF WatcherRemoves, OnTheWay
  <2> QED  BY <2>1, <2>2
<1>4. EntryInv'
  BY <1>1, <1>2, <1>3 DEF EntryInv, OnTheWay
<1>5. AllocatedInv'
  BY <1>b, <1>2, <1>3 DEF AllocatedInv
<1>6. GrantInv'
  <2>1. \A q \in Pods : q \in Picked' <=> q \in Picked
    BY <1>2, <1>3 DEF Picked
  <2>2. \A q \in Pods : phase'[q] = "picked" => phase[q] = "picked"
    BY <1>2, <1>3
  <2>3. \A q \in Pods : reserved'[q] \in {reserved[q], {}} /\ (reserved'[q] = reserved[q] \/ reserved'[q] = {})
    BY <1>1
  <2> QED  BY <1>b, <2>1, <2>2, <2>3 DEF GrantInv
<1> QED  BY <1>4, <1>5, <1>6

LEMMA SwapNext ==
    ASSUME Paced, SwapInv, [Next]_vars
    PROVE  SwapInv'
<1>1. SizeInv'
  BY SizeStep DEF SwapInv
<1>2. CASE UNCHANGED vars
  BY <1>1, <1>2 DEF vars, SwapInv, EntryInv, AllocatedInv, GrantInv, OnTheWay, Picked
<1>3. CASE Next
  BY <1>1, <1>3, SwapReserve, SwapAdmission, SwapWatcher DEF Next
<1> QED  BY <1>2, <1>3

LEMMA SwapInvariant == ASSUME Paced PROVE Spec => []SwapInv
<1>1. SwapInv /\ [Next]_vars => SwapInv'
  BY SwapNext
<1> QED  BY SwapInit, <1>1, PTL DEF Spec

(* When the scheduler reserves only while every grant is in                *)
(* AllocationList, no device is ever held by two pods, although the plugin *)
(* checks no conflict in this mode and pods may get each other's entries.  *)
THEOREM NeverHeldByTwo == ASSUME Paced PROVE Spec => []HoldersDisjoint
<1>1. SwapInv => HoldersDisjoint
  BY DEF SwapInv, GrantInv, HoldersDisjoint, Holding
<1> QED  BY SwapInvariant, <1>1, PTL

(* No injection of a finite set leaves one of its elements out.            *)
LEMMA NoneLeftOut ==
    ASSUME NEW S, IsFiniteSet(S), NEW x \in S, NEW f \in [S -> S \ {x}]
    PROVE  \E a, b \in S : a # b /\ f[a] = f[b]
<1>1. IsFiniteSet(S \ {x}) /\ Cardinality(S \ {x}) = Cardinality(S) - 1
  BY FS_RemoveElement
<1>2. Cardinality(S \ {x}) < Cardinality(S)
  BY <1>1, FS_CardinalityType
<1> QED  BY <1>1, <1>2, FS_PigeonHole

(* When the scheduler waits as above, a scheduled pod finds an entry that  *)
(* serves it unless a swap has been entered in AllocationList. Otherwise   *)
(* every entry of its kind would be in the hands of a pod that still has   *)
(* an entry of its own, and the scheduled pod's would be one too many.     *)
THEOREM ServedBySomeEntry == ASSUME Paced PROVE Spec => []ServedUnlessSwapped
<1>1. SwapInv => ServedUnlessSwapped
  <2> SUFFICES ASSUME SwapInv, NEW p \in Pods, phase[p] = "scheduled",
                      \A q \in Pods : ~EntryForSize(p, q),
                      ~ \E h, q \in Pods :
                           /\ h # q /\ ResourceOf[h] = ResourceOf[p] /\ SizeOf[h] = SizeOf[p]
                           /\ allocated[h] # {} /\ allocated[h] = reserved[q]
               PROVE  FALSE
    BY DEF ServedUnlessSwapped
  <2> DEFINE Kind == {q \in Pods : /\ ResourceOf[q] = ResourceOf[p] /\ SizeOf[q] = SizeOf[p]
                                   /\ reserved[q] # {}}
  <2>1. p \in Kind /\ IsFiniteSet(Kind)
    <3>1. reserved[p] # {}
      BY DEF SwapInv, EntryInv, OnTheWay
    <3> QED  BY <3>1, FS_Subset, SetsAssumption
  <2>2. ASSUME NEW q \in Kind
        PROVE  \E h \in Kind \ {p} : granted[h] = reserved[q]
    <3>1. Cardinality(reserved[q]) = SizeOf[p] /\ reserved[q] \subseteq Devices
      BY DEF SwapInv, EntryInv, SizeInv, ReservationTypeOK
    <3>2. PICK h \in Holding : ResourceOf[h] = ResourceOf[p] /\ granted[h] \cap reserved[q] # {}
      <4>1. ~(reserved[q] \subseteq AvailableDeviceIDs(ResourceOf[p]))
        BY <3>1 DEF EntryForSize
      <4> QED  BY <3>1, <4>1 DEF AvailableDeviceIDs, Holding
    <3>3. h \in Pods /\ granted[h] = reserved[q] /\ SizeOf[h] = SizeOf[p]
      BY <3>1, <3>2 DEF Holding, SwapInv, GrantInv, SizeInv, ReservationTypeOK
    <3>4. h # p
      BY DEF Holding
    <3>5. allocated[h] = {}
      <4> SUFFICES ASSUME allocated[h] # {} PROVE FALSE
        OBVIOUS
      <4>1. allocated[h] = reserved[q]
        BY <3>3 DEF SwapInv, AllocatedInv, Holding
      <4>2. h # q
        BY DEF SwapInv, EntryInv
      <4> QED  BY <3>2, <3>3, <4>1, <4>2
    <3>6. reserved[h] # {}
      BY <3>3, <3>5 DEF SwapInv, EntryInv, OnTheWay, Holding
    <3> QED  BY <3>2, <3>3, <3>4, <3>6
  <2> DEFINE f == [q \in Kind |-> CHOOSE h \in Kind \ {p} : granted[h] = reserved[q]]
  <2>3. \A q \in Kind : f[q] \in Kind \ {p} /\ granted[f[q]] = reserved[q]
    BY <2>2
  <2>4. f \in [Kind -> Kind \ {p}]
    BY <2>3
  <2>5. PICK a \in Kind, b \in Kind : a # b /\ f[a] = f[b]
    <3> HIDE DEF f, Kind
    <3> QED  BY <2>1, <2>4, NoneLeftOut
  <2>6. reserved[a] = reserved[b]
    <3> HIDE DEF f, Kind
    <3> QED  BY <2>3, <2>5
  <2> QED  BY <2>5, <2>6 DEF SwapInv, EntryInv
<1> QED  BY SwapInvariant, <1>1, PTL
=============================================================================
