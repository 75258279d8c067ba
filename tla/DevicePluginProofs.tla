------------------------- MODULE DevicePluginProofs -------------------------
(***************************************************************************)
(* Machine-checked proofs about DevicePlugin, for any number of devices,   *)
(* servers and pods and every value of the environment flags and bounds:   *)
(* type correctness, and the two safety invariants that hold in every      *)
(* environment (bursts, restarts, failing streams, timeouts).              *)
(***************************************************************************)
EXTENDS DevicePlugin, TLAPS

USE DEF Servers

(* Run is between receiving an allocation and reserving its directory.     *)
Handling ==
    \/ pc \in {"conflicts", "reserve"}
    \/ pc \in {"notify", "signal"} /\ resume # "select"

(* What keeps the types inductive: Run has a message while it handles one, *)
(* the cursor is on a server while a signal is sent, the cleaner only      *)
(* looks at reserved paths, and every pod was granted devices by a server. *)
TypeInv ==
    /\ TypeOK
    /\ Handling => msg \in AllocationInfo
    /\ pc = "signal" => next \in Servers
    /\ cleaner = "idle" => cleanTodo = {} /\ cleanKept = {}
    /\ cleanTodo \cup cleanKept \subseteq DOMAIN reserved
    /\ \A p \in Paths : pod[p] # "none" => grant[p].pool \in Servers
    /\ call \in Paths => pod[call] # "none"

LEMMA TypeInvInit == Init => TypeInv
  BY ConstantsAssumption, SMTT(30)
     DEF Init, TypeInv, TypeOK, Job, NoJob, NoGrant, DeallocationInfo, Handling

LEMMA TypeInvStep == TypeInv /\ [Next]_vars => TypeInv'
<1> SUFFICES ASSUME TypeInv, [Next]_vars PROVE TypeInv'
  OBVIOUS
<1> USE DEF chans, runVars, cleanVars, poolVars, srvVars, bootVars, podVars, bounds,
        infoVars, hostVars, TypeInv, TypeOK, Handling
<1>0. NumServers \in Nat /\ 1 \in 1..(NumServers + 1)
  BY ConstantsAssumption
<1>1. CASE RecvAllocated
  <2>1. /\ Head(allocatedCh) \in AllocationInfo
        /\ Tail(allocatedCh) \in Seq(AllocationInfo)
    BY <1>1 DEF RecvAllocated
  <2>2. ASSUME NEW scanned
        PROVE  ConflictInfos(Head(allocatedCh), scanned) \subseteq
                   [devs : SUBSET Devices, pool : Servers]
    BY <1>1 DEF ConflictInfos
  <2> QED
    BY <1>1, <2>1, <2>2 DEF RecvAllocated
<1>2. CASE RecvDeallocated
  <2>1. /\ Head(deallocatedCh) \in DeallocationInfo
        /\ Tail(deallocatedCh) \in Seq(DeallocationInfo)
    BY <1>2 DEF RecvDeallocated, Deleted
  <2>2. [devs |-> Head(deallocatedCh).devs, pool |-> Head(deallocatedCh).pool,
         allocated |-> FALSE] \in Job
    BY <2>1 DEF DeallocationInfo, Job
  <2>3. allocation' \in [DOMAIN allocation' -> [pool : Servers, mnt : Paths]] /\ DOMAIN allocation' \subseteq Devices
    BY <1>2 DEF RecvDeallocated, Deleted
  <2> QED
    BY <1>0, <1>2, <2>1, <2>2, <2>3 DEF RecvDeallocated
<1>3. CASE RecvMounted
  BY <1>3 DEF RecvMounted
<1>4. CASE ReleaseConflict
  <2>1. job' \in Job
    <3>1. ASSUME NEW c \in conflicts
          PROVE  [devs |-> c.devs, pool |-> c.pool, allocated |-> FALSE] \in Job
      BY <1>0 DEF Job
    <3> QED
      BY <1>4, <3>1 DEF ReleaseConflict
  <2>2. conflicts' \subseteq [devs : SUBSET Devices, pool : Servers]
    BY <1>4 DEF ReleaseConflict
  <2>3. (Handling => msg \in AllocationInfo)'
    <3> HIDE DEF TypeOK
    <3> QED
      BY <1>4 DEF ReleaseConflict
  <2> QED
    BY <1>0, <1>4, <2>1, <2>2, <2>3 DEF ReleaseConflict
<1>5. CASE RecordAllocation
  <2>1. msg \in AllocationInfo
    <3> HIDE DEF TypeOK
    <3> QED
      BY <1>5 DEF RecordAllocation, Recorded
  <2>2. /\ [devs |-> msg.devs, pool |-> msg.pool, allocated |-> TRUE] \in Job
        /\ msg.devs \subseteq Devices
        /\ msg.pool \in Servers
        /\ msg.mnt \in Paths
    <3> HIDE DEF TypeInv, TypeOK
    <3> QED
      BY <1>0, <2>1 DEF AllocationInfo, Job
  <2>3. /\ DOMAIN allocation' \subseteq Devices
        /\ allocation' \in [DOMAIN allocation' -> [pool : Servers, mnt : Paths]]
    BY <1>5, <2>2 DEF RecordAllocation, Recorded
  <2>4. job' \in Job
    BY <1>5, <2>2 DEF RecordAllocation, Recorded
  <2> QED
    BY <1>0, <1>5, <2>1, <2>3, <2>4 DEF RecordAllocation, Recorded
<1>6. CASE Reserve
  <2>1. msg \in AllocationInfo
    <3> HIDE DEF TypeOK
    <3> QED
      BY <1>6 DEF Reserve
  <2>2. msg.mnt \in Paths
    BY <2>1 DEF AllocationInfo
  <2>3. /\ DOMAIN reserved' \subseteq Paths
        /\ reserved' \in [DOMAIN reserved' -> {"fresh", "old"}]
        /\ DOMAIN reserved \subseteq DOMAIN reserved'
    BY <1>6, <2>2 DEF Reserve
  <2> QED
    BY <1>6, <2>3 DEF Reserve
<1>7. CASE ClaimMountedPath
  BY <1>7 DEF ClaimMountedPath
<1>8. CASE NotifySkip
  BY <1>0, <1>8 DEF NotifySkip
<1>9. CASE NotifyServer
  <2>1. ASSUME NEW map \in SUBSET Devices, NEW ds \in SUBSET Devices, NEW b
        PROVE  Marked(map, ds, job.devs, b) \in SUBSET Devices
    BY DEF Marked
  <2>2. PoolDevices[next] \in SUBSET Devices
    BY <1>9, ConstantsAssumption DEF NotifyServer
  <2>3. other' \in [Servers -> SUBSET Devices] /\ self' \in [Servers -> SUBSET Devices]
    BY <1>9, <2>1, <2>2 DEF NotifyServer, InformedBySharedInfo, Changed, InformedOther, InformedSelf
  <2> QED
    BY <1>0, <1>9, <2>3 DEF NotifyServer, InformedBySharedInfo, Changed
<1>10. CASE UpdateSignal
  BY <1>0, <1>10 DEF UpdateSignal
<1>11. CASE NotifyDone
  <2>1. NoJob \in Job
    BY <1>0 DEF NoJob, Job
  <2> QED
    BY <1>0, <1>11, <2>1 DEF NotifyDone
<1>a. ASSUME NEW s \in Servers PROVE Advertisable(s) \subseteq SUBSET Devices
  <2>1. /\ PoolDevices[s] \subseteq Devices
        /\ Peers[s] \in [Devices -> SUBSET Devices]
    BY ConstantsAssumption
  <2>2. GetDevices(PoolDevices[s], other[s]) \subseteq Devices
    BY <2>1 DEF GetDevices
  <2>3. ASSUME NEW D \in SUBSET Devices
        PROVE  GetMaxValidPeers(D, self[s], Peers[s]) \subseteq SUBSET Devices
    BY <2>1 DEF GetMaxValidPeers, ValidPeers
  <2> HIDE DEF TypeInv, TypeOK
  <2> QED
    BY <2>2, <2>3 DEF Advertisable
<1>12. ASSUME NEW s \in Servers, ListAndWatch(s) PROVE TypeInv'
  BY <1>12, <1>a DEF ListAndWatch
<1>13. ASSUME NEW s \in Servers, ComputeUpdate(s) PROVE TypeInv'
  BY <1>13, <1>a DEF ComputeUpdate
<1>14. ASSUME NEW s \in Servers, Send(s) PROVE TypeInv'
  BY <1>14 DEF Send
<1>15. ASSUME NEW s \in Servers, SendFails(s) PROVE TypeInv'
  BY <1>15 DEF SendFails
<1>16. CASE CleanStart \/ CleanEnd
  BY <1>16 DEF CleanStart, CleanEnd
<1>18. ASSUME NEW p \in Paths, CleanDrop(p) \/ CleanKeep(p) PROVE TypeInv'
  BY <1>18 DEF CleanDrop, CleanKeep
<1>19. ASSUME NEW p \in Paths, ForceDeallocate(p) PROVE TypeInv'
  BY <1>19 DEF ForceDeallocate
<1>20. ASSUME NEW p \in Paths, Expire(p) PROVE TypeInv'
  BY <1>20 DEF Expire
<1>21. ASSUME NEW s \in Servers, NEW p \in Paths, NEW devs \in SUBSET Devices,
              Allocate(s, p, devs)
       PROVE  TypeInv'
  <2>1. /\ [devs |-> devs, mnt |-> p, pool |-> s, from |-> "allocate"] \in AllocationInfo
        /\ [devs |-> devs, pool |-> s] \in DeallocationInfo
    <3> HIDE DEF TypeInv, TypeOK
    <3> QED
      BY <1>0 DEF AllocationInfo, DeallocationInfo
  <2> QED
    BY <1>21, <2>1 DEF Allocate
<1>22. CASE AllocateReturns \/ AllocateTimesOut
  <2>1. NoPath \notin Paths
    BY ConstantsAssumption
  <2>2. CASE AllocateReturns
    BY <2>1, <2>2 DEF AllocateReturns
  <2>3. CASE AllocateTimesOut
    BY <2>1, <2>3 DEF AllocateTimesOut
  <2> QED
    BY <1>22, <2>2, <2>3
<1>17. ASSUME NEW p \in Paths, ContainerStarts(p) PROVE TypeInv'
  BY <1>17 DEF ContainerStarts
<1>23. ASSUME NEW p \in Paths, PodEnds(p) PROVE TypeInv'
  BY <1>23 DEF PodEnds
<1>24. ASSUME NEW p \in Paths, WatcherClaims(p) PROVE TypeInv'
  BY <1>24 DEF WatcherClaims
<1>25. ASSUME NEW p \in Paths, WatcherRemoves(p) PROVE TypeInv'
  BY <1>25 DEF WatcherRemoves
<1>26. ASSUME NEW p \in Paths, WatcherNotifies(p) PROVE TypeInv'
  BY <1>26 DEF WatcherNotifies
<1>27. ASSUME NEW m \in bootAlloc, BootNotify(m) PROVE TypeInv'
  BY <1>27 DEF BootNotify
<1>28. CASE BootClean
  <2>1. UnmountedDevices \subseteq DeallocationInfo
    BY DEF UnmountedDevices, Unmounted, DeallocationInfo
  <2> QED
    BY <1>28, <2>1 DEF BootClean
<1>29. ASSUME NEW m \in bootFree, BootFree(m) PROVE TypeInv'
  BY <1>29 DEF BootFree
<1>30. CASE BootServe
  BY <1>30 DEF BootServe
<1>31. CASE Restart
  <2>0. NoPath \notin Paths
    BY ConstantsAssumption
  <2>1. bootAlloc' \subseteq AllocationInfo
    <3>1. ASSUME NEW p \in dirs, pod[p] # "none"
          PROVE  InitialAllocation(p) \in AllocationInfo
      <4>1. p \in Paths /\ grant[p] \in DeallocationInfo /\ grant[p].pool \in Servers
        BY <3>1
      <4> HIDE DEF TypeInv, TypeOK
      <4> QED
        BY <4>1 DEF InitialAllocation, AllocationInfo, DeallocationInfo
    <3>2. bootAlloc' \subseteq {InitialAllocation(p) : p \in {q \in dirs : pod[q] # "none"}}
      <4> HIDE DEF TypeInv, TypeOK
      <4> QED
        BY <1>31 DEF Restart
    <3> QED
      BY <3>1, <3>2
  <2>2. NoJob \in Job
    BY <1>0 DEF NoJob, Job
  <2>3. /\ DOMAIN allocation' \subseteq Devices
        /\ allocation' \in [DOMAIN allocation' -> [pool : Servers, mnt : Paths]]
        /\ DOMAIN reserved' \subseteq Paths
        /\ reserved' \in [DOMAIN reserved' -> {"fresh", "old"}]
    BY <1>31 DEF Restart
  <2>4. /\ pod' \in [Paths -> {"none", "created", "mounted", "exited", "gone"}]
        /\ \A p \in Paths : pod'[p] # "none" => grant'[p].pool \in Servers
    BY <1>31 DEF Restart
  <2>5. memo' \subseteq Paths /\ dropping' \subseteq Paths
    BY <1>31 DEF Restart
  <2> QED
    BY <1>0, <1>31, <2>0, <2>1, <2>2, <2>3, <2>4, <2>5 DEF Restart
<1>32. CASE UNCHANGED vars
  BY <1>32 DEF vars
<1> QED
  BY <1>1, <1>2, <1>3, <1>4, <1>5, <1>6, <1>7, <1>8, <1>9, <1>10, <1>11, <1>12, <1>13,
     <1>14, <1>15, <1>16, <1>17, <1>18, <1>19, <1>20, <1>21, <1>22, <1>23, <1>24, <1>25,
     <1>26, <1>27, <1>28, <1>29, <1>30, <1>31, <1>32
     DEF Next, RunNext, ServerNext, CleanNext, KubeletNext, WatcherNext, BootNext

(* Every variable keeps to its set of values.                              *)
THEOREM TypeCorrect == Spec => []TypeOK
<1>1. TypeInv => TypeOK
  BY DEF TypeInv
<1> QED
  BY TypeInvInit, TypeInvStep, <1>1, PTL DEF Spec
-----------------------------------------------------------------------------
(* Run has taken an allocation and not yet recorded it.                    *)
Deciding == pc = "conflicts" \/ (pc \in {"notify", "signal"} /\ resume = "conflicts")

(* notify() runs on behalf of the phase r continues.                       *)
Notifying(r) == pc \in {"notify", "signal"} /\ resume = r

(* What the notify() in progress carries, by the place it was called from: *)
(* deleteAllocation announces devices it has just deleted, the release of  *)
(* conflicts devices of the message in hand, and the last one exactly that *)
(* message, which is already recorded.                                     *)
JobInv ==
    /\ Notifying("select") => ~job.allocated /\ job.devs \cap DOMAIN allocation = {}
    /\ Notifying("conflicts") => ~job.allocated /\ job.devs \subseteq msg.devs
    /\ Notifying("reserve") =>
          /\ job = [devs |-> msg.devs, pool |-> msg.pool, allocated |-> TRUE]
          /\ \A d \in msg.devs : d \in DOMAIN allocation /\ allocation[d].pool = msg.pool
    /\ Deciding => \A c \in conflicts : c.devs \subseteq msg.devs

(* A message about a grant tells the truth about it.                       *)
Granted(m) == pod[m.mnt] # "none" /\ m.devs = grant[m.mnt].devs

GrantInv ==
    /\ \A i \in 1..Len(allocatedCh) : Granted(allocatedCh[i])
    /\ \A m \in bootAlloc : Granted(m)
    /\ Deciding => Granted(msg)
    /\ \A d \in DOMAIN allocation :
          pod[allocation[d].mnt] # "none" /\ d \in grant[allocation[d].mnt].devs

(* A grant is announced once: the directories of the queued messages, of   *)
(* those the start-up has yet to queue, of the message in hand and of the  *)
(* records are all different. The duplicate check of updateAllocation,     *)
(* which would leave the loop with conflicts released and nothing recorded *)
(* or announced, therefore never fires.                                    *)
OnceInv ==
    /\ \A i, j \in 1..Len(allocatedCh) : allocatedCh[i].mnt = allocatedCh[j].mnt => i = j
    /\ \A m, n \in bootAlloc : m.mnt = n.mnt => m = n
    /\ \A i \in 1..Len(allocatedCh) :
          /\ \A m \in bootAlloc : m.mnt # allocatedCh[i].mnt
          /\ \A d \in DOMAIN allocation : allocation[d].mnt # allocatedCh[i].mnt
    /\ \A m \in bootAlloc : \A d \in DOMAIN allocation : allocation[d].mnt # m.mnt
    /\ Deciding =>
          /\ \A i \in 1..Len(allocatedCh) : allocatedCh[i].mnt # msg.mnt
          /\ \A m \in bootAlloc : m.mnt # msg.mnt
          /\ \A d \in DOMAIN allocation : allocation[d].mnt # msg.mnt
-----------------------------------------------------------------------------
(* The record, Run's own state and the pools' maps are written by Run and  *)
(* by a restart only.                                                      *)
LEMMA RunFrame ==
    ASSUME [Next]_vars
    PROVE  RunNext \/ Restart \/ UNCHANGED <<allocation, runVars, poolVars>>
<1> USE DEF infoVars, cleanVars, hostVars, chans, srvVars, bootVars, podVars, bounds
<1>1. ServerNext => UNCHANGED <<allocation, runVars, poolVars>>
  BY DEF ServerNext, ListAndWatch, ComputeUpdate, Send, SendFails
<1>2. CleanNext => UNCHANGED <<allocation, runVars, poolVars>>
  BY DEF CleanNext, CleanStart, CleanEnd, CleanDrop, CleanKeep, ForceDeallocate, Expire
<1>3. KubeletNext => UNCHANGED <<allocation, runVars, poolVars>>
  BY DEF KubeletNext, Allocate, AllocateReturns, AllocateTimesOut, ContainerStarts, PodEnds
<1>4. WatcherNext => UNCHANGED <<allocation, runVars, poolVars>>
  BY DEF WatcherNext, WatcherClaims, WatcherRemoves, WatcherNotifies
<1>5. BootNext => UNCHANGED <<allocation, runVars, poolVars>>
  BY DEF BootNext, BootNotify, BootClean, BootFree, BootServe
<1>6. CASE UNCHANGED vars
  BY <1>6 DEF vars
<1> QED
  BY <1>1, <1>2, <1>3, <1>4, <1>5, <1>6 DEF Next

LEMMA JobStep ==
    ASSUME TypeInv, JobInv, OnceInv, [Next]_vars
    PROVE  JobInv'
<1> USE DEF JobInv, Deciding, Notifying, infoVars, runVars, poolVars
<1>1. CASE RecvAllocated
  <2>1. ASSUME NEW m, NEW scanned \in Scanned(m)
        PROVE  \A c \in ConflictInfos(m, scanned) : c.devs \subseteq m.devs
    BY <2>1 DEF Scanned, ConflictInfos
  <2> QED
    BY <1>1, <2>1 DEF RecvAllocated
<1>2. CASE RecvDeallocated
  BY <1>2 DEF RecvDeallocated, Deleted
<1>3. CASE RecvMounted
  BY <1>3 DEF RecvMounted
<1>4. CASE ReleaseConflict
  BY <1>4 DEF ReleaseConflict
<1>5. CASE RecordAllocation
  BY <1>5 DEF RecordAllocation, Recorded
<1>6. CASE Reserve
  BY <1>6 DEF Reserve
<1>7. CASE ClaimMountedPath
  BY <1>7 DEF ClaimMountedPath
<1>8. CASE NotifySkip
  BY <1>8 DEF NotifySkip
<1>9. CASE NotifyServer
  BY <1>9 DEF NotifyServer, InformedBySharedInfo, Changed
<1>10. CASE UpdateSignal
  BY <1>10 DEF UpdateSignal
<1>11. CASE NotifyDone
  <2>1. resume \in {"select", "conflicts", "reserve"}
    BY DEF TypeInv, TypeOK
  <2> QED
    BY <1>11, <2>1 DEF NotifyDone
<1>12. CASE Restart
  BY <1>12 DEF Restart
<1>13. CASE UNCHANGED <<allocation, runVars, poolVars>>
  BY <1>13
<1> QED
  BY <1>1, <1>2, <1>3, <1>4, <1>5, <1>6, <1>7, <1>8, <1>9, <1>10, <1>11, <1>12, <1>13,
     RunFrame DEF RunNext

(* The step in which a device of the message in hand stops being excused:  *)
(* the pool has just been told, or is the grant's own.                     *)
LEMMA HiddenStep ==
    ASSUME TypeInv, JobInv, OnceInv, RecordedIsHidden, [Next]_vars
    PROVE  RecordedIsHidden'
<1> USE DEF RecordedIsHidden, NotYetTold, infoVars, runVars, poolVars
<1>0. /\ NumServers \in Nat
      /\ next \in 1..(NumServers + 1)
      /\ resume \in {"select", "conflicts", "reserve"}
      /\ other \in [Servers -> SUBSET Devices]
  BY ConstantsAssumption DEF TypeInv, TypeOK
<1>1. CASE RecvAllocated
  BY <1>1 DEF RecvAllocated
<1>2. CASE RecvDeallocated
  BY <1>2 DEF RecvDeallocated, Deleted
<1>3. CASE RecvMounted
  BY <1>3 DEF RecvMounted
<1>4. CASE ReleaseConflict
  BY <1>4 DEF ReleaseConflict
<1>5. CASE RecordAllocation
  <2>1. DuplicateDevices(msg) = {}
    BY <1>5 DEF RecordAllocation, Recorded, DuplicateDevices, OnceInv, Deciding
  <2>2. ASSUME NEW s \in Servers, NEW d \in msg.devs PROVE NotYetTold(d, s)'
    BY <1>0, <1>5, <2>1 DEF RecordAllocation, Recorded
  <2>3. ASSUME NEW d \in DOMAIN allocation' \ msg.devs
        PROVE  d \in DOMAIN allocation /\ allocation'[d] = allocation[d]
    BY <1>5, <2>1 DEF RecordAllocation, Recorded
  <2>4. other' = other
    BY <1>5 DEF RecordAllocation, Recorded
  <2> QED
    BY <2>2, <2>3, <2>4
<1>6. CASE Reserve
  <2>1. pc = "reserve" /\ UNCHANGED <<allocation, other>>
    BY <1>6 DEF Reserve
  <2> QED
    BY <2>1
<1>7. CASE ClaimMountedPath
  BY <1>7 DEF ClaimMountedPath
<1>8. CASE NotifySkip
  <2>1. CASE resume = "reserve"
    <3>1. ASSUME NEW d \in msg.devs PROVE allocation[d].pool = next
      BY <1>8, <2>1 DEF NotifySkip, Skips, JobInv, Notifying
    <3>2. pc = "notify" /\ next' = next + 1 /\ UNCHANGED <<allocation, other, pc, msg, resume>>
      BY <1>8 DEF NotifySkip
    <3>3. ASSUME NEW s \in Servers, s # next, s >= next PROVE s >= next + 1
      BY <1>0, <3>3
    <3> QED
      BY <2>1, <3>1, <3>2, <3>3
  <2>2. CASE resume # "reserve"
    BY <1>8, <2>2 DEF NotifySkip
  <2> QED
    BY <2>1, <2>2
<1>9. CASE NotifyServer
  <2>1. ASSUME NEW s \in Servers, s # next PROVE other'[s] = other[s]
    BY <1>0, <1>9, <2>1 DEF NotifyServer, InformedBySharedInfo, Changed
  <2>2. other'[next] = InformedOther(PoolDevices[next], other[next], self[next],
                                     job.devs, job.allocated, next = job.pool)
    BY <1>0, <1>9 DEF NotifyServer, InformedBySharedInfo, Changed
  <2>3. UNCHANGED <<allocation, msg, resume>>
    BY <1>9 DEF NotifyServer
  <2>4. pc = "notify" /\ next \in Servers /\
        ((pc' = "signal" /\ next' = next) \/ (pc' = "notify" /\ next' = next + 1))
    BY <1>9 DEF NotifyServer, InformedBySharedInfo, Changed
  <2>5. CASE resume = "reserve"
    <3>1. /\ job = [devs |-> msg.devs, pool |-> msg.pool, allocated |-> TRUE]
          /\ \A d \in msg.devs : d \in DOMAIN allocation /\ allocation[d].pool = msg.pool
      BY <2>4, <2>5 DEF JobInv, Notifying
    <3>2. next # msg.pool =>
              other'[next] = other[next] \cup (msg.devs \cap PoolDevices[next])
      BY <2>2, <3>1 DEF InformedOther, UsesSelfMap, Marked
    <3>3. next = msg.pool => other'[next] = other[next]
      BY <2>2, <3>1 DEF InformedOther, UsesSelfMap, Marked
    <3> QED
      BY <1>0, <2>1, <2>3, <2>4, <2>5, <3>1, <3>2, <3>3
  <2>6. CASE resume # "reserve"
    <3>1. other[next] \ job.devs \subseteq other'[next]
      BY <2>2 DEF InformedOther, Marked, JobInv, Notifying
    <3>2. resume = "conflicts" => job.devs \subseteq msg.devs
      BY <2>4 DEF JobInv, Notifying
    <3>3. resume = "select" => job.devs \cap DOMAIN allocation = {}
      BY <2>4 DEF JobInv, Notifying
    <3> QED
      BY <1>0, <2>1, <2>3, <2>4, <2>6, <3>1, <3>2, <3>3
  <2> QED
    BY <2>5, <2>6
<1>10. CASE UpdateSignal
  <2>1. /\ pc = "signal" /\ pc' = "notify" /\ next' = next + 1
        /\ UNCHANGED <<allocation, other, msg, resume>>
    BY <1>10 DEF UpdateSignal
  <2>2. ASSUME NEW s \in Servers, s > next PROVE s >= next + 1
    BY <1>0, <2>2
  <2> QED
    BY <2>1, <2>2
<1>11. CASE NotifyDone
  <2>1. /\ pc = "notify" /\ pc' = resume /\ next = NumServers + 1
        /\ UNCHANGED <<allocation, other, msg>>
    BY <1>11 DEF NotifyDone
  <2>2. ASSUME NEW s \in Servers PROVE ~(s >= next)
    BY <1>0, <2>1
  <2> QED
    BY <1>0, <2>1, <2>2
<1>12. CASE Restart
  BY <1>12 DEF Restart
<1>13. CASE UNCHANGED <<allocation, runVars, poolVars>>
  BY <1>13
<1> QED
  BY <1>1, <1>2, <1>3, <1>4, <1>5, <1>6, <1>7, <1>8, <1>9, <1>10, <1>11, <1>12, <1>13,
     RunFrame DEF RunNext
-----------------------------------------------------------------------------
(* Steps that announce, record and take back nothing.                      *)
Quiet ==
    /\ UNCHANGED <<allocatedCh, bootAlloc, pod, grant, allocation>>
    /\ Deciding' => Deciding /\ msg' = msg

LEMMA AnnounceFrame ==
    ASSUME TypeInv, [Next]_vars
    PROVE  \/ RecvAllocated \/ RecordAllocation \/ RecvDeallocated \/ Restart
           \/ \E s \in Servers, p \in Paths, devs \in SUBSET Devices : Allocate(s, p, devs)
           \/ \E p \in Paths : ContainerStarts(p) \/ PodEnds(p)
           \/ \E m \in bootAlloc : BootNotify(m)
           \/ Quiet
<1> USE DEF Quiet, Deciding, infoVars, runVars, poolVars, cleanVars, hostVars, chans, srvVars,
        bootVars, podVars, bounds
<1>1. ServerNext => Quiet
  BY DEF ServerNext, ListAndWatch, ComputeUpdate, Send, SendFails
<1>2. CleanNext => Quiet
  BY DEF CleanNext, CleanStart, CleanEnd, CleanDrop, CleanKeep, ForceDeallocate, Expire
<1>3. AllocateReturns \/ AllocateTimesOut => Quiet
  BY DEF AllocateReturns, AllocateTimesOut
<1>4. WatcherNext => Quiet
  BY DEF WatcherNext, WatcherClaims, WatcherRemoves, WatcherNotifies
<1>5. ASSUME NEW m PROVE BootClean \/ BootFree(m) \/ BootServe => Quiet
  BY DEF BootClean, BootFree, BootServe
<1>6. RecvMounted \/ Reserve \/ ClaimMountedPath => Quiet
  BY DEF RecvMounted, Reserve, ClaimMountedPath
<1>7. ReleaseConflict \/ NotifySkip \/ NotifyServer \/ UpdateSignal => Quiet
  BY DEF ReleaseConflict, NotifySkip, NotifyServer, InformedBySharedInfo, Changed, UpdateSignal
<1>8. NotifyDone => Quiet
  <2>1. resume \in {"select", "conflicts", "reserve"}
    BY DEF TypeInv, TypeOK
  <2> QED
    BY <2>1 DEF NotifyDone
<1>9. CASE UNCHANGED vars
  BY <1>9 DEF vars
<1> QED
  BY <1>1, <1>2, <1>3, <1>4, <1>5, <1>6, <1>7, <1>8, <1>9
     DEF Next, RunNext, KubeletNext, BootNext

(* What the proofs below need of the types.                                *)
LEMMA Announced ==
    ASSUME TypeInv
    PROVE  /\ allocatedCh \in Seq(AllocationInfo)
           /\ bootAlloc \subseteq AllocationInfo
           /\ Deciding => msg \in AllocationInfo
           /\ \A m \in AllocationInfo : m.mnt \in Paths
           /\ \A d \in DOMAIN allocation : allocation[d].mnt \in Paths
           /\ pod \in [Paths -> {"none", "created", "mounted", "exited", "gone"}]
           /\ DOMAIN grant = Paths
<1>1. /\ allocatedCh \in Seq(AllocationInfo)
      /\ bootAlloc \subseteq AllocationInfo
      /\ \A d \in DOMAIN allocation : allocation[d].mnt \in Paths
      /\ pod \in [Paths -> {"none", "created", "mounted", "exited", "gone"}]
      /\ DOMAIN grant = Paths
  BY DEF TypeInv, TypeOK
<1>2. Deciding => msg \in AllocationInfo
  BY DEF TypeInv, Deciding, Handling
<1> QED
  BY <1>1, <1>2 DEF AllocationInfo

LEMMA GrantStep ==
    ASSUME TypeInv, GrantInv, [Next]_vars
    PROVE  GrantInv'
<1> USE DEF GrantInv, Granted, chans, infoVars, hostVars, bootVars, podVars
<1>1. CASE RecvAllocated
  <2>1. \A i \in 1..Len(allocatedCh') : allocatedCh'[i] = allocatedCh[i + 1]
                                      /\ i + 1 \in 1..Len(allocatedCh)
    BY <1>1, Announced DEF RecvAllocated
  <2>2. 1 \in 1..Len(allocatedCh) /\ Head(allocatedCh) = allocatedCh[1]
    BY <1>1, Announced DEF RecvAllocated
  <2>3. /\ UNCHANGED <<bootAlloc, pod, grant, allocation>>
        /\ Deciding' => msg' = Head(allocatedCh)
    BY <1>1 DEF RecvAllocated, Deciding
  <2> QED
    BY <2>1, <2>2, <2>3
<1>2. CASE RecordAllocation
  <2>1. Granted(msg) /\ UNCHANGED <<allocatedCh, bootAlloc, pod, grant>> /\ ~Deciding'
    BY <1>2 DEF RecordAllocation, Recorded, Deciding
  <2>2. ASSUME NEW d \in DOMAIN allocation'
        PROVE  \/ d \in DOMAIN allocation /\ allocation'[d] = allocation[d]
               \/ d \in msg.devs /\ allocation'[d].mnt = msg.mnt
    BY <1>2 DEF RecordAllocation, Recorded
  <2> QED
    BY <2>1, <2>2
<1>3. CASE RecvDeallocated
  BY <1>3 DEF RecvDeallocated, Deleted, Deciding
<1>4. CASE Restart
  <2>1. allocatedCh' = <<>> /\ DOMAIN allocation' = {} /\ ~Deciding' /\ grant' = grant
    BY <1>4 DEF Restart, Deciding
  <2>2. ASSUME NEW m \in bootAlloc' PROVE Granted(m)'
    <3>1. PICK p \in dirs : pod[p] # "none" /\ m = InitialAllocation(p)
      BY <1>4 DEF Restart
    <3>2. p \in Paths
      BY DEF TypeInv, TypeOK
    <3>3. pod'[p] # "none"
      BY <1>4, <3>1, <3>2 DEF Restart
    <3> QED
      BY <2>1, <3>1, <3>3 DEF InitialAllocation
  <2> QED
    BY <2>1, <2>2
<1>5. ASSUME NEW s \in Servers, NEW p \in Paths, NEW devs \in SUBSET Devices,
             Allocate(s, p, devs)
      PROVE  GrantInv'
  <2>1. /\ pod[p] = "none"
        /\ pod' = [pod EXCEPT ![p] = "created"]
        /\ grant' = [grant EXCEPT ![p] = [devs |-> devs, pool |-> s]]
        /\ allocatedCh' = Append(allocatedCh,
               [devs |-> devs, mnt |-> p, pool |-> s, from |-> "allocate"])
        /\ UNCHANGED <<bootAlloc, allocation, msg, pc, resume>>
    BY <1>5 DEF Allocate, runVars
  <2>2. ASSUME NEW q \in Paths, pod[q] # "none"
        PROVE  pod'[q] # "none" /\ grant'[q] = grant[q]
    BY <2>1, <2>2, Announced
  <2>3. pod'[p] # "none" /\ grant'[p].devs = devs
    BY <2>1, Announced
  <2>4. Deciding' <=> Deciding
    BY <2>1 DEF Deciding
  <2>5. ASSUME NEW i \in 1..Len(allocatedCh') PROVE Granted(allocatedCh[i])'
    <3>1. CASE i \in 1..Len(allocatedCh)
      <4>1. allocatedCh'[i] = allocatedCh[i] /\ allocatedCh[i].mnt \in Paths
        BY <2>1, <3>1, Announced
      <4> QED
        BY <2>2, <3>1, <4>1
    <3>2. CASE i = Len(allocatedCh) + 1
      <4>1. allocatedCh'[i] = [devs |-> devs, mnt |-> p, pool |-> s, from |-> "allocate"]
        BY <2>1, <3>2, Announced
      <4> QED
        BY <2>3, <4>1
    <3> QED
      BY <2>1, <3>1, <3>2, Announced
  <2>6. \A m \in bootAlloc : m.mnt \in Paths
    BY Announced
  <2>7. Deciding => msg.mnt \in Paths
    BY Announced
  <2> QED
    BY <2>1, <2>2, <2>4, <2>5, <2>6, <2>7, Announced
<1>6. ASSUME NEW p \in Paths, ContainerStarts(p) \/ PodEnds(p) PROVE GrantInv'
  <2>1. \A q \in Paths : pod[q] # "none" => pod'[q] # "none"
    BY <1>6, Announced DEF ContainerStarts, PodEnds
  <2>2. UNCHANGED <<allocatedCh, bootAlloc, grant, allocation, msg, pc, resume>>
    BY <1>6 DEF ContainerStarts, PodEnds, runVars
  <2>3. (\A i \in 1..Len(allocatedCh) : allocatedCh[i].mnt \in Paths)
        /\ (\A m \in bootAlloc : m.mnt \in Paths) /\ (Deciding => msg.mnt \in Paths)
    BY Announced
  <2> QED
    BY <2>1, <2>2, <2>3, Announced DEF Deciding
<1>7. ASSUME NEW m \in bootAlloc, BootNotify(m) PROVE GrantInv'
  <2>1. /\ allocatedCh' = Append(allocatedCh, m)
        /\ bootAlloc' \subseteq bootAlloc
        /\ UNCHANGED <<pod, grant, allocation, msg, pc, resume>>
    BY <1>7 DEF BootNotify, runVars
  <2>2. \A i \in 1..Len(allocatedCh') :
            (i \in 1..Len(allocatedCh) /\ allocatedCh'[i] = allocatedCh[i]) \/ allocatedCh'[i] = m
    BY <2>1, Announced
  <2> QED
    BY <2>1, <2>2 DEF Deciding
<1>8. CASE Quiet
  BY <1>8 DEF Quiet
<1> QED
  BY <1>1, <1>2, <1>3, <1>4, <1>5, <1>6, <1>7, <1>8, AnnounceFrame

LEMMA OnceStep ==
    ASSUME TypeInv, GrantInv, OnceInv, [Next]_vars
    PROVE  OnceInv'
<1> USE DEF OnceInv, chans, infoVars, hostVars, bootVars, podVars
<1>1. CASE RecvAllocated
  <2>1. \A i \in 1..Len(allocatedCh') : allocatedCh'[i] = allocatedCh[i + 1]
                                      /\ i + 1 \in 1..Len(allocatedCh) /\ i + 1 # 1
    BY <1>1, Announced DEF RecvAllocated
  <2>2. 1 \in 1..Len(allocatedCh) /\ Head(allocatedCh) = allocatedCh[1]
    BY <1>1, Announced DEF RecvAllocated
  <2>3. /\ UNCHANGED <<bootAlloc, allocation>>
        /\ Deciding' => msg' = Head(allocatedCh)
    BY <1>1 DEF RecvAllocated, Deciding
  <2>4. \A i, j \in 1..Len(allocatedCh') : i + 1 = j + 1 => i = j
    BY <1>1, Announced DEF RecvAllocated
  <2>5. \A i, j \in 1..Len(allocatedCh') : allocatedCh'[i].mnt = allocatedCh'[j].mnt => i = j
    BY <2>1, <2>4
  <2>6. \A i \in 1..Len(allocatedCh') :
            /\ \A m \in bootAlloc' : m.mnt # allocatedCh'[i].mnt
            /\ \A d \in DOMAIN allocation' : allocation'[d].mnt # allocatedCh'[i].mnt
    BY <2>1, <2>3
  <2>7. Deciding' =>
            /\ \A i \in 1..Len(allocatedCh') : allocatedCh'[i].mnt # msg'.mnt
            /\ \A m \in bootAlloc' : m.mnt # msg'.mnt
            /\ \A d \in DOMAIN allocation' : allocation'[d].mnt # msg'.mnt
    BY <2>1, <2>2, <2>3
  <2> QED
    BY <2>3, <2>5, <2>6, <2>7
<1>2. CASE RecordAllocation
  <2>1. Deciding /\ ~Deciding' /\ UNCHANGED <<allocatedCh, bootAlloc>>
    BY <1>2 DEF RecordAllocation, Recorded, Deciding
  <2>2. ASSUME NEW d \in DOMAIN allocation'
        PROVE  \/ d \in DOMAIN allocation /\ allocation'[d] = allocation[d]
               \/ allocation'[d].mnt = msg.mnt
    BY <1>2 DEF RecordAllocation, Recorded
  <2> QED
    BY <2>1, <2>2
<1>3. CASE RecvDeallocated
  BY <1>3 DEF RecvDeallocated, Deleted, Deciding
<1>4. CASE Restart
  <2>1. allocatedCh' = <<>> /\ DOMAIN allocation' = {} /\ ~Deciding'
    BY <1>4 DEF Restart, Deciding
  <2>2. bootAlloc' \subseteq {InitialAllocation(p) : p \in dirs}
    BY <1>4 DEF Restart
  <2>3. \A m, n \in bootAlloc' : m.mnt = n.mnt => m = n
    BY <2>2 DEF InitialAllocation
  <2> QED
    BY <2>1, <2>3
<1>5. ASSUME NEW s \in Servers, NEW p \in Paths, NEW devs \in SUBSET Devices,
             Allocate(s, p, devs)
      PROVE  OnceInv'
  <2>1. /\ pod[p] = "none"
        /\ allocatedCh' = Append(allocatedCh,
               [devs |-> devs, mnt |-> p, pool |-> s, from |-> "allocate"])
        /\ UNCHANGED <<bootAlloc, allocation, msg, pc, resume>>
    BY <1>5 DEF Allocate, runVars
  <2>2. /\ \A i \in 1..Len(allocatedCh) : allocatedCh[i].mnt # p
        /\ \A m \in bootAlloc : m.mnt # p
        /\ Deciding => msg.mnt # p
        /\ \A d \in DOMAIN allocation : allocation[d].mnt # p
    BY <2>1 DEF GrantInv, Granted
  <2>3. \A i \in 1..Len(allocatedCh') :
            \/ i \in 1..Len(allocatedCh) /\ allocatedCh'[i] = allocatedCh[i]
            \/ i = Len(allocatedCh) + 1 /\ allocatedCh'[i].mnt = p
    BY <2>1, Announced
  <2>4. Deciding' <=> Deciding
    BY <2>1 DEF Deciding
  <2> QED
    BY <2>1, <2>2, <2>3, <2>4
<1>6. ASSUME NEW p \in Paths, ContainerStarts(p) \/ PodEnds(p) PROVE OnceInv'
  BY <1>6 DEF ContainerStarts, PodEnds, runVars, Deciding
<1>7. ASSUME NEW m \in bootAlloc, BootNotify(m) PROVE OnceInv'
  <2>1. /\ allocatedCh' = Append(allocatedCh, m)
        /\ bootAlloc' = bootAlloc \ {m}
        /\ UNCHANGED <<allocation, msg, pc, resume>>
    BY <1>7 DEF BootNotify, runVars
  <2>2. \A i \in 1..Len(allocatedCh') :
            \/ i \in 1..Len(allocatedCh) /\ allocatedCh'[i] = allocatedCh[i]
            \/ i = Len(allocatedCh) + 1 /\ allocatedCh'[i] = m
    BY <2>1, Announced
  <2>3. Deciding' <=> Deciding
    BY <2>1 DEF Deciding
  <2> QED
    BY <2>1, <2>2, <2>3
<1>8. CASE Quiet
  BY <1>8 DEF Quiet
<1> QED
  BY <1>1, <1>2, <1>3, <1>4, <1>5, <1>6, <1>7, <1>8, AnnounceFrame
-----------------------------------------------------------------------------
(* The grant of directory p is accounted for, as far as device d goes.     *)
Covered(d, p) == p \in dirs \/ ReleaseOnItsWay(d)

(* Records are covered, and so is the message in hand; the PodWatcher      *)
(* drops one pod at a time, a pod that existed; the start-up collects      *)
(* devices to free only in its second phase.                               *)
CoverInv ==
    /\ NoZombieRecord
    /\ Deciding => \A d \in msg.devs : Covered(d, msg.mnt)
    /\ \A p, q \in dropping : p = q
    /\ \A p \in dropping : pod[p] # "none"
    /\ boot # "free" => bootFree = {}

(* Only Run taking a deallocation, or a restart, uncovers a grant.         *)
LEMMA CoverFrame ==
    ASSUME TypeInv, CoverInv, [Next]_vars, ~RecvDeallocated, ~Restart,
           NEW d, NEW p \in Paths, pod[p] # "none", d \in grant[p].devs, Covered(d, p)
    PROVE  Covered(d, p)'
<1> USE DEF Covered, ReleaseOnItsWay, infoVars, hostVars, chans, bootVars, podVars
<1>0. /\ deallocatedCh \in Seq(DeallocationInfo)
      /\ grant \in [Paths -> DeallocationInfo]
      /\ dropping \subseteq Paths
      /\ dirs \subseteq Paths
  BY DEF TypeInv, TypeOK
<1>1. ASSUME NEW m \in DeallocationInfo, deallocatedCh' = Append(deallocatedCh, m)
      PROVE  /\ \A i \in DOMAIN deallocatedCh :
                    i \in DOMAIN deallocatedCh' /\ deallocatedCh'[i] = deallocatedCh[i]
             /\ \E i \in DOMAIN deallocatedCh' : deallocatedCh'[i] = m
  <2>1. /\ Len(deallocatedCh) + 1 \in DOMAIN deallocatedCh'
        /\ deallocatedCh'[Len(deallocatedCh) + 1] = m
    BY <1>0, <1>1
  <2> QED
    BY <1>0, <1>1, <2>1
<1>2. CASE UNCHANGED <<dirs, deallocatedCh, dropping, grant, bootFree>>
  BY <1>2
<1>3. ASSUME NEW q \in Paths, ForceDeallocate(q) PROVE Covered(d, p)'
  BY <1>0, <1>1, <1>3 DEF ForceDeallocate
<1>4. ASSUME NEW s \in Servers, NEW q \in Paths, NEW devs \in SUBSET Devices,
             Allocate(s, q, devs)
      PROVE  Covered(d, p)'
  <2>1. /\ dirs \subseteq dirs'
        /\ UNCHANGED <<deallocatedCh, dropping, bootFree>>
        /\ pod[q] = "none"
        /\ grant' = [grant EXCEPT ![q] = [devs |-> devs, pool |-> s]]
    BY <1>4 DEF Allocate
  <2>2. \A r \in dropping : grant'[r] = grant[r]
    BY <1>0, <2>1 DEF CoverInv
  <2> QED
    BY <2>1, <2>2
<1>5. ASSUME NEW q \in Paths, WatcherRemoves(q) PROVE Covered(d, p)'
  BY <1>0, <1>5 DEF WatcherRemoves
<1>6. ASSUME NEW q \in Paths, WatcherNotifies(q) PROVE Covered(d, p)'
  <2>1. dropping = {q} /\ deallocatedCh' = Append(deallocatedCh, grant[q])
        /\ UNCHANGED <<dirs, bootFree>>
    BY <1>6 DEF WatcherNotifies, CoverInv
  <2> QED
    BY <1>0, <1>1, <2>1
<1>7. CASE BootClean
  <2>1. p \in dirs \ dirs' => \E m \in bootFree' : d \in m.devs
    <3>1. HAVE p \in dirs \ dirs'
    <3>2. p \in Unmounted /\ bootFree' = UnmountedDevices
      BY <1>7, <3>1 DEF BootClean
    <3> DEFINE m == [devs |-> UNION {grant[r].devs : r \in {q \in Unmounted :
                                                     grant[q].pool = grant[p].pool}},
                     pool |-> grant[p].pool]
    <3>3. m \in bootFree'
      BY <3>2 DEF UnmountedDevices
    <3>4. d \in m.devs
      BY <3>2
    <3> QED
      BY <3>3, <3>4
  <2>2. bootFree = {} /\ UNCHANGED <<deallocatedCh, dropping, grant>>
    BY <1>7 DEF BootClean, CoverInv
  <2> QED
    BY <2>1, <2>2
<1>8. ASSUME NEW m \in bootFree, BootFree(m) PROVE Covered(d, p)'
  <2>1. m \in DeallocationInfo
    BY DEF TypeInv, TypeOK
  <2>2. /\ deallocatedCh' = Append(deallocatedCh, m)
        /\ bootFree' = bootFree \ {m}
        /\ UNCHANGED <<dirs, dropping, grant>>
    BY <1>8 DEF BootFree
  <2> QED
    BY <1>1, <2>1, <2>2
<1>9. RunNext => UNCHANGED <<dirs, deallocatedCh, dropping, grant, bootFree>>
  BY DEF RunNext, RecvAllocated, RecvMounted, ReleaseConflict, RecordAllocation,
         Reserve, ClaimMountedPath, NotifySkip, NotifyServer, UpdateSignal, NotifyDone
<1>10. ServerNext \/ CleanStart \/ CleanEnd => UNCHANGED <<dirs, deallocatedCh, dropping, grant, bootFree>>
  BY DEF ServerNext, ListAndWatch, ComputeUpdate, Send, SendFails, CleanStart, CleanEnd
<1>11. ASSUME NEW q \in Paths,
              CleanDrop(q) \/ CleanKeep(q) \/ Expire(q) \/ ContainerStarts(q) \/ PodEnds(q)
                  \/ WatcherClaims(q)
       PROVE  UNCHANGED <<dirs, deallocatedCh, dropping, grant, bootFree>>
  BY <1>11 DEF CleanDrop, CleanKeep, Expire, ContainerStarts, PodEnds, WatcherClaims
<1>12. ASSUME NEW m, BootNotify(m) \/ BootServe \/ AllocateReturns \/ AllocateTimesOut
       PROVE  UNCHANGED <<dirs, deallocatedCh, dropping, grant, bootFree>>
  BY <1>12 DEF BootNotify, BootServe, AllocateReturns, AllocateTimesOut
<1>13. CASE UNCHANGED vars
  BY <1>2, <1>13 DEF vars
<1> QED
  BY <1>2, <1>3, <1>4, <1>5, <1>6, <1>7, <1>8, <1>9, <1>10, <1>11, <1>12, <1>13
     DEF Next, CleanNext, KubeletNext, WatcherNext, BootNext

(* The parts of CoverInv that are not about Run.                           *)
LEMMA DroppingStep ==
    ASSUME TypeInv, CoverInv, [Next]_vars
    PROVE  /\ \A p, q \in dropping' : p = q
           /\ \A p \in dropping' : pod'[p] # "none"
           /\ boot' # "free" => bootFree' = {}
<1> DEFINE Goal == /\ \A p, q \in dropping' : p = q
                   /\ \A p \in dropping' : pod'[p] # "none"
                   /\ boot' # "free" => bootFree' = {}
<1> USE DEF CoverInv, infoVars, hostVars, chans, bootVars, podVars
<1>0. dropping \subseteq Paths /\ pod \in [Paths -> {"none", "created", "mounted", "exited", "gone"}]
  BY DEF TypeInv, TypeOK
<1>1. UNCHANGED <<dropping, pod, boot, bootFree>> => Goal
  OBVIOUS
<1>2. ASSUME NEW s \in Servers, NEW p \in Paths, NEW devs, Allocate(s, p, devs) PROVE Goal
  BY <1>0, <1>2 DEF Allocate
<1>3. ASSUME NEW p \in Paths, ContainerStarts(p) \/ PodEnds(p) PROVE Goal
  BY <1>0, <1>3 DEF ContainerStarts, PodEnds
<1>4. ASSUME NEW p \in Paths, WatcherRemoves(p) PROVE Goal
  BY <1>4 DEF WatcherRemoves, Ended
<1>5. ASSUME NEW p \in Paths, WatcherNotifies(p) PROVE Goal
  BY <1>5 DEF WatcherNotifies
<1>6. Restart \/ BootClean \/ BootServe => Goal
  BY DEF Restart, BootClean, BootServe
<1>7. ASSUME NEW m \in bootFree, BootFree(m) PROVE Goal
  BY <1>7 DEF BootFree
<1>8. RunNext => UNCHANGED <<dropping, pod, boot, bootFree>>
  BY DEF RunNext, RecvAllocated, RecvDeallocated, RecvMounted, ReleaseConflict,
         RecordAllocation, Reserve, ClaimMountedPath, NotifySkip, NotifyServer,
         UpdateSignal, NotifyDone
<1>9. ServerNext \/ CleanNext => UNCHANGED <<dropping, pod, boot, bootFree>>
  BY DEF ServerNext, ListAndWatch, ComputeUpdate, Send, SendFails, CleanNext, CleanStart,
         CleanEnd, CleanDrop, CleanKeep, ForceDeallocate, Expire
<1>10. ASSUME NEW p, WatcherClaims(p) \/ BootNotify(p) \/ AllocateReturns \/ AllocateTimesOut
       PROVE  UNCHANGED <<dropping, pod, boot, bootFree>>
  BY <1>10 DEF WatcherClaims, BootNotify, AllocateReturns, AllocateTimesOut
<1>11. CASE UNCHANGED vars
  BY <1>1, <1>11 DEF vars
<1> HIDE DEF Goal
<1>12. KubeletNext => Goal
  BY <1>1, <1>2, <1>3, <1>10 DEF KubeletNext
<1>13. WatcherNext => Goal
  BY <1>1, <1>4, <1>5, <1>10 DEF WatcherNext
<1>14. BootNext => Goal
  BY <1>1, <1>6, <1>7, <1>10 DEF BootNext
<1>15. RunNext \/ ServerNext \/ CleanNext => Goal
  BY <1>1, <1>8, <1>9
<1>16. CASE Next
  BY <1>6, <1>12, <1>13, <1>14, <1>15, <1>16 DEF Next, Goal
<1> QED
  BY <1>11, <1>16

LEMMA CoverStep ==
    ASSUME TypeInv, GrantInv, CoverInv, [Next]_vars
    PROVE  CoverInv'
<1> USE DEF infoVars, hostVars, chans, bootVars, podVars
<1>0. /\ deallocatedCh \in Seq(DeallocationInfo)
      /\ NoZombieRecord <=> \A d \in DOMAIN allocation : Covered(d, allocation[d].mnt)
      /\ NoZombieRecord' <=> \A d \in DOMAIN allocation' : Covered(d, allocation[d].mnt)'
  BY DEF TypeInv, TypeOK, NoZombieRecord, Covered
<1> SUFFICES /\ \A d \in DOMAIN allocation' : Covered(d, allocation[d].mnt)'
             /\ Deciding' => \A d \in msg'.devs : Covered(d, msg.mnt)'
  BY <1>0, DroppingStep DEF CoverInv
<1>1. CASE RecvDeallocated
  <2>1. ~Deciding' /\ UNCHANGED <<dirs, dropping, grant, bootFree>>
    BY <1>1 DEF RecvDeallocated, Deleted, Deciding
  <2>2. ASSUME NEW d \in DOMAIN allocation'
        PROVE  /\ d \in DOMAIN allocation
               /\ allocation'[d] = allocation[d]
               /\ d \notin Head(deallocatedCh).devs
    BY <1>1 DEF RecvDeallocated, Deleted
  <2>3. ASSUME NEW d, d \notin Head(deallocatedCh).devs,
               NEW i \in DOMAIN deallocatedCh, d \in deallocatedCh[i].devs
        PROVE  \E j \in DOMAIN deallocatedCh' : d \in deallocatedCh'[j].devs
    <3>1. i # 1 /\ deallocatedCh' = Tail(deallocatedCh) /\ deallocatedCh # <<>>
      BY <1>0, <1>1, <2>3 DEF RecvDeallocated, Deleted
    <3>2. i - 1 \in DOMAIN deallocatedCh' /\ deallocatedCh'[i - 1] = deallocatedCh[i]
      BY <1>0, <3>1
    <3> QED
      BY <2>3, <3>2
  <2> QED
    BY <1>0, <2>1, <2>2, <2>3 DEF CoverInv, Covered, ReleaseOnItsWay
<1>2. CASE Restart
  BY <1>2 DEF Restart, Deciding
<1>3. CASE ~RecvDeallocated /\ ~Restart
  <2>1. ASSUME NEW d \in DOMAIN allocation PROVE Covered(d, allocation[d].mnt) /\
               \A p : p = allocation[d].mnt => Covered(d, p)'
    <3>1. /\ allocation[d].mnt \in Paths
          /\ pod[allocation[d].mnt] # "none"
          /\ d \in grant[allocation[d].mnt].devs
      BY Announced DEF GrantInv
    <3>2. Covered(d, allocation[d].mnt)
      BY <1>0 DEF CoverInv
    <3> QED
      BY <1>3, <3>1, <3>2, CoverFrame
  <2>2. ASSUME Deciding, NEW d \in msg.devs
        PROVE  \A p : p = msg.mnt => Covered(d, p)'
    <3>1. msg.mnt \in Paths /\ pod[msg.mnt] # "none" /\ d \in grant[msg.mnt].devs
      BY <2>2, Announced DEF GrantInv, Granted
    <3>2. Covered(d, msg.mnt)
      BY <2>2 DEF CoverInv
    <3> QED
      BY <1>3, <3>1, <3>2, CoverFrame
  <2>3. CASE RecvAllocated
    <3>1. allocation' = allocation /\ dirs' = dirs
      BY <2>3 DEF RecvAllocated
    <3>2. Deciding' => msg'.mnt \in dirs'
      BY <2>3 DEF RecvAllocated, Deciding, MountPathExists
    <3> QED
      BY <2>1, <3>1, <3>2 DEF Covered
  <2>4. CASE RecordAllocation
    <3>1. Deciding /\ ~Deciding'
      BY <2>4 DEF RecordAllocation, Recorded, Deciding
    <3>2. ASSUME NEW d \in DOMAIN allocation'
          PROVE  \/ d \in DOMAIN allocation /\ allocation'[d].mnt = allocation[d].mnt
                 \/ d \in msg.devs /\ allocation'[d].mnt = msg.mnt
      BY <2>4 DEF RecordAllocation, Recorded
    <3> QED
      BY <2>1, <2>2, <3>1, <3>2 DEF Covered
  <2>5. CASE UNCHANGED allocation /\ (Deciding' => Deciding /\ msg' = msg)
    BY <2>1, <2>2, <2>5 DEF Covered
  <2>6. ASSUME NEW p \in Paths, ContainerStarts(p) \/ PodEnds(p)
        PROVE  UNCHANGED allocation /\ (Deciding' => Deciding /\ msg' = msg)
    BY <2>6 DEF ContainerStarts, PodEnds, Deciding, runVars
  <2>7. ASSUME NEW s, NEW p, NEW m, Allocate(s, p, m) \/ BootNotify(m)
        PROVE  UNCHANGED allocation /\ (Deciding' => Deciding /\ msg' = msg)
    BY <2>7 DEF Allocate, BootNotify, Deciding, runVars
  <2> QED
    BY <1>3, <2>3, <2>4, <2>5, <2>6, <2>7, AnnounceFrame DEF Quiet
<1> QED
  BY <1>1, <1>2, <1>3
-----------------------------------------------------------------------------
Safe == TypeInv /\ JobInv /\ GrantInv /\ OnceInv /\ RecordedIsHidden /\ CoverInv

LEMMA SafeInit == Init => Safe
<1> SUFFICES ASSUME Init PROVE Safe
  OBVIOUS
<1>1. /\ pc = "select" /\ allocatedCh = <<>> /\ bootAlloc = {} /\ bootFree = {}
      /\ dropping = {} /\ boot = "notify" /\ DOMAIN allocation = {}
  BY DEF Init
<1>2. JobInv /\ GrantInv /\ OnceInv
  BY <1>1 DEF JobInv, GrantInv, OnceInv, Deciding, Notifying
<1>3. RecordedIsHidden /\ CoverInv
  BY <1>1 DEF RecordedIsHidden, CoverInv, NoZombieRecord, Deciding
<1> QED
  BY <1>2, <1>3, TypeInvInit DEF Safe

LEMMA SafeStep == Safe /\ [Next]_vars => Safe'
<1> SUFFICES ASSUME Safe, [Next]_vars PROVE Safe'
  OBVIOUS
<1>1. TypeInv' /\ JobInv'
  BY TypeInvStep, JobStep DEF Safe
<1>2. GrantInv' /\ OnceInv'
  BY GrantStep, OnceStep DEF Safe
<1>3. RecordedIsHidden' /\ CoverInv'
  BY HiddenStep, CoverStep DEF Safe
<1> QED
  BY <1>1, <1>2, <1>3 DEF Safe

(* However allocations, deallocations, stream failures and restarts        *)
(* interleave, a device recorded for one resource is hidden by every other *)
(* pool that has it, from the moment notify() has passed that pool.        *)
THEOREM AllocatedDevicesAreHidden == Spec => []RecordedIsHidden
<1>1. Safe => RecordedIsHidden
  BY DEF Safe
<1> QED
  BY SafeInit, SafeStep, <1>1, PTL DEF Spec

(* handleAllocated never records a grant whose clean-up has already been   *)
(* consumed: a record without a directory has its deallocation coming.     *)
THEOREM RecordsAreReleased == Spec => []NoZombieRecord
<1>1. Safe => NoZombieRecord
  BY DEF Safe, CoverInv
<1> QED
  BY SafeInit, SafeStep, <1>1, PTL DEF Spec
=============================================================================
