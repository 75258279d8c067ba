------------------------- MODULE DevicePluginPaced -------------------------
(***************************************************************************)
(* Proofs of what DevicePlugin does in an orderly environment: that no     *)
(* device is held by two pods, that nothing is hidden without a reason,    *)
(* that the kubelet's lists are up to date, and that no claim is overtaken *)
(* by the reservation it clears. Each theorem names the conditions it      *)
(* needs; the README shows what fails without them.                        *)
(***************************************************************************)
EXTENDS DevicePluginProofs

USE DEF Servers

Live(p) == pod[p] \in {"created", "mounted"}

(* The allocation message of p is queued, or Run is handling it.           *)
InHand(p) ==
    \/ \E i \in 1..Len(allocatedCh) : allocatedCh[i].mnt = p
    \/ Handling /\ msg.mnt = p

(* No pod has been allocated to yet.                                       *)
Untouched == \A p \in Paths : pod[p] = "none"

(* Without a restart nothing is announced before the first Allocate, and   *)
(* the paced kubelet calls it when every server has been started: no       *)
(* server is informed between its first list and serverStarted.            *)
StartInv ==
    /\ bootAlloc = {} /\ bootFree = {}
    /\ boot # "serving" => Untouched
    /\ Untouched =>
          /\ pc = "select"
          /\ allocatedCh = <<>> /\ deallocatedCh = <<>> /\ mountedCh = <<>>
          /\ dirs = {} /\ memo = {} /\ dropping = {} /\ DOMAIN reserved = {}
    /\ ~Untouched => \A s \in Servers : started[s]
    /\ \A s \in Servers : listener[s] \notin {"none", "initial"} => started[s]

(* A list that is about to be sent is still the pool's, unless the signal  *)
(* for the next one is already pending.                                    *)
SnapshotInv ==
    \A s \in Servers :
        listener[s] \in {"initial", "sending"} /\ ~Processing(s) => snapshot[s] \in Advertisable(s)

(* A pod that lives, or has ended and left something behind: a memo entry, *)
(* a reservation or an allocation message.                                 *)
Active(p) ==
    \/ Live(p)
    \/ Ended(p) /\ (p \in memo \cup DOMAIN reserved \cup dropping \/ InHand(p))

(* The devices of p are nobody else's, and not recorded for another        *)
(* resource.                                                               *)
Consistent(p) ==
    /\ \A q \in Paths : Active(q) /\ q # p => grant[p].devs \cap grant[q].devs = {}
    /\ \A d \in grant[p].devs \cap DOMAIN allocation : allocation[d].pool = grant[p].pool

(* A message of Allocate tells the truth about its grant.                  *)
Truthful(m) ==
    /\ pod[m.mnt] # "none"
    /\ m.devs = grant[m.mnt].devs /\ m.devs # {}
    /\ m.pool = grant[m.mnt].pool
    /\ m.from = "allocate"

TruthInv ==
    /\ \A i \in 1..Len(allocatedCh) : Truthful(allocatedCh[i])
    /\ Handling => Truthful(msg)
    /\ \A p \in memo \cup DOMAIN reserved \cup dropping : pod[p] # "none"
    /\ \A p \in dropping : Ended(p)
    /\ \A p \in DOMAIN reserved : reserved[p] = "old" => Ended(p)
    /\ \A p \in Paths : Live(p) => p \in dirs

(* Every pod that counts is consistent, and so is every pod a queued       *)
(* deallocation is about.                                                  *)
OwnInv ==
    /\ \A p \in Paths : Active(p) => Consistent(p)
    /\ \A i \in 1..Len(deallocatedCh) :
          \E p \in Paths : Ended(p) /\ deallocatedCh[i] = grant[p] /\ Consistent(p)

(* Run is going to record the devices of p.                                *)
ToBeRecorded(p) ==
    \/ \E i \in 1..Len(allocatedCh) : allocatedCh[i].mnt = p
    \/ Deciding /\ msg.mnt = p

IsRecorded(p) ==
    \A d \in grant[p].devs :
        d \in DOMAIN allocation /\ allocation[d] = [pool |-> grant[p].pool, mnt |-> p]

(* The devices of a live pod are recorded, or about to be.                 *)
LiveInv == \A p \in Paths : Live(p) => ToBeRecorded(p) \/ IsRecorded(p)

(* The server has been passed by the notify() in progress.                 *)
Passed(s) == s < next \/ (pc = "signal" /\ s = next)

(* What the pools' maps say of the devices that notify() releases. No      *)
(* conflict is ever released, and the self map holds what is recorded for  *)
(* the resource itself, so a release finds the map it has to clear.        *)
ReleaseInv ==
    /\ pc = "conflicts" => conflicts = {}
    /\ pc \in {"notify", "signal"} => resume # "conflicts"
    /\ \A s \in Servers : other[s] \cup self[s] \subseteq PoolDevices[s]
    /\ \A s \in Servers \ TopologyAware : self[s] = {}
    /\ \A s \in Servers : \A d \in self[s] :
          \/ d \in DOMAIN allocation /\ allocation[d].pool = s
          \/ Notifying("select") /\ d \in job.devs /\ s = job.pool
    /\ Notifying("select") =>
          /\ job.pool \in Servers
          /\ job.devs \cap other[job.pool] = {}
          /\ \A s \in Servers : Passed(s) => job.devs \cap (other[s] \cup self[s]) = {}

(* What a claim needs: Allocate answers only after its message was taken,  *)
(* so the claim of its container is queued behind it.                      *)
ClaimInv ==
    /\ bootAlloc = {}
    /\ pc # "claim" => claiming = NoPath
    /\ \A i \in 1..Len(allocatedCh) : allocatedCh[i].mnt = call
    /\ call \in Paths => pod[call] = "created"
    /\ \A p \in memo : pod[p] \notin {"none", "created"}
    /\ \A p \in Paths :
          /\ p \in DOMAIN reserved \/ (Handling /\ msg.mnt = p)
          /\ pod[p] = "mounted" /\ p \in memo
          => ClaimOnItsWay(p)
-----------------------------------------------------------------------------
(* With no restart to allow, the process never restarts.                   *)
LEMMA NoRestart == TypeInv /\ MaxRestarts = 0 => ~Restart
  BY DEF TypeInv, TypeOK, Restart

LEMMA StartStep ==
    ASSUME TypeInv, StartInv, Paced, MaxRestarts = 0, [Next]_vars
    PROVE  StartInv'
<1> USE DEF StartInv, Untouched, chans, infoVars, runVars, cleanVars, poolVars, srvVars,
        hostVars, bootVars, podVars, bounds
<1>0. /\ cleanTodo \cup cleanKept \subseteq DOMAIN reserved
      /\ started \in [Servers -> BOOLEAN]
      /\ pod \in [Paths -> {"none", "created", "mounted", "exited", "gone"}]
      /\ listener \in [Servers -> {"none", "initial", "waiting", "update", "sending"}]
  BY DEF TypeInv, TypeOK
<1>1. CASE RunNext
  <2>1. ~Untouched /\ UNCHANGED <<started, boot, pod, bootAlloc, bootFree>>
    BY <1>1 DEF RunNext, RecvAllocated, RecvDeallocated, RecvMounted, ReleaseConflict,
         RecordAllocation, Reserve, ClaimMountedPath, NotifySkip, NotifyServer, UpdateSignal,
         NotifyDone
  <2>2. \A s \in Servers : started[s]
    BY <2>1
  <2> QED
    BY <2>1, <2>2
<1>2. CASE ServerNext
  <2>1. UNCHANGED <<boot, pod, bootAlloc, bootFree, pc, chans, dirs, memo, dropping, reserved>>
    BY <1>2 DEF ServerNext, ListAndWatch, ComputeUpdate, Send, SendFails
  <2>2. \A s \in Servers : /\ started[s] => started'[s]
                           /\ listener'[s] \notin {"none", "initial"} => started'[s]
    <3>1. ASSUME NEW t \in Servers, ListAndWatch(t) \/ ComputeUpdate(t) \/ SendFails(t)
          PROVE  /\ UNCHANGED started
                 /\ \A s \in Servers : s # t => listener'[s] = listener[s]
                 /\ listener'[t] \notin {"none", "initial"} => listener[t] = "update"
      BY <1>0, <3>1 DEF ListAndWatch, ComputeUpdate, SendFails
    <3>2. ASSUME NEW t \in Servers, Send(t)
          PROVE  /\ \A s \in Servers : s # t => listener'[s] = listener[s] /\ started'[s] = started[s]
                 /\ started'[t]
      BY <1>0, <3>2 DEF Send
    <3> QED
      BY <1>2, <3>1, <3>2 DEF ServerNext
  <2> QED
    BY <2>1, <2>2
<1>3. CASE CleanNext
  <2>1. UNCHANGED <<boot, pod, bootAlloc, bootFree, pc, allocatedCh, mountedCh, dirs, memo,
                    dropping, started, listener>>
    BY <1>3 DEF CleanNext, CleanStart, CleanEnd, CleanDrop, CleanKeep, ForceDeallocate, Expire
  <2>2. Untouched => deallocatedCh' = <<>> /\ DOMAIN reserved' = {}
    BY <1>0, <1>3 DEF CleanNext, CleanStart, CleanEnd, CleanDrop, CleanKeep, ForceDeallocate, Expire
  <2> QED
    BY <2>1, <2>2
<1>4. ASSUME NEW s \in Servers, NEW p \in Paths, NEW devs \in SUBSET Devices,
             Allocate(s, p, devs)
      PROVE  StartInv'
  <2>1. \A t \in Servers : listener[t] = "waiting"
    BY <1>4 DEF Allocate, Quiescent
  <2>2. /\ pod'[p] = "created" /\ boot = "serving"
        /\ UNCHANGED <<boot, bootAlloc, bootFree, started, listener>>
    BY <1>0, <1>4 DEF Allocate
  <2> QED
    BY <2>1, <2>2
<1>5. CASE AllocateReturns \/ AllocateTimesOut
  BY <1>5 DEF AllocateReturns, AllocateTimesOut
<1>6. ASSUME NEW p \in Paths, ContainerStarts(p) \/ PodEnds(p) PROVE StartInv'
  <2>1. ~Untouched /\ pod'[p] # "none"
    BY <1>0, <1>6 DEF ContainerStarts, PodEnds
  <2> QED
    BY <1>6, <2>1 DEF ContainerStarts, PodEnds
<1>7. CASE WatcherNext
  <2>1. ~Untouched /\ UNCHANGED pod
    BY <1>7 DEF WatcherNext, WatcherClaims, WatcherRemoves, WatcherNotifies, Ended
  <2> QED
    BY <1>7, <2>1 DEF WatcherNext, WatcherClaims, WatcherRemoves, WatcherNotifies
<1>8. CASE BootNext
  BY <1>8 DEF BootNext, BootNotify, BootClean, BootFree, BootServe, UnmountedDevices, Unmounted
<1>9. CASE UNCHANGED vars
  BY <1>9 DEF vars
<1> QED
  BY <1>1, <1>2, <1>3, <1>4, <1>5, <1>6, <1>7, <1>8, <1>9, NoRestart DEF Next, KubeletNext

(* The lists depend on the maps of the server's own pool.                  *)
LEMMA ListsStep ==
    ASSUME TypeInv, StartInv, SnapshotInv, NoLostUpdate, MaxRestarts = 0, [Next]_vars
    PROVE  SnapshotInv' /\ NoLostUpdate'
<1> USE DEF SnapshotInv, NoLostUpdate, Processing, chans, infoVars, runVars, cleanVars, poolVars,
        srvVars, hostVars
<1>0. /\ listener \in [Servers -> {"none", "initial", "waiting", "update", "sending"}]
      /\ DOMAIN snapshot = Servers /\ DOMAIN view = Servers
      /\ DOMAIN other = Servers /\ DOMAIN self = Servers
      /\ next \in 1..(NumServers + 1)
  BY DEF TypeInv, TypeOK
<1>1. ASSUME NEW s \in Servers, other'[s] = other[s], self'[s] = self[s]
      PROVE  Advertisable(s)' = Advertisable(s)
  BY <1>1 DEF Advertisable
<1>2. CASE UNCHANGED <<listener, snapshot, view, poolVars>> /\ pc # "signal" /\ pc' # "signal"
  BY <1>1, <1>2
<1>3. CASE UNCHANGED <<listener, snapshot, view, poolVars, pc, next>>
  BY <1>1, <1>3
<1>4. CASE NotifyServer
  <2>1. pc = "notify" /\ next \in Servers /\ UNCHANGED <<listener, snapshot, view>>
    BY <1>4 DEF NotifyServer
  <2>2. started[next]
    BY <2>1 DEF StartInv
  <2>3. ASSUME NEW s \in Servers, ~Processing(s)'
        PROVE  other'[s] = other[s] /\ self'[s] = self[s]
    <3>1. CASE s = next
      BY <1>4, <2>2, <2>3, <3>1 DEF NotifyServer, InformedBySharedInfo, Changed
    <3>2. CASE s # next
      BY <1>0, <1>4, <3>2 DEF NotifyServer, InformedBySharedInfo, Changed
    <3> QED
      BY <3>1, <3>2
  <2> QED
    BY <1>1, <2>1, <2>3
<1>5. CASE UpdateSignal
  <2>1. /\ UNCHANGED <<snapshot, view, poolVars>> /\ pc = "signal" /\ pc' = "notify"
        /\ listener' = [listener EXCEPT ![next] = "update"]
    BY <1>5 DEF UpdateSignal
  <2> QED
    BY <1>0, <1>1, <2>1
<1>6. ASSUME NEW s \in Servers, ListAndWatch(s) \/ ComputeUpdate(s) \/ Send(s) \/ SendFails(s)
      PROVE  SnapshotInv' /\ NoLostUpdate'
  <2>1. UNCHANGED <<poolVars, pc, next>>
    BY <1>6 DEF ListAndWatch, ComputeUpdate, Send, SendFails
  <2>2. ASSUME NEW t \in Servers, t # s
        PROVE  UNCHANGED <<listener[t], snapshot[t], view[t]>>
    BY <1>0, <1>6, <2>2 DEF ListAndWatch, ComputeUpdate, Send, SendFails
  <2>3. /\ listener'[s] \in {"initial", "sending"} => snapshot'[s] \in Advertisable(s)
        /\ listener'[s] = "waiting" =>
               listener[s] \in {"initial", "sending"} /\ view'[s] = snapshot[s]
    BY <1>0, <1>6 DEF ListAndWatch, ComputeUpdate, Send, SendFails
  <2> QED
    BY <1>1, <2>1, <2>2, <2>3
<1>7. CleanNext \/ KubeletNext => UNCHANGED <<listener, snapshot, view, poolVars, pc, next>>
  BY DEF CleanNext, CleanStart, CleanEnd, CleanDrop, CleanKeep, ForceDeallocate, Expire,
     KubeletNext, Allocate, AllocateReturns, AllocateTimesOut, ContainerStarts, PodEnds
<1>8. WatcherNext \/ BootNext => UNCHANGED <<listener, snapshot, view, poolVars, pc, next>>
  BY DEF WatcherNext, WatcherClaims, WatcherRemoves, WatcherNotifies,
     BootNext, BootNotify, BootClean, BootFree, BootServe
<1>9. CASE RecvAllocated \/ RecvDeallocated \/ RecvMounted \/ ReleaseConflict
              \/ RecordAllocation \/ Reserve \/ ClaimMountedPath
  BY <1>2, <1>9 DEF RecvAllocated, RecvDeallocated, RecvMounted, ReleaseConflict,
     RecordAllocation, Reserve, ClaimMountedPath
<1>10. CASE NotifySkip \/ NotifyDone
  <2>1. resume \in {"select", "conflicts", "reserve"}
    BY DEF TypeInv, TypeOK
  <2> QED
    BY <1>2, <1>10, <2>1 DEF NotifySkip, NotifyDone
<1>11. CASE UNCHANGED vars
  BY <1>3, <1>11 DEF vars
<1> QED
  BY <1>3, <1>4, <1>5, <1>6, <1>7, <1>8, <1>9, <1>10, <1>11, NoRestart DEF Next, RunNext, ServerNext

(* If the kubelet allocates when the plugin is at rest and the plugin does *)
(* not restart, every ListAndWatch loop that has nothing to do has sent    *)
(* the list its pool stands for, whatever sends, requests, configuration   *)
(* writes or waits fail.                                                   *)
THEOREM ListsAreUpToDate ==
    ASSUME Paced, MaxRestarts = 0
    PROVE  Spec => []NoLostUpdate
<1> DEFINE Inv == TypeInv /\ StartInv /\ SnapshotInv /\ NoLostUpdate
<1>1. Init => Inv
  BY TypeInvInit DEF Init, StartInv, SnapshotInv, NoLostUpdate, Untouched
<1>2. Inv /\ [Next]_vars => Inv'
  BY TypeInvStep, StartStep, ListsStep
<1>3. Inv => NoLostUpdate
  OBVIOUS
<1> QED
  BY <1>1, <1>2, <1>3, PTL DEF Spec
-----------------------------------------------------------------------------
(* A claim does not get lost on the way to claimMountedPaths.              *)
LEMMA ClaimStep ==
    ASSUME TypeInv, ClaimInv, MaxRestarts = 0, MaxTimeouts = 0, [Next]_vars
    PROVE  ClaimInv'
<1> USE DEF ClaimInv, Handling, chans, infoVars, runVars, cleanVars, poolVars, srvVars,
        hostVars, bootVars, podVars, bounds
<1>0. /\ pod \in [Paths -> {"none", "created", "mounted", "exited", "gone"}]
      /\ allocatedCh \in Seq(AllocationInfo) /\ mountedCh \in Seq(Paths)
      /\ memo \subseteq Paths /\ DOMAIN reserved \subseteq Paths
      /\ cleanTodo \cup cleanKept \subseteq DOMAIN reserved
      /\ NoPath \notin Paths
      /\ timeouts \in Nat
      /\ resume \in {"select", "conflicts", "reserve"}
  BY ConstantsAssumption DEF TypeInv, TypeOK
<1>a. CASE /\ UNCHANGED <<allocatedCh, mountedCh, claiming, bootAlloc, pod, memo, call>>
           /\ DOMAIN reserved' \subseteq DOMAIN reserved
           /\ Handling' => Handling /\ msg' = msg
           /\ pc # "claim" \/ pc' = "claim"
  <2>1. \A p : ClaimOnItsWay(p)' <=> ClaimOnItsWay(p)
    BY <1>a DEF ClaimOnItsWay
  <2> HIDE DEF Handling
  <2> QED
    BY <1>a, <2>1
<1>1. CASE RecvAllocated
  <2>1. /\ Head(allocatedCh) = allocatedCh[1] /\ 1 \in 1..Len(allocatedCh)
        /\ \A i \in 1..Len(allocatedCh') : i + 1 \in 1..Len(allocatedCh)
                                         /\ allocatedCh'[i] = allocatedCh[i + 1]
    BY <1>0, <1>1 DEF RecvAllocated
  <2>2. /\ pc = "select" /\ UNCHANGED <<mountedCh, claiming, bootAlloc, pod, memo, call, reserved>>
        /\ Handling' => msg'.mnt = call
    BY <1>1, <2>1 DEF RecvAllocated
  <2>3. \A p : ClaimOnItsWay(p)' <=> ClaimOnItsWay(p)
    BY <2>2 DEF ClaimOnItsWay
  <2>4. \A i \in 1..Len(allocatedCh') : allocatedCh'[i].mnt = call'
    BY <2>1, <2>2
  <2>5. ASSUME NEW p \in Paths,
               p \in DOMAIN reserved' \/ (Handling' /\ msg'.mnt = p),
               pod'[p] = "mounted", p \in memo'
        PROVE  ClaimOnItsWay(p)'
    <3>1. p # call
      BY <2>2, <2>5
    <3>2. p \in DOMAIN reserved
      BY <2>2, <2>5, <3>1
    <3> QED
      BY <2>2, <2>3, <2>5, <3>2
  <2> HIDE DEF Handling
  <2> QED
    BY <2>2, <2>4, <2>5
<1>2. CASE RecvMounted
  <2>1. /\ pc = "select" /\ pc' = "claim"
        /\ UNCHANGED <<allocatedCh, bootAlloc, pod, memo, call, reserved>>
    BY <1>2 DEF RecvMounted
  <2>2. ASSUME NEW p, \E i \in DOMAIN mountedCh : mountedCh[i] = p
        PROVE  ClaimOnItsWay(p)'
    <3>1. PICK i \in DOMAIN mountedCh : mountedCh[i] = p
      BY <2>2
    <3>2. CASE i = 1
      BY <1>0, <1>2, <3>1, <3>2 DEF RecvMounted, ClaimOnItsWay
    <3>3. CASE i # 1
      <4>1. i - 1 \in DOMAIN mountedCh' /\ mountedCh'[i - 1] = p
        BY <1>0, <1>2, <3>1, <3>3 DEF RecvMounted
      <4> QED
        BY <4>1 DEF ClaimOnItsWay
    <3> QED
      BY <3>2, <3>3
  <2>3. ASSUME NEW p \in Paths PROVE claiming # p
    BY <1>2, <2>1, <1>0 DEF RecvMounted
  <2> QED
    BY <2>1, <2>2, <2>3 DEF ClaimOnItsWay
<1>3. CASE Reserve
  <2>1. pc = "reserve" /\ pc' = "select" /\ DOMAIN reserved' = DOMAIN reserved \cup {msg.mnt}
        /\ UNCHANGED <<allocatedCh, mountedCh, claiming, bootAlloc, pod, memo, call>>
    BY <1>3 DEF Reserve
  <2>2. \A p : ClaimOnItsWay(p)' <=> ClaimOnItsWay(p)
    BY <2>1 DEF ClaimOnItsWay
  <2> QED
    BY <2>1, <2>2
<1>4. CASE ClaimMountedPath
  <2>1. pc = "claim" /\ pc' = "select" /\ DOMAIN reserved' = DOMAIN reserved \ {claiming}
        /\ claiming' = NoPath
        /\ UNCHANGED <<allocatedCh, mountedCh, bootAlloc, pod, memo, call>>
    BY <1>4 DEF ClaimMountedPath
  <2>2. \A p : ClaimOnItsWay(p) /\ p # claiming => ClaimOnItsWay(p)'
    BY <2>1 DEF ClaimOnItsWay
  <2> QED
    BY <2>1, <2>2
<1>5. CASE RecvDeallocated \/ ReleaseConflict \/ RecordAllocation \/ NotifySkip
              \/ NotifyServer \/ UpdateSignal \/ NotifyDone
  BY <1>0, <1>5, <1>a DEF RecvDeallocated, ReleaseConflict, RecordAllocation, NotifySkip,
     NotifyServer, InformedBySharedInfo, UpdateSignal, NotifyDone
<1>6. CASE ServerNext
  BY <1>6, <1>a DEF ServerNext, ListAndWatch, ComputeUpdate, Send, SendFails
<1>7. CASE CleanNext
  BY <1>0, <1>7, <1>a DEF CleanNext, CleanStart, CleanEnd, CleanDrop, CleanKeep, ForceDeallocate, Expire
<1>8. ASSUME NEW s \in Servers, NEW p \in Paths, NEW devs \in SUBSET Devices,
             Allocate(s, p, devs)
      PROVE  ClaimInv'
  <2>1. /\ call = NoPath /\ call' = p
        /\ pod[p] = "none" /\ pod' = [pod EXCEPT ![p] = "created"]
        /\ allocatedCh' = Append(allocatedCh,
               [devs |-> devs, mnt |-> p, pool |-> s, from |-> "allocate"])
        /\ UNCHANGED <<mountedCh, claiming, bootAlloc, memo, reserved, pc, resume, msg>>
    BY <1>8 DEF Allocate
  <2>2. \A i \in 1..Len(allocatedCh) : FALSE
    <3>1. \A i \in 1..Len(allocatedCh) : allocatedCh[i].mnt \in Paths
      BY Announced
    <3> QED
      BY <1>0, <2>1, <3>1
  <2>3. \A i \in 1..Len(allocatedCh') : allocatedCh'[i].mnt = p
    BY <1>0, <2>1, <2>2
  <2>4. \A q : ClaimOnItsWay(q)' <=> ClaimOnItsWay(q)
    BY <2>1 DEF ClaimOnItsWay
  <2> QED
    BY <1>0, <2>1, <2>3, <2>4
<1>9. CASE AllocateReturns
  <2>1. /\ allocatedCh = <<>>
        /\ call' = NoPath
        /\ UNCHANGED <<allocatedCh, mountedCh, claiming, bootAlloc, pod, memo, reserved, pc, resume, msg>>
    BY <1>9 DEF AllocateReturns, WaitCondition
  <2>2. \A q : ClaimOnItsWay(q)' <=> ClaimOnItsWay(q)
    BY <2>1 DEF ClaimOnItsWay
  <2> QED
    BY <1>0, <2>1, <2>2
<1>10. ASSUME NEW p \in Paths, ContainerStarts(p) \/ PodEnds(p) PROVE ClaimInv'
  <2>1. /\ p # call
        /\ UNCHANGED <<allocatedCh, mountedCh, claiming, bootAlloc, memo, call, reserved, pc,
                       resume, msg>>
        /\ \A q \in Paths : q # p => pod'[q] = pod[q]
        /\ \/ pod[p] = "created" /\ pod'[p] = "mounted"
           \/ pod[p] # "none" /\ pod'[p] \in {"exited", "gone"}
    BY <1>0, <1>10 DEF ContainerStarts, PodEnds
  <2>2. \A q : ClaimOnItsWay(q)' <=> ClaimOnItsWay(q)
    BY <2>1 DEF ClaimOnItsWay
  <2> QED
    BY <1>0, <2>1, <2>2
<1>11. ASSUME NEW p \in Paths, WatcherClaims(p) PROVE ClaimInv'
  <2>1. /\ pod[p] = "mounted" /\ memo' = memo \cup {p}
        /\ mountedCh' = Append(mountedCh, p)
        /\ UNCHANGED <<allocatedCh, claiming, bootAlloc, pod, call, reserved, pc, resume, msg>>
    BY <1>11 DEF WatcherClaims
  <2>2. ClaimOnItsWay(p)' /\ \A q : ClaimOnItsWay(q) => ClaimOnItsWay(q)'
    <3>1. Len(mountedCh) + 1 \in DOMAIN mountedCh' /\ mountedCh'[Len(mountedCh) + 1] = p
      BY <1>0, <2>1
    <3>2. \A i \in DOMAIN mountedCh : i \in DOMAIN mountedCh' /\ mountedCh'[i] = mountedCh[i]
      BY <1>0, <2>1
    <3> QED
      BY <2>1, <3>1, <3>2 DEF ClaimOnItsWay
  <2> QED
    BY <1>0, <2>1, <2>2
<1>12. ASSUME NEW p \in Paths, WatcherRemoves(p) \/ WatcherNotifies(p) PROVE ClaimInv'
  <2>1. /\ memo' \subseteq memo
        /\ UNCHANGED <<allocatedCh, mountedCh, claiming, bootAlloc, pod, call, reserved, pc,
                       resume, msg>>
    BY <1>12 DEF WatcherRemoves, WatcherNotifies
  <2>2. \A q : ClaimOnItsWay(q)' <=> ClaimOnItsWay(q)
    BY <2>1 DEF ClaimOnItsWay
  <2> QED
    BY <2>1, <2>2
<1>13. CASE BootNext
  BY <1>13, <1>a DEF BootNext, BootNotify, BootClean, BootFree, BootServe
<1>14. CASE UNCHANGED vars
  BY <1>14, <1>a DEF vars
<1>15. ~AllocateTimesOut
  BY <1>0 DEF AllocateTimesOut
<1> QED
  BY <1>1, <1>2, <1>3, <1>4, <1>5, <1>6, <1>7, <1>8, <1>9, <1>10, <1>11, <1>12, <1>13, <1>14,
     <1>15, NoRestart DEF Next, RunNext, KubeletNext, WatcherNext

LEMMA ClaimInitially == Init => ClaimInv
  BY ConstantsAssumption DEF Init, ClaimInv, Handling

(* If the plugin does not restart and no wait in Allocate reaches its      *)
(* deadline, the claim of a container the PodWatcher has seen is never     *)
(* overtaken by its reservation, however allocations overlap and however   *)
(* late containers start.                                                  *)
THEOREM ClaimsAreNotOvertaken ==
    ASSUME MaxRestarts = 0, MaxTimeouts = 0
    PROVE  Spec => []ReservedIsUnclaimed
<1>1. TypeInv /\ ClaimInv => ReservedIsUnclaimed
  <2>1. TypeInv => DOMAIN reserved \subseteq Paths
    BY DEF TypeInv, TypeOK
  <2> QED
    BY <2>1 DEF ClaimInv, ReservedIsUnclaimed
<1>2. TypeInv /\ ClaimInv /\ [Next]_vars => (TypeInv /\ ClaimInv)'
  BY TypeInvStep, ClaimStep
<1> QED
  BY TypeInvInit, ClaimInitially, <1>1, <1>2, PTL DEF Spec

(* Under the same conditions periodicClean never frees the devices of a    *)
(* container the PodWatcher has claimed.                                   *)
THEOREM CleanerSparesClaimed ==
    ASSUME MaxRestarts = 0, MaxTimeouts = 0
    PROVE  Spec => ForcesOnlyUnclaimed
<1>1. TypeInv /\ ReservedIsUnclaimed /\ [Next]_vars
          => [\A p \in Paths : ForceDeallocate(p) =>
                ~(pod[p] = "mounted" /\ p \in memo /\ ~ClaimOnItsWay(p))]_vars
  <2>1. TypeInv => \A p \in Paths : ForceDeallocate(p) => p \in DOMAIN reserved
    BY DEF TypeInv, ForceDeallocate
  <2> QED
    BY <2>1 DEF ReservedIsUnclaimed
<1> QED
  BY TypeInvInit, TypeInvStep, ClaimsAreNotOvertaken, <1>1, PTL DEF Spec, ForcesOnlyUnclaimed
-----------------------------------------------------------------------------
(* What the proofs below need of the types.                                *)
LEMMA PodTypes ==
    ASSUME TypeInv
    PROVE  /\ pod \in [Paths -> {"none", "created", "mounted", "exited", "gone"}]
           /\ DOMAIN grant = Paths
           /\ allocatedCh \in Seq(AllocationInfo)
           /\ \A i \in 1..Len(allocatedCh) : allocatedCh[i].mnt \in Paths
           /\ deallocatedCh \in Seq(DeallocationInfo)
           /\ Handling => msg.mnt \in Paths
           /\ memo \cup DOMAIN reserved \cup dropping \subseteq Paths
           /\ cleanTodo \cup cleanKept \subseteq DOMAIN reserved
           /\ resume \in {"select", "conflicts", "reserve"}
           /\ DOMAIN allocation \subseteq Devices
<1>1. /\ Handling => msg \in AllocationInfo
      /\ cleanTodo \cup cleanKept \subseteq DOMAIN reserved
      /\ TypeOK
  BY DEF TypeInv
<1>2. Handling => msg.mnt \in Paths
  BY <1>1 DEF AllocationInfo
<1> QED
  BY <1>1, <1>2, Announced DEF TypeOK

(* Steps other than Allocate keep every grant, end no pod's end, and leave *)
(* the queued messages and the one in hand as they are or let them go on.  *)
LEMMA GrantFrame ==
    ASSUME TypeInv, StartInv, MaxRestarts = 0, [Next]_vars,
           ~\E s \in Servers, p \in Paths, devs \in SUBSET Devices : Allocate(s, p, devs)
    PROVE  /\ grant' = grant
           /\ \A p \in Paths : /\ pod[p] = "none" <=> pod'[p] = "none"
                               /\ Ended(p) => Ended(p)'
                               /\ Live(p)' => Live(p)
           /\ \A i \in 1..Len(allocatedCh') :
                  \E j \in 1..Len(allocatedCh) : allocatedCh'[i] = allocatedCh[j]
           /\ Handling' => \/ Handling /\ msg' = msg
                           \/ \E j \in 1..Len(allocatedCh) : msg' = allocatedCh[j]
<1> DEFINE Goal == /\ grant' = grant
                   /\ \A p \in Paths : /\ pod[p] = "none" <=> pod'[p] = "none"
                                       /\ Ended(p) => Ended(p)'
                                       /\ Live(p)' => Live(p)
                   /\ \A i \in 1..Len(allocatedCh') :
                          \E j \in 1..Len(allocatedCh) : allocatedCh'[i] = allocatedCh[j]
                   /\ Handling' => \/ Handling /\ msg' = msg
                                   \/ \E j \in 1..Len(allocatedCh) : msg' = allocatedCh[j]
<1> USE DEF Ended, Live, Handling, chans, infoVars, runVars, cleanVars, poolVars, srvVars,
        hostVars, bootVars, podVars
<1>1. CASE UNCHANGED <<grant, pod, allocatedCh>> /\ (Handling' => Handling /\ msg' = msg)
  <2> HIDE DEF Handling
  <2> QED
    BY <1>1
<1>2. CASE RecvAllocated
  <2>1. /\ Head(allocatedCh) = allocatedCh[1] /\ 1 \in 1..Len(allocatedCh)
        /\ \A i \in 1..Len(allocatedCh') : i + 1 \in 1..Len(allocatedCh)
                                         /\ allocatedCh'[i] = allocatedCh[i + 1]
    BY <1>2, PodTypes DEF RecvAllocated
  <2>2. UNCHANGED <<grant, pod>> /\ (Handling' => msg' = Head(allocatedCh))
    BY <1>2 DEF RecvAllocated
  <2> HIDE DEF Handling
  <2> QED
    BY <2>1, <2>2
<1>3. ASSUME NEW p \in Paths, ContainerStarts(p) \/ PodEnds(p) PROVE Goal
  <2>1. UNCHANGED <<grant, allocatedCh, pc, resume, msg>>
    BY <1>3 DEF ContainerStarts, PodEnds
  <2>2. /\ \A q \in Paths : q # p => pod'[q] = pod[q]
        /\ \/ pod[p] = "created" /\ pod'[p] = "mounted"
           \/ pod[p] \in {"created", "mounted"} /\ pod'[p] \in {"exited", "gone"}
    BY <1>3, PodTypes DEF ContainerStarts, PodEnds
  <2> QED
    BY <2>1, <2>2
<1>4. CASE RecvDeallocated \/ RecvMounted \/ ReleaseConflict \/ RecordAllocation
              \/ Reserve \/ ClaimMountedPath \/ NotifySkip \/ NotifyServer \/ UpdateSignal
              \/ NotifyDone
  BY <1>1, <1>4, PodTypes DEF RecvDeallocated, RecvMounted, ReleaseConflict, RecordAllocation,
     Reserve, ClaimMountedPath, NotifySkip, NotifyServer, InformedBySharedInfo, UpdateSignal,
     NotifyDone
<1>5. CASE ServerNext \/ CleanNext
  BY <1>1, <1>5 DEF ServerNext, ListAndWatch, ComputeUpdate, Send, SendFails, CleanNext,
     CleanStart, CleanEnd, CleanDrop, CleanKeep, ForceDeallocate, Expire
<1>6. CASE AllocateReturns \/ AllocateTimesOut \/ WatcherNext
  BY <1>1, <1>6 DEF AllocateReturns, AllocateTimesOut, WatcherNext, WatcherClaims,
     WatcherRemoves, WatcherNotifies
<1>7. CASE BootNext
  BY <1>1, <1>7 DEF BootNext, BootNotify, BootClean, BootFree, BootServe, StartInv
<1>8. CASE UNCHANGED vars
  BY <1>1, <1>8 DEF vars
<1> HIDE DEF Goal
<1>9. Goal
  BY <1>1, <1>2, <1>3, <1>4, <1>5, <1>6, <1>7, <1>8, NoRestart
     DEF Next, RunNext, KubeletNext, Goal
<1> QED
  BY <1>9 DEF Goal

LEMMA TruthStep ==
    ASSUME TypeInv, StartInv, TruthInv, TimelyStart, ~ConfigMayFail, MaxRestarts = 0, [Next]_vars
    PROVE  TruthInv'
<1>1. ASSUME NEW s \in Servers, NEW p \in Paths, NEW devs \in SUBSET Devices,
             Allocate(s, p, devs)
      PROVE  TruthInv'
  <2>1. /\ pod[p] = "none" /\ devs # {}
        /\ pod' = [pod EXCEPT ![p] = "created"]
        /\ grant' = [grant EXCEPT ![p] = [devs |-> devs, pool |-> s]]
        /\ allocatedCh' = Append(allocatedCh,
               [devs |-> devs, mnt |-> p, pool |-> s, from |-> "allocate"])
        /\ dirs' = dirs \cup {p}
        /\ UNCHANGED <<memo, reserved, dropping, msg, pc, resume>>
    BY <1>1 DEF Allocate, infoVars, runVars
  <2>2. ASSUME NEW q \in Paths, pod[q] # "none"
        PROVE  pod'[q] = pod[q] /\ grant'[q] = grant[q]
    BY <2>1, <2>2, PodTypes
  <2>3. pod'[p] = "created" /\ grant'[p] = [devs |-> devs, pool |-> s]
    BY <2>1, PodTypes
  <2>4. ASSUME NEW i \in 1..Len(allocatedCh') PROVE Truthful(allocatedCh[i])'
    <3>1. CASE i \in 1..Len(allocatedCh)
      <4>1. allocatedCh'[i] = allocatedCh[i] /\ allocatedCh[i].mnt \in Paths
        BY <2>1, <3>1, PodTypes
      <4> QED
        BY <2>2, <3>1, <4>1 DEF TruthInv, Truthful
    <3>2. CASE i = Len(allocatedCh) + 1
      <4>1. allocatedCh'[i] = [devs |-> devs, mnt |-> p, pool |-> s, from |-> "allocate"]
        BY <2>1, <3>2, PodTypes
      <4> QED
        BY <2>1, <2>3, <4>1 DEF Truthful
    <3> QED
      BY <2>1, <3>1, <3>2, PodTypes
  <2>5. Handling' => Truthful(msg)'
    <3>1. Handling' <=> Handling
      BY <2>1 DEF Handling
    <3> QED
      BY <2>1, <2>2, <3>1, PodTypes DEF TruthInv, Truthful
  <2>6. \A q \in Paths : Live(q)' => q \in dirs'
    BY <2>1, PodTypes DEF TruthInv, Live
  <2>7. /\ \A q \in memo' \cup DOMAIN reserved' \cup dropping' : pod'[q] # "none"
        /\ \A q \in dropping' : Ended(q)'
        /\ \A q \in DOMAIN reserved' : reserved'[q] = "old" => Ended(q)'
    BY <2>1, <2>2, PodTypes DEF TruthInv, Ended
  <2> QED
    BY <2>4, <2>5, <2>6, <2>7 DEF TruthInv
<1>2. CASE ~\E s \in Servers, p \in Paths, devs \in SUBSET Devices : Allocate(s, p, devs)
  <2>1. /\ grant' = grant
        /\ \A p \in Paths : /\ pod[p] = "none" <=> pod'[p] = "none"
                            /\ Ended(p) => Ended(p)'
                            /\ Live(p)' => Live(p)
        /\ \A i \in 1..Len(allocatedCh') :
               \E j \in 1..Len(allocatedCh) : allocatedCh'[i] = allocatedCh[j]
        /\ Handling' => \/ Handling /\ msg' = msg
                        \/ \E j \in 1..Len(allocatedCh) : msg' = allocatedCh[j]
    BY <1>2, GrantFrame
  <2>2. ASSUME NEW m, m.mnt \in Paths, Truthful(m) PROVE \A n : n = m =>
            /\ pod'[n.mnt] # "none"
            /\ n.devs = grant'[n.mnt].devs /\ n.devs # {}
            /\ n.pool = grant'[n.mnt].pool
            /\ n.from = "allocate"
    BY <2>1, <2>2 DEF Truthful
  <2>3. \A i \in 1..Len(allocatedCh') : Truthful(allocatedCh[i])'
    BY <2>1, <2>2, PodTypes DEF TruthInv, Truthful
  <2>4. Handling' => Truthful(msg)'
    BY <2>1, <2>2, PodTypes DEF TruthInv, Truthful
  <2>5. CASE /\ memo' \subseteq memo /\ DOMAIN reserved' \subseteq DOMAIN reserved
             /\ dropping' \subseteq dropping /\ dirs \subseteq dirs'
             /\ \A p \in DOMAIN reserved' : reserved'[p] = reserved[p]
    BY <2>1, <2>3, <2>4, <2>5, PodTypes DEF TruthInv
  <2> USE DEF infoVars, runVars, cleanVars, poolVars, srvVars, hostVars, bootVars, podVars
  <2>6. CASE Reserve
    <3>1. /\ Handling
          /\ DOMAIN reserved' = DOMAIN reserved \cup {msg.mnt}
          /\ \A p \in DOMAIN reserved' : reserved'[p] = "old" => p \in DOMAIN reserved /\ reserved[p] = "old"
          /\ UNCHANGED <<memo, dropping, dirs>>
      BY <2>6 DEF Reserve, Handling
    <3>2. pod[msg.mnt] # "none" /\ msg.mnt \in Paths
      BY <3>1, PodTypes DEF TruthInv, Truthful
    <3> QED
      BY <2>1, <2>3, <2>4, <3>1, <3>2, PodTypes DEF TruthInv
  <2>7. ASSUME NEW p \in Paths, Expire(p) PROVE TruthInv'
    <3>1. /\ Ended(p)
          /\ reserved' = [reserved EXCEPT ![p] = "old"]
          /\ UNCHANGED <<memo, dropping, dirs>>
      BY <2>7 DEF Expire
    <3>2. \A q \in DOMAIN reserved' : q \in DOMAIN reserved /\ (q # p => reserved'[q] = reserved[q])
      BY <3>1
    <3> QED
      BY <2>1, <2>3, <2>4, <3>1, <3>2, PodTypes DEF TruthInv
  <2>8. ASSUME NEW p \in Paths, WatcherClaims(p) PROVE TruthInv'
    <3>1. pod[p] = "mounted" /\ memo' = memo \cup {p} /\ UNCHANGED <<dropping, dirs, reserved>>
      BY <2>8 DEF WatcherClaims
    <3> QED
      BY <2>1, <2>3, <2>4, <3>1, PodTypes DEF TruthInv
  <2>9. ASSUME NEW p \in Paths, WatcherRemoves(p) PROVE TruthInv'
    <3>1. /\ Ended(p) /\ dropping' = {p} /\ dirs \ {p} \subseteq dirs'
          /\ UNCHANGED <<memo, reserved>>
      BY <2>9 DEF WatcherRemoves
    <3>2. pod'[p] # "none" /\ ~Live(p)
      BY <2>1, <3>1 DEF Ended, Live
    <3> QED
      BY <2>1, <2>3, <2>4, <3>1, <3>2, PodTypes DEF TruthInv
  <2>10. CASE BootClean
    <3>1. Untouched /\ UNCHANGED <<memo, reserved, dropping>>
      BY <2>10 DEF BootClean, StartInv
    <3>2. \A p \in Paths : ~Live(p)
      BY <3>1 DEF Untouched, Live
    <3> QED
      BY <2>1, <2>3, <2>4, <3>1, <3>2, PodTypes DEF TruthInv
  <2>11. CASE RunNext /\ ~Reserve
    BY <2>5, <2>11 DEF RunNext, RecvAllocated, RecvDeallocated, RecvMounted, ReleaseConflict,
       RecordAllocation, ClaimMountedPath, NotifySkip, NotifyServer, UpdateSignal, NotifyDone
  <2>12. CASE ServerNext
    BY <2>5, <2>12 DEF ServerNext, ListAndWatch, ComputeUpdate, Send, SendFails
  <2>13. ASSUME NEW p \in Paths, CleanDrop(p) \/ CleanKeep(p) \/ ForceDeallocate(p)
                                   \/ WatcherNotifies(p) \/ ContainerStarts(p) \/ PodEnds(p)
         PROVE  TruthInv'
    BY <2>5, <2>13 DEF CleanDrop, CleanKeep, ForceDeallocate, WatcherNotifies,
       ContainerStarts, PodEnds
  <2>14. CASE CleanStart \/ CleanEnd \/ AllocateReturns \/ AllocateTimesOut
    BY <2>5, <2>14, PodTypes DEF CleanStart, CleanEnd, AllocateReturns, AllocateTimesOut
  <2>15. CASE BootNext /\ ~BootClean
    BY <2>5, <2>15 DEF BootNext, BootNotify, BootFree, BootServe
  <2>16. CASE UNCHANGED vars
    BY <2>5, <2>16 DEF vars
  <2> QED
    BY <1>2, <2>6, <2>7, <2>8, <2>9, <2>10, <2>11, <2>12, <2>13, <2>14, <2>15, <2>16, NoRestart
       DEF Next, CleanNext, KubeletNext, WatcherNext
<1> QED
  BY <1>1, <1>2
-----------------------------------------------------------------------------
(* A pod becomes active through Allocate only.                             *)
LEMMA ActiveFrame ==
    ASSUME TypeInv, StartInv, TruthInv, MaxRestarts = 0, [Next]_vars,
           ~\E s \in Servers, q \in Paths, devs \in SUBSET Devices : Allocate(s, q, devs),
           NEW p \in Paths, Active(p)'
    PROVE  Active(p)
<1>1. /\ pod[p] = "none" <=> pod'[p] = "none"
      /\ Live(p)' => Live(p)
      /\ InHand(p)' => InHand(p)
  BY GrantFrame DEF InHand
<1>2. SUFFICES ASSUME ~Live(p) PROVE Active(p)
  BY DEF Active
<1>3. Ended(p)
  <2>1. pod'[p] # "none"
    BY DEF Active, Live, Ended
  <2> QED
    BY <1>1, <1>2, <2>1, PodTypes DEF Ended, Live
<1>4. SUFFICES p \in memo \cup DOMAIN reserved \cup dropping \/ InHand(p)
  BY <1>3 DEF Active
<1>5. p \in memo' \cup DOMAIN reserved' \cup dropping' \/ InHand(p)
  BY <1>1, <1>2 DEF Active
<1>6. CASE memo' \subseteq memo /\ DOMAIN reserved' \subseteq DOMAIN reserved /\ dropping' \subseteq dropping
  BY <1>5, <1>6
<1> USE DEF infoVars, runVars, cleanVars, poolVars, srvVars, hostVars, bootVars, podVars
<1>7. CASE Reserve
  <2>1. Handling /\ DOMAIN reserved' = DOMAIN reserved \cup {msg.mnt} /\ UNCHANGED <<memo, dropping>>
    BY <1>7 DEF Reserve, Handling
  <2> QED
    BY <1>5, <2>1 DEF InHand
<1>8. ASSUME NEW q \in Paths, WatcherClaims(q)
      PROVE  p \in memo \cup DOMAIN reserved \cup dropping \/ InHand(p)
  <2>1. pod[q] = "mounted" /\ memo' = memo \cup {q} /\ UNCHANGED <<reserved, dropping>>
    BY <1>8 DEF WatcherClaims
  <2> QED
    BY <1>2, <1>5, <2>1 DEF Live
<1>9. ASSUME NEW q \in Paths, WatcherRemoves(q)
      PROVE  p \in memo \cup DOMAIN reserved \cup dropping \/ InHand(p)
  <2>1. q \in memo /\ dropping' = {q} /\ UNCHANGED <<reserved, memo>>
    BY <1>9 DEF WatcherRemoves
  <2> QED
    BY <1>5, <2>1
<1>10. CASE RunNext /\ ~Reserve
  BY <1>6, <1>10 DEF RunNext, RecvAllocated, RecvDeallocated, RecvMounted, ReleaseConflict,
     RecordAllocation, ClaimMountedPath, NotifySkip, NotifyServer, UpdateSignal, NotifyDone
<1>11. CASE ServerNext
  BY <1>6, <1>11 DEF ServerNext, ListAndWatch, ComputeUpdate, Send, SendFails
<1>12. CASE CleanNext
  BY <1>6, <1>12, PodTypes DEF CleanNext, CleanStart, CleanEnd, CleanDrop, CleanKeep,
     ForceDeallocate, Expire
<1>13. CASE AllocateReturns \/ AllocateTimesOut \/ BootNext
  BY <1>6, <1>13 DEF AllocateReturns, AllocateTimesOut, BootNext, BootNotify, BootClean,
     BootFree, BootServe
<1>14. ASSUME NEW q \in Paths, WatcherNotifies(q) \/ ContainerStarts(q) \/ PodEnds(q)
       PROVE  p \in memo \cup DOMAIN reserved \cup dropping \/ InHand(p)
  BY <1>6, <1>14 DEF WatcherNotifies, ContainerStarts, PodEnds
<1>15. CASE UNCHANGED vars
  BY <1>6, <1>15 DEF vars
<1> QED
  BY <1>7, <1>8, <1>9, <1>10, <1>11, <1>12, <1>13, <1>14, <1>15, NoRestart
     DEF Next, KubeletNext, WatcherNext

(* What a server advertises its pool does not hide.                        *)
LEMMA AdvertisedIsFree ==
    ASSUME NEW s \in Servers, NEW devs \in Advertisable(s)
    PROVE  devs \subseteq PoolDevices[s] \ other[s]
<1> DEFINE D == GetDevices(PoolDevices[s], other[s])
<1>1. D = PoolDevices[s] \ other[s]
  BY DEF GetDevices
<1>2. GetMaxValidPeers(D, self[s], Peers[s]) \subseteq SUBSET D
  <2>1. ASSUME NEW dev \in D PROVE ValidPeers(dev, D, self[s], Peers[s]) \subseteq D
    BY DEF ValidPeers
  <2> HIDE DEF D
  <2> QED
    BY <2>1 DEF GetMaxValidPeers
<1> QED
  BY <1>1, <1>2 DEF Advertisable

(* At rest every pod that counts lives, its devices are recorded, and the  *)
(* kubelet's list of a resource has no device that is recorded for another *)
(* one.                                                                    *)
LEMMA AtRest ==
    ASSUME TypeInv, RecordedIsHidden, NoLostUpdate, LiveInv, Quiescent
    PROVE  /\ \A p \in Paths : Active(p) => Live(p)
           /\ \A p \in Paths : Live(p) => \A d \in grant[p].devs :
                 d \in DOMAIN allocation /\ allocation[d].pool = grant[p].pool
           /\ \A s \in Servers : \A d \in view[s] \cap DOMAIN allocation :
                 allocation[d].pool = s
<1>1. /\ pc = "select" /\ allocatedCh = <<>> /\ dropping = {}
      /\ \A s \in Servers : listener[s] = "waiting"
      /\ \A p \in Paths : Ended(p) => p \notin memo \cup DOMAIN reserved
  BY DEF Quiescent
<1>2. ~Handling /\ ~Deciding /\ \A i \in 1..Len(allocatedCh) : FALSE
  BY <1>1 DEF Handling, Deciding
<1>3. \A p \in Paths : Active(p) => Live(p)
  BY <1>1, <1>2 DEF Active, InHand
<1>4. \A p \in Paths : Live(p) => \A d \in grant[p].devs :
          d \in DOMAIN allocation /\ allocation[d].pool = grant[p].pool
  <2>1. SUFFICES ASSUME NEW p \in Paths, Live(p), NEW d \in grant[p].devs
                 PROVE  d \in DOMAIN allocation /\ allocation[d].pool = grant[p].pool
    OBVIOUS
  <2>2. d \in DOMAIN allocation /\ allocation[d] = [pool |-> grant[p].pool, mnt |-> p]
    BY <1>2, <2>1 DEF LiveInv, ToBeRecorded, IsRecorded
  <2> QED
    BY <2>2
<1>5. ASSUME NEW s \in Servers, NEW d \in view[s] \cap DOMAIN allocation
      PROVE  allocation[d].pool = s
  <2>1. view[s] \in Advertisable(s)
    BY <1>1 DEF NoLostUpdate, Processing
  <2>2. d \in PoolDevices[s] /\ d \notin other[s]
    BY <2>1, AdvertisedIsFree
  <2>3. ~NotYetTold(d, s)
    BY <1>1 DEF NotYetTold
  <2> QED
    BY <2>2, <2>3 DEF RecordedIsHidden
<1> QED
  BY <1>3, <1>4, <1>5

(* Allocate gives out devices that no active pod has.                      *)
LEMMA AllocateIsFresh ==
    ASSUME TypeInv, RecordedIsHidden, NoLostUpdate, LiveInv, Paced,
           NEW s \in Servers, NEW p \in Paths, NEW devs \in SUBSET Devices,
           Allocate(s, p, devs)
    PROVE  /\ \A q \in Paths : Active(q) => devs \cap grant[q].devs = {}
           /\ \A d \in devs \cap DOMAIN allocation : allocation[d].pool = s
<1>1. Quiescent /\ devs \subseteq view[s] /\ devs \cap HeldVia(s) = {}
  BY DEF Allocate
<1>2. \A d \in devs \cap DOMAIN allocation : allocation[d].pool = s
  BY <1>1, AtRest
<1>3. ASSUME NEW q \in Paths, Active(q), NEW d \in devs \cap grant[q].devs PROVE FALSE
  <2>1. Live(q) /\ d \in DOMAIN allocation /\ allocation[d].pool = grant[q].pool
    BY <1>1, <1>3, AtRest
  <2>2. grant[q].pool = s
    BY <1>2, <2>1
  <2>3. d \in HeldVia(s)
    BY <2>1, <2>2 DEF HeldVia, Live
  <2> QED
    BY <1>1, <2>3
<1> QED
  BY <1>2, <1>3

LEMMA OwnStep ==
    ASSUME TypeInv, RecordedIsHidden, StartInv, NoLostUpdate, TruthInv, OwnInv, LiveInv,
           Paced, MaxRestarts = 0, [Next]_vars
    PROVE  OwnInv'
<1>1. ASSUME NEW s \in Servers, NEW p \in Paths, NEW devs \in SUBSET Devices,
             Allocate(s, p, devs)
      PROVE  OwnInv'
  <2>1. /\ pod[p] = "none" /\ Quiescent
        /\ pod' = [pod EXCEPT ![p] = "created"]
        /\ grant' = [grant EXCEPT ![p] = [devs |-> devs, pool |-> s]]
        /\ allocatedCh' = Append(allocatedCh,
               [devs |-> devs, mnt |-> p, pool |-> s, from |-> "allocate"])
        /\ UNCHANGED <<memo, reserved, dropping, msg, pc, resume, allocation, deallocatedCh>>
    BY <1>1 DEF Allocate, infoVars, runVars
  <2>2. grant'[p].devs = devs /\ grant'[p].pool = s /\ \A q \in Paths : q # p => grant'[q] = grant[q]
    BY <2>1, PodTypes
  <2>3. ASSUME NEW q \in Paths, q # p, Active(q)' PROVE Active(q)
    <3>1. pod'[q] = pod[q]
      BY <2>1, <2>3, PodTypes
    <3>2. \A i \in 1..Len(allocatedCh') :
             (i \in 1..Len(allocatedCh) /\ allocatedCh'[i] = allocatedCh[i]) \/ allocatedCh'[i].mnt = p
      BY <2>1, PodTypes
    <3>3. InHand(q)' => InHand(q)
      BY <2>1, <2>3, <3>2 DEF InHand, Handling
    <3> QED
      BY <2>1, <2>3, <3>1, <3>3 DEF Active, Live, Ended
  <2>4. /\ \A q \in Paths : Active(q) => devs \cap grant[q].devs = {}
        /\ \A d \in devs \cap DOMAIN allocation : allocation[d].pool = s
    BY <1>1, AllocateIsFresh
  <2>5. Consistent(p)'
    BY <2>1, <2>2, <2>3, <2>4 DEF Consistent
  <2>6. ASSUME NEW q \in Paths, q # p, Active(q)' PROVE Consistent(q)'
    <3>1. Active(q) /\ Consistent(q)
      BY <2>3, <2>6 DEF OwnInv
    <3>2. ASSUME NEW r \in Paths, Active(r)', r # q PROVE grant'[q].devs \cap grant'[r].devs = {}
      <4>1. CASE r = p
        BY <2>2, <2>4, <2>6, <3>1, <4>1
      <4>2. CASE r # p
        BY <2>2, <2>3, <2>6, <3>1, <3>2, <4>2 DEF Consistent
      <4> QED
        BY <4>1, <4>2
    <3> QED
      BY <2>1, <2>2, <2>6, <3>1, <3>2 DEF Consistent
  <2>7. \A i \in 1..Len(deallocatedCh') : FALSE
    BY <2>1 DEF Quiescent
  <2> QED
    BY <2>5, <2>6, <2>7 DEF OwnInv
<1>2. CASE ~\E s \in Servers, p \in Paths, devs \in SUBSET Devices : Allocate(s, p, devs)
  <2>1. /\ grant' = grant
        /\ \A p \in Paths : Ended(p) => Ended(p)'
        /\ \A p \in Paths : Active(p)' => Active(p)
    BY <1>2, GrantFrame, ActiveFrame
  <2>2. ASSUME NEW p \in Paths, Consistent(p),
               \A d \in grant[p].devs \cap DOMAIN allocation' : allocation'[d].pool = grant[p].pool
        PROVE  Consistent(p)'
    BY <2>1, <2>2 DEF Consistent
  <2>3. ASSUME NEW p \in Paths, Consistent(p) PROVE Consistent(p)'
    <3>1. CASE RecordAllocation
      <4>1. /\ Handling
            /\ \A d \in DOMAIN allocation' :
                  \/ d \in msg.devs /\ allocation'[d].pool = msg.pool
                  \/ d \in DOMAIN allocation /\ allocation'[d] = allocation[d]
        BY <3>1 DEF RecordAllocation, Recorded, Handling
      <4>2. /\ msg.mnt \in Paths
            /\ msg.devs = grant[msg.mnt].devs /\ msg.pool = grant[msg.mnt].pool
            /\ pod[msg.mnt] # "none"
        BY <4>1, PodTypes DEF TruthInv, Truthful
      <4>3. Active(msg.mnt)
        BY <4>1, <4>2, PodTypes DEF Active, InHand, Live, Ended
      <4>4. p # msg.mnt => grant[p].devs \cap msg.devs = {}
        BY <2>3, <4>2, <4>3 DEF Consistent
      <4> QED
        BY <2>2, <2>3, <4>1, <4>2, <4>4 DEF Consistent
    <3>2. CASE RecvDeallocated
      BY <2>2, <2>3, <3>2 DEF RecvDeallocated, Deleted, Consistent
    <3>3. CASE UNCHANGED allocation
      BY <2>2, <2>3, <3>3 DEF Consistent
    <3>4. ASSUME NEW q, NEW m, ContainerStarts(q) \/ PodEnds(q) \/ BootNotify(m) \/ RecvAllocated
          PROVE  UNCHANGED allocation
      BY <3>4 DEF ContainerStarts, PodEnds, BootNotify, RecvAllocated, infoVars
    <3> QED
      BY <1>2, <3>1, <3>2, <3>3, <3>4, AnnounceFrame, NoRestart DEF Quiet
  <2>4. \A p \in Paths : Active(p)' => Consistent(p)'
    BY <2>1, <2>3 DEF OwnInv
  <2>5. ASSUME NEW m \in DeallocationInfo, NEW p \in Paths, Ended(p), Active(p), m = grant[p],
               deallocatedCh' = Append(deallocatedCh, m), NEW i \in 1..Len(deallocatedCh')
        PROVE  \E q \in Paths : Ended(q)' /\ deallocatedCh'[i] = grant'[q] /\ Consistent(q)'
    <3>1. CASE i \in 1..Len(deallocatedCh)
      <4>1. deallocatedCh'[i] = deallocatedCh[i]
        BY <2>5, <3>1, PodTypes
      <4> QED
        BY <2>1, <2>3, <3>1, <4>1 DEF OwnInv
    <3>2. CASE i = Len(deallocatedCh) + 1
      <4>1. deallocatedCh'[i] = grant[p]
        BY <2>5, <3>2, PodTypes
      <4> QED
        BY <2>1, <2>3, <2>5, <4>1 DEF OwnInv
    <3> QED
      BY <2>5, <3>1, <3>2, PodTypes
  <2>6. grant \in [Paths -> DeallocationInfo]
    BY DEF TypeInv, TypeOK
  <2> USE DEF infoVars, runVars, cleanVars, poolVars, srvVars, hostVars, bootVars, podVars, chans
  <2>7. ASSUME NEW p \in Paths, ForceDeallocate(p) PROVE OwnInv'
    <3>1. /\ p \in DOMAIN reserved /\ reserved[p] = "old"
          /\ deallocatedCh' = Append(deallocatedCh, grant[p])
      BY <2>7, PodTypes DEF ForceDeallocate
    <3>2. Ended(p) /\ Active(p)
      BY <3>1 DEF TruthInv, Active
    <3> QED
      BY <2>4, <2>5, <2>6, <3>1, <3>2 DEF OwnInv
  <2>8. ASSUME NEW p \in Paths, WatcherNotifies(p) PROVE OwnInv'
    <3>1. p \in dropping /\ deallocatedCh' = Append(deallocatedCh, grant[p])
      BY <2>8 DEF WatcherNotifies
    <3>2. Ended(p) /\ Active(p)
      BY <3>1 DEF TruthInv, Active
    <3> QED
      BY <2>4, <2>5, <2>6, <3>1, <3>2 DEF OwnInv
  <2>9. CASE RecvDeallocated
    <3>1. \A i \in 1..Len(deallocatedCh') : i + 1 \in 1..Len(deallocatedCh)
                                           /\ deallocatedCh'[i] = deallocatedCh[i + 1]
      BY <2>9, PodTypes DEF RecvDeallocated
    <3> QED
      BY <2>1, <2>3, <2>4, <3>1 DEF OwnInv
  <2>10. CASE UNCHANGED deallocatedCh
    BY <2>1, <2>3, <2>4, <2>10 DEF OwnInv
  <2>11. CASE RunNext /\ ~RecvDeallocated
    BY <2>10, <2>11 DEF RunNext, RecvAllocated, RecvMounted, ReleaseConflict, RecordAllocation,
       Reserve, ClaimMountedPath, NotifySkip, NotifyServer, UpdateSignal, NotifyDone
  <2>12. CASE ServerNext \/ CleanStart \/ CleanEnd \/ AllocateReturns \/ AllocateTimesOut
    BY <2>10, <2>12 DEF ServerNext, ListAndWatch, ComputeUpdate, Send, SendFails, CleanStart,
       CleanEnd, AllocateReturns, AllocateTimesOut
  <2>13. ASSUME NEW p \in Paths, CleanDrop(p) \/ CleanKeep(p) \/ Expire(p) \/ ContainerStarts(p)
                                   \/ PodEnds(p) \/ WatcherClaims(p) \/ WatcherRemoves(p)
         PROVE  OwnInv'
    BY <2>10, <2>13 DEF CleanDrop, CleanKeep, Expire, ContainerStarts, PodEnds, WatcherClaims,
       WatcherRemoves
  <2>14. CASE BootNext
    BY <2>10, <2>14 DEF BootNext, BootNotify, BootClean, BootFree, BootServe, StartInv
  <2>15. CASE UNCHANGED vars
    BY <2>10, <2>15 DEF vars
  <2> QED
    BY <1>2, <2>7, <2>8, <2>9, <2>11, <2>12, <2>13, <2>14, <2>15, NoRestart
       DEF Next, CleanNext, KubeletNext, WatcherNext
<1> QED
  BY <1>1, <1>2

LEMMA LiveStep ==
    ASSUME TypeInv, OnceInv, StartInv, TruthInv, OwnInv, LiveInv, MaxRestarts = 0, [Next]_vars
    PROVE  LiveInv'
<1> USE DEF infoVars, runVars, cleanVars, poolVars, srvVars, hostVars, bootVars, podVars, chans
<1>1. ASSUME NEW s \in Servers, NEW p \in Paths, NEW devs \in SUBSET Devices,
             Allocate(s, p, devs)
      PROVE  LiveInv'
  <2>1. /\ pod' = [pod EXCEPT ![p] = "created"]
        /\ grant' = [grant EXCEPT ![p] = [devs |-> devs, pool |-> s]]
        /\ allocatedCh' = Append(allocatedCh,
               [devs |-> devs, mnt |-> p, pool |-> s, from |-> "allocate"])
        /\ UNCHANGED <<msg, pc, resume, allocation>>
    BY <1>1 DEF Allocate
  <2>2. /\ Len(allocatedCh) + 1 \in 1..Len(allocatedCh')
        /\ allocatedCh'[Len(allocatedCh) + 1].mnt = p
        /\ \A i \in 1..Len(allocatedCh) : i \in 1..Len(allocatedCh') /\ allocatedCh'[i] = allocatedCh[i]
    BY <2>1, PodTypes
  <2>3. ToBeRecorded(p)'
    BY <2>2 DEF ToBeRecorded
  <2>4. ASSUME NEW q \in Paths, q # p, Live(q)' PROVE (ToBeRecorded(q) \/ IsRecorded(q))'
    <3>1. Live(q) /\ grant'[q] = grant[q]
      BY <2>1, <2>4, PodTypes DEF Live
    <3>2. CASE ToBeRecorded(q)
      BY <2>1, <2>2, <3>2 DEF ToBeRecorded, Deciding
    <3>3. CASE IsRecorded(q)
      BY <2>1, <3>1, <3>3 DEF IsRecorded
    <3> QED
      BY <3>1, <3>2, <3>3 DEF LiveInv
  <2> QED
    BY <2>3, <2>4 DEF LiveInv
<1>2. CASE ~\E s \in Servers, p \in Paths, devs \in SUBSET Devices : Allocate(s, p, devs)
  <2>1. grant' = grant /\ \A p \in Paths : Live(p)' => Live(p)
    BY <1>2, GrantFrame
  <2>2. SUFFICES ASSUME NEW p \in Paths, Live(p) PROVE (ToBeRecorded(p) \/ IsRecorded(p))'
    BY <2>1 DEF LiveInv
  <2>3. ToBeRecorded(p) \/ IsRecorded(p)
    BY <2>2 DEF LiveInv
  <2>4. Active(p) /\ Consistent(p)
    BY <2>2 DEF Active, OwnInv
  <2>5. CASE /\ UNCHANGED <<allocatedCh, allocation>>
             /\ Deciding => Deciding' /\ msg' = msg
    <3>1. CASE ToBeRecorded(p)
      BY <2>5, <3>1 DEF ToBeRecorded
    <3>2. CASE IsRecorded(p)
      BY <2>1, <2>5, <3>2 DEF IsRecorded
    <3> QED
      BY <2>3, <3>1, <3>2
  <2>6. CASE RecvAllocated
    <3>1. /\ pc = "select" /\ UNCHANGED allocation
          /\ Head(allocatedCh) = allocatedCh[1]
          /\ allocatedCh[1].devs # {} /\ MountPathExists(allocatedCh[1]) =>
                 pc' = "conflicts" /\ msg' = allocatedCh[1]
          /\ \A i \in 2..Len(allocatedCh) : i - 1 \in 1..Len(allocatedCh')
                                         /\ allocatedCh'[i - 1] = allocatedCh[i]
      BY <2>6, PodTypes DEF RecvAllocated
    <3>2. CASE ToBeRecorded(p)
      <4>1. PICK i \in 1..Len(allocatedCh) : allocatedCh[i].mnt = p
        BY <3>1, <3>2 DEF ToBeRecorded, Deciding
      <4>2. CASE i = 1
        <5>1. Truthful(allocatedCh[1])
          BY <4>1, <4>2 DEF TruthInv
        <5>2. MountPathExists(allocatedCh[1])
          BY <2>2, <4>1, <4>2, <5>1 DEF Truthful, TruthInv, MountPathExists
        <5>3. pc' = "conflicts" /\ msg' = allocatedCh[1]
          BY <3>1, <5>1, <5>2 DEF Truthful
        <5> QED
          BY <4>1, <4>2, <5>3 DEF ToBeRecorded, Deciding
      <4>3. CASE i # 1
        BY <3>1, <4>1, <4>3 DEF ToBeRecorded
      <4> QED
        BY <4>2, <4>3
    <3>3. CASE IsRecorded(p)
      BY <2>1, <3>1, <3>3 DEF IsRecorded
    <3> QED
      BY <2>3, <3>2, <3>3
  <2>7. CASE RecordAllocation
    <3>1. pc = "conflicts" /\ UNCHANGED allocatedCh
      BY <2>7 DEF RecordAllocation
    <3>2. DuplicateDevices(msg) = {}
      BY <3>1 DEF DuplicateDevices, Recorded, OnceInv, Deciding
    <3>3. allocation' = [d \in DOMAIN allocation \cup msg.devs |->
                           IF d \in msg.devs THEN Recorded(msg) ELSE allocation[d]]
      BY <2>7, <3>2 DEF RecordAllocation
    <3>4. /\ msg.mnt \in Paths /\ pod[msg.mnt] # "none" /\ Handling
          /\ msg.devs = grant[msg.mnt].devs /\ msg.pool = grant[msg.mnt].pool
      BY <3>1, PodTypes DEF TruthInv, Truthful, Handling
    <3>5. CASE p = msg.mnt
      BY <2>1, <3>3, <3>4, <3>5 DEF IsRecorded, Recorded
    <3>6. CASE p # msg.mnt
      <4>1. Active(msg.mnt)
        BY <3>4, PodTypes DEF Active, InHand, Live, Ended
      <4>2. grant[p].devs \cap msg.devs = {}
        BY <2>4, <3>4, <3>6, <4>1 DEF Consistent
      <4>3. ToBeRecorded(p) => ToBeRecorded(p)'
        BY <3>1, <3>6 DEF ToBeRecorded
      <4>4. IsRecorded(p) => IsRecorded(p)'
        BY <2>1, <3>3, <4>2 DEF IsRecorded
      <4> QED
        BY <2>3, <4>3, <4>4
    <3> QED
      BY <3>5, <3>6
  <2>8. CASE RecvDeallocated
    <3>1. /\ pc = "select" /\ UNCHANGED allocatedCh /\ Len(deallocatedCh) \in Nat
          /\ 1 \in 1..Len(deallocatedCh) /\ Head(deallocatedCh) = deallocatedCh[1]
          /\ allocation' \in {allocation, Deleted(deallocatedCh[1].devs)}
      BY <2>8, PodTypes DEF RecvDeallocated
    <3>2. PICK q \in Paths : Ended(q) /\ deallocatedCh[1] = grant[q] /\ Consistent(q)
      BY <3>1 DEF OwnInv
    <3>3. grant[p].devs \cap deallocatedCh[1].devs = {}
      <4>1. p # q
        BY <2>2, <3>2 DEF Ended, Live
      <4> QED
        BY <2>4, <3>2, <4>1 DEF Consistent
    <3>4. IsRecorded(p) => IsRecorded(p)'
      BY <2>1, <3>1, <3>3 DEF IsRecorded, Deleted
    <3>5. ToBeRecorded(p) => ToBeRecorded(p)'
      BY <3>1 DEF ToBeRecorded, Deciding
    <3> QED
      BY <2>3, <3>4, <3>5
  <2>9. CASE RecvMounted \/ ReleaseConflict \/ Reserve \/ ClaimMountedPath \/ NotifySkip
               \/ NotifyServer \/ UpdateSignal \/ NotifyDone
    BY <2>5, <2>9 DEF RecvMounted, ReleaseConflict, Reserve, ClaimMountedPath, NotifySkip,
       NotifyServer, InformedBySharedInfo, UpdateSignal, NotifyDone, Deciding
  <2>10. CASE UNCHANGED <<allocation, runVars>> /\ UNCHANGED allocatedCh
    BY <2>5, <2>10 DEF Deciding
  <2>11. CASE ~RunNext
    <3>1. UNCHANGED <<allocation, runVars>>
      BY <2>11, RunFrame, NoRestart
    <3>2. UNCHANGED allocatedCh
      <4>1. ASSUME NEW q, ContainerStarts(q) \/ PodEnds(q) PROVE UNCHANGED allocatedCh
        BY <4>1 DEF ContainerStarts, PodEnds
      <4> QED
        BY <1>2, <2>11, <4>1, AnnounceFrame, NoRestart DEF Quiet, StartInv, RunNext
    <3> QED
      BY <2>10, <3>1, <3>2
  <2> QED
    BY <2>6, <2>7, <2>8, <2>9, <2>11 DEF RunNext
<1> QED
  BY <1>1, <1>2
-----------------------------------------------------------------------------
(* What holds in an orderly environment: the kubelet allocates when the    *)
(* plugin is at rest, containers start before their reservation expires,   *)
(* the configuration can be written and the plugin does not restart.       *)
Orderly == Paced /\ TimelyStart /\ ~ConfigMayFail /\ MaxRestarts = 0

OwnershipInv ==
    /\ Safe /\ StartInv /\ SnapshotInv /\ NoLostUpdate
    /\ TruthInv /\ OwnInv /\ LiveInv

LEMMA OwnershipInit == Init => OwnershipInv
<1> SUFFICES ASSUME Init PROVE OwnershipInv
  OBVIOUS
<1>1. /\ pc = "select" /\ allocatedCh = <<>> /\ deallocatedCh = <<>>
      /\ memo = {} /\ DOMAIN reserved = {} /\ dropping = {} /\ pod = [p \in Paths |-> "none"]
  BY DEF Init
<1>2. StartInv /\ SnapshotInv /\ NoLostUpdate
  BY DEF Init, StartInv, SnapshotInv, NoLostUpdate, Untouched
<1>3. TruthInv /\ OwnInv /\ LiveInv
  BY <1>1 DEF TruthInv, OwnInv, LiveInv, Handling, Active, Live, Ended
<1> QED
  BY <1>2, <1>3, SafeInit DEF OwnershipInv

LEMMA OwnershipStep ==
    ASSUME Orderly, OwnershipInv, [Next]_vars
    PROVE  OwnershipInv'
<1> USE DEF Orderly, OwnershipInv
<1>1. TypeInv /\ OnceInv /\ RecordedIsHidden
  BY DEF Safe
<1>2. Safe'
  BY SafeStep
<1>3. StartInv' /\ SnapshotInv' /\ NoLostUpdate'
  BY <1>1, StartStep, ListsStep
<1>4. TruthInv'
  BY <1>1, TruthStep
<1>5. OwnInv' /\ LiveInv'
  BY <1>1, OwnStep, LiveStep
<1> QED
  BY <1>2, <1>3, <1>4, <1>5

(* In an orderly environment no device is ever held by two live pods,      *)
(* whatever stream sends, requests to the API server or the container      *)
(* runtime fail and however many waits in Allocate time out.               *)
THEOREM NoDeviceIsSharedByPods ==
    ASSUME Orderly
    PROVE  Spec => []Exclusive
<1>1. OwnershipInv => Exclusive
  BY DEF OwnershipInv, OwnInv, Exclusive, Active, Live, Consistent
<1>2. OwnershipInv /\ [Next]_vars => OwnershipInv'
  BY OwnershipStep
<1> QED
  BY OwnershipInit, <1>1, <1>2, PTL DEF Spec
-----------------------------------------------------------------------------
(* Taking an allocation finds no conflict: what is recorded of its devices *)
(* is recorded for its own resource.                                       *)
LEMMA NoConflict ==
    ASSUME TypeInv, TruthInv, OwnInv, RecvAllocated
    PROVE  pc' = "conflicts" => conflicts' = {}
<1>1. 1 \in 1..Len(allocatedCh) /\ Head(allocatedCh) = allocatedCh[1]
  BY PodTypes DEF RecvAllocated
<1> DEFINE m == allocatedCh[1]
<1>2. m.mnt \in Paths /\ Truthful(m)
  BY <1>1, PodTypes DEF TruthInv
<1>3. Active(m.mnt)
  BY <1>1, <1>2, PodTypes DEF Truthful, Active, Live, Ended, InHand
<1>4. \A d \in m.devs \cap DOMAIN allocation : allocation[d].pool = m.pool
  BY <1>2, <1>3 DEF OwnInv, Consistent, Truthful
<1>5. ASSUME NEW scanned \in Scanned(m) PROVE ConflictInfos(m, scanned) = {}
  <2>1. scanned \subseteq m.devs
    BY DEF Scanned
  <2> QED
    BY <1>4, <2>1 DEF ConflictInfos
<1> QED
  BY <1>1, <1>5 DEF RecvAllocated

(* The server notify() is at: the maps of its pool after the call.         *)
LEMMA Informed ==
    ASSUME TypeInv, NotifyServer
    PROVE  /\ pc = "notify" /\ next \in Servers /\ ~Skips(next)
           /\ \A s \in Servers : s # next => other'[s] = other[s] /\ self'[s] = self[s]
           /\ IF UsesSelfMap(self[next], job.devs, job.allocated, next = job.pool)
              THEN /\ other'[next] = other[next]
                   /\ self'[next] = Marked(self[next], PoolDevices[next], job.devs, job.allocated)
              ELSE /\ self'[next] = self[next]
                   /\ other'[next] = Marked(other[next], PoolDevices[next], job.devs, job.allocated)
           /\ pc' \in {"notify", "signal"} /\ UNCHANGED <<allocation, job, resume, msg, conflicts>>
           /\ \A s \in Servers : Passed(s)' => Passed(s) \/ s = next
<1>1. DOMAIN other = Servers /\ DOMAIN self = Servers
  BY DEF TypeInv, TypeOK
<1>2. (pc' = "signal" /\ next' = next) \/ (pc' = "notify" /\ next' = next + 1)
  <2>1. /\ pc = "notify" /\ next \in Servers
        /\ IF started[next] /\ Changed(next)
           THEN pc' = "signal" /\ UNCHANGED next
           ELSE next' = next + 1 /\ UNCHANGED pc
    BY DEF NotifyServer, InformedBySharedInfo
  <2> QED
    BY <2>1
<1>3. \A s \in Servers : Passed(s)' => Passed(s) \/ s = next
  <2>1. next \in Servers /\ NumServers \in Nat
    BY ConstantsAssumption DEF NotifyServer
  <2> QED
    BY <1>2, <2>1 DEF Passed
<1> QED
  BY <1>1, <1>2, <1>3 DEF NotifyServer, InformedBySharedInfo, InformedOther, InformedSelf

(* A release reaches the map of every pool that hides or keeps its devices.*)
LEMMA NotifyStep ==
    ASSUME TypeInv, JobInv, ReleaseInv, HiddenForAReason, NotifyServer
    PROVE  ReleaseInv' /\ HiddenForAReason'
<1>1. /\ pc = "notify" /\ next \in Servers /\ ~Skips(next)
      /\ \A s \in Servers : s # next => other'[s] = other[s] /\ self'[s] = self[s]
      /\ pc' \in {"notify", "signal"} /\ UNCHANGED <<allocation, job, resume, msg, conflicts>>
      /\ \A s \in Servers : Passed(s)' => Passed(s) \/ s = next
  BY Informed
<1>2. other[next] \cup self[next] \subseteq PoolDevices[next]
  BY <1>1 DEF ReleaseInv
<1>3. CASE Notifying("select")
  <2>1. ~job.allocated /\ job.devs \cap DOMAIN allocation = {} /\ job.devs \cap other[job.pool] = {}
    BY <1>3 DEF JobInv, ReleaseInv
  <2>2. /\ other'[next] \subseteq other[next] /\ self'[next] \subseteq self[next]
        /\ job.devs \cap (other'[next] \cup self'[next]) = {}
    <3>1. CASE next = job.pool
      BY <1>2, <2>1, <3>1, Informed DEF UsesSelfMap, Marked
    <3>2. CASE next # job.pool
      <4>1. job.devs \cap self[next] = {}
        BY <1>1, <2>1, <3>2 DEF ReleaseInv
      <4> QED
        BY <1>2, <2>1, <3>2, <4>1, Informed DEF UsesSelfMap, Marked
    <3> QED
      BY <3>1, <3>2
  <2>3. \A s \in Servers : other'[s] \subseteq other[s] /\ self'[s] \subseteq self[s]
    BY <1>1, <2>2
  <2>4. HiddenForAReason'
    BY <1>1, <1>3, <2>3 DEF HiddenForAReason, Notifying
  <2>5. Notifying("select")'
    BY <1>1, <1>3 DEF Notifying
  <2>6. /\ \A s \in Servers : other'[s] \cup self'[s] \subseteq PoolDevices[s]
        /\ \A s \in Servers \ TopologyAware : self'[s] = {}
        /\ \A s \in Servers : \A d \in self'[s] :
              \/ d \in DOMAIN allocation /\ allocation[d].pool = s
              \/ d \in job.devs /\ s = job.pool
    BY <2>3 DEF ReleaseInv
  <2>7. job.devs \cap other'[job.pool] = {}
    <3>1. job.pool \in Servers
      BY <1>3 DEF ReleaseInv
    <3> QED
      BY <2>1, <2>3, <3>1
  <2>8. \A s \in Servers : Passed(s)' => job.devs \cap (other'[s] \cup self'[s]) = {}
    BY <1>1, <1>3, <2>2 DEF ReleaseInv
  <2>9. job.pool \in Servers /\ resume = "select"
    BY <1>3 DEF ReleaseInv, Notifying
  <2> QED
    BY <1>1, <2>4, <2>5, <2>6, <2>7, <2>8, <2>9 DEF ReleaseInv
<1>4. CASE ~Notifying("select")
  <2>1. resume = "reserve"
    <3>1. resume \in {"select", "conflicts", "reserve"} /\ resume # "conflicts"
      BY <1>1 DEF TypeInv, TypeOK, ReleaseInv
    <3> QED
      BY <1>1, <1>4, <3>1 DEF Notifying
  <2>2. /\ job.allocated
        /\ \A d \in job.devs : d \in DOMAIN allocation /\ allocation[d].pool = job.pool
    BY <1>1, <2>1 DEF JobInv, Notifying
  <2>3. /\ \A d \in other'[next] : d \in other[next] \/ (d \in job.devs \cap PoolDevices[next] /\ next # job.pool)
        /\ \A d \in self'[next] : d \in self[next] \/ (d \in job.devs \cap PoolDevices[next] /\ next = job.pool)
    BY <2>2, Informed DEF UsesSelfMap, Marked
  <2>4. \A s \in Servers : \A d \in other'[s] : d \in DOMAIN allocation /\ allocation[d].pool # s
    BY <1>1, <2>2, <2>3 DEF HiddenForAReason
  <2>5. \A s \in Servers : \A d \in self'[s] : d \in DOMAIN allocation /\ allocation[d].pool = s
    BY <1>1, <1>4, <2>2, <2>3 DEF ReleaseInv
  <2>6. /\ \A s \in Servers : other'[s] \cup self'[s] \subseteq PoolDevices[s]
        /\ \A s \in Servers \ TopologyAware : self'[s] = {}
    BY <1>1, <2>3 DEF ReleaseInv, Skips
  <2> QED
    BY <1>1, <2>1, <2>4, <2>5, <2>6 DEF ReleaseInv, HiddenForAReason, Notifying
<1> QED
  BY <1>3, <1>4

LEMMA ReleaseStep ==
    ASSUME OwnershipInv, MaxRestarts = 0, ReleaseInv, HiddenForAReason, [Next]_vars
    PROVE  ReleaseInv' /\ HiddenForAReason'
<1>0. /\ TypeInv /\ JobInv /\ OnceInv /\ TruthInv /\ OwnInv
      /\ resume \in {"select", "conflicts", "reserve"}
      /\ NumServers \in Nat
  BY ConstantsAssumption DEF OwnershipInv, Safe, TypeInv, TypeOK
<1> USE DEF infoVars, runVars, poolVars, chans
<1>1. CASE UNCHANGED <<allocation, runVars, poolVars>>
  BY <1>1 DEF ReleaseInv, HiddenForAReason, Notifying, Passed
<1>2. CASE /\ UNCHANGED <<allocation, poolVars>>
           /\ pc \notin {"notify", "signal"} /\ pc' \in {"select", "reserve", "claim"}
  BY <1>2 DEF ReleaseInv, HiddenForAReason, Notifying
<1>3. CASE RecvAllocated
  <2>1. /\ pc = "select" /\ pc' \in {"select", "conflicts"} /\ UNCHANGED <<allocation, poolVars>>
        /\ pc' = "conflicts" => conflicts' = {}
    BY <1>0, <1>3, NoConflict DEF RecvAllocated
  <2> QED
    BY <2>1 DEF ReleaseInv, HiddenForAReason, Notifying
<1>4. CASE RecvDeallocated /\ Head(deallocatedCh).devs # {}
  <2> DEFINE m == deallocatedCh[1]
  <2>1. 1 \in 1..Len(deallocatedCh) /\ Head(deallocatedCh) = m
    BY <1>0, <1>4, PodTypes DEF RecvDeallocated
  <2>2. /\ pc = "select" /\ pc' = "notify" /\ resume' = "select" /\ next' = 1
        /\ allocation' = Deleted(m.devs)
        /\ job' = [devs |-> m.devs, pool |-> m.pool, allocated |-> FALSE]
        /\ UNCHANGED poolVars
    BY <1>4, <2>1 DEF RecvDeallocated
  <2>3. PICK q \in Paths : Ended(q) /\ m = grant[q] /\ Consistent(q)
    BY <1>0, <2>1 DEF OwnInv
  <2>4. /\ m.pool \in Servers
        /\ \A d \in m.devs \cap DOMAIN allocation : allocation[d].pool = m.pool
    BY <1>0, <2>3 DEF TypeInv, Ended, Consistent
  <2> HIDE DEF m
  <2>5. HiddenForAReason'
    BY <2>2 DEF HiddenForAReason, Deleted
  <2>6. \A s \in Servers : \A d \in self[s] : d \in DOMAIN allocation /\ allocation[d].pool = s
    BY <2>2 DEF ReleaseInv, Notifying
  <2>7. m.devs \cap other[m.pool] = {}
    BY <2>2, <2>4 DEF HiddenForAReason
  <2>8. \A s \in Servers : ~Passed(s)'
    BY <2>2 DEF Passed
  <2> QED
    BY <2>2, <2>4, <2>5, <2>6, <2>7, <2>8 DEF ReleaseInv, Notifying, Deleted
<1>5. CASE RecvDeallocated /\ Head(deallocatedCh).devs = {}
  BY <1>2, <1>5 DEF RecvDeallocated
<1>6. CASE ReleaseConflict
  BY <1>6 DEF ReleaseConflict, ReleaseInv
<1>7. CASE RecordAllocation
  <2>1. pc = "conflicts" /\ UNCHANGED <<poolVars, conflicts>>
    BY <1>7 DEF RecordAllocation
  <2>2. DuplicateDevices(msg) = {}
    BY <1>0, <2>1 DEF DuplicateDevices, Recorded, OnceInv, Deciding
  <2>3. /\ pc' = "notify" /\ resume' = "reserve"
        /\ allocation' = [d \in DOMAIN allocation \cup msg.devs |->
                            IF d \in msg.devs THEN Recorded(msg) ELSE allocation[d]]
    BY <1>7, <2>2 DEF RecordAllocation
  <2>4. Handling /\ msg.mnt \in Paths /\ Truthful(msg)
    BY <1>0, <2>1, PodTypes DEF TruthInv, Handling
  <2>5. Active(msg.mnt)
    BY <1>0, <2>4, PodTypes DEF Active, InHand, Live, Ended, Truthful
  <2>6. \A d \in msg.devs \cap DOMAIN allocation : allocation[d].pool = msg.pool
    BY <1>0, <2>4, <2>5 DEF OwnInv, Consistent, Truthful
  <2>7. \A d \in DOMAIN allocation : d \in DOMAIN allocation' /\ allocation'[d].pool = allocation[d].pool
    BY <2>3, <2>6 DEF Recorded
  <2> QED
    BY <2>1, <2>3, <2>7 DEF ReleaseInv, HiddenForAReason, Notifying
<1>8. CASE Reserve \/ RecvMounted \/ ClaimMountedPath
  BY <1>2, <1>8 DEF Reserve, RecvMounted, ClaimMountedPath
<1>9. CASE NotifySkip
  <2>1. /\ pc = "notify" /\ next = job.pool /\ next \notin TopologyAware /\ next \in Servers
        /\ next' = next + 1
        /\ UNCHANGED <<pc, job, resume, msg, conflicts, allocation, poolVars>>
    BY <1>9 DEF NotifySkip, Skips
  <2>2. \A s \in Servers : Passed(s)' => Passed(s) \/ s = next
    BY <1>0, <2>1 DEF Passed
  <2>3. HiddenForAReason'
    BY <2>1 DEF HiddenForAReason
  <2>4. self[next] = {}
    BY <2>1 DEF ReleaseInv
  <2> QED
    BY <2>1, <2>2, <2>3, <2>4 DEF ReleaseInv, Notifying
<1>10. CASE NotifyServer
  BY <1>0, <1>10, NotifyStep
<1>11. CASE UpdateSignal
  <2>1. /\ pc = "signal" /\ pc' = "notify" /\ next' = next + 1
        /\ UNCHANGED <<job, resume, msg, conflicts, allocation, poolVars>>
    BY <1>11 DEF UpdateSignal
  <2>2. \A s \in Servers : Passed(s)' => Passed(s)
    <3>1. next \in Servers
      BY <1>0, <2>1 DEF TypeInv
    <3> QED
      BY <1>0, <2>1, <3>1 DEF Passed
  <2>3. HiddenForAReason'
    BY <2>1 DEF HiddenForAReason
  <2> QED
    BY <2>1, <2>2, <2>3 DEF ReleaseInv, Notifying
<1>12. CASE NotifyDone
  <2>1. /\ pc = "notify" /\ next = NumServers + 1 /\ pc' = resume
        /\ UNCHANGED <<msg, conflicts, allocation, poolVars>>
    BY <1>12 DEF NotifyDone
  <2>2. resume \in {"select", "reserve"}
    BY <1>0, <2>1 DEF ReleaseInv
  <2>3. \A s \in Servers : Passed(s)
    BY <1>0, <2>1 DEF Passed
  <2>4. \A s \in Servers : /\ \A d \in other[s] : d \in DOMAIN allocation /\ allocation[d].pool # s
                           /\ \A d \in self[s] : d \in DOMAIN allocation /\ allocation[d].pool = s
    <3>1. CASE resume = "select"
      <4>1. Notifying("select")
        BY <2>1, <3>1 DEF Notifying
      <4> QED
        BY <2>3, <4>1 DEF ReleaseInv, HiddenForAReason
    <3>2. CASE resume = "reserve"
      <4>1. job.allocated
        BY <1>0, <2>1, <3>2 DEF JobInv, Notifying
      <4> QED
        BY <3>2, <4>1 DEF ReleaseInv, HiddenForAReason, Notifying
    <3> QED
      BY <2>2, <3>1, <3>2
  <2> QED
    BY <2>1, <2>2, <2>4 DEF ReleaseInv, HiddenForAReason, Notifying
<1> QED
  BY <1>0, <1>1, <1>3, <1>4, <1>5, <1>6, <1>7, <1>8, <1>9, <1>10, <1>11, <1>12, RunFrame, NoRestart
     DEF RunNext

(* In an orderly environment a pool hides a device only while another      *)
(* resource has it or its release is being announced: no sequence of       *)
(* allocations, failures and time-outs loses a device to a resource.       *)
THEOREM NoDeviceIsLost ==
    ASSUME Orderly
    PROVE  Spec => []HiddenForAReason
<1> DEFINE Inv == OwnershipInv /\ ReleaseInv /\ HiddenForAReason
<1>1. Init => Inv
  <2>1. Init => ReleaseInv /\ HiddenForAReason
    BY DEF Init, ReleaseInv, HiddenForAReason, Notifying
  <2> QED
    BY <2>1, OwnershipInit
<1>2. Inv /\ [Next]_vars => Inv'
  BY OwnershipStep, ReleaseStep DEF Orderly
<1>3. Inv => HiddenForAReason
  OBVIOUS
<1> QED
  BY <1>1, <1>2, <1>3, PTL DEF Spec
=============================================================================
