---------------------------- MODULE DevicePlugin ----------------------------
(***************************************************************************)
(* The shared allocation state of the plugin (SharedInfo) with everything  *)
(* that drives it: the kubelet calling Allocate and starting containers,   *)
(* the PodWatcher reporting mounted and ended pods, the plugin process     *)
(* starting up and restarting.                                             *)
(***************************************************************************)
EXTENDS SharedInfo

(* The kubelet: it calls Allocate for one pod at a time (admission), with  *)
(* devices of the list it last received that it has not given to another   *)
(* pod through the same resource.                                          *)

HeldVia(s) == UNION {grant[p].devs : p \in {q \in Paths : /\ pod[q] \in {"created", "mounted"}
                                                          /\ grant[q].pool = s}}

(* devices mounted by running containers of another resource               *)
CheckConflict(s, devs) ==
    \E p \in dirs : /\ pod[p] = "mounted"
                    /\ grant[p].pool # s
                    /\ grant[p].devs \cap devs # {}

(* nothing in flight, and no ended pod left to be cleaned up               *)
Quiescent ==
    /\ pc = "select"
    /\ allocatedCh = <<>> /\ deallocatedCh = <<>> /\ mountedCh = <<>>
    /\ cleaner = "idle"
    /\ dropping = {}
    /\ \A s \in Servers : listener[s] = "waiting"
    /\ \A p \in Paths : Ended(p) => p \notin memo \cup DOMAIN reserved

(* resourceServer.Allocate up to WaitForNoAllocationInProcess. GetMounts   *)
(* only logs a failure to write the config directory: the call goes on     *)
(* with no mount path to announce.                                         *)
Allocate(s, p, devs) ==
    /\ boot = "serving"
    /\ call = NoPath
    /\ pod[p] = "none"
    /\ devs # {}
    /\ devs \subseteq view[s] \ HeldVia(s)
    /\ Paced => Quiescent
    /\ RuntimeMayFail \/ ~CheckConflict(s, devs)
    /\ Len(allocatedCh) < ChanCap
    /\ allocatedCh' = Append(allocatedCh,
           [devs |-> devs, mnt |-> p, pool |-> s, from |-> "allocate"])
    /\ pod' = [pod EXCEPT ![p] = "created"]
    /\ grant' = [grant EXCEPT ![p] = [devs |-> devs, pool |-> s]]
    /\ \/ dirs' = dirs \cup {p} /\ mdirs' = IF MetricsEnabled THEN mdirs \cup {p} ELSE mdirs
       \/ ConfigMayFail /\ UNCHANGED <<dirs, mdirs>>
    /\ call' = p
    /\ UNCHANGED <<deallocatedCh, mountedCh, infoVars, cleanVars, srvVars, bootVars,
                   memo, dropping, bounds>>

(* processing of the server: set around InformedBySharedInfo               *)
Processing(s) == pc = "signal" /\ next = s

(* the condition WaitForNoAllocationInProcess polls                        *)
NotProcessing(s) == ~Processing(s)  \* mutant

WaitCondition(s) == allocatedCh = <<>> /\ ~Processing(s)

(* it sees the condition ...                                               *)
AllocateReturns ==
    /\ call # NoPath
    /\ WaitCondition(grant[call].pool)
    /\ call' = NoPath
    /\ UNCHANGED <<chans, infoVars, cleanVars, srvVars, bootVars, pod, grant, dirs,
                   mdirs, memo, dropping, bounds>>

(* ... or gives up after ten seconds and answers all the same              *)
AllocateTimesOut ==
    /\ call # NoPath
    /\ timeouts < MaxTimeouts
    /\ timeouts' = timeouts + 1
    /\ call' = NoPath
    /\ UNCHANGED <<chans, infoVars, cleanVars, srvVars, bootVars, pod, grant, dirs,
                   mdirs, memo, dropping, restarts, failures>>

(* the container of the grant starts with the directory mounted            *)
ContainerStarts(p) ==
    /\ pod[p] = "created"
    /\ p # call
    /\ p \in dirs
    /\ pod' = [pod EXCEPT ![p] = "mounted"]
    /\ UNCHANGED <<chans, infoVars, cleanVars, srvVars, bootVars, grant, dirs, mdirs,
                   memo, dropping, call, bounds>>

(* the pod ends or is deleted; the kubelet takes its devices back          *)
PodEnds(p) ==
    /\ pod[p] \in {"created", "mounted"}
    /\ p # call
    /\ pod' = [pod EXCEPT ![p] = IF @ = "mounted" THEN "exited" ELSE "gone"]
    /\ UNCHANGED <<chans, infoVars, cleanVars, srvVars, bootVars, grant, dirs, mdirs,
                   memo, dropping, call, bounds>>

KubeletNext ==
    \/ \E s \in Servers, p \in Paths, devs \in SUBSET Devices : Allocate(s, p, devs)
    \/ AllocateReturns
    \/ AllocateTimesOut
    \/ \E p \in Paths : ContainerStarts(p) \/ PodEnds(p)
-----------------------------------------------------------------------------
(* The PodWatcher's worker, as far as these channels see it. It handles    *)
(* one event at a time: dropping = {} between events.                      *)

(* allocateAndRequeueIfFailed for a pod not in the memo                    *)
WatcherClaims(p) ==
    /\ boot = "serving"
    /\ dropping = {}
    /\ pod[p] = "mounted"
    /\ p \in dirs \ memo
    /\ Len(mountedCh) < ChanCap
    /\ memo' = memo \cup {p}
    /\ mountedCh' = Append(mountedCh, p)
    /\ UNCHANGED <<allocatedCh, deallocatedCh, infoVars, cleanVars, srvVars, bootVars,
                   pod, grant, dirs, mdirs, dropping, call, bounds>>

(* deallocate: cleanMountPathsAndNotify removes the directories, which may *)
(* fail ...                                                                *)
WatcherRemoves(p) ==
    /\ boot = "serving"
    /\ dropping = {}
    /\ Ended(p)
    /\ p \in memo
    /\ dirs' \in {dirs, dirs \ {p}}
    /\ mdirs' = mdirs \ {p}
    /\ dropping' = {p}
    /\ UNCHANGED <<chans, infoVars, cleanVars, srvVars, bootVars, pod, grant, memo, call,
                   bounds>>

(* ... and sends the deallocation. The pod leaves the memo unless updating *)
(* the node state fails: then the event is queued again, and the memo      *)
(* still has the paths (they are cleared in a copy), so both are repeated. *)
WatcherNotifies(p) ==
    /\ p \in dropping
    /\ Len(deallocatedCh) < ChanCap
    /\ deallocatedCh' = Append(deallocatedCh, grant[p])
    /\ dropping' = {}
    /\ \/ memo' = memo \ {p}
       \/ ApiMayFail /\ UNCHANGED memo
    /\ UNCHANGED <<allocatedCh, mountedCh, infoVars, cleanVars, srvVars, bootVars, pod,
                   grant, dirs, mdirs, call, bounds>>

WatcherNext == \E p \in Paths : WatcherClaims(p) \/ WatcherRemoves(p) \/ WatcherNotifies(p)
-----------------------------------------------------------------------------
(* what is announced for a pod found at start-up                           *)
InitialAllocation(p) ==
    [devs |-> grant[p].devs, mnt |-> p, pool |-> grant[p].pool, from |-> "initial"]

(* The plugin process restarts: everything in memory is lost. The pods the *)
(* API server lists whose container has a config directory are put into    *)
(* the memo and announced on allocatedCh (NotifyInitialAllocationList):    *)
(* the running ones, and ended ones not deleted yet. If listing pods fails *)
(* neither happens, if reading the node state fails only the first. An     *)
(* Allocate call in progress fails, and with it the pod's admission.       *)
Restart ==
    /\ boot = "serving"
    /\ restarts < MaxRestarts
    /\ restarts' = restarts + 1
    /\ allocatedCh' = <<>> /\ deallocatedCh' = <<>> /\ mountedCh' = <<>>
    /\ allocation' = [d \in {} |-> [pool |-> 0, mnt |-> NoPath]]
    /\ reserved' = [p \in {} |-> "fresh"]
    /\ pc' = "select" /\ msg' = NoMsg /\ conflicts' = {} /\ job' = NoJob
    /\ next' = 1 /\ resume' = "select" /\ claiming' = NoPath
    /\ cleaner' = "idle" /\ cleanTodo' = {} /\ cleanKept' = {}
    /\ other' = [s \in Servers |-> {}]
    /\ self' = [s \in Servers |-> {}]
    /\ started' = [s \in Servers |-> FALSE]
    /\ listener' = [s \in Servers |-> "none"]
    /\ snapshot' = [s \in Servers |-> {}]
    /\ view' = [s \in Servers |-> {}]
    /\ boot' = "notify"
    /\ \E listed \in SUBSET {p \in dirs : pod[p] \in {"mounted", "exited"}} :
          \/ /\ \A p \in dirs : pod[p] = "mounted" => p \in listed
             /\ memo' = listed
             /\ \/ bootAlloc' = {InitialAllocation(p) : p \in listed}
                \/ ApiMayFail /\ bootAlloc' = {}
          \/ /\ ApiMayFail
             /\ memo' = {}
             /\ bootAlloc' = {}
    /\ bootFree' = {}
    /\ dropping' = {}
    /\ pod' = [p \in Paths |-> IF p = call THEN "gone" ELSE pod[p]]
    /\ call' = NoPath
    /\ UNCHANGED <<grant, dirs, mdirs, failures, timeouts>>

BootNotify(m) ==
    /\ boot = "notify"
    /\ m \in bootAlloc
    /\ Len(allocatedCh) < ChanCap
    /\ allocatedCh' = Append(allocatedCh, m)
    /\ bootAlloc' = bootAlloc \ {m}
    /\ UNCHANGED <<deallocatedCh, mountedCh, infoVars, cleanVars, srvVars, boot,
                   bootFree, podVars, bounds>>

(* cleanInitialUnmountedDevices: config directories no running container   *)
(* mounts are removed and their devices collected per resource; every      *)
(* metrics directory is removed. Nothing happens if there is no directory  *)
(* or the runtime cannot list its containers.                              *)
Unmounted == {p \in dirs : pod[p] # "mounted"}

UnmountedDevices ==
    {[devs |-> UNION {grant[p].devs : p \in {q \in Unmounted : grant[q].pool = s}}, pool |-> s]
        : s \in {grant[p].pool : p \in Unmounted}}

BootClean ==
    /\ boot = "notify"
    /\ bootAlloc = {}
    /\ boot' = "free"
    /\ \/ /\ dirs # {}
          /\ bootFree' = UnmountedDevices
          /\ dirs' = dirs \ Unmounted
          /\ mdirs' = {}
       \/ /\ dirs = {} \/ RuntimeMayFail
          /\ bootFree' = {}
          /\ UNCHANGED <<dirs, mdirs>>
    /\ UNCHANGED <<chans, infoVars, cleanVars, srvVars, bootAlloc, pod, grant, memo,
                   dropping, call, bounds>>

BootFree(m) ==
    /\ boot = "free"
    /\ m \in bootFree
    /\ Len(deallocatedCh) < ChanCap
    /\ deallocatedCh' = Append(deallocatedCh, m)
    /\ bootFree' = bootFree \ {m}
    /\ UNCHANGED <<allocatedCh, mountedCh, infoVars, cleanVars, srvVars, boot,
                   bootAlloc, podVars, bounds>>

(* The PodWatcher's worker and, with StartAllServers, the servers are up:  *)
(* from here on events are processed and the kubelet may connect.          *)
BootServe ==
    /\ boot = "free"
    /\ bootFree = {}
    /\ boot' = "serving"
    /\ UNCHANGED <<chans, infoVars, cleanVars, srvVars, bootAlloc, bootFree, podVars,
                   bounds>>

BootNext ==
    \/ \E m \in bootAlloc : BootNotify(m)
    \/ BootClean
    \/ \E m \in bootFree : BootFree(m)
    \/ BootServe
-----------------------------------------------------------------------------
Next == RunNext \/ ServerNext \/ CleanNext \/ KubeletNext \/ WatcherNext \/ BootNext \/ Restart

Spec == Init /\ [][Next]_vars
(* Fairness: goroutines and the kubelet's stream make progress, time       *)
(* passes; nothing forces a pod to be created, to start or to end. A pod   *)
(* that has ended is eventually processed by the PodWatcher's worker.      *)
Fairness ==
    /\ WF_vars(RunNext)
    /\ \A s \in Servers : WF_vars(ListAndWatch(s) \/ ComputeUpdate(s) \/ Send(s))
    /\ WF_vars(BootNext)
    /\ WF_vars(CleanStart \/ CleanEnd \/ \E p \in Paths : CleanDrop(p) \/ CleanKeep(p) \/ ForceDeallocate(p))
    /\ \A p \in Paths : WF_vars(Expire(p)) /\ WF_vars(WatcherNotifies(p)) /\ SF_vars(WatcherRemoves(p))

FairSpec == Spec /\ Fairness
-----------------------------------------------------------------------------
(* The servers notify() has yet to tell about device d: while conflicting  *)
(* records are released no server counts as told, while the new record is  *)
(* announced those from the cursor on do not.                              *)
NotYetTold(d, s) ==
    /\ d \in msg.devs
    /\ \/ pc = "conflicts"
       \/ pc \in {"notify", "signal"} /\ resume = "conflicts"
       \/ pc = "notify" /\ resume = "reserve" /\ s >= next
       \/ pc = "signal" /\ resume = "reserve" /\ s > next

(* A device recorded for one resource is hidden by the pool of every other *)
(* resource that has it, except where the notify() in progress has not got *)
(* to that pool yet (updateAllocation, deleteAllocation, notify and the    *)
(* pools' InformedBySharedInfo together, under any interleaving and any    *)
(* environment).                                                           *)
RecordedIsHidden ==
    \A d \in DOMAIN allocation : \A s \in Servers \ {allocation[d].pool} :
        d \in PoolDevices[s] => d \in other[s] \/ NotYetTold(d, s)

(* A deallocation that covers device d is queued or about to be sent.      *)
ReleaseOnItsWay(d) ==
    \/ \E i \in DOMAIN deallocatedCh : d \in deallocatedCh[i].devs
    \/ \E p \in dropping : d \in grant[p].devs
    \/ \E m \in bootFree : d \in m.devs

(* A record never outlives its grant unnoticed: if the directory of a      *)
(* recorded grant is gone, a deallocation that covers the device is on its *)
(* way. handleAllocated relies on the directory check to discard a grant   *)
(* whose pod was cleaned up first.                                         *)
NoZombieRecord ==
    \A d \in DOMAIN allocation : allocation[d].mnt \in dirs \/ ReleaseOnItsWay(d)

(* A directory that is still reserved although the PodWatcher has seen its *)
(* container has the claim on its way. Otherwise periodicClean would take  *)
(* the devices of a running container (Run picks channels in any order, so *)
(* this rests on Allocate not answering before its message was taken).     *)
ClaimOnItsWay(p) == claiming = p \/ \E i \in DOMAIN mountedCh : mountedCh[i] = p

ReservedIsUnclaimed ==
    \A p \in DOMAIN reserved : pod[p] = "mounted" /\ p \in memo => ClaimOnItsWay(p)

(* periodicClean frees devices of a directory only if no container claimed *)
(* it ("deallocated ... as there is no container claims for").             *)
ForcesOnlyUnclaimed ==
    [][\A p \in Paths : ForceDeallocate(p) =>
            ~(pod[p] = "mounted" /\ p \in memo /\ ~ClaimOnItsWay(p))]_vars

(* No device is held by two live pods: what the whole protocol is for.     *)
Exclusive ==
    \A p, q \in Paths :
        p # q /\ {pod[p], pod[q]} \subseteq {"created", "mounted"}
            => grant[p].devs \cap grant[q].devs = {}

(* A pool hides a device only because another resource has a record for    *)
(* it, or because notify() is just releasing it: no device is lost to a    *)
(* resource for good.                                                      *)
HiddenForAReason ==
    \A s \in Servers : \A d \in other[s] :
        \/ d \in DOMAIN allocation /\ allocation[d].pool # s
        \/ pc \in {"notify", "signal"} /\ ~job.allocated /\ d \in job.devs

(* A ListAndWatch loop with nothing to do has sent the list its pool       *)
(* stands for: no change of the maps is lost between computing a list,     *)
(* sending it and waiting for the next signal.                             *)
NoLostUpdate ==
    \A s \in Servers :
        listener[s] = "waiting" /\ ~Processing(s) => view[s] \in Advertisable(s)

(* When Allocate answers, no allocation is in process any more ("makes     *)
(* sure that there is no allocation in process in allocatedCh").           *)
NoAllocationInProcess ==
    [][call # NoPath /\ call' = NoPath /\ restarts' = restarts
            => allocatedCh = <<>> /\ msg = NoMsg]_vars

(* notify() reaches all servers: Run always gets back to its select.       *)
NotifyCompletes == pc # "select" ~> pc = "select"

(* The record of a pod that has ended goes away, whether the PodWatcher    *)
(* knew the pod (deallocate) or not (periodicClean).                       *)
EndedIsReleased ==
    \A p \in Paths :
        (Ended(p) /\ \E d \in DOMAIN allocation : allocation[d].mnt = p)
            ~> ~\E d \in DOMAIN allocation : allocation[d].mnt = p
=============================================================================
