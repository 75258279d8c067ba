----------------------------- MODULE SharedInfo -----------------------------
(***************************************************************************)
(* How the device plugin keeps one physical device from being handed out   *)
(* through two resource names (non-reservation mode).                      *)
(*                                                                         *)
(* Every resource name has a resource server with a pool; pools overlap.   *)
(* Allocate pushes what it granted to allocatedCh; the single goroutine    *)
(* SpyreDeviceSharedInfo.Run records it and tells every other server to    *)
(* hide the devices; each server signals its ListAndWatch loop, which      *)
(* sends the kubelet a new list. The PodWatcher reports containers that    *)
(* mounted their configuration (mountedCh) and pods that ended             *)
(* (deallocatedCh); a cleaner goroutine frees grants nobody claimed.       *)
(*                                                                         *)
(* This module has the state, the Run goroutine, the servers' ListAndWatch *)
(* loops and the cleaner; module DevicePlugin adds the kubelet, the        *)
(* PodWatcher and the start-up sequence. A config directory (Paths) stands *)
(* for one Allocate call, the container it was made for and the files      *)
(* written into it.                                                        *)
(***************************************************************************)
EXTENDS Naturals, Sequences, FiniteSets, ResourcePool

CONSTANTS
    Devices,        \* device IDs
    Paths,          \* config host directories, one per Allocate call
    NoPath,         \* not a path
    NumServers,     \* resource servers, in the order they were registered
    PoolDevices,    \* server -> the devices of its pool
    TopologyAware,  \* servers whose resource name has a tier
    Peers,          \* server -> device -> peers within the resource's tier
    ChanCap,        \* ChannelBufferSize
    Paced,          \* TRUE: the kubelet allocates only when the plugin is quiescent
    TimelyStart,    \* TRUE: containers start and are claimed before a grant expires
    MetricsEnabled, \* containers also mount a metrics directory
    RuntimeMayFail, \* TRUE: the container runtime may fail to list containers
    ApiMayFail,     \* TRUE: requests of the PodWatcher to the API server may fail
    ConfigMayFail,  \* TRUE: writing the config directory in GetMounts may fail
    MaxRestarts,    \* bound on restarts of the plugin process
    MaxFailures,    \* bound on failing stream sends
    MaxTimeouts     \* bound on WaitForNoAllocationInProcess reaching its deadline

Servers == 1..NumServers

ASSUME ConstantsAssumption ==
    /\ NumServers \in Nat
    /\ NoPath \notin Paths
    /\ PoolDevices \in [Servers -> SUBSET Devices]
    /\ TopologyAware \subseteq Servers
    /\ Peers \in [Servers -> [Devices -> SUBSET Devices]]
    /\ ChanCap \in Nat \ {0}
    /\ {Paced, TimelyStart, MetricsEnabled} \subseteq BOOLEAN
    /\ {RuntimeMayFail, ApiMayFail, ConfigMayFail} \subseteq BOOLEAN
    /\ {MaxRestarts, MaxFailures, MaxTimeouts} \subseteq Nat

VARIABLES
    allocatedCh, deallocatedCh, mountedCh,  \* the three channels into Run
    allocation,   \* device -> recorded grant (a partial function: the Go map)
    reserved,     \* reservedPathWithTime: path -> "fresh" or "old" (over 30s)
    pc,           \* where Run is
    msg,          \* the allocation Run is handling
    conflicts,    \* conflictInfos not yet notified
    job,          \* the notify() call in progress
    next,         \* the server notify() is at
    resume,       \* where Run continues when notify() returns
    claiming,     \* the path claimMountedPaths was called with
    cleaner, cleanTodo, cleanKept,          \* periodicClean; "holding" = cleanupMu
    other, self,  \* otherAllocation and selfAllocation of every pool
    started,      \* serverStarted of every server
    listener, snapshot,                     \* ListAndWatch of every server
    boot, bootAlloc, bootFree,              \* the start-up sequence of main()
    view,         \* the device list the kubelet last received per resource
    pod, grant,   \* per path: state of its container, and what was granted
    dirs, mdirs,  \* config and metrics directories that exist
    memo,         \* paths of pods in the PodWatcher's memo
    dropping,     \* paths removed by the PodWatcher, deallocation not yet sent
    call,         \* the Allocate call the kubelet is waiting for
    restarts, failures, timeouts            \* bounded environment events

chans    == <<allocatedCh, deallocatedCh, mountedCh>>
runVars  == <<pc, msg, conflicts, job, next, resume, claiming>>
cleanVars == <<cleaner, cleanTodo, cleanKept>>
poolVars == <<other, self>>
srvVars  == <<started, listener, snapshot, view>>
bootVars == <<boot, bootAlloc, bootFree>>
podVars  == <<pod, grant, dirs, mdirs, memo, dropping, call>>
bounds   == <<restarts, failures, timeouts>>
infoVars == <<allocation, reserved, runVars, poolVars>>  \* written by Run
hostVars == <<bootVars, podVars, bounds>>                \* everything around it
vars     == <<chans, infoVars, cleanVars, srvVars, hostVars>>

(* Messages. MountPoints of an AllocationInfo sent by Allocate is the      *)
(* config directory; the one sent at start-up also names the metrics       *)
(* directory of the container (an empty string without metrics).           *)
AllocationInfo   == [devs : SUBSET Devices, mnt : Paths, pool : Servers,
                     from : {"allocate", "initial"}]
DeallocationInfo == [devs : SUBSET Devices, pool : 0..NumServers]
Job              == [devs : SUBSET Devices, pool : 0..NumServers, allocated : BOOLEAN]

NoMsg == [devs |-> {}, mnt |-> NoPath, pool |-> 0, from |-> "none"]
NoJob == [devs |-> {}, pool |-> 0, allocated |-> FALSE]
NoGrant == [devs |-> {}, pool |-> 0]

(* Type invariant of SharedInfo, of the servers and of the kubelet.        *)
TypeOK ==
    /\ allocatedCh \in Seq(AllocationInfo)
    /\ deallocatedCh \in Seq(DeallocationInfo)
    /\ mountedCh \in Seq(Paths)
    /\ DOMAIN allocation \subseteq Devices
    /\ allocation \in [DOMAIN allocation -> [pool : Servers, mnt : Paths]]
    /\ DOMAIN reserved \subseteq Paths
    /\ reserved \in [DOMAIN reserved -> {"fresh", "old"}]
    /\ pc \in {"select", "conflicts", "notify", "signal", "reserve", "claim"}
    /\ msg \in AllocationInfo \cup {NoMsg}
    /\ conflicts \subseteq [devs : SUBSET Devices, pool : Servers]
    /\ job \in Job
    /\ next \in 1..(NumServers + 1)
    /\ resume \in {"select", "conflicts", "reserve"}
    /\ claiming \in Paths \cup {NoPath}
    /\ cleaner \in {"idle", "holding"}
    /\ cleanTodo \subseteq Paths
    /\ cleanKept \subseteq Paths
    /\ other \in [Servers -> SUBSET Devices]
    /\ self \in [Servers -> SUBSET Devices]
    /\ started \in [Servers -> BOOLEAN]
    /\ listener \in [Servers -> {"none", "initial", "waiting", "update", "sending"}]
    /\ snapshot \in [Servers -> SUBSET Devices]
    /\ view \in [Servers -> SUBSET Devices]
    /\ boot \in {"notify", "free", "serving"}
    /\ bootAlloc \subseteq AllocationInfo
    /\ bootFree \subseteq DeallocationInfo
    /\ pod \in [Paths -> {"none", "created", "mounted", "exited", "gone"}]
    /\ grant \in [Paths -> DeallocationInfo]
    /\ dirs \subseteq Paths
    /\ mdirs \subseteq Paths
    /\ memo \subseteq Paths
    /\ dropping \subseteq Paths
    /\ call \in Paths \cup {NoPath}
    /\ restarts \in Nat
    /\ failures \in Nat
    /\ timeouts \in Nat

(* The pod has ended; "exited" if its container had been running.          *)
Ended(p) == pod[p] \in {"exited", "gone"}

(* A freshly started plugin on a node where nothing was allocated.         *)
Init ==
    /\ allocatedCh = <<>>
    /\ deallocatedCh = <<>>
    /\ mountedCh = <<>>
    /\ allocation = [d \in {} |-> [pool |-> 0, mnt |-> NoPath]]
    /\ reserved = [p \in {} |-> "fresh"]
    /\ pc = "select"
    /\ msg = NoMsg
    /\ conflicts = {}
    /\ job = NoJob
    /\ next = 1
    /\ resume = "select"
    /\ claiming = NoPath
    /\ cleaner = "idle"
    /\ cleanTodo = {}
    /\ cleanKept = {}
    /\ other = [s \in Servers |-> {}]
    /\ self = [s \in Servers |-> {}]
    /\ started = [s \in Servers |-> FALSE]
    /\ listener = [s \in Servers |-> "none"]
    /\ snapshot = [s \in Servers |-> {}]
    /\ view = [s \in Servers |-> {}]
    /\ boot = "notify"
    /\ bootAlloc = {}
    /\ bootFree = {}
    /\ pod = [p \in Paths |-> "none"]
    /\ grant = [p \in Paths |-> NoGrant]
    /\ dirs = {}
    /\ mdirs = {}
    /\ memo = {}
    /\ dropping = {}
    /\ call = NoPath
    /\ restarts = 0
    /\ failures = 0
    /\ timeouts = 0
-----------------------------------------------------------------------------
(* SpyreDeviceSharedInfo.Run: one goroutine, one message at a time; the    *)
(* select takes any channel that has one.                                  *)

(* handleAllocated drops a message without mount paths, or one of whose    *)
(* mount paths does not exist. A grant whose directory could not be        *)
(* written has no mount path; here its path is simply not in dirs.         *)
MountPathUnchecked(m) == TRUE  \* mutant

MountPathExists(m) == m.mnt \in dirs /\ (m.from = "initial" => m.mnt \in mdirs)

(* what updateAllocation stores for each device of a message               *)
RecordedNoMount(m) == [pool |-> m.pool, mnt |-> NoPath]  \* mutant

Recorded(m) == [pool |-> m.pool, mnt |-> m.mnt]

(* devices already recorded for the same grant ...                         *)
DuplicateDevices(m) == {d \in m.devs \cap DOMAIN allocation : allocation[d] = Recorded(m)}

(* ... stop the scan, so conflicts are collected over the devices before   *)
(* the first of them (the order in the list is not modelled).              *)
Scanned(m) ==
    IF DuplicateDevices(m) = {} THEN {m.devs} ELSE SUBSET (m.devs \ DuplicateDevices(m))

ConflictInfos(m, scanned) ==
    LET clash == {d \in scanned \cap DOMAIN allocation : allocation[d].pool # m.pool}
        pools == {allocation[d].pool : d \in clash}
    IN  {[devs |-> {d \in clash : allocation[d].pool = q}, pool |-> q] : q \in pools}

RecvAllocated ==
    /\ pc = "select"
    /\ allocatedCh # <<>>
    /\ allocatedCh' = Tail(allocatedCh)
    /\ LET m == Head(allocatedCh)
       IN  IF m.devs # {} /\ MountPathExists(m)
           THEN /\ msg' = m
                /\ pc' = "conflicts"
                /\ \E scanned \in Scanned(m) : conflicts' = ConflictInfos(m, scanned)
           ELSE UNCHANGED <<msg, pc, conflicts>>
    /\ UNCHANGED <<deallocatedCh, mountedCh, allocation, reserved, job, next, resume,
                   claiming, cleanVars, poolVars, srvVars, hostVars>>

(* notify(existing resource, its conflicting devices, false)               *)
ReleaseConflict ==
    /\ pc = "conflicts"
    /\ \E c \in conflicts :
          /\ conflicts' = conflicts \ {c}
          /\ job' = [devs |-> c.devs, pool |-> c.pool, allocated |-> FALSE]
    /\ next' = 1
    /\ resume' = "conflicts"
    /\ pc' = "notify"
    /\ UNCHANGED <<chans, allocation, reserved, msg, claiming, cleanVars, poolVars,
                   srvVars, hostVars>>

(* the rest of updateAllocation: record the grant, notify everyone         *)
RecordAllocation ==
    /\ pc = "conflicts"
    /\ conflicts = {}
    /\ IF DuplicateDevices(msg) = {}
       THEN /\ allocation' = [d \in DOMAIN allocation \cup msg.devs |->
                                IF d \in msg.devs THEN Recorded(msg) ELSE allocation[d]]
            /\ job' = [devs |-> msg.devs, pool |-> msg.pool, allocated |-> TRUE]
            /\ next' = 1
            /\ resume' = "reserve"
            /\ pc' = "notify"
       ELSE /\ pc' = "reserve"
            /\ UNCHANGED <<allocation, job, next, resume>>
    /\ UNCHANGED <<chans, reserved, msg, conflicts, claiming, cleanVars, poolVars,
                   srvVars, hostVars>>

(* the rest of handleAllocated, under cleanupMu                            *)
Reserve ==
    /\ pc = "reserve"
    /\ cleaner = "idle"
    /\ reserved' = [p \in DOMAIN reserved \cup {msg.mnt} |->
                      IF p = msg.mnt THEN "fresh" ELSE reserved[p]]
    /\ msg' = NoMsg
    /\ pc' = "select"
    /\ UNCHANGED <<chans, allocation, conflicts, job, next, resume, claiming, cleanVars,
                   poolVars, srvVars, hostVars>>

(* deleteAllocation: by device ID, whoever holds the record                *)
DeletedNone(devs) == allocation  \* mutant

Deleted(devs) == [d \in DOMAIN allocation \ devs |-> allocation[d]]

RecvDeallocated ==
    /\ pc = "select"
    /\ deallocatedCh # <<>>
    /\ deallocatedCh' = Tail(deallocatedCh)
    /\ LET m == Head(deallocatedCh)
       IN  IF m.devs # {}
           THEN /\ allocation' = Deleted(m.devs)
                /\ job' = [devs |-> m.devs, pool |-> m.pool, allocated |-> FALSE]
                /\ next' = 1
                /\ resume' = "select"
                /\ pc' = "notify"
           ELSE UNCHANGED <<allocation, job, next, resume, pc>>
    /\ UNCHANGED <<allocatedCh, mountedCh, reserved, msg, conflicts, claiming,
                   cleanVars, poolVars, srvVars, hostVars>>

RecvMounted ==
    /\ pc = "select"
    /\ mountedCh # <<>>
    /\ mountedCh' = Tail(mountedCh)
    /\ claiming' = Head(mountedCh)
    /\ pc' = "claim"
    /\ UNCHANGED <<allocatedCh, deallocatedCh, allocation, reserved, msg, conflicts,
                   job, next, resume, cleanVars, poolVars, srvVars, hostVars>>

(* claimMountedPaths, once it has cleanupMu                                *)
ClaimMountedPath ==
    /\ pc = "claim"
    /\ cleaner = "idle"
    /\ reserved' = [p \in DOMAIN reserved \ {claiming} |-> reserved[p]]
    /\ claiming' = NoPath
    /\ pc' = "select"
    /\ UNCHANGED <<chans, allocation, msg, conflicts, job, next, resume, cleanVars,
                   poolVars, srvVars, hostVars>>
-----------------------------------------------------------------------------
(* notify(): the servers one after the other. The server of the resource   *)
(* itself is told only if the resource is topology aware.                  *)
SkipsPlain(s) == s \notin TopologyAware  \* mutant

Skips(s) == s = job.pool /\ s \notin TopologyAware

NotifySkip ==
    /\ pc = "notify"
    /\ next \in Servers
    /\ Skips(next)
    /\ next' = next + 1
    /\ UNCHANGED <<chans, allocation, reserved, pc, msg, conflicts, job, resume,
                   claiming, cleanVars, poolVars, srvVars, hostVars>>

(* what the pool's InformedBySharedInfo returns                            *)
ChangedIfAllocated(s) == job.allocated /\ (other'[s] # other[s] \/ self'[s] # self[s])  \* mutant

Changed(s) == other'[s] # other[s] \/ self'[s] # self[s]

(* resourceServer.InformedBySharedInfo up to the send on updateSignal,     *)
(* which blocks until ListAndWatch receives it.                            *)
InformedBySharedInfo(s) ==
    /\ other' = [other EXCEPT ![s] = InformedOther(PoolDevices[s], other[s], self[s],
                                         job.devs, job.allocated, s = job.pool)]
    /\ self' = [self EXCEPT ![s] = InformedSelf(PoolDevices[s], other[s], self[s],
                                         job.devs, job.allocated, s = job.pool)]
    /\ IF started[s] /\ Changed(s)
       THEN pc' = "signal" /\ UNCHANGED next
       ELSE next' = next + 1 /\ UNCHANGED pc

NotifyServer ==
    /\ pc = "notify"
    /\ next \in Servers
    /\ ~Skips(next)
    /\ InformedBySharedInfo(next)
    /\ UNCHANGED <<chans, allocation, reserved, msg, conflicts, job, resume, claiming,
                   cleanVars, srvVars, hostVars>>

(* updateSignal is unbuffered: both sides move.                            *)
UpdateSignal ==
    /\ pc = "signal"
    /\ listener[next] = "waiting"
    /\ listener' = [listener EXCEPT ![next] = "update"]
    /\ next' = next + 1
    /\ pc' = "notify"
    /\ UNCHANGED <<chans, allocation, reserved, msg, conflicts, job, resume, claiming,
                   cleanVars, poolVars, started, snapshot, view, hostVars>>

NotifyDone ==
    /\ pc = "notify"
    /\ next = NumServers + 1
    /\ pc' = resume
    /\ job' = NoJob
    /\ next' = 1
    /\ resume' = "select"
    /\ UNCHANGED <<chans, allocation, reserved, msg, conflicts, claiming, cleanVars,
                   poolVars, srvVars, hostVars>>

RunNext ==
    \/ RecvAllocated \/ RecvDeallocated \/ RecvMounted
    \/ ReleaseConflict \/ RecordAllocation \/ Reserve \/ ClaimMountedPath
    \/ NotifySkip \/ NotifyServer \/ UpdateSignal \/ NotifyDone
-----------------------------------------------------------------------------
(* resourceServer.ListAndWatch. serverStarted is set once and never reset. *)

(* the device lists ListAndWatch may compute from the pool's current maps  *)
Advertisable(s) ==
    LET deviceMap == GetDevices(PoolDevices[s], other[s])
    IN  IF s \in TopologyAware
        THEN GetMaxValidPeers(deviceMap, self[s], Peers[s])
        ELSE {deviceMap}

(* the kubelet opens the stream; the initial list is computed              *)
ListAndWatch(s) ==
    /\ boot = "serving"
    /\ listener[s] = "none"
    /\ ~started[s]
    /\ listener' = [listener EXCEPT ![s] = "initial"]
    /\ \E devs \in Advertisable(s) : snapshot' = [snapshot EXCEPT ![s] = devs]
    /\ UNCHANGED <<chans, infoVars, cleanVars, started, view, hostVars>>

ComputeUpdate(s) ==
    /\ listener[s] = "update"
    /\ listener' = [listener EXCEPT ![s] = "sending"]
    /\ \E devs \in Advertisable(s) : snapshot' = [snapshot EXCEPT ![s] = devs]
    /\ UNCHANGED <<chans, infoVars, cleanVars, started, view, hostVars>>

(* mutant of Send: ListAndWatch returns after its first update             *)
SendOneUpdate(s) ==
    /\ listener[s] \in {"initial", "sending"}
    /\ view' = [view EXCEPT ![s] = snapshot[s]]
    /\ snapshot' = [snapshot EXCEPT ![s] = {}]
    /\ started' = [started EXCEPT ![s] = TRUE]
    /\ listener' = [listener EXCEPT ![s] = IF @ = "initial" THEN "waiting" ELSE "none"]
    /\ UNCHANGED <<chans, infoVars, cleanVars, hostVars>>

(* stream.Send succeeds; after the first one the server counts as started  *)
Send(s) ==
    /\ listener[s] \in {"initial", "sending"}
    /\ view' = [view EXCEPT ![s] = snapshot[s]]
    /\ snapshot' = [snapshot EXCEPT ![s] = {}]
    /\ started' = [started EXCEPT ![s] = TRUE]
    /\ listener' = [listener EXCEPT ![s] = "waiting"]
    /\ UNCHANGED <<chans, infoVars, cleanVars, hostVars>>

(* stream.Send fails: ListAndWatch returns, the kubelet drops the devices  *)
SendFails(s) ==
    /\ failures < MaxFailures
    /\ listener[s] = "sending"
    /\ failures' = failures + 1
    /\ view' = [view EXCEPT ![s] = {}]
    /\ snapshot' = [snapshot EXCEPT ![s] = {}]
    /\ listener' = [listener EXCEPT ![s] = "none"]
    /\ UNCHANGED <<chans, infoVars, cleanVars, started, bootVars, podVars, restarts,
                   timeouts>>

ServerNext ==
    \E s \in Servers : ListAndWatch(s) \/ ComputeUpdate(s) \/ Send(s) \/ SendFails(s)
-----------------------------------------------------------------------------
(* periodicClean: its own goroutine, cleanupMu held for a whole pass.      *)

(* A pass that would keep every entry changes nothing and is left out.     *)
CleanStart ==
    /\ cleaner = "idle"
    /\ \E p \in DOMAIN reserved : p \notin dirs \/ reserved[p] = "old"
    /\ cleaner' = "holding"
    /\ cleanTodo' = DOMAIN reserved
    /\ cleanKept' = {}
    /\ UNCHANGED <<chans, infoVars, srvVars, hostVars>>

CleanDrop(p) ==
    /\ p \in cleanTodo \ dirs
    /\ cleanTodo' = cleanTodo \ {p}
    /\ UNCHANGED <<chans, infoVars, cleaner, cleanKept, srvVars, hostVars>>

CleanKeep(p) ==
    /\ p \in cleanTodo \cap dirs
    /\ reserved[p] = "fresh"
    /\ cleanTodo' = cleanTodo \ {p}
    /\ cleanKept' = cleanKept \cup {p}
    /\ UNCHANGED <<chans, infoVars, cleaner, srvVars, hostVars>>

(* forceDeallocateIfNoClaim: what to free is read back from the files the  *)
(* grant left in the directory; the directory itself stays.                *)
ForceDeallocate(p) ==
    /\ p \in cleanTodo \cap dirs
    /\ reserved[p] = "old"
    /\ Len(deallocatedCh) < ChanCap
    /\ deallocatedCh' = Append(deallocatedCh, grant[p])
    /\ cleanTodo' = cleanTodo \ {p}
    /\ UNCHANGED <<allocatedCh, mountedCh, infoVars, cleaner, cleanKept, srvVars,
                   hostVars>>

CleanEnd ==
    /\ cleaner = "holding"
    /\ cleanTodo = {}
    /\ reserved' = [p \in cleanKept |-> reserved[p]]
    /\ cleaner' = "idle"
    /\ cleanKept' = {}
    /\ UNCHANGED <<chans, allocation, runVars, cleanTodo, poolVars, srvVars, hostVars>>

(* More than 30s have passed since the reservation.                        *)
Expire(p) ==
    /\ cleaner = "idle"
    /\ p \in DOMAIN reserved
    /\ reserved[p] = "fresh"
    /\ TimelyStart => Ended(p)
    /\ reserved' = [reserved EXCEPT ![p] = "old"]
    /\ UNCHANGED <<chans, allocation, runVars, cleanVars, poolVars, srvVars, hostVars>>

CleanNext ==
    \/ CleanStart \/ CleanEnd
    \/ \E p \in Paths : CleanDrop(p) \/ CleanKeep(p) \/ ForceDeallocate(p) \/ Expire(p)
=============================================================================
