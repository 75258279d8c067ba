--------------------------- MODULE HealthHandler ---------------------------
(***************************************************************************)
(* HealthInfoHandler and what it drives: the provider's list of devices,   *)
(* the resource pools a hot-plug rebuilds, the dynamic topology file and   *)
(* the SpyreNodeState. Its goroutine takes tokens from updateChan, one     *)
(* pass over the node for each that is not too close to the last. The      *)
(* checker is any that keeps the contract of HealthChecker.                *)
(***************************************************************************)
EXTENDS HealthChecker, Topology, NodeState

CONSTANTS Original,         \* the immutable topology file
          Attentive,        \* no change goes unseen by the checker
          MaxChanges,       \* bound: devices that break, recover, come or go
          MaxMishaps        \* bound: scans, API calls or file writes that fail, restarts

ASSUME DevicesAssumption ==
    IsFiniteSet(Devices) /\ Devices = Pfs \cup Vfs /\ Pfs \cap Vfs = {}
ASSUME PfOfAssumption == PfOf \in [Vfs -> Pfs \cup {NoPf}] /\ NoPf \notin Devices
ASSUME FlagAssumption == Attentive \in BOOLEAN
ASSUME BoundsAssumption == {MaxChanges, MaxMishaps} \subseteq Nat
ASSUME OriginalAssumption == Original \in Topologies

VARIABLES actual,           \* the state of every device, "ABSENT" if not bound
          changes,
          recent,           \* less than the debounce interval since the last pass
          young, ripe,      \* debounce timers set in this interval, and expired
          hpc,              \* what the handler's goroutine does next
          checker,          \* which checker the handler has been started with, or "none"
          deviceList,       \* devices the provider ever found
          devs, info, new, changed,     \* the locals of a pass
          pools, served,    \* devices of each kind of pool, kinds with a server
          dynFile, cache,   \* the dynamic topology file, PciTopology
          spec, pcitopo, status,        \* the SpyreNodeState
          pending,          \* the status the pass will write
          mishaps,
          seen,             \* (ghost) the report in force when the last pass began
          failed,           \* (ghost) the last pass hit a failure
          torn              \* (ghost) a spec was written without its status

nodeVars == <<actual, changes>>
timerVars == <<recent, young, ripe>>
passVars == <<devs, info, new, changed>>
poolVars == <<deviceList, pools, served>>
topoVars == <<dynFile, cache>>
stateVars == <<spec, pcitopo, status, pending>>
ghosts == <<seen, failed, torn>>
vars == <<checkerVars, nodeVars, timerVars, hpc, checker, passVars, poolVars, topoVars,
          stateVars, mishaps, ghosts>>

Kind(d) == IF d \in Pfs THEN "pf" ELSE "vf"
Kinds == {"pf", "vf"}
Present == {d \in Devices : actual[d] # "ABSENT"}
None == [d \in {} |-> "ONLINE"]
Observed == [d \in Present |-> IF checker = "client" THEN actual[d] ELSE "ONLINE"]
Existing == UNION {pools[k] : k \in served}

(* A step of several that may fail.                                        *)
Fault == mishaps < MaxMishaps /\ mishaps' = mishaps + 1 /\ failed' = TRUE

(***************************************************************************)
(* Start-up: InitServers, the clearing and the first write of the node     *)
(* state, the start of the handler and of its checker.                     *)
(***************************************************************************)

Init ==
    /\ actual \in [Devices -> {"ONLINE", "ABSENT"}] /\ changes = 0
    /\ report = None /\ owed = FALSE /\ updateChan = 0
    /\ recent = FALSE /\ young = 0 /\ ripe = 0
    /\ hpc = "init" /\ checker = "none"
    /\ deviceList = {} /\ pools = [k \in Kinds |-> {}] /\ served = {}
    /\ devs = {} /\ info = None /\ new = {} /\ changed = FALSE
    /\ dynFile = NoTopo /\ cache = NoTopo
    /\ spec = None /\ pcitopo = NoTopo
    /\ status = [list |-> None, condition |-> HealthCondition(None, {})] /\ pending = status
    /\ mishaps = 0
    /\ seen = None /\ failed = FALSE /\ torn = FALSE

(* A server for each kind that has devices; making one caches the topology.*)
InitServers ==
    /\ hpc = "init"
    /\ deviceList' = Present
    /\ pools' = [k \in Kinds |-> {d \in Present : Kind(d) = k}]
    /\ served' = {Kind(d) : d \in Present}
    /\ cache' = IF Present # {} THEN GetPciTopology(cache, dynFile, Original) ELSE cache
    /\ devs' = Present /\ info' = [d \in Present |-> "ONLINE"]
    /\ hpc' = "clear"
    /\ UNCHANGED <<checkerVars, nodeVars, timerVars, checker, new, changed, dynFile,
                   stateVars, mishaps, ghosts>>

ClearNodeState ==
    /\ hpc = "clear"
    /\ hpc' = "write"
    /\ \/ spec' = None /\ pcitopo' = NoTopo /\ UNCHANGED <<mishaps, failed>>
       \/ Fault /\ UNCHANGED <<spec, pcitopo>>
    /\ UNCHANGED <<checkerVars, nodeVars, timerVars, checker, passVars, poolVars, topoVars,
                   status, pending, seen, torn>>

(* GetHealthChecker takes the client if there is a socket for it. It begins*)
(* without a report, the monitor with a scan and a trigger.                *)
StartHandler ==
    /\ hpc = "start"
    /\ LET ensured == Ensured(cache, dynFile, Original, Present)
       IN  dynFile' = ensured.dynamic /\ cache' = ensured.cache
    /\ checker' \in {"client", "monitor"}
    /\ report' = IF checker' = "client" THEN None ELSE [d \in Present |-> "ONLINE"]
    /\ owed' = (checker' = "monitor")
    /\ hpc' = "idle"
    /\ UNCHANGED <<updateChan, nodeVars, timerVars, passVars, poolVars, stateVars,
                   mishaps, ghosts>>

(***************************************************************************)
(* processUpdate                                                           *)
(***************************************************************************)

(* (mutant: a token that comes too early is forgotten)                     *)
Forget == UNCHANGED young

PutOff == young' = young + 1

(* A token that comes too early is put off by a timer.                     *)
ProcessUpdate ==
    /\ hpc = "idle"
    /\ Take
    /\ IF recent
       THEN PutOff /\ UNCHANGED hpc
       ELSE hpc' = "scan" /\ UNCHANGED young
    /\ UNCHANGED <<nodeVars, recent, ripe, checker, passVars, poolVars, topoVars, stateVars,
                   mishaps, ghosts>>

IntervalElapses ==
    /\ recent
    /\ recent' = FALSE
    /\ young' = 0 /\ ripe' = ripe + young
    /\ UNCHANGED <<checkerVars, nodeVars, hpc, checker, passVars, poolVars, topoVars, stateVars,
                   mishaps, ghosts>>

TimerFires ==
    /\ ripe > 0
    /\ ripe' = ripe - 1
    /\ Nudge
    /\ UNCHANGED <<nodeVars, recent, young, hpc, checker, passVars, poolVars, topoVars, stateVars,
                   mishaps, ghosts>>

(* The pass, or the first write, is over.                                  *)
NoLocals == devs' = {} /\ info' = None /\ new' = {} /\ changed' = FALSE

Done ==
    /\ NoLocals
    /\ IF checker # "none"
       THEN hpc' = "idle" /\ recent' = TRUE
       ELSE hpc' = "start" /\ UNCHANGED recent

AddTargetDevices == deviceList' = deviceList \cup Present

(* rediscoverAndGetDeviceInfo: every device ever found that is still bound *)
(* is made anew, as healthy.                                               *)
Rediscover ==
    /\ hpc = "scan"
    /\ seen' = report
    /\ \/ /\ AddTargetDevices
          /\ devs' = deviceList' \cap Present
          /\ hpc' = "assess"
          /\ failed' = FALSE
          /\ UNCHANGED <<mishaps, recent, info, new, changed>>
       \/ Fault /\ Done /\ UNCHANGED deviceList
    /\ UNCHANGED <<checkerVars, nodeVars, young, ripe, checker,
                   pools, served, topoVars, stateVars, torn>>

(* (mutant: devices the client reports are added)                          *)
HealthInfoOfAll ==
    [d \in devs \cup DOMAIN report |->
        IF checker = "client" /\ d \in DOMAIN report THEN report[d] ELSE "ONLINE"]

(* initHealthInfo and UpdateHealths                                        *)
HealthInfo ==
    [d \in devs |-> IF checker = "client" /\ d \in DOMAIN report THEN report[d] ELSE "ONLINE"]

(* (mutant: only devices that are there are looked at)                     *)
ChangesPresentOnly(health) == \E d \in devs : d \notin Existing \/ health[d] # "ONLINE"

(* IdentifyDeviceChanges compares with the device just made, which is      *)
(* always healthy.                                                         *)
DeviceChanges(health) ==
    \/ \E d \in devs : d \notin Existing \/ health[d] # "ONLINE"
    \/ Existing \ devs # {}

Assess ==
    /\ hpc = "assess"
    /\ info' = HealthInfo
    /\ new' = devs \ Existing
    /\ changed' = DeviceChanges(info')
    /\ hpc' = IF new' # {} THEN "hotplug" ELSE "topo"
    /\ UNCHANGED <<checkerVars, nodeVars, timerVars, checker, devs, poolVars, topoVars, stateVars,
                   mishaps, ghosts>>

(* (mutant: the new pool holds the new devices only)                       *)
NewPoolOfNew(k) == {d \in new \cap Present : Kind(d) = k}

(* updateAggregatedResourcePools rediscovers the devices of the provider.  *)
NewPool(k) == {d \in deviceList \cap Present : Kind(d) = k}

(* The kinds whose server a hot-plug replaces, if a new device is still    *)
(* there, and those for which there is nothing to make a new server of.    *)
Replaced == {k \in served : new \cap Present # {} /\ \E d \in new : Kind(d) = k}
Emptied == {k \in Replaced : NewPool(k) = {}}

(* HandleHotpluggedDevices: the provider adds the new devices, and the     *)
(* servers of their kinds are stopped and replaced by ones with all the    *)
(* devices of the provider. Where that fails the stopped server stays, and *)
(* TriggerUpdate hangs on it for good if it was ever started.              *)
Hotplug ==
    /\ hpc = "hotplug"
    /\ \/ Fault /\ hpc' = "topo" /\ UNCHANGED pools
       \/ \E lost \in SUBSET Replaced :
             /\ Emptied \subseteq lost
             /\ pools' = [k \in Kinds |-> IF k \in Replaced \ lost THEN NewPool(k) ELSE pools[k]]
             /\ hpc' \in (IF lost = {} THEN {"topo"} ELSE {"topo", "hung"})
             /\ IF lost = Emptied
                THEN failed' = (failed \/ lost # {}) /\ UNCHANGED mishaps
                ELSE Fault
    /\ UNCHANGED <<checkerVars, nodeVars, timerVars, checker, passVars, deviceList, served,
                   topoVars, stateVars, seen, torn>>

(* ProcessDeviceHealth: the reported state, and a VF inherits the state of *)
(* a PF that is not well.                                                  *)
DeviceState(d) ==
    IF info[d] = "ONLINE" /\ d \in Vfs /\ PfOf[d] \in DOMAIN info THEN info[PfOf[d]] ELSE info[d]

GetHealth(d) == IF DeviceState(d) = "ONLINE" THEN "Healthy" ELSE "Unhealthy"

UpdateDynamicTopology ==
    /\ hpc = "topo"
    /\ hpc' = "write"
    /\ \/ ~changed /\ UNCHANGED <<topoVars, mishaps, failed>>
       \/ /\ changed
          /\ dynFile' = FilterTopologyByDeviceHealth(Original, {d \in devs : GetHealth(d) = "Healthy"})
          /\ cache' = NoTopo
          /\ UNCHANGED <<mishaps, failed>>
       \/ changed /\ Fault /\ UNCHANGED topoVars
    /\ UNCHANGED <<checkerVars, nodeVars, timerVars, checker, passVars, poolVars, stateVars,
                   seen, torn>>

(* WriteSpyreInterfacesToNodeState up to the update of the spec. The       *)
(* status is merged before, from what was read.                            *)
WriteSpec ==
    /\ hpc = "write"
    /\ \/ LET found   == GetSpyreInterfaceMaps(devs, [d \in devs |-> GetHealth(d)])
              updated == [d \in {e \in devs : DeviceState(e) # "ONLINE"} |-> DeviceState(d)]
              newSpec == UpdatedInterfaces(spec, found)
              ensured == Ensured(cache, dynFile, Original, Present)
              topo    == GetPciTopology(ensured.cache, ensured.dynamic, Original)
          IN  /\ dynFile' = ensured.dynamic /\ cache' = topo
              /\ \/ /\ spec' = newSpec /\ pcitopo' = topo
                    /\ pending' = MergePatch(newSpec, status,
                                     [a \in DOMAIN updated \cup DOMAIN Removed(spec, found) |->
                                         IF a \in DOMAIN updated THEN updated[a] ELSE "REMOVED"])
                    /\ hpc' = "status"
                    /\ UNCHANGED <<recent, passVars, mishaps, failed>>
                 \/ /\ newSpec # spec \/ topo # pcitopo
                    /\ Fault /\ Done
                    /\ UNCHANGED <<spec, pcitopo, pending>>
       \/ Fault /\ Done /\ UNCHANGED <<topoVars, spec, pcitopo, pending>>
    /\ UNCHANGED <<checkerVars, nodeVars, young, ripe, checker, poolVars,
                   status, seen, torn>>

WriteStatus ==
    /\ hpc = "status"
    /\ Done
    /\ \/ /\ status' = pending
          /\ torn' = (torn /\ pending.list = status.list)
          /\ UNCHANGED <<mishaps, failed>>
       \/ pending # status /\ Fault /\ torn' = TRUE /\ UNCHANGED status
    /\ pending' = status'
    /\ UNCHANGED <<checkerVars, nodeVars, young, ripe, checker, poolVars, topoVars,
                   spec, pcitopo, seen>>

(***************************************************************************)
(* The checker, the devices and restarts of the plugin.                    *)
(***************************************************************************)

CheckerStep ==
    /\ checker # "none"
    /\ Change(Observed) \/ Trigger
    /\ UNCHANGED <<nodeVars, timerVars, hpc, checker, passVars, poolVars, topoVars, stateVars,
                   mishaps, ghosts>>

DeviceChange(d, s) ==
    /\ changes < MaxChanges
    /\ changes' = changes + 1
    /\ Attentive /\ checker # "none" => report = Observed
    /\ actual[d] # s
    /\ actual' = [actual EXCEPT ![d] = s]
    /\ UNCHANGED <<checkerVars, timerVars, hpc, checker, passVars, poolVars, topoVars, stateVars,
                   mishaps, ghosts>>

(* Only the SpyreNodeState survives: the dynamic file is in the            *)
(* container's own /tmp.                                                   *)
Restart ==
    /\ mishaps < MaxMishaps
    /\ mishaps' = mishaps + 1
    /\ report' = None /\ owed' = FALSE /\ updateChan' = 0
    /\ recent' = FALSE /\ young' = 0 /\ ripe' = 0
    /\ hpc' = "init" /\ checker' = "none"
    /\ deviceList' = {} /\ pools' = [k \in Kinds |-> {}] /\ served' = {}
    /\ NoLocals /\ pending' = status
    /\ dynFile' = NoTopo /\ cache' = NoTopo
    /\ torn' = (torn \/ hpc = "status")
    /\ seen' = None /\ failed' = FALSE
    /\ UNCHANGED <<nodeVars, spec, pcitopo, status>>

Next ==
    \/ InitServers \/ ClearNodeState \/ StartHandler
    \/ ProcessUpdate \/ IntervalElapses \/ TimerFires
    \/ Rediscover \/ Assess \/ Hotplug \/ UpdateDynamicTopology \/ WriteSpec \/ WriteStatus
    \/ CheckerStep \/ Restart
    \/ \E d \in Devices, s \in {"ONLINE", "FAULT", "ABSENT"} : DeviceChange(d, s)

(* Goroutines run, timers expire and the checker scans or is told of every *)
(* change in the end.                                                      *)
Fairness ==
    /\ WF_vars(InitServers) /\ WF_vars(ClearNodeState) /\ WF_vars(StartHandler)
    /\ WF_vars(ProcessUpdate) /\ WF_vars(IntervalElapses) /\ WF_vars(TimerFires)
    /\ WF_vars(Rediscover) /\ WF_vars(Assess) /\ WF_vars(Hotplug)
    /\ WF_vars(UpdateDynamicTopology) /\ WF_vars(WriteSpec) /\ WF_vars(WriteStatus)
    /\ WF_vars(CheckerStep)

Spec == Init /\ [][Next]_vars /\ Fairness

(***************************************************************************)
(* Properties                                                              *)
(***************************************************************************)

(* Type invariant: the locals of a pass, the pools and the node state only *)
(* ever name devices the provider has found, whatever the checker reports. *)
HandlerTypeOK ==
    /\ actual \in [Devices -> {"ONLINE", "FAULT", "ABSENT"}]
    /\ DOMAIN report \subseteq Devices /\ owed \in BOOLEAN /\ updateChan \in {0, 1}
    /\ recent \in BOOLEAN /\ young \in Nat /\ ripe \in Nat
    /\ hpc \in {"init", "clear", "start", "idle", "scan", "assess", "hotplug", "topo",
                "hung", "write", "status"}
    /\ devs \subseteq deviceList /\ DOMAIN info \subseteq deviceList /\ new \subseteq devs
    /\ pools \in [Kinds -> SUBSET deviceList] /\ served \subseteq Kinds
    /\ dynFile \in Topologies \cup {NoTopo} /\ cache \in Topologies \cup {NoTopo}
    /\ pcitopo \in Topologies \cup {NoTopo}
    /\ DOMAIN spec \subseteq Devices /\ DOMAIN status.list \subseteq Devices

(* The capacity of updateChan is one, tokens that come too early are put   *)
(* off, and the report is read unsynchronised: still, whenever the checker *)
(* knows something the last pass did not begin with, a token, a debt or a  *)
(* timer is there to cause another pass.                                   *)
NoLostWakeUp ==
    checker # "none" /\ report # seen =>
        owed \/ updateChan = 1 \/ young + ripe > 0 \/ hpc = "scan"

(* Between passes the list of unhealthy devices names exactly the          *)
(* interfaces the spec marks, and the condition agrees with it, whatever   *)
(* devices broke, recovered or vanished while the plugin was at work or    *)
(* restarting. A status that could not be written spoils it.               *)
StatusMatchesSpec ==
    hpc = "idle" /\ ~failed /\ ~torn =>
        /\ DOMAIN status.list = Unhealthy(spec)
        /\ status.condition = HealthCondition(spec, Unhealthy(spec))

(* The last pass hit a failure, or the client still has nothing to report. *)
Excused == failed \/ (checker = "client" /\ report = None)

Well(d) == actual[d] = "ONLINE" \/ (actual[d] = "FAULT" /\ checker # "client")
WellWithPf(d) == Well(d) /\ (d \in Vfs /\ PfOf[d] \in Present => Well(PfOf[d]))
Published == IF pcitopo = NoTopo THEN {} ELSE pcitopo.devs
Interfaces == {d \in Devices : d \in Pfs \/ IsIsolatedVF(d)}

(* Once the devices stay as they are, the node state comes to show every   *)
(* interface that is present and to mark exactly those that are not well,  *)
(* unless the last pass failed: nothing repeats it.                        *)
NodeStateConverges ==
    <>[](\/ Excused
         \/ /\ Present \cap Interfaces \subseteq DOMAIN spec
            /\ \A d \in Interfaces \cap DOMAIN spec :
                  d \in Present \/ spec[d].health # "" =>
                     (spec[d].health = "Unhealthy" <=> ~Well(d)))

(* ... and the published topology lists no device of a pool that is broken *)
(* or gone: the scheduler would place pods on it.                          *)
TopologyExcludesBroken ==
    <>[](Excused \/ \A d \in Existing \cap Published : WellWithPf(d))

(* ... and every device that came while its kind had a server is in the    *)
(* pool of that server.                                                    *)
HotplugOffered ==
    <>[](Excused \/ \A d \in Present : Kind(d) \in served => d \in pools[Kind(d)])

(* A device that recovers is put back into the published topology.         *)
RecoveredIsRestored ==
    <>[](Excused \/ \A d \in Existing : WellWithPf(d) => d \in Published)
=============================================================================
