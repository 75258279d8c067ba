------------------------ MODULE HealthHandlerProofs ------------------------
(***************************************************************************)
(* No wake-up of the health handler is lost, and the status of the node    *)
(* state agrees with its spec between passes, for any set of devices and   *)
(* any number of changes and mishaps.                                      *)
(***************************************************************************)
EXTENDS HealthHandler, FiniteSetTheorems, TLAPS

(* Where the goroutine can be before and after the handler is started.     *)
StartInv ==
    /\ checker = "none" => seen = None /\ hpc \in {"init", "clear", "write", "status", "start"}
    /\ hpc = "start" => checker = "none"

TimerInv == young \in Nat /\ ripe \in Nat

WakeInv == StartInv /\ TimerInv /\ NoLostWakeUp

LEMMA WakeInit == Init => WakeInv
BY DEF Init, WakeInv, StartInv, TimerInv, NoLostWakeUp

(* Steps that touch neither the checker, the timers nor what was seen.     *)
LEMMA WakeKept ==
    ASSUME WakeInv, UNCHANGED <<report, owed, updateChan, young, ripe, checker, seen>>,
           hpc # "scan", hpc' # "scan",
           checker = "none" => hpc' \in {"init", "clear", "write", "status", "start"},
           hpc' = "start" => checker = "none"
    PROVE  WakeInv'
BY DEF WakeInv, StartInv, TimerInv, NoLostWakeUp

LEMMA WakeNext ==
    ASSUME WakeInv, [Next]_vars
    PROVE  WakeInv'
<1> USE DEF checkerVars, timerVars, ghosts
<1>1. CASE InitServers
  BY <1>1, WakeKept DEF InitServers, WakeInv, StartInv
<1>2. CASE ClearNodeState
  BY <1>2, WakeKept DEF ClearNodeState, WakeInv, StartInv
<1>3. CASE StartHandler
  <2>1. checker = "none" /\ seen = None
    BY <1>3 DEF StartHandler, WakeInv, StartInv
  <2>2. /\ checker' \in {"client", "monitor"} /\ hpc' = "idle"
        /\ UNCHANGED <<seen, young, ripe>>
    BY <1>3 DEF StartHandler
  <2>3. report' = seen' \/ owed'
    BY <1>3, <2>1, <2>2 DEF StartHandler
  <2> QED  BY <2>2, <2>3 DEF WakeInv, StartInv, TimerInv, NoLostWakeUp
<1>4. CASE ProcessUpdate
  <2>1. UNCHANGED <<report, checker, seen, ripe>> /\ hpc = "idle"
    BY <1>4 DEF ProcessUpdate, Take
  <2>2. \/ young' = young + 1 /\ hpc' = hpc
        \/ young' = young /\ hpc' = "scan"
    BY <1>4 DEF ProcessUpdate, PutOff
  <2> QED  BY <2>1, <2>2 DEF WakeInv, StartInv, TimerInv, NoLostWakeUp
<1>5. CASE IntervalElapses
  <2>1. UNCHANGED <<report, owed, updateChan, checker, seen, hpc>>
    BY <1>5 DEF IntervalElapses
  <2>2. young' = 0 /\ ripe' = ripe + young
    BY <1>5 DEF IntervalElapses
  <2> QED  BY <2>1, <2>2 DEF WakeInv, StartInv, TimerInv, NoLostWakeUp
<1>6. CASE TimerFires
  <2>1. updateChan' = 1 /\ UNCHANGED <<report, owed, checker, seen, hpc, young>>
    BY <1>6 DEF TimerFires, Nudge, SafeTriggerUpdate
  <2>2. ripe > 0 /\ ripe' = ripe - 1
    BY <1>6 DEF TimerFires
  <2> QED  BY <2>1, <2>2 DEF WakeInv, StartInv, TimerInv, NoLostWakeUp
<1>7. CASE Rediscover
  <2>1. /\ seen' = report' /\ hpc = "scan" /\ checker' = checker
        /\ UNCHANGED <<young, ripe>>
    BY <1>7 DEF Rediscover
  <2>2. checker # "none"
    BY <2>1 DEF WakeInv, StartInv
  <2>3. hpc' \in {"assess", "idle"}
    BY <1>7, <2>2 DEF Rediscover, Done
  <2> QED  BY <2>1, <2>2, <2>3 DEF WakeInv, StartInv, TimerInv, NoLostWakeUp
<1>8. CASE Assess \/ Hotplug \/ UpdateDynamicTopology
  <2>1. /\ UNCHANGED <<report, owed, updateChan, young, ripe, checker, seen>>
        /\ hpc # "scan" /\ hpc' \in {"hotplug", "topo", "hung", "write"}
        /\ hpc \in {"assess", "hotplug", "topo"}
    BY <1>8 DEF Assess, Hotplug, UpdateDynamicTopology
  <2> QED  BY <2>1, WakeKept DEF WakeInv, StartInv
<1>9. CASE WriteSpec \/ WriteStatus
  <2>1. /\ UNCHANGED <<report, owed, updateChan, young, ripe, checker, seen>>
        /\ hpc \in {"write", "status"}
    BY <1>9 DEF WriteSpec, WriteStatus
  <2>2. hpc' = "status" \/ Done
    BY <1>9 DEF WriteSpec, WriteStatus
  <2>3. hpc' = "status" \/ hpc' = (IF checker # "none" THEN "idle" ELSE "start")
    BY <2>2 DEF Done
  <2> QED  BY <2>1, <2>3, WakeKept
<1>10. CASE CheckerStep
  <2>1. /\ UNCHANGED <<young, ripe, hpc, checker, seen>> /\ checker # "none"
        /\ owed' \/ updateChan' = 1
    BY <1>10 DEF CheckerStep, Change, Trigger, SafeTriggerUpdate
  <2> QED  BY <2>1 DEF WakeInv, StartInv, TimerInv, NoLostWakeUp
<1>11. CASE Restart
  BY <1>11 DEF Restart, WakeInv, StartInv, TimerInv, NoLostWakeUp
<1>12. CASE (\E d \in Devices, s \in {"ONLINE", "FAULT", "ABSENT"} : DeviceChange(d, s))
            \/ UNCHANGED vars
  <2>1. UNCHANGED <<report, owed, updateChan, young, ripe, checker, seen, hpc>>
    BY <1>12 DEF DeviceChange, vars
  <2> QED  BY <2>1 DEF WakeInv, StartInv, TimerInv, NoLostWakeUp
<1> QED  BY <1>1, <1>2, <1>3, <1>4, <1>5, <1>6, <1>7, <1>8, <1>9, <1>10, <1>11, <1>12 DEF Next

(* Whatever devices, timers, tokens and failures do, a report the last     *)
(* pass has not begun with always leaves a cause for another pass: a token *)
(* in the channel of capacity one, one that is owed, or a debounce timer.  *)
THEOREM WakeUpsAreKept == Spec => []NoLostWakeUp
<1>1. WakeInv /\ [Next]_vars => WakeInv'
  BY WakeNext
<1>2. WakeInv => NoLostWakeUp
  BY DEF WakeInv
<1> QED  BY WakeInit, <1>1, <1>2, PTL DEF Spec
-----------------------------------------------------------------------------
(* What keeps the types inductive: the provider finds devices only, the    *)
(* status a pass is about to write names devices too, and a pass begins    *)
(* with nothing left of the last one.                                      *)
TypeInv ==
    /\ HandlerTypeOK
    /\ deviceList \subseteq Devices
    /\ DOMAIN pending.list \subseteq Devices
    /\ hpc \in {"init", "start", "idle", "scan"} => new = {} /\ info = None

(* The status matches the spec, as far as a pass has got: when the last    *)
(* write succeeded; before the next one, as far as the merge needs it      *)
(* (a device that is marked is in the list); and the status about to be    *)
(* written, whose list is left alone if it has not changed.                *)
Matches(st) ==
    /\ DOMAIN st.list = Unhealthy(spec)
    /\ st.condition = HealthCondition(spec, Unhealthy(spec))

MatchInv ==
    /\ hpc \in {"start", "idle"} /\ ~failed /\ ~torn => Matches(status)
    /\ hpc # "status" /\ ~torn => Unhealthy(spec) \subseteq DOMAIN status.list
    /\ hpc = "status" =>
          /\ pending.condition = HealthCondition(spec, Unhealthy(spec))
          /\ ~torn \/ pending.list # status.list => DOMAIN pending.list = Unhealthy(spec)

MaybeTopologies == Topologies \cup {NoTopo}

(* Filtering keeps a topology one.                                         *)
LEMMA RestrictedTopology ==
    ASSUME NEW t \in Topologies, NEW keep
    PROVE  Restricted(t, keep) \in Topologies
<1>1. t.devs \subseteq Devices /\ t.peers \in [Devices -> SUBSET Devices]
  BY DEF Topologies
<1>2. Cardinality(t.devs \cap keep) \in Nat
  <2>1. IsFiniteSet(t.devs \cap keep)
    BY <1>1, DevicesAssumption, FS_Subset
  <2> QED
    BY <2>1, FS_CardinalityType
<1> QED
  BY <1>1, <1>2 DEF Restricted, Topologies

(* ... and so do the files and the cache.                                  *)
LEMMA TopologyFiles ==
    ASSUME NEW c \in MaybeTopologies, NEW d \in MaybeTopologies, NEW present
    PROVE  /\ GetPciTopology(c, d, Original) \in Topologies
           /\ Ensured(c, d, Original, present).dynamic \in MaybeTopologies
           /\ Ensured(c, d, Original, present).cache \in MaybeTopologies
<1>1. GetPciTopology(c, d, Original) \in Topologies
  BY OriginalAssumption DEF GetPciTopology, CurrentFile, MaybeTopologies
<1> DEFINE filtered == FilterOutMissingDevice(Original, present)
<1>2. filtered \in Topologies
  BY OriginalAssumption, RestrictedTopology DEF FilterOutMissingDevice
<1>3. [filtered EXCEPT !.num = Original.num] \in Topologies
  <2> HIDE DEF filtered
  <2> QED
    BY <1>2, OriginalAssumption DEF Topologies
<1> QED
  BY <1>1, <1>2, <1>3 DEF Ensured, MaybeTopologies

(* What getSpyreInterfaceMaps finds are devices, and what it marks is a    *)
(* device of the pass that is not well.                                    *)
LEMMA FoundInterfaces ==
    ASSUME NEW D \in SUBSET Devices, NEW h
    PROVE  /\ DOMAIN GetSpyreInterfaceMaps(D, h) \subseteq Devices
           /\ \A a \in DOMAIN GetSpyreInterfaceMaps(D, h) :
                 GetSpyreInterfaceMaps(D, h)[a].health = "Unhealthy" => a \in D /\ h[a] = "Unhealthy"
<1> DEFINE vfsOf(a) == {v \in D \cap Vfs : PfOf[v] = a}
           own == {d \in D : d \in Pfs \/ IsIsolatedVF(d)}
           found == own \cup {p \in Pfs : vfsOf(p) # {}}
<1>1. GetSpyreInterfaceMaps(D, h) =
          [a \in found |-> [health |-> IF a \in own THEN h[a] ELSE "", vfs |-> vfsOf(a)]]
  BY DEF GetSpyreInterfaceMaps
<1>2. found \subseteq Devices
  BY DevicesAssumption
<1>3. own \subseteq D
  OBVIOUS
<1> HIDE DEF found, own, vfsOf
<1>4. ASSUME NEW a \in found
      PROVE  GetSpyreInterfaceMaps(D, h)[a].health = IF a \in own THEN h[a] ELSE ""
  <2> DEFINE health == IF a \in own THEN h[a] ELSE ""
             vfs == vfsOf(a)
  <2>1. GetSpyreInterfaceMaps(D, h)[a] = [health |-> health, vfs |-> vfs]
    BY <1>1
  <2> HIDE DEF health, vfs
  <2>2. GetSpyreInterfaceMaps(D, h)[a].health = health
    BY <2>1
  <2> QED
    BY <2>2 DEF health
<1>5. DOMAIN GetSpyreInterfaceMaps(D, h) = found
  BY <1>1
<1> QED
  BY <1>2, <1>3, <1>4, <1>5

(* The merge gets the condition right, and the list too unless a device    *)
(* that is marked is neither in the old list nor among the updates: if the *)
(* list is not written, all updates are in it and the length is right.     *)
LEMMA MergedStatus ==
    ASSUME NEW sp, NEW st, NEW up,
           Unhealthy(sp) \subseteq Devices, DOMAIN st.list \subseteq Devices
    PROVE  /\ MergePatch(sp, st, up).condition = HealthCondition(sp, Unhealthy(sp))
           /\ DOMAIN MergePatch(sp, st, up).list \in {Unhealthy(sp), DOMAIN st.list}
           /\ MergePatch(sp, st, up).list # st.list => DOMAIN MergePatch(sp, st, up).list = Unhealthy(sp)
           /\ Unhealthy(sp) \subseteq DOMAIN st.list \cup DOMAIN up =>
                 DOMAIN MergePatch(sp, st, up).list = Unhealthy(sp)
<1> DEFINE merged == [a \in Unhealthy(sp) |->
                         IF a \in DOMAIN up THEN up[a]
                         ELSE IF a \in DOMAIN st.list THEN st.list[a]
                         ELSE "UNSPECIFIED"]
<1>1. MergePatch(sp, st, up) =
          [list |-> IF ListChanged(merged, st.list, up) THEN merged ELSE st.list,
           condition |-> HealthCondition(sp, DOMAIN merged)]
  BY DEF MergePatch
<1>2. DOMAIN merged = Unhealthy(sp)
  OBVIOUS
<1> HIDE DEF merged
<1>3. ASSUME ~ListChanged(merged, st.list, up), Unhealthy(sp) \subseteq DOMAIN st.list \cup DOMAIN up
      PROVE  DOMAIN st.list = Unhealthy(sp)
  <2>1. /\ DOMAIN up \subseteq DOMAIN st.list
        /\ Cardinality(Unhealthy(sp)) = Cardinality(DOMAIN st.list)
    BY <1>2, <1>3 DEF ListChanged
  <2>2. Unhealthy(sp) \subseteq DOMAIN st.list
    BY <1>3, <2>1
  <2>3. IsFiniteSet(DOMAIN st.list)
    BY DevicesAssumption, FS_Subset
  <2> QED
    BY <2>1, <2>2, <2>3, FS_Subset
<1> QED
  BY <1>1, <1>2, <1>3

LEMMA TypeInit == Init => TypeInv
<1> SUFFICES ASSUME Init PROVE TypeInv
  OBVIOUS
<1>1. DOMAIN None = {}
  BY DEF None
<1>2. /\ actual \in [Devices -> {"ONLINE", "FAULT", "ABSENT"}]
      /\ DOMAIN report = {} /\ owed \in BOOLEAN /\ updateChan = 0 /\ recent \in BOOLEAN
      /\ young = 0 /\ ripe = 0 /\ hpc = "init" /\ devs = {} /\ DOMAIN info = {} /\ new = {}
      /\ info = None
      /\ deviceList = {} /\ pools \in [Kinds -> SUBSET deviceList] /\ served = {}
      /\ dynFile = NoTopo /\ cache = NoTopo /\ pcitopo = NoTopo /\ DOMAIN spec = {}
  BY <1>1 DEF Init
<1>3. DOMAIN status.list = {} /\ DOMAIN pending.list = {}
  BY <1>1 DEF Init
<1> QED
  BY <1>2, <1>3 DEF TypeInv, HandlerTypeOK

(* Steps that leave the node state and what a pass works on alone.         *)
LEMMA TypeKept ==
    ASSUME TypeInv, UNCHANGED <<deviceList, pools, served, spec, pcitopo, status>>,
           \/ /\ UNCHANGED <<devs, info, new>>
              /\ hpc' \in {"init", "start", "idle", "scan"} => hpc \in {"init", "start", "idle", "scan"}
           \/ devs' = {} /\ info' = None /\ new' = {},
           pending' = pending \/ pending' = status',
           dynFile' \in MaybeTopologies, cache' \in MaybeTopologies,
           hpc' \in {"init", "clear", "start", "idle", "scan", "assess", "hotplug", "topo",
                     "hung", "write", "status"},
           recent' \in BOOLEAN, young' \in Nat, ripe' \in Nat,
           DOMAIN report' \subseteq Devices, owed' \in BOOLEAN, updateChan' \in {0, 1},
           actual' \in [Devices -> {"ONLINE", "FAULT", "ABSENT"}]
    PROVE  TypeInv'
<1>1. DOMAIN None = {}
  BY DEF None
<1>2. devs' \subseteq deviceList' /\ DOMAIN info' \subseteq deviceList' /\ new' \subseteq devs'
  BY <1>1 DEF TypeInv, HandlerTypeOK
<1>3. DOMAIN pending'.list \subseteq Devices
  BY DEF TypeInv, HandlerTypeOK
<1>4. hpc' \in {"init", "start", "idle", "scan"} => new' = {} /\ info' = None
  BY DEF TypeInv
<1> QED
  BY <1>2, <1>3, <1>4 DEF TypeInv, HandlerTypeOK, MaybeTopologies

(* The two ways WriteSpec can end.                                         *)
Found == GetSpyreInterfaceMaps(devs, [d \in devs |-> GetHealth(d)])
NewSpec == UpdatedInterfaces(spec, Found)
Updated == [d \in {e \in devs : DeviceState(e) # "ONLINE"} |-> DeviceState(d)]
Updates == [a \in DOMAIN Updated \cup DOMAIN Removed(spec, Found) |->
               IF a \in DOMAIN Updated THEN Updated[a] ELSE "REMOVED"]

SpecWritten ==
    /\ hpc = "write" /\ hpc' = "status"
    /\ spec' = NewSpec /\ pending' = MergePatch(NewSpec, status, Updates)
    /\ pcitopo' \in MaybeTopologies
    /\ dynFile' \in MaybeTopologies /\ cache' \in MaybeTopologies
    /\ UNCHANGED <<recent, passVars, failed, status, torn>>

SpecNotWritten ==
    /\ hpc = "write" /\ Done /\ failed' = TRUE
    /\ dynFile' \in MaybeTopologies /\ cache' \in MaybeTopologies
    /\ UNCHANGED <<spec, pcitopo, pending, status, torn>>

LEMMA WriteSpecSplit ==
    ASSUME TypeInv, WriteSpec
    PROVE  /\ SpecWritten \/ SpecNotWritten
           /\ UNCHANGED <<checkerVars, nodeVars, young, ripe, checker, poolVars>>
<1> DEFINE ensured == Ensured(cache, dynFile, Original, Present)
           topo == GetPciTopology(ensured.cache, ensured.dynamic, Original)
<1>1. cache \in MaybeTopologies /\ dynFile \in MaybeTopologies
  BY DEF TypeInv, HandlerTypeOK, MaybeTopologies
<1>2. ensured.cache \in MaybeTopologies /\ ensured.dynamic \in MaybeTopologies
  BY <1>1, TopologyFiles
<1>3. topo \in MaybeTopologies
  <2> HIDE DEF ensured
  <2> QED
    BY <1>2, TopologyFiles DEF MaybeTopologies
<1>4. CASE /\ dynFile' = ensured.dynamic /\ cache' = topo /\ spec' = NewSpec /\ pcitopo' = topo
           /\ pending' = MergePatch(NewSpec, status, Updates)
           /\ hpc' = "status"
           /\ UNCHANGED <<recent, passVars, mishaps, failed>>
  <2> HIDE DEF ensured, topo
  <2> QED
    BY <1>2, <1>3, <1>4 DEF WriteSpec, SpecWritten
<1>5. CASE /\ dynFile' = ensured.dynamic /\ cache' = topo /\ Fault /\ Done
           /\ UNCHANGED <<spec, pcitopo, pending>>
  <2> HIDE DEF ensured, topo
  <2> QED
    BY <1>2, <1>3, <1>5 DEF WriteSpec, SpecNotWritten, Fault
<1>6. CASE Fault /\ Done /\ UNCHANGED <<topoVars, spec, pcitopo, pending>>
  BY <1>1, <1>6 DEF WriteSpec, SpecNotWritten, Fault, topoVars
<1>7. UNCHANGED <<checkerVars, nodeVars, young, ripe, checker, poolVars>>
  BY DEF WriteSpec
<1> QED
  BY <1>4, <1>5, <1>6, <1>7 DEF WriteSpec, NewSpec, Found, Updated, Updates

(* A device the new spec marks was marked before, or is an update.         *)
LEMMA MarkedDevices ==
    ASSUME TypeInv
    PROVE  /\ DOMAIN NewSpec \subseteq Devices
           /\ Unhealthy(NewSpec) \subseteq Unhealthy(spec) \cup DOMAIN Updates
<1>1. devs \in SUBSET Devices /\ DOMAIN spec \subseteq Devices
  BY DEF TypeInv, HandlerTypeOK
<1>2. /\ DOMAIN Found \subseteq Devices
      /\ \A a \in DOMAIN Found : Found[a].health = "Unhealthy" => a \in devs /\ GetHealth(a) = "Unhealthy"
  <2> DEFINE h == [d \in devs |-> GetHealth(d)]
  <2>1. \A a \in devs : h[a] = GetHealth(a)
    OBVIOUS
  <2> HIDE DEF h
  <2>2. /\ DOMAIN GetSpyreInterfaceMaps(devs, h) \subseteq Devices
        /\ \A a \in DOMAIN GetSpyreInterfaceMaps(devs, h) :
              GetSpyreInterfaceMaps(devs, h)[a].health = "Unhealthy" => a \in devs /\ h[a] = "Unhealthy"
    BY <1>1, FoundInterfaces
  <2>3. Found = GetSpyreInterfaceMaps(devs, h)
    BY DEF Found, h
  <2> QED
    BY <2>1, <2>2, <2>3
<1>3. /\ DOMAIN NewSpec = DOMAIN spec \cup DOMAIN Found
      /\ \A a \in DOMAIN Found : NewSpec[a] = Found[a]
  BY DEF NewSpec, UpdatedInterfaces
<1>4. ASSUME NEW a \in devs, GetHealth(a) = "Unhealthy" PROVE a \in DOMAIN Updates
  BY <1>4 DEF GetHealth, Updates, Updated
<1>5. ASSUME NEW a \in DOMAIN spec \ DOMAIN Found, a \notin Unhealthy(spec) PROVE a \in DOMAIN Updates
  BY <1>5 DEF Unhealthy, Removed, Updates
<1> QED
  BY <1>1, <1>2, <1>3, <1>4, <1>5 DEF Unhealthy

LEMMA TypeStep ==
    ASSUME TypeInv, [Next]_vars
    PROVE  TypeInv'
<1> USE DEF checkerVars, nodeVars, timerVars, passVars, poolVars, topoVars, stateVars, ghosts
<1>1. /\ actual \in [Devices -> {"ONLINE", "FAULT", "ABSENT"}]
      /\ DOMAIN report \subseteq Devices /\ owed \in BOOLEAN /\ updateChan \in {0, 1}
      /\ recent \in BOOLEAN /\ young \in Nat /\ ripe \in Nat
      /\ hpc \in {"init", "clear", "start", "idle", "scan", "assess", "hotplug", "topo",
                  "hung", "write", "status"}
      /\ dynFile \in MaybeTopologies /\ cache \in MaybeTopologies
  BY DEF TypeInv, HandlerTypeOK, MaybeTopologies
<1>2. /\ devs \subseteq deviceList /\ DOMAIN info \subseteq deviceList /\ new \subseteq devs
      /\ pools \in [Kinds -> SUBSET deviceList] /\ served \subseteq Kinds
      /\ deviceList \subseteq Devices
  BY DEF TypeInv, HandlerTypeOK
<1>3. /\ pcitopo \in MaybeTopologies
      /\ DOMAIN spec \subseteq Devices /\ DOMAIN status.list \subseteq Devices
      /\ DOMAIN pending.list \subseteq Devices
  BY DEF TypeInv, HandlerTypeOK, MaybeTopologies
<1>4. Present \subseteq Devices /\ DOMAIN None = {} /\ NoTopo \in MaybeTopologies
  BY DEF Present, None, MaybeTopologies
<1>5. CASE InitServers
  <2>1. /\ deviceList' = Present /\ pools' = [k \in Kinds |-> {d \in Present : Kind(d) = k}]
        /\ served' = {Kind(d) : d \in Present} /\ devs' = Present /\ DOMAIN info' = Present
        /\ UNCHANGED <<new, checkerVars, nodeVars, timerVars, dynFile, stateVars>> /\ hpc' = "clear"
    BY <1>5 DEF InitServers
  <2>2. cache' \in MaybeTopologies
    BY <1>1, <1>5, TopologyFiles DEF InitServers, MaybeTopologies
  <2>3. new' = {}
    BY <1>5, <2>1 DEF InitServers, TypeInv
  <2> QED
    BY <1>1, <1>3, <1>4, <2>1, <2>2, <2>3 DEF TypeInv, HandlerTypeOK, Kinds, Kind, MaybeTopologies
<1>6. CASE ClearNodeState
  <2>1. /\ DOMAIN spec' \subseteq Devices /\ pcitopo' \in MaybeTopologies /\ hpc' = "write"
        /\ UNCHANGED <<checkerVars, nodeVars, timerVars, passVars, poolVars, topoVars, status, pending>>
    BY <1>3, <1>4, <1>6 DEF ClearNodeState
  <2> QED
    BY <1>1, <1>2, <1>3, <2>1 DEF TypeInv, HandlerTypeOK, MaybeTopologies
<1>7. CASE StartHandler
  <2>1. dynFile' \in MaybeTopologies /\ cache' \in MaybeTopologies
    BY <1>1, <1>7, TopologyFiles DEF StartHandler
  <2>2. DOMAIN report' \subseteq Devices /\ owed' \in BOOLEAN
    BY <1>4, <1>7 DEF StartHandler
  <2> QED
    BY <1>1, <1>7, <2>1, <2>2, TypeKept DEF StartHandler
<1>8. CASE ProcessUpdate
  <2>1. young' \in Nat /\ hpc' \in {"idle", "scan"}
    BY <1>1, <1>8 DEF ProcessUpdate, PutOff
  <2> QED
    BY <1>1, <1>8, <2>1, TypeKept DEF ProcessUpdate, Take
<1>9. CASE IntervalElapses \/ TimerFires
  <2>1. young' \in Nat /\ ripe' \in Nat
    <3>1. \/ young' = 0 /\ ripe' = ripe + young
          \/ ripe > 0 /\ ripe' = ripe - 1 /\ young' = young
      BY <1>9 DEF IntervalElapses, TimerFires
    <3> QED
      BY <1>1, <3>1
  <2>2. recent' \in BOOLEAN /\ updateChan' \in {0, 1}
    BY <1>1, <1>9 DEF IntervalElapses, TimerFires, Nudge, SafeTriggerUpdate
  <2> QED
    BY <1>1, <1>9, <2>1, <2>2, TypeKept DEF IntervalElapses, TimerFires, Nudge
(* The end of a pass, and the start of the handler after the first write.  *)
<1>10. ASSUME Done
       PROVE  /\ devs' = {} /\ info' = None /\ new' = {}
              /\ recent' \in BOOLEAN /\ hpc' \in {"idle", "start"}
  BY <1>1, <1>10 DEF Done, NoLocals
<1>11. CASE Rediscover
  <2>1. CASE Done /\ UNCHANGED deviceList
    BY <1>1, <1>10, <1>11, <2>1, TypeKept DEF Rediscover
  <2>2. CASE /\ AddTargetDevices /\ devs' = deviceList' \cap Present /\ hpc' = "assess"
             /\ UNCHANGED <<recent, info, new>>
    <3>1. new = {} /\ DOMAIN info = {}
      BY <1>4, <1>11 DEF Rediscover, TypeInv
    <3> QED
      BY <1>1, <1>2, <1>3, <1>4, <1>11, <2>2, <3>1
         DEF Rediscover, AddTargetDevices, TypeInv, HandlerTypeOK, MaybeTopologies
  <2> QED
    BY <1>11, <2>1, <2>2 DEF Rediscover
<1>12. CASE Assess
  <2>1. DOMAIN info' = devs /\ new' \subseteq devs /\ hpc' \in {"hotplug", "topo"}
    BY <1>12 DEF Assess, HealthInfo
  <2> QED
    BY <1>1, <1>2, <1>3, <1>12, <2>1 DEF Assess, TypeInv, HandlerTypeOK, MaybeTopologies
<1>13. CASE Hotplug
  <2>1. pools' \in [Kinds -> SUBSET deviceList]
    BY <1>2, <1>13 DEF Hotplug, NewPool
  <2>2. hpc' \in {"topo", "hung"}
    BY <1>13 DEF Hotplug
  <2> QED
    BY <1>1, <1>2, <1>3, <1>13, <2>1 DEF Hotplug, TypeInv, HandlerTypeOK, MaybeTopologies
<1>14. CASE UpdateDynamicTopology
  <2>1. dynFile' \in MaybeTopologies /\ cache' \in MaybeTopologies
    BY <1>1, <1>4, <1>14, OriginalAssumption, RestrictedTopology
       DEF UpdateDynamicTopology, FilterTopologyByDeviceHealth, MaybeTopologies
  <2> QED
    BY <1>1, <1>14, <2>1, TypeKept DEF UpdateDynamicTopology
<1>15. CASE WriteSpec
  <2>1. CASE SpecNotWritten
    BY <1>1, <1>10, <1>15, <2>1, TypeKept, WriteSpecSplit DEF SpecNotWritten
  <2>2. CASE SpecWritten
    <3>1. DOMAIN spec' \subseteq Devices /\ Unhealthy(NewSpec) \subseteq Devices
      BY <2>2, MarkedDevices DEF SpecWritten, Unhealthy
    <3>2. DOMAIN pending'.list \subseteq Devices
      BY <1>3, <2>2, <3>1, MergedStatus DEF SpecWritten
    <3>3. UNCHANGED <<checkerVars, nodeVars, timerVars, passVars, poolVars, status>>
      BY <1>15, <2>2, WriteSpecSplit DEF SpecWritten
    <3> QED
      BY <1>1, <1>2, <1>3, <2>2, <3>1, <3>2, <3>3
         DEF SpecWritten, TypeInv, HandlerTypeOK, MaybeTopologies
  <2> QED
    BY <1>15, <2>1, <2>2, WriteSpecSplit
<1>16. CASE WriteStatus
  <2>1. Done /\ (status' = pending \/ status' = status) /\ pending' = status'
    BY <1>16 DEF WriteStatus
  <2>2. DOMAIN status'.list \subseteq Devices /\ DOMAIN pending'.list \subseteq Devices
    BY <1>3, <2>1
  <2>3. /\ UNCHANGED <<checkerVars, nodeVars, young, ripe, poolVars, topoVars, spec, pcitopo>>
        /\ DOMAIN info' = {}
    BY <1>4, <1>10, <1>16, <2>1 DEF WriteStatus
  <2> QED
    BY <1>1, <1>2, <1>3, <1>10, <2>1, <2>2, <2>3 DEF TypeInv, HandlerTypeOK, MaybeTopologies
<1>17. CASE CheckerStep
  <2>1. DOMAIN report' \subseteq Devices /\ owed' \in BOOLEAN /\ updateChan' \in {0, 1}
    BY <1>1, <1>4, <1>17 DEF CheckerStep, Change, Trigger, SafeTriggerUpdate, Observed
  <2> QED
    BY <1>1, <1>17, <2>1, TypeKept DEF CheckerStep
<1>18. CASE Restart
  <2>1. /\ DOMAIN report' = {} /\ owed' \in BOOLEAN /\ updateChan' = 0 /\ recent' \in BOOLEAN
        /\ young' = 0 /\ ripe' = 0 /\ hpc' = "init" /\ devs' = {} /\ DOMAIN info' = {} /\ new' = {}
        /\ info' = None
        /\ deviceList' = {} /\ pools' \in [Kinds -> SUBSET deviceList'] /\ served' = {}
        /\ dynFile' = NoTopo /\ cache' = NoTopo /\ pending' = status
        /\ UNCHANGED <<nodeVars, spec, pcitopo, status>>
    BY <1>4, <1>18 DEF Restart, NoLocals
  <2> QED
    BY <1>1, <1>3, <2>1 DEF TypeInv, HandlerTypeOK, MaybeTopologies
<1>19. ASSUME NEW d \in Devices, NEW s \in {"ONLINE", "FAULT", "ABSENT"}, DeviceChange(d, s)
       PROVE  TypeInv'
  <2>1. actual' \in [Devices -> {"ONLINE", "FAULT", "ABSENT"}]
    BY <1>1, <1>19 DEF DeviceChange
  <2> QED
    BY <1>1, <1>19, <2>1, TypeKept DEF DeviceChange
<1>20. CASE UNCHANGED vars
  BY <1>1, <1>20, TypeKept DEF vars
<1> QED
  BY <1>5, <1>6, <1>7, <1>8, <1>9, <1>11, <1>12, <1>13, <1>14, <1>15, <1>16, <1>17, <1>18, <1>19,
     <1>20 DEF Next

(* The locals of a pass, the pools and the node state only ever name       *)
(* devices the provider has found, whatever the checker reports and        *)
(* wherever a pass is cut off.                                             *)
THEOREM HandlerTypes == Spec => []HandlerTypeOK
<1>1. TypeInv /\ [Next]_vars => TypeInv'
  BY TypeStep
<1>2. TypeInv => HandlerTypeOK
  BY DEF TypeInv
<1> QED
  BY TypeInit, <1>1, <1>2, PTL DEF Spec
-----------------------------------------------------------------------------
LEMMA MatchInit == Init => MatchInv
<1> SUFFICES ASSUME Init PROVE MatchInv
  OBVIOUS
<1>1. hpc = "init" /\ DOMAIN spec = {}
  BY DEF Init, None
<1> QED
  BY <1>1 DEF MatchInv, Unhealthy

LEMMA MatchStep ==
    ASSUME TypeInv, MatchInv, [Next]_vars
    PROVE  MatchInv'
<1> USE DEF checkerVars, nodeVars, timerVars, passVars, poolVars, topoVars, stateVars, ghosts
(* Steps between the writes: a pass that ends here has failed.             *)
<1>1. ASSUME UNCHANGED <<spec, status>>, hpc # "status", hpc' # "status",
             torn' = torn,
             hpc' \in {"start", "idle"} =>
                 failed' = TRUE \/ (hpc \in {"start", "idle"} /\ UNCHANGED failed)
      PROVE  MatchInv'
  BY <1>1 DEF MatchInv, Matches
<1>2. ASSUME UNCHANGED <<spec, status, pending, hpc, failed, torn>> PROVE MatchInv'
  BY <1>2 DEF MatchInv, Matches
<1>3. CASE InitServers \/ StartHandler \/ ProcessUpdate \/ Assess
  <2>1. /\ UNCHANGED <<spec, status, torn, failed>> /\ hpc # "status"
        /\ \/ hpc' \in {"clear", "scan", "hotplug", "topo"}
           \/ hpc \in {"start", "idle"} /\ hpc' = "idle"
    BY <1>3 DEF InitServers, StartHandler, ProcessUpdate, Assess
  <2> QED
    BY <1>1, <2>1
<1>4. CASE Hotplug \/ UpdateDynamicTopology
  <2>1. UNCHANGED <<spec, status, torn>> /\ hpc # "status" /\ hpc' \in {"topo", "hung", "write"}
    BY <1>4 DEF Hotplug, UpdateDynamicTopology
  <2> QED
    BY <1>1, <2>1
<1>5. CASE Rediscover
  <2>1. UNCHANGED <<spec, status, torn>> /\ hpc = "scan" /\ (hpc' = "assess" \/ (failed' = TRUE /\ Done))
    BY <1>5 DEF Rediscover, Fault
  <2>2. Done => hpc' # "status"
    BY DEF Done
  <2> QED
    BY <1>1, <2>1, <2>2
<1>6. CASE ClearNodeState
  <2>1. /\ hpc = "clear" /\ hpc' = "write" /\ UNCHANGED <<status, torn>>
        /\ spec' = None \/ spec' = spec
    BY <1>6 DEF ClearNodeState
  <2>2. spec' = None => Unhealthy(spec') = {}
    BY DEF None, Unhealthy
  <2> QED
    BY <2>1, <2>2 DEF MatchInv
<1>7. CASE WriteSpec
  <2>1. CASE SpecNotWritten
    <3>1. hpc' # "status"
      BY <2>1 DEF SpecNotWritten, Done
    <3> QED
      BY <1>1, <2>1, <3>1 DEF SpecNotWritten
  <2>2. CASE SpecWritten
    <3>1. /\ hpc = "write" /\ hpc' = "status" /\ spec' = NewSpec /\ UNCHANGED <<status, torn>>
          /\ pending' = MergePatch(NewSpec, status, Updates)
      BY <2>2 DEF SpecWritten
    <3>2. Unhealthy(NewSpec) \subseteq Devices /\ DOMAIN status.list \subseteq Devices
      BY MarkedDevices DEF Unhealthy, TypeInv, HandlerTypeOK
    <3>3. ~torn => Unhealthy(NewSpec) \subseteq DOMAIN status.list \cup DOMAIN Updates
      BY <3>1, MarkedDevices DEF MatchInv
    <3>4. /\ pending'.condition = HealthCondition(NewSpec, Unhealthy(NewSpec))
          /\ pending'.list # status.list \/ ~torn => DOMAIN pending'.list = Unhealthy(NewSpec)
      BY <3>1, <3>2, <3>3, MergedStatus
    <3> QED
      BY <3>1, <3>4 DEF MatchInv
  <2> QED
    BY <1>7, <2>1, <2>2, WriteSpecSplit
<1>8. CASE WriteStatus
  <2>1. /\ hpc = "status" /\ UNCHANGED spec /\ Done
        /\ \/ status' = pending /\ torn' = (torn /\ pending.list = status.list)
           \/ torn' = TRUE
    BY <1>8 DEF WriteStatus
  <2>2. hpc' \in {"start", "idle"}
    BY <2>1 DEF Done
  <2> QED
    BY <2>1, <2>2 DEF MatchInv, Matches
<1>9. CASE Restart
  <2>1. /\ hpc' = "init" /\ UNCHANGED <<spec, status>> /\ torn' = (torn \/ hpc = "status")
    BY <1>9 DEF Restart
  <2> QED
    BY <2>1 DEF MatchInv
<1>10. CASE IntervalElapses \/ TimerFires \/ CheckerStep
  BY <1>2, <1>10 DEF IntervalElapses, TimerFires, CheckerStep
<1>11. ASSUME NEW d \in Devices, NEW s \in {"ONLINE", "FAULT", "ABSENT"}, DeviceChange(d, s)
       PROVE  MatchInv'
  BY <1>2, <1>11 DEF DeviceChange
<1>12. CASE UNCHANGED vars
  BY <1>2, <1>12 DEF vars
<1> QED
  BY <1>3, <1>4, <1>5, <1>6, <1>7, <1>8, <1>9, <1>10, <1>11, <1>12 DEF Next

(* Between passes the list of unhealthy devices names exactly the          *)
(* interfaces the spec marks, and the condition agrees with it, after any  *)
(* history of devices that break, recover or vanish, of restarts and of    *)
(* writes that fail, unless a status itself could not be written: that the *)
(* list is not written when no update is new and its length is the same    *)
(* never hides a difference.                                               *)
THEOREM StatusAgreesWithSpec == Spec => []StatusMatchesSpec
<1>1. TypeInv /\ MatchInv /\ [Next]_vars => (TypeInv /\ MatchInv)'
  BY TypeStep, MatchStep
<1>2. MatchInv => StatusMatchesSpec
  BY DEF MatchInv, Matches, StatusMatchesSpec
<1> QED
  BY TypeInit, MatchInit, <1>1, <1>2, PTL DEF Spec
=============================================================================
