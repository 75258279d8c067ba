----------------------------- MODULE PodWatcher -----------------------------
(***************************************************************************)
(* The PodWatcher: an informer turns what happens to pods into events, one *)
(* worker handles the events. It keeps a memo of the devices and mount     *)
(* paths per pod NAME, tells SpyreDeviceSharedInfo about claimed and freed *)
(* devices, and maintains AllocationList (and, in reservation mode,        *)
(* Reservations) in the node's SpyreNodeState, keyed by pod UID.           *)
(*                                                                         *)
(* A pod here is one generation (one UID) of a name. It stands for its     *)
(* config directory and for what its grant says; DeviceOf is the set of    *)
(* devices it is granted, as one value. What SharedInfo does with the      *)
(* messages is the subject of DevicePlugin.                                *)
(***************************************************************************)
EXTENDS Naturals, Sequences, FiniteSets, Functions

CONSTANTS
    Pods,                   \* pod generations, numbered in the order of creation
    Names, NameOf,          \* namespace/name, and the name of every generation
    Devices, DeviceOf,      \* device sets, and the one granted to every generation
    NeverRestart,           \* pods with RestartPolicyNever
    NoPod,
    MaxAttemptBeforeIgnore,
    ReservationMode,        \* BOOLEAN
    GetMayFail,             \* TRUE: reads from the API server may fail
    BootGap,                \* TRUE: pods may change while the plugin starts
    WatchMayBreak,          \* TRUE: changes may be lost with a broken watch
    MaxFaults,              \* bound on failing requests
    MaxRestarts             \* bound on restarts of the process and of its watch

ASSUME WatcherAssumption ==
    /\ Pods \subseteq Nat /\ IsFiniteSet(Pods)
    /\ NoPod \notin Pods
    /\ NameOf \in [Pods -> Names]
    /\ DeviceOf \in [Pods -> Devices]
    /\ NeverRestart \subseteq Pods
    /\ {MaxAttemptBeforeIgnore, MaxFaults, MaxRestarts} \subseteq Nat
    /\ {ReservationMode, GetMayFail, BootGap, WatchMayBreak} \subseteq BOOLEAN

VARIABLES
    phase,        \* pods in the API server
    refused,      \* pods whose Allocate failed
    dirs,         \* config directories that exist
    dma,          \* devices whose resource file has P2P DMA permissions
    allocList,    \* AllocationList: [pod, holds], the pod and whose grant is entered
    reservations, \* pods with an entry in Reservations
    watch,        \* changes of pods the informer has not delivered yet
    seen,         \* the informer's store: the phase last delivered per pod
    queue,        \* eventQueue
    delayed,      \* events waiting for their requeue delay
    work, step,   \* the event the worker handles, and how far it is
    memo,         \* name -> generation whose grant is remembered, or NoPod
    claimed,      \* pods whose paths were sent to mountedCh
    freed,        \* pods whose devices were sent to deallocatedCh
    faults, restarts

clusterVars == <<phase, refused, dma>>
stateVars   == <<allocList, reservations>>
eventVars   == <<watch, seen, queue, delayed>>
workVars    == <<work, step>>
sentVars    == <<claimed, freed>>
wvars == <<clusterVars, dirs, stateVars, eventVars, workVars, memo, sentVars, faults, restarts>>

(* "terminating": Running with a DeletionTimestamp; "started": Pending     *)
(* although every Spyre container has started.                             *)
Phases == {"none", "pending", "started", "running", "terminating",
           "succeeded", "failed", "deleted"}
Ended  == {"succeeded", "failed", "deleted"}

(* what the informer is told: a pod and its new phase                      *)
Change  == [pod : Pods, phase : Phases \ {"none"}]

(* SpyrePodEvent: the pod, its phase when the event was made, the attempt. *)
AddOrUpdateUnlessTerminating(e) == e.on \in {"started", "running"}  \* mutant

AddOrUpdateEvent(e) == e.on \in {"started", "running", "terminating"}

Event   == [pod : Pods, on : Phases \ {"none", "pending"}, attempt : Nat]
NoEvent == [pod |-> NoPod, on |-> "none", attempt |-> 0]

(* The memo is a map from getPodKey (namespace and name) to the grant of   *)
(* the generation it was read from.                                        *)
GetPodKey(g) == NameOf[g]

InMemo(g) == memo[GetPodKey(g)] # NoPod

(* an entry for this UID in AllocationList (SameAs)                        *)
Listed(g) == \E entry \in allocList : entry.pod = g

(* Type invariant of the PodWatcher, of its queue and of the cluster.      *)
WatcherTypeOK ==
    /\ phase \in [Pods -> Phases]
    /\ refused \subseteq Pods
    /\ dirs \subseteq Pods
    /\ dma \subseteq Devices
    /\ allocList \subseteq [pod : Pods, holds : Pods]
    /\ reservations \subseteq Pods
    /\ watch \in Seq(Change)
    /\ seen \in [Pods -> Phases]
    /\ queue \in Seq(Event)
    /\ delayed \subseteq Event
    /\ work \in Event \cup {NoEvent}
    /\ step \in {"boot", "idle", "memo", "list", "unlist"}
    /\ memo \in [Names -> Pods \cup {NoPod}]
    /\ claimed \subseteq Pods
    /\ freed \subseteq Pods
    /\ faults \in Nat
    /\ restarts \in Nat

WatcherInit ==
    /\ phase = [g \in Pods |-> "none"]
    /\ refused = {}
    /\ dirs = {}
    /\ dma = {}
    /\ allocList = {}
    /\ reservations = {}
    /\ watch = <<>>
    /\ seen = [g \in Pods |-> "none"]
    /\ queue = <<>>
    /\ delayed = {}
    /\ work = NoEvent
    /\ step = "idle"
    /\ memo = [n \in Names |-> NoPod]
    /\ claimed = {}
    /\ freed = {}
    /\ faults = 0
    /\ restarts = 0
-----------------------------------------------------------------------------
(* The cluster. Every change of a pod goes to the informer's watch, once   *)
(* there is one.                                                           *)
PhaseBecomes(g, ph) ==
    /\ BootGap \/ step # "boot"
    /\ phase' = [phase EXCEPT ![g] = ph]
    /\ watch' = IF step = "boot" THEN watch ELSE Append(watch, [pod |-> g, phase |-> ph])

(* A pod is created when the last one of its name is gone and the kubelet  *)
(* has its devices back. Allocate writes the directory and sets the P2P    *)
(* DMA permissions of the devices, or it fails. In reservation mode the    *)
(* scheduler has reserved the devices before, which the node state had for *)
(* nobody then.                                                            *)
InNodeState == {DeviceOf[entry.holds] : entry \in allocList} \cup {DeviceOf[h] : h \in reservations}

PodCreated(g) ==
    /\ phase[g] = "none"
    /\ \A h \in Pods \ {g} : NameOf[h] = NameOf[g] =>
          phase[h] = IF h < g THEN "deleted" ELSE "none"
    /\ \A h \in Pods : DeviceOf[h] = DeviceOf[g] => phase[h] \in {"none"} \cup Ended
    /\ ReservationMode => DeviceOf[g] \notin InNodeState
    /\ PhaseBecomes(g, "pending")
    /\ reservations' = IF ReservationMode THEN reservations \cup {g} ELSE reservations
    /\ \/ /\ dirs' = dirs \cup {g}
          /\ dma' = dma \cup {DeviceOf[g]}
          /\ UNCHANGED refused
       \/ /\ refused' = refused \cup {g}
          /\ UNCHANGED <<dirs, dma>>
    /\ UNCHANGED <<allocList, seen, queue, delayed, workVars, memo, sentVars, faults,
                   restarts>>

PhaseAfter == [none        |-> {},
               pending     |-> {"started", "running", "failed", "deleted"},
               started     |-> {"running", "failed"},
               running     |-> {"terminating", "succeeded", "failed"},
               terminating |-> {"succeeded", "failed", "deleted"},
               succeeded   |-> {"deleted"},
               failed      |-> {"deleted"},
               deleted     |-> {}]

PodMoves(g) ==
    /\ \E ph \in PhaseAfter[phase[g]] :
          /\ g \in refused /\ phase[g] = "pending" => ph = "failed"
          /\ PhaseBecomes(g, ph)
    /\ UNCHANGED <<refused, dma, dirs, stateVars, seen, queue, delayed, workVars, memo,
                   sentVars, faults, restarts>>

(* Anything else in a pod's status may change, too. It is told to the      *)
(* informer again, here when nothing about the pod is under way.           *)
PodUpdated(g) ==
    /\ phase[g] \notin {"none", "deleted"}
    /\ \A x \in Range(watch) \cup Range(queue) \cup delayed \cup {work} : x.pod # g
    /\ PhaseBecomes(g, phase[g])
    /\ UNCHANGED <<refused, dma, dirs, stateVars, seen, queue, delayed, workVars, memo,
                   sentVars, faults, restarts>>
-----------------------------------------------------------------------------
(* The informer's handlers: onPodAdd takes a Running pod; onPodUpdate a    *)
(* started one WHOSE NAME IS NOT IN THE MEMO, or one that has just ended;  *)
(* onPodDelete every pod.                                                  *)
EventWantedUntilEnded(g, ph) ==  \* mutant
    /\ seen[g] = "none" \/ ~InMemo(g)
    /\ ph \in {"running", "terminating"}

EventWantedOnAnyAdd(g, ph) == seen[g] = "none" \/ ph = "deleted"  \* mutant

EventWanted(g, ph) ==
    \/ /\ seen[g] = "none"
       /\ ph \in {"running", "terminating"}
    \/ /\ seen[g] # "none"
       /\ ph \in {"started", "running", "terminating"}
       /\ ~InMemo(g)
    \/ /\ seen[g] \notin {"none", ph}
       /\ \/ ph = "succeeded"
          \/ ph = "failed" /\ g \in NeverRestart
    \/ ph = "deleted"

Observe ==
    /\ watch # <<>>
    /\ watch' = Tail(watch)
    /\ LET change == Head(watch)
       IN  /\ seen' = [seen EXCEPT ![change.pod] = change.phase]
           /\ queue' = IF EventWanted(change.pod, change.phase)
                       THEN Append(queue, [pod |-> change.pod, on |-> change.phase,
                                           attempt |-> 0])
                       ELSE queue
    /\ UNCHANGED <<clusterVars, dirs, stateVars, delayed, workVars, memo, sentVars,
                   faults, restarts>>

(* AddAfter hands an event back when its delay is over                     *)
DelayOver(e) ==
    /\ e \in delayed
    /\ delayed' = delayed \ {e}
    /\ queue' = Append(queue, e)
    /\ UNCHANGED <<clusterVars, dirs, stateVars, watch, seen, workVars, memo, sentVars, faults,
                   restarts>>
-----------------------------------------------------------------------------
(* The worker. An update of the node state, or a query of the container    *)
(* runtime, may fail while faults are left (a conflict is retried and then *)
(* is a failure too); a read from the API server whenever GetMayFail.      *)
RequestFails == faults < MaxFaults /\ faults' = faults + 1

EventDone == work' = NoEvent /\ step' = "idle"

RequeueNever(e) == UNCHANGED delayed  \* mutant

Requeue(e) == delayed' = delayed \cup {[e EXCEPT !.attempt = @ + 1]}

(* processEvent ignores an event after too many attempts                   *)
IgnoreEvent ==
    /\ step = "idle"
    /\ queue # <<>>
    /\ Head(queue).attempt > MaxAttemptBeforeIgnore
    /\ queue' = Tail(queue)
    /\ UNCHANGED <<clusterVars, dirs, stateVars, watch, seen, delayed, workVars, memo, sentVars,
                   faults, restarts>>

(* isPodAlive for the pod of an event: by the event, then by the API       *)
(* server, where the name must still belong to this UID.                   *)
IsPodAliveByEvent(e) == e.on # "terminating"  \* mutant

IsPodAlive(e) == e.on # "terminating" /\ phase[e.pod] \in {"pending", "started", "running"}

(* allocateAndRequeueIfFailed: not alive, or unknown as Get failed: done   *)
ProcessAdd ==
    /\ step = "idle"
    /\ queue # <<>>
    /\ LET e == Head(queue)
       IN  /\ AddOrUpdateEvent(e)
           /\ e.attempt <= MaxAttemptBeforeIgnore
           /\ \/ /\ IsPodAlive(e)
                 /\ work' = e
                 /\ step' = "memo"
              \/ ~IsPodAlive(e) /\ UNCHANGED workVars
              \/ GetMayFail /\ UNCHANGED workVars
    /\ queue' = Tail(queue)
    /\ UNCHANGED <<clusterVars, dirs, stateVars, watch, seen, delayed, memo, sentVars, faults,
                   restarts>>

(* the memo is taken as it is if the name is in it, whatever generation;   *)
(* else the grant is read from the pod's own container and claimed         *)
UpdateMemo ==
    /\ step = "memo"
    /\ LET g == work.pod
       IN  \/ /\ InMemo(g)
              /\ step' = "list"
              /\ UNCHANGED <<work, memo, claimed, delayed, faults>>
           \/ /\ ~InMemo(g)
              /\ g \in dirs
              /\ memo' = [memo EXCEPT ![GetPodKey(g)] = g]
              /\ claimed' = claimed \cup {g}
              /\ step' = "list"
              /\ UNCHANGED <<work, delayed, faults>>
           \/ /\ ~InMemo(g)
              /\ \/ g \notin dirs /\ UNCHANGED faults
                 \/ RequestFails
              /\ Requeue(work)
              /\ EventDone
              /\ UNCHANGED <<memo, claimed>>
    /\ UNCHANGED <<clusterVars, dirs, stateVars, watch, seen, queue, freed, restarts>>

(* reconcileReservation, for reservations bound to their pod               *)
ReservationsKept(g) == reservations  \* mutant

ReconcileReservation(g) == reservations \ {g}

(* allocate: enter the pod into AllocationList, retire its reservation     *)
AllocateInList ==
    /\ step = "list"
    /\ LET g == work.pod
       IN  \/ /\ allocList' = IF Listed(g) THEN allocList
                              ELSE allocList \cup {[pod |-> g, holds |-> memo[GetPodKey(g)]]}
              /\ reservations' = IF Listed(g) THEN reservations ELSE ReconcileReservation(g)
              /\ UNCHANGED <<delayed, faults>>
           \/ /\ RequestFails
              /\ Requeue(work)
              /\ UNCHANGED stateVars
    /\ EventDone
    /\ UNCHANGED <<clusterVars, dirs, watch, seen, queue, memo, sentVars, restarts>>

(* deallocate, first part: cleanMountPathsAndNotify for what the memo has  *)
(* under the name. RemoveAll may fail, the deallocation is sent anyway.    *)
CleanedByName(e) == memo[GetPodKey(e.pod)]

ProcessDelete ==
    /\ step = "idle"
    /\ queue # <<>>
    /\ LET e == Head(queue)
       IN  /\ ~AddOrUpdateEvent(e)
           /\ e.attempt <= MaxAttemptBeforeIgnore
           /\ work' = e
           /\ IF CleanedByName(e) \in Pods
              THEN /\ dirs' \in {dirs, dirs \ {CleanedByName(e)}}
                   /\ freed' = IF ReservationMode THEN freed ELSE freed \cup {CleanedByName(e)}
              ELSE UNCHANGED <<dirs, freed>>
    /\ step' = "unlist"
    /\ queue' = Tail(queue)
    /\ UNCHANGED <<clusterVars, stateVars, watch, seen, delayed, memo, claimed, faults, restarts>>

(* unsetP2PDMAPermissions of the devices the entry of the pod names        *)
UnsetP2PDMAByName(g) ==  \* mutant
    dma' = dma \ {DeviceOf[h] : h \in {memo[GetPodKey(g)]} \ {NoPod}}

UnsetP2PDMA(g) ==
    \/ dma' = dma \ {DeviceOf[entry.holds] : entry \in {x \in allocList : x.pod = g}}
    \/ GetMayFail /\ UNCHANGED dma

(* (mutant: the name stays in the memo)                                    *)
DeallocatedRemembered == UNCHANGED <<memo, delayed, faults>>

(* deallocate succeeds: the name leaves the memo                           *)
Deallocated ==
    /\ memo' = [memo EXCEPT ![GetPodKey(work.pod)] = NoPod]
    /\ UNCHANGED <<delayed, faults>>

(* it fails: queued again, but not for a pod whose Allocate failed         *)
DeallocateFails ==
    /\ RequestFails
    /\ IF work.pod \in refused THEN UNCHANGED delayed ELSE Requeue(work)
    /\ UNCHANGED memo

(* deallocate, second part: removeAllocationOrReservation. If the read     *)
(* fails the entry counts as not found; without reservations that is a     *)
(* success.                                                                *)
RemoveFromList ==
    /\ step = "unlist"
    /\ UnsetP2PDMA(work.pod)
    /\ \/ /\ Listed(work.pod)
          /\ \/ allocList' = {x \in allocList : x.pod # work.pod} /\ Deallocated
             \/ UNCHANGED allocList /\ DeallocateFails
          /\ UNCHANGED reservations
       \/ /\ ~Listed(work.pod) \/ GetMayFail
          /\ \/ ~ReservationMode /\ UNCHANGED reservations /\ Deallocated
             \/ ReservationMode /\ reservations' = ReconcileReservation(work.pod) /\ Deallocated
             \/ ReservationMode /\ UNCHANGED reservations /\ DeallocateFails
             \/ ReservationMode /\ GetMayFail /\ UNCHANGED reservations /\ Deallocated
          /\ UNCHANGED allocList
    /\ EventDone
    /\ UNCHANGED <<phase, refused, dirs, watch, seen, queue, sentVars, restarts>>

(* The process restarts: NotifyInitialAllocationList fills the memo from   *)
(* the pods the API server lists and rewrites AllocationList; then         *)
(* directories of containers that do not run are removed and their devices *)
(* freed (module DevicePlugin has the steps). What cannot be read or       *)
(* written is only logged ...                                              *)
WatcherRestart ==
    /\ restarts < MaxRestarts
    /\ restarts' = restarts + 1
    /\ LET listed  == {g \in dirs : phase[g] \notin {"pending", "deleted"}}
       IN  \/ /\ memo' = [n \in Names |->
                    IF \E g \in listed : GetPodKey(g) = n
                    THEN CHOOSE g \in listed : GetPodKey(g) = n ELSE NoPod]
              /\ \/ allocList' = {[pod |-> g, holds |-> g] : g \in listed}
                 \/ GetMayFail /\ UNCHANGED allocList
           \/ /\ GetMayFail
              /\ memo' = [n \in Names |-> NoPod]
              /\ UNCHANGED allocList
    /\ LET stopped == {g \in dirs : phase[g] \in {"pending"} \cup Ended}
       IN  \/ /\ dirs' = dirs \ stopped
              /\ freed' = IF ReservationMode THEN freed ELSE freed \cup stopped
           \/ GetMayFail /\ UNCHANGED <<dirs, freed>>
    /\ watch' = <<>>
    /\ seen' = [g \in Pods |-> "none"]
    /\ queue' = <<>>
    /\ delayed' = {}
    /\ work' = NoEvent
    /\ step' = "boot"
    /\ UNCHANGED <<clusterVars, reservations, claimed, faults>>

(* a list of the pods there are, in any order                              *)
ListPods ==
    LET existing == {g \in Pods : phase[g] \notin {"none", "deleted"}}
    IN  \E order \in [1..Cardinality(existing) -> existing] :
           /\ \A g \in existing : \E i \in DOMAIN order : order[i] = g
           /\ watch' = [i \in DOMAIN order |->
                          [pod |-> order[i], phase |-> phase[order[i]]]]

(* ... and the informer lists the pods once more before it watches them    *)
InformerLists ==
    /\ step = "boot"
    /\ ListPods
    /\ step' = "idle"
    /\ UNCHANGED <<clusterVars, dirs, stateVars, seen, queue, delayed, work, memo,
                   sentVars, faults, restarts>>

(* The store has a pod, under its name.                                    *)
Stored(g, name) == NameOf[g] = name /\ seen[g] \notin {"none", "deleted"}

(* The watch breaks for so long that the informer lists again, and what it *)
(* has not delivered is lost. To the store, keyed by name, a listed pod is *)
(* an update of what it has under that name, if need be of a predecessor.  *)
(* A pod that is gone is handed to onPodDelete as DeletedFinalStateUnknown,*)
(* which is no Pod and makes no event.                                     *)
WatchBreaks ==
    /\ WatchMayBreak
    /\ step # "boot"
    /\ restarts < MaxRestarts
    /\ restarts' = restarts + 1
    /\ ListPods
    /\ seen' = [g \in Pods |->
                   IF phase[g] = "deleted" THEN "deleted"
                   ELSE IF phase[g] # "none" /\ \E h \in Pods : Stored(h, NameOf[g])
                   THEN seen[CHOOSE h \in Pods : Stored(h, NameOf[g])]
                   ELSE seen[g]]
    /\ UNCHANGED <<clusterVars, dirs, stateVars, queue, delayed, workVars, memo, sentVars,
                   faults>>

WorkerNext ==
    IgnoreEvent \/ ProcessAdd \/ UpdateMemo \/ AllocateInList \/ ProcessDelete \/ RemoveFromList

WatcherNext ==
    \/ \E g \in Pods : PodCreated(g) \/ PodMoves(g) \/ PodUpdated(g)
    \/ Observe
    \/ \E e \in delayed : DelayOver(e)
    \/ WorkerNext
    \/ WatcherRestart
    \/ InformerLists
    \/ WatchBreaks

WatcherSpec == WatcherInit /\ [][WatcherNext]_wvars
-----------------------------------------------------------------------------
(* Fairness: the informer delivers, delays end, the worker works. Nothing  *)
(* is assumed about pods.                                                  *)
WatcherFairness ==
    /\ WF_wvars(Observe)
    /\ WF_wvars(InformerLists)
    /\ WF_wvars(\E e \in delayed : DelayOver(e))
    /\ WF_wvars(WorkerNext)

WatcherFairSpec == WatcherSpec /\ WatcherFairness
-----------------------------------------------------------------------------
(* A DELETE event of g is coming: not made yet, queued, delayed, at work.  *)
DeleteEventOf(g, e) == e.pod = g /\ ~AddOrUpdateEvent(e)

DeleteComing(g) ==
    \/ [pod |-> g, phase |-> "deleted"] \in Range(watch)
    \/ \E e \in Range(queue) \cup delayed \cup {work} : DeleteEventOf(g, e)

(* Nothing is left behind of a deleted pod: as long as the memo or         *)
(* AllocationList has it, its DELETE event has not been dealt with. A late *)
(* or retried ADD event never brings a pod back that has been cleaned up   *)
(* ("ignore if the memo entry has been deleted in the case that DELETE     *)
(* event processed before").                                               *)
NothingLeftBehind ==
    \A g \in Pods :
        phase[g] = "deleted" /\ (Listed(g) \/ memo[GetPodKey(g)] = g) => DeleteComing(g)

(* The pod h is an earlier pod of the name of g.                           *)
Predecessor(h, g) == NameOf[h] = NameOf[g] /\ h < g

(* The memo has names only, and a name comes back with another pod: still, *)
(* the worker frees the devices of a pod that has not ended for nothing    *)
(* but the DELETE of a predecessor that had to be tried again, however     *)
(* late events are delivered and whatever is lost with the watch.          *)
FreesOnlyEnded ==
    [][restarts' = restarts =>
          \A g \in freed' \ freed :
              phase[g] \in Ended \/ (Predecessor(work'.pod, g) /\ work'.attempt > 0)]_wvars

(* A request has failed, or pods may have changed unseen.                  *)
Disturbed == faults > 0 \/ (restarts > 0 /\ (BootGap \/ WatchMayBreak))

(* An entry of AllocationList names the devices granted to its own pod,    *)
(* whose name may have been that of others: what the memo had of them is   *)
(* gone when the pod is entered, unless a request failed or the DELETE of  *)
(* a predecessor was never seen.                                           *)
EntryNamesOwnDevices ==
    \A entry \in allocList :
        entry.holds = entry.pod \/ (Predecessor(entry.holds, entry.pod) /\ Disturbed)

(* A pod that runs with its configuration is entered into the memo (and so *)
(* claimed), unless it stops running.                                      *)
RunningIsClaimed ==
    \A g \in Pods :
        (phase[g] = "running" /\ g \in dirs) ~> (memo[GetPodKey(g)] = g \/ phase[g] # "running")

(* Devices that were claimed for a pod are freed when the pod is deleted.  *)
ClaimedIsFreed ==
    \A g \in Pods : (phase[g] = "deleted" /\ g \in claimed) ~> g \in freed

(* In reservation mode devices and names go from pod to pod, and DELETEs   *)
(* are late or tried again: still, until the first restart, no clean-up    *)
(* takes the P2P DMA permissions from the devices of a running pod, unless *)
(* the entry that is removed names the devices of a predecessor.           *)
RunningKeepsP2PDMA ==
    [][ReservationMode /\ restarts = 0 =>
          \A g \in Pods : phase[g] = "running" /\ DeviceOf[g] \in dma \ dma' =>
              \E entry \in allocList : entry.pod = work.pod /\ Predecessor(entry.holds, entry.pod)]_wvars

(* In reservation mode the reservation of a deleted pod goes away ("in     *)
(* reservation mode, any pending reservation is cleaned up").              *)
ReservationIsCleaned ==
    \A g \in Pods : phase[g] = "deleted" /\ g \in reservations => DeleteComing(g)

(* The devices of a pod count once: no step of the worker or the cluster   *)
(* enters a pod into one of AllocationList and Reservations while it is in *)
(* the other (reconcileReservation retires "the reservation that has just  *)
(* become an allocation").                                                 *)
HeldTwice(g) == Listed(g) /\ g \in reservations

NeverHeldTwice ==
    [][restarts' = restarts => \A g \in Pods : HeldTwice(g)' => HeldTwice(g)]_wvars
=============================================================================
