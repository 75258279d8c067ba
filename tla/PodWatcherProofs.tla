-------------------------- MODULE PodWatcherProofs --------------------------
(***************************************************************************)
(* Machine-checked proofs about PodWatcher, for any set of pods, names and *)
(* devices, in both modes.                                                 *)
(***************************************************************************)
EXTENDS PodWatcher, FiniteSetTheorems, SequenceTheorems, TLAPS

(* What the elements of a sequence are after Append and Tail.              *)
LEMMA RangeOfAppend ==
  ASSUME NEW S, NEW s \in Seq(S), NEW x
  PROVE  Range(Append(s, x)) = Range(s) \cup {x}
<1>1. /\ DOMAIN Append(s, x) = 1..(Len(s) + 1)
      /\ DOMAIN s = 1..Len(s)
      /\ \A i \in 1..Len(s) : Append(s, x)[i] = s[i]
      /\ Append(s, x)[Len(s) + 1] = x
      /\ Len(s) \in Nat
  OBVIOUS
<1>2. ASSUME NEW y \in Range(Append(s, x)) PROVE y \in Range(s) \cup {x}
  BY <1>1, <1>2 DEF Range
<1>3. Range(s) \subseteq Range(Append(s, x))
  BY <1>1 DEF Range
<1>4. x \in Range(Append(s, x))
  BY <1>1 DEF Range
<1> QED
  BY <1>2, <1>3, <1>4

LEMMA RangeOfTail ==
  ASSUME NEW S, NEW s \in Seq(S), s # <<>>
  PROVE  /\ Range(s) = {Head(s)} \cup Range(Tail(s))
         /\ Head(s) \in S
         /\ Tail(s) \in Seq(S)
<1>1. /\ DOMAIN s = 1..Len(s)
      /\ Len(s) \in Nat \ {0}
      /\ DOMAIN Tail(s) = 1..(Len(s) - 1)
      /\ \A i \in 1..(Len(s) - 1) : Tail(s)[i] = s[i + 1]
      /\ Head(s) = s[1]
  OBVIOUS
<1>2. ASSUME NEW y \in Range(s) PROVE y \in {Head(s)} \cup Range(Tail(s))
  <2>1. PICK i \in 1..Len(s) : y = s[i]
    BY <1>1 DEF Range
  <2>2. CASE i = 1
    BY <1>1, <2>1, <2>2
  <2>3. CASE i # 1
    <3>1. i - 1 \in 1..(Len(s) - 1) /\ Tail(s)[i - 1] = y
      BY <1>1, <2>1, <2>3
    <3> QED
      BY <1>1, <3>1 DEF Range
  <2> QED
    BY <2>2, <2>3
<1>3. {Head(s)} \cup Range(Tail(s)) \subseteq Range(s)
  <2>1. Head(s) \in Range(s)
    BY <1>1 DEF Range
  <2>2. ASSUME NEW y \in Range(Tail(s)) PROVE y \in Range(s)
    <3>1. PICK i \in 1..(Len(s) - 1) : y = Tail(s)[i]
      BY <1>1, <2>2 DEF Range
    <3>2. i + 1 \in 1..Len(s) /\ s[i + 1] = y
      BY <1>1, <3>1
    <3> QED
      BY <1>1, <3>2 DEF Range
  <2> QED
    BY <2>1, <2>2
<1>4. Head(s) \in S /\ Tail(s) \in Seq(S)
  OBVIOUS
<1> QED
  BY <1>2, <1>3, <1>4
-----------------------------------------------------------------------------
(* The types, and which event the worker has at which step.                *)
WorkInv ==
    /\ WatcherTypeOK
    /\ step \in {"boot", "idle"} => work = NoEvent
    /\ step \in {"memo", "list"} => work \in Event /\ AddOrUpdateEvent(work)
    /\ step = "unlist" => work \in Event /\ ~AddOrUpdateEvent(work)
    /\ step = "list" => InMemo(work.pod)

LEMMA WorkInvInit == WatcherInit => WorkInv
  BY WatcherAssumption
     DEF WatcherInit, WorkInv, WatcherTypeOK, Phases

LEMMA RequeuedIsEvent ==
  ASSUME NEW e \in Event
  PROVE  /\ [e EXCEPT !.attempt = @ + 1] \in Event
         /\ [e EXCEPT !.attempt = @ + 1].pod = e.pod
         /\ [e EXCEPT !.attempt = @ + 1].on = e.on
         /\ [e EXCEPT !.attempt = @ + 1].attempt = e.attempt + 1
  BY DEF Event

LEMMA WorkInvStep == WorkInv /\ [WatcherNext]_wvars => WorkInv'
<1> SUFFICES ASSUME WorkInv, [WatcherNext]_wvars PROVE WorkInv'
  OBVIOUS
<1> USE DEF WorkInv, WatcherTypeOK, clusterVars, stateVars, eventVars, workVars, sentVars
<1>1. CASE \E g \in Pods : PodCreated(g)
  <2>1. PICK g \in Pods : PodCreated(g)
    BY <1>1
  <2>2. phase' \in [Pods -> Phases] /\ watch' \in Seq(Change)
    <3>1. [pod |-> g, phase |-> "pending"] \in Change /\ "pending" \in Phases
      BY DEF Change, Phases
    <3> QED
      BY <2>1, <3>1 DEF PodCreated, PhaseBecomes
  <2>3. DeviceOf[g] \in Devices
    BY WatcherAssumption
  <2> QED
    BY <2>1, <2>2, <2>3 DEF PodCreated, InMemo, GetPodKey
<1>2. CASE \E g \in Pods : PodMoves(g)
  <2>1. PICK g \in Pods : PodMoves(g)
    BY <1>2
  <2>2. PICK ph \in PhaseAfter[phase[g]] : PhaseBecomes(g, ph)
    BY <2>1 DEF PodMoves
  <2>3. ph \in Phases \ {"none"}
    BY <2>2 DEF PhaseAfter, Phases
  <2>4. phase' \in [Pods -> Phases] /\ watch' \in Seq(Change)
    <3>1. [pod |-> g, phase |-> ph] \in Change
      BY <2>3 DEF Change
    <3> QED
      BY <2>2, <2>3, <3>1 DEF PhaseBecomes
  <2> QED
    BY <2>1, <2>4 DEF PodMoves, InMemo, GetPodKey
<1>3. CASE Observe
  <2>1. /\ Head(watch) \in Change
        /\ watch' \in Seq(Change)
    BY <1>3 DEF Observe
  <2>2. seen' \in [Pods -> Phases]
    BY <1>3, <2>1 DEF Observe, Change
  <2>3. EventWanted(Head(watch).pod, Head(watch).phase) => Head(watch).phase # "pending"
    BY DEF EventWanted
  <2>4. queue' \in Seq(Event)
    <3>1. ASSUME EventWanted(Head(watch).pod, Head(watch).phase)
          PROVE  [pod |-> Head(watch).pod, on |-> Head(watch).phase, attempt |-> 0] \in Event
      BY <2>1, <2>3, <3>1 DEF Event, Change
    <3> QED
      BY <1>3, <3>1 DEF Observe
  <2> QED
    BY <1>3, <2>1, <2>2, <2>4 DEF Observe, InMemo, GetPodKey
<1>4. CASE \E e \in delayed : DelayOver(e)
  BY <1>4 DEF DelayOver, InMemo, GetPodKey
<1>5. CASE IgnoreEvent
  BY <1>5 DEF IgnoreEvent, InMemo, GetPodKey
<1>6. CASE ProcessAdd
  <2>1. Head(queue) \in Event /\ queue' \in Seq(Event)
    BY <1>6 DEF ProcessAdd
  <2>2. /\ step' \in {"idle", "memo"}
        /\ step' = "idle" => work' = NoEvent
        /\ step' = "memo" => work' = Head(queue)
    BY <1>6 DEF ProcessAdd
  <2> QED
    BY <1>6, <2>1, <2>2 DEF ProcessAdd, InMemo, GetPodKey
<1>7. CASE UpdateMemo
  <2>1. work \in Event /\ work.pod \in Pods /\ NameOf[work.pod] \in Names
    BY <1>7, WatcherAssumption DEF UpdateMemo, Event
  <2>2. [work EXCEPT !.attempt = @ + 1] \in Event
    BY <2>1, RequeuedIsEvent
  <2>3. /\ memo' \in [Names -> Pods \cup {NoPod}]
        /\ claimed' \subseteq Pods
        /\ delayed' \subseteq Event
        /\ faults' \in Nat
    <3>1. memo' \in [Names -> Pods \cup {NoPod}] /\ claimed' \subseteq Pods
      BY <1>7, <2>1 DEF UpdateMemo, GetPodKey
    <3>2. delayed' \subseteq Event
      BY <1>7, <2>2 DEF UpdateMemo, Requeue
    <3>3. faults' \in Nat
      BY <1>7 DEF UpdateMemo, RequestFails
    <3> QED
      BY <3>1, <3>2, <3>3
  <2>4. \/ step' = "idle" /\ work' = NoEvent
        \/ step' = "list" /\ work' = work /\ memo'[GetPodKey(work.pod)] # NoPod
    BY <1>7, <2>1, WatcherAssumption DEF UpdateMemo, EventDone, InMemo, GetPodKey
  <2> QED
    BY <1>7, <2>1, <2>3, <2>4 DEF UpdateMemo, InMemo, GetPodKey
<1>8. CASE AllocateInList
  <2>1. work \in Event /\ work.pod \in Pods /\ NameOf[work.pod] \in Names
    BY <1>8, WatcherAssumption DEF AllocateInList, Event
  <2>2. [work EXCEPT !.attempt = @ + 1] \in Event
    BY <2>1, RequeuedIsEvent
  <2>3. memo[GetPodKey(work.pod)] \in Pods
    BY <1>8, <2>1 DEF AllocateInList, InMemo, GetPodKey
  <2>4. /\ allocList' \subseteq [pod : Pods, holds : Pods]
        /\ reservations' \subseteq Pods
        /\ delayed' \subseteq Event
        /\ faults' \in Nat
    BY <1>8, <2>1, <2>2, <2>3, SMTT(30)
       DEF AllocateInList, Requeue, RequestFails, ReconcileReservation
  <2> QED
    BY <1>8, <2>4 DEF AllocateInList, EventDone
<1>9. CASE ProcessDelete
  <2>1. Head(queue) \in Event /\ queue' \in Seq(Event)
    BY <1>9 DEF ProcessDelete
  <2>2. dirs' \subseteq Pods /\ freed' \subseteq Pods
    BY <1>9 DEF ProcessDelete
  <2>3. work' = Head(queue) /\ ~AddOrUpdateEvent(work')
    BY <1>9 DEF ProcessDelete, AddOrUpdateEvent
  <2> QED
    BY <1>9, <2>1, <2>2, <2>3 DEF ProcessDelete
<1>10. CASE RemoveFromList
  <2>1. work \in Event /\ work.pod \in Pods
    BY <1>10 DEF RemoveFromList, Event
  <2>2. [work EXCEPT !.attempt = @ + 1] \in Event
    BY <2>1, RequeuedIsEvent
  <2>3. /\ allocList' \subseteq allocList
        /\ reservations' \subseteq reservations
        /\ dma' \subseteq dma
        /\ delayed' \subseteq Event
        /\ memo' \in [Names -> Pods \cup {NoPod}]
        /\ faults' \in Nat
    <3>1. allocList' \subseteq allocList /\ reservations' \subseteq reservations
      BY <1>10 DEF RemoveFromList, ReconcileReservation
    <3>2. dma' \subseteq dma
      BY <1>10 DEF RemoveFromList, UnsetP2PDMA
    <3>3. \/ Deallocated
          \/ DeallocateFails
      BY <1>10 DEF RemoveFromList
    <3>4. delayed' \subseteq Event
      BY <2>2, <3>3 DEF Deallocated, DeallocateFails, Requeue
    <3>5. memo' \in [Names -> Pods \cup {NoPod}]
      BY <3>3 DEF Deallocated, DeallocateFails
    <3>6. faults' \in Nat
      BY <3>3 DEF Deallocated, DeallocateFails, RequestFails
    <3> QED
      BY <3>1, <3>2, <3>4, <3>5, <3>6
  <2> QED
    BY <1>10, <2>3 DEF RemoveFromList, EventDone
<1>11. CASE WatcherRestart
  <2>1. /\ allocList' \subseteq [pod : Pods, holds : Pods]
        /\ memo' \in [Names -> Pods \cup {NoPod}]
        /\ dirs' \subseteq Pods
        /\ freed' \subseteq Pods
    BY <1>11 DEF WatcherRestart
  <2> QED
    BY <1>11, <2>1 DEF WatcherRestart, Phases
<1>12. CASE InformerLists \/ WatchBreaks
  <2>1. watch' \in Seq(Change)
    <3> DEFINE existing == {g \in Pods : phase[g] \notin {"none", "deleted"}}
    <3>1. PICK order \in [1..Cardinality(existing) -> existing] :
             watch' = [i \in DOMAIN order |-> [pod |-> order[i], phase |-> phase[order[i]]]]
      BY <1>12 DEF InformerLists, WatchBreaks, ListPods
    <3>2. Cardinality(existing) \in Nat
      BY FS_Subset, FS_CardinalityType, WatcherAssumption
    <3>3. ASSUME NEW i \in DOMAIN order
          PROVE  [pod |-> order[i], phase |-> phase[order[i]]] \in Change
      BY DEF Change
    <3>4. watch' \in [1..Cardinality(existing) -> Change]
      BY <3>1, <3>3
    <3>5. Seq(Change) = UNION {[1..n -> Change] : n \in Nat}
      BY SeqDef, Zenon
    <3>6. [1..Cardinality(existing) -> Change] \in {[1..n -> Change] : n \in Nat}
      BY <3>2, Zenon
    <3> HIDE DEF existing
    <3> QED
      BY <3>4, <3>5, <3>6, Zenon
  <2>2. CASE InformerLists
    BY <2>1, <2>2 DEF InformerLists
  <2>3. CASE WatchBreaks
    <3>1. seen' \in [Pods -> Phases]
      BY <2>3 DEF WatchBreaks, Phases
    <3>2. restarts' \in Nat
      BY <2>3 DEF WatchBreaks
    <3> QED
      BY <2>1, <2>3, <3>1, <3>2 DEF WatchBreaks, InMemo, GetPodKey
  <2> QED
    BY <1>12, <2>2, <2>3
<1>13. CASE \E g \in Pods : PodUpdated(g)
  <2>1. PICK g \in Pods : PodUpdated(g)
    BY <1>13
  <2>2. phase' \in [Pods -> Phases] /\ watch' \in Seq(Change)
    <3>1. [pod |-> g, phase |-> phase[g]] \in Change
      BY <2>1 DEF PodUpdated, Change
    <3> QED
      BY <2>1, <3>1 DEF PodUpdated, PhaseBecomes
  <2> QED
    BY <2>1, <2>2 DEF PodUpdated, InMemo, GetPodKey
<1>14. CASE UNCHANGED wvars
  BY <1>14 DEF wvars, InMemo, GetPodKey
<1> QED
  BY <1>1, <1>2, <1>3, <1>4, <1>5, <1>6, <1>7, <1>8, <1>9, <1>10, <1>11, <1>12, <1>13, <1>14
     DEF WatcherNext, WorkerNext

(* Every variable of the PodWatcher keeps to its set of values, for any    *)
(* pods, names, devices, modes and faults.                                 *)
THEOREM WatcherTypeCorrect == WatcherSpec => []WatcherTypeOK
<1>1. WorkInv => WatcherTypeOK
  BY DEF WorkInv
<1> QED
  BY WorkInvInit, WorkInvStep, <1>1, PTL DEF WatcherSpec
=============================================================================
