-------------------------- MODULE PodWatcherSafety --------------------------
(***************************************************************************)
(* What the PodWatcher does not leave behind, free or hold twice, for any  *)
(* number of pods, names and devices.                                      *)
(***************************************************************************)
EXTENDS PodWatcherProofs

(* The events the watcher has made and not finished.                       *)
Events == Range(queue) \cup delayed \cup {work}

(* Allocate succeeded for the pod.                                         *)
Granted(g) == phase[g] # "none" /\ g \notin refused

(* Changes and events are about pods that exist; those that say a pod runs *)
(* are about granted pods, those that say it is over are right; and a      *)
(* DELETE event has failed at most as often as requests have.              *)
GoodChange(c) ==
    /\ phase[c.pod] # "none"
    /\ c.phase \in Ended => phase[c.pod] \in Ended
    /\ c.phase \in {"started", "running", "terminating"} => Granted(c.pod)

GoodEvent(e) ==
    IF AddOrUpdateEvent(e) THEN Granted(e.pod)
    ELSE phase[e.pod] \in Ended /\ e.attempt <= faults

(* What the watcher, the node state and the host keep is kept for granted  *)
(* pods, in the memo under their own name.                                 *)
KeepInv ==
    /\ \A g \in refused : phase[g] \in {"pending"} \cup Ended
    /\ \A g \in dirs : Granted(g)
    /\ \A x \in allocList : Granted(x.pod)
    /\ \A n \in Names : memo[n] # NoPod => Granted(memo[n]) /\ NameOf[memo[n]] = n

EventInv ==
    /\ \A c \in Range(watch) : GoodChange(c)
    /\ \A e \in Events : e # NoEvent => GoodEvent(e)
    /\ faults <= MaxFaults
    /\ step = "boot" => watch = <<>>
-----------------------------------------------------------------------------
LEMMA SafetyInit == WatcherInit => KeepInv /\ EventInv
<1> SUFFICES ASSUME WatcherInit PROVE KeepInv /\ EventInv
  OBVIOUS
<1>1. Range(watch) = {} /\ Range(queue) = {}
  BY DEF WatcherInit, Range
<1>2. KeepInv
  BY DEF WatcherInit, KeepInv
<1>3. Events = {NoEvent}
  BY <1>1 DEF WatcherInit, Events
<1>4. EventInv
  BY <1>1, <1>3, WatcherAssumption DEF WatcherInit, EventInv
<1> QED
  BY <1>2, <1>4

(* The elements of the queues.                                             *)
LEMMA ElementTypes ==
  ASSUME WorkInv
  PROVE  /\ Range(watch) \subseteq Change
         /\ Range(queue) \subseteq Event
         /\ Events \subseteq Event \cup {NoEvent}
         /\ NoEvent \notin Event
<1>1. Range(watch) \subseteq Change /\ Range(queue) \subseteq Event
  BY RangeOfSeq DEF WorkInv, WatcherTypeOK
<1>2. NoEvent \notin Event
  BY WatcherAssumption DEF NoEvent, Event
<1> QED
  BY <1>1, <1>2 DEF WorkInv, WatcherTypeOK, Events

(* A pod keeps having been created, its grant and its end.                 *)
LEMMA PodsGoOn ==
  ASSUME WorkInv, KeepInv, [WatcherNext]_wvars, NEW g \in Pods
  PROVE  /\ phase[g] # "none" => phase'[g] # "none"
         /\ Granted(g) => Granted(g)'
         /\ phase[g] \in Ended => phase'[g] \in Ended
         /\ g \in refused' => phase'[g] \in {"pending"} \cup Ended
         /\ faults \in Nat /\ faults' \in Nat /\ faults <= faults'
<1> USE DEF WorkInv, WatcherTypeOK, KeepInv, Granted, clusterVars, stateVars, eventVars,
            workVars, sentVars
<1>1. CASE \E h \in Pods : PodCreated(h)
  <2>1. PICK h \in Pods : PodCreated(h)
    BY <1>1
  <2> QED
    BY <2>1 DEF PodCreated, PhaseBecomes, Ended
<1>2. CASE \E h \in Pods : PodMoves(h)
  <2>1. PICK h \in Pods : PodMoves(h)
    BY <1>2
  <2>2. PICK ph \in PhaseAfter[phase[h]] :
           /\ h \in refused /\ phase[h] = "pending" => ph = "failed"
           /\ PhaseBecomes(h, ph)
    BY <2>1 DEF PodMoves
  <2>3. /\ ph \in Phases \ {"none"}
        /\ phase[h] \in Ended => ph \in Ended
        /\ h \in refused => ph \in Ended
    BY <2>2 DEF PhaseAfter, Phases, Ended
  <2> QED
    BY <2>1, <2>2, <2>3 DEF PodMoves, PhaseBecomes
<1>3. CASE \E h \in Pods : PodUpdated(h)
  <2>1. PICK h \in Pods : PodUpdated(h)
    BY <1>3
  <2> QED
    BY <2>1 DEF PodUpdated, PhaseBecomes
<1>4. CASE UNCHANGED <<phase, refused, faults>>
  BY <1>4
<1>5. CASE UNCHANGED <<phase, refused>> /\ RequestFails
  BY <1>5 DEF RequestFails
<1>6. CASE Observe \/ (\E e \in delayed : DelayOver(e)) \/ IgnoreEvent \/ ProcessAdd
             \/ ProcessDelete \/ WatcherRestart \/ InformerLists \/ WatchBreaks
             \/ UNCHANGED wvars
  BY <1>4, <1>6 DEF Observe, DelayOver, IgnoreEvent, ProcessAdd, ProcessDelete,
                    WatcherRestart, InformerLists, WatchBreaks, wvars
<1>7. CASE UpdateMemo
  BY <1>4, <1>5, <1>7 DEF UpdateMemo
<1>8. CASE AllocateInList
  BY <1>4, <1>5, <1>8 DEF AllocateInList
<1>9. CASE RemoveFromList
  BY <1>4, <1>5, <1>9 DEF RemoveFromList, Deallocated, DeallocateFails
<1> QED
  BY <1>1, <1>2, <1>3, <1>6, <1>7, <1>8, <1>9 DEF WatcherNext, WorkerNext

LEMMA GoodStaysGood ==
  ASSUME WorkInv, KeepInv, [WatcherNext]_wvars
  PROVE  /\ \A c \in Change : GoodChange(c) => GoodChange(c)'
         /\ \A e \in Event : GoodEvent(e) => GoodEvent(e)'
<1>1. ASSUME NEW c \in Change, GoodChange(c) PROVE GoodChange(c)'
  <2>1. c.pod \in Pods
    BY DEF Change
  <2> QED
    BY <1>1, <2>1, PodsGoOn DEF GoodChange
<1>2. ASSUME NEW e \in Event, GoodEvent(e) PROVE GoodEvent(e)'
  <2>1. e.pod \in Pods /\ e.attempt \in Nat
    BY DEF Event
  <2>2. AddOrUpdateEvent(e)' <=> AddOrUpdateEvent(e)
    BY DEF AddOrUpdateEvent
  <2>3. faults \in Nat /\ faults' \in Nat /\ faults <= faults'
    BY <2>1, PodsGoOn
  <2> QED
    BY <1>2, <2>1, <2>2, <2>3, PodsGoOn DEF GoodEvent
<1> QED
  BY <1>1, <1>2
-----------------------------------------------------------------------------
LEMMA KeepInvStep == WorkInv /\ KeepInv /\ EventInv /\ [WatcherNext]_wvars => KeepInv'
<1> SUFFICES ASSUME WorkInv, KeepInv, EventInv, [WatcherNext]_wvars PROVE KeepInv'
  OBVIOUS
<1> USE DEF clusterVars, stateVars, eventVars, workVars, sentVars
<1>1. \A g \in refused' : phase'[g] \in {"pending"} \cup Ended
  BY WorkInvStep, PodsGoOn DEF WorkInv, WatcherTypeOK
<1>2. \A g \in Pods : Granted(g) => Granted(g)'
  BY PodsGoOn
<1>3. SUFFICES /\ \A g \in dirs' : g \in dirs \/ Granted(g)'
               /\ \A x \in allocList' : x \in allocList \/ Granted(x.pod)
               /\ \A n \in Names : memo'[n] # NoPod =>
                     \/ memo'[n] = memo[n]
                     \/ memo'[n] \in Pods /\ Granted(memo'[n]) /\ NameOf[memo'[n]] = n
  <2>1. /\ dirs \subseteq Pods
        /\ \A x \in allocList' : x.pod \in Pods
        /\ \A n \in Names : memo[n] # NoPod => memo[n] \in Pods
    BY WorkInvStep DEF WorkInv, WatcherTypeOK
  <2>2. \A g \in dirs' : Granted(g)'
    BY <1>2, <1>3, <2>1 DEF KeepInv
  <2>3. \A x \in allocList' : Granted(x.pod)'
    BY <1>2, <1>3, <2>1 DEF KeepInv
  <2>4. \A n \in Names : memo'[n] # NoPod =>
           phase'[memo'[n]] # "none" /\ memo'[n] \notin refused' /\ NameOf[memo'[n]] = n
    <3> SUFFICES ASSUME NEW n \in Names, memo'[n] # NoPod
                 PROVE  /\ phase'[memo'[n]] # "none" /\ memo'[n] \notin refused'
                        /\ NameOf[memo'[n]] = n
      OBVIOUS
    <3>1. memo'[n] \in Pods /\ Granted(memo'[n]) /\ NameOf[memo'[n]] = n
      BY <1>3, <2>1 DEF KeepInv
    <3> QED
      BY <1>2, <3>1 DEF Granted
  <2> QED
    BY <1>1, <2>2, <2>3, <2>4 DEF KeepInv, Granted
<1>4. CASE \E g \in Pods : PodCreated(g)
  <2>1. PICK g \in Pods : PodCreated(g)
    BY <1>4
  <2>2. phase' = [phase EXCEPT ![g] = "pending"] /\ g \in DOMAIN phase
    BY <2>1 DEF PodCreated, PhaseBecomes, WorkInv, WatcherTypeOK
  <2>3. g \notin refused
    BY <2>1 DEF PodCreated, KeepInv, Ended
  <2>4. dirs' # dirs => refused' = refused
    BY <2>1 DEF PodCreated
  <2>5. dirs' \subseteq dirs \cup {g}
    BY <2>1 DEF PodCreated
  <2> QED
    BY <2>1, <2>2, <2>3, <2>4, <2>5 DEF PodCreated, Granted
<1>5. CASE UNCHANGED <<dirs, allocList, memo>>
  BY <1>5
<1>6. CASE \/ (\E g \in Pods : PodMoves(g) \/ PodUpdated(g))
           \/ Observe \/ (\E e \in delayed : DelayOver(e)) \/ IgnoreEvent \/ ProcessAdd
           \/ InformerLists \/ WatchBreaks \/ UNCHANGED wvars
  BY <1>5, <1>6 DEF PodMoves, PodUpdated, Observe, DelayOver, IgnoreEvent, ProcessAdd,
                    InformerLists, WatchBreaks, wvars
<1>7. CASE UpdateMemo
  <2>1. work.pod \in Pods /\ GetPodKey(work.pod) = NameOf[work.pod]
    BY <1>7 DEF UpdateMemo, WorkInv, Event, GetPodKey
  <2>2. \/ memo' = memo
        \/ work.pod \in dirs /\ memo' = [memo EXCEPT ![NameOf[work.pod]] = work.pod]
    BY <1>7, <2>1 DEF UpdateMemo
  <2>3. memo \in [Names -> Pods \cup {NoPod}]
    BY DEF WorkInv, WatcherTypeOK
  <2>4. UNCHANGED <<dirs, allocList>>
    BY <1>7 DEF UpdateMemo
  <2>5. \A n \in Names : memo'[n] # NoPod =>
           \/ memo'[n] = memo[n]
           \/ memo'[n] \in Pods /\ Granted(memo'[n]) /\ NameOf[memo'[n]] = n
    BY <2>1, <2>2, <2>3 DEF KeepInv
  <2> QED
    BY <2>4, <2>5
<1>8. CASE AllocateInList
  <2>1. work \in Events /\ work # NoEvent /\ AddOrUpdateEvent(work)
    BY <1>8, ElementTypes DEF AllocateInList, WorkInv, Events
  <2>2. Granted(work.pod)
    BY <2>1 DEF EventInv, GoodEvent
  <2>3. \A x \in allocList' : x \in allocList \/ x.pod = work.pod
    BY <1>8 DEF AllocateInList
  <2> QED
    BY <1>8, <2>2, <2>3 DEF AllocateInList
<1>9. CASE ProcessDelete
  BY <1>9 DEF ProcessDelete
<1>10. CASE RemoveFromList
  <2>1. allocList' \subseteq allocList /\ UNCHANGED dirs
    BY <1>10 DEF RemoveFromList
  <2>2. \A n \in Names : memo'[n] = memo[n] \/ memo'[n] = NoPod
    <3>1. Deallocated \/ UNCHANGED memo
      BY <1>10 DEF RemoveFromList, DeallocateFails
    <3> QED
      BY <3>1 DEF Deallocated, WorkInv, WatcherTypeOK
  <2> QED
    BY <2>1, <2>2
<1>11. CASE WatcherRestart
  <2> DEFINE listed == {g \in dirs : phase[g] \notin {"pending", "deleted"}}
  <2>1. \A g \in listed : g \in Pods /\ Granted(g)
    BY DEF KeepInv, WorkInv, WatcherTypeOK
  <2>2. dirs' \subseteq dirs
    BY <1>11 DEF WatcherRestart
  <2>3. \/ UNCHANGED allocList
        \/ allocList' = {[pod |-> g, holds |-> g] : g \in listed}
    BY <1>11 DEF WatcherRestart
  <2>4. \/ memo' = [n \in Names |-> NoPod]
        \/ memo' = [n \in Names |-> IF \E g \in listed : GetPodKey(g) = n
                                    THEN CHOOSE g \in listed : GetPodKey(g) = n ELSE NoPod]
    BY <1>11 DEF WatcherRestart
  <2> HIDE DEF listed
  <2>5. \A n \in Names : memo'[n] # NoPod => memo'[n] \in listed /\ GetPodKey(memo'[n]) = n
    BY <2>4
  <2> QED
    BY <2>1, <2>2, <2>3, <2>5 DEF GetPodKey
<1> QED
  BY <1>4, <1>6, <1>7, <1>8, <1>9, <1>10, <1>11 DEF WatcherNext, WorkerNext
-----------------------------------------------------------------------------
(* The half of EventInv about the informer.                                *)
LEMMA WatchStep ==
  WorkInv /\ KeepInv /\ EventInv /\ [WatcherNext]_wvars
      => (\A c \in Range(watch) : GoodChange(c))' /\ (step = "boot" => watch = <<>>)'
<1> SUFFICES ASSUME WorkInv, KeepInv, EventInv, [WatcherNext]_wvars
             PROVE  (\A c \in Range(watch) : GoodChange(c))' /\ (step = "boot" => watch = <<>>)'
  OBVIOUS
<1> USE DEF clusterVars, stateVars, eventVars, workVars, sentVars
<1>1. \A c \in Range(watch) : GoodChange(c)'
  BY ElementTypes, GoodStaysGood DEF EventInv
<1>2. /\ phase \in [Pods -> Phases]
      /\ watch \in Seq(Change)
      /\ step = "boot" => watch = <<>>
  BY DEF WorkInv, WatcherTypeOK, EventInv
<1>3. ASSUME NEW g \in Pods, NEW ph \in Phases \ {"none"}, PhaseBecomes(g, ph), UNCHANGED step,
             ph \in {"started", "running", "terminating"} => Granted(g)
      PROVE  (\A c \in Range(watch) : GoodChange(c))' /\ (step = "boot" => watch = <<>>)'
  <2> DEFINE new == [pod |-> g, phase |-> ph]
  <2>1. new \in Change
    BY DEF Change
  <2>2. phase'[g] = ph
    BY <1>2, <1>3 DEF PhaseBecomes
  <2>3. GoodChange(new)'
    <3>1. Granted(g) => Granted(g)'
      BY PodsGoOn
    <3> QED
      BY <1>3, <2>2, <3>1 DEF GoodChange
  <2>4. CASE step = "boot"
    BY <1>1, <1>2, <1>3, <2>4 DEF PhaseBecomes
  <2>5. CASE step # "boot"
    <3>1. watch' = Append(watch, new)
      BY <1>3, <2>5 DEF PhaseBecomes
    <3>2. Range(watch') = Range(watch) \cup {new}
      BY <1>2, <3>1, RangeOfAppend
    <3> QED
      BY <1>1, <1>3, <2>3, <2>5, <3>2
  <2> QED
    BY <2>4, <2>5
<1>4. CASE \E g \in Pods : PodCreated(g)
  BY <1>3, <1>4 DEF PodCreated, Phases
<1>5. CASE \E g \in Pods : PodMoves(g)
  <2>1. PICK g \in Pods : PodMoves(g)
    BY <1>5
  <2>2. PICK ph \in PhaseAfter[phase[g]] :
           /\ g \in refused /\ phase[g] = "pending" => ph = "failed"
           /\ PhaseBecomes(g, ph)
    BY <2>1 DEF PodMoves
  <2>3. /\ ph \in Phases \ {"none"}
        /\ phase[g] # "none"
        /\ g \in refused => ph \in Ended
    BY <1>2, <2>2 DEF PhaseAfter, Phases, Ended, KeepInv
  <2>4. ph \in {"started", "running", "terminating"} => Granted(g)
    BY <2>3 DEF Ended, Granted
  <2> QED
    BY <1>3, <2>1, <2>2, <2>3, <2>4 DEF PodMoves
<1>6. CASE \E g \in Pods : PodUpdated(g)
  <2>1. PICK g \in Pods : PodUpdated(g)
    BY <1>6
  <2>2. phase[g] \in Phases \ {"none"} /\ PhaseBecomes(g, phase[g]) /\ UNCHANGED step
    BY <1>2, <2>1 DEF PodUpdated
  <2>3. phase[g] \in {"started", "running", "terminating"} => Granted(g)
    BY DEF KeepInv, Ended, Granted
  <2> QED
    BY <1>3, <2>2, <2>3
<1>7. CASE Observe
  BY <1>1, <1>2, <1>7, RangeOfTail DEF Observe
<1>8. CASE UNCHANGED watch /\ (step' = "boot" => step = "boot")
  BY <1>1, <1>2, <1>8
<1>9. CASE (\E e \in delayed : DelayOver(e)) \/ WorkerNext \/ UNCHANGED wvars
  BY <1>8, <1>9 DEF DelayOver, WorkerNext, IgnoreEvent, ProcessAdd, UpdateMemo, AllocateInList,
                    ProcessDelete, RemoveFromList, EventDone, wvars
<1>10. CASE WatcherRestart
  BY <1>10 DEF WatcherRestart, Range
<1>11. CASE InformerLists \/ WatchBreaks
  <2>1. ASSUME NEW c \in Range(watch') PROVE GoodChange(c)'
    <3> DEFINE existing == {g \in Pods : phase[g] \notin {"none", "deleted"}}
    <3>1. PICK order \in [1..Cardinality(existing) -> existing] :
             watch' = [i \in DOMAIN order |-> [pod |-> order[i], phase |-> phase[order[i]]]]
      BY <1>11 DEF InformerLists, WatchBreaks, ListPods
    <3>2. PICK i \in DOMAIN order : c = [pod |-> order[i], phase |-> phase[order[i]]]
      BY <2>1, <3>1 DEF Range
    <3>3. PICK g \in Pods : phase[g] \notin {"none", "deleted"} /\ c = [pod |-> g, phase |-> phase[g]]
      BY <3>2
    <3>4. GoodChange(c)
      BY <3>3 DEF GoodChange, KeepInv, Ended, Granted
    <3>5. c \in Change
      BY <1>2, <3>3 DEF Change
    <3> QED
      BY <3>4, <3>5, GoodStaysGood
  <2> QED
    BY <1>11, <2>1 DEF InformerLists, WatchBreaks
<1> QED
  BY <1>4, <1>5, <1>6, <1>7, <1>9, <1>10, <1>11 DEF WatcherNext

(* The half of EventInv about the events.                                  *)
LEMMA EventsStep ==
  WorkInv /\ KeepInv /\ EventInv /\ [WatcherNext]_wvars
      => (\A e \in Events : e # NoEvent => GoodEvent(e))' /\ (faults <= MaxFaults)'
<1> SUFFICES ASSUME WorkInv, KeepInv, EventInv, [WatcherNext]_wvars
             PROVE  (\A e \in Events : e # NoEvent => GoodEvent(e))' /\ (faults <= MaxFaults)'
  OBVIOUS
<1> USE DEF clusterVars, stateVars, eventVars, workVars, sentVars
<1>1. /\ \A e \in Events : e # NoEvent => GoodEvent(e) /\ GoodEvent(e)'
      /\ Events \subseteq Event \cup {NoEvent}
  BY ElementTypes, GoodStaysGood DEF EventInv
<1>2. /\ queue \in Seq(Event)
      /\ work \in Event \cup {NoEvent}
      /\ work \in Events /\ delayed \subseteq Events /\ Range(queue) \subseteq Events
      /\ faults \in Nat /\ faults <= MaxFaults /\ MaxFaults \in Nat
  BY WatcherAssumption DEF WorkInv, WatcherTypeOK, EventInv, Events
<1>3. ASSUME queue # <<>>, queue' = Tail(queue) \/ UNCHANGED queue
      PROVE  Head(queue) \in Events /\ Range(queue') \subseteq Events
  BY <1>2, <1>3, RangeOfTail
<1>4. ASSUME NEW e \in Event, Events' \subseteq Events \cup {e} \cup {NoEvent},
             GoodEvent(e)', faults' <= MaxFaults
      PROVE  (\A x \in Events : x # NoEvent => GoodEvent(x))' /\ (faults <= MaxFaults)'
  BY <1>1, <1>4 DEF NoEvent
<1>5. ASSUME Events' \subseteq Events \cup {NoEvent}, UNCHANGED faults
      PROVE  (\A e \in Events : e # NoEvent => GoodEvent(e))' /\ (faults <= MaxFaults)'
  BY <1>1, <1>2, <1>5 DEF NoEvent
<1>6. CASE UNCHANGED <<queue, delayed, work, faults>>
  BY <1>5, <1>6 DEF Events
<1>7. CASE (\E g \in Pods : PodCreated(g) \/ PodMoves(g) \/ PodUpdated(g)) \/ InformerLists
             \/ WatchBreaks \/ UNCHANGED wvars
  BY <1>6, <1>7 DEF PodCreated, PodMoves, PodUpdated, InformerLists, WatchBreaks, wvars
<1>8. CASE Observe
  <2>1. UNCHANGED <<delayed, work, faults>> /\ watch # <<>>
    BY <1>8 DEF Observe
  <2>2. CASE ~EventWanted(Head(watch).pod, Head(watch).phase)
    BY <1>6, <1>8, <2>2 DEF Observe
  <2>3. CASE EventWanted(Head(watch).pod, Head(watch).phase)
    <3>1. Head(watch) \in Range(watch) /\ Head(watch) \in Change
      BY <2>1, RangeOfTail DEF WorkInv, WatcherTypeOK
    <3>2. Head(watch).phase \in Ended \cup {"started", "running", "terminating"}
      BY <2>3 DEF EventWanted, Ended
    <3>3. PICK new \in Event :
             new = [pod |-> Head(watch).pod, on |-> Head(watch).phase, attempt |-> 0]
      BY <3>1, <3>2 DEF Event, Change, Ended, Phases
    <3>4. queue' = Append(queue, new)
      BY <1>8, <2>3, <3>3 DEF Observe
    <3>5. Range(queue') = Range(queue) \cup {new}
      BY <1>2, <3>4, RangeOfAppend
    <3>6. GoodChange(Head(watch))
      BY <3>1 DEF EventInv
    <3>7. GoodEvent(new)
      BY <1>2, <3>2, <3>3, <3>6 DEF GoodEvent, GoodChange, AddOrUpdateEvent, Ended
    <3>8. GoodEvent(new)'
      BY <3>7, GoodStaysGood
    <3>9. Events' \subseteq Events \cup {new} \cup {NoEvent}
      BY <2>1, <3>5 DEF Events
    <3>10. faults' <= MaxFaults
      BY <1>2, <2>1
    <3> QED
      BY <1>4, <3>8, <3>9, <3>10
  <2> QED
    BY <2>2, <2>3
<1>9. CASE \E e \in delayed : DelayOver(e)
  <2>1. PICK e \in delayed : DelayOver(e)
    BY <1>9
  <2>2. Range(queue') = Range(queue) \cup {e}
    BY <1>2, <2>1, RangeOfAppend DEF DelayOver
  <2> QED
    BY <1>5, <2>1, <2>2 DEF DelayOver, Events
<1>10. CASE IgnoreEvent
  BY <1>2, <1>3, <1>5, <1>10 DEF IgnoreEvent, Events
<1>11. CASE ProcessAdd
  <2>1. work' \in Events /\ UNCHANGED <<delayed, faults>>
    BY <1>2, <1>3, <1>11 DEF ProcessAdd
  <2> QED
    BY <1>2, <1>3, <1>5, <1>11, <2>1 DEF ProcessAdd, Events
<1>12. CASE ProcessDelete
  <2>1. work' \in Events /\ UNCHANGED <<delayed, faults>>
    BY <1>3, <1>12 DEF ProcessDelete
  <2> QED
    BY <1>2, <1>3, <1>5, <1>12, <2>1 DEF ProcessDelete, Events
<1>13. ASSUME UNCHANGED queue, work' \in {work, NoEvent}, work \in Event,
              \/ UNCHANGED <<delayed, faults>>
              \/ UNCHANGED delayed /\ RequestFails
              \/ Requeue(work) /\ UNCHANGED faults /\ AddOrUpdateEvent(work)
              \/ Requeue(work) /\ RequestFails
       PROVE  (\A e \in Events : e # NoEvent => GoodEvent(e))' /\ (faults <= MaxFaults)'
  <2>1. PICK e \in Event : e = work
    BY <1>13
  <2>2. GoodEvent(e) /\ GoodEvent(e)'
    BY <1>1, <1>2, <2>1, ElementTypes
  <2>3. PICK again \in Event : again = [e EXCEPT !.attempt = @ + 1]
    BY RequeuedIsEvent
  <2>4. /\ again.pod = e.pod /\ again.on = e.on /\ again.attempt = e.attempt + 1
        /\ e.attempt \in Nat
    BY <2>3, RequeuedIsEvent DEF Event
  <2>5. faults' <= MaxFaults
    BY <1>2, <1>13 DEF RequestFails
  <2>6. Events' \subseteq Events \cup {again} \cup {NoEvent}
    BY <1>2, <1>13, <2>1, <2>3 DEF Events, Requeue
  <2>7. CASE UNCHANGED delayed
    <3>1. Events' \subseteq Events \cup {e} \cup {NoEvent}
      BY <1>13, <2>7 DEF Events
    <3> QED
      BY <1>4, <2>2, <2>5, <3>1
  <2>8. CASE RequestFails \/ AddOrUpdateEvent(work)
    <3>1. CASE AddOrUpdateEvent(e)
      <4>1. GoodEvent(again)'
        BY <2>2, <2>4, <3>1 DEF GoodEvent, AddOrUpdateEvent, Granted
      <4> QED
        BY <1>4, <2>5, <2>6, <4>1
    <3>2. CASE ~AddOrUpdateEvent(e) /\ RequestFails
      <4>1. GoodEvent(again)'
        BY <1>2, <2>2, <2>4, <3>2 DEF GoodEvent, AddOrUpdateEvent, RequestFails
      <4> QED
        BY <1>4, <2>5, <2>6, <4>1
    <3> QED
      BY <2>1, <2>8, <3>1, <3>2
  <2> QED
    BY <1>13, <2>7, <2>8
<1>14. CASE UpdateMemo
  BY <1>13, <1>14 DEF UpdateMemo, EventDone, WorkInv
<1>15. CASE AllocateInList
  BY <1>13, <1>15 DEF AllocateInList, EventDone, WorkInv
<1>16. CASE RemoveFromList
  <2>1. Deallocated \/ DeallocateFails
    BY <1>16 DEF RemoveFromList
  <2> QED
    BY <1>13, <1>16, <2>1 DEF RemoveFromList, Deallocated, DeallocateFails, EventDone, WorkInv
<1>17. CASE WatcherRestart
  <2>1. Events' = {NoEvent}
    BY <1>17 DEF WatcherRestart, Events, Range
  <2> QED
    BY <1>5, <1>17, <2>1 DEF WatcherRestart
<1> QED
  BY <1>7, <1>8, <1>9, <1>10, <1>11, <1>12, <1>14, <1>15, <1>16, <1>17 DEF WatcherNext, WorkerNext

(* WorkInv, KeepInv and EventInv together are inductive.                   *)
LEMMA WatcherInvariants == WatcherSpec => [](WorkInv /\ KeepInv /\ EventInv)
<1>1. WatcherInit => WorkInv /\ KeepInv /\ EventInv
  BY WorkInvInit, SafetyInit
<1>2. WorkInv /\ KeepInv /\ EventInv /\ [WatcherNext]_wvars
         => (WorkInv /\ KeepInv /\ EventInv)'
  BY WorkInvStep, KeepInvStep, WatchStep, EventsStep DEF EventInv
<1> QED
  BY <1>1, <1>2, PTL DEF WatcherSpec
-----------------------------------------------------------------------------
(* Reads succeed, no watch breaks, no pod changes while the plugin starts, *)
(* and fewer requests fail than an event has attempts.                     *)
Dependable ==
    /\ ~GetMayFail
    /\ ~BootGap
    /\ ~WatchMayBreak
    /\ MaxFaults <= MaxAttemptBeforeIgnore

(* NothingLeftBehind, extended to the pod the worker is entering.          *)
Remembered(g) ==
    \/ memo[GetPodKey(g)] = g
    \/ step \in {"memo", "list"} /\ work.pod = g

Held(g) == Listed(g) \/ Remembered(g)

CoverInv == \A g \in Pods : phase[g] = "deleted" /\ Held(g) => DeleteComing(g)

(* The DELETE event of a pod that has just been deleted is under way.      *)
LEMMA DeletionIsTold ==
  ASSUME WorkInv, [WatcherNext]_wvars, NEW g \in Pods, phase[g] # "deleted", phase'[g] = "deleted"
  PROVE  DeleteComing(g)' \/ (step = "boot" /\ BootGap)
<1> USE DEF clusterVars, stateVars, eventVars, workVars, sentVars
<1> DEFINE gone == [pod |-> g, phase |-> "deleted"]
<1>1. phase \in [Pods -> Phases] /\ watch \in Seq(Change)
  BY DEF WorkInv, WatcherTypeOK
<1>2. ASSUME NEW h \in Pods, NEW ph \in Phases, PhaseBecomes(h, ph)
      PROVE  DeleteComing(g)' \/ (step = "boot" /\ BootGap)
  <2>1. h = g /\ ph = "deleted"
    BY <1>1, <1>2 DEF PhaseBecomes
  <2>2. CASE step # "boot"
    <3>1. watch' = Append(watch, gone)
      BY <1>2, <2>1, <2>2 DEF PhaseBecomes
    <3>2. gone \in Range(watch')
      BY <1>1, <3>1, RangeOfAppend
    <3> QED
      BY <3>2 DEF DeleteComing
  <2> QED
    BY <1>2, <2>2 DEF PhaseBecomes
<1>3. CASE \E h \in Pods : PodCreated(h) \/ PodMoves(h) \/ PodUpdated(h)
  <2>1. PICK h \in Pods : PodCreated(h) \/ PodMoves(h) \/ PodUpdated(h)
    BY <1>3
  <2>2. CASE PodCreated(h)
    BY <1>2, <2>2 DEF PodCreated, Phases
  <2>3. CASE PodMoves(h)
    <3>1. \A ph \in PhaseAfter[phase[h]] : ph \in Phases
      BY <1>1 DEF PhaseAfter, Phases
    <3> QED
      BY <1>2, <2>3, <3>1 DEF PodMoves
  <2>4. CASE PodUpdated(h)
    BY <1>1, <1>2, <2>4 DEF PodUpdated
  <2> QED
    BY <2>1, <2>2, <2>3, <2>4
<1>4. CASE \/ Observe \/ (\E e \in delayed : DelayOver(e)) \/ WorkerNext \/ WatcherRestart
           \/ InformerLists \/ WatchBreaks \/ UNCHANGED wvars
  <2>1. phase' = phase
    BY <1>4 DEF Observe, DelayOver, WorkerNext, IgnoreEvent, ProcessAdd, UpdateMemo, AllocateInList,
                ProcessDelete, RemoveFromList, WatcherRestart, InformerLists, WatchBreaks, wvars
  <2> QED
    BY <2>1
<1> QED
  BY <1>3, <1>4 DEF WatcherNext

(* Nothing is kept anew of a pod that is deleted.                          *)
LEMMA HeldBefore ==
  ASSUME WorkInv, [WatcherNext]_wvars, NEW g \in Pods, phase[g] = "deleted"
  PROVE  /\ Remembered(g)' => Remembered(g) /\ ~WatcherRestart
         /\ Listed(g)' => Held(g)
<1> USE DEF clusterVars, stateVars, eventVars, workVars, sentVars
<1>1. /\ g # NoPod /\ memo \in [Names -> Pods \cup {NoPod}]
      /\ \A x \in Pods : GetPodKey(x) \in Names
  BY WatcherAssumption DEF WorkInv, WatcherTypeOK, GetPodKey
<1>2. CASE WatcherRestart
  <2> DEFINE listed == {h \in dirs : phase[h] \notin {"pending", "deleted"}}
  <2>1. /\ g \notin listed
        /\ allocList' = allocList \/ allocList' = {[pod |-> h, holds |-> h] : h \in listed}
        /\ \/ memo' = [n \in Names |-> IF \E h \in listed : GetPodKey(h) = n
                                       THEN CHOOSE h \in listed : GetPodKey(h) = n ELSE NoPod]
           \/ memo' = [n \in Names |-> NoPod]
        /\ step' = "boot"
    BY <1>2 DEF WatcherRestart
  <2> HIDE DEF listed
  <2>2. memo'[GetPodKey(g)] # g
    BY <1>1, <2>1
  <2>3. ~Remembered(g)'
    BY <2>1, <2>2 DEF Remembered, GetPodKey
  <2>4. Listed(g)' => Listed(g)
    BY <2>1 DEF Listed
  <2> QED
    BY <2>3, <2>4 DEF Held
<1>3. ASSUME ~WatcherRestart,
             memo'[GetPodKey(g)] = g => Remembered(g),
             step' \in {"memo", "list"} /\ work'.pod = g => Remembered(g),
             Listed(g)' => Held(g)
      PROVE  /\ Remembered(g)' => Remembered(g) /\ ~WatcherRestart
             /\ Listed(g)' => Held(g)
  BY <1>3 DEF Remembered, GetPodKey
<1>4. ~WatcherRestart => restarts' = restarts \/ WatchBreaks
  BY DEF WatcherNext, PodCreated, PodMoves, PodUpdated, Observe, DelayOver, WorkerNext, IgnoreEvent,
         ProcessAdd, UpdateMemo, AllocateInList, ProcessDelete, RemoveFromList, InformerLists, wvars
<1>5. ASSUME UNCHANGED <<allocList, memo>>, restarts' = restarts \/ WatchBreaks,
             step' \in {"memo", "list"} => UNCHANGED <<step, work>>
      PROVE  /\ Remembered(g)' => Remembered(g) /\ ~WatcherRestart
             /\ Listed(g)' => Held(g)
  <2>1. CASE WatcherRestart
    BY <1>2, <2>1
  <2>2. CASE ~WatcherRestart
    BY <1>3, <1>5, <2>2 DEF Remembered, Listed, Held
  <2> QED
    BY <2>1, <2>2
<1>6. CASE \/ (\E h \in Pods : PodCreated(h) \/ PodMoves(h) \/ PodUpdated(h)) \/ Observe
           \/ (\E e \in delayed : DelayOver(e)) \/ IgnoreEvent \/ UNCHANGED wvars
  BY <1>5, <1>6 DEF PodCreated, PodMoves, PodUpdated, Observe, DelayOver, IgnoreEvent, wvars
<1>7. CASE ProcessDelete \/ InformerLists \/ WatchBreaks
  BY <1>5, <1>7 DEF ProcessDelete, InformerLists, WatchBreaks
<1>8. CASE ProcessAdd /\ ~WatcherRestart
  <2>1. /\ UNCHANGED <<allocList, memo>>
        /\ step' = "memo" => phase[work'.pod] # "deleted"
        /\ step' \in {"idle", "memo"}
    BY <1>8 DEF ProcessAdd, IsPodAlive
  <2> QED
    BY <1>3, <1>8, <2>1 DEF Remembered, Listed, Held
<1>9. CASE UpdateMemo /\ ~WatcherRestart
  <2>1. /\ allocList' = allocList /\ step = "memo"
        /\ step' = "idle" \/ work' = work
        /\ memo' = memo \/ memo' = [memo EXCEPT ![GetPodKey(work.pod)] = work.pod]
    BY <1>9 DEF UpdateMemo, EventDone
  <2> QED
    BY <1>1, <1>3, <1>9, <2>1 DEF Remembered, Listed, Held
<1>10. CASE AllocateInList /\ ~WatcherRestart
  <2>1. /\ memo' = memo /\ step = "list" /\ step' = "idle"
        /\ allocList' \subseteq allocList \cup {[pod |-> work.pod, holds |-> memo[GetPodKey(work.pod)]]}
    BY <1>10 DEF AllocateInList, EventDone
  <2> QED
    BY <1>3, <1>10, <2>1 DEF Remembered, Listed, Held
<1>11. CASE RemoveFromList /\ ~WatcherRestart
  <2>1. allocList' \subseteq allocList /\ step' = "idle"
    BY <1>11 DEF RemoveFromList, EventDone
  <2>2. memo'[GetPodKey(g)] \in {memo[GetPodKey(g)], NoPod}
    BY <1>1, <1>11 DEF RemoveFromList, Deallocated, DeallocateFails
  <2> QED
    BY <1>1, <1>3, <1>11, <2>1, <2>2 DEF Remembered, Listed, Held
<1> QED
  BY <1>2, <1>6, <1>7, <1>8, <1>9, <1>10, <1>11 DEF WatcherNext, WorkerNext

(* A DELETE event stays under way until it is dealt with or given up, or   *)
(* the process or the watch restarts.                                      *)
LEMMA DeleteKeepsComing ==
  ASSUME WorkInv, EventInv, [WatcherNext]_wvars, restarts' = restarts,
         NEW g \in Pods, DeleteComing(g)
  PROVE  \/ DeleteComing(g)'
         \/ IgnoreEvent /\ queue # <<>> /\ DeleteEventOf(g, Head(queue))
         \/ RemoveFromList /\ work.pod = g
<1> DEFINE gone == [pod |-> g, phase |-> "deleted"]
<1> USE DEF clusterVars, stateVars, eventVars, workVars, sentVars
<1>1. watch \in Seq(Change) /\ queue \in Seq(Event) /\ g # NoPod /\ restarts \in Nat
  BY WatcherAssumption DEF WorkInv, WatcherTypeOK
<1>2. gone \in Range(watch) \/ \E e \in Events : DeleteEventOf(g, e)
  BY DEF DeleteComing, Events
<1>3. (gone \in Range(watch') \/ \E e \in Events' : DeleteEventOf(g, e)) => DeleteComing(g)'
  BY DEF DeleteComing, Events, DeleteEventOf, AddOrUpdateEvent
<1>4. step \in {"boot", "idle"} => ~DeleteEventOf(g, work)
  BY <1>1 DEF WorkInv, DeleteEventOf, NoEvent
<1>5. CASE \E h \in Pods : PodCreated(h) \/ PodMoves(h) \/ PodUpdated(h)
  <2>1. PICK h \in Pods : PodCreated(h) \/ PodMoves(h) \/ PodUpdated(h)
    BY <1>5
  <2>2. PICK ph : PhaseBecomes(h, ph)
    BY <2>1 DEF PodCreated, PodMoves, PodUpdated
  <2>3. watch' = watch \/ watch' = Append(watch, [pod |-> h, phase |-> ph])
    BY <2>2 DEF PhaseBecomes
  <2>4. Range(watch) \subseteq Range(watch')
    BY <1>1, <2>3, RangeOfAppend
  <2>5. Events' = Events
    BY <2>1 DEF PodCreated, PodMoves, PodUpdated, Events
  <2> QED
    BY <1>2, <1>3, <2>4, <2>5
<1>6. CASE Observe
  <2>1. UNCHANGED <<delayed, work>> /\ watch # <<>>
    BY <1>6 DEF Observe
  <2>2. Range(watch) = {Head(watch)} \cup Range(watch')
    BY <1>1, <1>6, RangeOfTail DEF Observe
  <2>3. Range(queue) \subseteq Range(queue')
    BY <1>1, <1>6, RangeOfAppend DEF Observe
  <2>4. CASE Head(watch) = gone
    <3> DEFINE new == [pod |-> g, on |-> "deleted", attempt |-> 0]
    <3>1. EventWanted(g, "deleted")
      BY DEF EventWanted
    <3>2. queue' = Append(queue, new)
      BY <1>6, <2>4, <3>1 DEF Observe
    <3>3. new \in Range(queue')
      BY <1>1, <3>2, RangeOfAppend
    <3>4. DeleteEventOf(g, new)
      BY DEF DeleteEventOf, AddOrUpdateEvent
    <3> QED
      BY <1>3, <3>3, <3>4 DEF Events
  <2>5. CASE Head(watch) # gone
    BY <1>2, <1>3, <2>1, <2>2, <2>3, <2>5 DEF Events
  <2> QED
    BY <2>4, <2>5
<1>7. CASE \E e \in delayed : DelayOver(e)
  <2>1. PICK e \in delayed : DelayOver(e)
    BY <1>7
  <2>2. Range(queue') = Range(queue) \cup {e}
    BY <1>1, <2>1, RangeOfAppend DEF DelayOver
  <2>3. Events \subseteq Events' /\ watch' = watch
    BY <2>1, <2>2 DEF DelayOver, Events
  <2> QED
    BY <1>2, <1>3, <2>3
<1>8. CASE IgnoreEvent
  <2>1. UNCHANGED <<watch, delayed, work>> /\ queue # <<>>
    BY <1>8 DEF IgnoreEvent
  <2>2. Range(queue) = {Head(queue)} \cup Range(queue')
    BY <1>1, <1>8, RangeOfTail DEF IgnoreEvent
  <2> QED
    BY <1>2, <1>3, <1>8, <2>1, <2>2 DEF Events
<1>9. CASE ProcessAdd
  <2>1. /\ queue # <<>> /\ step = "idle" /\ UNCHANGED <<watch, delayed>>
        /\ AddOrUpdateEvent(Head(queue))
    BY <1>9 DEF ProcessAdd
  <2>2. Range(queue) = {Head(queue)} \cup Range(queue')
    BY <1>1, <1>9, <2>1, RangeOfTail DEF ProcessAdd
  <2> QED
    BY <1>2, <1>3, <1>4, <2>1, <2>2 DEF Events, DeleteEventOf
<1>10. CASE UpdateMemo \/ AllocateInList
  <2>1. UNCHANGED <<watch, queue>> /\ delayed \subseteq delayed' /\ AddOrUpdateEvent(work)
    BY <1>10 DEF UpdateMemo, AllocateInList, Requeue, WorkInv
  <2> QED
    BY <1>2, <1>3, <2>1 DEF Events, DeleteEventOf
<1>11. CASE ProcessDelete
  <2>1. /\ queue # <<>> /\ UNCHANGED <<watch, delayed>> /\ step = "idle" /\ work' = Head(queue)
    BY <1>11 DEF ProcessDelete
  <2>2. Range(queue) = {Head(queue)} \cup Range(queue')
    BY <1>1, <1>11, <2>1, RangeOfTail DEF ProcessDelete
  <2> QED
    BY <1>2, <1>3, <1>4, <2>1, <2>2 DEF Events
<1>12. CASE RemoveFromList
  <2>1. UNCHANGED <<watch, queue>> /\ delayed \subseteq delayed'
    BY <1>12 DEF RemoveFromList, Deallocated, DeallocateFails, Requeue
  <2> QED
    BY <1>2, <1>3, <1>12, <2>1 DEF Events, DeleteEventOf
<1>13. CASE InformerLists
  <2>1. Range(watch) = {} /\ Events' = Events
    BY <1>13 DEF InformerLists, EventInv, Range, Events
  <2> QED
    BY <1>2, <1>3, <2>1
<1>14. CASE UNCHANGED wvars
  BY <1>2, <1>3, <1>14 DEF wvars, Events
<1>15. ~WatcherRestart /\ ~WatchBreaks
  BY <1>1 DEF WatcherRestart, WatchBreaks
<1> QED
  BY <1>5, <1>6, <1>7, <1>8, <1>9, <1>10, <1>11, <1>12, <1>13, <1>14, <1>15
     DEF WatcherNext, WorkerNext

(* A DELETE event is given up only after more failures than attempts.      *)
LEMMA IgnoredAfterFaults ==
  ASSUME WorkInv, EventInv, IgnoreEvent, NEW g \in Pods, DeleteEventOf(g, Head(queue))
  PROVE  faults > MaxAttemptBeforeIgnore
<1>1. queue # <<>> /\ Head(queue) \in Event /\ Head(queue) \in Range(queue)
  BY RangeOfTail DEF IgnoreEvent, WorkInv, WatcherTypeOK
<1>2. Head(queue).attempt <= faults
  BY <1>1, ElementTypes DEF EventInv, Events, GoodEvent, DeleteEventOf
<1> QED
  BY <1>1, <1>2, WatcherAssumption DEF IgnoreEvent, Event, WorkInv, WatcherTypeOK

(* Only a restart of the process or of the watch counts as one.            *)
LEMMA RestartSteps ==
  ASSUME WorkInv, [WatcherNext]_wvars
  PROVE  \/ restarts' = restarts
         \/ restarts' = restarts + 1 /\ (WatcherRestart \/ WatchBreaks) /\ faults' = faults
  BY DEF clusterVars, stateVars, eventVars, workVars, sentVars, WatcherNext, PodCreated, PodMoves,
         PodUpdated, Observe, DelayOver, WorkerNext, IgnoreEvent, ProcessAdd, UpdateMemo,
         AllocateInList, ProcessDelete, RemoveFromList, InformerLists, WatcherRestart, WatchBreaks,
         wvars

LEMMA CoverStep ==
  ASSUME Dependable, WorkInv, KeepInv, EventInv, CoverInv, [WatcherNext]_wvars
  PROVE  CoverInv'
<1> SUFFICES ASSUME NEW g \in Pods, phase'[g] = "deleted", Held(g)'
             PROVE  DeleteComing(g)'
  BY DEF CoverInv
<1>1. CASE phase[g] # "deleted"
  BY <1>1, DeletionIsTold DEF Dependable
<1>2. CASE phase[g] = "deleted" /\ restarts' = restarts
  <2>1. DeleteComing(g)
    BY <1>2, HeldBefore DEF Held, CoverInv
  <2>2. ~(IgnoreEvent /\ queue # <<>> /\ DeleteEventOf(g, Head(queue)))
    BY SMTT(30), IgnoredAfterFaults, WatcherAssumption DEF Dependable, EventInv, WorkInv, WatcherTypeOK
  <2>3. CASE RemoveFromList /\ work.pod = g
    <3>1. /\ step' = "idle" /\ work \in Event /\ ~AddOrUpdateEvent(work)
          /\ memo \in [Names -> Pods \cup {NoPod}] /\ GetPodKey(g) \in Names /\ g # NoPod
      BY <2>3, WatcherAssumption
         DEF RemoveFromList, EventDone, WorkInv, WatcherTypeOK, GetPodKey
    <3>2. CASE DeallocateFails
      <4> DEFINE again == [work EXCEPT !.attempt = @ + 1]
      <4>1. g \notin refused
        <5>1. Held(g)
          BY <1>2, HeldBefore DEF Held
        <5>2. Listed(g) \/ memo[GetPodKey(g)] = g
          BY <2>3, <5>1 DEF Held, Remembered, RemoveFromList
        <5> QED
          BY <3>1, <5>2 DEF KeepInv, Listed, Granted
      <4>2. again \in delayed'
        BY <2>3, <3>2, <4>1 DEF DeallocateFails, Requeue
      <4>3. again.pod = g /\ again.on = work.on
        BY <2>3, <3>1, RequeuedIsEvent
      <4>4. DeleteEventOf(g, again)
        BY <3>1, <4>3 DEF DeleteEventOf, AddOrUpdateEvent
      <4> QED
        BY <4>2, <4>4 DEF DeleteComing, DeleteEventOf, AddOrUpdateEvent
    <3>3. CASE ~DeallocateFails
      <4>1. Deallocated /\ ~Listed(g)'
        BY <2>3, <3>3 DEF RemoveFromList, Dependable, Listed
      <4>2. memo'[GetPodKey(g)] = NoPod
        BY <2>3, <3>1, <4>1 DEF Deallocated
      <4> QED
        BY <3>1, <4>1, <4>2 DEF Held, Remembered, GetPodKey
    <3> QED
      BY <3>2, <3>3
  <2> QED
    BY <1>2, <2>1, <2>2, <2>3, DeleteKeepsComing
<1>3. CASE phase[g] = "deleted" /\ restarts' # restarts
  <2>1. WatcherRestart
    BY <1>3, RestartSteps DEF WatchBreaks, Dependable
  <2>2. ~Listed(g)'
    BY <1>3, <2>1 DEF WatcherRestart, Dependable, Listed
  <2> QED
    BY <1>3, <2>1, <2>2, HeldBefore DEF Held
<1> QED
  BY <1>1, <1>2, <1>3

(* Whatever the memo or AllocationList keeps of a deleted pod has a DELETE *)
(* event on its way: neither late ADD events, retries, failed updates,     *)
(* reused names nor restarts leave anything behind. It takes reads that    *)
(* succeed, a watch that holds, no change during start-up and enough       *)
(* attempts.                                                               *)
THEOREM DeletedPodsAreCleanedUp ==
  ASSUME Dependable
  PROVE  WatcherSpec => []NothingLeftBehind
<1>1. WatcherInit => CoverInv
  BY DEF WatcherInit, CoverInv
<1>2. WorkInv /\ KeepInv /\ EventInv /\ CoverInv /\ [WatcherNext]_wvars => CoverInv'
  BY CoverStep
<1>3. CoverInv => NothingLeftBehind
  BY DEF CoverInv, NothingLeftBehind, Held, Remembered
<1> QED
  BY <1>1, <1>2, <1>3, WatcherInvariants, PTL DEF WatcherSpec
-----------------------------------------------------------------------------
(* Only a restart may find a pod both in Reservations and in               *)
(* AllocationList; no other step brings that about.                        *)
THEOREM ReservedOrAllocated == WatcherSpec => NeverHeldTwice
<1> USE DEF clusterVars, stateVars, eventVars, workVars, sentVars
<1>1. ASSUME WorkInv, KeepInv, [WatcherNext]_wvars, restarts' = restarts,
             NEW g \in Pods, HeldTwice(g)'
      PROVE  HeldTwice(g)
  <2>1. CASE \E h \in Pods : PodCreated(h)
    <3>1. PICK h \in Pods : PodCreated(h)
      BY <2>1
    <3>2. ~Listed(h) /\ allocList' = allocList /\ reservations' \subseteq reservations \cup {h}
      BY <1>1, <3>1 DEF PodCreated, KeepInv, Granted, Listed
    <3> QED
      BY <1>1, <3>2 DEF HeldTwice, Listed
  <2>2. CASE allocList' \subseteq allocList /\ reservations' \subseteq reservations
    BY <1>1, <2>2 DEF HeldTwice, Listed
  <2>3. CASE RemoveFromList
    BY <2>2, <2>3 DEF RemoveFromList, ReconcileReservation
  <2>4. CASE AllocateInList
    <3>1. \/ UNCHANGED stateVars
          \/ /\ allocList' = allocList
                   \cup {[pod |-> work.pod, holds |-> memo[GetPodKey(work.pod)]]}
             /\ reservations' = reservations \ {work.pod}
      BY <2>4 DEF AllocateInList, ReconcileReservation
    <3> QED
      BY <1>1, <3>1 DEF HeldTwice, Listed
  <2>5. ~WatcherRestart
    BY <1>1 DEF WatcherRestart, WorkInv, WatcherTypeOK
  <2>6. CASE \/ (\E h \in Pods : PodMoves(h) \/ PodUpdated(h)) \/ Observe
             \/ (\E e \in delayed : DelayOver(e)) \/ IgnoreEvent \/ ProcessAdd \/ UpdateMemo
             \/ ProcessDelete \/ InformerLists \/ WatchBreaks \/ UNCHANGED wvars
    BY <2>2, <2>6 DEF PodMoves, PodUpdated, Observe, DelayOver, IgnoreEvent, ProcessAdd,
                      UpdateMemo, ProcessDelete, InformerLists, WatchBreaks, wvars
  <2> QED
    BY <1>1, <2>1, <2>3, <2>4, <2>5, <2>6 DEF WatcherNext, WorkerNext
<1>2. WorkInv /\ KeepInv /\ [WatcherNext]_wvars
         => [restarts' = restarts => \A g \in Pods : HeldTwice(g)' => HeldTwice(g)]_wvars
  BY <1>1
<1> QED
  BY <1>2, WatcherInvariants, PTL DEF WatcherSpec, NeverHeldTwice
-----------------------------------------------------------------------------
(***************************************************************************)
(* Names that come back. The events of a pod and those of its successor    *)
(* are kept apart by the order of the informer and of the queue, which     *)
(* only a retry breaks.                                                    *)
(***************************************************************************)

(* Of the pods of a name only the last one created is not deleted.         *)
OrderInv ==
    \A h, g \in Pods : Predecessor(h, g) /\ phase[g] # "none" => phase[h] = "deleted"

(* In s all of early is in front of all of late.                           *)
Ordered(s, early, late) ==
    \A i, j \in DOMAIN s : s[i] \in early /\ s[j] \in late => i < j

ChangesOf(g) == {c \in Change : c.pod = g}
EventsOf(g) == {e \in Event : e.pod = g}
FirstDeletes(g) == {e \in Event : DeleteEventOf(g, e) /\ e.attempt = 0}

(* The worker has come to the pod.                                         *)
Reached(g) == (delayed \cup {work}) \cap EventsOf(g) # {} \/ memo[NameOf[g]] = g

(* The changes of a pod are all delivered before those of its successor,   *)
(* its DELETE is tried for the first time before any event of the          *)
(* successor is handled.                                                   *)
TakesTurns(h, g) ==
    /\ Ordered(watch, ChangesOf(h), ChangesOf(g))
    /\ Ordered(queue, FirstDeletes(h), EventsOf(g))
    /\ Reached(g) \/ Range(queue) \cap EventsOf(g) # {} => Range(watch) \cap ChangesOf(h) = {}
    /\ Reached(g) => Range(queue) \cap FirstDeletes(h) = {}

TurnInv ==
    /\ \A e \in delayed : e.attempt > 0
    /\ \A h, g \in Pods : Predecessor(h, g) => TakesTurns(h, g)

LEMMA OrderedAppend ==
  ASSUME NEW S, NEW s \in Seq(S), NEW x, NEW early, NEW late, Ordered(s, early, late),
         x \in early => x \notin late /\ Range(s) \cap late = {}
  PROVE  Ordered(Append(s, x), early, late)
<1>1. /\ DOMAIN Append(s, x) = 1..(Len(s) + 1) /\ DOMAIN s = 1..Len(s) /\ Len(s) \in Nat
      /\ \A i \in 1..Len(s) : Append(s, x)[i] = s[i]
      /\ Append(s, x)[Len(s) + 1] = x
  OBVIOUS
<1>2. ASSUME NEW i \in 1..(Len(s) + 1), NEW j \in 1..(Len(s) + 1),
             Append(s, x)[i] \in early, Append(s, x)[j] \in late
      PROVE  i < j
  <2>1. CASE i = Len(s) + 1
    <3>1. x \in early
      BY <1>1, <1>2, <2>1
    <3>2. CASE j = Len(s) + 1
      BY <1>1, <1>2, <3>1, <3>2
    <3>3. CASE j \in 1..Len(s)
      BY <1>1, <1>2, <3>1, <3>3 DEF Range
    <3> QED
      BY <1>1, <3>2, <3>3
  <2>2. CASE i \in 1..Len(s)
    <3>1. CASE j = Len(s) + 1
      BY <1>1, <2>2, <3>1
    <3>2. CASE j \in 1..Len(s)
      BY <1>1, <1>2, <2>2, <3>2 DEF Ordered
    <3> QED
      BY <1>1, <3>1, <3>2
  <2> QED
    BY <1>1, <2>1, <2>2
<1> QED
  BY <1>1, <1>2 DEF Ordered

LEMMA OrderedTail ==
  ASSUME NEW S, NEW s \in Seq(S), s # <<>>, NEW early, NEW late, Ordered(s, early, late)
  PROVE  /\ Ordered(Tail(s), early, late)
         /\ Head(s) \in late => Range(Tail(s)) \cap early = {}
<1>1. /\ DOMAIN s = 1..Len(s) /\ Len(s) \in Nat \ {0} /\ DOMAIN Tail(s) = 1..(Len(s) - 1)
      /\ \A i \in 1..(Len(s) - 1) : Tail(s)[i] = s[i + 1] /\ i + 1 \in 1..Len(s)
      /\ Head(s) = s[1] /\ 1 \in 1..Len(s)
  OBVIOUS
<1>2. Ordered(Tail(s), early, late)
  BY <1>1 DEF Ordered
<1>3. ASSUME Head(s) \in late, NEW y \in Range(Tail(s)), y \in early PROVE FALSE
  <2>1. PICK i \in 1..(Len(s) - 1) : y = Tail(s)[i]
    BY <1>1, <1>3 DEF Range
  <2>2. s[i + 1] \in early /\ s[1] \in late /\ i + 1 \in DOMAIN s /\ 1 \in DOMAIN s /\ i \in Nat
    BY <1>1, <1>3, <2>1
  <2>3. i + 1 < 1
    BY <2>2 DEF Ordered
  <2> QED
    BY <2>2, <2>3
<1> QED
  BY <1>2, <1>3

LEMMA OrderedApart ==
  ASSUME NEW s, NEW early, NEW late, Range(s) \cap early = {} \/ Range(s) \cap late = {}
  PROVE  Ordered(s, early, late)
  BY DEF Ordered, Range

(* Nothing is about a pod that does not exist yet.                         *)
LEMMA NotYet ==
  ASSUME WorkInv, KeepInv, EventInv, NEW g \in Pods, phase[g] = "none"
  PROVE  /\ Range(watch) \cap ChangesOf(g) = {}
         /\ Range(queue) \cap EventsOf(g) = {}
         /\ ~Reached(g)
<1>1. Range(watch) \cap ChangesOf(g) = {}
  BY DEF ChangesOf, EventInv, GoodChange
<1>2. Events \cap EventsOf(g) = {}
  BY ElementTypes DEF EventsOf, EventInv, GoodEvent, Granted, Ended
<1>3. memo[NameOf[g]] # g
  BY WatcherAssumption DEF KeepInv, Granted
<1> QED
  BY <1>1, <1>2, <1>3 DEF Events, Reached

(* What is listed is there.                                                *)
LEMMA ListedPods ==
  ASSUME WorkInv, ListPods, NEW c \in Range(watch')
  PROVE  c.pod \in Pods /\ phase[c.pod] \notin {"none", "deleted"}
<1> DEFINE existing == {g \in Pods : phase[g] \notin {"none", "deleted"}}
<1>1. PICK order \in [1..Cardinality(existing) -> existing] :
         watch' = [i \in DOMAIN order |-> [pod |-> order[i], phase |-> phase[order[i]]]]
  BY DEF ListPods
<1>2. PICK i \in DOMAIN order : c = [pod |-> order[i], phase |-> phase[order[i]]]
  BY <1>1 DEF Range
<1> QED
  BY <1>2

(* An entry names the devices of its own pod or of an earlier one of its   *)
(* name, and so does the memo while the entry is being made: it may be     *)
(* behind, never ahead.                                                    *)
HoldsInv ==
    /\ \A x \in allocList : NameOf[x.holds] = NameOf[x.pod] /\ x.holds <= x.pod
    /\ step \in {"memo", "list"} /\ InMemo(work.pod) => memo[NameOf[work.pod]] <= work.pod

LEMMA OrderStep ==
  ASSUME WorkInv, OrderInv, [WatcherNext]_wvars
  PROVE  OrderInv'
<1> USE DEF clusterVars, stateVars, eventVars, workVars, sentVars
<1>1. phase \in [Pods -> Phases] /\ Pods \subseteq Nat
  BY WatcherAssumption DEF WorkInv, WatcherTypeOK
<1>2. CASE phase' = phase
  BY <1>2 DEF OrderInv, Predecessor
<1>3. ASSUME NEW h \in Pods, PodCreated(h) PROVE OrderInv'
  <2>1. /\ phase' = [phase EXCEPT ![h] = "pending"] /\ phase[h] = "none"
        /\ \A g \in Pods \ {h} : NameOf[g] = NameOf[h] => phase[g] = IF g < h THEN "deleted" ELSE "none"
    BY <1>3 DEF PodCreated, PhaseBecomes
  <2>2. ASSUME NEW a \in Pods, NEW b \in Pods, NameOf[a] = NameOf[b], a < b, phase'[b] # "none"
        PROVE  phase'[a] = "deleted"
    <3>1. CASE b = h
      BY <1>1, <2>1, <2>2, <3>1
    <3>2. CASE b # h
      <4>1. phase[b] # "none" /\ a # h
        BY <1>1, <2>1, <2>2, <3>2
      <4> QED
        BY <1>1, <2>1, <2>2, <4>1 DEF OrderInv, Predecessor
    <3> QED
      BY <3>1, <3>2
  <2> QED
    BY <2>2 DEF OrderInv, Predecessor
<1>4. ASSUME NEW h \in Pods, PodMoves(h) PROVE OrderInv'
  <2>1. PICK ph \in PhaseAfter[phase[h]] : phase' = [phase EXCEPT ![h] = ph]
    BY <1>4 DEF PodMoves, PhaseBecomes
  <2>2. phase[h] \notin {"none", "deleted"}
    BY <2>1 DEF PhaseAfter
  <2> QED
    BY <1>1, <2>1, <2>2 DEF OrderInv, Predecessor
<1>5. ASSUME NEW h \in Pods, PodUpdated(h) PROVE OrderInv'
  BY <1>1, <1>2, <1>5 DEF PodUpdated, PhaseBecomes
<1>6. CASE \/ Observe \/ (\E e \in delayed : DelayOver(e)) \/ WorkerNext \/ WatcherRestart
           \/ InformerLists \/ WatchBreaks \/ UNCHANGED wvars
  BY <1>2, <1>6 DEF Observe, DelayOver, WorkerNext, IgnoreEvent, ProcessAdd, UpdateMemo,
     AllocateInList, ProcessDelete, RemoveFromList, WatcherRestart, InformerLists, WatchBreaks, wvars
<1> QED
  BY <1>3, <1>4, <1>5, <1>6 DEF WatcherNext

LEMMA HoldsStep ==
  ASSUME WorkInv, KeepInv, OrderInv, HoldsInv, [WatcherNext]_wvars
  PROVE  HoldsInv'
<1> USE DEF clusterVars, stateVars, eventVars, workVars, sentVars
<1>1. /\ phase \in [Pods -> Phases] /\ Pods \subseteq Nat /\ NoPod \notin Pods
      /\ memo \in [Names -> Pods \cup {NoPod}] /\ NameOf \in [Pods -> Names]
  BY WatcherAssumption DEF WorkInv, WatcherTypeOK
<1>2. CASE /\ allocList' \subseteq allocList
           /\ step' \notin {"memo", "list"} \/ UNCHANGED <<step, work, memo>>
  BY <1>2 DEF HoldsInv, InMemo, GetPodKey
<1>3. CASE ProcessAdd
  <2>1. CASE UNCHANGED workVars
    BY <1>2, <1>3, <2>1 DEF ProcessAdd
  <2>2. CASE IsPodAlive(Head(queue)) /\ work' = Head(queue) /\ step' = "memo"
    <3>1. work'.pod \in Pods /\ phase[work'.pod] # "deleted"
      <4>1. queue # <<>> /\ queue \in Seq(Event)
        BY <1>3 DEF ProcessAdd, WorkInv, WatcherTypeOK
      <4>2. Head(queue) \in Event
        BY <4>1
      <4> QED
        BY <2>2, <4>2 DEF Event, IsPodAlive
    <3>2. UNCHANGED <<allocList, memo>>
      BY <1>3 DEF ProcessAdd
    <3>3. ASSUME memo[NameOf[work'.pod]] # NoPod PROVE memo[NameOf[work'.pod]] <= work'.pod
      <4> DEFINE g == work'.pod
                 h == memo[NameOf[g]]
      <4>1. NameOf[g] \in Names /\ h \in Pods /\ g \in Pods
        BY <1>1, <3>1, <3>3
      <4>2. phase[h] # "none" /\ NameOf[h] = NameOf[g]
        BY <3>3, <4>1 DEF KeepInv, Granted
      <4>3. ~(g < h)
        BY <3>1, <4>1, <4>2 DEF OrderInv, Predecessor
      <4>4. g \in Nat /\ h \in Nat
        BY <1>1, <4>1
      <4> HIDE DEF g, h
      <4>5. h <= g
        BY <4>3, <4>4
      <4> QED
        BY <4>5 DEF g, h
    <3> QED
      BY <3>2, <3>3 DEF HoldsInv, InMemo, GetPodKey
  <2> QED
    BY <1>3, <2>1, <2>2 DEF ProcessAdd
<1>4. CASE UpdateMemo
  <2>1. work \in Event /\ work.pod \in Pods /\ NameOf[work.pod] \in Names /\ allocList' = allocList
    BY <1>1, <1>4 DEF UpdateMemo, WorkInv, Event
  <2>2. \/ UNCHANGED <<work, memo>> /\ step = "memo"
        \/ work' = work /\ memo' = [memo EXCEPT ![NameOf[work.pod]] = work.pod]
        \/ step' = "idle"
    BY <1>4 DEF UpdateMemo, EventDone, GetPodKey
  <2>3. CASE work' = work /\ memo' = [memo EXCEPT ![NameOf[work.pod]] = work.pod]
    <3>1. memo'[NameOf[work'.pod]] = work.pod /\ work.pod \in Nat
      BY <1>1, <2>1, <2>3
    <3> QED
      BY <2>1, <2>3, <3>1 DEF HoldsInv
  <2> QED
    BY <2>1, <2>2, <2>3 DEF HoldsInv, InMemo, GetPodKey
<1>5. CASE AllocateInList
  <2>1. /\ work.pod \in Pods /\ NameOf[work.pod] \in Names /\ InMemo(work.pod)
        /\ step = "list" /\ step' = "idle"
    BY <1>1, <1>5 DEF AllocateInList, EventDone, WorkInv, Event
  <2>2. /\ memo[NameOf[work.pod]] \in Pods /\ memo[NameOf[work.pod]] <= work.pod
        /\ NameOf[memo[NameOf[work.pod]]] = NameOf[work.pod]
    BY <1>1, <2>1 DEF HoldsInv, InMemo, GetPodKey, KeepInv
  <2>3. allocList' \subseteq allocList \cup {[pod |-> work.pod, holds |-> memo[NameOf[work.pod]]]}
    BY <1>5 DEF AllocateInList, GetPodKey
  <2> QED
    BY <2>1, <2>2, <2>3 DEF HoldsInv
<1>6. CASE WatcherRestart
  <2>1. step' = "boot" /\ (allocList' = allocList \/ \E S \in SUBSET dirs :
                                allocList' = {[pod |-> g, holds |-> g] : g \in S})
    BY <1>6 DEF WatcherRestart
  <2>2. dirs \subseteq Nat
    BY <1>1 DEF WorkInv, WatcherTypeOK
  <2> QED
    BY <2>1, <2>2 DEF HoldsInv
<1>7. CASE RemoveFromList
  BY <1>2, <1>7 DEF RemoveFromList, EventDone
<1>8. CASE ProcessDelete \/ InformerLists
  BY <1>2, <1>8 DEF ProcessDelete, InformerLists
<1>9. CASE \/ (\E g \in Pods : PodCreated(g) \/ PodMoves(g) \/ PodUpdated(g)) \/ Observe
           \/ (\E e \in delayed : DelayOver(e)) \/ IgnoreEvent \/ WatchBreaks \/ UNCHANGED wvars
  BY <1>2, <1>9 DEF PodCreated, PodMoves, PodUpdated, Observe, DelayOver, IgnoreEvent, WatchBreaks,
     wvars
<1> QED
  BY <1>3, <1>4, <1>5, <1>6, <1>7, <1>8, <1>9 DEF WatcherNext, WorkerNext

LEMMA TurnStep ==
  ASSUME WorkInv, KeepInv, EventInv, OrderInv, TurnInv, [WatcherNext]_wvars
  PROVE  TurnInv'
<1> USE DEF clusterVars, stateVars, eventVars, workVars, sentVars
<1>1. /\ phase \in [Pods -> Phases] /\ Pods \subseteq Nat /\ NoPod \notin Pods
      /\ memo \in [Names -> Pods \cup {NoPod}] /\ NameOf \in [Pods -> Names]
      /\ watch \in Seq(Change) /\ queue \in Seq(Event) /\ delayed \subseteq Event
      /\ work \in Event \cup {NoEvent} /\ NoEvent \notin Event
  BY WatcherAssumption, ElementTypes DEF WorkInv, WatcherTypeOK
(* Only a retry is delayed.                                                *)
<1>2. ASSUME NEW e \in delayed' PROVE e.attempt > 0
  <2>1. ASSUME NEW w \in Event, Requeue(w) PROVE e.attempt > 0
    <3>1. [w EXCEPT !.attempt = @ + 1].attempt = w.attempt + 1 /\ w.attempt \in Nat
      BY RequeuedIsEvent DEF Event
    <3>2. e \in delayed \/ e = [w EXCEPT !.attempt = @ + 1]
      BY <1>2, <2>1 DEF Requeue
    <3>3. e \in delayed => e.attempt > 0
      BY DEF TurnInv
    <3>4. w.attempt + 1 > 0
      BY <3>1
    <3> QED
      BY <3>1, <3>2, <3>3, <3>4
  <2>2. \/ delayed' \subseteq delayed
        \/ (UpdateMemo \/ AllocateInList \/ RemoveFromList) /\ Requeue(work)
    BY DEF WatcherNext, PodCreated, PodMoves, PodUpdated, Observe, DelayOver, WorkerNext,
           IgnoreEvent, ProcessAdd, UpdateMemo, AllocateInList, ProcessDelete, RemoveFromList,
           Deallocated, DeallocateFails, WatcherRestart, InformerLists, WatchBreaks, wvars
  <2>3. CASE delayed' \subseteq delayed
    BY <1>2, <2>3 DEF TurnInv
  <2>4. CASE (UpdateMemo \/ AllocateInList \/ RemoveFromList) /\ Requeue(work)
    <3>1. work \in Event
      BY <2>4 DEF UpdateMemo, AllocateInList, RemoveFromList, WorkInv
    <3> QED
      BY <2>1, <2>4, <3>1
  <2> QED
    BY <2>2, <2>3, <2>4
<1> SUFFICES ASSUME NEW h \in Pods, NEW g \in Pods, Predecessor(h, g)
             PROVE  TakesTurns(h, g)'
  BY <1>2 DEF TurnInv, Predecessor
<1>3. /\ TakesTurns(h, g) /\ h # g
      /\ phase[g] = "none" \/ phase[h] = "deleted"
  BY <1>1 DEF TurnInv, OrderInv, Predecessor
<1>4. /\ \A c \in ChangesOf(h) : c \notin ChangesOf(g)
      /\ \A e \in FirstDeletes(h) : e \notin EventsOf(g)
  BY <1>3 DEF ChangesOf, EventsOf, FirstDeletes, DeleteEventOf
<1>5. /\ ChangesOf(h)' = ChangesOf(h) /\ ChangesOf(g)' = ChangesOf(g)
      /\ EventsOf(g)' = EventsOf(g) /\ FirstDeletes(h)' = FirstDeletes(h)
  BY DEF ChangesOf, EventsOf, FirstDeletes, DeleteEventOf, AddOrUpdateEvent
<1>6. SUFFICES
        /\ Ordered(watch', ChangesOf(h), ChangesOf(g))
        /\ Ordered(queue', FirstDeletes(h), EventsOf(g))
        /\ Reached(g)' \/ Range(queue') \cap EventsOf(g) # {} => Range(watch') \cap ChangesOf(h) = {}
        /\ Reached(g)' => Range(queue') \cap FirstDeletes(h) = {}
  BY <1>5 DEF TakesTurns, Ordered
(* A step that takes the worker no further and leaves both queues alone.   *)
<1>7. ASSUME UNCHANGED <<watch, queue>>, Reached(g)' => Reached(g)
      PROVE  /\ Ordered(watch', ChangesOf(h), ChangesOf(g))
             /\ Ordered(queue', FirstDeletes(h), EventsOf(g))
             /\ Reached(g)' \/ Range(queue') \cap EventsOf(g) # {}
                   => Range(watch') \cap ChangesOf(h) = {}
             /\ Reached(g)' => Range(queue') \cap FirstDeletes(h) = {}
  BY <1>3, <1>7 DEF TakesTurns
<1>8. ASSUME UNCHANGED <<delayed, work, memo>> PROVE Reached(g)' <=> Reached(g)
  BY <1>5, <1>8 DEF Reached
<1>9. CASE \E x \in Pods : PodCreated(x) \/ PodMoves(x) \/ PodUpdated(x)
  <2>1. PICK x \in Pods : PodCreated(x) \/ PodMoves(x) \/ PodUpdated(x)
    BY <1>9
  <2>2. PICK ph : PhaseBecomes(x, ph)
    BY <2>1 DEF PodCreated, PodMoves, PodUpdated
  <2>3. UNCHANGED <<queue, delayed, work, memo>> /\ phase[x] # "deleted"
    BY <2>1 DEF PodCreated, PodMoves, PodUpdated, PhaseAfter
  <2> DEFINE c == [pod |-> x, phase |-> ph]
  <2>4. CASE watch' = watch
    BY <1>7, <1>8, <2>3, <2>4
  <2>5. CASE watch' = Append(watch, c)
    <3>1. Range(watch') = Range(watch) \cup {c}
      BY <1>1, <2>5, RangeOfAppend
    <3>2. c \in ChangesOf(h) => phase[g] = "none"
      BY <1>3, <2>3 DEF ChangesOf
    <3>3. phase[g] = "none" => /\ Range(watch) \cap ChangesOf(g) = {}
                               /\ Range(queue) \cap EventsOf(g) = {}
                               /\ ~Reached(g)
      BY NotYet
    <3> HIDE DEF c
    <3>4. Ordered(watch', ChangesOf(h), ChangesOf(g))
      BY <1>1, <1>3, <1>4, <2>5, <3>2, <3>3, OrderedAppend DEF TakesTurns
    <3> QED
      BY <1>3, <1>8, <2>3, <3>1, <3>2, <3>3, <3>4 DEF TakesTurns
  <2> QED
    BY <2>2, <2>4, <2>5 DEF PhaseBecomes
<1>10. CASE Observe
  <2> DEFINE c == Head(watch)
             new == [pod |-> c.pod, on |-> c.phase, attempt |-> 0]
  <2>1. /\ watch # <<>> /\ watch' = Tail(watch) /\ UNCHANGED <<delayed, work, memo>>
        /\ queue' = queue \/ queue' = Append(queue, new)
    BY <1>10 DEF Observe
  <2>2. Range(watch) = {c} \cup Range(watch') /\ c \in Change
    BY <1>1, <2>1, RangeOfTail
  <2>3. /\ Ordered(watch', ChangesOf(h), ChangesOf(g))
        /\ c \in ChangesOf(g) => Range(watch') \cap ChangesOf(h) = {}
    BY <1>1, <1>3, <2>1, OrderedTail DEF TakesTurns
  <2>4. /\ new \in FirstDeletes(h) => c \in ChangesOf(h)
        /\ new \in EventsOf(g) => c \in ChangesOf(g)
    BY <2>2 DEF FirstDeletes, EventsOf, DeleteEventOf, ChangesOf
  <2>5. queue' # queue => Range(queue') = Range(queue) \cup {new}
    BY <1>1, <2>1, RangeOfAppend
  <2> HIDE DEF new, c
  <2>6. Ordered(queue', FirstDeletes(h), EventsOf(g))
    <3>1. Ordered(queue, FirstDeletes(h), EventsOf(g))
      BY <1>3 DEF TakesTurns
    <3>2. new \in FirstDeletes(h) => new \notin EventsOf(g) /\ Range(queue) \cap EventsOf(g) = {}
      BY <1>3, <1>4, <2>2, <2>4 DEF TakesTurns
    <3>3. Ordered(Append(queue, new), FirstDeletes(h), EventsOf(g))
      BY <1>1, <3>1, <3>2, OrderedAppend
    <3> QED
      BY <2>1, <3>1, <3>3
  <2>7. Reached(g)' \/ Range(queue') \cap EventsOf(g) # {} => Range(watch') \cap ChangesOf(h) = {}
    BY <1>3, <1>8, <2>1, <2>2, <2>3, <2>4, <2>5 DEF TakesTurns
  <2>8. Reached(g)' => Range(queue') \cap FirstDeletes(h) = {}
    BY <1>3, <1>8, <2>1, <2>2, <2>4, <2>5 DEF TakesTurns
  <2> QED
    BY <2>3, <2>6, <2>7, <2>8
<1>11. CASE \E e \in delayed : DelayOver(e)
  <2>1. PICK e \in delayed : DelayOver(e)
    BY <1>11
  <2>2. /\ watch' = watch /\ queue' = Append(queue, e) /\ delayed' = delayed \ {e}
        /\ UNCHANGED <<work, memo>>
    BY <2>1 DEF DelayOver
  <2>3. e \notin FirstDeletes(h) /\ Range(queue') = Range(queue) \cup {e}
    BY <1>1, <2>2, RangeOfAppend DEF TurnInv, FirstDeletes
  <2>4. /\ Reached(g)' => Reached(g)
        /\ e \in EventsOf(g) => Reached(g)
    BY <1>5, <2>2 DEF Reached
  <2>5. Ordered(queue', FirstDeletes(h), EventsOf(g))
    BY <1>1, <1>3, <2>2, <2>3, OrderedAppend DEF TakesTurns
  <2> QED
    BY <1>3, <2>2, <2>3, <2>4, <2>5 DEF TakesTurns
<1>12. CASE IgnoreEvent \/ ProcessAdd \/ ProcessDelete
  <2>1. /\ queue # <<>> /\ queue' = Tail(queue) /\ UNCHANGED <<watch, delayed, memo>>
        /\ work' = work \/ work' = Head(queue)
    BY <1>12 DEF IgnoreEvent, ProcessAdd, ProcessDelete
  <2>2. Range(queue) = {Head(queue)} \cup Range(queue')
    BY <1>1, <2>1, RangeOfTail
  <2>3. /\ Ordered(queue', FirstDeletes(h), EventsOf(g))
        /\ Head(queue) \in EventsOf(g) => Range(queue') \cap FirstDeletes(h) = {}
    BY <1>1, <1>3, <2>1, OrderedTail DEF TakesTurns
  <2>4. Reached(g)' => Reached(g) \/ Head(queue) \in EventsOf(g)
    BY <1>5, <2>1 DEF Reached
  <2> QED
    BY <1>3, <2>1, <2>2, <2>3, <2>4 DEF TakesTurns
<1>13. CASE UpdateMemo \/ AllocateInList \/ RemoveFromList
  <2>1. work \in Event /\ UNCHANGED <<watch, queue>>
    BY <1>13 DEF UpdateMemo, AllocateInList, RemoveFromList, WorkInv
  <2>2. delayed' = delayed \/ Requeue(work)
    BY <1>13 DEF UpdateMemo, AllocateInList, RemoveFromList, Deallocated, DeallocateFails
  <2>3. delayed' \cap EventsOf(g) # {} => Reached(g)
    <3>1. [work EXCEPT !.attempt = @ + 1] \in EventsOf(g) => work \in EventsOf(g)
      BY <2>1, RequeuedIsEvent DEF EventsOf
    <3> QED
      BY <2>2, <3>1 DEF Requeue, Reached
  <2>4. work' \in EventsOf(g) => Reached(g)
    <3>1. work' = work \/ work' = NoEvent
      BY <1>13 DEF UpdateMemo, AllocateInList, RemoveFromList, EventDone
    <3> QED
      BY <1>1, <3>1 DEF Reached, EventsOf
  <2>5. memo'[NameOf[g]] = g => Reached(g)
    <3>1. \/ memo' = memo
          \/ memo' = [memo EXCEPT ![NameOf[work.pod]] = work.pod]
          \/ memo' = [memo EXCEPT ![NameOf[work.pod]] = NoPod]
      BY <1>13 DEF UpdateMemo, AllocateInList, RemoveFromList, Deallocated, DeallocateFails,
                   GetPodKey
    <3>2. NameOf[g] \in Names /\ g # NoPod
      BY <1>1
    <3>3. work.pod = g => work \in EventsOf(g)
      BY <2>1 DEF EventsOf
    <3> QED
      BY <1>1, <3>1, <3>2, <3>3 DEF Reached
  <2>6. Reached(g)' => Reached(g)
    BY <1>5, <2>3, <2>4, <2>5 DEF Reached
  <2> QED
    BY <1>7, <2>1, <2>6
<1>14. CASE WatcherRestart
  <2>1. Range(watch') = {} /\ Range(queue') = {}
    BY <1>14 DEF WatcherRestart, Range
  <2> QED
    BY <2>1, OrderedApart
<1>15. CASE InformerLists \/ WatchBreaks
  <2>1. UNCHANGED <<queue, delayed, work, memo>>
    BY <1>15 DEF InformerLists, WatchBreaks
  <2>2. \A c \in Range(watch') : phase[c.pod] \notin {"none", "deleted"}
    BY <1>15, ListedPods DEF InformerLists, WatchBreaks
  <2>3. CASE phase[g] = "none"
    <3>1. Range(watch') \cap ChangesOf(g) = {}
      BY <2>2, <2>3 DEF ChangesOf
    <3> QED
      BY <1>3, <1>8, <2>1, <2>3, <3>1, NotYet, OrderedApart DEF TakesTurns
  <2>4. CASE phase[h] = "deleted"
    <3>1. Range(watch') \cap ChangesOf(h) = {}
      BY <2>2, <2>4 DEF ChangesOf
    <3> QED
      BY <1>3, <1>8, <2>1, <3>1, OrderedApart DEF TakesTurns
  <2> QED
    BY <1>3, <2>3, <2>4
<1>16. CASE UNCHANGED wvars
  BY <1>7, <1>8, <1>16 DEF wvars
<1> QED
  BY <1>9, <1>10, <1>11, <1>12, <1>13, <1>14, <1>15, <1>16 DEF WatcherNext, WorkerNext

(* While no request has failed and no change of a pod went unseen, what    *)
(* the memo has of a deleted pod has a DELETE event on its way.            *)
MemoInv ==
    /\ step = "boot" => restarts > 0
    /\ \A g \in Pods : phase[g] = "deleted" /\ Remembered(g) => DeleteComing(g) \/ Disturbed

LEMMA DisturbedForGood ==
  ASSUME WorkInv, KeepInv, [WatcherNext]_wvars, Disturbed
  PROVE  Disturbed'
<1>1. faults \in Nat /\ faults' \in Nat /\ restarts \in Nat /\ restarts' \in Nat
  BY WorkInvStep DEF WorkInv, WatcherTypeOK
<1>2. faults <= faults'
  <2>1. CASE Pods = {}
    <3>1. work = NoEvent /\ step \in {"boot", "idle"}
      BY <2>1 DEF WorkInv, WatcherTypeOK, Event
    <3> QED
      BY <1>1, <2>1, <3>1
         DEF clusterVars, stateVars, eventVars, workVars, sentVars, WatcherNext, Observe, DelayOver,
             WorkerNext, IgnoreEvent, ProcessAdd, UpdateMemo, AllocateInList, ProcessDelete,
             RemoveFromList, InformerLists, WatcherRestart, WatchBreaks, wvars
  <2>2. CASE Pods # {}
    BY <2>2, PodsGoOn
  <2> QED
    BY <2>1, <2>2
<1>3. restarts <= restarts'
  BY <1>1, RestartSteps
<1> QED
  BY <1>1, <1>2, <1>3 DEF Disturbed

LEMMA MemoStep ==
  ASSUME WorkInv, KeepInv, EventInv, MemoInv, [WatcherNext]_wvars
  PROVE  MemoInv'
<1> USE DEF clusterVars, stateVars, eventVars, workVars, sentVars
<1>1. {faults, restarts, MaxAttemptBeforeIgnore} \subseteq Nat /\ {faults', restarts'} \subseteq Nat
  BY WorkInvStep, WatcherAssumption DEF WorkInv, WatcherTypeOK
<1>2. ASSUME step' = "boot" PROVE restarts' > 0
  <2>1. WatcherRestart \/ step = "boot"
    BY <1>2 DEF WatcherNext, PodCreated, PodMoves, PodUpdated, Observe, DelayOver, WorkerNext,
           IgnoreEvent, ProcessAdd, UpdateMemo, AllocateInList, ProcessDelete, RemoveFromList,
           EventDone, InformerLists, WatchBreaks, wvars
  <2>2. WatcherRestart => restarts' = restarts + 1
    BY DEF WatcherRestart
  <2> QED
    BY <1>1, <2>1, <2>2, RestartSteps DEF MemoInv
<1> SUFFICES ASSUME NEW g \in Pods, phase'[g] = "deleted", Remembered(g)', ~Disturbed'
             PROVE  DeleteComing(g)'
  BY <1>2 DEF MemoInv
<1>3. ~Disturbed /\ faults = 0 /\ faults' = 0
  BY <1>1, DisturbedForGood DEF Disturbed
<1>4. CASE phase[g] # "deleted"
  BY <1>3, <1>4, DeletionIsTold DEF MemoInv, Disturbed
<1>5. CASE phase[g] = "deleted"
  <2>1. Remembered(g) /\ ~WatcherRestart /\ DeleteComing(g)
    BY <1>3, <1>5, HeldBefore DEF MemoInv
  <2>2. restarts' = restarts
    <3>1. WatchBreaks => WatchMayBreak
      BY DEF WatchBreaks
    <3> QED
      BY <1>1, <2>1, <3>1, RestartSteps DEF Disturbed
  <2>3. ~(IgnoreEvent /\ queue # <<>> /\ DeleteEventOf(g, Head(queue)))
    BY <1>1, <1>3, IgnoredAfterFaults
  <2>4. ~(RemoveFromList /\ work.pod = g)
    <3> SUFFICES ASSUME RemoveFromList, work.pod = g PROVE FALSE
      OBVIOUS
    <3>1. ~DeallocateFails
      BY <1>1, <1>3 DEF DeallocateFails, RequestFails
    <3>2. Deallocated /\ step' = "idle"
      BY <3>1 DEF RemoveFromList, EventDone
    <3>3. memo \in [Names -> Pods \cup {NoPod}] /\ GetPodKey(g) \in Names /\ g # NoPod
      BY WatcherAssumption DEF WorkInv, WatcherTypeOK, GetPodKey
    <3>4. memo'[GetPodKey(g)] = NoPod
      BY <3>2, <3>3 DEF Deallocated
    <3> QED
      BY <3>2, <3>3, <3>4 DEF Remembered, GetPodKey
  <2> QED
    BY <2>1, <2>2, <2>3, <2>4, DeleteKeepsComing
<1> QED
  BY <1>4, <1>5

(* So a pod is not entered under what the memo has of its predecessor.     *)
LEMMA OwnOrDisturbed ==
  ASSUME WorkInv, KeepInv, EventInv, OrderInv, TurnInv, MemoInv, ~Disturbed,
         NEW h \in Pods, Predecessor(h, work.pod), work \in Event, AddOrUpdateEvent(work),
         memo[NameOf[h]] = h
  PROVE  FALSE
<1> DEFINE g == work.pod
<1>1. g \in Pods /\ faults = 0 /\ faults \in Nat
  BY DEF Event, Disturbed, WorkInv, WatcherTypeOK
<1>2. phase[g] # "none" /\ phase[h] = "deleted"
  <2>1. Granted(g)
    BY ElementTypes DEF EventInv, Events, GoodEvent
  <2> QED
    BY <1>1, <2>1 DEF OrderInv, Granted
<1>3. DeleteComing(h)
  BY <1>2 DEF MemoInv, Remembered, GetPodKey
<1>4. Reached(g) /\ TakesTurns(h, g)
  BY <1>1 DEF Reached, EventsOf, TurnInv
<1>5. [pod |-> h, phase |-> "deleted"] \notin Range(watch)
  <2>1. [pod |-> h, phase |-> "deleted"] \in ChangesOf(h)
    BY DEF ChangesOf, Change, Phases
  <2> QED
    BY <1>4, <2>1 DEF TakesTurns
<1>6. ASSUME NEW e \in Range(queue) \cup delayed \cup {work}, DeleteEventOf(h, e) PROVE FALSE
  <2>1. e \in Event /\ e # work
    BY <1>6, ElementTypes DEF DeleteEventOf, WorkInv, WatcherTypeOK
  <2>2. e.attempt <= faults /\ e.attempt \in Nat
    BY <1>6, <2>1, ElementTypes DEF EventInv, Events, GoodEvent, DeleteEventOf, Event
  <2>3. e.attempt = 0
    BY <1>1, <2>2
  <2>4. e \in FirstDeletes(h)
    BY <1>6, <2>1, <2>3 DEF FirstDeletes
  <2>5. e \in Range(queue)
    BY <1>6, <2>1, <2>3 DEF TurnInv
  <2> QED
    BY <1>4, <2>4, <2>5 DEF TakesTurns
<1> QED
  BY <1>3, <1>5, <1>6 DEF DeleteComing

(* What holds of pods, names and events whatever the constants are.        *)
NameInv == OrderInv /\ HoldsInv /\ TurnInv /\ MemoInv

LEMMA NameInvariants == WatcherSpec => [](WorkInv /\ KeepInv /\ EventInv /\ NameInv)
<1>1. WatcherInit => NameInv
  <2> SUFFICES ASSUME WatcherInit PROVE NameInv
    OBVIOUS
  <2>1. OrderInv /\ HoldsInv
    BY DEF WatcherInit, OrderInv, HoldsInv
  <2>2. Range(watch) = {} /\ Range(queue) = {} /\ delayed = {}
    BY DEF WatcherInit, Range
  <2>3. TurnInv
    BY <2>2, OrderedApart DEF TurnInv, TakesTurns
  <2>4. MemoInv
    BY DEF WatcherInit, MemoInv
  <2> QED
    BY <2>1, <2>3, <2>4 DEF NameInv
<1>2. WorkInv /\ KeepInv /\ EventInv /\ NameInv /\ [WatcherNext]_wvars => NameInv'
  BY OrderStep, HoldsStep, TurnStep, MemoStep DEF NameInv
<1> QED
  BY <1>1, <1>2, WatcherInvariants, PTL DEF WatcherSpec

(* Pods may be recreated under the same name at any time, on any devices,  *)
(* with events late, retried or lost: an entry of AllocationList names the *)
(* devices granted to its own pod as long as no request has failed and the *)
(* informer has seen every pod end, and else at worst those of a           *)
(* predecessor.                                                            *)
THEOREM EntriesAreOwn == WatcherSpec => []EntryNamesOwnDevices
<1> USE DEF clusterVars, stateVars, eventVars, workVars, sentVars
<1>1. WatcherInit => EntryNamesOwnDevices
  BY DEF WatcherInit, EntryNamesOwnDevices
<1>2. ASSUME WorkInv, KeepInv, EventInv, NameInv, EntryNamesOwnDevices, [WatcherNext]_wvars
      PROVE  EntryNamesOwnDevices'
  <2>1. Disturbed => Disturbed'
    BY <1>2, DisturbedForGood
  <2>2. ASSUME NEW x \in allocList', x \in allocList \/ x.holds = x.pod
        PROVE  x.holds = x.pod \/ (Predecessor(x.holds, x.pod) /\ Disturbed')
    BY <1>2, <2>1, <2>2 DEF EntryNamesOwnDevices
  <2>3. CASE AllocateInList
    <3> DEFINE p == work.pod
               m == memo[NameOf[p]]
    <3>1. /\ p \in Pods /\ NameOf[p] \in Names /\ InMemo(p) /\ step = "list"
          /\ work \in Event /\ AddOrUpdateEvent(work)
      BY <1>2, <2>3, WatcherAssumption DEF AllocateInList, WorkInv, Event
    <3>2. m \in Pods /\ NameOf[m] = NameOf[p] /\ m <= p
      BY <1>2, <3>1 DEF NameInv, HoldsInv, InMemo, GetPodKey, KeepInv, WorkInv, WatcherTypeOK
    <3>3. m \in Nat /\ p \in Nat
      BY <3>1, <3>2, WatcherAssumption
    <3>4. \A x \in allocList' : x \in allocList \/ x = [pod |-> p, holds |-> m]
      BY <2>3 DEF AllocateInList, GetPodKey
    <3>5. memo[NameOf[m]] = m
      BY <3>2
    <3> HIDE DEF m
    <3>6. CASE m = p
      BY <2>2, <3>4, <3>6 DEF EntryNamesOwnDevices, Predecessor, Disturbed
    <3>7. CASE m < p
      <4>1. Predecessor(m, p)
        BY <3>2, <3>7 DEF Predecessor
      <4>2. Disturbed
        BY <1>2, <3>1, <3>2, <3>5, <4>1, OwnOrDisturbed DEF NameInv
      <4> QED
        BY <2>1, <2>2, <3>4, <4>1, <4>2 DEF EntryNamesOwnDevices, Predecessor
    <3> QED
      BY <3>2, <3>3, <3>6, <3>7
  <2>4. CASE WatcherRestart
    <3>1. \A x \in allocList' : x \in allocList \/ x.holds = x.pod
      BY <2>4 DEF WatcherRestart
    <3> QED
      BY <2>2, <3>1 DEF EntryNamesOwnDevices, Predecessor
  <2>5. CASE allocList' \subseteq allocList
    BY <2>2, <2>5 DEF EntryNamesOwnDevices, Predecessor
  <2>6. CASE RemoveFromList
    BY <2>5, <2>6 DEF RemoveFromList
  <2>7. CASE \/ (\E h \in Pods : PodCreated(h) \/ PodMoves(h) \/ PodUpdated(h)) \/ Observe
             \/ (\E e \in delayed : DelayOver(e)) \/ IgnoreEvent \/ ProcessAdd \/ UpdateMemo
             \/ ProcessDelete \/ InformerLists \/ WatchBreaks \/ UNCHANGED wvars
    BY <2>5, <2>7 DEF PodCreated, PodMoves, PodUpdated, Observe, DelayOver, IgnoreEvent, ProcessAdd,
                      UpdateMemo, ProcessDelete, InformerLists, WatchBreaks, wvars
  <2> QED
    BY <1>2, <2>3, <2>4, <2>6, <2>7 DEF WatcherNext, WorkerNext
<1>3. WorkInv /\ KeepInv /\ EventInv /\ NameInv /\ EntryNamesOwnDevices /\ [WatcherNext]_wvars
         => EntryNamesOwnDevices'
  BY <1>2
<1> QED
  BY <1>1, <1>3, NameInvariants, PTL DEF WatcherSpec

(* Under the same conditions the worker frees the devices of a pod that    *)
(* has not ended only for the DELETE of a predecessor that was tried       *)
(* before and failed: in every other order the predecessor's DELETE finds  *)
(* the memo without the successor.                                         *)
THEOREM OnlyEndedAreFreed == WatcherSpec => FreesOnlyEnded
<1> USE DEF clusterVars, stateVars, eventVars, workVars, sentVars
<1>1. ASSUME WorkInv, KeepInv, EventInv, NameInv, [WatcherNext]_wvars, restarts' = restarts,
             NEW g \in freed' \ freed
      PROVE  phase[g] \in Ended \/ (Predecessor(work'.pod, g) /\ work'.attempt > 0)
  <2>1. ProcessDelete
    <3>1. ~WatcherRestart
      BY <1>1 DEF WatcherRestart, WorkInv, WatcherTypeOK
    <3>2. CASE \/ (\E h \in Pods : PodCreated(h) \/ PodMoves(h) \/ PodUpdated(h)) \/ Observe
               \/ (\E e \in delayed : DelayOver(e)) \/ IgnoreEvent \/ ProcessAdd \/ UpdateMemo
               \/ AllocateInList \/ RemoveFromList \/ InformerLists \/ WatchBreaks
               \/ UNCHANGED wvars
      <4>1. freed' = freed
        BY <3>2 DEF PodCreated, PodMoves, PodUpdated, Observe, DelayOver, IgnoreEvent, ProcessAdd,
                    UpdateMemo, AllocateInList, RemoveFromList, InformerLists, WatchBreaks,
                    wvars
      <4> QED
        BY <1>1, <4>1
    <3> QED
      BY <1>1, <3>1, <3>2 DEF WatcherNext, WorkerNext
  <2> DEFINE e == Head(queue)
             h == e.pod
  <2>2. /\ e \in Range(queue) /\ e \in Event /\ ~AddOrUpdateEvent(e) /\ work' = e
        /\ g = memo[NameOf[h]] /\ g \in Pods
    BY <1>1, <2>1, RangeOfTail
       DEF ProcessDelete, CleanedByName, GetPodKey, WorkInv, WatcherTypeOK
  <2> HIDE DEF e
  <2>3. h \in Pods /\ NameOf[h] \in Names /\ g # NoPod /\ g \in Nat /\ h \in Nat /\ e.attempt \in Nat
    BY <2>2, WatcherAssumption DEF Event
  <2>4. NameOf[g] = NameOf[h] /\ phase[g] # "none"
    BY <1>1, <2>2, <2>3 DEF KeepInv, Granted
  <2>5. phase[h] \in Ended
    BY <1>1, <2>2, ElementTypes DEF EventInv, Events, GoodEvent
  <2>6. CASE g = h
    BY <2>5, <2>6
  <2>7. CASE g < h
    BY <1>1, <2>2, <2>3, <2>4, <2>5, <2>7 DEF NameInv, OrderInv, Predecessor, Ended
  <2>8. CASE h < g
    <3>1. Predecessor(h, g)
      BY <2>4, <2>8 DEF Predecessor
    <3>2. Reached(g)
      BY <2>2, <2>4 DEF Reached
    <3>3. e \notin FirstDeletes(h)
      BY <1>1, <2>2, <2>3, <3>1, <3>2 DEF NameInv, TurnInv, TakesTurns
    <3>4. e.attempt # 0
      BY <2>2, <3>3 DEF FirstDeletes, DeleteEventOf
    <3> QED
      BY <2>2, <2>3, <3>1, <3>4
  <2> QED
    BY <2>3, <2>6, <2>7, <2>8
<1>2. WorkInv /\ KeepInv /\ EventInv /\ NameInv /\ [WatcherNext]_wvars
         => [restarts' = restarts =>
               \A g \in freed' \ freed :
                   phase[g] \in Ended \/ (Predecessor(work'.pod, g) /\ work'.attempt > 0)]_wvars
  BY <1>1
<1> QED
  BY <1>2, NameInvariants, PTL DEF WatcherSpec, FreesOnlyEnded
-----------------------------------------------------------------------------
(* The pod has its devices.                                                *)
Alive(g) == phase[g] \notin {"none"} \cup Ended

(* In reservation mode, until the first restart: a pod is in the node      *)
(* state as long as it is alive or being entered, and what the node state  *)
(* has for other pods, by their own entries, are other devices.            *)
BookInv ==
    ReservationMode /\ restarts = 0 =>
        /\ \A p \in Pods : Alive(p) \/ (step \in {"memo", "list"} /\ work.pod = p) =>
              p \in reservations \/ Listed(p)
        /\ \A g \in Pods : Alive(g) =>
              /\ \A h \in reservations \ {g} : DeviceOf[h] # DeviceOf[g]
              /\ \A x \in allocList : x.pod # g /\ x.holds = x.pod => DeviceOf[x.pod] # DeviceOf[g]

LEMMA BookStep ==
  ASSUME WorkInv, KeepInv, EventInv, BookInv, [WatcherNext]_wvars
  PROVE  BookInv'
<1> USE DEF clusterVars, stateVars, eventVars, workVars, sentVars
<1> SUFFICES ASSUME ReservationMode, restarts' = 0 PROVE BookInv'
  BY DEF BookInv
<1>1. /\ phase \in [Pods -> Phases] /\ restarts \in Nat /\ reservations \subseteq Pods
      /\ allocList \subseteq [pod : Pods, holds : Pods]
  BY DEF WorkInv, WatcherTypeOK
<1>2. restarts = 0 /\ ~WatcherRestart /\ ~WatchBreaks
  BY <1>1, RestartSteps DEF WatcherRestart, WatchBreaks
<1>3. /\ \A p \in Pods : Alive(p) \/ (step \in {"memo", "list"} /\ work.pod = p) =>
             p \in reservations \/ Listed(p)
      /\ \A g \in Pods : Alive(g) =>
            /\ \A h \in reservations \ {g} : DeviceOf[h] # DeviceOf[g]
            /\ \A x \in allocList : x.pod # g /\ x.holds = x.pod => DeviceOf[x.pod] # DeviceOf[g]
  BY <1>2 DEF BookInv
(* Steps that leave the node state alone, and at which no pod comes alive. *)
<1>4. ASSUME UNCHANGED <<allocList, reservations>>,
             \A g \in Pods : Alive(g)' => Alive(g),
             \A p \in Pods : step' \in {"memo", "list"} /\ work'.pod = p =>
                 Alive(p) \/ (step \in {"memo", "list"} /\ work.pod = p)
      PROVE  BookInv'
  BY <1>3, <1>4 DEF BookInv, Listed
<1>5. ASSUME NEW c \in Pods, PodCreated(c) PROVE BookInv'
  <2>1. /\ phase' = [phase EXCEPT ![c] = "pending"] /\ reservations' = reservations \cup {c}
        /\ UNCHANGED <<allocList, step, work>>
        /\ DeviceOf[c] \notin InNodeState
        /\ \A h \in Pods : DeviceOf[h] = DeviceOf[c] => phase[h] \in {"none"} \cup Ended
    BY <1>5 DEF PodCreated, PhaseBecomes
  <2>2. \A g \in Pods \ {c} : Alive(g)' <=> Alive(g)
    BY <1>1, <2>1 DEF Alive
  <2>3. \A p \in Pods : Alive(p)' \/ (step' \in {"memo", "list"} /\ work'.pod = p) =>
            p \in reservations' \/ Listed(p)'
    BY <1>3, <2>1, <2>2 DEF Listed
  <2>4. ASSUME NEW g \in Pods, Alive(g)'
        PROVE  /\ \A h \in reservations' \ {g} : DeviceOf[h] # DeviceOf[g]
               /\ \A x \in allocList' : x.pod # g /\ x.holds = x.pod => DeviceOf[x.pod] # DeviceOf[g]
    <3>1. CASE g = c
      BY <2>1, <3>1 DEF InNodeState
    <3>2. CASE g # c
      <4>1. Alive(g) /\ DeviceOf[g] # DeviceOf[c]
        BY <2>1, <2>2, <2>4, <3>2 DEF Alive
      <4> QED
        BY <1>3, <2>1, <4>1
    <3> QED
      BY <3>1, <3>2
  <2> QED
    BY <2>3, <2>4 DEF BookInv
<1>6. ASSUME NEW c \in Pods, PodMoves(c) \/ PodUpdated(c) PROVE BookInv'
  <2>1. PICK ph : /\ phase' = [phase EXCEPT ![c] = ph]
                  /\ ph \in PhaseAfter[phase[c]] \/ ph = phase[c]
    BY <1>6 DEF PodMoves, PodUpdated, PhaseBecomes
  <2>2. \A g \in Pods : Alive(g)' => Alive(g)
    BY <1>1, <2>1 DEF Alive, PhaseAfter, Ended
  <2> QED
    BY <1>4, <1>6, <2>2 DEF PodMoves, PodUpdated
<1>7. CASE Observe \/ (\E e \in delayed : DelayOver(e)) \/ IgnoreEvent \/ UNCHANGED wvars
  BY <1>4, <1>7 DEF Observe, DelayOver, IgnoreEvent, wvars, Alive
<1>8. CASE ProcessDelete \/ InformerLists
  BY <1>4, <1>8 DEF ProcessDelete, InformerLists, Alive
<1>9. CASE ProcessAdd
  <2>1. /\ UNCHANGED <<phase, allocList, reservations>> /\ step = "idle"
        /\ step' = "idle" \/ Alive(work'.pod)
    BY <1>9 DEF ProcessAdd, IsPodAlive, Alive, Ended
  <2> QED
    BY <1>4, <2>1 DEF Alive
<1>10. CASE UpdateMemo
  <2>1. UNCHANGED <<phase, allocList, reservations>> /\ step = "memo" /\ (step' = "idle" \/ work' = work)
    BY <1>10 DEF UpdateMemo, EventDone
  <2> QED
    BY <1>4, <2>1 DEF Alive
<1>11. CASE AllocateInList
  <2> DEFINE p == work.pod
             entry == [pod |-> p, holds |-> memo[GetPodKey(p)]]
  <2>1. /\ UNCHANGED phase /\ step = "list" /\ step' = "idle" /\ p \in Pods
        /\ \/ UNCHANGED <<allocList, reservations>>
           \/ /\ ~Listed(p) /\ allocList' = allocList \cup {entry}
              /\ reservations' = reservations \ {p}
    BY <1>11 DEF AllocateInList, EventDone, ReconcileReservation, WorkInv, Event
  <2>2. CASE UNCHANGED <<allocList, reservations>>
    BY <1>4, <2>1, <2>2 DEF Alive
  <2>3. CASE ~Listed(p) /\ allocList' = allocList \cup {entry} /\ reservations' = reservations \ {p}
    <3>1. \A g \in Pods : Alive(g)' <=> Alive(g)
      BY <2>1 DEF Alive
    <3>2. p \in reservations
      BY <1>3, <2>1, <2>3
    <3>3. entry.pod = p
      OBVIOUS
    <3> HIDE DEF entry
    <3>4. \A g \in Pods : Alive(g) => g \in reservations' \/ \E x \in allocList' : x.pod = g
      BY <1>3, <2>3, <3>3 DEF Listed
    <3>5. ASSUME NEW g \in Pods, Alive(g)
          PROVE  /\ \A h \in reservations' \ {g} : DeviceOf[h] # DeviceOf[g]
                 /\ \A x \in allocList' : x.pod # g /\ x.holds = x.pod => DeviceOf[x.pod] # DeviceOf[g]
      BY <1>3, <2>3, <3>2, <3>3, <3>5
    <3> QED
      BY <2>1, <3>1, <3>4, <3>5 DEF BookInv, Listed
  <2> QED
    BY <2>1, <2>2, <2>3
<1>12. CASE RemoveFromList
  <2>1. /\ UNCHANGED phase /\ step' = "idle"
        /\ reservations' \subseteq reservations /\ reservations \ {work.pod} \subseteq reservations'
        /\ allocList' \subseteq allocList /\ {x \in allocList : x.pod # work.pod} \subseteq allocList'
        /\ work \in Event /\ ~AddOrUpdateEvent(work)
    BY <1>12 DEF RemoveFromList, EventDone, ReconcileReservation, WorkInv
  <2>2. phase[work.pod] \in Ended
    BY <2>1, ElementTypes DEF EventInv, Events, GoodEvent
  <2>3. \A g \in Pods : (Alive(g)' <=> Alive(g)) /\ (Alive(g) => g # work.pod)
    BY <2>1, <2>2 DEF Alive
  <2>4. \A g \in Pods : Alive(g) => g \in reservations' \/ \E x \in allocList' : x.pod = g
    BY <1>3, <2>1, <2>3 DEF Listed
  <2> QED
    BY <1>3, <2>1, <2>3, <2>4 DEF BookInv, Listed
<1> QED
  BY <1>2, <1>5, <1>6, <1>7, <1>8, <1>9, <1>10, <1>11, <1>12 DEF WatcherNext, WorkerNext

(* In reservation mode, for any names and devices and however devices are  *)
(* handed on, no clean-up takes the P2P DMA permissions from a running pod *)
(* before the first restart, failing reads and updates included, unless it *)
(* removes an entry that names a predecessor's devices (and such an entry  *)
(* takes a failed request, by EntriesAreOwn).                              *)
THEOREM RunningPodsKeepP2PDMA == WatcherSpec => RunningKeepsP2PDMA
<1> USE DEF clusterVars, stateVars, eventVars, workVars, sentVars
<1>1. WatcherInit => BookInv
  BY DEF WatcherInit, BookInv, Alive, Listed
<1>2. WorkInv /\ KeepInv /\ EventInv /\ BookInv /\ [WatcherNext]_wvars => BookInv'
  BY BookStep
<1>3. ASSUME WorkInv, KeepInv, EventInv, NameInv, BookInv, [WatcherNext]_wvars,
             ReservationMode, restarts = 0, NEW g \in Pods, phase[g] = "running",
             DeviceOf[g] \in dma, DeviceOf[g] \notin dma'
      PROVE  \E entry \in allocList : entry.pod = work.pod /\ Predecessor(entry.holds, entry.pod)
  <2>1. CASE RemoveFromList
    <3>1. PICK x \in allocList : x.pod = work.pod /\ DeviceOf[x.holds] = DeviceOf[g]
      BY <1>3, <2>1 DEF RemoveFromList, UnsetP2PDMA
    <3>2. work \in Event /\ ~AddOrUpdateEvent(work)
      BY <1>3, <2>1 DEF RemoveFromList, WorkInv
    <3>3. phase[x.pod] \in Ended
      BY <1>3, <3>1, <3>2, ElementTypes DEF EventInv, Events, GoodEvent
    <3>4. Alive(g) /\ x.pod # g
      BY <1>3, <3>3 DEF Alive, Ended
    <3>5. x.holds # x.pod
      BY <1>3, <3>1, <3>4 DEF BookInv
    <3>6. /\ NameOf[x.holds] = NameOf[x.pod] /\ x.holds <= x.pod
          /\ x.holds \in Nat /\ x.pod \in Nat
      BY <1>3, WatcherAssumption DEF NameInv, HoldsInv, WorkInv, WatcherTypeOK
    <3> QED
      BY <3>1, <3>5, <3>6 DEF Predecessor
  <2>2. CASE \E h \in Pods : PodCreated(h)
    BY <1>3, <2>2 DEF PodCreated
  <2>3. CASE UNCHANGED dma
    BY <1>3, <2>3
  <2>4. CASE \/ (\E h \in Pods : PodMoves(h) \/ PodUpdated(h)) \/ Observe
             \/ (\E e \in delayed : DelayOver(e)) \/ IgnoreEvent \/ ProcessAdd \/ UpdateMemo
             \/ AllocateInList \/ ProcessDelete \/ WatcherRestart \/ InformerLists \/ WatchBreaks
             \/ UNCHANGED wvars
    BY <2>3, <2>4 DEF PodMoves, PodUpdated, Observe, DelayOver, IgnoreEvent, ProcessAdd, UpdateMemo,
       AllocateInList, ProcessDelete, WatcherRestart, InformerLists, WatchBreaks, wvars
  <2> QED
    BY <1>3, <2>1, <2>2, <2>4 DEF WatcherNext, WorkerNext
<1>4. WorkInv /\ KeepInv /\ EventInv /\ NameInv /\ BookInv /\ [WatcherNext]_wvars
         => [ReservationMode /\ restarts = 0 =>
               \A g \in Pods : phase[g] = "running" /\ DeviceOf[g] \in dma \ dma' =>
                   \E entry \in allocList :
                       entry.pod = work.pod /\ Predecessor(entry.holds, entry.pod)]_wvars
  BY <1>3
<1> QED
  BY <1>1, <1>2, <1>4, NameInvariants, PTL DEF WatcherSpec, RunningKeepsP2PDMA
=============================================================================
