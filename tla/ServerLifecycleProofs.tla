----------------------- MODULE ServerLifecycleProofs -----------------------
(***************************************************************************)
(* Proofs about ServerLifecycle, for any resources and any number of       *)
(* hot-plugs, kubelet restarts and notifications: type correctness, that   *)
(* no two servers of a resource listen, and that no nil grpcServer is      *)
(* called.                                                                 *)
(***************************************************************************)
EXTENDS ServerLifecycle, FiniteSetTheorems, TLAPS

(* The hot-plugs that may have made a server so far.                       *)
Replaced == IF handler = "stop" THEN hotplugs - 1 ELSE hotplugs

(* What keeps the types inductive: servers are numbered in the order they  *)
(* are made, so the next number is free and in range, and a Stop under way *)
(* is one of a server that has been made.                                  *)
TypeInv ==
    /\ LifecycleTypeOK
    /\ hotplugs \in 0..MaxHotplugs
    /\ handler = "stop" => hotplugs # 0
    /\ \E k \in 0..(Cardinality(Resources) + Replaced) : Made = 1..k
    /\ \A q \in {"handler", "main"} : caller[q].at # "out" => caller[q].server \in Made
-----------------------------------------------------------------------------
LEMMA BrokenCalls ==
    ASSUME NEW c \in Calls
    PROVE  /\ Broken(c) \in Calls /\ DOMAIN Broken(c) = DOMAIN c
           /\ \A n \in DOMAIN c : Broken(c)[n] = [c[n] EXCEPT !.live = FALSE]
<1> DEFINE Call == [live : BOOLEAN, first : BOOLEAN]
<1>1. c \in Seq(Call) /\ DOMAIN c = 1..Len(c) /\ Len(c) \in Nat
  BY DEF Calls
<1> HIDE DEF Call
<1>2. ASSUME NEW n \in 1..Len(c) PROVE [c[n] EXCEPT !.live = FALSE] \in Call
  <2>1. c[n] \in Call
    BY <1>1
  <2> QED
    BY <2>1 DEF Call
<1>3. Broken(c) = [n \in 1..Len(c) |-> [c[n] EXCEPT !.live = FALSE]]
  BY <1>1 DEF Broken
<1>4. Broken(c) \in Seq(Call)
  BY <1>1, <1>2, <1>3
<1> QED
  BY <1>1, <1>3, <1>4 DEF Calls, Call

(* A call that leaves or joins a queue leaves a queue of calls.            *)
LEMMA QueuedCalls ==
    ASSUME NEW c \in Calls
    PROVE  /\ \A e \in [live : BOOLEAN, first : BOOLEAN] : Append(c, e) \in Calls
           /\ c # <<>> => /\ Tail(c) \in Calls /\ SubSeq(c, 1, Len(c) - 1) \in Calls
                          /\ Head(c) \in [live : BOOLEAN, first : BOOLEAN]
<1> DEFINE Call == [live : BOOLEAN, first : BOOLEAN]
<1>1. c \in Seq(Call)
  BY DEF Calls
<1> HIDE DEF Call
<1>2. \A e \in Call : Append(c, e) \in Seq(Call)
  BY <1>1
<1>3. c # <<>> => Tail(c) \in Seq(Call) /\ Head(c) \in Call
  BY <1>1
<1>4. c # <<>> => SubSeq(c, 1, Len(c) - 1) \in Seq(Call)
  BY <1>1
<1> QED
  BY <1>2, <1>3, <1>4 DEF Calls, Call

LEMMA LoopTypes ==
    ASSUME LifecycleTypeOK, NEW i \in Servers, SendUpdate(i) \/ SendTerm(i) \/ UNCHANGED loopVars
    PROVE  /\ termSignal' \in [Servers -> {0, 1}]
           /\ waiting' \in [Servers -> Calls] /\ sending' \in [Servers -> Calls]
<1>1. /\ termSignal \in [Servers -> {0, 1}]
      /\ waiting \in [Servers -> Calls] /\ sending \in [Servers -> Calls]
  BY DEF LifecycleTypeOK
<1>2. waiting[i] # <<>> => /\ Tail(waiting[i]) \in Calls
                           /\ Append(sending[i], Head(waiting[i])) \in Calls
  BY <1>1, QueuedCalls
<1> QED
  BY <1>1, <1>2 DEF SendUpdate, SendTerm, loopVars

(* Nothing but a hot-plug makes a server.                                  *)
LEMMA MadeFrame ==
    ASSUME UNCHANGED resource
    PROVE  Made' = Made
  BY DEF Made

(* InitServers numbers the servers, one for each resource.                 *)
LEMMA InitialServers ==
    ASSUME Init
    PROVE  /\ Cardinality(Resources) \in Nat
           /\ Made = 1..Cardinality(Resources)
           /\ resource \in [Servers -> Resources \cup {"none"}]
           /\ serverOf \in [Resources -> Made]
           /\ \A r \in Resources : resource[serverOf[r]] = r
           /\ \A i \in Made : serverOf[resource[i]] = i
<1> DEFINE N == Cardinality(Resources)
           Injective(f) == \A r, q \in Resources : f[r] = f[q] => r = q
<1>1. N \in Nat /\ ExistsBijection(1..N, Resources) /\ IsFiniteSet(Resources)
  BY ResourcesAssumption, FS_CardinalityType
<1>2. \E f \in [Resources -> 1..N] : Injective(f)
  <2>1. PICK g : g \in Bijection(1..N, Resources)
    BY <1>1 DEF ExistsBijection
  <2>2. /\ g \in [1..N -> Resources]
        /\ \A r \in Resources : \E n \in 1..N : g[n] = r
    BY <2>1 DEF Bijection, Surjection
  <2> DEFINE f == [r \in Resources |-> CHOOSE n \in 1..N : g[n] = r]
  <2>3. \A r \in Resources : f[r] \in 1..N /\ g[f[r]] = r
    BY <2>2
  <2>4. f \in [Resources -> 1..N]
    BY <2>3
  <2> HIDE DEF f
  <2>5. Injective(f)
    BY <2>3
  <2> QED
    BY <2>4, <2>5
<1>3. serverOf \in [Resources -> 1..N] /\ Injective(serverOf)
  <2>1. serverOf = CHOOSE f \in [Resources -> 1..N] : Injective(f)
    BY DEF Init
  <2> HIDE DEF Injective
  <2> QED
    BY <1>2, <2>1
<1>4. \A i \in 1..N : \E r \in Resources : serverOf[r] = i
  <2>1. serverOf \in Injection(Resources, 1..N)
    BY <1>3 DEF Injection, IsInjective
  <2>2. IsFiniteSet(1..N) /\ Cardinality(1..N) = N
    BY <1>1, FS_Interval
  <2>3. serverOf \in Surjection(Resources, 1..N)
    BY <2>1, <2>2, FS_Injection
  <2> QED
    BY <2>3 DEF Surjection
<1>5. 1..N \subseteq Servers /\ MaxHotplugs \in Nat
  BY <1>1, BoundsAssumption DEF Servers
<1>6. /\ resource \in [Servers -> Resources \cup {"none"}]
      /\ \A i \in Servers : resource[i] \in Resources <=> i \in 1..N
      /\ \A i \in 1..N : serverOf[resource[i]] = i
  <2>1. resource = [i \in Servers |-> IF \E r \in Resources : serverOf[r] = i
                                     THEN CHOOSE r \in Resources : serverOf[r] = i ELSE "none"]
    BY DEF Init
  <2>2. ASSUME NEW i \in 1..N PROVE resource[i] \in Resources /\ serverOf[resource[i]] = i
    BY <1>4, <1>5, <2>1
  <2>3. ASSUME NEW i \in Servers, i \notin 1..N PROVE resource[i] = "none"
    BY <1>3, <2>1, <2>3
  <2> QED
    BY <2>1, <2>2, <2>3, ResourcesAssumption
<1>7. Made = 1..N
  BY <1>5, <1>6 DEF Made
<1>8. ASSUME NEW r \in Resources PROVE resource[serverOf[r]] = r
  <2>1. serverOf[r] \in 1..N
    BY <1>3
  <2>2. resource[serverOf[r]] \in Resources /\ serverOf[resource[serverOf[r]]] = serverOf[r]
    BY <1>5, <1>6, <2>1
  <2> QED
    BY <1>3, <2>2
<1> QED
  BY <1>1, <1>3, <1>6, <1>7, <1>8

LEMMA TypeInvInit == Init => TypeInv
<1> SUFFICES ASSUME Init PROVE TypeInv
  OBVIOUS
<1>1. <<>> \in Calls
  BY DEF Calls
<1>2. socket \in [Resources -> Servers \cup {NoServer}]
  BY InitialServers DEF Init, Made
<1>3. LifecycleTypeOK
  BY <1>1, <1>2, InitialServers DEF Init, LifecycleTypeOK, NoServer
<1>4. \E k \in 0..(Cardinality(Resources) + Replaced) : Made = 1..k
  <2>1. Replaced = 0
    BY DEF Init, Replaced
  <2> QED
    BY <2>1, InitialServers
<1> QED
  BY <1>3, <1>4, BoundsAssumption DEF Init, TypeInv

(* The number of a server that is about to replace another one is free.    *)
LEMMA NewServer ==
    ASSUME TypeInv, handler = "stop"
    PROVE  LET i == Cardinality(Made) + 1
           IN  /\ i \in 1..(Cardinality(Resources) + hotplugs) /\ i \in Servers
               /\ i \notin Made /\ Made \cup {i} = 1..i
<1> DEFINE N == Cardinality(Resources)
<1>1. N \in Nat /\ MaxHotplugs \in Nat
  BY ResourcesAssumption, BoundsAssumption, FS_CardinalityType
<1>2. hotplugs \in 1..MaxHotplugs /\ Replaced = hotplugs - 1
  BY <1>1 DEF TypeInv, Replaced
<1>3. PICK k \in 0..(N + hotplugs - 1) : Made = 1..k
  BY <1>2 DEF TypeInv
<1> HIDE DEF N
<1>4. Cardinality(1..k) = k
  BY <1>1, <1>2, FS_Interval
<1>5. N + MaxHotplugs = Cardinality(Resources) + MaxHotplugs
  BY DEF N
<1> QED
  BY <1>1, <1>2, <1>3, <1>4, <1>5 DEF Servers, N

LEMMA TypeInvStep == TypeInv /\ [Next]_vars => TypeInv'
<1> SUFFICES ASSUME TypeInv, [Next]_vars PROVE TypeInv'
  OBVIOUS
<1>0. LifecycleTypeOK
  BY DEF TypeInv
<1> DEFINE Counted == /\ hotplugs \in 0..MaxHotplugs
                      /\ handler = "stop" => hotplugs # 0
                      /\ \E k \in 0..(Cardinality(Resources) + Replaced) : Made = 1..k
           CallersMade == \A q \in {"handler", "main"} :
                              caller[q].at # "out" => caller[q].server \in Made
<1> USE DEF serverVars, loopVars, kubeletVars, handlerVars, mainVars, runVars
<1>1. UNCHANGED resource => Made' = Made
  BY MadeFrame
<1>a. UNCHANGED <<resource, handler, hotplugs>> => Counted'
  BY <1>1 DEF TypeInv, Replaced
<1>b. ASSUME UNCHANGED <<resource, handler, hotplugs, caller>>, LifecycleTypeOK' PROVE TypeInv'
  <2>1. CallersMade'
    BY <1>1, <1>b DEF TypeInv
  <2> QED
    BY <1>a, <1>b, <2>1 DEF TypeInv
<1>2. ASSUME NEW i \in Servers, Sent(i) PROVE LifecycleTypeOK'
  <2>1. sending[i] # <<>> /\ sending[i] \in Calls /\ waiting[i] \in Calls
    BY <1>0, <1>2 DEF Sent, LifecycleTypeOK
  <2> DEFINE call == Head(sending[i])
  <2>2. Tail(sending[i]) \in Calls /\ call \in [live : BOOLEAN, first : BOOLEAN]
    BY <2>1, QueuedCalls
  <2>3. [call EXCEPT !.first = FALSE] \in [live : BOOLEAN, first : BOOLEAN]
    BY <2>2
  <2>4. Append(waiting[i], [call EXCEPT !.first = FALSE]) \in Calls
    BY <2>1, <2>3, QueuedCalls
  <2> HIDE DEF call
  <2> QED
    BY <1>0, <1>1, <1>2, <2>2, <2>4 DEF Sent, Loops, LifecycleTypeOK, call
<1>3. ASSUME NEW i \in Servers, SendFails(i) PROVE LifecycleTypeOK'
  <2>1. sending[i] # <<>> /\ sending[i] \in Calls /\ waiting[i] \in Calls
    BY <1>0, <1>3 DEF SendFails, LifecycleTypeOK
  <2>2. Tail(sending[i]) \in Calls /\ Broken(Tail(sending[i])) \in Calls /\ Broken(waiting[i]) \in Calls
    BY <2>1, QueuedCalls, BrokenCalls
  <2>3. sending' \in [Servers -> Calls] /\ waiting' \in [Servers -> Calls]
    BY <1>0, <1>3, <2>2 DEF SendFails, LifecycleTypeOK
  <2>4. /\ grpc' \in [Servers -> {"new", "serving", "stopped", "nil"}]
        /\ socket' \in [Resources -> Servers \cup {NoServer}]
        /\ panicked' \in BOOLEAN
    <3>1. CASE StopsGrpc(Head(sending[i]))
      <4>1. /\ grpc' = [grpc EXCEPT ![i] = IF @ = "nil" THEN @ ELSE "stopped"]
            /\ panicked' = (panicked \/ grpc[i] = "nil")
            /\ socket' = [socket EXCEPT ![resource[i]] = IF @ = i THEN NoServer ELSE @]
        BY <1>3, <3>1 DEF SendFails, GrpcStopped
      <4>2. panicked' \in BOOLEAN
        BY <4>1
      <4> QED
        BY <1>0, <4>1, <4>2 DEF LifecycleTypeOK
    <3>2. CASE ~StopsGrpc(Head(sending[i]))
      BY <1>0, <1>3, <3>2 DEF SendFails, LifecycleTypeOK
    <3> QED
      BY <3>1, <3>2
  <2> QED
    BY <1>0, <1>1, <1>3, <2>3, <2>4 DEF SendFails, LifecycleTypeOK
<1>4. ASSUME NEW i \in Servers, TakesTerm(i) PROVE LifecycleTypeOK'
  <2>1. SubSeq(waiting[i], 1, Len(waiting[i]) - 1) \in Calls
    BY <1>0, <1>4, QueuedCalls DEF TakesTerm, LifecycleTypeOK
  <2> QED
    BY <1>0, <1>1, <1>4, <2>1 DEF TakesTerm, LifecycleTypeOK
<1>5. ASSUME NEW i \in Servers, WatchRestarts(i) PROVE LifecycleTypeOK'
  <2>1. Broken(sending[i]) \in Calls /\ Broken(waiting[i]) \in Calls
    BY <1>0, BrokenCalls DEF LifecycleTypeOK
  <2> QED
    BY <1>0, <1>1, <1>5, <2>1 DEF WatchRestarts, LifecycleTypeOK
<1>6. ASSUME NEW i \in Servers, WatchTerm(i) PROVE LifecycleTypeOK'
  BY <1>0, <1>1, <1>6, LoopTypes DEF WatchTerm, LifecycleTypeOK
<1>7. ASSUME NEW i \in Servers, WatchStart(i) PROVE LifecycleTypeOK'
  BY <1>0, <1>1, <1>7 DEF WatchStart, Listening, LifecycleTypeOK
<1>8. ASSUME NEW i \in Servers, InformedBySharedInfo(i) PROVE LifecycleTypeOK'
  <2>1. SendUpdate(i) \/ UNCHANGED loopVars
    BY <1>8 DEF InformedBySharedInfo
  <2> QED
    BY <1>0, <1>1, <1>8, <2>1, LoopTypes DEF InformedBySharedInfo, LifecycleTypeOK
<1>9. ASSUME NEW r \in Resources, Notify(r) PROVE LifecycleTypeOK'
  BY <1>0, <1>1, <1>9 DEF Notify, LifecycleTypeOK
<1>10. ASSUME NEW r \in Resources, KubeletConnects(r) PROVE LifecycleTypeOK'
  <2>1. \A i \in Servers : Append(sending[i], [live |-> TRUE, first |-> TRUE]) \in Calls
    BY <1>0, QueuedCalls DEF LifecycleTypeOK
  <2> QED
    BY <1>0, <1>1, <1>10, <2>1 DEF KubeletConnects, LifecycleTypeOK
<1>11. ASSUME Shutdown \/ ShutdownEnds PROVE LifecycleTypeOK'
  <2>1. /\ main' \in {"run", "stopping", "exited"} /\ tostop' \in {tostop, Resources}
        /\ UNCHANGED <<pluginWatch, serverVars, loopVars, watcher, kubeletVars, caller,
                       handlerVars, runVars, panicked>>
    BY <1>11 DEF Shutdown, ShutdownEnds
  <2> QED
    BY <1>0, <1>1, <2>1 DEF LifecycleTypeOK
<1>12. ASSUME KubeletRestarts PROVE LifecycleTypeOK'
  <2>1. \A i \in Servers : Broken(sending[i]) \in Calls /\ Broken(waiting[i]) \in Calls
    BY <1>0, BrokenCalls DEF LifecycleTypeOK
  <2>2. /\ waiting' \in [Servers -> Calls] /\ sending' \in [Servers -> Calls]
        /\ noticed' \in [Resources -> BOOLEAN] /\ fresh' \in [Servers -> BOOLEAN]
        /\ socket' \in [Resources -> Servers \cup {NoServer}]
        /\ UNCHANGED <<pluginWatch, resource, serverOf, grpc, serverStarted, termSignal, watcher,
                       caller, handlerVars, mainVars, runVars, panicked>>
    BY <1>0, <1>12, <2>1 DEF KubeletRestarts, LifecycleTypeOK
  <2> QED
    BY <1>0, <1>1, <2>2 DEF LifecycleTypeOK
<1>13. ASSUME NEW q \in {"handler", "main"}, StopTerm(q) \/ StopWatcher(q) \/ StopClose(q)
       PROVE  TypeInv'
  <2> DEFINE i == caller[q].server
  <2>1. i \in Made /\ i \in Servers
    BY <1>13 DEF StopTerm, StopWatcher, StopClose, TypeInv, Made
  <2>2. /\ UNCHANGED <<resource, handler, hotplugs>>
        /\ \E at \in {"watcher", "close", "returned"} : caller' = [caller EXCEPT ![q].at = at]
    BY <1>13 DEF StopTerm, StopWatcher, StopClose, AfterTerm
  <2>3. /\ caller' \in [{"handler", "main"} -> [at : {"out", "term", "watcher", "close", "returned"},
                                               server : Servers \cup {NoServer}]]
        /\ CallersMade'
    <3>1. caller \in [{"handler", "main"} -> [at : {"out", "term", "watcher", "close", "returned"},
                                            server : Servers \cup {NoServer}]]
      BY <1>0 DEF LifecycleTypeOK
    <3> QED
      BY <1>1, <2>1, <2>2, <3>1 DEF TypeInv
  <2>4. LifecycleTypeOK'
    <3>1. Broken(sending[i]) \in Calls /\ Broken(waiting[i]) \in Calls
      BY <1>0, <2>1, BrokenCalls DEF LifecycleTypeOK
    <3>2. CASE StopTerm(q)
      BY <1>0, <1>1, <2>1, <2>3, <3>2, LoopTypes DEF StopTerm, LifecycleTypeOK
    <3>3. CASE StopWatcher(q)
      BY <1>0, <1>1, <2>1, <2>3, <3>3 DEF StopWatcher, LifecycleTypeOK
    <3>4. CASE StopClose(q)
      <4>1. panicked' \in BOOLEAN
        BY <3>4 DEF StopClose
      <4> QED
        BY <1>0, <1>1, <2>1, <2>3, <3>1, <3>4, <4>1 DEF StopClose, LifecycleTypeOK
    <3> QED
      BY <1>13, <3>2, <3>3, <3>4
  <2> QED
    BY <1>a, <2>2, <2>3, <2>4 DEF TypeInv
<1>14. ASSUME NEW q \in {"handler", "main"}, NEW r \in Resources, CallStop(q, serverOf[r]),
              UNCHANGED <<pluginWatch, resource>>
       PROVE  /\ CallersMade'
              /\ caller' \in [{"handler", "main"} -> [at : {"out", "term", "watcher", "close", "returned"},
                                                    server : Servers \cup {NoServer}]]
  <2>1. serverOf[r] \in Made /\ Made \subseteq Servers
    BY <1>0 DEF LifecycleTypeOK, Made
  <2>2. caller \in [{"handler", "main"} -> [at : {"out", "term", "watcher", "close", "returned"},
                                          server : Servers \cup {NoServer}]]
    BY <1>0 DEF LifecycleTypeOK
  <2> QED
    BY <1>1, <1>14, <2>1, <2>2 DEF CallStop, TypeInv
<1>15. ASSUME NEW r \in Aggregated, HotplugBegins(r) PROVE TypeInv'
  <2>1. r \in Resources /\ MaxHotplugs \in Nat
    BY ResourcesAssumption, BoundsAssumption
  <2>2. /\ handler = "idle" /\ handler' = "stop" /\ hotplugs' = hotplugs + 1
        /\ hotplugs < MaxHotplugs /\ swapped' = r
        /\ CallStop("handler", serverOf[r])
        /\ UNCHANGED <<pluginWatch, serverVars, loopVars, watcher, kubeletVars, mainVars, runVars,
                       panicked>>
    BY <1>15 DEF HotplugBegins
  <2>3. Counted'
    BY <1>1, <2>1, <2>2 DEF TypeInv, Replaced
  <2>4. LifecycleTypeOK'
    BY <1>0, <1>1, <1>14, <2>1, <2>2 DEF LifecycleTypeOK
  <2> QED
    BY <1>14, <2>1, <2>2, <2>3, <2>4 DEF TypeInv
<1>16. CASE HotplugReplaces
  <2> DEFINE N == Cardinality(Resources)
             i == Cardinality(Made) + 1
  <2>1. N \in Nat /\ MaxHotplugs \in Nat /\ Aggregated \subseteq Resources /\ "none" \notin Resources
    BY ResourcesAssumption, BoundsAssumption, FS_CardinalityType
  <2>2. /\ handler = "stop" /\ handler' = "trigger" /\ swapped \in Resources
        /\ resource' = [resource EXCEPT ![i] = swapped]
        /\ UNCHANGED <<swapped, hotplugs>>
    BY <1>0, <1>16, <2>1 DEF HotplugReplaces, RegisterServer, LifecycleTypeOK
  <2>3. hotplugs \in 1..MaxHotplugs
    BY <2>1, <2>2 DEF TypeInv
  <2>4. i \in 1..(N + hotplugs) /\ i \in Servers /\ Made \cup {i} = 1..i
    BY <2>2, NewServer
  <2>5. Made' = Made \cup {i}
    <3>1. resource \in [Servers -> Resources \cup {"none"}]
      BY <1>0 DEF LifecycleTypeOK
    <3> QED
      BY <2>2, <2>4, <3>1 DEF Made
  <2>6. Counted'
    <3>1. Replaced' = hotplugs
      BY <2>2 DEF Replaced
    <3> QED
      BY <2>1, <2>2, <2>3, <2>4, <2>5, <3>1
  <2> HIDE DEF i
  <2>7. /\ grpc' = [grpc EXCEPT ![i] = "serving"]
        /\ serverOf' = [serverOf EXCEPT ![swapped] = i]
        /\ socket' = [socket EXCEPT ![resource'[i]] = i]
        /\ noticed' = [noticed EXCEPT ![resource'[i]] = TRUE]
        /\ caller' = [caller EXCEPT !["handler"] = [at |-> "out", server |-> NoServer]]
        /\ UNCHANGED <<pluginWatch, serverStarted, fresh, loopVars, watcher, kubeletRestarts,
                       mainVars, runVars, panicked>>
    BY <1>16 DEF HotplugReplaces, Listening, i
  <2>8. CallersMade'
    BY <1>0, <2>5, <2>7 DEF TypeInv, LifecycleTypeOK
  <2>9. caller' \in [{"handler", "main"} -> [at : {"out", "term", "watcher", "close", "returned"},
                                           server : Servers \cup {NoServer}]]
    BY <1>0, <2>7 DEF LifecycleTypeOK
  <2>10. LifecycleTypeOK'
    BY <1>0, <2>2, <2>4, <2>5, <2>7, <2>9 DEF LifecycleTypeOK
  <2> QED
    BY <2>6, <2>8, <2>10 DEF TypeInv
<1>23. CASE HotplugFails
  <2> DEFINE N == Cardinality(Resources)
             i == Cardinality(Made) + 1
  <2>1. N \in Nat /\ MaxHotplugs \in Nat /\ Aggregated \subseteq Resources /\ "none" \notin Resources
    BY ResourcesAssumption, BoundsAssumption, FS_CardinalityType
  <2>2. /\ handler = "stop" /\ handler' = "trigger" /\ swapped \in Resources
        /\ UNCHANGED resource \/ resource' = [resource EXCEPT ![i] = swapped]
        /\ UNCHANGED <<swapped, hotplugs>>
    BY <1>0, <1>23, <2>1 DEF HotplugFails, RegisterServer, LifecycleTypeOK
  <2>3. hotplugs \in 1..MaxHotplugs /\ Replaced = hotplugs - 1 /\ Replaced' = hotplugs
    BY <2>1, <2>2 DEF TypeInv, Replaced
  <2>4. i \in 1..(N + hotplugs) /\ i \in Servers /\ Made \cup {i} = 1..i
    BY <2>2, NewServer
  <2>5. /\ Made' = Made \/ Made' = Made \cup {i}
        /\ resource' \in [Servers -> Resources \cup {"none"}]
    <3>1. resource \in [Servers -> Resources \cup {"none"}]
      BY <1>0 DEF LifecycleTypeOK
    <3> QED
      BY <1>1, <2>2, <2>4, <3>1 DEF Made
  <2>6. Counted'
    <3>1. \E k \in 0..(N + hotplugs - 1) : Made = 1..k
      BY <2>3 DEF TypeInv
    <3>2. \E k \in 0..(N + hotplugs) : Made' = 1..k
      <4>1. hotplugs \in Nat /\ N \in Nat
        BY <2>1, <2>3
      <4> HIDE DEF N, i
      <4>2. CASE Made' = Made
        BY <3>1, <4>1, <4>2
      <4>3. CASE Made' = Made \cup {i}
        BY <2>4, <4>1, <4>3
      <4> QED
        BY <2>5, <4>2, <4>3
    <3> QED
      BY <2>2, <2>3, <3>2
  <2> HIDE DEF i
  <2>7. /\ caller' = [caller EXCEPT !["handler"] = [at |-> "out", server |-> NoServer]]
        /\ UNCHANGED <<pluginWatch, serverOf, grpc, serverStarted, fresh, loopVars, watcher,
                       kubeletVars, mainVars, runVars, panicked>>
    BY <1>23 DEF HotplugFails
  <2>8. CallersMade'
    BY <1>0, <2>5, <2>7 DEF TypeInv, LifecycleTypeOK
  <2>9. caller' \in [{"handler", "main"} -> [at : {"out", "term", "watcher", "close", "returned"},
                                           server : Servers \cup {NoServer}]]
    BY <1>0, <2>7 DEF LifecycleTypeOK
  <2>10. LifecycleTypeOK'
    BY <1>0, <2>2, <2>5, <2>7, <2>9 DEF LifecycleTypeOK
  <2> QED
    BY <2>6, <2>8, <2>10 DEF TypeInv
<1>24. ASSUME NEW r \in Resources, KubeletRefuses(r) PROVE TypeInv'
  <2> DEFINE i == socket[r]
  <2>1. i \in Servers /\ waiting[i] \in Calls /\ sending[i] \in Calls
    BY <1>0, <1>24 DEF KubeletRefuses, LifecycleTypeOK
  <2>2. Broken(waiting[i]) \in Calls /\ Broken(sending[i]) \in Calls
    BY <2>1, BrokenCalls
  <2>3. LifecycleTypeOK'
    BY <1>0, <1>1, <1>24, <2>1, <2>2 DEF KubeletRefuses, LifecycleTypeOK
  <2>4. UNCHANGED <<resource, handler, hotplugs, caller>>
    BY <1>24 DEF KubeletRefuses
  <2> QED
    BY <1>b, <2>3, <2>4
<1>17. CASE TriggerUpdate
  <2>1. serverOf[swapped] \in Servers
    BY <1>0, ResourcesAssumption DEF LifecycleTypeOK, Made
  <2>2. /\ handler = "trigger" /\ handler' = "idle"
        /\ SendUpdate(serverOf[swapped]) \/ UNCHANGED loopVars
        /\ UNCHANGED <<pluginWatch, serverVars, watcher, kubeletVars, caller, swapped, hotplugs,
                       mainVars, runVars, panicked>>
    BY <1>17 DEF TriggerUpdate
  <2>3. Counted' /\ CallersMade'
    BY <1>1, <2>2 DEF TypeInv, Replaced
  <2>4. LifecycleTypeOK'
    BY <1>0, <1>1, <2>1, <2>2, LoopTypes DEF LifecycleTypeOK
  <2> QED
    BY <2>3, <2>4 DEF TypeInv
<1>18. ASSUME NEW r \in Resources, ShutdownStops(r) PROVE TypeInv'
  <2>1. /\ tostop' = tostop \ {r} /\ CallStop("main", serverOf[r])
        /\ UNCHANGED <<pluginWatch, serverVars, loopVars, watcher, kubeletVars, handlerVars, main,
                       runVars, panicked>>
    BY <1>18 DEF ShutdownStops
  <2>2. LifecycleTypeOK'
    BY <1>0, <1>1, <1>14, <2>1 DEF LifecycleTypeOK
  <2> QED
    BY <1>a, <1>14, <2>1, <2>2 DEF TypeInv
<1>19. CASE UNCHANGED vars
  <2>1. LifecycleTypeOK'
    BY <1>0, <1>1, <1>19 DEF vars, LifecycleTypeOK
  <2> QED
    BY <1>b, <1>19, <2>1 DEF vars
<1>20. ASSUME NEW i \in Servers, ServerStep(i) PROVE TypeInv'
  <2>1. UNCHANGED <<resource, handler, hotplugs, caller>>
    BY <1>20 DEF ServerStep, Sent, SendFails, TakesTerm, WatchRestarts, WatchTerm, WatchStart,
       InformedBySharedInfo
  <2> QED
    BY <1>b, <1>2, <1>3, <1>4, <1>5, <1>6, <1>7, <1>8, <1>20, <2>1 DEF ServerStep
<1>21. ASSUME NEW r \in Resources, Notify(r) \/ KubeletConnects(r) PROVE TypeInv'
  <2>1. UNCHANGED <<resource, handler, hotplugs, caller>>
    BY <1>21 DEF Notify, KubeletConnects
  <2> QED
    BY <1>b, <1>9, <1>10, <1>21, <2>1
<1>22. CASE Shutdown \/ ShutdownEnds \/ KubeletRestarts
  <2>1. UNCHANGED <<resource, handler, hotplugs, caller>>
    BY <1>22 DEF Shutdown, ShutdownEnds, KubeletRestarts
  <2> QED
    BY <1>b, <1>11, <1>12, <1>22, <2>1
<1> QED
  BY <1>13, <1>15, <1>16, <1>17, <1>18, <1>19, <1>20, <1>21, <1>22, <1>23, <1>24 DEF Next

(* Every server that is stopped, informed or replaced has been made, and   *)
(* the number of a new server is free, for any resources and any number of *)
(* hot-plugs, kubelet restarts and notifications, calm or not.             *)
THEOREM LifecycleTypes == Spec => []LifecycleTypeOK
<1>1. TypeInv => LifecycleTypeOK
  BY DEF TypeInv
<1> QED
  BY TypeInvInit, TypeInvStep, <1>1, PTL DEF Spec
-----------------------------------------------------------------------------
(* Only the server a resource has in rm.resourceServers listens: a         *)
(* hot-plug, which does not stop watchers, comes in the mode that has      *)
(* none, and replaces a server whose Stop has returned.                    *)
ListenInv ==
    /\ \A r \in Resources : resource[serverOf[r]] = r /\ socket[r] \in {serverOf[r], NoServer}
    /\ \A i \in Servers : grpc[i] = "serving" => i \in Made /\ serverOf[resource[i]] = i
    /\ \A i \in Servers : watcher[i] # "none" =>
          ~pluginWatch /\ i \in Made /\ serverOf[resource[i]] = i
    /\ handler # "idle" => pluginWatch
    /\ handler = "stop" =>
          /\ caller["handler"].server = serverOf[swapped]
          /\ caller["handler"].at = "returned" => grpc[serverOf[swapped]] = "nil"

LEMMA ListenInitially == Init => ListenInv
<1> SUFFICES ASSUME Init PROVE ListenInv
  OBVIOUS
<1>1. /\ socket = serverOf /\ handler = "idle"
      /\ watcher = [i \in Servers |-> IF i \in Made /\ ~pluginWatch THEN "check" ELSE "none"]
      /\ grpc = [i \in Servers |-> IF i \in Made THEN "serving" ELSE "new"]
  BY DEF Init
<1> QED
  BY <1>1, InitialServers DEF ListenInv

LEMMA ListenStep ==
    ASSUME TypeInv, ListenInv, "hotplug" \in Calm, [Next]_vars
    PROVE  ListenInv'
<1>0. /\ resource \in [Servers -> Resources \cup {"none"}]
      /\ serverOf \in [Resources -> Made] /\ Made \subseteq Servers
      /\ grpc \in [Servers -> {"new", "serving", "stopped", "nil"}]
      /\ watcher \in [Servers -> {"none", "check", "term", "start"}]
      /\ socket \in [Resources -> Servers \cup {NoServer}]
      /\ caller \in [{"handler", "main"} -> [at : {"out", "term", "watcher", "close", "returned"},
                                            server : Servers \cup {NoServer}]]
      /\ swapped \in Resources
      /\ \A i \in Made : resource[i] \in Resources
      /\ NoServer \notin Servers
  BY ResourcesAssumption DEF TypeInv, LifecycleTypeOK, Made, NoServer, Servers
<1> USE DEF serverVars, loopVars, kubeletVars, handlerVars, mainVars, runVars
<1>1. UNCHANGED resource => Made' = Made
  BY MadeFrame
(* Servers may stop listening, and sockets may go.                         *)
<1>2. CASE /\ UNCHANGED <<pluginWatch, resource, serverOf, handler, swapped>>
           /\ \A r \in Resources : socket'[r] \in {socket[r], NoServer}
           /\ \A i \in Servers : /\ grpc'[i] = "serving" => grpc[i] = "serving"
                                 /\ grpc[i] = "nil" => grpc'[i] = "nil"
           /\ \A i \in Servers : watcher'[i] # "none" => watcher[i] # "none"
           /\ handler = "stop" =>
                 /\ caller'["handler"].server = caller["handler"].server
                 /\ caller'["handler"].at = "returned" =>
                       \/ caller["handler"].at = "returned"
                       \/ grpc'[caller["handler"].server] = "nil"
  BY <1>0, <1>1, <1>2 DEF ListenInv
<1>3. ASSUME NEW i \in Servers, Sent(i) \/ TakesTerm(i) \/ WatchTerm(i) \/ InformedBySharedInfo(i)
      PROVE  ListenInv'
  BY <1>0, <1>2, <1>3 DEF Sent, TakesTerm, WatchTerm, InformedBySharedInfo
<1>4. ASSUME NEW i \in Servers, SendFails(i) PROVE ListenInv'
  <2>1. /\ \A j \in Servers : /\ grpc'[j] = "serving" => grpc[j] = "serving"
                              /\ grpc[j] = "nil" => grpc'[j] = "nil"
        /\ \A r \in Resources : socket'[r] \in {socket[r], NoServer}
    <3>1. CASE StopsGrpc(Head(sending[i]))
      <4>1. /\ grpc' = [grpc EXCEPT ![i] = IF @ = "nil" THEN @ ELSE "stopped"]
            /\ socket' = [socket EXCEPT ![resource[i]] = IF @ = i THEN NoServer ELSE @]
        BY <1>4, <3>1 DEF SendFails, GrpcStopped
      <4> QED
        BY <1>0, <4>1
    <3>2. CASE ~StopsGrpc(Head(sending[i]))
      BY <1>4, <3>2 DEF SendFails
    <3> QED
      BY <3>1, <3>2
  <2> QED
    BY <1>2, <1>4, <2>1 DEF SendFails
<1>5. ASSUME NEW i \in Servers, WatchRestarts(i) PROVE ListenInv'
  BY <1>0, <1>2, <1>5 DEF WatchRestarts
<1>6. ASSUME NEW i \in Servers, WatchStart(i) PROVE ListenInv'
  <2>1. ~pluginWatch /\ i \in Made /\ serverOf[resource[i]] = i /\ handler = "idle"
    BY <1>6 DEF WatchStart, ListenInv, TypeInv, LifecycleTypeOK
  <2>2. /\ watcher' = [watcher EXCEPT ![i] = "check"]
        /\ grpc' = [grpc EXCEPT ![i] = "serving"]
        /\ socket' = [socket EXCEPT ![resource[i]] = i]
        /\ UNCHANGED <<pluginWatch, resource, serverOf, caller, handler, swapped>>
    BY <1>6 DEF WatchStart, Listening
  <2> QED
    BY <1>0, <1>1, <2>1, <2>2 DEF ListenInv
<1>7. ASSUME NEW q \in {"handler", "main"}, StopTerm(q) \/ StopWatcher(q) PROVE ListenInv'
  <2>1. /\ \E at \in {"watcher", "close"} : caller' = [caller EXCEPT ![q].at = at]
        /\ UNCHANGED <<pluginWatch, resource, serverOf, handler, swapped, grpc, socket>>
        /\ \A i \in Servers : watcher'[i] # "none" => watcher[i] # "none"
    BY <1>0, <1>7 DEF StopTerm, StopWatcher, AfterTerm
  <2>2. /\ caller'["handler"].server = caller["handler"].server
        /\ caller'["handler"].at = "returned" => caller["handler"].at = "returned"
    BY <1>0, <2>1
  <2> QED
    BY <1>2, <2>1, <2>2
<1>8. ASSUME NEW q \in {"handler", "main"}, StopClose(q) PROVE ListenInv'
  <2>1. caller[q].server \in Made
    BY <1>8 DEF TypeInv, StopClose
  <2>2. /\ grpc' = [grpc EXCEPT ![caller[q].server] = "nil"]
        /\ socket' = [socket EXCEPT ![resource[caller[q].server]] = NoServer]
        /\ caller' = [caller EXCEPT ![q].at = "returned"]
        /\ UNCHANGED <<pluginWatch, resource, serverOf, handler, swapped, watcher>>
    BY <1>8 DEF StopClose
  <2> QED
    BY <1>0, <1>2, <2>1, <2>2
<1>9. ASSUME NEW r \in Aggregated, HotplugBegins(r) PROVE ListenInv'
  <2>1. /\ pluginWatch /\ r \in Resources /\ handler' = "stop" /\ swapped' = r
        /\ CallStop("handler", serverOf[r])
        /\ UNCHANGED <<pluginWatch, resource, serverOf, grpc, socket, watcher>>
    BY <1>9, ResourcesAssumption DEF HotplugBegins
  <2>2. /\ caller'["handler"].server = serverOf[r]
        /\ caller'["handler"].at = "returned" => grpc[serverOf[r]] = "nil"
    BY <1>0, <2>1 DEF CallStop
  <2> QED
    BY <1>1, <2>1, <2>2 DEF ListenInv
<1>10. CASE HotplugReplaces
  <2> DEFINE i == Cardinality(Made) + 1
  <2>1. /\ handler = "stop" /\ handler' = "trigger" /\ caller["handler"].at = "returned"
        /\ resource' = [resource EXCEPT ![i] = swapped]
        /\ grpc' = [grpc EXCEPT ![i] = "serving"]
        /\ serverOf' = [serverOf EXCEPT ![swapped] = i]
        /\ socket' = [socket EXCEPT ![resource'[i]] = i]
        /\ UNCHANGED <<pluginWatch, watcher>>
    BY <1>10 DEF HotplugReplaces, RegisterServer, Listening
  <2>2. i \in Servers /\ i \notin Made
    BY <2>1, NewServer
  <2> HIDE DEF i
  <2>3. Made' = Made \cup {i} /\ resource'[i] = swapped /\ \A j \in Made : resource'[j] = resource[j]
    BY <1>0, <2>1, <2>2 DEF Made
  <2>4. grpc[serverOf[swapped]] = "nil" /\ pluginWatch /\ \A j \in Servers : watcher[j] = "none"
    BY <2>1 DEF ListenInv
  <2>5. \A r \in Resources : resource'[serverOf'[r]] = r /\ socket'[r] \in {serverOf'[r], NoServer}
    BY <1>0, <2>1, <2>2, <2>3 DEF ListenInv
  <2>6. \A j \in Servers : grpc'[j] = "serving" => j \in Made' /\ serverOf'[resource'[j]] = j
    <3>1. serverOf'[resource'[i]] = i
      BY <1>0, <2>1, <2>3
    <3>2. ASSUME NEW j \in Servers, j # i, grpc'[j] = "serving"
          PROVE  j \in Made' /\ serverOf'[resource'[j]] = j
      <4>1. /\ j \in Made /\ grpc[j] = "serving" /\ serverOf[resource[j]] = j
            /\ resource'[j] = resource[j]
        BY <1>0, <2>1, <2>2, <2>3, <3>2 DEF ListenInv
      <4>2. resource[j] # swapped
        BY <2>4, <4>1
      <4> QED
        BY <1>0, <2>1, <2>3, <4>1, <4>2
    <3> QED
      BY <2>3, <3>1, <3>2
  <2> QED
    BY <2>1, <2>4, <2>5, <2>6 DEF ListenInv
<1>16. CASE HotplugFails
  <2> DEFINE i == Cardinality(Made) + 1
  <2>1. /\ handler = "stop" /\ handler' = "trigger"
        /\ UNCHANGED resource \/ resource' = [resource EXCEPT ![i] = swapped]
        /\ UNCHANGED <<pluginWatch, serverOf, grpc, socket, watcher>>
    BY <1>16 DEF HotplugFails, RegisterServer
  <2>2. i \in Servers /\ i \notin Made
    BY <2>1, NewServer
  <2> HIDE DEF i
  <2>3. Made \subseteq Made' /\ \A j \in Made : resource'[j] = resource[j]
    BY <1>0, <2>1, <2>2 DEF Made
  <2> QED
    BY <1>0, <2>1, <2>3 DEF ListenInv
<1>17. ASSUME NEW r \in Resources, KubeletRefuses(r) PROVE ListenInv'
  <2>1. /\ socket[r] \in Servers /\ grpc[socket[r]] = "serving"
        /\ grpc' = [grpc EXCEPT ![socket[r]] = "stopped"]
        /\ socket' = [socket EXCEPT ![r] = NoServer]
        /\ UNCHANGED <<pluginWatch, resource, serverOf, handler, swapped, watcher, caller>>
    BY <1>17 DEF KubeletRefuses
  <2> QED
    BY <1>0, <1>2, <2>1
<1>11. CASE TriggerUpdate
  BY <1>1, <1>11 DEF TriggerUpdate, ListenInv
<1>12. ASSUME NEW r \in Resources, Notify(r) \/ KubeletConnects(r) PROVE ListenInv'
  BY <1>2, <1>12 DEF Notify, KubeletConnects
<1>13. ASSUME NEW r \in Resources, ShutdownStops(r) PROVE ListenInv'
  BY <1>0, <1>2, <1>13 DEF ShutdownStops, CallStop
<1>14. CASE Shutdown \/ ShutdownEnds \/ UNCHANGED vars
  BY <1>2, <1>14 DEF Shutdown, ShutdownEnds, vars
<1>15. CASE KubeletRestarts
  BY <1>0, <1>2, <1>15 DEF KubeletRestarts
<1> QED
  BY <1>3, <1>4, <1>5, <1>6, <1>7, <1>8, <1>9, <1>10, <1>11, <1>12, <1>13, <1>14, <1>15,
     <1>16, <1>17 DEF Next, ServerStep

(* If devices are hot-plugged only where the kubelet watches the sockets   *)
(* itself, no two servers of a resource ever listen, and the socket file   *)
(* belongs to the one that does, however hot-plugs, kubelet restarts,      *)
(* failing sends and the shutdown interleave.                              *)
THEOREM OneListenerPerResource ==
    ASSUME "hotplug" \in Calm
    PROVE  Spec => []OneServerPerSocket
<1>1. TypeInv /\ ListenInv => OneServerPerSocket
  <2>1. Made \subseteq Servers /\ \A i \in Made : resource[i] \in Resources
    BY DEF Made
  <2> QED
    BY <2>1 DEF ListenInv, OneServerPerSocket
<1>2. TypeInv /\ ListenInv /\ [Next]_vars => (TypeInv /\ ListenInv)'
  BY TypeInvStep, ListenStep
<1> QED
  BY TypeInvInit, ListenInitially, <1>1, <1>2, PTL DEF Spec
-----------------------------------------------------------------------------
(* The calls of ListAndWatch on the server that have not returned.         *)
CallsOf(i) == Range(waiting[i]) \cup Range(sending[i])

(* A Stop under way has not closed the server yet.                         *)
Stopping(q) == caller[q].at \in {"term", "watcher", "close"}

(* The Stops of a hot-plug and of the shutdown do not overlap, and each    *)
(* finds the grpcServer it will close.                                     *)
StopInv ==
    /\ \A q \in {"handler", "main"} : caller[q].at = "out" => caller[q].server = NoServer
    /\ caller["handler"].at # "out" => handler = "stop"
    /\ handler = "stop" => main = "run"
    /\ main = "run" => caller["main"].at = "out"
    /\ \A q \in {"handler", "main"} : Stopping(q) =>
          grpc[caller[q].server] # "nil" /\ serverOf[resource[caller[q].server]] = caller[q].server

(* A server whose first list is still to be sent has a grpcServer and is   *)
(* not being stopped. Where there is a watcher that would clear the field, *)
(* the stream of a first list is not broken.                               *)
FirstInv ==
    /\ \A i \in Servers : \A c \in Range(waiting[i]) : ~c.first
    /\ \A i \in Servers : \A c \in Range(sending[i]) : c.first =>
          /\ main = "run" /\ grpc[i] # "nil"
          /\ i \in Made /\ serverOf[resource[i]] = i
          /\ caller["handler"].server # i
          /\ pluginWatch \/ (c.live /\ socket[resource[i]] = i)

(* With watchers, a socket that is gone has no live stream, and none is    *)
(* gone when the shutdown begins: the watchers do not restart what it      *)
(* stops.                                                                  *)
WatchInv ==
    ~pluginWatch =>
        /\ \A r \in Resources : socket[r] = NoServer => \A c \in CallsOf(serverOf[r]) : ~c.live
        /\ main # "run" => \A r \in tostop : socket[r] # NoServer
        /\ caller["main"].at # "out" => resource[caller["main"].server] \notin tostop
        /\ Stopping("main") => socket[resource[caller["main"].server]] # NoServer

LEMMA QueueRange ==
    ASSUME NEW c \in Calls
    PROVE  /\ \A e \in [live : BOOLEAN, first : BOOLEAN] : Range(Append(c, e)) = Range(c) \cup {e}
           /\ c # <<>> => /\ Head(c) \in Range(c)
                          /\ Range(Tail(c)) \subseteq Range(c)
                          /\ Range(SubSeq(c, 1, Len(c) - 1)) \subseteq Range(c)
           /\ \A b \in Range(Broken(c)) : ~b.live /\ \E e \in Range(c) : b.first = e.first
<1> DEFINE Call == [live : BOOLEAN, first : BOOLEAN]
<1>1. c \in Seq(Call) /\ DOMAIN c = 1..Len(c)
  BY DEF Calls
<1> HIDE DEF Call
<1>2. ASSUME NEW b \in Range(Broken(c)) PROVE ~b.live /\ \E e \in Range(c) : b.first = e.first
  <2>1. PICK n \in DOMAIN Broken(c) : b = Broken(c)[n]
    BY <1>2 DEF Range
  <2>2. n \in DOMAIN c /\ b = [c[n] EXCEPT !.live = FALSE]
    BY <2>1, BrokenCalls
  <2>3. c[n] \in Call /\ c[n] \in Range(c)
    BY <1>1, <2>2 DEF Range
  <2> QED
    BY <2>2, <2>3 DEF Call
<1>3. ASSUME NEW e \in Call PROVE Range(Append(c, e)) = Range(c) \cup {e}
  <2>1. /\ DOMAIN Append(c, e) = 1..(Len(c) + 1) /\ Append(c, e)[Len(c) + 1] = e
        /\ \A n \in 1..Len(c) : Append(c, e)[n] = c[n]
    BY <1>1
  <2> QED
    BY <1>1, <2>1 DEF Range
<1>4. c # <<>> => Head(c) \in Range(c) /\ Range(Tail(c)) \subseteq Range(c)
  BY <1>1 DEF Range
<1>5. c # <<>> => Range(SubSeq(c, 1, Len(c) - 1)) \subseteq Range(c)
  BY <1>1 DEF Range
<1> QED
  BY <1>2, <1>3, <1>4, <1>5 DEF Call

(* Handing out an update or a termination starts no call.                  *)
LEMMA LoopRange ==
    ASSUME LifecycleTypeOK, NEW i \in Servers, SendUpdate(i) \/ SendTerm(i) \/ UNCHANGED loopVars,
           NEW j \in Servers
    PROVE  /\ Range(waiting'[j]) \subseteq Range(waiting[j])
           /\ Range(sending'[j]) \subseteq Range(sending[j]) \cup Range(waiting[j])
<1>1. waiting \in [Servers -> Calls] /\ sending \in [Servers -> Calls]
  BY DEF LifecycleTypeOK
<1>2. waiting[i] # <<>> =>
          /\ Range(Tail(waiting[i])) \subseteq Range(waiting[i])
          /\ Range(Append(sending[i], Head(waiting[i]))) \subseteq Range(sending[i]) \cup Range(waiting[i])
  <2>1. waiting[i] \in Calls /\ sending[i] \in Calls
    BY <1>1
  <2>2. waiting[i] # <<>> => /\ Head(waiting[i]) \in [live : BOOLEAN, first : BOOLEAN]
                             /\ Head(waiting[i]) \in Range(waiting[i])
                             /\ Range(Tail(waiting[i])) \subseteq Range(waiting[i])
    BY <2>1, QueueRange, QueuedCalls
  <2>3. waiting[i] # <<>> =>
            Range(Append(sending[i], Head(waiting[i]))) = Range(sending[i]) \cup {Head(waiting[i])}
    BY <2>1, <2>2, QueueRange
  <2> QED
    BY <2>2, <2>3
<1> QED
  BY <1>1, <1>2 DEF SendUpdate, SendTerm, loopVars

(* What the proofs below need of the types.                                *)
LEMMA LifecycleFacts ==
    ASSUME TypeInv
    PROVE  /\ resource \in [Servers -> Resources \cup {"none"}]
           /\ serverOf \in [Resources -> Made] /\ Made \subseteq Servers
           /\ \A i \in Made : resource[i] \in Resources
           /\ grpc \in [Servers -> {"new", "serving", "stopped", "nil"}]
           /\ watcher \in [Servers -> {"none", "check", "term", "start"}]
           /\ socket \in [Resources -> Servers \cup {NoServer}]
           /\ waiting \in [Servers -> Calls] /\ sending \in [Servers -> Calls]
           /\ caller \in [{"handler", "main"} -> [at : {"out", "term", "watcher", "close", "returned"},
                                                 server : Servers \cup {NoServer}]]
           /\ swapped \in Resources
           /\ NoServer \notin Servers
           /\ \A q \in {"handler", "main"} : caller[q].at # "out" => caller[q].server \in Made
           /\ handler \in {"idle", "stop", "trigger"} /\ main \in {"run", "stopping", "exited"}
  BY ResourcesAssumption DEF TypeInv, LifecycleTypeOK, Made, NoServer, Servers

LEMMA StopStep ==
    ASSUME TypeInv, ListenInv, StopInv, FirstInv, WatchInv, [Next]_vars,
           {"hotplug", "shutdown"} \subseteq Calm
    PROVE  StopInv'
<1> USE DEF serverVars, loopVars, kubeletVars, handlerVars, mainVars, runVars
<1>1. CASE /\ UNCHANGED <<resource, serverOf, handler, main, caller>>
           /\ \A q \in {"handler", "main"} :
                 Stopping(q) /\ grpc[caller[q].server] # "nil" => grpc'[caller[q].server] # "nil"
  BY <1>1 DEF StopInv, Stopping
<1>2. ASSUME NEW i \in Servers, Sent(i) \/ TakesTerm(i) \/ WatchTerm(i) \/ InformedBySharedInfo(i)
      PROVE  StopInv'
  BY <1>1, <1>2 DEF Sent, TakesTerm, WatchTerm, InformedBySharedInfo
<1>3. ASSUME NEW i \in Servers, SendFails(i) PROVE StopInv'
  <2>1. \A j \in Servers : grpc[j] # "nil" => grpc'[j] # "nil"
    BY <1>3, LifecycleFacts DEF SendFails, GrpcStopped
  <2>2. \A q \in {"handler", "main"} : Stopping(q) => caller[q].server \in Servers
    BY LifecycleFacts DEF Stopping
  <2> QED
    BY <1>1, <1>3, <2>1, <2>2 DEF SendFails
<1>4. ASSUME NEW i \in Servers, WatchRestarts(i) PROVE StopInv'
  <2>1. /\ watcher[i] = "check" /\ socket[resource[i]] = NoServer
        /\ grpc' = [grpc EXCEPT ![i] = "nil"]
        /\ UNCHANGED <<resource, serverOf, handler, main, caller>>
    BY <1>4 DEF WatchRestarts
  <2>2. ~pluginWatch /\ handler = "idle"
    BY <2>1, LifecycleFacts DEF ListenInv
  <2>3. ~Stopping("handler")
    BY <2>2 DEF StopInv, Stopping
  <2>4. Stopping("main") => caller["main"].server # i
    BY <2>1, <2>2 DEF WatchInv
  <2>5. Stopping("main") => grpc'[caller["main"].server] = grpc[caller["main"].server]
    BY <2>1, <2>4, LifecycleFacts DEF Stopping
  <2> QED
    BY <1>1, <2>1, <2>3, <2>5
<1>5. ASSUME NEW i \in Servers, WatchStart(i) PROVE StopInv'
  <2>1. \A j \in Servers : grpc[j] # "nil" => grpc'[j] # "nil"
    BY <1>5, LifecycleFacts DEF WatchStart
  <2>2. \A q \in {"handler", "main"} : Stopping(q) => caller[q].server \in Servers
    BY LifecycleFacts DEF Stopping
  <2> QED
    BY <1>1, <1>5, <2>1, <2>2 DEF WatchStart
<1>6. ASSUME NEW q \in {"handler", "main"}, StopTerm(q) \/ StopWatcher(q) PROVE StopInv'
  <2>1. /\ Stopping(q) /\ \E at \in {"watcher", "close"} : caller' = [caller EXCEPT ![q].at = at]
        /\ UNCHANGED <<resource, serverOf, handler, main, grpc>>
    BY <1>6 DEF StopTerm, StopWatcher, AfterTerm, Stopping
  <2>2. ASSUME NEW p \in {"handler", "main"}
        PROVE  /\ caller'[p].server = caller[p].server
               /\ Stopping(p)' <=> Stopping(p)
               /\ caller'[p].at = "out" <=> caller[p].at = "out"
    BY <2>1, LifecycleFacts DEF Stopping
  <2> QED
    BY <2>1, <2>2 DEF StopInv
<1>7. ASSUME NEW q \in {"handler", "main"}, StopClose(q) PROVE StopInv'
  <2>1. /\ caller[q].at = "close" /\ caller' = [caller EXCEPT ![q].at = "returned"]
        /\ UNCHANGED <<resource, serverOf, handler, main>>
    BY <1>7 DEF StopClose
  <2>2. \A p \in {"handler", "main"} : ~Stopping(p)'
    <3>1. ASSUME NEW p \in {"handler", "main"}, p # q PROVE caller[p].at = "out"
      BY <2>1, <3>1 DEF StopInv
    <3> QED
      BY <2>1, <3>1, LifecycleFacts DEF Stopping
  <2>3. ASSUME NEW p \in {"handler", "main"}
        PROVE  /\ caller'[p].server = caller[p].server
               /\ caller'[p].at = "out" <=> caller[p].at = "out"
    BY <2>1, LifecycleFacts
  <2> QED
    BY <2>1, <2>2, <2>3 DEF StopInv
<1>8. ASSUME NEW q \in {"handler", "main"}, NEW r \in Resources, CallStop(q, serverOf[r]),
             UNCHANGED <<resource, serverOf, grpc>>
      PROVE  /\ caller'[q].at # "out"
             /\ Stopping(q)' => /\ grpc'[caller'[q].server] # "nil"
                                /\ serverOf'[resource'[caller'[q].server]] = caller'[q].server
             /\ \A p \in {"handler", "main"} : p # q => caller'[p] = caller[p]
  <2>1. caller'[q] = [at |-> IF grpc[serverOf[r]] = "nil" THEN "returned" ELSE "term",
                      server |-> serverOf[r]]
        /\ \A p \in {"handler", "main"} : p # q => caller'[p] = caller[p]
    BY <1>8, LifecycleFacts DEF CallStop
  <2> QED
    BY <1>8, <2>1 DEF ListenInv, Stopping
<1>9. ASSUME NEW r \in Aggregated, HotplugBegins(r) PROVE StopInv'
  <2>1. /\ r \in Resources /\ main = "run" /\ handler' = "stop"
        /\ CallStop("handler", serverOf[r])
        /\ UNCHANGED <<resource, serverOf, grpc, main>>
    BY <1>9, ResourcesAssumption DEF HotplugBegins
  <2>2. /\ caller'["handler"].at # "out" /\ caller'["main"] = caller["main"]
        /\ Stopping("handler")' => /\ grpc'[caller'["handler"].server] # "nil"
                                   /\ serverOf'[resource'[caller'["handler"].server]] = caller'["handler"].server
    BY <1>8, <2>1
  <2> QED
    BY <2>1, <2>2 DEF StopInv, Stopping
<1>17. ASSUME NEW r \in Resources, KubeletRefuses(r) PROVE StopInv'
  <2>1. \A j \in Servers : grpc[j] # "nil" => grpc'[j] # "nil"
    BY <1>17, LifecycleFacts DEF KubeletRefuses
  <2>2. \A q \in {"handler", "main"} : Stopping(q) => caller[q].server \in Servers
    BY LifecycleFacts DEF Stopping
  <2> QED
    BY <1>1, <1>17, <2>1, <2>2 DEF KubeletRefuses
<1>10. CASE HotplugReplaces \/ HotplugFails
  <2>1. /\ handler = "stop" /\ handler' = "trigger" /\ UNCHANGED main
        /\ caller' = [caller EXCEPT !["handler"] = [at |-> "out", server |-> NoServer]]
    BY <1>10 DEF HotplugReplaces, HotplugFails
  <2>2. /\ caller'["handler"].at = "out" /\ caller'["handler"].server = NoServer
        /\ caller'["main"] = caller["main"] /\ caller["main"].at = "out" /\ main = "run"
    BY <2>1, LifecycleFacts DEF StopInv
  <2> QED
    BY <2>1, <2>2 DEF StopInv, Stopping
<1>11. CASE TriggerUpdate
  <2>1. handler = "trigger" /\ handler' = "idle" /\ UNCHANGED <<resource, serverOf, grpc, caller, main>>
    BY <1>11 DEF TriggerUpdate
  <2> QED
    BY <2>1 DEF StopInv, Stopping
<1>12. ASSUME NEW r \in Resources, Notify(r) \/ KubeletConnects(r) PROVE StopInv'
  BY <1>1, <1>12 DEF Notify, KubeletConnects
<1>13. ASSUME NEW r \in Resources, ShutdownStops(r) PROVE StopInv'
  <2>1. /\ main = "stopping" /\ CallStop("main", serverOf[r])
        /\ UNCHANGED <<resource, serverOf, grpc, main, handler>>
    BY <1>13 DEF ShutdownStops
  <2>2. /\ caller'["main"].at # "out" /\ caller'["handler"] = caller["handler"]
        /\ Stopping("main")' => /\ grpc'[caller'["main"].server] # "nil"
                                /\ serverOf'[resource'[caller'["main"].server]] = caller'["main"].server
    BY <1>8, <2>1
  <2> QED
    BY <2>1, <2>2 DEF StopInv, Stopping
<1>14. CASE Shutdown
  <2>1. main' = "stopping" /\ handler # "stop" /\ UNCHANGED <<resource, serverOf, grpc, caller, handler>>
    BY <1>14 DEF Shutdown
  <2> QED
    BY <2>1 DEF StopInv, Stopping
<1>15. CASE ShutdownEnds
  <2>1. main = "stopping" /\ main' = "exited" /\ UNCHANGED <<resource, serverOf, grpc, caller, handler>>
    BY <1>15 DEF ShutdownEnds
  <2> QED
    BY <2>1 DEF StopInv, Stopping
<1>16. CASE KubeletRestarts \/ UNCHANGED vars
  BY <1>1, <1>16 DEF KubeletRestarts, vars
<1> QED
  BY <1>2, <1>3, <1>4, <1>5, <1>6, <1>7, <1>9, <1>10, <1>11, <1>12, <1>13, <1>14, <1>15, <1>16,
     <1>17 DEF Next, ServerStep

(* Where the steps leave the calls of a server.                            *)
LEMMA CallsStep ==
    ASSUME TypeInv, FirstInv, [Next]_vars, NEW j \in Servers
    PROVE  /\ \A c \in Range(waiting'[j]) :
                 \/ c \in Range(waiting[j])
                 \/ ~c.first /\ \E b \in CallsOf(j) : c.live => b.live
           /\ \A c \in Range(sending'[j]) :
                 \/ c \in Range(sending[j]) \cup Range(waiting[j])
                 \/ /\ ~c.live /\ (\E b \in CallsOf(j) : c.first = b.first)
                    /\ \/ pluginWatch \/ KubeletRestarts \/ WatchRestarts(j)
                       \/ \E q \in {"handler", "main"} : StopClose(q) /\ caller[q].server = j
                 \/ \E r \in Resources : KubeletConnects(r) /\ socket[r] = j
<1> DEFINE Goal == /\ \A c \in Range(waiting'[j]) :
                         \/ c \in Range(waiting[j])
                         \/ ~c.first /\ \E b \in CallsOf(j) : c.live => b.live
                   /\ \A c \in Range(sending'[j]) :
                         \/ c \in Range(sending[j]) \cup Range(waiting[j])
                         \/ /\ ~c.live /\ (\E b \in CallsOf(j) : c.first = b.first)
                            /\ \/ pluginWatch \/ KubeletRestarts \/ WatchRestarts(j)
                               \/ \E q \in {"handler", "main"} : StopClose(q) /\ caller[q].server = j
                         \/ \E r \in Resources : KubeletConnects(r) /\ socket[r] = j
<1> SUFFICES Goal
  OBVIOUS
<1> USE DEF serverVars, loopVars, kubeletVars, handlerVars, mainVars, runVars
<1>0. /\ waiting \in [Servers -> Calls] /\ sending \in [Servers -> Calls]
      /\ waiting[j] \in Calls /\ sending[j] \in Calls
      /\ LifecycleTypeOK
  BY LifecycleFacts DEF TypeInv
<1>1. CASE Range(waiting'[j]) \subseteq Range(waiting[j])
             /\ Range(sending'[j]) \subseteq Range(sending[j]) \cup Range(waiting[j])
  BY <1>1
<1>2. CASE UNCHANGED <<waiting, sending>>
  BY <1>1, <1>2
<1>3. ASSUME NEW i \in Servers, Sent(i) PROVE Goal
  <2>1. CASE i # j
    BY <1>0, <1>2, <1>3, <2>1 DEF Sent, Loops
  <2>2. CASE i = j
    <3> DEFINE call == Head(sending[j])
               next == [call EXCEPT !.first = FALSE]
    <3>1. /\ sending[j] # <<>> /\ sending'[j] = Tail(sending[j])
          /\ waiting'[j] = Append(waiting[j], next)
      BY <1>0, <1>3, <2>2 DEF Sent, Loops
    <3>2. call \in [live : BOOLEAN, first : BOOLEAN] /\ call \in Range(sending[j])
      BY <1>0, <3>1, QueueRange, QueuedCalls
    <3>3. next \in [live : BOOLEAN, first : BOOLEAN] /\ ~next.first /\ next.live = call.live
      BY <3>2
    <3> HIDE DEF next
    <3>4. Range(waiting'[j]) = Range(waiting[j]) \cup {next}
      BY <1>0, <3>1, <3>3, QueueRange
    <3>5. Range(sending'[j]) \subseteq Range(sending[j])
      BY <1>0, <3>1, QueueRange
    <3> QED
      BY <3>2, <3>3, <3>4, <3>5 DEF CallsOf
  <2> QED
    BY <2>1, <2>2
<1>4. ASSUME NEW i \in Servers, SendFails(i) PROVE Goal
  <2>1. CASE i # j
    BY <1>0, <1>2, <1>4, <2>1 DEF SendFails
  <2>2. CASE i = j
    <3>1. sending[j] # <<>> /\ ~Head(sending[j]).live /\ Tail(sending[j]) \in Calls
      BY <1>0, <1>4, <2>2, QueuedCalls DEF SendFails
    <3>2. CASE ~StopsGrpc(Head(sending[j]))
      <4>1. sending'[j] = Tail(sending[j]) /\ waiting'[j] = waiting[j]
        BY <1>0, <1>4, <2>2, <3>2 DEF SendFails
      <4> QED
        BY <1>0, <1>1, <3>1, <4>1, QueueRange
    <3>3. CASE StopsGrpc(Head(sending[j]))
      <4>1. sending'[j] = Broken(Tail(sending[j])) /\ waiting'[j] = Broken(waiting[j])
        BY <1>0, <1>4, <2>2, <3>3 DEF SendFails
      <4>2. pluginWatch
        BY <1>0, <3>1, <3>3, QueueRange DEF FirstInv, StopsGrpc
      <4>3. /\ \A b \in Range(Broken(waiting[j])) :
                   ~b.live /\ \E e \in Range(waiting[j]) : b.first = e.first
            /\ \A b \in Range(Broken(Tail(sending[j]))) :
                   ~b.live /\ \E e \in Range(Tail(sending[j])) : b.first = e.first
            /\ Range(Tail(sending[j])) \subseteq Range(sending[j])
        BY <1>0, <3>1, QueueRange
      <4> QED
        BY <4>1, <4>2, <4>3 DEF FirstInv, CallsOf
    <3> QED
      BY <3>2, <3>3
  <2> QED
    BY <2>1, <2>2
<1>5. ASSUME NEW i \in Servers, TakesTerm(i) PROVE Goal
  <2>1. /\ waiting[i] # <<>> /\ sending' = sending
        /\ waiting' = [waiting EXCEPT ![i] = SubSeq(@, 1, Len(@) - 1)]
    BY <1>5 DEF TakesTerm
  <2>2. Range(waiting'[j]) \subseteq Range(waiting[j])
    BY <1>0, <2>1, QueueRange
  <2> QED
    BY <1>1, <2>1, <2>2
<1>6. ASSUME NEW i \in Servers, WatchTerm(i) \/ InformedBySharedInfo(i) PROVE Goal
  <2>1. SendUpdate(i) \/ SendTerm(i) \/ UNCHANGED loopVars
    BY <1>6 DEF WatchTerm, InformedBySharedInfo
  <2> QED
    BY <1>0, <1>1, <2>1, LoopRange
<1>7. ASSUME NEW i \in Servers, waiting' = [waiting EXCEPT ![i] = Broken(@)],
             sending' = [sending EXCEPT ![i] = Broken(@)], pluginWatch \/ WatchRestarts(i) \/
             \E q \in {"handler", "main"} : StopClose(q) /\ caller[q].server = i
      PROVE  Goal
  <2>1. CASE i # j
    BY <1>0, <1>2, <1>7, <2>1
  <2>2. CASE i = j
    <3>1. waiting'[j] = Broken(waiting[j]) /\ sending'[j] = Broken(sending[j])
      BY <1>0, <1>7, <2>2
    <3>2. /\ \A b \in Range(Broken(waiting[j])) : ~b.live /\ \E e \in Range(waiting[j]) : b.first = e.first
          /\ \A b \in Range(Broken(sending[j])) : ~b.live /\ \E e \in Range(sending[j]) : b.first = e.first
      BY <1>0, QueueRange
    <3> QED
      BY <1>7, <2>2, <3>1, <3>2 DEF FirstInv, CallsOf
  <2> QED
    BY <2>1, <2>2
<1>8. ASSUME NEW i \in Servers, WatchRestarts(i) PROVE Goal
  BY <1>7, <1>8 DEF WatchRestarts
<1>9. ASSUME NEW q \in {"handler", "main"}, StopClose(q) PROVE Goal
  <2>1. caller[q].server \in Servers
    BY <1>9, LifecycleFacts DEF StopClose
  <2> QED
    BY <1>7, <1>9, <2>1 DEF StopClose
<1>10. ASSUME NEW q \in {"handler", "main"}, StopTerm(q) PROVE Goal
  <2>1. caller[q].server \in Servers /\ SendTerm(caller[q].server)
    BY <1>10, LifecycleFacts DEF StopTerm
  <2> QED
    BY <1>0, <1>1, <2>1, LoopRange
<1>11. CASE TriggerUpdate
  <2>1. /\ serverOf[swapped] \in Servers
        /\ SendUpdate(serverOf[swapped]) \/ UNCHANGED loopVars
    BY <1>11, LifecycleFacts DEF TriggerUpdate
  <2> QED
    BY <1>0, <1>1, <2>1, LoopRange
<1>12. ASSUME NEW r \in Resources, KubeletConnects(r) PROVE Goal
  <2>1. /\ waiting' = waiting
        /\ sending' = [sending EXCEPT ![socket[r]] = Append(@, [live |-> TRUE, first |-> TRUE])]
    BY <1>12 DEF KubeletConnects
  <2>2. CASE socket[r] = j
    BY <1>12, <2>1, <2>2
  <2>3. CASE socket[r] # j
    BY <1>0, <1>1, <2>1, <2>3
  <2> QED
    BY <2>2, <2>3
<1>13. CASE KubeletRestarts
  <2>1. waiting'[j] = Broken(waiting[j]) /\ sending'[j] = Broken(sending[j])
    BY <1>13 DEF KubeletRestarts
  <2>2. /\ \A b \in Range(Broken(waiting[j])) : ~b.live /\ \E e \in Range(waiting[j]) : b.first = e.first
        /\ \A b \in Range(Broken(sending[j])) : ~b.live /\ \E e \in Range(sending[j]) : b.first = e.first
    BY <1>0, QueueRange
  <2> QED
    BY <1>13, <2>1, <2>2 DEF FirstInv, CallsOf
<1>14. ASSUME NEW i, NEW q, WatchStart(i) \/ StopWatcher(q) PROVE Goal
  BY <1>2, <1>14 DEF WatchStart, StopWatcher
<1>15. ASSUME NEW r, Notify(r) \/ ShutdownStops(r) \/ HotplugBegins(r) PROVE Goal
  BY <1>2, <1>15 DEF Notify, ShutdownStops, HotplugBegins
<1>16. CASE HotplugReplaces \/ HotplugFails \/ Shutdown \/ ShutdownEnds \/ UNCHANGED vars
  BY <1>2, <1>16 DEF HotplugReplaces, HotplugFails, Shutdown, ShutdownEnds, vars
<1>17. ASSUME NEW r \in Resources, KubeletRefuses(r) PROVE Goal
  BY <1>7, <1>17 DEF KubeletRefuses
<1> HIDE DEF Goal
<1> QED
  BY <1>3, <1>4, <1>5, <1>6, <1>8, <1>9, <1>10, <1>11, <1>12, <1>13, <1>14, <1>15, <1>16, <1>17
     DEF Next, ServerStep

(* Servers are made and replaced by a hot-plug only, which leaves those    *)
(* made before as they are.                                                *)
LEMMA ResourceFrame ==
    ASSUME TypeInv, [Next]_vars
    PROVE  /\ \/ HotplugReplaces
              \/ UNCHANGED serverOf /\ (handler # "stop" => UNCHANGED resource)
           /\ \A j \in Made : j \in Made' /\ resource'[j] = resource[j]
<1> DEFINE Same == UNCHANGED <<resource, serverOf>>
<1> USE DEF serverVars, loopVars, kubeletVars, handlerVars, mainVars, runVars
<1>1. ASSUME NEW i, ServerStep(i) PROVE Same
  BY <1>1 DEF ServerStep, Sent, SendFails, TakesTerm, WatchRestarts, WatchTerm, WatchStart,
     InformedBySharedInfo
<1>2. ASSUME NEW q, StopTerm(q) \/ StopWatcher(q) \/ StopClose(q) PROVE Same
  BY <1>2 DEF StopTerm, StopWatcher, StopClose
<1>3. ASSUME NEW r, HotplugBegins(r) \/ Notify(r) \/ ShutdownStops(r) \/ KubeletConnects(r)
                       \/ KubeletRefuses(r)
      PROVE  Same
  BY <1>3 DEF HotplugBegins, Notify, ShutdownStops, KubeletConnects, KubeletRefuses
<1>4. ASSUME TriggerUpdate \/ Shutdown \/ ShutdownEnds \/ KubeletRestarts \/ UNCHANGED vars
      PROVE  Same
  BY <1>4 DEF TriggerUpdate, Shutdown, ShutdownEnds, KubeletRestarts, vars
<1>5. Same \/ HotplugReplaces \/ HotplugFails
  BY <1>1, <1>2, <1>3, <1>4 DEF Next
<1>6. HotplugReplaces \/ (UNCHANGED serverOf /\ (handler # "stop" => UNCHANGED resource))
  BY <1>5 DEF HotplugFails
<1>7. CASE HotplugReplaces \/ HotplugFails
  <2> DEFINE i == Cardinality(Made) + 1
  <2>1. handler = "stop" /\ (UNCHANGED resource \/ resource' = [resource EXCEPT ![i] = swapped])
    BY <1>7 DEF HotplugReplaces, HotplugFails, RegisterServer
  <2>2. i \notin Made
    BY <2>1, NewServer
  <2> HIDE DEF i
  <2>3. ASSUME NEW j \in Made PROVE j \in Made' /\ resource'[j] = resource[j]
    BY <2>1, <2>2, LifecycleFacts DEF Made
  <2> QED
    BY <1>6, <2>3
<1> QED
  BY <1>5, <1>6, <1>7, MadeFrame

(* How the servers are registered with the kubelet does not change.        *)
LEMMA ModeFrame ==
    ASSUME [Next]_vars
    PROVE  UNCHANGED pluginWatch
  BY DEF Next, ServerStep, Sent, SendFails, TakesTerm, WatchRestarts, WatchTerm, WatchStart,
     InformedBySharedInfo, StopTerm, StopWatcher, StopClose, HotplugBegins, HotplugReplaces,
     HotplugFails, TriggerUpdate, Notify, ShutdownStops, KubeletConnects, KubeletRefuses,
     Shutdown, ShutdownEnds, KubeletRestarts, vars

(* grpcServer becomes nil by a Stop or by the watcher.                     *)
LEMMA GrpcFrame ==
    ASSUME TypeInv, [Next]_vars, NEW j \in Servers, grpc[j] # "nil"
    PROVE  \/ grpc'[j] # "nil" \/ WatchRestarts(j)
           \/ \E q \in {"handler", "main"} : StopClose(q) /\ caller[q].server = j
<1> USE DEF serverVars, loopVars, kubeletVars, handlerVars, mainVars, runVars
<1>0. grpc \in [Servers -> {"new", "serving", "stopped", "nil"}]
  BY LifecycleFacts
<1>1. ASSUME NEW i \in Servers, SendFails(i) PROVE grpc'[j] # "nil"
  BY <1>0, <1>1 DEF SendFails, GrpcStopped
<1>2. ASSUME NEW i \in Servers, WatchRestarts(i), i # j PROVE grpc'[j] # "nil"
  BY <1>0, <1>2 DEF WatchRestarts
<1>3. ASSUME NEW i \in Servers, WatchStart(i) PROVE grpc'[j] # "nil"
  BY <1>0, <1>3 DEF WatchStart
<1>4. ASSUME NEW i, Sent(i) \/ TakesTerm(i) \/ WatchTerm(i) \/ InformedBySharedInfo(i)
      PROVE  grpc'[j] # "nil"
  BY <1>4 DEF Sent, TakesTerm, WatchTerm, InformedBySharedInfo
<1>5. ASSUME NEW q, StopTerm(q) \/ StopWatcher(q) PROVE grpc'[j] # "nil"
  BY <1>5 DEF StopTerm, StopWatcher
<1>6. ASSUME NEW q \in {"handler", "main"}, StopClose(q), caller[q].server # j PROVE grpc'[j] # "nil"
  BY <1>0, <1>6 DEF StopClose
<1>7. ASSUME NEW r, HotplugBegins(r) \/ Notify(r) \/ ShutdownStops(r) \/ KubeletConnects(r)
      PROVE  grpc'[j] # "nil"
  BY <1>7 DEF HotplugBegins, Notify, ShutdownStops, KubeletConnects
<1>8. ASSUME NEW r, KubeletRefuses(r) PROVE grpc'[j] # "nil"
  BY <1>0, <1>8 DEF KubeletRefuses
<1>9. CASE HotplugReplaces
  BY <1>0, <1>9 DEF HotplugReplaces
<1>10. CASE HotplugFails \/ TriggerUpdate \/ Shutdown \/ ShutdownEnds \/ KubeletRestarts
              \/ UNCHANGED vars
  BY <1>10 DEF HotplugFails, TriggerUpdate, Shutdown, ShutdownEnds, KubeletRestarts, vars
<1> QED
  BY <1>1, <1>2, <1>3, <1>4, <1>5, <1>6, <1>7, <1>8, <1>9, <1>10 DEF Next, ServerStep

(* While main runs, only a hot-plug begins to stop a server.               *)
LEMMA CallerFrame ==
    ASSUME TypeInv, [Next]_vars
    PROVE  /\ main # "run" \/ main' = "run" \/ Shutdown
           /\ \/ caller'["handler"].server \in {caller["handler"].server, NoServer}
              \/ \E r \in Aggregated : HotplugBegins(r) /\ caller'["handler"].server = serverOf[r]
<1> DEFINE Same == main' = main /\ caller'["handler"].server = caller["handler"].server
<1> USE DEF serverVars, loopVars, kubeletVars, handlerVars, mainVars, runVars
<1>1. ASSUME NEW i, ServerStep(i) PROVE Same
  BY <1>1 DEF ServerStep, Sent, SendFails, TakesTerm, WatchRestarts, WatchTerm, WatchStart,
     InformedBySharedInfo
<1>2. ASSUME NEW q \in {"handler", "main"}, StopTerm(q) \/ StopWatcher(q) \/ StopClose(q) PROVE Same
  <2>1. main' = main /\ \E at : caller' = [caller EXCEPT ![q].at = at]
    BY <1>2 DEF StopTerm, StopWatcher, StopClose
  <2> QED
    BY <2>1, LifecycleFacts
<1>3. ASSUME NEW r, Notify(r) \/ KubeletConnects(r) \/ KubeletRefuses(r) PROVE Same
  BY <1>3 DEF Notify, KubeletConnects, KubeletRefuses
<1>4. ASSUME NEW r, ShutdownStops(r) PROVE Same
  <2>1. main' = main /\ CallStop("main", serverOf[r])
    BY <1>4 DEF ShutdownStops
  <2> QED
    BY <2>1, LifecycleFacts DEF CallStop
<1>5. CASE TriggerUpdate \/ KubeletRestarts \/ UNCHANGED vars
  BY <1>5 DEF TriggerUpdate, KubeletRestarts, vars
<1>6. CASE HotplugReplaces \/ HotplugFails
  <2>1. main' = main /\ caller' = [caller EXCEPT !["handler"] = [at |-> "out", server |-> NoServer]]
    BY <1>6 DEF HotplugReplaces, HotplugFails
  <2> QED
    BY <2>1, LifecycleFacts
<1>7. ASSUME NEW r \in Aggregated, HotplugBegins(r)
      PROVE  main' = main /\ caller'["handler"].server = serverOf[r]
  <2>1. main' = main /\ CallStop("handler", serverOf[r])
    BY <1>7 DEF HotplugBegins
  <2> QED
    BY <2>1, LifecycleFacts DEF CallStop
<1>8. CASE Shutdown \/ ShutdownEnds
  BY <1>8 DEF Shutdown, ShutdownEnds
<1> QED
  BY <1>1, <1>2, <1>3, <1>4, <1>5, <1>6, <1>7, <1>8 DEF Next

(* With watchers, a socket goes by a restart of the kubelet or by a Stop.  *)
LEMMA SocketFrame ==
    ASSUME TypeInv, ListenInv, FirstInv, ~pluginWatch, [Next]_vars, NEW r \in Resources
    PROVE  \/ socket'[r] = socket[r]
           \/ /\ KubeletRestarts
              /\ \A j \in Servers : waiting'[j] = Broken(waiting[j]) /\ sending'[j] = Broken(sending[j])
           \/ \E q \in {"handler", "main"} :
                 /\ StopClose(q) /\ r = resource[caller[q].server]
                 /\ waiting'[caller[q].server] = Broken(waiting[caller[q].server])
                 /\ sending'[caller[q].server] = Broken(sending[caller[q].server])
           \/ socket'[r] = serverOf'[r] /\ \E i \in Servers : WatchStart(i)
<1> DEFINE Goal == \/ socket'[r] = socket[r]
                   \/ /\ KubeletRestarts
                      /\ \A j \in Servers : waiting'[j] = Broken(waiting[j]) /\ sending'[j] = Broken(sending[j])
                   \/ \E q \in {"handler", "main"} :
                         /\ StopClose(q) /\ r = resource[caller[q].server]
                         /\ waiting'[caller[q].server] = Broken(waiting[caller[q].server])
                         /\ sending'[caller[q].server] = Broken(sending[caller[q].server])
                   \/ socket'[r] = serverOf'[r] /\ \E i \in Servers : WatchStart(i)
<1> SUFFICES Goal
  OBVIOUS
<1> USE DEF serverVars, loopVars, kubeletVars, handlerVars, mainVars, runVars
<1>1. ASSUME NEW i \in Servers, SendFails(i) PROVE Goal
  <2>1. sending[i] \in Calls /\ sending[i] # <<>> /\ ~Head(sending[i]).live
    BY <1>1, LifecycleFacts DEF SendFails
  <2>2. ~Head(sending[i]).first
    BY <2>1, QueueRange DEF FirstInv
  <2> QED
    BY <1>1, <2>2 DEF SendFails, StopsGrpc
<1>2. ASSUME NEW i \in Servers, WatchStart(i) PROVE Goal
  <2>1. i \in Made /\ serverOf[resource[i]] = i
    BY <1>2 DEF WatchStart, ListenInv
  <2>2. socket' = [socket EXCEPT ![resource[i]] = i] /\ UNCHANGED serverOf
    BY <1>2 DEF WatchStart, Listening
  <2> QED
    BY <1>2, <2>1, <2>2, LifecycleFacts
<1>3. ~HotplugReplaces /\ ~HotplugFails
  BY DEF HotplugReplaces, HotplugFails, ListenInv
<1>4. ASSUME NEW q \in {"handler", "main"}, StopClose(q) PROVE Goal
  <2>1. caller[q].server \in Servers
    BY <1>4, LifecycleFacts DEF StopClose
  <2>2. /\ socket' = [socket EXCEPT ![resource[caller[q].server]] = NoServer]
        /\ waiting'[caller[q].server] = Broken(waiting[caller[q].server])
        /\ sending'[caller[q].server] = Broken(sending[caller[q].server])
    BY <1>4, <2>1, LifecycleFacts DEF StopClose
  <2> QED
    BY <1>4, <2>2, LifecycleFacts
<1>5. CASE KubeletRestarts
  BY <1>5 DEF KubeletRestarts
<1>6. ASSUME NEW i, Sent(i) \/ TakesTerm(i) \/ WatchRestarts(i) \/ WatchTerm(i) \/ InformedBySharedInfo(i)
      PROVE  Goal
  BY <1>6 DEF Sent, TakesTerm, WatchRestarts, WatchTerm, InformedBySharedInfo
<1>7. ASSUME NEW q, StopTerm(q) \/ StopWatcher(q) PROVE Goal
  BY <1>7 DEF StopTerm, StopWatcher
<1>8. ASSUME NEW s, HotplugBegins(s) \/ Notify(s) \/ ShutdownStops(s) \/ KubeletConnects(s)
                       \/ KubeletRefuses(s)
      PROVE  Goal
  BY <1>8 DEF HotplugBegins, Notify, ShutdownStops, KubeletConnects, KubeletRefuses
<1>9. CASE TriggerUpdate \/ Shutdown \/ ShutdownEnds \/ UNCHANGED vars
  BY <1>9 DEF TriggerUpdate, Shutdown, ShutdownEnds, vars
<1> HIDE DEF Goal
<1> QED
  BY <1>1, <1>2, <1>3, <1>4, <1>5, <1>6, <1>7, <1>8, <1>9 DEF Next, ServerStep

LEMMA FirstStep ==
    ASSUME TypeInv, ListenInv, StopInv, FirstInv, [Next]_vars,
           {"hotplug", "shutdown", "connect", "restart"} \subseteq Calm
    PROVE  FirstInv'
<1> USE DEF serverVars, loopVars, kubeletVars, handlerVars, mainVars, runVars
<1>1. \A j \in Servers : \A c \in Range(waiting'[j]) : ~c.first
  BY CallsStep DEF FirstInv
(* The server of a first list that is still to be sent.                    *)
<1>2. ASSUME NEW j \in Servers, NEW c \in Range(sending[j]), c.first
      PROVE  /\ main' = "run" /\ grpc'[j] # "nil"
             /\ j \in Made' /\ serverOf'[resource'[j]] = j
             /\ caller'["handler"].server # j
             /\ pluginWatch' \/ socket'[resource'[j]] = j
             /\ pluginWatch \/ ~KubeletRestarts
             /\ ~WatchRestarts(j)
             /\ \A q \in {"handler", "main"} : StopClose(q) => caller[q].server # j
  <2>1. /\ main = "run" /\ grpc[j] # "nil" /\ j \in Made /\ caller["handler"].server # j
        /\ resource[j] \in Resources /\ serverOf[resource[j]] = j
        /\ pluginWatch \/ socket[resource[j]] = j
    BY <1>2, LifecycleFacts DEF FirstInv
  <2>2. ~FirstListSent(j)
    BY <1>2 DEF FirstListSent, Range
  <2>3. /\ pluginWatch \/ ~KubeletRestarts
        /\ ~Shutdown /\ \A r \in Aggregated : HotplugBegins(r) => serverOf[r] # j
    BY <2>2 DEF KubeletRestarts, Shutdown, HotplugBegins
  <2>4. \A q \in {"handler", "main"} : StopClose(q) => caller[q].server # j
    BY <2>1 DEF StopClose, StopInv
  <2>5. ~WatchRestarts(j)
    <3>1. CASE pluginWatch
      BY <3>1, LifecycleFacts DEF WatchRestarts, ListenInv
    <3>2. CASE ~pluginWatch
      BY <2>1, <3>2, LifecycleFacts DEF WatchRestarts
    <3> QED
      BY <3>1, <3>2
  <2>6. j \in Made' /\ resource'[j] = resource[j]
    BY <2>1, ResourceFrame
  <2>7. serverOf'[resource[j]] = j
    <3>1. CASE HotplugReplaces
      <4>1. handler = "stop" /\ serverOf' = [serverOf EXCEPT ![swapped] = Cardinality(Made) + 1]
        BY <3>1 DEF HotplugReplaces
      <4>2. caller["handler"].server = serverOf[swapped]
        BY <4>1 DEF ListenInv
      <4>3. swapped # resource[j]
        BY <2>1, <4>2
      <4> QED
        BY <2>1, <4>1, <4>3, LifecycleFacts
    <3>2. CASE UNCHANGED serverOf
      BY <2>1, <3>2
    <3> QED
      BY <3>1, <3>2, ResourceFrame
  <2>8. ASSUME ~pluginWatch PROVE socket'[resource[j]] = j
    <3>1. ASSUME NEW q \in {"handler", "main"}, StopClose(q) PROVE resource[caller[q].server] # resource[j]
      <4>1. serverOf[resource[caller[q].server]] = caller[q].server
        BY <3>1 DEF StopClose, StopInv, Stopping
      <4> QED
        BY <2>1, <2>4, <3>1, <4>1
    <3>2. socket'[resource[j]] = socket[resource[j]] \/ socket'[resource[j]] = serverOf'[resource[j]]
      BY <2>1, <2>3, <2>8, <3>1, SocketFrame
    <3> QED
      BY <2>1, <2>7, <2>8, <3>2
  <2>9. main' = "run" /\ caller'["handler"].server # j
    BY <2>1, <2>3, CallerFrame, LifecycleFacts
  <2>10. grpc'[j] # "nil"
    BY <2>1, <2>4, <2>5, GrpcFrame
  <2> QED
    BY <2>3, <2>4, <2>5, <2>6, <2>7, <2>8, <2>9, <2>10, ModeFrame
<1>3. ASSUME NEW j \in Servers, NEW c \in Range(sending'[j]), c.first
      PROVE  /\ main' = "run" /\ grpc'[j] # "nil"
             /\ j \in Made' /\ serverOf'[resource'[j]] = j
             /\ caller'["handler"].server # j
             /\ pluginWatch' \/ (c.live /\ socket'[resource'[j]] = j)
  <2>1. CASE \E r \in Resources : KubeletConnects(r) /\ socket[r] = j
    <3>1. PICK r \in Resources : KubeletConnects(r) /\ socket[r] = j
      BY <2>1
    <3>2. /\ main = "run" /\ caller["handler"].server # j /\ grpc[j] = "serving"
          /\ sending' = [sending EXCEPT ![j] = Append(@, [live |-> TRUE, first |-> TRUE])]
          /\ UNCHANGED <<pluginWatch, main, caller, resource, serverOf, grpc, socket>>
      BY <3>1 DEF KubeletConnects
    <3>3. resource[j] = r /\ j \in Made /\ serverOf[r] = j
      BY <3>1, LifecycleFacts DEF ListenInv
    <3>4. sending[j] \in Calls /\ sending'[j] = Append(sending[j], [live |-> TRUE, first |-> TRUE])
      BY <3>2, LifecycleFacts
    <3>5. [live |-> TRUE, first |-> TRUE] \in [live : BOOLEAN, first : BOOLEAN]
      OBVIOUS
    <3>6. c \in Range(sending[j]) \/ c = [live |-> TRUE, first |-> TRUE]
      <4> DEFINE e == [live |-> TRUE, first |-> TRUE]
      <4>1. e \in [live : BOOLEAN, first : BOOLEAN] /\ sending'[j] = Append(sending[j], e)
        BY <3>4, <3>5
      <4> HIDE DEF e
      <4>2. Range(Append(sending[j], e)) = Range(sending[j]) \cup {e}
        BY <3>4, <4>1, QueueRange
      <4>3. c \in Range(sending[j]) \cup {e}
        BY <1>3, <4>1, <4>2
      <4> QED
        BY <4>3 DEF e
    <3>7. pluginWatch \/ c.live
      BY <1>3, <3>6 DEF FirstInv
    <3> QED
      BY <3>1, <3>2, <3>3, <3>7, MadeFrame
  <2>2. CASE c \in Range(sending[j])
    BY <1>2, <1>3, <2>2, ModeFrame DEF FirstInv
  <2>3. CASE /\ \E b \in CallsOf(j) : c.first = b.first
             /\ \/ pluginWatch \/ KubeletRestarts \/ WatchRestarts(j)
                \/ \E q \in {"handler", "main"} : StopClose(q) /\ caller[q].server = j
    <3>1. PICK b \in Range(sending[j]) : b.first
      BY <1>3, <2>3 DEF CallsOf, FirstInv
    <3>2. pluginWatch
      BY <1>2, <2>3, <3>1
    <3> QED
      BY <1>2, <3>1, <3>2, ModeFrame
  <2>4. c \notin Range(waiting[j])
    BY <1>3 DEF FirstInv
  <2> QED
    BY <1>3, <2>1, <2>2, <2>3, <2>4, CallsStep
<1> QED
  BY <1>1, <1>3 DEF FirstInv

(* What the shutdown has to stop, and the Stop it is in, change by its own *)
(* steps only.                                                             *)
LEMMA ShutdownFrame ==
    ASSUME TypeInv, [Next]_vars
    PROVE  \/ Shutdown \/ \E r \in Resources : ShutdownStops(r)
           \/ /\ caller'["main"].server = caller["main"].server /\ UNCHANGED tostop
              /\ main' = "run" <=> main = "run"
              /\ caller["main"].at = "out" => caller'["main"].at = "out"
              /\ Stopping("main")' => Stopping("main") /\ ~StopClose("main")
<1> DEFINE Goal == /\ caller'["main"].server = caller["main"].server /\ UNCHANGED tostop
                   /\ main' = "run" <=> main = "run"
                   /\ caller["main"].at = "out" => caller'["main"].at = "out"
                   /\ Stopping("main")' => Stopping("main") /\ ~StopClose("main")
<1> USE DEF serverVars, loopVars, kubeletVars, handlerVars, mainVars, runVars
<1>1. StopClose("main") => ~Stopping("main")'
  BY LifecycleFacts DEF StopClose, Stopping
<1>2. ASSUME caller'["main"] = caller["main"], UNCHANGED <<main, tostop>> PROVE Goal
  BY <1>1, <1>2 DEF Stopping
<1>3. ASSUME NEW i, ServerStep(i) PROVE Goal
  BY <1>2, <1>3 DEF ServerStep, Sent, SendFails, TakesTerm, WatchRestarts, WatchTerm, WatchStart,
     InformedBySharedInfo
<1>4. ASSUME NEW q \in {"handler", "main"}, StopTerm(q) \/ StopWatcher(q) \/ StopClose(q) PROVE Goal
  <2>1. /\ UNCHANGED <<main, tostop>> /\ Stopping(q)
        /\ \E at : caller' = [caller EXCEPT ![q].at = at] /\ at # "out"
    BY <1>4 DEF StopTerm, StopWatcher, StopClose, Stopping, AfterTerm
  <2>2. CASE q = "handler"
    BY <1>2, <2>1, <2>2, LifecycleFacts
  <2>3. CASE q = "main"
    BY <1>1, <2>1, <2>3, LifecycleFacts DEF Stopping
  <2> QED
    BY <2>2, <2>3
<1>5. ASSUME NEW r, Notify(r) \/ KubeletConnects(r) \/ KubeletRefuses(r) PROVE Goal
  BY <1>2, <1>5 DEF Notify, KubeletConnects, KubeletRefuses
<1>6. ASSUME NEW r, HotplugBegins(r) PROVE Goal
  <2>1. UNCHANGED <<main, tostop>> /\ CallStop("handler", serverOf[r])
    BY <1>6 DEF HotplugBegins
  <2> QED
    BY <1>2, <2>1, LifecycleFacts DEF CallStop
<1>7. CASE HotplugReplaces \/ HotplugFails
  BY <1>2, <1>7, LifecycleFacts DEF HotplugReplaces, HotplugFails
<1>8. CASE TriggerUpdate \/ KubeletRestarts \/ UNCHANGED vars
  BY <1>2, <1>8 DEF TriggerUpdate, KubeletRestarts, vars
<1>9. CASE ShutdownEnds
  BY <1>1, <1>9 DEF ShutdownEnds, Stopping
<1> HIDE DEF Goal
<1> QED
  BY <1>3, <1>4, <1>5, <1>6, <1>7, <1>8, <1>9 DEF Next, Goal

LEMMA WatchStep ==
    ASSUME TypeInv, ListenInv, StopInv, FirstInv, WatchInv, [Next]_vars,
           {"hotplug", "shutdown", "restart"} \subseteq Calm
    PROVE  WatchInv'
<1> SUFFICES ASSUME ~pluginWatch' PROVE WatchInv'
  BY DEF WatchInv
<1> USE DEF serverVars, loopVars, kubeletVars, handlerVars, mainVars, runVars
<1>1. ~pluginWatch
  BY ModeFrame
<1>2. handler = "idle" /\ UNCHANGED <<resource, serverOf>> /\ caller["handler"].at = "out"
  <2>1. handler = "idle"
    BY <1>1 DEF ListenInv
  <2> QED
    BY <2>1, ResourceFrame, LifecycleFacts DEF HotplugReplaces, StopInv
(* Where a socket can go.                                                  *)
<1>3. ASSUME NEW r \in Resources, socket'[r] = NoServer, socket[r] # NoServer
      PROVE  \/ KubeletRestarts /\ main = "run"
             \/ StopClose("main") /\ r = resource[caller["main"].server]
  <2>1. serverOf'[r] # NoServer
    BY <1>2, LifecycleFacts
  <2>2. ~StopClose("handler")
    BY <1>2 DEF StopClose
  <2>3. KubeletRestarts => main = "run"
    BY DEF KubeletRestarts
  <2> QED
    BY <1>1, <1>3, <2>1, <2>2, <2>3, SocketFrame
<1>4. ASSUME NEW r \in Resources, socket'[r] = NoServer, NEW c \in CallsOf(serverOf[r])'
      PROVE  ~c.live
  <2>1. serverOf[r] \in Servers /\ waiting[serverOf[r]] \in Calls /\ sending[serverOf[r]] \in Calls
    BY LifecycleFacts
  <2>2. c \in Range(waiting'[serverOf[r]]) \cup Range(sending'[serverOf[r]])
    BY <1>2, <1>4 DEF CallsOf
  <2>3. CASE socket[r] = NoServer
    <3>1. \A b \in CallsOf(serverOf[r]) : ~b.live
      BY <1>1, <2>3 DEF WatchInv
    <3>2. ASSUME NEW s \in Resources, socket[s] = serverOf[r] PROVE FALSE
      BY <2>1, <2>3, <3>2, LifecycleFacts DEF ListenInv
    <3> QED
      <4>1. ~pluginWatch
        BY <1>1
      <4> QED
        BY <2>1, <2>2, <3>1, <3>2, CallsStep DEF CallsOf
  <2>4. CASE socket[r] # NoServer
    <3>1. /\ waiting'[serverOf[r]] = Broken(waiting[serverOf[r]])
          /\ sending'[serverOf[r]] = Broken(sending[serverOf[r]])
      <4>1. CASE KubeletRestarts
        BY <2>1, <4>1, ZenonT(30) DEF KubeletRestarts
      <4>2. CASE StopClose("main") /\ r = resource[caller["main"].server]
        <5>1. caller["main"].server = serverOf[r]
          BY <4>2 DEF StopInv, Stopping, StopClose
        <5> QED
          BY <2>1, <4>2, <5>1, LifecycleFacts, ZenonT(30) DEF StopClose
      <4> QED
        BY <1>3, <1>4, <2>4, <4>1, <4>2
    <3> QED
      BY <2>1, <2>2, <3>1, QueueRange
  <2> QED
    BY <2>3, <2>4
<1>5. CASE Shutdown
  <2>1. /\ main = "run" /\ caller' = caller /\ socket' = socket /\ tostop' = Resources
        /\ StreamsIdle
    BY <1>1, <1>5 DEF Shutdown
  <2>2. caller'["main"].at = "out"
    BY <2>1 DEF StopInv
  <2>3. ASSUME NEW r \in Resources PROVE socket'[r] # NoServer
    <3>1. PICK n \in DOMAIN waiting[serverOf[r]] : waiting[serverOf[r]][n].live
      BY <2>1 DEF StreamsIdle, Live
    <3>2. waiting[serverOf[r]][n] \in CallsOf(serverOf[r])
      BY DEF CallsOf, Range
    <3> QED
      BY <1>1, <2>1, <3>1, <3>2 DEF WatchInv
  <2> QED
    BY <1>4, <2>1, <2>2, <2>3 DEF WatchInv, Stopping
<1>6. ASSUME NEW r \in Resources, ShutdownStops(r) PROVE WatchInv'
  <2>1. /\ main = "stopping" /\ r \in tostop /\ tostop' = tostop \ {r} /\ socket' = socket
        /\ CallStop("main", serverOf[r]) /\ main' = main
    BY <1>6 DEF ShutdownStops
  <2>2. caller'["main"].server = serverOf[r] /\ resource'[serverOf[r]] = r
    BY <1>2, <2>1, LifecycleFacts DEF CallStop, ListenInv
  <2>3. \A s \in tostop : socket[s] # NoServer
    BY <1>1, <2>1 DEF WatchInv
  <2> QED
    BY <1>4, <2>1, <2>2, <2>3 DEF WatchInv
<1>7. CASE /\ caller'["main"].server = caller["main"].server /\ UNCHANGED tostop
           /\ main' = "run" <=> main = "run"
           /\ caller["main"].at = "out" => caller'["main"].at = "out"
           /\ Stopping("main")' => Stopping("main") /\ ~StopClose("main")
  <2>1. ASSUME main' # "run", NEW r \in tostop' PROVE socket'[r] # NoServer
    <3>1. main # "run" /\ r \in tostop /\ r \in Resources /\ socket[r] # NoServer
      <4>1. tostop \subseteq Resources
        BY DEF TypeInv, LifecycleTypeOK
      <4> QED
        BY <1>1, <1>7, <2>1, <4>1 DEF WatchInv
    <3>2. StopClose("main") => resource[caller["main"].server] # r
      BY <1>1, <3>1 DEF StopClose, WatchInv
    <3> QED
      BY <1>3, <3>1, <3>2
  <2>2. caller'["main"].at # "out" => resource'[caller'["main"].server] \notin tostop'
    BY <1>1, <1>2, <1>7 DEF WatchInv
  <2>3. ASSUME Stopping("main")' PROVE socket'[resource'[caller'["main"].server]] # NoServer
    <3>1. Stopping("main") /\ ~StopClose("main")
      BY <1>7, <2>3
    <3>2. main # "run" /\ caller["main"].server \in Made
      BY <3>1, LifecycleFacts DEF Stopping, StopInv
    <3>3. resource[caller["main"].server] \in Resources
      BY <3>2, LifecycleFacts
    <3>4. socket[resource[caller["main"].server]] # NoServer
      BY <1>1, <3>1 DEF WatchInv
    <3> QED
      BY <1>2, <1>3, <1>7, <3>1, <3>2, <3>3, <3>4
  <2> QED
    BY <1>4, <2>1, <2>2, <2>3 DEF WatchInv
<1> QED
  BY <1>5, <1>6, <1>7, ShutdownFrame

LEMMA CalmInitially == Init => StopInv /\ FirstInv /\ WatchInv
<1> SUFFICES ASSUME Init PROVE StopInv /\ FirstInv /\ WatchInv
  OBVIOUS
<1>1. /\ waiting = [i \in Servers |-> <<>>] /\ sending = [i \in Servers |-> <<>>]
      /\ caller = [q \in {"handler", "main"} |-> [at |-> "out", server |-> NoServer]]
      /\ handler = "idle" /\ main = "run" /\ tostop = {}
  BY DEF Init
<1>2. \A q \in {"handler", "main"} : caller[q].at = "out" /\ caller[q].server = NoServer
  BY <1>1
<1>3. \A i \in Servers : Range(waiting[i]) = {} /\ Range(sending[i]) = {}
  BY <1>1 DEF Range
<1>4. TypeInv
  BY TypeInvInit
<1>5. \A r \in Resources : CallsOf(serverOf[r]) = {}
  BY <1>3, <1>4, LifecycleFacts DEF CallsOf
<1>6. StopInv
  BY <1>1, <1>2 DEF StopInv, Stopping
<1>7. FirstInv
  BY <1>3 DEF FirstInv
<1>8. WatchInv
  BY <1>1, <1>2, <1>5 DEF WatchInv, Stopping
<1> QED
  BY <1>6, <1>7, <1>8

LEMMA PanicStep ==
    ASSUME TypeInv, StopInv, FirstInv, ~panicked, [Next]_vars
    PROVE  ~panicked'
<1> USE DEF serverVars, loopVars, kubeletVars, handlerVars, mainVars, runVars
<1>1. ASSUME NEW i \in Servers, SendFails(i) PROVE ~panicked'
  <2>1. sending[i] \in Calls /\ sending[i] # <<>>
    BY <1>1, LifecycleFacts DEF SendFails
  <2>2. Head(sending[i]).first => grpc[i] # "nil"
    BY <2>1, QueueRange DEF FirstInv
  <2> QED
    BY <1>1, <2>2 DEF SendFails, StopsGrpc
<1>2. ASSUME NEW q \in {"handler", "main"}, StopClose(q) PROVE ~panicked'
  <2>1. grpc[caller[q].server] # "nil"
    BY <1>2 DEF StopClose, StopInv, Stopping
  <2> QED
    BY <1>2, <2>1 DEF StopClose
<1>3. ASSUME NEW i, Sent(i) \/ TakesTerm(i) \/ WatchRestarts(i) \/ WatchTerm(i) \/ WatchStart(i)
                       \/ InformedBySharedInfo(i)
      PROVE  ~panicked'
  BY <1>3 DEF Sent, TakesTerm, WatchRestarts, WatchTerm, WatchStart, InformedBySharedInfo
<1>4. ASSUME NEW q, StopTerm(q) \/ StopWatcher(q) PROVE ~panicked'
  BY <1>4 DEF StopTerm, StopWatcher
<1>5. ASSUME NEW r, HotplugBegins(r) \/ Notify(r) \/ ShutdownStops(r) \/ KubeletConnects(r)
                       \/ KubeletRefuses(r)
      PROVE  ~panicked'
  BY <1>5 DEF HotplugBegins, Notify, ShutdownStops, KubeletConnects, KubeletRefuses
<1>6. CASE HotplugReplaces \/ HotplugFails \/ TriggerUpdate \/ Shutdown \/ ShutdownEnds
             \/ KubeletRestarts \/ UNCHANGED vars
  BY <1>6 DEF HotplugReplaces, HotplugFails, TriggerUpdate, Shutdown, ShutdownEnds, KubeletRestarts, vars
<1> QED
  BY <1>1, <1>2, <1>3, <1>4, <1>5, <1>6 DEF Next, ServerStep

(* Where there are watchers, nothing breaks a first list under way, and    *)
(* no hot-plug comes. Where there are none, the kubelet may restart or     *)
(* refuse a server while first lists are under way, they fail and stop     *)
(* their server, hot-plugs fail or replace it; only the Stop of a server   *)
(* waits for its first list, and the first list for the Stop. Then neither *)
(* a failing first list nor a Stop, a second one included, finds the       *)
(* grpcServer nil, with any number of servers.                             *)
THEOREM NilServerIsNotCalled ==
    ASSUME {"hotplug", "shutdown", "connect", "restart"} \subseteq Calm
    PROVE  Spec => []NoPanic
<1> DEFINE Inv == TypeInv /\ ListenInv /\ StopInv /\ FirstInv /\ WatchInv /\ ~panicked
<1>1. Init => Inv
  BY TypeInvInit, ListenInitially, CalmInitially DEF Init
<1>2. Inv /\ [Next]_vars => Inv'
  BY TypeInvStep, ListenStep, StopStep, FirstStep, WatchStep, PanicStep
<1>3. Inv => NoPanic
  BY DEF NoPanic
<1> QED
  BY <1>1, <1>2, <1>3, PTL DEF Spec
=============================================================================
