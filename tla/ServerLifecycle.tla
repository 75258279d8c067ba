-------------------------- MODULE ServerLifecycle --------------------------
(***************************************************************************)
(* The life of the resource servers: started with the plugin, restarted by *)
(* their watcher when the kubelet has removed their socket, replaced when  *)
(* a device is hot-plugged, stopped at shutdown. The goroutines are main,  *)
(* the health handler, SharedInfo.Run, one Watch per watched server and    *)
(* one ListAndWatch per stream the kubelet opened. The kubelet is external.*)
(***************************************************************************)
EXTENDS Naturals, Sequences, FiniteSets

CONSTANTS Resources,        \* resource names, each with a socket path
          Aggregated,       \* the ones whose server a hot-plug replaces
          TopologyAware,    \* the ones whose own server is told of their allocations too
          Calm,             \* the events that come only when they do no harm
          MaxHotplugs, MaxKubeletRestarts, MaxNotifies, \* bounds, each of them
          MaxEvents                                       \* and all together

ASSUME ResourcesAssumption ==
    /\ IsFiniteSet(Resources) /\ "none" \notin Resources
    /\ Aggregated \cup TopologyAware \subseteq Resources
ASSUME CalmAssumption ==
    Calm \subseteq {"hotplug", "notify", "shutdown", "connect", "restart", "refuse"}
ASSUME BoundsAssumption == {MaxHotplugs, MaxKubeletRestarts, MaxNotifies, MaxEvents} \subseteq Nat

(* Server objects, numbered in the order they are made.                    *)
Servers == 1 .. Cardinality(Resources) + MaxHotplugs
NoServer == 0

VARIABLES pluginWatch,      \* the kubelet watches the socket directory itself
          resource,         \* the resource name of each server made
          serverOf,         \* rm.resourceServers
          grpc,             \* "new", "serving", "stopped" or "nil"
          serverStarted,
          termSignal,       \* the channel of capacity one
          waiting,          \* ListAndWatch calls blocked in select, oldest first
          sending,          \* ListAndWatch calls in stream.Send
          watcher,          \* where Watch is
          socket,           \* the server listening on each path
          noticed,          \* the kubelet is about to call ListAndWatch
          fresh,            \* (ghost) the kubelet has the present list of the server
          caller,           \* the Stop that handler or main is in
          handler, swapped, \* HandleHotpluggedDevices and its resource
          main, tostop,     \* main, and the servers it has to stop
          toinform,         \* servers notify has to inform
          hotplugs, kubeletRestarts, notifies,
          panicked          \* a method was called on a nil grpcServer

serverVars == <<resource, serverOf, grpc, serverStarted, fresh>>
loopVars == <<termSignal, waiting, sending>>
kubeletVars == <<socket, noticed, kubeletRestarts>>
handlerVars == <<handler, swapped, hotplugs>>
mainVars == <<main, tostop>>
runVars == <<toinform, notifies>>
vars == <<pluginWatch, serverVars, loopVars, watcher, kubeletVars, caller, handlerVars,
          mainVars, runVars, panicked>>

MoreEvents == hotplugs + kubeletRestarts + notifies < MaxEvents

Made == {i \in Servers : resource[i] \in Resources}

(* Streams are broken by the kubelet or by the end of their grpc server.   *)
(* The call of ListAndWatch goes on: it does not look at its context.      *)
Broken(calls) == [n \in DOMAIN calls |-> [calls[n] EXCEPT !.live = FALSE]]
Live(r) == \E n \in DOMAIN waiting[serverOf[r]] : waiting[serverOf[r]][n].live

(* What Calm waits for: no first list of the server is under way ...       *)
FirstListSent(i) == \A n \in DOMAIN sending[i] : ~sending[i][n].first

(* ... or every stream is up and no update is under way.                   *)
StreamsIdle ==
    /\ \A r \in Resources : Live(r)
    /\ toinform = {} /\ \A i \in Servers : sending[i] = <<>>

(***************************************************************************)
(* Start-up: InitServers and StartAllServers. In deprecated mode each      *)
(* server registers itself and is given a watcher.                         *)
(***************************************************************************)

Init ==
    /\ pluginWatch \in BOOLEAN
    /\ serverOf = CHOOSE f \in [Resources -> 1 .. Cardinality(Resources)] :
                     \A r, q \in Resources : f[r] = f[q] => r = q
    /\ resource = [i \in Servers |-> IF \E r \in Resources : serverOf[r] = i
                                    THEN CHOOSE r \in Resources : serverOf[r] = i ELSE "none"]
    /\ grpc = [i \in Servers |-> IF i \in Made THEN "serving" ELSE "new"]
    /\ serverStarted = [i \in Servers |-> FALSE]
    /\ termSignal = [i \in Servers |-> 0]
    /\ waiting = [i \in Servers |-> <<>>] /\ sending = [i \in Servers |-> <<>>]
    /\ watcher = [i \in Servers |-> IF i \in Made /\ ~pluginWatch THEN "check" ELSE "none"]
    /\ socket = serverOf /\ noticed = [r \in Resources |-> TRUE]
    /\ fresh = [i \in Servers |-> FALSE]
    /\ caller = [q \in {"handler", "main"} |-> [at |-> "out", server |-> NoServer]]
    /\ handler = "idle" /\ swapped \in Aggregated /\ main = "run" /\ tostop = {}
    /\ toinform = {}
    /\ hotplugs = 0 /\ kubeletRestarts = 0 /\ notifies = 0
    /\ panicked = FALSE

(***************************************************************************)
(* ListAndWatch                                                            *)
(***************************************************************************)

(* An update is handed to the call that has waited longest.                *)
SendUpdate(i) ==
    /\ waiting[i] # <<>>
    /\ waiting' = [waiting EXCEPT ![i] = Tail(@)]
    /\ sending' = [sending EXCEPT ![i] = Append(@, Head(waiting[i]))]
    /\ UNCHANGED termSignal

(* termSignal <- true goes to the call that has waited longest, else into  *)
(* the channel, else it blocks.                                            *)
SendTerm(i) ==
    /\ IF waiting[i] # <<>>
       THEN waiting' = [waiting EXCEPT ![i] = Tail(@)] /\ UNCHANGED termSignal
       ELSE termSignal[i] = 0 /\ termSignal' = [termSignal EXCEPT ![i] = 1] /\ UNCHANGED waiting
    /\ UNCHANGED sending

(* (mutant: the call ends with its first list)                             *)
LoopsOn(i, call) == UNCHANGED waiting

Loops(i, call) ==
    waiting' = [waiting EXCEPT ![i] = Append(@, [call EXCEPT !.first = FALSE])]

(* stream.Send of the first or of a later list, with the pool as it is.    *)
Sent(i) ==
    LET call == Head(sending[i])
    IN  /\ sending[i] # <<>>
        /\ call.live
        /\ sending' = [sending EXCEPT ![i] = Tail(@)]
        /\ Loops(i, call)
        /\ serverStarted' = [serverStarted EXCEPT ![i] = TRUE]
        /\ fresh' = [fresh EXCEPT ![i] = TRUE]
        /\ UNCHANGED <<pluginWatch, resource, serverOf, grpc, termSignal, watcher, kubeletVars,
                       caller, handlerVars, mainVars, runVars, panicked>>

StopsGrpc(call) == call.first

(* (mutant: the field is cleared, as Stop does)                            *)
GrpcCleared == "nil"

GrpcStopped == "stopped"

(* A failure ends the call; one of the first list stops the grpc server,   *)
(* whose listener takes the socket file along.                             *)
SendFails(i) ==
    LET call == Head(sending[i])
    IN  /\ sending[i] # <<>>
        /\ ~call.live
        /\ sending' = [sending EXCEPT ![i] = IF StopsGrpc(call) THEN Broken(Tail(@)) ELSE Tail(@)]
        /\ IF StopsGrpc(call)
           THEN /\ grpc' = [grpc EXCEPT ![i] = IF @ = "nil" THEN @ ELSE GrpcStopped]
                /\ panicked' = (panicked \/ grpc[i] = "nil")
                /\ waiting' = [waiting EXCEPT ![i] = Broken(@)]
                /\ socket' = [socket EXCEPT ![resource[i]] = IF @ = i THEN NoServer ELSE @]
           ELSE UNCHANGED <<grpc, panicked, waiting, socket>>
        /\ UNCHANGED <<pluginWatch, resource, serverOf, serverStarted, fresh, termSignal, watcher,
                       noticed, kubeletRestarts, caller, handlerVars, mainVars, runVars>>

(* A call that comes to the select finds a signal nobody was waiting for.  *)
TakesTerm(i) ==
    /\ termSignal[i] = 1
    /\ waiting[i] # <<>>
    /\ termSignal' = [termSignal EXCEPT ![i] = 0]
    /\ waiting' = [waiting EXCEPT ![i] = SubSeq(@, 1, Len(@) - 1)]
    /\ UNCHANGED <<pluginWatch, serverVars, sending, watcher, kubeletVars, caller, handlerVars,
                   mainVars, runVars, panicked>>

(***************************************************************************)
(* Start, Stop, and Watch with restart                                     *)
(***************************************************************************)

(* (mutant: a restarted server is not announced)                           *)
ListeningUnnoticed(i) == socket' = [socket EXCEPT ![resource'[i]] = i] /\ UNCHANGED noticed

(* Start: the socket anew, then register, or the kubelet sees the file.    *)
Listening(i) ==
    /\ socket' = [socket EXCEPT ![resource'[i]] = i]
    /\ noticed' = [noticed EXCEPT ![resource'[i]] = TRUE]

(* (mutant: Stop returns at once)                                          *)
SkipStop(q, i) == caller' = [caller EXCEPT ![q] = [at |-> "returned", server |-> i]]

(* Stop begins, for a server that has a grpcServer.                        *)
CallStop(q, i) ==
    caller' = [caller EXCEPT ![q] =
                  [at |-> IF grpc[i] = "nil" THEN "returned" ELSE "term", server |-> i]]

(* (mutant: a watcher is expected in both modes)                           *)
AlwaysWatched == "watcher"

AfterTerm == IF pluginWatch THEN "close" ELSE "watcher"

StopTerm(q) ==
    LET i == caller[q].server
    IN  /\ caller[q].at = "term"
        /\ SendTerm(i)
        /\ caller' = [caller EXCEPT ![q].at = AfterTerm]
        /\ UNCHANGED <<pluginWatch, serverVars, watcher, kubeletVars, handlerVars, mainVars,
                       runVars, panicked>>

(* stopWatcher <- true: there has to be a watcher at its select.           *)
StopWatcher(q) ==
    LET i == caller[q].server
    IN  /\ caller[q].at = "watcher"
        /\ watcher[i] = "check"
        /\ watcher' = [watcher EXCEPT ![i] = "none"]
        /\ caller' = [caller EXCEPT ![q].at = "close"]
        /\ UNCHANGED <<pluginWatch, serverVars, loopVars, kubeletVars, handlerVars, mainVars,
                       runVars, panicked>>

(* grpcServer.Stop() and cleanUp()                                         *)
StopClose(q) ==
    LET i == caller[q].server
    IN  /\ caller[q].at = "close"
        /\ panicked' = (panicked \/ grpc[i] = "nil")
        /\ grpc' = [grpc EXCEPT ![i] = "nil"]
        /\ waiting' = [waiting EXCEPT ![i] = Broken(@)]
        /\ sending' = [sending EXCEPT ![i] = Broken(@)]
        /\ socket' = [socket EXCEPT ![resource[i]] = NoServer]
        /\ noticed' = [noticed EXCEPT ![resource[i]] = FALSE]
        /\ caller' = [caller EXCEPT ![q].at = "returned"]
        /\ UNCHANGED <<pluginWatch, resource, serverOf, serverStarted, fresh, termSignal, watcher,
                       kubeletRestarts, handlerVars, mainVars, runVars>>

WatchRestarts(i) ==
    /\ watcher[i] = "check"
    /\ socket[resource[i]] = NoServer
    /\ watcher' = [watcher EXCEPT ![i] = "term"]
    /\ grpc' = [grpc EXCEPT ![i] = "nil"]
    /\ waiting' = [waiting EXCEPT ![i] = Broken(@)]
    /\ sending' = [sending EXCEPT ![i] = Broken(@)]
    /\ UNCHANGED <<pluginWatch, resource, serverOf, serverStarted, fresh, termSignal, kubeletVars,
                   caller, handlerVars, mainVars, runVars, panicked>>

WatchTerm(i) ==
    /\ watcher[i] = "term"
    /\ SendTerm(i)
    /\ watcher' = [watcher EXCEPT ![i] = "start"]
    /\ UNCHANGED <<pluginWatch, serverVars, kubeletVars, caller, handlerVars, mainVars, runVars,
                   panicked>>

WatchStart(i) ==
    /\ watcher[i] = "start"
    /\ watcher' = [watcher EXCEPT ![i] = "check"]
    /\ grpc' = [grpc EXCEPT ![i] = "serving"]
    /\ UNCHANGED resource
    /\ Listening(i)
    /\ UNCHANGED <<pluginWatch, serverOf, serverStarted, fresh, loopVars, kubeletRestarts, caller,
                   handlerVars, mainVars, runVars, panicked>>

(***************************************************************************)
(* HandleHotpluggedDevices in the handler's goroutine, for the new devices *)
(* of one kind: updateAggregatedResourcePools, then UpdateResourceServers. *)
(***************************************************************************)

HotplugBegins(r) ==
    /\ handler = "idle"
    /\ hotplugs < MaxHotplugs /\ MoreEvents
    /\ "hotplug" \in Calm => /\ pluginWatch /\ main = "run"
                            /\ FirstListSent(serverOf[r]) /\ toinform = {}
    /\ hotplugs' = hotplugs + 1
    /\ handler' = "stop" /\ swapped' = r
    /\ CallStop("handler", serverOf[r])
    /\ UNCHANGED <<pluginWatch, serverVars, loopVars, watcher, kubeletVars, mainVars, runVars,
                   panicked>>

(* (mutant: SharedInfo is not told of the new server)                      *)
NotRegistered(i) == UNCHANGED resource

(* GetResourceServer: SharedInfo keeps the new server next to the old one. *)
RegisterServer(i) == resource' = [resource EXCEPT ![i] = swapped]

(* The new server is registered and started, but not watched.              *)
HotplugReplaces ==
    /\ handler = "stop"
    /\ caller["handler"].at = "returned"
    /\ LET i == Cardinality(Made) + 1
       IN /\ RegisterServer(i)
          /\ grpc' = [grpc EXCEPT ![i] = "serving"]
          /\ serverOf' = [serverOf EXCEPT ![swapped] = i]
          /\ Listening(i)
    /\ caller' = [caller EXCEPT !["handler"] = [at |-> "out", server |-> NoServer]]
    /\ handler' = "trigger"
    /\ UNCHANGED <<pluginWatch, serverStarted, fresh, loopVars, watcher, kubeletRestarts,
                   swapped, hotplugs, mainVars, runVars, panicked>>

(* No new server can be made, or the one made and registered cannot be     *)
(* started: the stopped one stays in rm.resourceServers.                   *)
HotplugFails ==
    /\ handler = "stop"
    /\ caller["handler"].at = "returned"
    /\ UNCHANGED resource \/ RegisterServer(Cardinality(Made) + 1)
    /\ caller' = [caller EXCEPT !["handler"] = [at |-> "out", server |-> NoServer]]
    /\ handler' = "trigger"
    /\ UNCHANGED <<pluginWatch, serverOf, grpc, serverStarted, fresh, loopVars, watcher,
                   kubeletVars, swapped, hotplugs, mainVars, runVars, panicked>>

TriggerUpdate ==
    /\ handler = "trigger"
    /\ handler' = "idle"
    /\ IF serverStarted[serverOf[swapped]]
       THEN SendUpdate(serverOf[swapped])
       ELSE UNCHANGED loopVars
    /\ UNCHANGED <<pluginWatch, serverVars, watcher, kubeletVars, caller, swapped, hotplugs,
                   mainVars, runVars, panicked>>

(***************************************************************************)
(* notify, in Run: a resource got devices, or gave them back.              *)
(***************************************************************************)

(* It informs all others, and acts on those whose pool changes.            *)
Notify(r) ==
    /\ toinform = {}
    /\ notifies < MaxNotifies /\ MoreEvents
    /\ "notify" \in Calm => hotplugs = 0 /\ (pluginWatch \/ StreamsIdle)
    /\ notifies' = notifies + 1
    /\ toinform' \in SUBSET {i \in Made : resource[i] # r \/ r \in TopologyAware}
    /\ UNCHANGED <<pluginWatch, serverVars, loopVars, watcher, kubeletVars, caller, handlerVars,
                   mainVars, panicked>>

InformedBySharedInfo(i) ==
    /\ i \in toinform
    /\ toinform' = toinform \ {i}
    /\ fresh' = [fresh EXCEPT ![i] = FALSE]
    /\ IF serverStarted[i] THEN SendUpdate(i) ELSE UNCHANGED loopVars
    /\ UNCHANGED <<pluginWatch, resource, serverOf, grpc, serverStarted, watcher, kubeletVars,
                   caller, handlerVars, mainVars, notifies, panicked>>

(***************************************************************************)
(* StopAllServers, then the end of the process                             *)
(***************************************************************************)

Shutdown ==
    /\ main = "run"
    /\ "shutdown" \in Calm => /\ \A i \in Servers : FirstListSent(i)
                             /\ handler # "stop" /\ (pluginWatch \/ StreamsIdle)
    /\ main' = "stopping" /\ tostop' = Resources
    /\ UNCHANGED <<pluginWatch, serverVars, loopVars, watcher, kubeletVars, caller, handlerVars,
                   runVars, panicked>>

ShutdownStops(r) ==
    /\ main = "stopping"
    /\ caller["main"].at \in {"out", "returned"}
    /\ r \in tostop
    /\ tostop' = tostop \ {r}
    /\ CallStop("main", serverOf[r])
    /\ UNCHANGED <<pluginWatch, serverVars, loopVars, watcher, kubeletVars, handlerVars, main,
                   runVars, panicked>>

ShutdownEnds ==
    /\ main = "stopping" /\ tostop = {}
    /\ caller["main"].at = "returned"
    /\ main' = "exited"
    /\ UNCHANGED <<pluginWatch, serverVars, loopVars, watcher, kubeletVars, caller, handlerVars,
                   tostop, runVars, panicked>>

(***************************************************************************)
(* The kubelet. Starting again it breaks its streams; it removes the       *)
(* sockets in deprecated mode and finds them again otherwise.              *)
(***************************************************************************)

KubeletConnects(r) ==
    /\ noticed[r]
    /\ socket[r] \in Servers
    /\ "connect" \in Calm => main = "run" /\ caller["handler"].server # socket[r]
    /\ grpc[socket[r]] = "serving"
    /\ noticed' = [noticed EXCEPT ![r] = FALSE]
    /\ sending' = [sending EXCEPT ![socket[r]] = Append(@, [live |-> TRUE, first |-> TRUE])]
    /\ UNCHANGED <<pluginWatch, serverVars, termSignal, waiting, watcher, socket, kubeletRestarts,
                   caller, handlerVars, mainVars, runVars, panicked>>

(* NotifyRegistrationStatus: a server the kubelet does not register stops. *)
(* It is said to restart, which only a watcher would do.                   *)
KubeletRefuses(r) ==
    LET i == socket[r]
    IN  /\ pluginWatch /\ noticed[r]
        /\ i \in Servers
        /\ "refuse" \in Calm => ~serverStarted[i]
        /\ grpc[i] = "serving"
        /\ grpc' = [grpc EXCEPT ![i] = "stopped"]
        /\ waiting' = [waiting EXCEPT ![i] = Broken(@)]
        /\ sending' = [sending EXCEPT ![i] = Broken(@)]
        /\ socket' = [socket EXCEPT ![r] = NoServer]
        /\ noticed' = [noticed EXCEPT ![r] = FALSE]
        /\ UNCHANGED <<pluginWatch, resource, serverOf, serverStarted, fresh, termSignal, watcher,
                       kubeletRestarts, caller, handlerVars, mainVars, runVars, panicked>>

KubeletRestarts ==
    /\ kubeletRestarts < MaxKubeletRestarts /\ MoreEvents
    /\ "restart" \in Calm =>
          /\ \A i \in Servers : FirstListSent(i) \/ (pluginWatch /\ ~serverStarted[i])
          /\ handler # "stop" /\ main = "run" /\ (pluginWatch \/ StreamsIdle)
    /\ kubeletRestarts' = kubeletRestarts + 1
    /\ waiting' = [i \in Servers |-> Broken(waiting[i])]
    /\ sending' = [i \in Servers |-> Broken(sending[i])]
    /\ noticed' = [r \in Resources |-> pluginWatch /\ socket[r] # NoServer]
    /\ socket' = IF pluginWatch THEN socket ELSE [r \in Resources |-> NoServer]
    /\ fresh' = [i \in Servers |-> FALSE]
    /\ UNCHANGED <<pluginWatch, resource, serverOf, grpc, serverStarted, termSignal, watcher,
                   caller, handlerVars, mainVars, runVars, panicked>>

ServerStep(i) ==
    \/ Sent(i) \/ SendFails(i) \/ TakesTerm(i)
    \/ WatchRestarts(i) \/ WatchTerm(i) \/ WatchStart(i)
    \/ InformedBySharedInfo(i)

Next ==
    \/ \E i \in Servers : ServerStep(i)
    \/ \E q \in {"handler", "main"} : StopTerm(q) \/ StopWatcher(q) \/ StopClose(q)
    \/ (\E r \in Aggregated : HotplugBegins(r)) \/ HotplugReplaces \/ HotplugFails \/ TriggerUpdate
    \/ \E r \in Resources :
          Notify(r) \/ ShutdownStops(r) \/ KubeletConnects(r) \/ KubeletRefuses(r)
    \/ Shutdown \/ ShutdownEnds \/ KubeletRestarts

(* Goroutines run and the kubelet connects to a server it has noticed.     *)
Fairness ==
    /\ \A i \in Servers :
          /\ WF_vars(Sent(i)) /\ WF_vars(SendFails(i)) /\ WF_vars(TakesTerm(i))
          /\ WF_vars(WatchRestarts(i)) /\ WF_vars(WatchTerm(i)) /\ WF_vars(WatchStart(i))
          /\ WF_vars(InformedBySharedInfo(i))
    /\ \A q \in {"handler", "main"} :
          WF_vars(StopTerm(q)) /\ WF_vars(StopWatcher(q)) /\ WF_vars(StopClose(q))
    /\ WF_vars(HotplugReplaces \/ HotplugFails) /\ WF_vars(TriggerUpdate)
    /\ \A r \in Resources : WF_vars(ShutdownStops(r)) /\ WF_vars(KubeletConnects(r))
    /\ WF_vars(ShutdownEnds)

Spec == Init /\ [][Next]_vars /\ Fairness

(***************************************************************************)
(* Properties                                                              *)
(***************************************************************************)

Calls == Seq([live : BOOLEAN, first : BOOLEAN])

(* Type invariant: every server of rm.resourceServers and every server     *)
(* notify informs has been made, and channels, calls and sockets have one  *)
(* of their values.                                                        *)
LifecycleTypeOK ==
    /\ pluginWatch \in BOOLEAN
    /\ resource \in [Servers -> Resources \cup {"none"}]
    /\ serverOf \in [Resources -> Made]
    /\ grpc \in [Servers -> {"new", "serving", "stopped", "nil"}]
    /\ serverStarted \in [Servers -> BOOLEAN]
    /\ termSignal \in [Servers -> {0, 1}]
    /\ waiting \in [Servers -> Calls] /\ sending \in [Servers -> Calls]
    /\ watcher \in [Servers -> {"none", "check", "term", "start"}]
    /\ socket \in [Resources -> Servers \cup {NoServer}]
    /\ noticed \in [Resources -> BOOLEAN] /\ fresh \in [Servers -> BOOLEAN]
    /\ caller \in [{"handler", "main"} -> [at : {"out", "term", "watcher", "close", "returned"},
                                           server : Servers \cup {NoServer}]]
    /\ handler \in {"idle", "stop", "trigger"} /\ swapped \in Aggregated
    /\ main \in {"run", "stopping", "exited"} /\ tostop \subseteq Resources
    /\ toinform \subseteq Made
    /\ panicked \in BOOLEAN

(* Whoever stops, restarts or replaces servers, no two of the same         *)
(* resource listen, and the socket file is the one of the server that does.*)
OneServerPerSocket ==
    \A i \in Made : grpc[i] = "serving" =>
        /\ socket[resource[i]] \in {i, NoServer}
        /\ \A j \in Made : grpc[j] = "serving" /\ resource[j] = resource[i] => i = j

(* A first list that cannot be sent, because the kubelet restarted or      *)
(* refused the server meanwhile or another first list failed, finds a      *)
(* grpcServer to stop, and so does every Stop of a server that has stopped *)
(* already: nobody has set it to nil before.                               *)
NoPanic == panicked => main = "exited"

(* Without a watcher nobody starts a server again that has stopped: after  *)
(* a failed first list, a refused registration or a failed hot-plug.       *)
Down(r) == pluginWatch /\ grpc[serverOf[r]] # "serving"

(* The kubelet ends up with a stream to the server of every resource that  *)
(* is not down, and with its present list, through restarts of the kubelet *)
(* and hot-plugs. If it restarts and finds the sockets as they were, a     *)
(* call of ListAndWatch that lost its stream may take the next update.     *)
StreamsComeBack ==
    <>[](main # "run" \/ \A r \in Resources :
            \/ Down(r)
            \/ Live(r) /\ (fresh[serverOf[r]] \/ (pluginWatch /\ kubeletRestarts > 0)))

(* TriggerUpdate on the stopped server a failed hot-plug has left behind:  *)
(* no call of its ListAndWatch is left to take the update.                 *)
Hung ==
    LET i == serverOf[swapped]
    IN  handler = "trigger" /\ grpc[i] = "nil" /\ serverStarted[i]
        /\ waiting[i] = <<>> /\ sending[i] = <<>>

(* A hot-plug comes to its end, and with it the handler to its next update,*)
(* unless it failed after it had stopped a server that was in use.         *)
HotplugCompletes == handler # "idle" ~> handler = "idle" \/ main = "exited" \/ Hung

(* Shutdown does not hang on a server's channels.                          *)
ShutdownCompletes == main = "stopping" ~> main = "exited"

(* notify reaches all servers and returns to the loop of Run, which would  *)
(* otherwise never handle an allocation again.                             *)
NotifyReturns == toinform # {} ~> toinform = {} \/ main # "run"
=============================================================================
