---------------------------- MODULE HealthClient ----------------------------
(***************************************************************************)
(* SpyreHealthClient: a stream of device reports from the node's health    *)
(* checker, kept open by reconnecting. The goroutines are Start's call of  *)
(* Register, at most one attemptReconnect that got past its guard, one     *)
(* listen per stream and one setAndNotify per message. The checker process *)
(* and the gRPC library are external.                                      *)
(***************************************************************************)
EXTENDS Naturals, Sequences

CONSTANTS Reports,              \* what a message can say of the devices
          NoReport,             \* the empty map of a new client
          Conns,                \* client connections
          NoConn,
          MaxReconnectAttempts,
          MaxMessages,          \* bound: reports the checker process makes
          MaxOutages,           \* bound: times the checker process stops
          MaxFaults,            \* bound: credentials or streams that fail while it runs
          Prompt                \* a goroutine's last instructions run before others get far

ASSUME ReportsAssumption == NoReport \in Reports
ASSUME ConnsAssumption == NoConn \notin Conns
ASSUME BoundsAssumption == {MaxReconnectAttempts, MaxMessages, MaxOutages, MaxFaults} \subseteq Nat
ASSUME FlagAssumption == Prompt \in BOOLEAN

VARIABLES healthInfoMap,
          owed,          \* a setAndNotify has replaced the map and holds mu
          updateChan,    \* tokens in the channel shared with the handler
          conn,          \* t.conn
          open,          \* connections not closed
          running, reconnecting, quit,
          register,      \* where the call of Register is
          retry,         \* where attemptReconnect is
          attempt,       \* its loop counter
          spawned,       \* attemptReconnect goroutines that have not begun
          listener,      \* where the listen goroutine of each connection is
          applying,      \* messages whose setAndNotify goroutine has not begun
          up,            \* the checker process listens on the socket
          alive,         \* connections whose stream it still serves
          wire,          \* messages on each stream
          sent,          \* all reports made, the last one is in force
          paced,         \* each is made when the one before has been applied
          outages, faults

checkerVars == <<healthInfoMap, owed, updateChan>>
flagVars == <<running, reconnecting, quit>>
connVars == <<conn, open>>
retryVars == <<retry, attempt, spawned>>
serverVars == <<up, sent, paced, outages>>
streamVars == <<alive, wire>>
vars == <<checkerVars, flagVars, connVars, retryVars, serverVars, streamVars,
          register, listener, applying, faults>>

(* the report in force                                                     *)
Latest == sent[Len(sent)]

(* a connection nobody refers to                                           *)
Free(c) ==
    /\ c \notin open \cup alive
    /\ c # conn
    /\ listener[c] \in {"none", "gone"}
    /\ \A m \in applying : m[1] # c

Init ==
    /\ healthInfoMap = NoReport /\ owed = FALSE /\ updateChan = 0
    /\ conn = NoConn /\ open = {}
    /\ running = FALSE /\ reconnecting = FALSE /\ quit = FALSE
    /\ register = "check"                           \* Start calls Register
    /\ retry = "none" /\ attempt = 0 /\ spawned = 0
    /\ listener = [c \in Conns |-> "none"]
    /\ applying = {}
    /\ up \in BOOLEAN /\ alive = {} /\ wire = [c \in Conns |-> <<>>]
    /\ sent \in {<<r>> : r \in Reports} /\ paced \in BOOLEAN
    /\ outages = 0 /\ faults = 0

(* (mutant: a setAndNotify does not keep the others out)                   *)
NoLock == TRUE

(* nobody holds mu                                                         *)
Unlocked == ~owed

(***************************************************************************)
(* Register, called by Start and by attemptReconnect.                      *)
(***************************************************************************)

(* (mutant: the loop runs once too often)                                  *)
LastAttemptLate == attempt > MaxReconnectAttempts

LastAttempt == attempt = MaxReconnectAttempts

(* Its caller goes on: Start spawns a reconnect if it failed, the loop of  *)
(* attemptReconnect ends on success and with its last attempt.             *)
Returned(ok) ==
    /\ register' = "none"
    /\ IF retry = "register"
       THEN /\ attempt' = IF ok THEN attempt ELSE attempt + 1
            /\ retry' = IF ok \/ LastAttempt THEN "finish" ELSE "wait"
            /\ UNCHANGED spawned
       ELSE /\ spawned' = IF ok THEN spawned ELSE spawned + 1
            /\ UNCHANGED <<retry, attempt>>

(* Registered at once if the client says it runs; TLS credentials may not  *)
(* be mounted yet.                                                         *)
RunningAlready == running

RegisterCheck ==
    /\ register = "check"
    /\ Prompt => \A c \in Conns : listener[c] \notin {"leaving", "closing"}
    /\ \/ RunningAlready /\ Returned(TRUE) /\ UNCHANGED faults
       \/ ~RunningAlready /\ faults < MaxFaults /\ faults' = faults + 1 /\ Returned(FALSE)
       \/ ~RunningAlready /\ register' = "dial" /\ UNCHANGED <<retryVars, faults>>
    /\ UNCHANGED <<checkerVars, flagVars, connVars, serverVars, streamVars, listener, applying>>

(* grpc.NewClient connects lazily; t.conn is replaced, never closed first. *)
RegisterDial ==
    /\ register = "dial"
    /\ Unlocked
    /\ \E c \in Conns :
          /\ Free(c)
          /\ conn' = c
          /\ open' = open \cup {c}
    /\ register' = "stream"
    /\ UNCHANGED <<checkerVars, flagVars, retryVars, serverVars, streamVars, listener, applying, faults>>

(* The call reaches the checker, which answers with the report in force,   *)
(* or it fails and t.conn is closed.                                       *)
RegisterStream ==
    /\ register = "stream"
    /\ \/ /\ up /\ conn \in open
          /\ alive' = alive \cup {conn}
          /\ wire' = [wire EXCEPT ![conn] = <<Len(sent)>>]
          /\ register' = "commit"
          /\ UNCHANGED <<open, retryVars, faults>>
       \/ /\ Unlocked
          /\ \/ (~up \/ conn \notin open) /\ UNCHANGED faults
             \/ up /\ conn \in open /\ faults < MaxFaults /\ faults' = faults + 1
          /\ open' = open \ {conn}
          /\ Returned(FALSE)
          /\ UNCHANGED streamVars
    /\ UNCHANGED <<checkerVars, flagVars, conn, serverVars, listener, applying>>

RegisterCommit ==
    /\ register = "commit"
    /\ running' = TRUE
    /\ listener' = [listener EXCEPT ![conn] = "recv"]
    /\ Returned(TRUE)
    /\ UNCHANGED <<checkerVars, reconnecting, quit, connVars, serverVars, streamVars, applying, faults>>

(***************************************************************************)
(* attemptReconnect                                                        *)
(***************************************************************************)

(* CompareAndSwap: a goroutine that finds another one at work ends.        *)
RetryBegin ==
    /\ spawned > 0
    /\ spawned' = spawned - 1
    /\ IF reconnecting
       THEN UNCHANGED <<reconnecting, retry, attempt>>
       ELSE /\ reconnecting' = TRUE
            /\ attempt' = 1
            /\ retry' = IF MaxReconnectAttempts = 0 THEN "finish" ELSE "wait"
    /\ UNCHANGED <<checkerVars, running, quit, connVars, serverVars, streamVars,
                   register, listener, applying, faults>>

(* Look at quit, wait for the backoff of a later attempt, call Register.   *)
RetryAttempt ==
    /\ retry = "wait"
    /\ IF quit
       THEN retry' = "finish" /\ UNCHANGED register
       ELSE retry' = "register" /\ register' = "check"
    /\ UNCHANGED <<checkerVars, flagVars, connVars, attempt, spawned, serverVars, streamVars,
                   listener, applying, faults>>

(* (mutant: the flag stays set)                                            *)
RetryFinishKeepsFlag ==
    /\ retry = "finish"
    /\ retry' = "none"
    /\ UNCHANGED <<checkerVars, flagVars, connVars, attempt, spawned, serverVars, streamVars,
                   register, listener, applying, faults>>

RetryFinish ==
    /\ retry = "finish"
    /\ retry' = "none"
    /\ reconnecting' = FALSE
    /\ UNCHANGED <<checkerVars, running, quit, connVars, attempt, spawned, serverVars, streamVars,
                   register, listener, applying, faults>>

(***************************************************************************)
(* listen, and the goroutine it starts for each message                    *)
(***************************************************************************)

Receive(c) ==
    /\ listener[c] = "recv"
    /\ c \in open
    /\ wire[c] # <<>>
    /\ wire' = [wire EXCEPT ![c] = Tail(@)]
    /\ IF quit
       THEN listener' = [listener EXCEPT ![c] = "leaving"] /\ UNCHANGED applying
       ELSE applying' = applying \cup {<<c, Head(wire[c])>>} /\ UNCHANGED listener
    /\ UNCHANGED <<checkerVars, flagVars, connVars, retryVars, serverVars, alive, register, faults>>

(* The stream ends or breaks: first a reconnect is spawned, then the       *)
(* deferred function runs. Only an end of file ignores quit.               *)
StreamEnds(c) ==
    /\ listener[c] = "recv"
    /\ c \notin open \/ (c \notin alive /\ wire[c] = <<>>)
    /\ Prompt => retry # "finish"
    /\ listener' = [listener EXCEPT ![c] = "leaving"]
    /\ wire' = [wire EXCEPT ![c] = <<>>]
    /\ alive' = alive \ {c}
    /\ \/ spawned' = spawned + 1
       \/ quit /\ UNCHANGED spawned
    /\ UNCHANGED <<checkerVars, flagVars, connVars, retry, attempt, serverVars,
                   register, applying, faults>>

ListenLeave(c) ==
    /\ listener[c] = "leaving"
    /\ running' = FALSE
    /\ listener' = [listener EXCEPT ![c] = "closing"]
    /\ UNCHANGED <<checkerVars, reconnecting, quit, connVars, retryVars, serverVars, streamVars,
                   register, applying, faults>>

(* (mutant: listen leaves without closing)                                 *)
LeaveOpen == UNCHANGED open

(* whatever t.conn is by now                                               *)
CloseConn == open' = open \ {conn}

(* (mutant: the loop goes on with Recv)                                    *)
ListenGoesOn(c) ==
    /\ listener[c] = "closing"
    /\ Unlocked
    /\ CloseConn
    /\ listener' = [listener EXCEPT ![c] = "recv"]
    /\ UNCHANGED <<checkerVars, flagVars, conn, retryVars, serverVars, streamVars, register, applying, faults>>

ListenClose(c) ==
    /\ listener[c] = "closing"
    /\ Unlocked
    /\ CloseConn
    /\ listener' = [listener EXCEPT ![c] = "gone"]
    /\ alive' = alive \ {c}
    /\ wire' = [wire EXCEPT ![c] = <<>>]
    /\ UNCHANGED <<checkerVars, flagVars, conn, retryVars, serverVars, register, applying, faults>>

(* setAndNotify: replace the map if the message differs, then trigger.     *)
Apply(m) ==
    /\ m \in applying
    /\ Unlocked
    /\ applying' = applying \ {m}
    /\ IF sent[m[2]] # healthInfoMap
       THEN healthInfoMap' = sent[m[2]] /\ owed' = TRUE
       ELSE UNCHANGED <<healthInfoMap, owed>>
    /\ UNCHANGED <<updateChan, flagVars, connVars, retryVars, serverVars, streamVars,
                   register, listener, faults>>

Trigger ==
    /\ owed
    /\ owed' = FALSE
    /\ updateChan' = 1
    /\ UNCHANGED <<healthInfoMap, flagVars, connVars, retryVars, serverVars, streamVars,
                   register, listener, applying, faults>>

Stop ==
    /\ ~quit
    /\ quit' = TRUE
    /\ UNCHANGED <<checkerVars, running, reconnecting, connVars, retryVars, serverVars, streamVars,
                   register, listener, applying, faults>>

(***************************************************************************)
(* The handler's receive, and the checker process (external).              *)
(***************************************************************************)

HandlerTakes ==
    /\ updateChan = 1
    /\ updateChan' = 0
    /\ UNCHANGED <<healthInfoMap, owed, flagVars, connVars, retryVars, serverVars, streamVars,
                   register, listener, applying, faults>>

ServerReports(r) ==
    /\ up
    /\ Len(sent) < MaxMessages
    /\ r # Latest
    /\ paced => /\ applying = {} /\ ~owed
                /\ \A c \in Conns : wire[c] = <<>>
    /\ sent' = Append(sent, r)
    /\ wire' = [c \in Conns |-> IF c \in alive THEN Append(wire[c], Len(sent) + 1) ELSE wire[c]]
    /\ UNCHANGED <<checkerVars, flagVars, connVars, retryVars, up, paced, outages, alive,
                   register, listener, applying, faults>>

ServerStops ==
    /\ up
    /\ outages < MaxOutages
    /\ outages' = outages + 1
    /\ up' = FALSE
    /\ alive' = {}
    /\ UNCHANGED <<checkerVars, flagVars, connVars, retryVars, sent, paced, wire,
                   register, listener, applying, faults>>

ServerStarts ==
    /\ ~up
    /\ up' = TRUE
    /\ UNCHANGED <<checkerVars, flagVars, connVars, retryVars, sent, paced, outages, streamVars,
                   register, listener, applying, faults>>

ClientStep ==
    \/ RegisterCheck \/ RegisterDial \/ RegisterStream \/ RegisterCommit
    \/ RetryBegin \/ RetryAttempt \/ RetryFinish
    \/ \E c \in Conns : Receive(c) \/ StreamEnds(c) \/ ListenLeave(c) \/ ListenClose(c)
    \/ \E m \in applying : Apply(m)
    \/ Trigger

Next ==
    \/ ClientStep \/ HandlerTakes \/ Stop
    \/ (\E r \in Reports : ServerReports(r)) \/ ServerStops \/ ServerStarts

(* Goroutines run and the network delivers; nothing makes the checker      *)
(* process report, stop or start, nor the plugin stop the client.          *)
Fairness ==
    /\ WF_vars(RegisterCheck) /\ WF_vars(RegisterDial)
    /\ WF_vars(RegisterStream) /\ WF_vars(RegisterCommit)
    /\ WF_vars(RetryBegin) /\ WF_vars(RetryAttempt) /\ WF_vars(RetryFinish)
    /\ \A c \in Conns : /\ WF_vars(Receive(c)) /\ WF_vars(StreamEnds(c))
                        /\ WF_vars(ListenLeave(c)) /\ WF_vars(ListenClose(c))
    /\ WF_vars(\E m \in applying : Apply(m))
    /\ WF_vars(Trigger)

Spec == Init /\ [][Next]_vars /\ Fairness

(***************************************************************************)
(* Properties                                                              *)
(***************************************************************************)

(* the messages on their way                                               *)
MessagesOK ==
    /\ sent \in Seq(Reports) /\ Len(sent) >= 1
    /\ wire \in [Conns -> Seq(1 .. Len(sent))]
    /\ applying \subseteq Conns \X (1 .. Len(sent))

FlagsOK ==
    /\ owed \in BOOLEAN /\ up \in BOOLEAN /\ paced \in BOOLEAN
    /\ running \in BOOLEAN /\ reconnecting \in BOOLEAN /\ quit \in BOOLEAN

(* and everything else                                                     *)
ControlOK ==
    /\ healthInfoMap \in Reports /\ updateChan \in {0, 1}
    /\ conn \in Conns \cup {NoConn} /\ open \subseteq Conns
    /\ register \in {"none", "check", "dial", "stream", "commit"}
    /\ retry \in {"none", "wait", "register", "finish"}
    /\ attempt \in 0 .. MaxReconnectAttempts + 1 /\ spawned \in Nat
    /\ listener \in [Conns -> {"none", "recv", "leaving", "closing", "gone"}]
    /\ alive \subseteq Conns
    /\ outages \in Nat /\ faults \in Nat

(* Type invariant: flags, connections and goroutines of SpyreHealthClient  *)
(* have one of their values, every message on its way is one that was      *)
(* made, and attemptReconnect makes no attempt too many.                   *)
ClientTypeOK == MessagesOK /\ FlagsOK /\ ControlOK

(* The client keeps the contract the handler is written against: what      *)
(* UpdateHealths answers changes only together with a debt, the debt is    *)
(* paid with a token, and no token appears or vanishes otherwise. A        *)
(* setAndNotify that returned between the two, or a second one that came   *)
(* in between, would leave the handler with an old report for ever.        *)
HC == INSTANCE HealthChecker WITH report <- healthInfoMap
ImplementsChecker == HC!CheckerSpec

(* However Start, the ends of streams and the reconnects interleave, at    *)
(* most one stream is listened to, and none while a reconnect is due: two  *)
(* would feed the map with two unordered series of reports.                *)
OneListener ==
    /\ \A c, d \in Conns : listener[c] = "recv" /\ listener[d] = "recv" => c = d
    /\ \A c \in Conns : listener[c] = "recv" => spawned = 0 /\ register = "none"

(* The only connection not closed is the one in t.conn: Register replaces  *)
(* it without closing, and every listen closes whatever it finds there, so *)
(* a listen that ends late closes its successor's and leaves its own.      *)
NoLeakedConn == open \subseteq {conn}

GaveUp == retry = "none" /\ attempt > MaxReconnectAttempts

(* Once the checker process has stopped changing and is up, the client     *)
(* ends up with the report in force, through every outage, reconnect and   *)
(* failed attempt, unless all attempts were used up or it was stopped. The *)
(* goroutines of messages that come closely may end in another order.      *)
LatestReported == <>[](\/ quit \/ ~up \/ GaveUp \/ ~paced
                       \/ healthInfoMap = Latest)
=============================================================================
