------------------------- MODULE HealthClientProofs -------------------------
(***************************************************************************)
(* The health client: type correctness, one listener, no leaked connection *)
(* and the step-by-step refinement of the checker's contract, for any      *)
(* number of connections, outages, faults and reconnect attempts.          *)
(***************************************************************************)
EXTENDS HealthClient, SequenceTheorems, TLAPS

(* The loop of attemptReconnect is within its bounds while it runs.        *)
AttemptInv == retry \in {"wait", "register"} => attempt \in 1 .. MaxReconnectAttempts

(* Register, a reconnect that is due or at work, and a stream listened to  *)
(* exclude each other: whoever ends hands over to at most one successor.   *)
TokenInv ==
    /\ spawned \in {0, 1}
    /\ register # "none" => spawned = 0 /\ retry \in {"none", "register"}
    /\ retry = "register" => register # "none"
    /\ retry = "wait" => spawned = 0
    /\ \A c \in Conns : listener[c] = "recv" =>
          spawned = 0 /\ register = "none" /\ retry \in {"none", "finish"}
    /\ \A c, d \in Conns : listener[c] = "recv" /\ listener[d] = "recv" => c = d

ClientInv == MessagesOK /\ FlagsOK /\ ControlOK /\ AttemptInv /\ TokenInv

(* What Returned leaves behind, whoever called Register.                   *)
After(ok) ==
    /\ register' = "none"
    /\ retry' \in {"none", "wait", "finish"}
    /\ retry' = "wait" => attempt' \in 1 .. MaxReconnectAttempts /\ spawned' = 0
    /\ attempt' \in 0 .. MaxReconnectAttempts + 1
    /\ spawned' \in {0, 1}
    /\ ok => spawned' = 0 /\ retry' \in {"none", "finish"}

LEMMA ReturnedInv ==
    ASSUME ClientInv, register # "none", NEW ok \in BOOLEAN, Returned(ok)
    PROVE  After(ok)
BY BoundsAssumption DEF ClientInv, ControlOK, AttemptInv, TokenInv, Returned, After, LastAttempt

LEMMA ClientInit == Init => ClientInv
<1> SUFFICES ASSUME Init PROVE ClientInv
  OBVIOUS
<1>1. MessagesOK
  <2>1. PICK r \in Reports : sent = <<r>>
    BY DEF Init
  <2>2. sent \in Seq(Reports) /\ Len(sent) = 1
    BY <2>1
  <2>3. wire \in [Conns -> Seq(1 .. Len(sent))]
    BY EmptySeq DEF Init
  <2>4. applying = {}
    BY DEF Init
  <2> QED  BY <2>2, <2>3, <2>4 DEF MessagesOK
<1>2. FlagsOK
  BY DEF Init, FlagsOK
<1>3. ControlOK
  <2>1. healthInfoMap \in Reports
    BY ReportsAssumption DEF Init
  <2>2. attempt = 0 /\ spawned = 0 /\ MaxReconnectAttempts \in Nat
    BY BoundsAssumption DEF Init
  <2> QED  BY <2>1, <2>2 DEF Init, ControlOK
<1> QED  BY <1>1, <1>2, <1>3 DEF Init, ClientInv, AttemptInv, TokenInv

(***************************************************************************)
(* Messages                                                                *)
(***************************************************************************)

(* Most steps take messages away, empty a stream or do nothing to them.    *)
LEMMA FewerMessages ==
    ASSUME MessagesOK, sent' = sent, applying' \subseteq applying,
           \/ wire' = wire
           \/ \E c \in Conns : wire' = [wire EXCEPT ![c] = <<>>]
    PROVE  MessagesOK'
<1>1. CASE wire' = wire
  BY <1>1 DEF MessagesOK
<1>2. CASE \E c \in Conns : wire' = [wire EXCEPT ![c] = <<>>]
  <2>1. <<>> \in Seq(1 .. Len(sent))
    BY EmptySeq
  <2>2. wire' \in [Conns -> Seq(1 .. Len(sent))]
    BY <1>2, <2>1 DEF MessagesOK
  <2> QED  BY <2>2 DEF MessagesOK
<1> QED  BY <1>1, <1>2

LEMMA FirstMessage ==
    ASSUME MessagesOK, NEW c \in Conns, UNCHANGED <<sent, applying>>,
           wire' = [wire EXCEPT ![c] = <<Len(sent)>>]
    PROVE  MessagesOK'
<1>1. Len(sent) \in 1 .. Len(sent)
  BY DEF MessagesOK
<1>2. <<Len(sent)>> \in Seq(1 .. Len(sent))
  BY <1>1
<1>3. wire' \in [Conns -> Seq(1 .. Len(sent))]
  BY <1>2 DEF MessagesOK
<1> QED  BY <1>3 DEF MessagesOK

LEMMA ReceiveMessages ==
    ASSUME MessagesOK, NEW c \in Conns, Receive(c)
    PROVE  MessagesOK'
<1>1. wire[c] \in Seq(1 .. Len(sent)) /\ wire[c] # <<>>
  BY DEF MessagesOK, Receive
<1>2. Head(wire[c]) \in 1 .. Len(sent) /\ Tail(wire[c]) \in Seq(1 .. Len(sent))
  BY <1>1, HeadTailProperties
<1>3. wire' \in [Conns -> Seq(1 .. Len(sent))]
  BY <1>2 DEF MessagesOK, Receive
<1>4. applying' \subseteq Conns \X (1 .. Len(sent))
  BY <1>2 DEF MessagesOK, Receive
<1>5. sent' = sent
  BY DEF Receive, serverVars
<1> QED  BY <1>3, <1>4, <1>5 DEF MessagesOK

LEMMA ReportMessages ==
    ASSUME MessagesOK, NEW r \in Reports, ServerReports(r)
    PROVE  MessagesOK'
<1>1. Len(sent') = Len(sent) + 1 /\ sent' \in Seq(Reports) /\ Len(sent) \in Nat
  BY AppendProperties DEF ServerReports, MessagesOK
<1>2. 1 .. Len(sent) \subseteq 1 .. Len(sent') /\ Len(sent) + 1 \in 1 .. Len(sent')
  BY <1>1
<1>3. \A c \in Conns : wire[c] \in Seq(1 .. Len(sent'))
  BY <1>2, SeqMonotonic DEF MessagesOK
<1>4. \A c \in Conns : Append(wire[c], Len(sent) + 1) \in Seq(1 .. Len(sent'))
  BY <1>2, <1>3, AppendProperties
<1>5. wire' \in [Conns -> Seq(1 .. Len(sent'))]
  BY <1>3, <1>4 DEF ServerReports
<1>6. applying' \subseteq Conns \X (1 .. Len(sent'))
  BY <1>2 DEF ServerReports, MessagesOK
<1> QED  BY <1>1, <1>5, <1>6 DEF MessagesOK

LEMMA MessagesNext ==
    ASSUME ClientInv, Next
    PROVE  MessagesOK'
<1> USE DEF ClientInv
<1>1. CASE RegisterStream
  <2>1. CASE conn \in open /\ wire' = [wire EXCEPT ![conn] = <<Len(sent)>>]
    <3>1. conn \in Conns /\ UNCHANGED <<sent, applying>>
      BY <1>1, <2>1 DEF ControlOK, RegisterStream, serverVars
    <3> QED  BY <2>1, <3>1, FirstMessage
  <2>2. CASE UNCHANGED streamVars
    BY <1>1, <2>2, FewerMessages DEF RegisterStream, streamVars, serverVars
  <2> QED  BY <1>1, <2>1, <2>2 DEF RegisterStream
<1>2. CASE \E c \in Conns : Receive(c)
  BY <1>2, ReceiveMessages
<1>3. CASE \E c \in Conns : StreamEnds(c) \/ ListenClose(c)
  BY <1>3, FewerMessages DEF StreamEnds, ListenClose, serverVars
<1>4. CASE \E r \in Reports : ServerReports(r)
  BY <1>4, ReportMessages
<1>5. CASE \E m \in applying : Apply(m)
  BY <1>5, FewerMessages DEF Apply, serverVars, streamVars
<1>6. CASE \/ RegisterCheck \/ RegisterDial \/ RegisterCommit
           \/ RetryBegin \/ RetryAttempt \/ RetryFinish
           \/ \E c \in Conns : ListenLeave(c)
           \/ Trigger \/ HandlerTakes \/ Stop \/ ServerStops \/ ServerStarts
  <2>1. UNCHANGED <<sent, wire, applying>>
    BY <1>6 DEF RegisterCheck, RegisterDial, RegisterCommit, RetryBegin, RetryAttempt, RetryFinish,
                ListenLeave, Trigger, HandlerTakes, Stop, ServerStops, ServerStarts,
                serverVars, streamVars
  <2> QED  BY <2>1, FewerMessages
<1> QED  BY <1>1, <1>2, <1>3, <1>4, <1>5, <1>6 DEF Next, ClientStep

(***************************************************************************)
(* Control                                                                 *)
(***************************************************************************)

(* A flag is set or cleared, never anything else.                          *)
LEMMA FlagsNext ==
    ASSUME ClientInv, Next
    PROVE  FlagsOK'
<1> USE DEF ClientInv, FlagsOK, checkerVars, flagVars, serverVars
<1>1. CASE RegisterCheck \/ RegisterDial \/ RegisterStream \/ RegisterCommit
  BY <1>1, Zenon DEF RegisterCheck, RegisterDial, RegisterStream, RegisterCommit
<1>2. CASE RetryBegin \/ RetryAttempt \/ RetryFinish
  BY <1>2, Zenon DEF RetryBegin, RetryAttempt, RetryFinish
<1>3. CASE \E c \in Conns : Receive(c) \/ StreamEnds(c) \/ ListenLeave(c) \/ ListenClose(c)
  BY <1>3, Zenon DEF Receive, StreamEnds, ListenLeave, ListenClose
<1>4. CASE \E m \in applying : Apply(m)
  BY <1>4, Zenon DEF Apply
<1>5. CASE Trigger \/ HandlerTakes \/ Stop
  BY <1>5, Zenon DEF Trigger, HandlerTakes, Stop
<1>6. CASE ServerStops \/ ServerStarts \/ \E r \in Reports : ServerReports(r)
  BY <1>6, Zenon DEF ServerStops, ServerStarts, ServerReports
<1> QED  BY <1>1, <1>2, <1>3, <1>4, <1>5, <1>6 DEF Next, ClientStep

Flow == ControlOK /\ AttemptInv /\ TokenInv

LEMMA RegisterFlow ==
    ASSUME ClientInv, RegisterCheck \/ RegisterDial \/ RegisterStream \/ RegisterCommit
    PROVE  Flow'
<1> USE DEF ClientInv, Flow
<1>1. CASE RegisterCheck
  <2>1. CASE \E ok \in BOOLEAN : Returned(ok) /\ faults' \in Nat
    <3>1. PICK ok \in BOOLEAN : Returned(ok) /\ faults' \in Nat
      BY <2>1
    <3>2. After(ok)
      BY <1>1, <3>1, ReturnedInv DEF RegisterCheck, After
    <3>3. ControlOK'
      BY <1>1, <3>1, <3>2
         DEF RegisterCheck, After, ControlOK, checkerVars, connVars, serverVars, streamVars
    <3>4. AttemptInv' /\ TokenInv'
      BY <1>1, <3>2 DEF RegisterCheck, After, AttemptInv, TokenInv
    <3> QED  BY <3>3, <3>4
  <2>2. CASE register' = "dial" /\ UNCHANGED <<retryVars, faults>>
    <3>1. ControlOK'
      BY <1>1, <2>2 DEF RegisterCheck, ControlOK, checkerVars, flagVars, connVars, retryVars,
                        serverVars, streamVars
    <3>2. AttemptInv' /\ TokenInv'
      BY <1>1, <2>2 DEF RegisterCheck, AttemptInv, TokenInv, retryVars
    <3> QED  BY <3>1, <3>2
  <2>3. \/ \E ok \in BOOLEAN : Returned(ok) /\ faults' \in {faults, faults + 1}
        \/ register' = "dial" /\ UNCHANGED <<retryVars, faults>>
    <3>1. TRUE \in BOOLEAN /\ FALSE \in BOOLEAN
      OBVIOUS
    <3> QED  BY <1>1, <3>1, Zenon DEF RegisterCheck
  <2>4. {faults, faults + 1} \subseteq Nat
    BY DEF ControlOK
  <2> QED  BY <2>1, <2>2, <2>3, <2>4
<1>2. CASE RegisterDial
  <2>1. ControlOK'
    BY <1>2 DEF RegisterDial, ControlOK, checkerVars, flagVars, retryVars, serverVars, streamVars
  <2>2. AttemptInv' /\ TokenInv'
    BY <1>2 DEF RegisterDial, AttemptInv, TokenInv, retryVars
  <2> QED  BY <2>1, <2>2
<1>3. CASE RegisterStream
  <2>1. CASE /\ conn \in open
             /\ alive' = alive \cup {conn}
             /\ register' = "commit"
             /\ UNCHANGED <<open, retryVars, faults>>
    <3>1. ControlOK'
      BY <1>3, <2>1 DEF RegisterStream, ControlOK, checkerVars, flagVars, retryVars, serverVars
    <3>2. AttemptInv' /\ TokenInv'
      BY <1>3, <2>1 DEF RegisterStream, AttemptInv, TokenInv, retryVars
    <3> QED  BY <3>1, <3>2
  <2>2. CASE Returned(FALSE) /\ open' = open \ {conn} /\ faults' \in Nat /\ UNCHANGED streamVars
    <3>1. After(FALSE)
      BY <1>3, <2>2, ReturnedInv DEF RegisterStream, After
    <3>2. ControlOK'
      BY <1>3, <2>2, <3>1
         DEF RegisterStream, After, ControlOK, checkerVars, serverVars, streamVars
    <3>3. AttemptInv' /\ TokenInv'
      BY <1>3, <3>1 DEF RegisterStream, After, AttemptInv, TokenInv
    <3> QED  BY <3>2, <3>3
  <2>3. {faults, faults + 1} \subseteq Nat
    BY DEF ControlOK
  <2> QED  BY <1>3, <2>1, <2>2, <2>3 DEF RegisterStream
<1>4. CASE RegisterCommit
  <2>1. After(TRUE)
    BY <1>4, ReturnedInv DEF RegisterCommit, After
  <2>2. listener' \in [Conns -> {"none", "recv", "leaving", "closing", "gone"}]
    BY <1>4 DEF RegisterCommit, ControlOK
  <2>3. ControlOK'
    BY <1>4, <2>1, <2>2
       DEF RegisterCommit, After, ControlOK, checkerVars, connVars, serverVars, streamVars
  <2>4. \A d \in Conns : listener'[d] = "recv" => d = conn
    BY <1>4 DEF RegisterCommit, ControlOK, TokenInv
  <2>5. AttemptInv' /\ TokenInv'
    BY <2>1, <2>4 DEF After, AttemptInv, TokenInv
  <2> QED  BY <2>3, <2>5
<1> QED  BY <1>1, <1>2, <1>3, <1>4

LEMMA RetryFlow ==
    ASSUME ClientInv, RetryBegin \/ RetryAttempt \/ RetryFinish
    PROVE  Flow'
<1> USE BoundsAssumption
    DEF ClientInv, Flow, ControlOK, checkerVars, flagVars, connVars, serverVars, streamVars
<1>1. CASE RetryBegin
  BY <1>1 DEF RetryBegin, AttemptInv, TokenInv
<1>2. CASE RetryAttempt
  BY <1>2 DEF RetryAttempt, AttemptInv, TokenInv
<1>3. CASE RetryFinish
  BY <1>3 DEF RetryFinish, AttemptInv, TokenInv
<1> QED  BY <1>1, <1>2, <1>3

LEMMA ListenFlow ==
    ASSUME ClientInv, NEW c \in Conns,
           Receive(c) \/ StreamEnds(c) \/ ListenLeave(c) \/ ListenClose(c)
    PROVE  Flow'
<1> USE DEF ClientInv, Flow
<1>1. ControlOK'
  BY DEF Receive, StreamEnds, ListenLeave, ListenClose, CloseConn, ControlOK, checkerVars, flagVars,
         connVars, retryVars, serverVars, streamVars
<1>2. CASE Receive(c) \/ ListenLeave(c) \/ ListenClose(c)
  <2>1. UNCHANGED <<retry, attempt, spawned, register>>
    BY <1>2 DEF Receive, ListenLeave, ListenClose, retryVars
  <2>2. \A d \in Conns : listener'[d] = "recv" => listener[d] = "recv"
    BY <1>2 DEF Receive, ListenLeave, ListenClose, ControlOK
  <2> QED  BY <1>1, <2>1, <2>2 DEF AttemptInv, TokenInv
<1>3. CASE StreamEnds(c)
  <2>1. \A d \in Conns : listener'[d] # "recv"
    BY <1>3 DEF StreamEnds, ControlOK, TokenInv
  <2>2. spawned' \in {0, 1} /\ UNCHANGED <<retry, attempt, register>>
    BY <1>3 DEF StreamEnds, TokenInv
  <2> QED  BY <1>1, <1>3, <2>1, <2>2 DEF StreamEnds, AttemptInv, TokenInv
<1> QED  BY <1>2, <1>3

LEMMA OtherFlow ==
    ASSUME ClientInv,
           \/ \E m \in applying : Apply(m)
           \/ \E r \in Reports : ServerReports(r)
           \/ Trigger \/ HandlerTakes \/ Stop \/ ServerStops \/ ServerStarts
    PROVE  Flow'
<1> USE DEF ClientInv, Flow
<1>1. ControlOK'
  <2> USE DEF ControlOK, checkerVars, flagVars, connVars, retryVars, serverVars, streamVars
  <2>1. CASE \E m \in applying : Apply(m)
    <3>1. PICK m \in applying : Apply(m)
      BY <2>1
    <3>2. sent[m[2]] \in Reports
      BY ElementOfSeq DEF MessagesOK
    <3> QED  BY <3>1, <3>2 DEF Apply
  <2>2. CASE Trigger \/ HandlerTakes \/ Stop
    BY <2>2 DEF Trigger, HandlerTakes, Stop
  <2>3. CASE ServerStops \/ ServerStarts \/ \E r \in Reports : ServerReports(r)
    BY <2>3 DEF ServerStops, ServerStarts, ServerReports
  <2> QED  BY <2>1, <2>2, <2>3
<1>2. UNCHANGED <<retryVars, register, listener>>
  BY DEF Apply, ServerReports, Trigger, HandlerTakes, Stop, ServerStops, ServerStarts
<1>3. AttemptInv' /\ TokenInv'
  BY <1>2 DEF AttemptInv, TokenInv, retryVars
<1> QED  BY <1>1, <1>3

LEMMA ClientNext ==
    ASSUME ClientInv, [Next]_vars
    PROVE  ClientInv'
<1>1. CASE UNCHANGED vars
  BY <1>1 DEF vars, ClientInv, MessagesOK, FlagsOK, ControlOK, AttemptInv, TokenInv, checkerVars, flagVars,
              connVars, retryVars, serverVars, streamVars
<1>2. CASE Next
  <2>1. Flow'
    <3>1. CASE RegisterCheck \/ RegisterDial \/ RegisterStream \/ RegisterCommit
      BY <3>1, RegisterFlow
    <3>2. CASE RetryBegin \/ RetryAttempt \/ RetryFinish
      BY <3>2, RetryFlow
    <3>3. CASE \E c \in Conns : Receive(c) \/ StreamEnds(c) \/ ListenLeave(c) \/ ListenClose(c)
      BY <3>3, ListenFlow
    <3>4. CASE \/ \E m \in applying : Apply(m)
               \/ \E r \in Reports : ServerReports(r)
               \/ Trigger \/ HandlerTakes \/ Stop \/ ServerStops \/ ServerStarts
      BY <3>4, OtherFlow
    <3> QED  BY <1>2, <3>1, <3>2, <3>3, <3>4 DEF Next, ClientStep
  <2> QED  BY <1>2, <2>1, MessagesNext, FlagsNext DEF ClientInv, Flow
<1> QED  BY <1>1, <1>2

LEMMA ClientInvariant == Spec => []ClientInv
<1>1. ClientInv /\ [Next]_vars => ClientInv'
  BY ClientNext
<1> QED  BY ClientInit, <1>1, PTL DEF Spec

(* Every variable of the client keeps to its set of values.                *)
THEOREM ClientTypeCorrect == Spec => []ClientTypeOK
<1>1. ClientInv => ClientTypeOK
  BY DEF ClientInv, ClientTypeOK
<1> QED  BY ClientInvariant, <1>1, PTL

(* At most one stream is listened to, and none while Register works or a   *)
(* reconnect is due, however the goroutines of Start, listen and           *)
(* attemptReconnect interleave.                                            *)
THEOREM ListensOnce == Spec => []OneListener
<1>1. ClientInv => OneListener
  BY DEF ClientInv, TokenInv, OneListener
<1> QED  BY ClientInvariant, <1>1, PTL

(***************************************************************************)
(* Connections                                                             *)
(***************************************************************************)

(* No old listen is about to close a connection while Register makes one,  *)
(* and an open one is being made, is in use or will be closed.             *)
ConnInv ==
    /\ open \subseteq {conn}
    /\ register \in {"dial", "stream", "commit"} =>
          \A c \in Conns : listener[c] \notin {"leaving", "closing"}
    /\ register = "dial" => open = {}
    /\ open # {} => \/ register \in {"stream", "commit"}
                    \/ listener[conn] \in {"recv", "leaving", "closing"}

LEMMA ConnInit == Init => ConnInv
BY DEF Init, ConnInv

LEMMA ConnNext ==
    ASSUME Prompt, ClientInv, ConnInv, [Next]_vars
    PROVE  ConnInv'
<1> USE DEF ClientInv, ConnInv
<1>1. CASE RegisterCheck
  <2>1. open = {} \/ register' = "none"
    BY <1>1 DEF RegisterCheck, Returned, TokenInv, ControlOK
  <2>2. register' \in {"none", "dial"} /\ UNCHANGED <<conn, open, listener>>
    BY <1>1 DEF RegisterCheck, Returned, connVars
  <2>3. open # {} => listener[conn] \in {"recv", "leaving", "closing"}
    BY <1>1 DEF RegisterCheck
  <2>4. \A c \in Conns : listener[c] \notin {"leaving", "closing"}
    BY <1>1 DEF RegisterCheck
  <2> QED  BY <2>1, <2>2, <2>3, <2>4
<1>2. CASE RegisterDial
  BY <1>2 DEF RegisterDial
<1>3. CASE RegisterStream
  <2>1. CASE register' = "commit" /\ UNCHANGED open
    BY <1>3, <2>1 DEF RegisterStream
  <2>2. CASE register' = "none" /\ open' = open \ {conn}
    BY <1>3, <2>2 DEF RegisterStream
  <2> QED  BY <1>3, <2>1, <2>2 DEF RegisterStream, Returned
<1>4. CASE RegisterCommit
  <2>1. register' = "none" /\ UNCHANGED <<conn, open>>
    BY <1>4 DEF RegisterCommit, Returned, connVars
  <2>2. open # {} => conn \in Conns
    BY DEF ControlOK
  <2>3. open # {} => listener'[conn] = "recv"
    BY <1>4, <2>2 DEF RegisterCommit, ControlOK
  <2> QED  BY <2>1, <2>3
<1>5. CASE RetryBegin \/ RetryFinish
  BY <1>5 DEF RetryBegin, RetryFinish, connVars
<1>6. CASE RetryAttempt
  <2>1. register' \in {register, "check"} /\ UNCHANGED <<conn, open, listener>>
    BY <1>6 DEF RetryAttempt, connVars
  <2>2. register = "none"
    BY <1>6 DEF RetryAttempt, TokenInv
  <2> QED  BY <2>1, <2>2
<1>7. ASSUME NEW c \in Conns,
             Receive(c) \/ StreamEnds(c) \/ ListenLeave(c) \/ ListenClose(c)
      PROVE  ConnInv'
  <2>1. register' = register /\ conn' = conn
    BY <1>7 DEF Receive, StreamEnds, ListenLeave, ListenClose, connVars
  <2>2. register \notin {"dial", "stream", "commit"}
    BY <1>7 DEF Receive, StreamEnds, ListenLeave, ListenClose, TokenInv
  <2>3. CASE Receive(c) \/ StreamEnds(c) \/ ListenLeave(c)
    <3>1. open' = open /\ (open # {} => conn \in Conns)
      BY <2>3 DEF Receive, StreamEnds, ListenLeave, connVars, ControlOK
    <3>2. \A d \in Conns : listener[d] \in {"recv", "leaving", "closing"} =>
              listener'[d] \in {"recv", "leaving", "closing"}
      BY <2>3 DEF Receive, StreamEnds, ListenLeave, ControlOK
    <3> QED  BY <2>1, <2>2, <3>1, <3>2
  <2>4. CASE ListenClose(c)
    BY <2>1, <2>2, <2>4 DEF ListenClose, CloseConn
  <2> QED  BY <1>7, <2>3, <2>4
<1>8. CASE \/ \E m \in applying : Apply(m)
           \/ \E r \in Reports : ServerReports(r)
           \/ Trigger \/ HandlerTakes \/ Stop \/ ServerStops \/ ServerStarts \/ UNCHANGED vars
  <2>1. UNCHANGED <<conn, open, register, listener>>
    BY <1>8 DEF Apply, ServerReports, Trigger, HandlerTakes, Stop, ServerStops, ServerStarts,
                vars, connVars
  <2> QED  BY <2>1
<1> QED  BY <1>1, <1>2, <1>3, <1>4, <1>5, <1>6, <1>7, <1>8 DEF Next, ClientStep

(* With prompt goroutines no connection is left open: each is closed by    *)
(* the listen that used it or by the Register that failed with it. It is   *)
(* the reason reconnecting for ever does not run out of sockets.           *)
THEOREM NoConnectionLeaks ==
    ASSUME Prompt
    PROVE  Spec => []NoLeakedConn
<1>1. ClientInv /\ ConnInv /\ [Next]_vars => ConnInv'
  BY ConnNext
<1>2. ConnInv => NoLeakedConn
  BY DEF ConnInv, NoLeakedConn
<1> QED  BY ConnInit, ClientInvariant, <1>1, <1>2, PTL DEF Spec

(***************************************************************************)
(* The contract of the checker                                             *)
(***************************************************************************)

(* Every step of the client is a step of the checker's contract or leaves  *)
(* what the handler sees alone: a report changes under the lock and leaves *)
(* a debt, a debt is paid with one token, nothing else makes a token.      *)
THEOREM RefinesChecker == Spec => HC!CheckerInit /\ [][HC!CheckerNext]_(HC!checkerVars)
<1>1. Init => HC!CheckerInit
  BY ReportsAssumption DEF Init, HC!CheckerInit
<1>2. ClientInv /\ [Next]_vars => [HC!CheckerNext]_(HC!checkerVars)
  <2> SUFFICES ASSUME ClientInv, [Next]_vars
               PROVE  [HC!CheckerNext]_(HC!checkerVars)
    OBVIOUS
  <2> USE DEF HC!CheckerNext, HC!checkerVars
  <2>1. ASSUME NEW m \in applying, Apply(m)
        PROVE  HC!CheckerNext \/ UNCHANGED HC!checkerVars
    <3>1. sent[m[2]] \in Reports
      <4>1. sent \in Seq(Reports) /\ m[2] \in 1 .. Len(sent)
        BY DEF ClientInv, MessagesOK
      <4> QED  BY <4>1, ElementOfSeq
    <3>2. CASE sent[m[2]] # healthInfoMap
      <4>1. HC!Change(sent[m[2]])
        BY <2>1, <3>1, <3>2 DEF Apply, Unlocked, HC!Change
      <4> QED  BY <3>1, <4>1
    <3>3. CASE sent[m[2]] = healthInfoMap
      BY <2>1, <3>3 DEF Apply
    <3> QED  BY <3>2, <3>3
  <2>2. CASE Trigger
    BY <2>2 DEF Trigger, HC!Trigger, HC!SafeTriggerUpdate
  <2>3. CASE HandlerTakes
    BY <2>3 DEF HandlerTakes, HC!Take
  <2>4. CASE \/ RegisterCheck \/ RegisterDial \/ RegisterStream \/ RegisterCommit
             \/ RetryBegin \/ RetryAttempt \/ RetryFinish \/ Stop \/ ServerStops \/ ServerStarts
             \/ UNCHANGED vars
    BY <2>4 DEF RegisterCheck, RegisterDial, RegisterStream, RegisterCommit, RetryBegin, RetryAttempt,
                RetryFinish, Stop, ServerStops, ServerStarts, vars, checkerVars
  <2>5. CASE \E c \in Conns : Receive(c) \/ StreamEnds(c) \/ ListenLeave(c) \/ ListenClose(c)
    BY <2>5 DEF Receive, StreamEnds, ListenLeave, ListenClose, checkerVars
  <2>6. CASE \E r \in Reports : ServerReports(r)
    BY <2>6 DEF ServerReports, checkerVars
  <2> QED  BY <2>1, <2>2, <2>3, <2>4, <2>5, <2>6 DEF Next, ClientStep
<1> QED  BY <1>1, <1>2, ClientInvariant, PTL DEF Spec
=============================================================================
