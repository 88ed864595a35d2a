-------------------------- MODULE TransportProofs --------------------------
(***************************************************************************)
(* What Transport promises for both transports and for every number of     *)
(* setup steps, timeouts, status messages and requests.                    *)
(***************************************************************************)
EXTENDS Transport, SequenceTheorems, TLAPS

\* Constants used as values of `deadline' and `op' have the type of these.
LEMMA IdleType == NoDeadline \in Nat /\ Idle \in Operations
BY DEF NoDeadline, Idle, Operations, Setup, Waiting

\* Reading the next message of the socket: it is a message, and messages remain.
LEMMA ReadType ==
  ASSUME TypeOK, inbox # <<>>
  PROVE  /\ Head(inbox) \in Responses
         /\ Head(inbox).req \in Nat
         /\ Tail(inbox) \in Seq(Responses)
<1>1. inbox \in Seq(Responses)
  BY DEF TypeOK
<1>2. Head(inbox) \in Responses /\ Tail(inbox) \in Seq(Responses)
  BY <1>1
<1>3. QED
  BY <1>2 DEF Responses

\* Sending keeps the counter, the socket and the pending operation well typed.
LEMMA SendType ==
  ASSUME TypeOK,
         NEW kind \in Waiting, NEW step \in Nat, NEW until \in Nat,
         Send(kind, step, until)
  PROVE  reqs' \in Nat /\ outbox' \in Seq(Nat) /\ op' \in Operations
<1>1. reqs' \in Nat /\ reqs + 1 \in Nat
  BY DEF TypeOK, Send
<1>2. outbox' \in Seq(Nat)
  BY <1>1 DEF TypeOK, Send
<1>3. op' \in Operations
  BY <1>1 DEF Send, Operations
<1>4. QED
  BY <1>1, <1>2, <1>3

\* A released socket is a well typed one.
LEMMA ReleaseType ==
  ASSUME ReleaseConnection
  PROVE  stream' \in {"none", "some"} /\ outbox' \in Seq(Nat) /\ inbox' \in Seq(Responses)
BY DEF ReleaseConnection

\* What follows a disconnect leaves a well typed transport.
LEMMA DisconnectedType ==
  ASSUME TypeOK, Disconnected
  PROVE  /\ state' \in ConnectionState /\ op' \in Operations /\ stream' \in {"none", "some"}
         /\ outbox' \in Seq(Nat) /\ inbox' \in Seq(Responses)
<1>1. [kind |-> "drain", step |-> 0, req |-> 0, until |-> NoDeadline] \in Operations
  BY IdleType DEF Operations
<1>2. ReleaseConnection
  BY DEF Disconnected, CloseEnds
<1>3. state' \in ConnectionState /\ op' \in Operations
  BY <1>1, IdleType DEF Disconnected, CloseEnds, TypeOK, ConnectionState
<1>4. QED
  BY <1>2, <1>3, ReleaseType

\* The state of the transport stays well typed: the lifecycle of lifecycle.rs
\* has no state outside ConnectionState and no deadline that is not an instant.
THEOREM TypeCorrect == Spec => []TypeOK
<1>1. Init => TypeOK
  BY IdleType DEF Init, TypeOK, ConnectionState
<1>2. TypeOK /\ [Next]_vars => TypeOK'
  <2> SUFFICES ASSUME TypeOK, [Next]_vars PROVE TypeOK'
    OBVIOUS
  <2> USE IdleType
  <2>1. CASE BeginConnect
    <3>1. op' \in Operations /\ budget' \in Nat
      BY <2>1, TransportAssumption DEF BeginConnect, TypeOK, Operations, Setup
    <3>2. QED
      BY <2>1, <3>1 DEF BeginConnect, TypeOK
  <2>2. CASE ConnectStepDone
    <3>1. op' \in Operations
      BY <2>2 DEF ConnectStepDone, TypeOK, Operations
    <3>2. deadline' \in Nat
      BY <2>2 DEF ConnectStepDone, TypeOK, Operations
    <3>3. QED
      BY <2>2, <3>1, <3>2 DEF ConnectStepDone, TypeOK, ConnectionState, history
  <2>3. CASE ConnectFailed \/ ConnectTimedOut
    BY <2>3 DEF ConnectFailed, ConnectTimedOut, TypeOK, history
  <2>4. CASE BeginLogin
    <3>1. reqs' \in Nat /\ outbox' \in Seq(Nat) /\ op' \in Operations
      BY <2>4, SendType DEF BeginLogin, TypeOK, Waiting
    <3>2. QED
      BY <2>4, <3>1 DEF BeginLogin, TypeOK, history
  <2>5. CASE LoginExchangeDone
    <3>1. answer' \in [to : Nat, from : Nat] /\ inbox' \in Seq(Responses)
      BY <2>5, ReadType DEF LoginExchangeDone, FinalAtHead, TypeOK, Operations
    <3>2. reqs' \in Nat /\ outbox' \in Seq(Nat) /\ op' \in Operations
      <4>1. CASE Send("login", op.step + 1, op.until)
        BY <4>1, SendType DEF TypeOK, Waiting, Operations
      <4>2. CASE op' = Idle /\ UNCHANGED <<outbox, reqs>>
        BY <4>2 DEF TypeOK
      <4>3. QED
        BY <2>5, <4>1, <4>2 DEF LoginExchangeDone
    <3>3. state' \in ConnectionState
      BY <2>5 DEF LoginExchangeDone, TypeOK, ConnectionState
    <3>4. QED
      BY <2>5, <3>1, <3>2, <3>3 DEF LoginExchangeDone, TypeOK, history
  <2>6. CASE LoginRejected
    <3>1. answer' \in [to : Nat, from : Nat]
      BY <2>6, ReadType DEF LoginRejected, FinalAtHead, TypeOK, Operations
    <3>2. /\ state' \in ConnectionState /\ stream' \in {"none", "some"}
          /\ outbox' \in Seq(Nat) /\ inbox' \in Seq(Responses)
      <4>1. CASE state' = "Closed" /\ ReleaseConnection
        BY <4>1, ReleaseType DEF ConnectionState
      <4>2. CASE inbox' = Tail(inbox) /\ UNCHANGED <<state, stream, outbox>>
        BY <2>6, <4>2, ReadType DEF LoginRejected, FinalAtHead, TypeOK
      <4>3. QED
        BY <2>6, <4>1, <4>2 DEF LoginRejected
    <3>3. QED
      BY <2>6, <3>1, <3>2 DEF LoginRejected, TypeOK, history
  <2>7. CASE LoginBroken \/ LoginTimedOut
    <3>1. CASE state' = "Closed" /\ ReleaseConnection
      BY <2>7, <3>1, ReleaseType DEF LoginBroken, LoginTimedOut, TypeOK, ConnectionState, history
    <3>2. CASE UNCHANGED <<state, stream, outbox, inbox>>
      BY <2>7, <3>2 DEF LoginBroken, LoginTimedOut, TypeOK, history
    <3>3. QED
      BY <2>7, <3>1, <3>2 DEF LoginBroken, LoginTimedOut, LoginErr
  <2>8. CASE BeginRequest \/ BeginClose
    <3>1. reqs' \in Nat /\ outbox' \in Seq(Nat) /\ op' \in Operations
      <4>1. CASE Send("request", 1, NoDeadline)
        BY <4>1, SendType DEF Waiting
      <4>2. CASE Send("disconnect", 1, NoDeadline)
        BY <4>2, SendType DEF Waiting
      <4>3. QED
        BY <2>8, <4>1, <4>2 DEF BeginRequest, BeginClose
    <3>2. QED
      BY <2>8, <3>1 DEF BeginRequest, BeginClose, TypeOK, history
  <2>9. CASE SkipStill
    BY <2>9, ReadType DEF SkipStill, TypeOK, history
  <2>10. CASE ReceiveResponse
    <3>1. answer' \in [to : Nat, from : Nat] /\ inbox' \in Seq(Responses)
      BY <2>10, ReadType DEF ReceiveResponse, FinalAtHead, TypeOK, Operations
    <3>2. QED
      BY <2>10, <3>1 DEF ReceiveResponse, TypeOK, history
  <2>11. CASE RequestBroken
    BY <2>11 DEF RequestBroken, TypeOK, history
  <2>12. CASE CloseDone
    <3>1. answer' \in [to : Nat, from : Nat]
      BY <2>12, ReadType DEF CloseDone, FinalAtHead, TypeOK, Operations
    <3>2. QED
      BY <2>12, <3>1, DisconnectedType DEF CloseDone, TypeOK, history
  <2>13. CASE CloseUnauthenticated
    BY <2>13, DisconnectedType DEF CloseUnauthenticated, TypeOK, history
  <2>20. CASE CloseDrained \/ CloseWithoutStream \/ LoginWithoutStream \/ Terminate
    BY <2>20, ReleaseType DEF CloseDrained, CloseWithoutStream, CloseEnds, LoginWithoutStream,
         Terminate, TypeOK, ConnectionState, history
  <2>21. CASE Abandon
    <3>1. slips' \subseteq Slip
      BY <2>21 DEF Abandon, TypeOK, Slip
    <3>2. QED
      BY <2>21, <3>1 DEF Abandon, TypeOK
  <2>22. CASE NativeLoginTakesStatus
    <3>1. answer' \in [to : Nat, from : Nat] /\ Tail(inbox) \in Seq(Responses)
      BY <2>22, ReadType DEF NativeLoginTakesStatus, TypeOK, Operations
    <3>2. slips' \subseteq Slip
      BY <2>22 DEF NativeLoginTakesStatus, TypeOK, Slip
    <3>3. UNCHANGED <<transport, deadline, peer, now, budget, spent>>
      BY <2>22 DEF NativeLoginTakesStatus
    <3>4. CASE /\ op' = Idle /\ state' = "Closed" /\ ReleaseConnection /\ UNCHANGED reqs
      BY <3>1, <3>2, <3>3, <3>4, ReleaseType DEF TypeOK, ConnectionState
    <3>5. CASE /\ op' = Idle /\ inbox' = Tail(inbox) /\ UNCHANGED <<state, stream, outbox>>
               /\ UNCHANGED reqs
      BY <3>1, <3>2, <3>3, <3>5 DEF TypeOK
    <3>6. CASE /\ inbox' = Tail(inbox) /\ Send("login", op.step + 1, op.until)
               /\ UNCHANGED <<state, stream>>
      <4>1. reqs' \in Nat /\ outbox' \in Seq(Nat) /\ op' \in Operations
        BY <3>6, SendType DEF TypeOK, Waiting, Operations
      <4>2. QED
        BY <3>1, <3>2, <3>3, <3>6, <4>1 DEF TypeOK
    <3>7. CASE /\ inbox' = Tail(inbox) /\ op' = Idle /\ state' = "Authenticated"
               /\ UNCHANGED <<stream, outbox, reqs>>
      BY <3>1, <3>2, <3>3, <3>7 DEF TypeOK, ConnectionState
    <3>8. QED
      BY <2>22, <3>4, <3>5, <3>6, <3>7 DEF NativeLoginTakesStatus
  <2>14. CASE ServerStillExecuting
    <3>1. [req |-> Head(outbox), kind |-> "still"] \in Responses
      BY <2>14 DEF ServerStillExecuting, TypeOK, Responses
    <3>2. QED
      BY <2>14, <3>1 DEF ServerStillExecuting, TypeOK, history
  <2>15. CASE ServerAnswers
    <3>1. PICK k \in {"ok", "error"} : inbox' = Append(inbox, [req |-> Head(outbox), kind |-> k])
      BY <2>15 DEF ServerAnswers
    <3>2. [req |-> Head(outbox), kind |-> k] \in Responses
      BY <2>15 DEF ServerAnswers, TypeOK, Responses
    <3>3. QED
      BY <2>15, <3>1, <3>2 DEF ServerAnswers, TypeOK, history
  <2>16. CASE PeerGone
    BY <2>16 DEF PeerGone, TypeOK, history
  <2>17. CASE Tick
    BY <2>17 DEF Tick, TypeOK
  <2>18. CASE UNCHANGED vars
    BY <2>18 DEF vars, history, TypeOK
  <2>19. QED
    BY <2>1, <2>2, <2>3, <2>4, <2>5, <2>6, <2>7, <2>8, <2>9, <2>10, <2>11, <2>12,
       <2>13, <2>14, <2>15, <2>16, <2>17, <2>18, <2>20, <2>21, <2>22 DEF Next, Client, Environment
<1>3. QED
  BY <1>1, <1>2, PTL DEF Spec

-----------------------------------------------------------------------------
(* Responses and requests.                                                 *)

\* When the final response is next, it is the last thing on the socket and it
\* answers the pending request.
LEMMA FinalIsAlone ==
  ASSUME TypeOK, OneOutstanding, FinalAtHead
  PROVE  Head(inbox).req = op.req /\ Tail(inbox) = <<>> /\ outbox = <<>>
<1>1. inbox \in Seq(Responses) /\ inbox # <<>> /\ Head(inbox).kind # "still"
  BY DEF TypeOK, FinalAtHead
<1>2. 1 \in DOMAIN inbox /\ Head(inbox) = inbox[1]
  BY <1>1
<1>3. inbox[1].req = op.req /\ 1 = Len(inbox) /\ outbox = <<>>
  BY <1>1, <1>2 DEF OneOutstanding
<1>4. Tail(inbox) \in Seq(Responses) /\ Len(Tail(inbox)) = 0
  BY <1>1, <1>3, HeadTailProperties
<1>5. QED
  BY <1>2, <1>3, <1>4, EmptySeq

\* A request sent on a quiet socket is the only one on it.
LEMMA SendAlone ==
  ASSUME TypeOK, outbox = <<>>, inbox' = <<>>, peer' = peer,
         NEW kind \in Waiting, NEW step, NEW until, Send(kind, step, until)
  PROVE  OneOutstanding'
<1>1. op'.req = reqs + 1 /\ op'.kind \in Waiting
  BY DEF Send
<1>2. outbox' = IF peer = "up" THEN <<reqs + 1>> ELSE <<>>
  BY DEF TypeOK, Send
<1>3. peer' = "gone" => outbox' = <<>>
  BY <1>2
<1>4. Len(outbox') <= 1 /\ \A i \in DOMAIN outbox' : outbox'[i] = reqs + 1
  BY <1>2 DEF TypeOK
<1>5. QED
  BY <1>1, <1>3, <1>4 DEF OneOutstanding, QuietWhenIdle

\* An empty socket is quiet whatever the operation.
LEMMA EmptyIsQuiet ==
  ASSUME outbox' = <<>>, inbox' = <<>>
  PROVE  OneOutstanding'
BY DEF OneOutstanding, QuietWhenIdle

\* A step that keeps the socket and the pending operation keeps OneOutstanding.
LEMMA SocketUntouched ==
  ASSUME OneOutstanding, UNCHANGED <<outbox, inbox, op>>, peer' = peer \/ outbox = <<>>
  PROVE  OneOutstanding'
BY DEF OneOutstanding, QuietWhenIdle

\* Steps that take nothing from the wrong exchange: while the socket is in step
\* after the step it was so before it, and the step is no dropped future that
\* waits and no native login that takes a status message.
LEMMA SlipsOnlyGrow ==
  ASSUME TypeOK, [Next]_vars, InStep'
  PROVE  InStep /\ ~NativeLoginTakesStatus /\ (Abandon => op.kind \notin Waiting)
<1>1. slips \subseteq slips'
  BY DEF Next, Client, Environment, vars, history, BeginConnect, ConnectStepDone, ConnectFailed,
       ConnectTimedOut, BeginLogin, LoginExchangeDone, NativeLoginTakesStatus, LoginRejected,
       LoginBroken, LoginTimedOut, LoginWithoutStream, BeginRequest, SkipStill, ReceiveResponse,
       RequestBroken, BeginClose, CloseDone, CloseUnauthenticated, CloseDrained,
       CloseWithoutStream, Terminate, Abandon, ServerStillExecuting, ServerAnswers, PeerGone, Tick
<1>2. NativeLoginTakesStatus => "status" \in slips'
  BY DEF NativeLoginTakesStatus
<1>3. Abandon /\ op.kind \in Waiting => "dropped" \in slips'
  BY DEF Abandon
<1>4. "status" \notin slips' /\ "dropped" \notin slips'
  BY DEF InStep
<1>5. QED
  BY <1>1, <1>2, <1>3, <1>4 DEF InStep

\* The answer an operation is given is the answer to its own request until a
\* caller drops a future that waits for one or a native login takes a "still
\* executing" message for its answer: no login that is rejected or times out, no
\* close and no terminate leaves a response for send_and_fill_buf or send_receive.
THEOREM ResponsesAlwaysMatch == Spec => [](OneWhileInStep /\ MatchWhileInStep)
<1> DEFINE Inv == OneWhileInStep /\ MatchWhileInStep
<1>1. Init => Inv
  BY DEF Init, OneWhileInStep, MatchWhileInStep, OneOutstanding, QuietWhenIdle, ResponsesMatch
<1>2. TypeOK /\ Inv /\ [Next]_vars => Inv'
  <2> SUFFICES ASSUME TypeOK, OneWhileInStep, MatchWhileInStep, [Next]_vars, InStep'
               PROVE  OneOutstanding' /\ ResponsesMatch'
    BY DEF OneWhileInStep, MatchWhileInStep
  <2>0. InStep /\ ~NativeLoginTakesStatus /\ (Abandon => op.kind \notin Waiting)
    BY SlipsOnlyGrow
  <2>inv. OneOutstanding /\ ResponsesMatch
    BY <2>0 DEF OneWhileInStep, MatchWhileInStep
  <2> USE <2>inv
  <2>a. op = Idle \/ op.kind = "connect" => outbox = <<>> /\ inbox = <<>>
    BY DEF OneOutstanding, QuietWhenIdle, Idle, Waiting
  <2>b. ReadFails => outbox = <<>> /\ inbox = <<>>
    BY DEF OneOutstanding, ReadFails
  <2>1. CASE BeginConnect \/ ConnectStepDone \/ ConnectFailed \/ ConnectTimedOut
    <3>1. outbox' = <<>> /\ inbox' = <<>> /\ answer' = answer
      BY <2>1, <2>a DEF BeginConnect, ConnectStepDone, ConnectFailed, ConnectTimedOut
    <3>2. QED
      BY <3>1, EmptyIsQuiet DEF ResponsesMatch
  <2>2. CASE BeginLogin \/ BeginRequest \/ BeginClose
    <3>1. outbox = <<>> /\ inbox' = <<>> /\ peer' = peer /\ answer' = answer
      BY <2>2, <2>a DEF BeginLogin, BeginRequest, BeginClose
    <3>2. OneOutstanding'
      BY <2>2, <3>1, SendAlone DEF BeginLogin, BeginRequest, BeginClose, Waiting
    <3>3. QED
      BY <3>1, <3>2 DEF ResponsesMatch
  <2>3. CASE LoginExchangeDone
    <3>1. outbox = <<>> /\ inbox' = <<>> /\ peer' = peer
      BY <2>3, FinalIsAlone DEF LoginExchangeDone
    <3>2. answer' = [to |-> op.req, from |-> op.req]
      BY <2>3, FinalIsAlone DEF LoginExchangeDone
    <3>3. OneOutstanding'
      <4>1. CASE Send("login", op.step + 1, op.until)
        BY <3>1, <4>1, SendAlone DEF Waiting
      <4>2. CASE UNCHANGED <<outbox, reqs>>
        BY <3>1, <4>2, EmptyIsQuiet
      <4>3. QED
        BY <2>3, <4>1, <4>2 DEF LoginExchangeDone
    <3>4. QED
      BY <3>2, <3>3 DEF ResponsesMatch
  <2>4. CASE LoginRejected \/ ReceiveResponse
    <3>1. outbox' = <<>> /\ inbox' = <<>>
      BY <2>4, FinalIsAlone DEF LoginRejected, ReceiveResponse, ReleaseConnection
    <3>2. answer' = [to |-> op.req, from |-> op.req]
      BY <2>4, FinalIsAlone DEF LoginRejected, ReceiveResponse
    <3>3. QED
      BY <3>1, <3>2, EmptyIsQuiet DEF ResponsesMatch
  <2>5. CASE LoginBroken \/ LoginTimedOut \/ RequestBroken
    <3>1. outbox' = <<>> /\ inbox' = <<>> /\ answer' = answer
      BY <2>5, <2>b DEF LoginBroken, LoginTimedOut, RequestBroken, LoginErr, ReleaseConnection
    <3>2. QED
      BY <3>1, EmptyIsQuiet DEF ResponsesMatch
  <2>6. CASE SkipStill
    <3>1. inbox' = Tail(inbox) /\ inbox # <<>> /\ inbox \in Seq(Responses)
      BY <2>6 DEF SkipStill, TypeOK
    <3>2. \A i \in DOMAIN inbox' : i + 1 \in DOMAIN inbox /\ inbox'[i] = inbox[i + 1]
      BY <3>1
    <3>3. Len(inbox') = Len(inbox) - 1
      BY <3>1
    <3>4. op.kind \in Waiting /\ UNCHANGED <<outbox, op, peer, answer>>
      BY <2>6 DEF SkipStill
    <3>5. \A i \in DOMAIN inbox' : inbox'[i].req = op.req
      BY <3>2 DEF OneOutstanding
    <3>6. \A i \in DOMAIN inbox' : inbox'[i].kind # "still" => i = Len(inbox') /\ outbox = <<>>
      <4> SUFFICES ASSUME NEW i \in DOMAIN inbox', inbox'[i].kind # "still"
                   PROVE  i = Len(inbox') /\ outbox = <<>>
        OBVIOUS
      <4>1. i + 1 = Len(inbox) /\ outbox = <<>>
        BY <3>2 DEF OneOutstanding
      <4>2. i \in Nat /\ Len(inbox) \in Nat
        BY <3>1
      <4>3. QED
        BY <4>1, <4>2, <3>3
    <3>7. QED
      BY <3>4, <3>5, <3>6 DEF OneOutstanding, QuietWhenIdle, ResponsesMatch
  <2>7. CASE CloseDone
    <3>1. answer'.from = answer'.to
      BY <2>7, FinalIsAlone DEF CloseDone, ResponsesMatch
    <3>2. ReleaseConnection
      BY <2>7 DEF CloseDone, Disconnected, CloseEnds
    <3>3. QED
      BY <3>1, <3>2, EmptyIsQuiet DEF ReleaseConnection, ResponsesMatch
  <2>8. CASE CloseUnauthenticated \/ CloseDrained \/ CloseWithoutStream \/ LoginWithoutStream
             \/ Terminate
    <3>1. ReleaseConnection /\ answer' = answer
      BY <2>8 DEF CloseUnauthenticated, Disconnected, CloseDrained, CloseWithoutStream, CloseEnds,
           LoginWithoutStream, Terminate
    <3>2. QED
      BY <3>1, EmptyIsQuiet DEF ReleaseConnection, ResponsesMatch
  <2>9. CASE Abandon
    <3>1. outbox' = <<>> /\ inbox' = <<>> /\ answer' = answer
      BY <2>0, <2>9 DEF Abandon, OneOutstanding, QuietWhenIdle
    <3>2. QED
      BY <3>1, EmptyIsQuiet DEF ResponsesMatch
  <2>10. CASE ServerStillExecuting
    <3> DEFINE m == [req |-> Head(outbox), kind |-> "still"]
    <3>1. outbox # <<>> /\ inbox' = Append(inbox, m) /\ UNCHANGED <<outbox, op, peer, answer>>
      BY <2>10 DEF ServerStillExecuting
    <3>2. QED
      BY <3>1 DEF OneOutstanding, QuietWhenIdle, ResponsesMatch, TypeOK
  <2>11. CASE ServerAnswers
    <3>1. PICK k \in {"ok", "error"} : inbox' = Append(inbox, [req |-> Head(outbox), kind |-> k])
      BY <2>11 DEF ServerAnswers
    <3> DEFINE m == [req |-> Head(outbox), kind |-> k]
    <3>2. outbox # <<>> /\ outbox' = Tail(outbox) /\ UNCHANGED <<op, peer, answer>>
      BY <2>11 DEF ServerAnswers
    <3>3. outbox' = <<>> /\ m.req = op.req
      BY <3>2 DEF OneOutstanding, TypeOK
    <3>4. QED
      BY <3>1, <3>2, <3>3 DEF OneOutstanding, QuietWhenIdle, ResponsesMatch, TypeOK
  <2>12. CASE PeerGone
    BY <2>12 DEF PeerGone, OneOutstanding, QuietWhenIdle, ResponsesMatch
  <2>13. CASE Tick
    BY <2>13, SocketUntouched DEF Tick, ResponsesMatch
  <2>14. CASE UNCHANGED vars
    BY <2>14, SocketUntouched DEF vars, ResponsesMatch
  <2>15. QED
    BY <2>0, <2>1, <2>2, <2>3, <2>4, <2>5, <2>6, <2>7, <2>8, <2>9, <2>10, <2>11, <2>12,
       <2>13, <2>14 DEF Next, Client, Environment
<1>3. QED
  BY <1>1, <1>2, TypeCorrect, PTL DEF Spec

-----------------------------------------------------------------------------
(* The lifecycle and the setup deadline.                                   *)

\* Every operation runs in the state its guard asked for until it ends, dropped
\* futures included, and one that passed its guard on a socket never finds that
\* socket gone.  A transport that is not open holds no socket; an open one holds
\* it except during a WebSocket close handshake and after a dropped one, so that a
\* native transport has a socket exactly while it is open.
THEOREM PhasesHold ==
  Spec => [](PhaseInv /\ StreamInv /\ (transport = "native" => (Open <=> stream = "some")))
<1>1. Init => PhaseInv
  BY DEF Init, PhaseInv, StreamInv, Open, Idle, Waiting
<1>2. TypeOK /\ PhaseInv /\ [Next]_vars => PhaseInv'
  <2> SUFFICES ASSUME TypeOK, PhaseInv, [Next]_vars PROVE PhaseInv'
    OBVIOUS
  <2> USE DEF PhaseInv, StreamInv, Open, Waiting
  <2>1. CASE BeginConnect
    BY <2>1 DEF BeginConnect, Idle
  <2>2. CASE ConnectStepDone
    BY <2>2 DEF ConnectStepDone, Idle, history
  <2>3. CASE ConnectFailed \/ ConnectTimedOut \/ RequestBroken
    BY <2>3 DEF ConnectFailed, ConnectTimedOut, RequestBroken, Idle, history
  <2>4. CASE BeginLogin
    BY <2>4 DEF BeginLogin, Send, Idle, history
  <2>5. CASE LoginExchangeDone
    <3>1. CASE Send("login", op.step + 1, op.until) /\ UNCHANGED state
      BY <2>5, <3>1 DEF LoginExchangeDone, Send, history
    <3>2. CASE op' = Idle /\ state' = "Authenticated"
      BY <2>5, <3>2 DEF LoginExchangeDone, Idle, history
    <3>3. QED
      BY <2>5, <3>1, <3>2 DEF LoginExchangeDone
  <2>6. CASE LoginRejected
    BY <2>6 DEF LoginRejected, ReleaseConnection, Idle, history
  <2>7. CASE LoginBroken \/ LoginTimedOut
    BY <2>7 DEF LoginBroken, LoginTimedOut, LoginErr, ReleaseConnection, Idle, history
  <2>8. CASE BeginRequest \/ BeginClose
    BY <2>8 DEF BeginRequest, BeginClose, Send, Idle, history
  <2>9. CASE SkipStill \/ ReceiveResponse
    BY <2>9 DEF SkipStill, ReceiveResponse, Idle, history
  <2>10. CASE CloseDone \/ CloseUnauthenticated
    <3>1. state \in {"Connected", "Authenticated"} /\ UNCHANGED <<transport, deadline, slips>>
      BY <2>10 DEF CloseDone, CloseUnauthenticated, history
    <3>2. Disconnected
      BY <2>10 DEF CloseDone, CloseUnauthenticated
    <3>3. QED
      BY <3>1, <3>2 DEF Disconnected, CloseEnds, ReleaseConnection, Idle
  <2>11. CASE CloseDrained \/ CloseWithoutStream \/ LoginWithoutStream \/ Terminate
    <3>1. state' \in {"Closed", "Terminated"} /\ stream' = "none" /\ op' = Idle
          /\ UNCHANGED <<transport, slips>>
      BY <2>11 DEF CloseDrained, CloseWithoutStream, CloseEnds, LoginWithoutStream, Terminate,
           ReleaseConnection, history
    <3>2. QED
      BY <3>1 DEF Idle
  <2>12. CASE Abandon
    <3>1. op' = Idle /\ UNCHANGED <<transport, state, deadline, stream>>
      BY <2>12 DEF Abandon
    <3>2. /\ op.kind = "drain" => "close" \in slips'
          /\ "close" \in slips => "close" \in slips'
          /\ "close" \in slips' => op.kind = "drain" \/ "close" \in slips
      BY <2>12 DEF Abandon
    <3>3. QED
      BY <3>1, <3>2 DEF Idle
  <2>13. CASE NativeLoginTakesStatus
    <3>1. transport' = transport /\ deadline' = deadline /\ ("close" \in slips' => "close" \in slips)
          /\ ("close" \in slips => "close" \in slips')
      BY <2>13 DEF NativeLoginTakesStatus
    <3>2. state = "Connected" /\ stream = "some" /\ op.until = deadline
      BY <2>13 DEF NativeLoginTakesStatus
    <3>3. CASE op' = Idle /\ state' = "Closed" /\ ReleaseConnection
      BY <3>1, <3>3 DEF ReleaseConnection, Idle
    <3>4. CASE op' = Idle /\ state' \in {state, "Authenticated"} /\ UNCHANGED stream
      BY <3>1, <3>2, <3>4 DEF Idle
    <3>5. CASE Send("login", op.step + 1, op.until) /\ UNCHANGED <<state, stream>>
      BY <3>1, <3>2, <3>5 DEF Send
    <3>6. QED
      BY <2>13, <3>3, <3>4, <3>5 DEF NativeLoginTakesStatus
  <2>14. CASE ServerStillExecuting \/ ServerAnswers \/ PeerGone \/ Tick
    BY <2>14 DEF ServerStillExecuting, ServerAnswers, PeerGone, Tick, history
  <2>15. CASE UNCHANGED vars
    BY <2>15 DEF vars, history
  <2>16. QED
    BY <2>1, <2>2, <2>3, <2>4, <2>5, <2>6, <2>7, <2>8, <2>9, <2>10, <2>11, <2>12,
       <2>13, <2>14, <2>15 DEF Next, Client, Environment
<1>3. PhaseInv => StreamInv /\ (transport = "native" => (Open <=> stream = "some"))
  BY DEF PhaseInv, StreamInv
<1>4. QED
  BY <1>1, <1>2, <1>3, TypeCorrect, PTL DEF Spec

\* The deadline moves only when a connect() that succeeds stores it: no retried
\* login restarts the connection timeout.
THEOREM DeadlineNeverMoves == Spec => DeadlineFixed
<1>1. PhaseInv /\ [Next]_vars => [deadline # NoDeadline => deadline' = deadline]_vars
  <2> SUFFICES ASSUME PhaseInv, [Next]_vars, deadline # NoDeadline
               PROVE  deadline' = deadline
    OBVIOUS
  <2>1. CASE ConnectStepDone
    BY <2>1 DEF ConnectStepDone, PhaseInv
  <2>2. CASE BeginConnect \/ ConnectFailed \/ ConnectTimedOut \/ BeginLogin
    BY <2>2 DEF BeginConnect, ConnectFailed, ConnectTimedOut, BeginLogin
  <2>3. CASE LoginExchangeDone \/ NativeLoginTakesStatus \/ LoginRejected \/ LoginBroken
             \/ LoginTimedOut \/ LoginWithoutStream
    BY <2>3 DEF LoginExchangeDone, NativeLoginTakesStatus, LoginRejected, LoginBroken,
         LoginTimedOut, LoginWithoutStream
  <2>4. CASE BeginRequest \/ SkipStill \/ ReceiveResponse \/ RequestBroken
    BY <2>4 DEF BeginRequest, SkipStill, ReceiveResponse, RequestBroken
  <2>5. CASE BeginClose \/ CloseDone \/ CloseUnauthenticated \/ CloseDrained
             \/ CloseWithoutStream \/ Terminate \/ Abandon
    BY <2>5 DEF BeginClose, CloseDone, CloseUnauthenticated, CloseDrained, CloseWithoutStream,
         Terminate, Abandon
  <2>6. CASE Environment
    BY <2>6 DEF Environment, ServerStillExecuting, ServerAnswers, PeerGone, Tick
  <2>7. CASE UNCHANGED vars
    BY <2>7 DEF vars
  <2>8. QED
    BY <2>1, <2>2, <2>3, <2>4, <2>5, <2>6, <2>7 DEF Next, Client
<1>2. QED
  BY <1>1, PhasesHold, PTL DEF Spec, DeadlineFixed

\* Once closed or terminated, a transport sends nothing, and only a terminate()
\* changes its state: begin_connect and require() refuse everything else.
THEOREM EndNeverUndone == Spec => EndIsFinal
<1>1. TypeOK /\ PhaseInv /\ [Next]_vars =>
        [(state \in {"Closed", "Terminated"}) =>
            (reqs' = reqs /\ state' \in {state, "Terminated"})]_vars
  <2> SUFFICES ASSUME TypeOK, PhaseInv, [Next]_vars, state \in {"Closed", "Terminated"}
               PROVE  reqs' = reqs /\ state' \in {state, "Terminated"}
    OBVIOUS
  <2>1. op.kind \notin {"connect", "login", "request", "disconnect", "drain"} /\ ~Open
    BY DEF PhaseInv, Open
  <2>2. CASE Terminate
    BY <2>2 DEF Terminate
  <2>3. CASE Abandon \/ SkipStill \/ Environment
    BY <2>3 DEF Abandon, SkipStill, Environment, ServerStillExecuting, ServerAnswers, PeerGone, Tick
  <2>4. CASE UNCHANGED vars
    BY <2>4 DEF vars
  <2>5. CASE Client /\ ~Terminate /\ ~Abandon /\ ~SkipStill
    BY <2>1, <2>5 DEF Client, BeginConnect, ConnectStepDone, ConnectFailed, ConnectTimedOut,
         BeginLogin, LoginExchangeDone, NativeLoginTakesStatus, LoginRejected, LoginBroken,
         LoginTimedOut, LoginWithoutStream, BeginRequest, ReceiveResponse, RequestBroken,
         BeginClose, CloseDone, CloseUnauthenticated, CloseDrained, CloseWithoutStream
  <2>6. QED
    BY <2>2, <2>3, <2>4, <2>5 DEF Next
<1>2. QED
  BY <1>1, TypeCorrect, PhasesHold, PTL DEF Spec, EndIsFinal

\* connect() and all the logins after it together wait at most the configured
\* connection timeout, for every timeout and every number of retries.
THEOREM SetupStaysWithinBudget == Spec => []SetupWithinBudget
<1>1. Init => BudgetInv
  BY DEF Init, BudgetInv, SetupWithinBudget, Idle
<1>2. TypeOK /\ PhaseInv /\ BudgetInv /\ [Next]_vars => BudgetInv'
  <2> SUFFICES ASSUME TypeOK, PhaseInv, BudgetInv, [Next]_vars PROVE BudgetInv'
    OBVIOUS
  <2>0. /\ spent \in Nat /\ budget \in Nat /\ now \in Nat /\ deadline \in Nat
        /\ op.until \in Nat
    BY DEF TypeOK, Operations
  <2>1. CASE BeginConnect
    <3>1. PICK t \in Timeouts : op' = [kind |-> "connect", step |-> 1, req |-> 0, until |-> now + t]
                                /\ budget' = t
      BY <2>1 DEF BeginConnect
    <3>2. spent' = 0 /\ now' = now /\ deadline' = NoDeadline /\ t \in Nat
      BY <2>1, TransportAssumption DEF BeginConnect, PhaseInv
    <3>3. QED
      BY <2>0, <3>1, <3>2 DEF BudgetInv, SetupWithinBudget
  <2>2. CASE ConnectStepDone
    <3>1. deadline = NoDeadline
      BY <2>2 DEF ConnectStepDone, PhaseInv
    <3>2. QED
      BY <2>0, <2>2, <3>1 DEF ConnectStepDone, BudgetInv, SetupWithinBudget, Idle, history
  <2>3. CASE Tick
    <3>1. CASE op.kind \in Setup
      <4>1. now < op.until /\ now' = now + 1 /\ spent' = spent + 1 /\ UNCHANGED <<op, deadline, budget>>
        BY <2>0, <2>3, <3>1 DEF Tick, Elapsed
      <4>2. CASE op.kind = "connect"
        <5>1. deadline = NoDeadline
          BY <4>2 DEF PhaseInv
        <5>2. QED
          BY <2>0, <4>1, <4>2, <5>1 DEF BudgetInv, SetupWithinBudget
      <4>3. CASE op.kind = "login"
        <5>1. op.until = deadline
          BY <4>3 DEF PhaseInv
        <5>2. CASE deadline = NoDeadline
          BY <2>0, <4>1, <5>1, <5>2 DEF NoDeadline
        <5>3. CASE deadline # NoDeadline
          BY <2>0, <4>1, <4>3, <5>1, <5>3 DEF BudgetInv, SetupWithinBudget
        <5>4. QED
          BY <5>2, <5>3
      <4>4. QED
        BY <3>1, <4>2, <4>3 DEF Setup
    <3>2. CASE op.kind \notin Setup
      BY <2>0, <2>3, <3>2 DEF Tick, BudgetInv, SetupWithinBudget, Setup
    <3>3. QED
      BY <3>1, <3>2
  <2>4. CASE Next /\ ~BeginConnect /\ ~ConnectStepDone /\ ~Tick
    <3>1. UNCHANGED <<spent, budget, now, deadline>>
      BY <2>4 DEF Next, Client, Environment, history, ConnectFailed, ConnectTimedOut,
           BeginLogin, LoginExchangeDone, NativeLoginTakesStatus, LoginRejected, LoginBroken,
           LoginTimedOut, LoginWithoutStream, BeginRequest, SkipStill, ReceiveResponse,
           RequestBroken, BeginClose, CloseDone, CloseUnauthenticated, Disconnected, CloseDrained,
           CloseWithoutStream, CloseEnds, Terminate, Abandon, ServerStillExecuting, ServerAnswers,
           PeerGone
    <3>2. op'.kind = "connect" => UNCHANGED op
      BY <2>4 DEF Next, Client, Environment, Send, Idle, ConnectFailed, ConnectTimedOut,
           BeginLogin, LoginExchangeDone, NativeLoginTakesStatus, LoginRejected, LoginBroken,
           LoginTimedOut, LoginWithoutStream, BeginRequest, SkipStill, ReceiveResponse,
           RequestBroken, BeginClose, CloseDone, CloseUnauthenticated, Disconnected, CloseDrained,
           CloseWithoutStream, CloseEnds, Terminate, Abandon, ServerStillExecuting, ServerAnswers,
           PeerGone
    <3>3. QED
      BY <3>1, <3>2 DEF BudgetInv, SetupWithinBudget
  <2>5. CASE UNCHANGED vars
    BY <2>5 DEF vars, history, BudgetInv, SetupWithinBudget
  <2>6. QED
    BY <2>1, <2>2, <2>3, <2>4, <2>5
<1>3. BudgetInv => SetupWithinBudget
  BY DEF BudgetInv
<1>4. QED
  BY <1>1, <1>2, <1>3, TypeCorrect, PhasesHold, PTL DEF Spec
=============================================================================
