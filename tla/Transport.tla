----------------------------- MODULE Transport -----------------------------
(***************************************************************************)
(* One transport connection to Exasol: the lifecycle that the native and   *)
(* the WebSocket transport share (src/src/transport/lifecycle.rs), the     *)
(* setup deadline (deadline.rs), and the request/response exchange that    *)
(* every operation runs on the one socket (native/mod.rs, websocket.rs).   *)
(*                                                                         *)
(* A response carries no usable request id: both transports take the next  *)
(* message on the socket for the answer to the request just sent.  `inbox' *)
(* and `outbox' are the two directions of the socket; every message is     *)
(* tagged with the request it belongs to, a tag the code does not have, so *)
(* that a property can tell whose answer an operation was given.           *)
(*                                                                         *)
(* The two transports differ in three places, and `transport' says which   *)
(* one this is: the exchanges of a login, what a login does with a "still  *)
(* executing" message, and what close() does after its disconnect request. *)
(***************************************************************************)
EXTENDS Naturals, Sequences

CONSTANTS
  ConnectSteps,      \* number of steps of connect(): TCP, TLS, WebSocket upgrade
  Timeouts,          \* connection timeouts a caller may configure, in ticks
  MaxTime,           \* bound: last tick of the clock
  MaxReqs,           \* bound: requests sent on the connection
  MaxStill           \* bound: "still executing" messages per request

ASSUME TransportAssumption ==
  /\ ConnectSteps \in Nat \ {0}
  /\ Timeouts \subseteq Nat
  /\ MaxTime \in Nat
  /\ MaxReqs \in Nat
  /\ MaxStill \in Nat

VARIABLES
  transport, \* NativeTcpTransport or WebSocketTransport; chosen once
  state,     \* ConnectionLifecycle.state
  deadline,  \* ConnectionLifecycle.deadline: NoDeadline until connect() ends
  stream,    \* the transport's socket: Option::None or Some
  op,        \* the operation whose future is pending
  outbox,    \* requests the server has not answered yet
  inbox,     \* messages of the server that nobody has read yet
  peer,      \* the server's end of the socket: "up" or "gone"
  now,       \* the clock, in ticks
  reqs,      \* requests sent so far: the tag of the last one
  answer,    \* the last request that was given a response, and that response's tag
  budget,    \* the connection timeout of the current connect()
  spent,     \* history: ticks spent waiting in that connect() and in its logins
  slips      \* history: the events that can put the socket out of step (Slip)

history == <<budget, spent, slips>>

vars == <<transport, state, deadline, stream, op, outbox, inbox, peer, now, reqs, answer, history>>

Transports == {"native", "websocket"}

\* "dropped": a caller dropped a future that waits for a response.  "status": a
\* native login took a "still executing" message for its answer.  "close": a
\* caller dropped a WebSocket close() that had already given up its stream.
Slip == {"dropped", "status", "close"}

\* The request/response pairs of login_exchange.
LoginExchanges == [native |-> 3, websocket |-> 2]

ConnectionState == {"Disconnected", "Connected", "Authenticated", "Closed", "Terminated"}

\* No real deadline is 0, because the clock starts at 1.
NoDeadline == 0

\* `until' is the deadline the operation runs under, `req' the request it waits
\* for, `step' its place in the ordered steps of connect() or login_exchange().
Idle == [kind |-> "idle", step |-> 0, req |-> 0, until |-> NoDeadline]

Setup   == {"connect", "login"}
Waiting == {"login", "request", "disconnect"}

Operations == [kind : Setup \cup Waiting \cup {"drain", "idle"}, step : Nat, req : Nat, until : Nat]

Responses == [req : Nat, kind : {"still", "ok", "error"}]

Open == state \in {"Connected", "Authenticated"}

-----------------------------------------------------------------------------
(* Sending, receiving and releasing the socket.                            *)

\* send_message, send_receive: the request goes out and the operation waits.
\* What is written to a socket that the peer closed reaches nobody.
Send(kind, step, until) ==
  /\ reqs < MaxReqs
  /\ reqs' = reqs + 1
  /\ outbox' = IF peer = "up" THEN Append(outbox, reqs + 1) ELSE outbox
  /\ op' = [kind |-> kind, step |-> step, req |-> reqs + 1, until |-> until]

\* release_connection: the socket is dropped, with all that is unread on it.
ReleaseConnection ==
  /\ stream' = "none"
  /\ inbox' = <<>>
  /\ outbox' = <<>>

\* The next message is a final one: the loops that skip "still executing" end.
FinalAtHead == inbox # <<>> /\ Head(inbox).kind # "still"

\* The socket was closed by the peer and nothing is left to read on it.
ReadFails == peer = "gone" /\ inbox = <<>>

Elapsed(until) == now >= until

-----------------------------------------------------------------------------
(* connect()                                                               *)

\* begin_connect: refused unless Disconnected; the deadline starts now.
BeginConnect ==
  /\ op = Idle
  /\ state = "Disconnected"
  /\ \E t \in Timeouts :
       /\ now + t <= MaxTime
       /\ op' = [kind |-> "connect", step |-> 1, req |-> 0, until |-> now + t]
       /\ budget' = t
  /\ spent' = 0
  /\ UNCHANGED <<transport, state, deadline, stream, outbox, inbox, peer, now, reqs, answer, slips>>

\* A step of connect() ends well: the next one runs under the same deadline,
\* and the last one stores that deadline for the login.
ConnectStepDone ==
  /\ op.kind = "connect"
  /\ \/ /\ op.step < ConnectSteps
        /\ op' = [kind |-> "connect", step |-> op.step + 1, req |-> 0, until |-> op.until]
        /\ UNCHANGED <<state, deadline, stream, peer>>
     \/ /\ op.step = ConnectSteps
        /\ op' = Idle
        /\ state' = "Connected"
        /\ deadline' = op.until
        /\ stream' = "some"
        /\ peer' = "up"
  /\ UNCHANGED <<transport, outbox, inbox, now, reqs, answer, history>>

\* A step fails, or runs out of time: the local socket is dropped, nothing is stored.
ConnectFailed ==
  /\ op.kind = "connect"
  /\ op' = Idle
  /\ UNCHANGED <<transport, state, deadline, stream, outbox, inbox, peer, now, reqs, answer, history>>

ConnectTimedOut ==
  /\ op.kind = "connect"
  /\ Elapsed(op.until)
  /\ op' = Idle
  /\ UNCHANGED <<transport, state, deadline, stream, outbox, inbox, peer, now, reqs, answer, history>>

-----------------------------------------------------------------------------
(* authenticate()                                                          *)

\* Mutant: a retried login restarts the connection timeout.
BeginLogin_RestartsDeadline ==
  /\ op = Idle
  /\ state = "Connected"
  /\ now + budget <= MaxTime
  /\ deadline' = now + budget
  /\ Send("login", 1, now + budget)
  /\ UNCHANGED <<transport, state, stream, inbox, peer, now, answer, history>>

\* authenticate_within_deadline up to the first request of login_exchange.
\* It runs under the deadline that connect() stored, also when it is a retry.
BeginLogin ==
  /\ op = Idle
  /\ state = "Connected"
  /\ deadline # NoDeadline
  /\ stream = "some"
  /\ Send("login", 1, deadline)
  /\ UNCHANGED <<transport, state, deadline, stream, inbox, peer, now, answer, history>>

\* An exchange of the login is answered well: the next request follows, and
\* after the last one the transport is Authenticated.
LoginExchangeDone ==
  /\ op.kind = "login"
  /\ FinalAtHead
  /\ Head(inbox).kind = "ok"
  /\ answer' = [to |-> op.req, from |-> Head(inbox).req]
  /\ inbox' = Tail(inbox)
  /\ \/ /\ op.step < LoginExchanges[transport]
        /\ Send("login", op.step + 1, op.until)
        /\ UNCHANGED state
     \/ /\ op.step = LoginExchanges[transport]
        /\ op' = Idle
        /\ state' = "Authenticated"
        /\ UNCHANGED <<outbox, reqs>>
  /\ UNCHANGED <<transport, deadline, stream, peer, now, history>>

\* login_exchange of the native transport reads one message per phase.  A "still
\* executing" message has no public key, which fails phase 1; in the phases 2
\* and 3 it is no exception, so reject_exception takes it for the answer.
NativeLoginTakesStatus ==
  /\ transport = "native"
  /\ op.kind = "login"
  /\ inbox # <<>>
  /\ Head(inbox).kind = "still"
  /\ slips' = slips \cup {"status"}
  /\ answer' = [to |-> op.req, from |-> Head(inbox).req]
  /\ \/ /\ op.step = 1
        /\ op' = Idle
        /\ IF Elapsed(op.until)
             THEN state' = "Closed" /\ ReleaseConnection
             ELSE inbox' = Tail(inbox) /\ UNCHANGED <<state, stream, outbox>>
        /\ UNCHANGED reqs
     \/ /\ op.step \in 2 .. (LoginExchanges[transport] - 1)
        /\ inbox' = Tail(inbox)
        /\ Send("login", op.step + 1, op.until)
        /\ UNCHANGED <<state, stream>>
     \/ /\ op.step = LoginExchanges[transport]
        /\ inbox' = Tail(inbox)
        /\ op' = Idle
        /\ state' = "Authenticated"
        /\ UNCHANGED <<stream, outbox, reqs>>
  /\ UNCHANGED <<transport, deadline, peer, now, budget, spent>>

\* Mutant: every login error keeps the connection open for a retry.
LoginErr_KeepsConnected == UNCHANGED <<state, stream, outbox, inbox>>

\* The Err arm of authenticate_within_deadline: Closed, with the socket
\* released, if the deadline has elapsed; otherwise still Connected.
LoginErr ==
  IF Elapsed(op.until)
    THEN state' = "Closed" /\ ReleaseConnection
    ELSE UNCHANGED <<state, stream, outbox, inbox>>

\* An exchange of the login fails: the server rejects it (reject_exception,
\* check_status), or the driver cannot use its answer.
LoginRejected ==
  /\ op.kind = "login"
  /\ FinalAtHead
  /\ answer' = [to |-> op.req, from |-> Head(inbox).req]
  /\ op' = Idle
  /\ IF Elapsed(op.until)
       THEN state' = "Closed" /\ ReleaseConnection
       ELSE inbox' = Tail(inbox) /\ UNCHANGED <<state, stream, outbox>>
  /\ UNCHANGED <<transport, deadline, peer, now, reqs, history>>

\* The socket broke during the login.
LoginBroken ==
  /\ op.kind = "login"
  /\ ReadFails
  /\ op' = Idle
  /\ LoginErr
  /\ UNCHANGED <<transport, deadline, peer, now, reqs, answer, history>>

\* Mutant: the deadline counts as elapsed only after its own tick.
LoginTimedOut_Late ==
  /\ op.kind = "login"
  /\ now > op.until
  /\ op' = Idle
  /\ LoginErr
  /\ UNCHANGED <<transport, deadline, peer, now, reqs, answer, history>>

\* SetupDeadline::run gave up on login_exchange.
LoginTimedOut ==
  /\ op.kind = "login"
  /\ Elapsed(op.until)
  /\ op' = Idle
  /\ LoginErr
  /\ UNCHANGED <<transport, deadline, peer, now, reqs, answer, history>>

\* A login on a transport whose stream a dropped close() took fails at once
\* ("Not connected"), which changes the state only after the deadline.
LoginWithoutStream ==
  /\ op = Idle
  /\ state = "Connected"
  /\ stream = "none"
  /\ Elapsed(deadline)
  /\ state' = "Closed"
  /\ ReleaseConnection
  /\ UNCHANGED <<transport, deadline, op, peer, now, reqs, answer, history>>

-----------------------------------------------------------------------------
(* Every other operation that talks to the server.                         *)

\* execute_query, fetch_results, close_result_set, the prepared-statement
\* operations, set_attributes and refresh_current_schema: require(Authenticated),
\* then one request.  Without a stream the operation fails and changes nothing.
BeginRequest ==
  /\ op = Idle
  /\ state = "Authenticated"
  /\ stream = "some"
  /\ Send("request", 1, NoDeadline)
  /\ UNCHANGED <<transport, state, deadline, stream, inbox, peer, now, answer, history>>

\* send_and_fill_buf and send_receive skip every "still executing" message: the
\* loops of all operations except the login of the native transport.
SkipStill ==
  /\ op.kind \in Waiting
  /\ transport = "native" => op.kind # "login"
  /\ inbox # <<>>
  /\ Head(inbox).kind = "still"
  /\ inbox' = Tail(inbox)
  /\ UNCHANGED <<transport, state, deadline, stream, op, outbox, peer, now, reqs, answer, history>>

\* The operation takes the next final message for its own answer.
ReceiveResponse ==
  /\ op.kind = "request"
  /\ FinalAtHead
  /\ answer' = [to |-> op.req, from |-> Head(inbox).req]
  /\ inbox' = Tail(inbox)
  /\ op' = Idle
  /\ UNCHANGED <<transport, state, deadline, stream, outbox, peer, now, reqs, history>>

\* A send or a receive error is returned and changes no state.
RequestBroken ==
  /\ op.kind = "request"
  /\ ReadFails
  /\ op' = Idle
  /\ UNCHANGED <<transport, state, deadline, stream, outbox, inbox, peer, now, reqs, answer, history>>

-----------------------------------------------------------------------------
(* close() and terminate()                                                 *)

\* Mutant: close() does not ask is_open() first.
BeginClose_Unguarded ==
  /\ op = Idle
  /\ state # "Disconnected"
  /\ Send("disconnect", 1, NoDeadline)
  /\ UNCHANGED <<transport, state, deadline, stream, inbox, peer, now, answer, history>>

\* close_gracefully of an authenticated transport: the disconnect request.
BeginClose ==
  /\ op = Idle
  /\ state = "Authenticated"
  /\ stream = "some"
  /\ Send("disconnect", 1, NoDeadline)
  /\ UNCHANGED <<transport, state, deadline, stream, inbox, peer, now, answer, history>>

\* The end of close_gracefully: the release of terminate(), then Closed.
CloseEnds ==
  /\ op' = Idle
  /\ state' = "Closed"
  /\ ReleaseConnection

\* What follows the disconnect request.  The native transport closes at once; the
\* WebSocket transport first takes its stream, sends a close frame and reads what
\* is left until 100 ms pass in silence, with the state unchanged meanwhile.
Disconnected ==
  \/ transport = "native" /\ CloseEnds
  \/ /\ transport = "websocket"
     /\ op' = [kind |-> "drain", step |-> 0, req |-> 0, until |-> NoDeadline]
     /\ ReleaseConnection
     /\ UNCHANGED state

\* send_disconnect ignores what the server says and whether it says anything.
CloseDone ==
  /\ op.kind = "disconnect"
  /\ \/ FinalAtHead /\ answer' = [to |-> op.req, from |-> Head(inbox).req]
     \/ ReadFails /\ UNCHANGED answer
  /\ Disconnected
  /\ UNCHANGED <<transport, deadline, peer, now, reqs, history>>

\* A connection without a login has no session to disconnect.
CloseUnauthenticated ==
  /\ op = Idle
  /\ state = "Connected"
  /\ stream = "some"
  /\ Disconnected
  /\ UNCHANGED <<transport, deadline, peer, now, reqs, answer, history>>

\* The WebSocket close handshake is over.
CloseDrained ==
  /\ op.kind = "drain"
  /\ CloseEnds
  /\ UNCHANGED <<transport, deadline, peer, now, reqs, answer, history>>

\* close() of a transport whose stream an earlier, dropped close() took.
CloseWithoutStream ==
  /\ op = Idle
  /\ Open
  /\ stream = "none"
  /\ CloseEnds
  /\ UNCHANGED <<transport, deadline, peer, now, reqs, answer, history>>

\* terminate(): a caller that gives up on a request drops its future and then
\* calls this; no I/O happens.
Terminate ==
  /\ op = Idle \/ op.kind = "request"
  /\ op' = Idle
  /\ state' = "Terminated"
  /\ ReleaseConnection
  /\ UNCHANGED <<transport, deadline, peer, now, reqs, answer, history>>

\* The caller drops the pending future and nothing else happens.
Abandon ==
  /\ op # Idle
  /\ op' = Idle
  /\ slips' = slips \cup (IF op.kind \in Waiting THEN {"dropped"} ELSE {})
                    \cup (IF op.kind = "drain" THEN {"close"} ELSE {})
  /\ UNCHANGED <<transport, state, deadline, stream, outbox, inbox, peer, now, reqs, answer, budget, spent>>

-----------------------------------------------------------------------------
(* The server, the network and the clock.                                  *)

StillCount(r) == Len(SelectSeq(inbox, LAMBDA m : m.req = r /\ m.kind = "still"))

ServerStillExecuting ==
  /\ peer = "up"
  /\ outbox # <<>>
  /\ StillCount(Head(outbox)) < MaxStill
  /\ inbox' = Append(inbox, [req |-> Head(outbox), kind |-> "still"])
  /\ UNCHANGED <<transport, state, deadline, stream, op, outbox, peer, now, reqs, answer, history>>

ServerAnswers ==
  /\ peer = "up"
  /\ outbox # <<>>
  /\ \E k \in {"ok", "error"} :
       inbox' = Append(inbox, [req |-> Head(outbox), kind |-> k])
  /\ outbox' = Tail(outbox)
  /\ UNCHANGED <<transport, state, deadline, stream, op, peer, now, reqs, answer, history>>

PeerGone ==
  /\ stream = "some"
  /\ peer = "up"
  /\ peer' = "gone"
  /\ outbox' = <<>>
  /\ UNCHANGED <<transport, state, deadline, stream, op, inbox, now, reqs, answer, history>>

\* The runtime polls an elapsed timer before the next tick.
Tick ==
  /\ now < MaxTime
  /\ op.kind \in Setup => ~Elapsed(op.until)
  /\ now' = now + 1
  /\ spent' = IF op.kind \in Setup THEN spent + 1 ELSE spent
  /\ UNCHANGED <<transport, state, deadline, stream, op, outbox, inbox, peer, reqs, answer, budget, slips>>

-----------------------------------------------------------------------------
Init ==
  /\ transport \in Transports
  /\ state = "Disconnected"
  /\ deadline = NoDeadline
  /\ stream = "none"
  /\ op = Idle
  /\ outbox = <<>>
  /\ inbox = <<>>
  /\ peer = "up"
  /\ now = 1
  /\ reqs = 0
  /\ answer = [to |-> 0, from |-> 0]
  /\ budget = 0
  /\ spent = 0
  /\ slips = {}

Client ==
  \/ BeginConnect \/ ConnectStepDone \/ ConnectFailed \/ ConnectTimedOut
  \/ BeginLogin \/ LoginExchangeDone \/ NativeLoginTakesStatus \/ LoginRejected
  \/ LoginBroken \/ LoginTimedOut \/ LoginWithoutStream
  \/ BeginRequest \/ SkipStill \/ ReceiveResponse \/ RequestBroken
  \/ BeginClose \/ CloseDone \/ CloseUnauthenticated \/ CloseDrained \/ CloseWithoutStream
  \/ Terminate \/ Abandon

Environment == ServerStillExecuting \/ ServerAnswers \/ PeerGone \/ Tick

Next == Client \/ Environment

\* Time passes and the runtime polls an elapsed timer; nothing is assumed of
\* the server, of the network or of the caller.
Fairness == WF_vars(Tick) /\ WF_vars(ConnectTimedOut) /\ WF_vars(LoginTimedOut)

Spec == Init /\ [][Next]_vars

FairSpec == Spec /\ Fairness

-----------------------------------------------------------------------------
(* Properties.                                                             *)

\* The state of the model: the lifecycle, the socket and the pending operation.
TypeOK ==
  /\ transport \in Transports
  /\ state \in ConnectionState
  /\ deadline \in Nat
  /\ stream \in {"none", "some"}
  /\ op \in Operations
  /\ outbox \in Seq(Nat)
  /\ inbox \in Seq(Responses)
  /\ peer \in {"up", "gone"}
  /\ now \in Nat
  /\ reqs \in Nat
  /\ answer \in [to : Nat, from : Nat]
  /\ budget \in Nat
  /\ spent \in Nat
  /\ slips \subseteq Slip

\* Every operation is given the response to its own request, although nothing
\* on the wire names the request: send_and_fill_buf and send_receive rely on
\* the socket holding nothing older than the request just sent.
ResponsesMatch == answer.from = answer.to

\* Neither of the two events that leave a response behind has happened.
InStep == slips \cap {"dropped", "status"} = {}

\* Responses match until a caller drops a future that waits for one or a native
\* login takes a status message for its answer: logins that are rejected or run
\* out of time, retries, broken exchanges, close() and terminate() leave no
\* response behind for the next operation, and so does a dropped WebSocket close
\* handshake.
MatchWhileInStep == InStep => ResponsesMatch

\* Between operations the socket holds no response and the server owes none:
\* what a login that ran out of time, an export that gave up or a failed
\* exchange left behind is gone with the socket.
QuietWhenIdle == op.kind \notin Waiting => outbox = <<>> /\ inbox = <<>>

\* At most one request is outstanding (none with a peer that is gone) and all
\* that is on the socket belongs to it, its final response last.
OneOutstanding ==
  /\ QuietWhenIdle
  /\ peer = "gone" => outbox = <<>>
  /\ Len(outbox) <= 1
  /\ \A i \in DOMAIN outbox : outbox[i] = op.req
  /\ \A i \in DOMAIN inbox : inbox[i].req = op.req
  /\ \A i \in DOMAIN inbox :
       inbox[i].kind # "still" => i = Len(inbox) /\ outbox = <<>>

\* The socket carries one exchange at a time until one of those two events: the
\* invariant that makes MatchWhileInStep hold.
OneWhileInStep == InStep => OneOutstanding

\* is_connected() and the socket: no closed or terminated transport keeps a
\* socket, and an open one has it except in the close handshake of a WebSocket
\* and after a caller dropped such a handshake.  The native transport, which never
\* takes its stream, therefore has a socket exactly while it is open.
StreamInv ==
  /\ stream = "some" => Open
  /\ Open => stream = "some" \/ op.kind = "drain" \/ "close" \in slips
  /\ op.kind = "drain" \/ "close" \in slips => transport = "websocket"

\* Which lifecycle state each pending operation runs in, that the socket it uses
\* is there, and that a deadline is stored only by a connect() that succeeded.
PhaseInv ==
  /\ op.kind = "connect" => state = "Disconnected"
  /\ op.kind = "login" => state = "Connected" /\ op.until = deadline
  /\ op.kind \in {"request", "disconnect"} => state = "Authenticated"
  /\ op.kind \in Waiting => stream = "some"
  /\ op.kind = "drain" => Open /\ stream = "none"
  /\ state = "Disconnected" => deadline = NoDeadline
  /\ StreamInv

\* connect() and every login attempt after it, retries included, together never
\* wait longer than the one connection timeout that connect() was given.
SetupWithinBudget == spent <= budget

\* The inductive form of SetupWithinBudget: what has been spent and what is left
\* until the deadline never exceed the budget together.
BudgetInv ==
  /\ SetupWithinBudget
  /\ op.kind = "connect" /\ now < op.until => spent + (op.until - now) <= budget
  /\ deadline # NoDeadline /\ now < deadline => spent + (deadline - now) <= budget

\* The deadline that connect() stored is never moved: a retried login gets only
\* the time that is left.
DeadlineFixed == [][deadline # NoDeadline => deadline' = deadline]_vars

\* A closed or terminated transport never talks to the server again and never
\* opens again; a terminated one stays terminated, so that every later
\* operation names the termination, also after close().
EndIsFinal ==
  [][(state \in {"Closed", "Terminated"}) =>
        (reqs' = reqs /\ state' \in {state, "Terminated"})]_vars

\* A connect() or a login ends even if the server never says a word.
SetupEnds == op.kind \in Setup ~> op.kind \notin Setup
=============================================================================
