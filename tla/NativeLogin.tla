----------------------------- MODULE NativeLogin ----------------------------
(***************************************************************************)
(* A connection over the native protocol (src/src/transport/native): the   *)
(* three phases of login_exchange, the two ChaCha20 keystreams it starts   *)
(* when the socket has no TLS, the requests that follow, and the current   *)
(* schema that every response may change.  The caller is                   *)
(* connect_with_transport, or a user of the transport who retries a login. *)
(*                                                                         *)
(* A payload is its length; pos is the keystream position it was           *)
(* enciphered at, Clear when it was not.  Headers are never enciphered.    *)
(***************************************************************************)
EXTENDS Integers, Sequences

CONSTANTS
  Schemas,    \* the schemas that exist on the server
  Names,      \* the names a caller asks for
  MaxLogins,  \* bound: logins of one transport
  MaxOps      \* bound: requests and status messages after the login

ASSUME NativeLoginAssumption ==
  {"none", "absent", "empty"} \cap (Schemas \cup Names) = {} /\ MaxLogins \in Nat /\ MaxOps \in Nat

VARIABLES
  tls,         \* tls_active: "on" or "off"
  uri,         \* the schema of the connection string, "none" without one
  user,        \* "connection" or "transport"
  caller,      \* "connecting", "open", "failed", "closed"
  failure,     \* the step that failed the connect
  lifecycle,   \* ConnectionLifecycle: its state
  stream,      \* "open", "none" once released
  op,          \* the exchange whose answer is awaited, "idle"
  send, recv,  \* keystream positions of the two ciphers, Clear before set_keys
  schema,      \* current_schema, "empty" for None and for an empty attribute
  logins, ops,
  garbled,     \* "yes" once somebody deciphered at the wrong position
  toServer, toClient,
  srv,         \* the server: "login", "auth", "session", "closed"
  srvSend, srvRecv, srvSchema,
  untold       \* why the client cannot know srvSchema: "no", "set" (until the answer to
               \* GET_ATTRIBUTES), "failed" (that answer was an error), "elsewhere"

ciphers == <<send, recv>>
server  == <<srv, srvSend, srvRecv, srvSchema, untold>>
choices == <<tls, uri, user>>
bounds  == <<logins, ops>>

loginVars == <<choices, caller, failure, lifecycle, stream, op, ciphers, schema, bounds, garbled,
          toServer, toClient, server>>

Clear == 0 - 1

\* send_message_with_serial: the payload advances the keystream before it is sent.
SendMessage(cmd, arg, size) ==
  /\ toServer' = Append(toServer, [cmd |-> cmd, arg |-> arg, size |-> size, pos |-> send])
  /\ send' = IF send = Clear THEN Clear ELSE send + size

\* send_raw: the two login messages are never enciphered.
SendRaw(cmd, arg) ==
  /\ toServer' = Append(toServer, [cmd |-> cmd, arg |-> arg, size |-> 1, pos |-> Clear])
  /\ UNCHANGED send

Answer == Head(toClient)

\* receive_into_buf finds the payload that was sent: a payload enciphered at the
\* position of the receive cipher, or in clear without one.
ReadableAnswer == Answer.size = 0 \/ Answer.pos = recv

\* Mutant: an empty attribute is taken for no attribute.
RecordSchema_IgnoresEmpty ==
  schema' = IF Answer.schema \in {"absent", "empty"} THEN schema ELSE Answer.schema

\* current_schema_change: absent leaves the recorded schema, empty clears it.
RecordSchema == schema' = IF Answer.schema = "absent" THEN schema ELSE Answer.schema

\* current_schema_from_get_attributes: here an absent attribute means none.
ReadSchema == schema' = IF Answer.schema = "absent" THEN "empty" ELSE Answer.schema

Receive ==
  /\ toClient # <<>>
  /\ ReadableAnswer
  /\ toClient' = Tail(toClient)
  /\ recv' = IF recv = Clear THEN Clear ELSE recv + Answer.size
  /\ UNCHANGED <<choices, srv, srvSend, srvRecv, srvSchema, garbled>>

\* release_connection; the ciphers are kept.
ReleaseConnection == stream' = "none" /\ schema' = "empty" /\ toServer' = <<>> /\ toClient' = <<>>

-----------------------------------------------------------------------------
(* login_exchange                                                          *)

BeginLogin ==
  /\ op = "idle" /\ lifecycle = "Connected" /\ caller = "connecting"
  /\ logins < (IF user = "connection" THEN 1 ELSE MaxLogins)
  /\ logins' = logins + 1
  /\ SendRaw("login", "none")
  /\ op' = "login"
  /\ UNCHANGED <<choices, caller, failure, lifecycle, stream, recv, schema, ops, garbled, toClient, server>>

\* A login error keeps Connected.  connect_with_transport returns it and drops
\* the transport; another user may try again.
LoginFails ==
  /\ op' = "idle"
  /\ IF user = "connection"
       THEN caller' = "failed" /\ failure' = "login" /\ stream' = "none"
       ELSE UNCHANGED <<caller, failure, stream>>

\* negotiated_protocol_version: a missing version is the client's own.
NegotiatedProtocolVersion(reported) == reported \in {"missing", "supported"}

\* Mutant: keys are exchanged over TLS too.
BuildAuthMessage_AlwaysKeys == SendRaw("auth", "keys")

\* build_auth_message: password, and keys unless the socket has TLS.
BuildAuthMessage == SendRaw("auth", IF tls = "on" THEN "no_keys" ELSE "keys")

\* Phase 1: public key and random phrase are required.
LoginAnswered ==
  /\ op = "login" /\ Receive
  /\ RecordSchema
  /\ \E complete \in {"yes", "no"}, reported \in {"missing", "too_old", "supported", "over_32_bits"} :
       IF complete = "yes" /\ NegotiatedProtocolVersion(reported) /\ Answer.kind # "exception"
         THEN BuildAuthMessage /\ op' = "auth" /\ UNCHANGED <<caller, failure, stream>>
         ELSE LoginFails /\ UNCHANGED <<toServer, send>>
  /\ UNCHANGED <<untold, lifecycle, logins, ops>>

\* Mutant: the receive cipher has also been applied to the answer in clear.
SetKeys_Early ==
  /\ toServer' = Append(toServer, [cmd |-> "get_attributes", arg |-> "none", size |-> 0, pos |-> 0])
  /\ send' = (IF tls = "on" THEN Clear ELSE 0)
  /\ recv' = (IF tls = "on" THEN Clear ELSE 1)

\* set_keys, then phase 3: GET_ATTRIBUTES, which has no payload.
SetKeys ==
  LET start == IF tls = "on" THEN Clear ELSE 0 IN
  /\ toServer' = Append(toServer, [cmd |-> "get_attributes", arg |-> "none", size |-> 0, pos |-> start])
  /\ send' = start /\ recv' = start

\* Phase 2: the answer to the password is still in clear.
AuthAnswered ==
  /\ op = "auth"
  /\ toClient # <<>> /\ ReadableAnswer
  /\ toClient' = Tail(toClient)
  /\ RecordSchema
  /\ IF Answer.kind = "exception"
       THEN /\ LoginFails
            /\ recv' = IF recv = Clear THEN Clear ELSE recv + Answer.size
            /\ UNCHANGED <<toServer, send>>
       ELSE SetKeys /\ op' = "attributes" /\ UNCHANGED <<caller, failure, stream>>
  /\ UNCHANGED <<choices, lifecycle, logins, ops, garbled, server>>

-----------------------------------------------------------------------------
(* connect_with_transport after the login                                  *)

\* The configured query timeout, then the schema, then the connection is ready.
NextSetup(done) ==
  \/ /\ done = "login" /\ user = "connection"
     /\ SendMessage("set_timeout", "none", 1) /\ op' = "timeout"
     /\ UNCHANGED caller
  \/ /\ uri # "none"
     /\ SendMessage("set_schema", uri, 1) /\ op' = "schema"
     /\ UNCHANGED caller
  \/ /\ uri = "none"
     /\ caller' = "open" /\ op' = "idle"
     /\ UNCHANGED <<toServer, send>>

\* Phase 3: the attributes of the session.
AttributesAnswered ==
  /\ op = "attributes" /\ Receive
  /\ IF Answer.kind = "exception"
       THEN RecordSchema /\ LoginFails /\ UNCHANGED <<lifecycle, toServer, send>>
       ELSE /\ ReadSchema
            /\ lifecycle' = "Authenticated"
            /\ NextSetup("login")
            /\ UNCHANGED <<failure, stream>>
  /\ UNCHANGED <<untold, logins, ops>>

\* A rejected timeout is returned at once; the transport is dropped.
TimeoutAnswered ==
  /\ op = "timeout" /\ Receive
  /\ RecordSchema
  /\ IF Answer.kind = "exception"
       THEN /\ caller' = "failed" /\ failure' = "timeout" /\ stream' = "none" /\ op' = "idle"
            /\ UNCHANGED <<toServer, send>>
       ELSE NextSetup("timeout") /\ UNCHANGED <<failure, stream>>
  /\ UNCHANGED <<untold, lifecycle, bounds>>

\* Mutant: the error of the schema is returned without closing the session.
SchemaFails_NoShutdown ==
  IF caller = "connecting"
    THEN caller' = "failed" /\ failure' = "schema" /\ op' = "idle" /\ UNCHANGED <<toServer, send>>
    ELSE op' = "idle" /\ UNCHANGED <<caller, failure, toServer, send>>

\* set_schema returned an error: connect_with_transport closes the session
\* first, other callers get the error.
SchemaFails ==
  IF caller = "connecting"
    THEN failure' = "schema" /\ SendMessage("disconnect", "none", 0) /\ op' = "disconnect" /\ UNCHANGED caller
    ELSE op' = "idle" /\ UNCHANGED <<caller, failure, toServer, send>>

\* set_current_schema: the answer does not name the schema that was opened, so
\* GET_ATTRIBUTES follows.
SchemaAnswered ==
  /\ op = "schema" /\ Receive
  /\ RecordSchema
  /\ IF Answer.kind = "exception" THEN SchemaFails
     ELSE SendMessage("get_attributes", "none", 0) /\ op' = "schema_refresh" /\ UNCHANGED <<caller, failure>>
  /\ UNCHANGED <<untold, lifecycle, stream, bounds>>

\* refresh_current_schema.
RefreshAnswered ==
  /\ op \in {"schema_refresh", "refresh"} /\ Receive
  /\ IF Answer.kind = "exception"
       THEN /\ RecordSchema
            /\ untold' = IF untold = "set" THEN "failed" ELSE untold
            /\ IF op = "schema_refresh" THEN SchemaFails
               ELSE op' = "idle" /\ UNCHANGED <<caller, failure, toServer, send>>
       ELSE /\ ReadSchema
            /\ op' = "idle"
            /\ caller' = IF caller = "connecting" THEN "open" ELSE caller
            /\ UNCHANGED <<failure, toServer, send, untold>>
  /\ UNCHANGED <<lifecycle, stream, bounds>>

-----------------------------------------------------------------------------
(* Requests and the end                                                    *)

Request ==
  /\ op = "idle" /\ lifecycle = "Authenticated" /\ caller = "open" /\ ops < MaxOps
  /\ ops' = ops + 1
  /\ \/ SendMessage("execute", "none", 1) /\ op' = "execute"
     \/ \E name \in Names : SendMessage("set_schema", name, 1) /\ op' = "schema"
     \/ SendMessage("get_attributes", "none", 0) /\ op' = "refresh"
  /\ UNCHANGED <<choices, caller, failure, lifecycle, stream, recv, schema, logins, garbled, toClient, server>>

\* send_and_fill_buf reads on while the statement is still executing.
ExecuteAnswered ==
  /\ op = "execute" /\ Receive
  /\ RecordSchema
  /\ op' = IF Answer.kind = "still_executing" THEN "execute" ELSE "idle"
  /\ UNCHANGED <<untold, caller, failure, lifecycle, stream, send, bounds, toServer>>

\* close_gracefully: a transport that is not authenticated sends no disconnect.
BeginClose ==
  /\ op = "idle" /\ stream = "open"
  /\ caller = "open" \/ (user = "transport" /\ lifecycle = "Connected" /\ logins > 0)
  /\ IF lifecycle = "Authenticated"
       THEN /\ SendMessage("disconnect", "none", 0) /\ op' = "disconnect"
            /\ UNCHANGED <<caller, lifecycle, stream, schema, toClient>>
       ELSE ReleaseConnection /\ lifecycle' = "Closed" /\ caller' = "closed" /\ UNCHANGED <<send, op>>
  /\ UNCHANGED <<choices, failure, recv, bounds, garbled, server>>

CloseEnds ==
  /\ ReleaseConnection
  /\ lifecycle' = "Closed" /\ op' = "idle"
  /\ caller' = IF failure = "schema" THEN "failed" ELSE "closed"
  /\ UNCHANGED <<choices, failure, send, recv, bounds, garbled, server>>

\* The answer to the disconnect, or the error of reading it, is ignored.
DisconnectAnswered ==
  /\ op = "disconnect"
  /\ toClient # <<>>
  /\ CloseEnds

\* The read fails: the connection is gone, or the payload deciphers to garbage.
ReadFails ==
  /\ op # "idle"
  /\ IF toClient = <<>> THEN srv = "closed" /\ UNCHANGED <<garbled, toClient>>
     ELSE ~ReadableAnswer /\ garbled' = "yes" /\ toClient' = Tail(toClient)
  /\ op # "disconnect"
  /\ CASE op \in {"login", "auth", "attributes"} -> LoginFails /\ UNCHANGED <<toServer, send>>
       [] op = "timeout" -> /\ caller' = "failed" /\ failure' = "timeout" /\ stream' = "none" /\ op' = "idle"
                            /\ UNCHANGED <<toServer, send>>
       [] op \in {"schema", "schema_refresh"} -> SchemaFails /\ UNCHANGED stream
       [] OTHER -> op' = "idle" /\ UNCHANGED <<caller, failure, stream, toServer, send>>
  /\ UNCHANGED <<choices, lifecycle, recv, schema, logins, ops, server>>

DisconnectFails ==
  /\ op = "disconnect" /\ toClient = <<>> /\ srv = "closed"
  /\ CloseEnds

-----------------------------------------------------------------------------
(* The server                                                              *)

\* The schema with exactly that name, otherwise the one in upper case.
Opened(name) ==
  IF name \in Schemas THEN name ELSE IF name = "s" /\ "S" \in Schemas THEN "S" ELSE "none"

Reply(kind, attribute, size) ==
  /\ toClient' = Append(toClient, [kind |-> kind, schema |-> attribute, size |-> size, pos |-> srvSend])
  /\ srvSend' = IF srvSend = Clear THEN Clear ELSE srvSend + size

Consume ==
  /\ toServer' = Tail(toServer)
  /\ UNCHANGED <<choices, caller, failure, lifecycle, stream, op, ciphers, schema, bounds>>

Asked == Head(toServer)

\* The two answers of the login, in clear; the ciphers start after the second.
ServerLogin ==
  /\ srv \in {"login", "auth"} /\ toServer # <<>> /\ Asked.cmd \in {"login", "auth"}
  /\ \E kind \in {"done", "exception"}, size \in {0, 1} :
       /\ kind = "exception" \/ Asked.cmd = "login" => size = 1
       /\ toClient' = Append(toClient, [kind |-> kind, schema |-> "absent", size |-> size, pos |-> Clear])
       /\ srv' = CASE kind = "exception" -> "login" [] Asked.cmd = "login" -> "auth" [] OTHER -> "session"
       /\ srvSend' = IF srv' = "session" /\ Asked.arg = "keys" THEN 0 ELSE srvSend
       /\ srvRecv' = srvSend'
  /\ Consume
  /\ UNCHANGED <<garbled, srvSchema, untold>>

\* A request of the session, deciphered at the server's own position.
ServerRequest ==
  /\ srv = "session" /\ toServer # <<>> /\ Asked.cmd \notin {"login", "auth"}
  /\ Asked.size = 0 \/ Asked.pos = srvRecv
  /\ srvRecv' = IF srvRecv = Clear THEN Clear ELSE srvRecv + Asked.size
  /\ srv' = IF Asked.cmd = "disconnect" THEN "closed" ELSE srv
  /\ \/ /\ Asked.cmd = "get_attributes"
        /\ Reply("done", IF srvSchema = "empty" THEN "absent" ELSE srvSchema, 1)
        /\ untold' = "no" /\ UNCHANGED srvSchema
     \/ /\ Asked.cmd = "set_schema" /\ Opened(Asked.arg) # "none"
        /\ srvSchema' = Opened(Asked.arg) /\ untold' = "set"
        /\ Reply("done", "absent", 0)
     \/ /\ Asked.cmd = "execute"
        /\ \E opened \in Schemas \cup {"empty"} :
             /\ srvSchema' = opened
             /\ untold' = IF opened = srvSchema THEN untold ELSE "no"
             /\ Reply("done", IF opened = srvSchema THEN "absent" ELSE opened, 1)
     \/ /\ Asked.cmd \in {"set_timeout", "disconnect"}
        /\ Reply("done", "absent", 0) /\ UNCHANGED <<srvSchema, untold>>
     \/ /\ Asked.cmd # "disconnect" /\ (Asked.cmd = "set_schema" => Opened(Asked.arg) = "none")
        /\ Reply("exception", "absent", 1) /\ UNCHANGED <<srvSchema, untold>>
  /\ Consume
  /\ UNCHANGED garbled

\* The statement is still executing: the message says so and more will follow.
ServerStillExecuting ==
  /\ srv = "session" /\ toServer # <<>> /\ Asked.cmd = "execute" /\ toClient = <<>>
  /\ Asked.pos = srvRecv /\ ops < MaxOps
  /\ ops' = ops + 1
  /\ Reply("still_executing", "absent", 1)
  /\ UNCHANGED <<choices, caller, failure, lifecycle, stream, op, ciphers, schema, logins, garbled, toServer,
                 srv, srvRecv, srvSchema, untold>>

\* What it cannot decipher or frame makes the server close the connection.
ServerRejectsGarbage ==
  /\ srv = "session" /\ toServer # <<>>
  /\ Asked.cmd \in {"login", "auth"} \/ (Asked.size > 0 /\ Asked.pos # srvRecv)
  /\ srv' = "closed"
  /\ garbled' = IF Asked.cmd \in {"login", "auth"} THEN garbled ELSE "yes"
  /\ Consume
  /\ UNCHANGED <<toClient, srvSend, srvRecv, srvSchema, untold>>

\* Another session drops the current schema: no response tells of it.
SchemaDroppedElsewhere ==
  /\ srv = "session" /\ srvSchema # "empty" /\ caller = "open"
  /\ srvSchema' = "empty" /\ untold' = "elsewhere"
  /\ UNCHANGED <<choices, caller, failure, lifecycle, stream, op, ciphers, schema, bounds, garbled, toServer,
                 toClient, srv, srvSend, srvRecv>>

PeerGone ==
  /\ srv # "closed"
  /\ srv' = "closed" /\ toServer' = <<>>
  /\ UNCHANGED <<choices, caller, failure, lifecycle, stream, op, ciphers, schema, bounds, garbled, toClient,
                 srvSend, srvRecv, srvSchema, untold>>

-----------------------------------------------------------------------------
LoginInit ==
  /\ tls \in {"on", "off"} /\ user \in {"connection", "transport"}
  /\ uri \in (IF user = "connection" THEN Names \cup {"none"} ELSE {"none"})
  /\ caller = "connecting" /\ failure = "none" /\ lifecycle = "Connected" /\ stream = "open" /\ op = "idle"
  /\ send = Clear /\ recv = Clear /\ schema = "empty"
  /\ logins = 0 /\ ops = 0 /\ garbled = "no"
  /\ toServer = <<>> /\ toClient = <<>>
  /\ srv = "login" /\ srvSend = Clear /\ srvRecv = Clear /\ srvSchema = "empty" /\ untold = "no"

Login  == BeginLogin \/ LoginAnswered \/ AuthAnswered \/ AttributesAnswered
Setup  == TimeoutAnswered \/ SchemaAnswered \/ RefreshAnswered
Work   == Request \/ ExecuteAnswered \/ BeginClose \/ DisconnectAnswered \/ DisconnectFails \/ ReadFails
Server == ServerLogin \/ ServerRequest \/ ServerStillExecuting \/ ServerRejectsGarbage

LoginNext == Login \/ Setup \/ Work \/ Server \/ SchemaDroppedElsewhere \/ PeerGone

LoginSpec == LoginInit /\ [][LoginNext]_loginVars

-----------------------------------------------------------------------------
(* Properties.                                                             *)

\* Client and server decipher every payload at the position at which it was
\* enciphered, whatever was rejected, retried or sent without a payload.
Deciphered == garbled = "no"

\* Without TLS every payload after the keys were exchanged is enciphered; with
\* TLS no keys are sent and nothing is enciphered.
EncryptedIffNoTls ==
  \A i \in DOMAIN toServer :
    LET m == toServer[i] IN
    /\ m.cmd = "auth" => (m.arg = "keys" <=> tls = "off")
    /\ m.cmd \notin {"login", "auth"} /\ m.size > 0 => (m.pos # Clear <=> tls = "off")

\* The session is encrypted as it has to be, and both sides keep in step however its
\* login and its requests went.
KeystreamsAgree == Deciphered /\ EncryptedIffNoTls

\* Between two requests current_schema is the schema of the server, as it spells
\* it, unless the server changed it without telling.
SchemaFollowsServer ==
  (caller = "open" /\ op = "idle" /\ srv = "session" /\ untold \in {"no", "set"}) => schema = srvSchema

\* A connect that fails on the schema of its connection string returns only
\* after its session has ended on the server.
NoSessionLeft == (caller = "failed" /\ failure = "schema") => srv = "closed" /\ stream = "none"

\* A session is in the schema the driver says, and one that could not be brought into the
\* schema it was asked for does not stay open.
SessionInSchema == SchemaFollowsServer /\ NoSessionLeft
=============================================================================
