----------------------------- MODULE WsMessages -----------------------------
(***************************************************************************)
(* The JSON messages of the WebSocket transport: the requests it sends,    *)
(* what it makes of a response, and what it remembers of it                *)
(* (src/src/transport/messages.rs, websocket.rs, protocol.rs), and the     *)
(* password block it encrypts with the key of the server.                  *)
(*                                                                         *)
(* An optional member is <<>> or <<value>>.  A response is [status, data,  *)
(* exception, attributes]; the members of the data depend on the command.  *)
(***************************************************************************)
EXTENDS ColumnValues, FiniteSetsExt

CONSTANTS
  MinKeyBits, MaxKeyBits,   \* 1024 and 8192: sizes of an RSA key
  DefaultMessageSize        \* 1 MiB: num_bytes of a fetch if the login gave none

ASSUME WsMessagesAssumption == 88 < MinKeyBits /\ MinKeyBits <= MaxKeyBits

OptionOr(option, default) == IF option = <<>> THEN default ELSE option[1]

-----------------------------------------------------------------------------
(* Requests                                                                *)

ProtocolVersion == 3

LoginInit == [command |-> "login", protocol |-> ProtocolVersion]

\* auth_request: the driver's own name stands beside the client's.
AuthRequest(credentials, password) ==
  [username |-> credentials.username, password |-> password, compression |-> FALSE, client |-> credentials.client,
   driver |-> "exarrow-rs", version |-> credentials.version]

ExecuteRequest(sql) == [command |-> "execute", sql |-> sql]

FetchRequest(handle, start, bytes) == [command |-> "fetch", handle |-> handle, start |-> start, bytes |-> bytes]

CloseResultSetRequest(handles) == [command |-> "closeResultSet", handles |-> handles]

CreatePreparedRequest(sql) == [command |-> "createPreparedStatement", sql |-> sql]

\* ExecutePreparedStatementRequest::new, with_data.
ExecutePreparedRequest(handle, columns, data) ==
  [command |-> "executePreparedStatement", handle |-> handle, columns |-> columns, data |-> data,
   num_columns |-> Len(columns), num_rows |-> IF data = <<>> THEN 0 ELSE Len(data[1])]

ClosePreparedRequest(handle) == [command |-> "closePreparedStatement", handle |-> handle]

DisconnectRequest == [command |-> "disconnect"]

\* SetAttributesRequest::autocommit, query_timeout, current_schema.
SetAttributesRequest(name, value) == [command |-> "setAttributes", name |-> name, value |-> value]

GetAttributesRequest == [command |-> "getAttributes"]

\* DataType::infer_from_json.
InferFromJson(value) ==
  CASE value.k = "bool"  -> Plain("BOOLEAN")
    [] value.k = "float" -> Plain("DOUBLE")
    [] value.k = "int"   -> [Plain("DECIMAL") EXCEPT !.precision = 18, !.scale = 0]
    [] OTHER             -> [Plain("VARCHAR") EXCEPT !.size = MaxVarchar]

\* execute_prepared_statement: the types of the server, or those of the first values.
ExecutePrepared(statement, data) ==
  LET inferred == [c \in DOMAIN data |-> IF data[c] = <<>> THEN [Plain("VARCHAR") EXCEPT !.size = MaxVarchar] ELSE InferFromJson(data[c][1])] IN
  ExecutePreparedRequest(statement.handle, IF statement.types = <<>> THEN inferred ELSE statement.types, data)

-----------------------------------------------------------------------------
(* Responses                                                               *)

Failure(why) == [kind |-> "error", why |-> why]

\* check_status.
Rejected(r) == r.status # "ok"

RejectedWith(r) == Failure(OptionOr(r.exception, "Unknown error"))

\* record_current_schema: "" means that no schema is open; every response is read, one
\* with an error too.
RecordCurrentSchema(current, r) ==
  IF r.attributes = <<>> \/ r.attributes[1] = <<>> THEN current
  ELSE IF r.attributes[1][1] = "" THEN <<>> ELSE r.attributes[1]

\* ResultSetInfo::kind.
EntryKind(entry) ==
  CASE entry.type = "resultSet" -> "result_set" [] entry.type = "rowCount" -> "row_count" [] OTHER -> "unknown"

\* QueryResult, ResultData: the rows, row by row, and the number the server promises.
QueryResult(handle, columns, rows, total) ==
  [kind |-> "result_set", handle |-> handle, columns |-> columns, rows |-> rows, total |-> total]
RowCount(n) == [kind |-> "row_count", count |-> n]

\* query_result_from_response: the first result counts.
QueryResultFrom(r) ==
  LET entry == r.data[1].results[1]
      set   == entry.set[1] IN
  CASE Rejected(r)                                  -> RejectedWith(r)
    [] ~Rejected(r) /\ r.data = <<>>                -> Failure("Missing response data")
    [] OTHER ->
      IF r.data[1].results = <<>> THEN Failure("No results returned")
      ELSE CASE EntryKind(entry) = "row_count" -> RowCount(OptionOr(entry.count, 0))
             [] EntryKind(entry) = "unknown"   -> Failure("Unknown result type")
             [] OTHER ->
               IF entry.set = <<>> THEN Failure("Missing result_set data")
               ELSE IF set.columns = <<>> THEN Failure("Missing columns")
               ELSE QueryResult(set.handle, set.columns[1], ToRowMajor(OptionOr(set.data, <<>>)), OptionOr(set.total, 0))

Put(f, key, value) == [k \in DOMAIN f \cup {key} |-> IF k = key THEN value ELSE f[k]]
Without(f, key)    == [k \in DOMAIN f \ {key} |-> f[k]]

\* The fetch position starts after the rows of this response.
PositionsAfter(positions, q) ==
  IF q.kind = "result_set" /\ q.handle # <<>> THEN Put(positions, q.handle[1], Len(q.rows)) ELSE positions

StartOf(positions, handle) == IF handle \in DOMAIN positions THEN positions[handle] ELSE 0

\* Mutant: the next fetch starts after the rows of this response only.
FetchedPosition_Restarts(positions, handle, rows) == Len(rows)

\* fetch_results: where the next one starts.
FetchedPosition(positions, handle, rows) == StartOf(positions, handle) + Len(rows)

\* fetch_results: the columns are those of the first response.
FetchedFrom(r) ==
  CASE Rejected(r)                   -> RejectedWith(r)
    [] ~Rejected(r) /\ r.data = <<>> -> Failure("Missing response data")
    [] OTHER -> [kind |-> "fetched", rows |-> ToRowMajor(r.data[1].data), total |-> r.data[1].total]

\* result_set_columns: of the first entry that is a result set.
ResultSetColumns(data) ==
  LET sets == SelectSeq(OptionOr(data.results, <<>>), LAMBDA e : EntryKind(e) = "result_set") IN
  IF sets = <<>> \/ sets[1].set = <<>> THEN <<>> ELSE OptionOr(sets[1].set[1].columns, <<>>)

\* create_prepared_statement: the PreparedStatementHandle.
PreparedFrom(r) ==
  LET data == r.data[1]
      of(f(_)) == IF data.parameters = <<>> THEN <<>> ELSE [i \in DOMAIN data.parameters[1].columns |-> f(data.parameters[1].columns[i])] IN
  CASE Rejected(r)                   -> RejectedWith(r)
    [] ~Rejected(r) /\ r.data = <<>> -> Failure("Missing response data")
    [] OTHER -> [kind |-> "prepared", handle |-> data.handle, num_params |-> IF data.parameters = <<>> THEN 0 ELSE data.parameters[1].num,
                 types |-> of(LAMBDA p : p.type), names |-> of(LAMBDA p : p.name), result_columns |-> ResultSetColumns(data)]

\* login_exchange, SessionInfo::from: what the session keeps of the login.
SessionInfoFrom(r) ==
  CASE Rejected(r)                   -> RejectedWith(r)
    [] ~Rejected(r) /\ r.data = <<>> -> Failure("Missing response data")
    [] OTHER -> [kind |-> "session", id |-> r.data[1].id, release |-> r.data[1].release,
                 message_size |-> OptionOr(r.data[1].message_size, DefaultMessageSize)]

\* Requests that only need an answer.
Acknowledged(r) == IF Rejected(r) THEN RejectedWith(r) ELSE [kind |-> "done"]

-----------------------------------------------------------------------------
(* One exchange: what the transport holds afterwards.  A client is         *)
(* [positions, schema, message_size], an exchange [ask, reply].            *)

Asked(client, ask) ==
  CASE ask.kind = "execute" -> ExecuteRequest(ask.sql)
    [] ask.kind = "fetch"   -> FetchRequest(ask.handle, StartOf(client.positions, ask.handle), client.message_size)
    [] ask.kind = "close"   -> CloseResultSetRequest(<<ask.handle>>)
    [] ask.kind = "prepare" -> CreatePreparedRequest(ask.sql)
    [] ask.kind = "release" -> ClosePreparedRequest(ask.handle)
    [] ask.kind \in {"currentSchema", "autocommit", "queryTimeout"} -> SetAttributesRequest(ask.kind, ask.value)
    [] ask.kind = "refresh" -> GetAttributesRequest
    [] ask.kind = "leave"   -> DisconnectRequest

Answer(ask, reply) ==
  CASE ask.kind = "execute" -> QueryResultFrom(reply)
    [] ask.kind = "fetch"   -> FetchedFrom(reply)
    [] ask.kind = "prepare" -> PreparedFrom(reply)
    [] OTHER                -> Acknowledged(reply)

\* The positions change before the request of close_result_set, the schema with every
\* response, the positions of execute and fetch only with a good one.
Exchange(client, ask, reply) ==
  LET answer == Answer(ask, reply) IN
  [client EXCEPT
     !.schema    = RecordCurrentSchema(@, reply),
     !.positions = CASE ask.kind = "close" -> Without(@, ask.handle)
                     [] answer.kind = "fetched" -> Put(@, ask.handle, FetchedPosition(@, ask.handle, answer.rows))
                     [] ask.kind = "execute" -> PositionsAfter(@, answer)
                     [] OTHER -> @]

-----------------------------------------------------------------------------
(* The key of the server: bytes in DER, and the block the password is in.  *)

BadKey == <<0 - 1>>

\* read_der_length: <<length, bytes used>>.
ReadDerLength(data) ==
  LET count == data[1] - 128 IN
  CASE data = <<>>                     -> BadKey
    [] data # <<>> /\ data[1] < 128    -> <<data[1], 1>>
    [] OTHER -> IF count = 0 \/ count > 3 \/ Len(data) < 1 + count THEN BadKey
                ELSE <<FoldLeft(LAMBDA n, b : n * 256 + b, 0, SubSeq(data, 2, 1 + count)), 1 + count>>

\* read_der_integer: <<value, bytes used>>, without the zero for the sign.
ReadDerInteger(data) ==
  IF data = <<>> \/ data[1] # 2 THEN BadKey
  ELSE Then(ReadDerLength(Tail(data)), LAMBDA length :
         LET header == 1 + length[2]
             value  == SubSeq(data, header + 1, header + length[1]) IN
         IF length = BadKey THEN BadKey
         ELSE IF Len(data) < header + length[1] THEN BadKey
         ELSE <<IF Len(value) > 1 /\ value[1] = 0 THEN Tail(value) ELSE value, header + length[1]>>)

From(data, i) == SubSeq(data, i, Len(data))

\* The two integers of the sequence, and nothing behind them.
ReadModulusAndExponent(body) ==
  Then(ReadDerInteger(body), LAMBDA n :
    IF n = BadKey THEN BadKey
    ELSE Then(ReadDerInteger(From(body, n[2] + 1)), LAMBDA e :
           IF e = BadKey THEN BadKey ELSE IF n[2] + e[2] # Len(body) THEN BadKey ELSE <<n[1], e[1]>>))

\* parse_rsa_public_key: <<n, e>>.
ParseRsaPublicKey(der) ==
  IF der = <<>> \/ der[1] # 48 THEN BadKey
  ELSE Then(ReadDerLength(Tail(der)), LAMBDA length :
         LET start == 2 + length[2] IN
         IF length = BadKey THEN BadKey
         ELSE IF start + length[1] - 1 > Len(der) THEN BadKey
         ELSE ReadModulusAndExponent(SubSeq(der, start, start + length[1] - 1)))

\* pem_to_pkcs1_der: the lines between the two markers.
PemToDer(pem) == IF pem.begin /\ pem.end THEN FlattenSeq(pem.lines) ELSE BadKey

\* BigUint::bits, of a number without leading zeros.
Bits(bytes) == 8 * (Len(bytes) - 1) + (CHOOSE b \in 1 .. 8 : 2 ^ (b - 1) <= bytes[1] /\ bytes[1] < 2 ^ b)

Filler == 7   \* any byte but zero: SystemRandom, and zeros are drawn again

\* pkcs1_v15_pad: 0, 2, the filler, 0, the message.
Pad(message, k) == IF Len(message) > k - 11 THEN BadKey ELSE <<0, 2>> \o [i \in 1 .. k - Len(message) - 3 |-> Filler] \o <<0>> \o message

\* encrypt_password: the block the server gets when it decrypts, and the size it has.
EncryptPassword(password, pem) ==
  IF PemToDer(pem) = BadKey THEN BadKey
  ELSE Then(ParseRsaPublicKey(PemToDer(pem)), LAMBDA key :
         IF key = BadKey THEN BadKey
         ELSE IF Bits(key[1]) \notin MinKeyBits .. MaxKeyBits THEN BadKey
         ELSE Pad(password, Len(key[1])))

\* login_exchange: the requests sent, and the session or why there is none.
LoginExchange(credentials, keyReply, loginReply) ==
  LET block == EncryptPassword(credentials.password, keyReply.data[1])
      ended(result) == [sent |-> <<LoginInit>>, result |-> result] IN
  CASE Rejected(keyReply)                          -> ended(RejectedWith(keyReply))
    [] ~Rejected(keyReply) /\ keyReply.data = <<>> -> ended(Failure("Missing public key data"))
    [] OTHER -> IF block = BadKey THEN ended(Failure("key"))
                ELSE [sent |-> <<LoginInit, AuthRequest(credentials, block)>>, result |-> SessionInfoFrom(loginReply)]
=============================================================================
