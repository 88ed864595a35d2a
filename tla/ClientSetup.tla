---------------------------- MODULE ClientSetup -----------------------------
(***************************************************************************)
(* From what a caller asks for to the server it talks to: the builders     *)
(* (connection/params.rs, adbc/connection.rs), the Driver and Database of  *)
(* the Rust interface (adbc/driver.rs, database.rs), the options of the    *)
(* ADBC objects (adbc_ffi.rs), the parameters a transport gets             *)
(* (transport/protocol.rs) and the certificates it trusts (tls.rs).        *)
(***************************************************************************)
EXTENDS ConnParams

-----------------------------------------------------------------------------
(* The builders                                                            *)

\* The setters of ConnectionBuilder, by the URI keys they stand for.
SettingKeys == {"connection_timeout", "query_timeout", "use_tls", "validate_certificate", "certificate_fingerprint",
                "client_name", "client_version", "transport"}

\* ConnectionBuilder::new.
NewBuilder == [field \in {"host", "port", "username", "password", "schema"} \cup SettingKeys |-> Absent]

\* ConnectionBuilder::build: the builder takes any text for a transport.
BuilderParams(b) ==
  CASE b.host = Absent                             -> Failed("host")
    [] b.host # Absent /\ b.username = Absent      -> Failed("username")
    [] OTHER -> BuildParams(b.host, IF b.port = Absent THEN <<DefaultPort>> ELSE b.port, b.username, b.password, b.schema,
                            [k \in {<<s>> : s \in {f \in SettingKeys : b[f] # Absent}} |-> b[k[1]]])

-----------------------------------------------------------------------------
(* Driver and Database of the Rust interface                               *)

\* Driver::open, Database::from_str.
DriverOpen(uri) == ParseWithCredentials(uri, Absent, Absent)

\* validate_connection_string.
ValidConnectionString(uri) == DriverOpen(uri).error = "none"

\* Database::new: the string that is shown has no password.
ShownConnection(p) == <<p.username, p.host, p.port, p.schema>>

-----------------------------------------------------------------------------
(* What the transport gets                                                 *)

\* A setting whose value is one of the given ones.
ValuesOf(p, s) == p.settings[s]

\* from_params: the native transport unless another is asked for.
TransportFor(choice) ==
  CASE choice \in {Absent, <<"native">>} -> "native" [] choice = <<"websocket">> -> "websocket" [] OTHER -> "unavailable"

\* connect_with_transport: the parameters of the transport and the identity it logs in with.
TransportParams(p) ==
  {[host |-> p.host, port |-> p.port, use_tls |-> Booleans[t[1]], validate |-> Booleans[v[1]], fingerprint |-> f, timeout |-> Seconds[c[1]]] :
     t \in ValuesOf(p, "use_tls"), v \in ValuesOf(p, "validate"), f \in ValuesOf(p, "fingerprint"), c \in ValuesOf(p, "connection_timeout")}

TransportCredentials(p) ==
  {[username |-> p.username, password |-> p.password, client |-> n, version |-> v] :
     n \in ValuesOf(p, "client_name"), v \in ValuesOf(p, "client_version")}

\* to_websocket_url: the address as it is, without the brackets of an IPv6 address.
WebsocketUrl(t) == <<IF t.use_tls THEN "wss" ELSE "ws">> \o t.host \o <<":">> \o t.port

-----------------------------------------------------------------------------
(* Certificates.  A certificate is [fingerprint, trusted, names], trusted  *)
(* if its chain ends at a native root.                                      *)

\* Mutant: the fingerprint is only looked at if certificates are validated.
Verifier_ValidatedOnly(t) ==
  IF ~t.validate THEN "any" ELSE IF t.fingerprint # Absent THEN "fingerprint" ELSE "roots"

\* client_config: a fingerprint takes precedence.
Verifier(t) == IF t.fingerprint # Absent THEN "fingerprint" ELSE IF t.validate THEN "roots" ELSE "any"

\* FingerprintVerifier, NoVerifier, the verifier of rustls: the fingerprint is spelled
\* in lower case and is all that counts.
Verified(t, certificate) ==
  CASE Verifier(t) = "any"         -> TRUE
    [] Verifier(t) = "fingerprint" -> certificate.fingerprint = t.fingerprint
    [] Verifier(t) = "roots"       -> certificate.trusted /\ t.host \in certificate.names

\* client_handshake, in the transports' connect: without TLS nothing is verified.
SessionOpens(t, certificate) == t.use_tls => Verified(t, certificate)

-----------------------------------------------------------------------------
(* Options of the ADBC objects.  A value is [type, value]; a call returns   *)
(* [object, status].                                                        *)

Status(object, status) == [object |-> object, status |-> status]

Stored(options, key, value) == [k \in DOMAIN options \cup {key} |-> IF k = key THEN value ELSE options[k]]

\* FfiDatabase::new.
NewDatabase == [uri |-> Absent, username |-> Absent, password |-> Absent, options |-> <<>>]

\* FfiDatabase::set_option: any other key is kept with its type.
SetDatabaseOption(db, key, v) ==
  CASE key \in {"uri", "username", "password"} ->
         IF v.type = "string" THEN Status([db EXCEPT ![key] = v.value], "ok") ELSE Status(db, "InvalidArguments")
    [] key = "future" -> Status(db, "NotImplemented")
    [] OTHER          -> Status([db EXCEPT !.options = Stored(@, key, v)], "ok")

\* get_option_string, get_option_bytes, get_option_int, get_option_double.
ReadOption(options, key, type) ==
  IF key \in DOMAIN options /\ options[key].type = type THEN Status(options[key].value, "ok") ELSE Status(Absent, "NotFound")

GetDatabaseOption(db, key, type) ==
  CASE key \in {"uri", "username"} /\ type = "string" /\ db[key] # Absent -> Status(db[key], "ok")
    [] key = "password" /\ type = "string"                               -> Status(Absent, "InvalidArguments")
    [] OTHER                                                             -> ReadOption(db.options, key, type)

\* new_database_with_opts: the first option that is refused ends it.
DatabaseWithOptions(calls) ==
  FoldLeft(LAMBDA acc, call : IF acc.status # "ok" THEN acc ELSE SetDatabaseOption(acc.object, call[1], call[2]), Status(NewDatabase, "ok"), calls)

Parsed(p) == Status(p, IF p.error = "none" THEN "ok" ELSE "InvalidArguments")

\* build_connection_params, new_connection: a bad URI is told when the connection is
\* made, not at its first statement.
NewConnection(db) ==
  IF db.uri = Absent THEN Status(Failed("uri"), "InvalidState")
  ELSE Parsed(ParseWithCredentials(db.uri, db.username, db.password))

\* A connection is [options, params, schema]; schema is the one of the server, "closed"
\* until the connection is opened, which its first statement does (ensure_connected).
OpenedConnection(p) == [options |-> <<>>, params |-> p, schema |-> <<"closed">>]

Ensured(connection) == IF connection.schema = <<"closed">> THEN [connection EXCEPT !.schema = connection.params.schema] ELSE connection

\* FfiConnection::set_option, apply_current_schema; AutoCommit is in FfiConnection.
SetConnectionOption(connection, key, v) ==
  CASE key = "current_schema" ->
         IF v.type = "string" THEN Status([Ensured(connection) EXCEPT !.schema = v.value], "ok") ELSE Status(connection, "InvalidArguments")
    [] key \in {"current_catalog", "future"} -> Status(connection, "NotImplemented")
    [] OTHER -> Status([connection EXCEPT !.options = Stored(@, key, v)], "ok")

\* read_current_schema: the one of the URI while there is no session.
ReadCurrentSchema(connection) ==
  LET schema == IF connection.schema = <<"closed">> THEN connection.params.schema ELSE connection.schema IN
  Status(schema, IF schema = Absent THEN "NotFound" ELSE "ok")

\* FfiConnection::get_option_string and the other getters.  The standard keys ReadOnly
\* and IsolationLevel are stored, but only read back by their names.
GetConnectionOption(connection, key, type) ==
  CASE key = "current_catalog" /\ type = "string" -> Status(<<"EXA">>, "ok")
    [] key = "current_schema" /\ type = "string"  -> ReadCurrentSchema(connection)
    [] key \in {"read_only", "isolation_level"}   -> Status(Absent, "NotFound")
    [] OTHER                                      -> ReadOption(connection.options, key, type)

\* FfiStatement::set_option and its getters: every key is kept.
SetStatementOption(options, key, v) == Stored(options, key, v)
GetStatementOption(options, key, type) == ReadOption(options, key, type)

\* get_table_types.
GetTableTypes == <<"TABLE", "VIEW", "SYSTEM TABLE">>
=============================================================================
