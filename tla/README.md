# A TLA+ model of exarrow-rs

exarrow-rs is an ADBC driver for Exasol written in Rust. It speaks two wire
protocols (a native binary one and a WebSocket/JSON one), moves bulk data
through HTTP tunnels that Exasol dials back into, and is used as a Rust library
or, through the ADBC C interface, by a driver manager. This directory holds a
model of the driver (state machines for what depends on the order of events,
operators for its conversions and formats), the TLC configurations that check
the model on small instances, and TLAPS proofs of the results that matter most
for all parameters.

File names below are relative to `src/src/` of the repository. `PROJECT.json`
maps every definition of the model to the lines it stands for.

## 1. Inventory

| Component | State it keeps | Operations | What is hard about it | What makes it correct |
|---|---|---|---|---|
| **transport core** `transport/lifecycle.rs`, `deadline.rs` | `ConnectionState`, the stored `SetupDeadline` | `begin_connect`, `authenticate_within_deadline`, `close_gracefully`, `terminate`, `require` | a login that times out races its late answer; a retried login; close and terminate in any order | one timeout bounds connect and all logins; the end is final; no socket unless open |
| **native transport** `transport/native/` | socket, serial counter, receive buffer, cipher, session attributes | connect (TCP, TLS), three-phase login, execute, fetch, prepared statements, attributes, disconnect | responses have no usable request id; "still executing" messages; batches split over several messages; cipher switched on in the middle of a login | an operation gets the answer to its own request; a split batch is a partition |
| **websocket transport** `transport/websocket.rs`, `messages.rs` | socket | the same trait over JSON | as above, plus JSON framing | as above |
| **adbc Connection** `adbc/connection.rs`, **Session** `connection/session.rs` | transport behind a mutex, session state, `in_transaction`, applied `query_timeout`, current schema | execute, prepare, transactions, transfers, metadata, close | the server keeps attributes (autocommit, queryTimeout) that the driver mirrors; each operation is several requests any of which may fail | mirror and server agree; a transaction ends whole; a statement runs under its own timeout |
| **adbc_ffi** `adbc_ffi.rs` | the lazily dialled connection, the `AutoCommit` option, a runtime, statement options | `set_option`, `commit`, `rollback`, statements, bulk ingestion, drop | an option that changes before a request that may fail; long call sequences | option and server agree; commit makes visible |
| **query** `query/` | a result set's handle, position and buffered page; statement parameters | fetch, close, bind, SQL builders | lazy fetches on a shared transport | every row once, in order |
| **export** `export/` | tunnel task, relay task, two channels, the discard notification, the timer | `export_to_callback` and its file, stream, list, Arrow and Parquet users | five concurrent parties; each may fail or stop; a bound that may expire at any point | in order, never silently truncated, the right error, transport in sync, always returns |
| **import** `import/` | a pool of tunnels, one task per file, the joining task | single source, many files, Arrow, Parquet | fan-out, fail-fast, a statement that fails while streams run | success means all was streamed; errors name the culprit; no task left |
| **http_transport** `transport/http_transport.rs`, **tls** | one tunnel: socket, TLS, buffer | EXA handshake, deferred TLS, export and import requests | chunked bodies, range requests, TLS inside the tunnel | no byte lost, added or read twice |
| **types**, **arrow_conversion**, **native formats**, **SQL builders** | none | conversions, inference, parsing, quoting | numeric edges, lengths that nothing delimits, text inside text | what is written reads back as the same; types hold their values in any order of files |
| **connection params**, **tls**, **Driver/Database** | options set so far | URI, builder, options, verifier | several sources for one setting | the same wishes give the same connection; only the certificates asked for are trusted |
| **error** | none | texts | | |

How they interact. A `Connection` holds its transport behind a mutex and every
operation borrows the connection mutably, so requests of one connection follow
each other; the one thing that breaks this order is a future that is dropped
while it waits. Imports and exports send their statement on that same transport
while tasks of their own serve the tunnels, and must leave the transport with
nothing unread on it. The FFI connection drives a `Connection` from
synchronous calls on its own runtime.

The hazards, each at its line and with the properties that would catch it, are
listed in `PROJECT.json` under `hazards`.

## 2. Modules

State machines:

| Module | Models | Extends |
|---|---|---|
| `Transport` | one transport connection, server and network included | |
| `TransportProofs` | its theorems | `Transport` |
| `NativeLogin` | the native login with its two key streams, and the current schema of the session | |
| `Session` | a `Connection`, its `Session` and the database session | |
| `FfiConnection` | the driver manager's connection on top of `Session` | `Session` |
| `SessionProofs` | theorems about these three and about `NativePassword` | `FfiConnection`, `NativeLogin`, `NativePassword` |
| `PreparedBatch` | one execution of a prepared statement for a batch of rows, split into messages or run row by row | |
| `FfiStatement` | statements of one FFI connection: SQL text, bind, prepare, execute, bulk ingestion | `PreparedBatch` |
| `FfiStatementProofs` | theorems about both | `FfiStatement` |
| `HttpTunnel` | one tunnel: TCP, EXA handshake, deferred TLS, export, import and Parquet requests | |
| `HttpTunnelProofs` | its theorems | `HttpTunnel` |
| `CsvExport` | one `export_to_callback` with all its tasks | |
| `ExportFile` | the exports a caller asks for (callback, file, list, Arrow IPC, Parquet) on top of it | `CsvExport` |
| `ExportFileProofs` | theorems about both and about `ValueText` | `ExportFile`, `ValueText` |
| `SingleImport` | an import over one tunnel, from every kind of source | |
| `SingleImportProofs` | its theorems | `SingleImport` |
| `ParallelImport` | one multi-file import, CSV or Parquet, with all its tasks | |
| `ParallelImportProofs` | its theorems, and those about `TypeMapping` | `ParallelImport`, `TypeMapping` |
| `ResultSet` | what a result set promises its reader: the abstract specification | |
| `ResultFetch` | reading result sets over a shared transport, by `fetch_all` or by the iterator | implements `ResultSet` |
| `ResultFetchProofs` | its theorems, the refinement of `ResultSet` included | `ResultFetch` |

Conversions, as operators:

| Module | Models |
|---|---|
| `CsvText`, `CsvArrays` | CSV rows as imports write them and exports read them; the columns built from their fields |
| `ValueText` | the text of dates, timestamps, intervals and decimals |
| `TypeMapping` | Exasol and Arrow types, inference and widening over files, DDL |
| `NativeWire` | attribute lists, response envelopes, result sets and column descriptions of the native protocol |
| `ColumnValues` | values of results (JSON and binary) and of parameters |
| `WsMessages`, `NativeKeys`, `NativePassword` | JSON requests and answers, fetch positions; the keys and passwords of both logins |
| `SqlText`, `TransferSql`, `TransferOptions` | placeholder substitution; IMPORT and EXPORT statements; from options to those statements |
| `ConnParams`, `ClientSetup` | connection strings; builders, Driver, Database, ADBC options, the verifier |
| `FfiObjects` | `get_objects`, `get_table_schema` and the metadata queries |

`MCFfiStatement`, `MCHttpTunnel` and `MCResultFetch` hold constants for TLC.
`MCConversions` holds the inputs of the conversions, the reference definitions
and the properties. Each other run names its module and `.cfg` directly.
Definitions whose name contains an underscore after another definition's name
(`BeginLogin_RestartsDeadline`) are mutants: plausible wrong versions of the
definition that follows them. No specification uses them; `PROJECT.json` pairs
each with the property it must violate, so that every property is known to
depend on the code it is about. A property that is a conjunction has a mutant
for most of its parts.

### Transport

`state`, `deadline` and `stream` are fields of the code. `op` is the operation
whose future is pending; `outbox` and `inbox` are the two directions of the
socket. Every message carries the number of the request it belongs to, which
the wire does not: the code takes the next final message for the answer to the
request it has just sent, and the tag lets `ResponsesMatch` say whether that was
right. `spent` and `slips` are history: the ticks spent waiting in `connect()`
and logins, and the events that can put the socket out of step: a future that
waits for a response was dropped, a native login took a status message for its
answer, a WebSocket `close()` was dropped after it had given up its stream.

The two transports share the lifecycle; `transport` says which one is used. They
differ in the exchanges of a login (three, or two with WebSocket), in what a login
does with a "still executing" message (the native `login_exchange` reads one message
per phase and takes the status for the answer, WebSocket skips it as every other
operation does) and in `close()` (WebSocket takes its stream before it waits, and then
reads to the end of it). The number of connect steps (TCP, TLS, WebSocket upgrade) is
a constant. One action begins an operation and sends its first request; others
receive. A server may answer, send "still executing", or say nothing for ever; the
peer may vanish. `Abandon` is the caller dropping a pending future. `Terminate` during
a request is what the timed-out export does: it drops the statement's future and then
calls `terminate()`.

Left out: message contents (`NativeWire`, `WsMessages`) and the cipher
(`NativeLogin`). A write to a vanished peer is accepted and lost (the error
surfaces at the read), which covers both failures of the code's send and receive
since both return an error and change nothing.

### NativeLogin

The three phases of `login_exchange`, with keys when the socket has no TLS, then
what `connect_with_transport` does (query timeout, schema), requests,
`set_schema`, `refresh_current_schema` and close. A payload is its length and the
key-stream position at which it was enciphered; both ends advance their own
positions, and `garbled` records that somebody deciphered at the wrong one. The
server may reject any phase, keep a session waiting, change the schema in a
response, or drop it for another session's sake without telling (`untold`). A
user of the bare transport may log in again after a rejection. Status messages come
for statements only; what one during the login does is in `Transport`.

### Session and FfiConnection

Each operation is one action, because operations of a connection cannot
interleave; inside it every request is done, refused, or lost with the socket.
`autocommit`, `limit`, `staged` and `visible` are the server's: the attribute,
the `queryTimeout` in force, the writes of the open transaction and the writes
other sessions see. The server is modelled from how the driver uses it: with
autocommit off a write is staged until COMMIT or ROLLBACK, with autocommit on it
is visible at once, and the end of a database session discards what is staged. A
statement that fails changes no data; the abort of a whole transaction by the
server (a conflict between sessions) is not modelled.

A transport error of a statement leaves the driver's state alone and the link
`broken`. Lost answers are modelled: the COMMIT, or the write under autocommit,
may have taken effect although the caller gets an error.

Durations are in ticks of `1/TicksPerSecond` second, finer than a millisecond:
`Millis` is the cut of `create_statement`, which passes the connection's timeout on in
whole milliseconds, and `SecsCeil` does the rounding of `secs_ceil`. A limit above
`MaxLimit` cannot be encoded, as in `set_query_timeout` of the native transport.

`FfiConnection` extends `Session` and reuses its operations. A connection is
either the driver manager's, dialled by `ensure_connected` before each operation
and with the `auto_commit` option that `apply_auto_commit` changes before it
talks to the server, or used directly (`inner = "direct"`), and then all of
`Session`'s operations are open to its user. `switched` is history: whether the last
change of AutoCommit went through without an error, which a repeated setting is not.

### PreparedBatch and FfiStatement

The statements of an FFI connection share its connection behind a mutex and may
be used from threads of their own. A call is a sequence of steps that ends where
the code gives the mutex back: `prepare` and the batch it is for are two
acquisitions, the DDL of an ingest and its import too, but a whole batch is one.
`sql`, `prepared`, `bound` and `options` are fields of `FfiStatement`; `pc` and
`call` are the position and the locals of a running call.

`PreparedBatch` is what happens while a batch holds the connection. A batch is the
number of its columns, the offset at which each encoded row ends, and the row, if
any, with a value that fails, at the conversion (`bound_rows`) or at the encoding.
`SplitRow` is a turn of the loop of `split_parameter_rows`, `SendRange` one of
`execute_prepared_ranges`, and `RunRow` one of the loop for statements that
return a result set. `log` is what the server was asked to execute, with the bind
each request belongs to; a request is executed whole or not at all, is refused, or
is lost before or after it was executed.

An ingest checks options, catalog and column types, runs the DDL of its mode and
imports. `table` is the target of all ingests, with the binds whose rows it holds.
The import itself is one step that stores all rows or none (its tasks are the
business of the import modules). A statement keeps the options of its first
ingest. Parameters are native: the JSON transport sends a batch in one message.

### HttpTunnel

`connect_with_timeout` under one deadline, then one of three conversations: an
export's body pushed by Exasol, in chunks or with a length; an import's chunked body;
or a Parquet file served to HEAD and ranged GET requests. With TLS the handshake waits
for the first read or write (`stream = "TlsHandshakePending"`), because Exasol starts
it only when the statement asks for the tunnel; it has a deadline of its own. A byte
is its position, the wire carries sizes, bytes and headers as tokens. A body is given
by the offsets at which its chunks or parts end; `begun` keeps where each answer to a
request for the Parquet file begins, so that a property can tell the answers apart.
Exasol may be silent, leave or cut a body at any point, the served file may get
shorter, and the consumer of an export may drop its receiver.

### CsvExport and ExportFile

The tunnel task (`serve_export_tunnel`), the relay task (`relay_pieces`), the
callback, `settle_export` and the timer each take steps of their own; the
statement runs on the server. A piece is its number in the body. The biased
`select!` of `settle_export` is the pair `SettleCallback` / `SettleSql`, the
second enabled only while the callback runs.

`ExportFile` adds the callers. The caller's own callback may return at any time,
with success or failure, dropping its receiver or keeping it alive; all others
consume through `write_decoded`, which reads to the end unless its writer fails.
A Parquet export first prepares the SELECT for its schema, closes it, converts
after the export and then writes its file, which it removes again on failure; a
file export creates its file first. Not in the model: tasks that survive a
dropped export future, and decompression.

### SingleImport

`import_csv_internal` polls the statement and the stream in one `select!` in the
caller's task; a callback runs in a task of its own behind a bounded channel.
Parquet imports stream in a spawned task that `finish_import` settles, rendered
by a blocking thread as CSV or served by ranges. All sources share the actions;
`kind` tells them apart.

### ParallelImport

Files are opened, or checked for what auto-creation needs (footers, CREATE
TABLE), before anything is dialled; dial tasks are awaited in file order by
`ParallelTransportPool::connect`; then streaming tasks, the joining task with its
abort-on-drop guard, and `finish_import`. `whole` is what the server knows: the
files whose terminating chunk arrived. A statement that fails because a tunnel
closed is `"cut"` and any other failed one `"err"`; the code cannot tell them
apart.

### ResultSet and ResultFetch

`ResultSet` has four actions per result set: rows are delivered, rows are passed
over with an error, the reading ends, or it fails; it may end only after the
announced number of rows or, if that is unknown, after all of them.
`ResultFetch` implements it with `out` as the rows given to the reader, `passed`
as those plus the rows of pages that could not be converted, and `end` as the
outcome the reader saw.

`Execute` is `execute_query` with `from_transport_result`: it stores the fetch
position and may fail to convert the first rows. A page arrives in one action,
because the transport's mutex is held for the request; between pages other
result sets take theirs. `fetch_positions` is the transport's map, `owner` the
server's: it gives a handle number out again once it has closed it, and it may
refuse a close. A page the transport rejects itself changes nothing and is not an
action for the iterator, which may simply be asked again. `caller` is where
`next_batch` runs, because `Handle::block_on` panics in a task. A connection that
is closed or lost while result sets are read is left to `Transport`; a dropped
`fetch_all` future likewise.

### The conversions

A text is a sequence of the characters the code tells apart, a record of its
parts, or a word, whichever the code's decisions need; a message of the native
protocol is a sequence of bytes whose base and integer widths are parameters. A
step of a thousand (seconds to milliseconds and so on) is a step of `Step`, so
that products stay within TLC's integers. Errors are values of their own
(`Err`, `Bad`, `BadKey`). `Then(read, LAMBDA x : ...)` gives what was read a name, as a
`let` with `?` does in the code. `MCConversions` has one variable for the input; every
state after the first is one input, and each property compares the operators
with a definition that does not use them: the server's tokenizer for SQL, the
calendar for dates, the server's writer for binary results, the private key's
owner for passwords, the set of matching objects for `get_objects`, the last
call for options.

Some details. JSON carries a TIMESTAMP WITH LOCAL TIME ZONE in the session's zone and
the native protocol in UTC, as `specs/type-mapping/exasol-to-arrow-dates/spec.md`
says: the two are compared after the offset. A decimal that overflows the code's `i64`
panics in a debug build and wraps in a release build (`Panic`, `Wrapped`).
`AllColumns` is the server's view of columns, with the columns that all queries but
one use; `GetColumns` takes the view as a parameter. `RecordBatch::try_new`, which
rejects a NULL in a column declared without them, is left out. A key is `Usable` if
its numbers are; the parsers make sure of that for raw keys only.

## 3. Runs

| Run | Result | What it shows |
|---|---|---|
| `transport` | pass | With retries, rejections, timeouts, intermediate messages, a vanishing peer and dropped futures, on either transport: until a future that waits for a response is dropped or a native login meets a status message, every operation gets its own response (`MatchWhileInStep`); connect and all logins stay within one timeout, the end is final, and setup ends although the server may be silent (`SetupEnds`). |
| `session` | pass | Through the driver manager or directly, with every request refused or lost at every point: flag, session state and server agree, every reconciled statement runs under its own limit to the millisecond, nothing of a transaction shows before commit, a transaction ends whole, and once AutoCommit was switched off without an error the server stages (`ManualOnceSwitched`). |
| `ffi_commit_makes_visible` | violation | Finding 1. |
| `csv_export` | pass | Order, no silent truncation, the first failure reported, no half-written Parquet file, the schema's SELECT closed, no tunnel left, transport terminated exactly if its response is unread, and every export returns. |
| `parallel_import` | pass | Success means all files with rows were streamed, the named file is one that failed, rejected files leave no table, the response is always read, no stream outlives the import, and every import returns. |
| `single_import` | pass | The body never ends as if complete, a source that failed is what the caller hears of, the response is read, and the import returns with no task or thread left blocked. |
| `http_tunnel` | pass | Bodies and ranges are exact, a tunnel whose handshake was abandoned carries nothing, setup ends with any Exasol, the two sides never wait for each other in it (`MutualWait`), and the conversation ends with an Exasol that keeps talking. |
| `native_login` | pass | Every payload is deciphered at its position, encrypted exactly without TLS; the schema follows the server; a connect that fails on its schema leaves no session. |
| `result_fetch` | pass | Two result sets interleaved on one transport, handle numbers used again, totals exact, unknown or one off: each fetch starts at the next row of its own result set, reading implements `ResultSet`, `fetch_all` and `close()` ask for the release of the handle, and `fetch_all` returns. |
| `ffi_statement` | pass | Two statements on one connection, with every request refused or lost: the rows of a batch are executed in order, once, as a prefix where it fails; success means every row; a batch that is rejected sends nothing; messages fit and are cut only where they must be; the executions of a batch are not interleaved with others; only the current text is executed; each ingest mode leaves what it says. |
| `conversions` | pass | Each conversion against its reference over 333723 inputs. |
| `bound_decimals` | violation | Finding 2. |

Findings. Each is a statement of the repository's docs that the code does not
keep; quotes and lines are in `PROJECT.json`.

1. On a manual-commit connection only the first `commit()` sends COMMIT.
2. A `Decimal128` bound through ADBC reaches a DECIMAL parameter of the native
   transport as 0.
### Where properties stop short of the documents

The models do what the code does; in these places that is not what a document says,
and the property that is checked has the exception in its statement.

- A connection's `query_timeout` below a millisecond becomes 0, no limit at all, at
  the first statement (`adbc/connection.rs:301`), while the comment of `secs_ceil`
  (`:41-44`) says that a "near-zero-but-nonzero timeout must never collapse into that
  sentinel". `TimeoutInForce` is about the timeout as `create_statement` cuts it.
- After an AutoCommit=off that failed half way, a second off returns Ok without a
  transaction (`adbc_ffi.rs:1334`), and statements autocommit, against
  `specs/adbc-driver/transactions/spec.md:18-24`. AutoCommit off and on again leaves
  the server with autocommit off, since `set_autocommit(true)` is called nowhere,
  against `:44-52` of the same document. `ManualOnceSwitched` is what remains: off
  means staged once the change itself went through.
- An import whose stream failed waits for the statement's response, while
  `specs/import-export/csv-import/spec.md:75-81` wants the error returned "without
  waiting for the SQL response". Here the document is out of date: `SourceToldTruly`
  needs the response read, for the reason the comment at `import/csv.rs:808` gives.
- Two decimals are widened to the larger precision and the larger scale, which may
  leave too few digits before the point: `DECIMAL(5,0)` with `DECIMAL(5,4)` gives
  `DECIMAL(5,4)`, which cannot hold 12345, while `types/infer.rs:191` promises "a type
  that can represent values from both". `SchemasFit` excepts such decimals, and
  `WideningHolds` proves that they are the only ones.
- Sanitized column names that are reserved words are not quoted, although
  `specs/import-export/auto-table-creation/spec.md:7` says so; no property is about
  reserved words.
- Of a JSON result, a decimal that comes as a number with a fraction is multiplied as
  a float and cut, so that it may be one too small in its last place, and an integer
  that overflows an `i64` when it is scaled (`query/results.rs:692`) panics or wraps;
  `specs/type-mapping/boundaries-and-validation/spec.md:7` wants a warning or an error.
  `ResultsRead` bounds the first and excepts the second.
- `get_columns` orders by `ORDINAL_POSITION` (`adbc/connection.rs:1019`), while every
  other query of that view, in the code and in the integration tests, says
  `COLUMN_ORDINAL_POSITION`. `ObjectTreeMatches` says that it lists the columns on a
  server that has the former and fails on one that does not; which one Exasol is, is
  not in the repository (`AllColumns` has the names that the others use).

### Seen while modelling

In the models, but certain without a search or outside what a property is about,
and therefore without a run.

Connections and statements

- A cancelled operation leaves its response on the socket and the next one takes
  it for its own, while `specs/websocket-client/async-lifecycle/spec.md` asks for
  cancellation and for correct matching. `MatchWhileInStep` has the exception.
- A "still executing" message during a native login counts as the answer of its phase
  and puts every later operation one response behind. Nothing in the repository says
  that a server sends one there. (`specs/native-client/protocol/spec.md:41-46` has the
  client send CMD_CONTINUE on such a message; the code reads on without sending.)
- A dropped WebSocket `close()` leaves a transport that is `Authenticated` without a
  stream; its operations fail and `close()` again ends it.
- A transfer runs under the limit of the last statement, not under the
  connection's `query_timeout` (`Transfer`), although `docs/import-export.md:326`
  offers the latter as its bound.
- A login retried after its last phase was rejected can never succeed: the cipher
  stays active (`NativeLogin`).
- A rejected query timeout during connect drops the transport without a
  disconnect; a `set_schema` whose refresh fails leaves the recorded schema stale.
- A bound batch is taken before anything can fail: the same call again after an
  error runs the text without parameters (`ExecuteBound`, `ExecutePlain`).
- Replace drops the table before it creates it; a failed CREATE leaves none
  (`IngestDdl`). Prepared statements that a new SQL text replaces are never closed
  on the server (`SetSqlQuery`).
- `ReadOnly` and `IsolationLevel` of an FFI connection are stored under keys that
  only a read by string name finds.
- `to_websocket_url` writes an IPv6 host without brackets. Two alias keys of one
  URI setting are applied in the order of a hash map. A fingerprint in upper case
  never matches.

Results and parameters

- `next_batch` panics when it has to fetch a page in an async task, as the loop
  in the documentation of `query/mod.rs` would (`NextPanics`).
- An iterator that reached its end keeps its handle on the server unless the
  caller calls `close()` (`NextAtEnd`, `DropReader`), and so does a result whose
  first rows cannot be converted (`Execute`).
- A result set with a handle, an unknown total and no rows in the first response
  counts as complete (`query/results.rs:196`); an execute response that carries
  more or fewer rows than its own count is an error only in `fetch_all` and only
  when nothing is left to fetch. `FirstResponseFits` leaves both out.
- A legacy "more rows" response with no rows looks like a counted envelope
  (`LooksCounted`). GEOMETRY and HASHTYPE are decoded as hex by the public
  converter only.
- Booleans and doubles bound with another type become false and 0.0;
  `scale_decimal_value` saturates; no metadata is written for GEOMETRY, HASHTYPE
  and INTERVAL parameters.
- `build_sql` puts literals in without spaces: `-?` with a negative number makes a
  comment, and a string literal next to a quote merges with it (`Touches`).
- `exasol_encode_pwd` underflows for a server modulus of more than 128 bytes; bytes
  after the SEQUENCE of a DER key are ignored, and its numbers are not checked: `modpow`
  panics for a modulus of 0 and every block is the same for an exponent of 0.
- `get_table_schema` without a schema merges the columns of tables of one name; a
  HASHTYPE size does not parse and is taken for 16; `get_columns` filters by the
  catalog as if it were the schema while `get_tables` ignores it.

Transfers

- The SQL error that a broken stream causes can replace the error that names the
  file, in a multi-file import (`FinishFailed`), against
  `specs/import-export/parallel-import/spec.md:78-81`.
- After a failed connection the remaining dial tasks of
  `ParallelTransportPool::connect` run on, detached, although its comment says
  that they are aborted (`CollectDial`). A callback whose statement fails first
  stays detached too.
- A Parquet import on the CSV path whose file cannot be opened any more after the
  DDL leaves the created table (`OpenParquetFiles`).
- `export_to_arrow_ipc` looks for the missing schema only after the export ran, and
  a write that fails leaves a partial file (`WriteFile`).
- The row count of a file or stream export counts line feeds: quoted ones and the
  header too, and none with CR as the row separator.
- The Arrow reader reads by line: a quoted line break is an error, a one-column
  NULL is skipped as a blank line, and as many blank lines as a batch has rows
  end the data early. A string equal to the null text is written unquoted.
- The export statement of Arrow and Parquet has no NULL clause and never asks for
  column names, whatever the options say; the import always announces LF and SKIP
  0 whatever the writer's options say. Several `.gz` files are sent under
  `options.compression`, without the detection a single file has.
- Sanitized names of two columns may be the same.
- `parse_date_to_days` accepts days a month does not have.
- A request for a bad range is answered 400 without a length on a connection that
  stays open. `read_line` loses the end of a line that ends in CR CR LF, and what
  follows a chunk is not compared with CRLF.

### Bounds

- `Transport`: two connect steps are the least that have a first and a last one; a
  login has its two or three exchanges. Timeouts 0 and 2 with four ticks give a
  deadline that elapses at once, one that elapses in the middle and time left after
  it. Four requests allow, after a native login, an operation or a close, and after a
  WebSocket login two of them; a login rejected in its first exchange and a complete
  one; a dropped or misled operation and its victim. One "still executing" message per
  request is enough, because the loops skip any number the same way. In `MaxTime` and
  `MaxReqs` the bound is a guard. Deadlock checking stays on: an idle transport can
  always be terminated, and a pending operation always has a way to end or to go on
  waiting.
- `FfiConnection` (run `session`): with two ticks in a millisecond and four in a
  second, statement timeouts 0, 2, 4 and 18 give no limit, two that round to the same
  second, and one that cannot be encoded (`MaxLimit` 4); connection timeouts 0, 1, 5
  and 6 give none, one that is cut to nothing, one that is cut to another second, and
  one that stays; the database's own limit (7) differs from all of these. Three writes
  allow two in a transaction and one outside. `CHECK_DEADLOCK FALSE`: a dropped
  connection has no next step. The violation run
  leaves statement timeouts out, which the FFI does not set.
- `NativeLogin`: two logins are a rejected one and its retry; three requests or
  status messages after it make every order of a change of schema, its refresh and
  another request. Two schemas and three names (one spelled as the server does,
  one differently, one that does not exist). A closed session stays, hence
  `CHECK_DEADLOCK FALSE`.
- `HttpTunnel`: pieces of two bytes and bodies of chunks 3, 2 or parts 2, 0, 1 give
  a chunk that is cut into pieces, one that is not, and a part without bytes; a
  file of three bytes with two requests gives ranges inside, over and behind its
  end, in sequence. A setup bound of two ticks separates the two deadlines.
- `CsvExport`, `ExportFile`: the pipeline holds three pieces at most (tunnel slot,
  relay, pipe of capacity 1) besides the one being read, so four pieces fill it; a
  larger pipe only adds room. An export ends, hence `CHECK_DEADLOCK FALSE`.
- `SingleImport`: three pieces and a channel of one give a producer that is
  blocked, one that is ahead and one that has ended.
- `ParallelImport`: with three files one can fail, one can have ended and one
  can still run. An import ends, hence `CHECK_DEADLOCK FALSE`.
- `ResultFetch`: up to three rows, with pages of one or two, give a first response, a
  page in the middle and a last one; the second result set (one row) interferes
  and takes over handle numbers. Reported totals are exact, unknown (0), or off by
  one in both directions. Reading ends, hence `CHECK_DEADLOCK FALSE`.
- `FfiStatement`: a message has room for 4 bytes of rows (`Limit` 6, `Overhead` 2).
  The batches are one that fits exactly, one of two messages, one with a row that
  is too large by itself, one bad value at each stage, one without rows and one
  without columns; the texts return a count, a set, or take no parameter. Two
  binds and two calls give a call and its repetition, or two calls of two
  statements at once. The first statement does everything of its kind, the second
  gets in its way (`MCScenarios`: SQL, or ingestion). Deadlock checking stays on,
  since a caller can always set a text or bind an empty stream.
- `conversions`: every character, kind or boundary the code tells apart occurs, in
  sequences long enough for each pair to meet (texts of up to five characters,
  rows of two fields, three files, four calls or exchanges); years at the turns of
  the calendar, instants around midnight and 1970, keys around each length limit.
  `MaxInt`, `Base`, `IntBytes`, `MinKeyBits` and the like stand for the code's
  limits at a size TLC can count. One input per state: `CHECK_DEADLOCK FALSE`.

No symmetry is used: files are awaited in order, requests are numbered, and the
two result sets differ.

### Fairness

- `Transport`: time passes and an elapsed tokio timer is polled (`Tick`,
  `ConnectTimedOut`, `LoginTimedOut`). Nothing of the server, the network or the
  caller, so `SetupEnds` holds against a silent server.
- `HttpTunnel`: the client polls what can move, time passes, the statement is sent
  once the tunnel's address is known, the consumer takes its pieces. That Exasol
  takes its turns is assumed too, but it may turn silent at any moment, and
  `SetupReturns` covers that case.
- `ExportFile`: the tasks the runtime can poll take their steps; the callback
  takes what there is and returns once its data has ended (which the driver's
  own callbacks do); the server sends its body and answers the statement once
  the transfer is over, and answers a prepare and a close. The timer is not assumed
  to fire.
- `SingleImport`: runnable tasks and threads run, and the server answers when the
  transfer is over. Failures are never forced.
- `ParallelImport`: runnable tasks run, a dial ends (`connect_with_timeout`
  bounds it), and the server asks for the files of a statement it runs and
  answers when the transfer is over. Failures are never forced.
- `ResultFetch`: a pending `fetch_all` is polled and its requests are answered.
  Iterators are not assumed to be called.

## 4. Proofs

Every theorem holds for every value of the constants that satisfies the named
assumption of its module, and TLC evaluates these assumptions on each run. They
are types of the constants and what the code or its input guarantees:

- `TransportAssumption`, `SessionAssumption`: at least one connect step, tick per
  millisecond and per second.
- `ParallelImportAssumption`: more than one file (one file takes the path of
  `SingleImport`). `SingleImportAssumption`, `CsvExportAssumption`: channels have
  room for a piece.
- `PreparedBatchAssumption`: the rows of a batch end at offsets that do not
  decrease, and a value that fails is a value of one of its rows, so that a batch
  without columns has none. `FfiStatementAssumption`: types only.
- `HttpTunnelAssumption`: the offsets of a body do not decrease; the deadline, a
  piece, the channel and the number of requests are not zero.
- `NativeLoginAssumption`: no schema is called like one of the markers `none`,
  `absent` and `empty` of the model.
- `ResultFetchAssumption`: handles are positive, as in the protocol, a page has
  room for a row, and the marker `NoOwner` is no result set.
- `NativePasswordAssumption`: the block length is even and positive (it is 128).
- `TypeMappingAssumption`: the limits are positive, 18 digits are fewer than 36 and
  the longest CHAR is shorter than the longest VARCHAR.

The bounds are guards of the actions, so the theorems also cover every bound.

`TransportProofs`

- `TypeCorrect`: `TypeOK`.
- `ResponsesAlwaysMatch`: `MatchWhileInStep`, on both transports. `ResponsesMatch`
  speaks of the last answer only and is not inductive. The strengthening is
  `OneWhileInStep`, in which `OneOutstanding` says that between operations both
  directions of the socket are empty, and during one everything on it belongs to
  the pending request, the final response last. The argument is that taking the
  final message empties the socket (`FinalIsAlone`) and sending on an empty
  socket re-establishes it (`SendAlone`); a login that ran out of time keeps it
  only because the socket is released.
- `PhasesHold`: the lifecycle state that each pending operation needs (`PhaseInv`)
  and when there is a socket (`StreamInv`): only while open, and always while open
  except when a WebSocket `close()` has given up its stream or was dropped then. A
  native transport is open exactly while it has one. Cancellation included.
- `DeadlineNeverMoves`, `EndNeverUndone`: the action properties, from `PhaseInv`.
- `SetupStaysWithinBudget`: `SetupWithinBudget`, from `BudgetInv`: what has been
  spent and what is left until the deadline never exceed the budget together.

`SessionProofs`, about `NativeLogin` for any number of logins and requests and any
schemas

- `LoginInvariant`: the inductive invariant `LoginInv`. `ShapeInv` and `AskInv` say
  which messages may be under way in each exchange, `PhaseInv` and `KeyInv` when
  each side starts to encipher. `PosInv` is the core: the two ends of a key stream
  differ by exactly the sizes of what is under way, also where a status message
  precedes the answer. `SchemaInv` says the same of the schema: what the client has
  recorded, or will record once it reads what is under way (`Recorded`), is what the
  session is in, unless the server changed it untold.
- `KeystreamsStayAgreed`, `SessionStaysInSchema`: `KeystreamsAgree` and
  `SessionInSchema`, from it.

about `NativePassword`

- `PasswordArrives`: the last part of `PasswordReachesServer`, for every password and
  every phrase that is not empty. The plaintext fills whole blocks (`WholeBlocks`), so
  each of its bytes has one place in one block of ciphertext, and it is at least as
  long as both inputs, so neither is cut short.

and about the established session

- About `Session`: `TypeCorrect`; `TransactionsAgree`, inductive together with the
  types.
- `NothingLeaks`, `EndsWhole`: the action properties, step by step from
  `TransactionAgrees`: inside a transaction the server's autocommit is off, so no
  statement but COMMIT changes what is visible.
- `TimeoutsHold`: `TimeoutInForce` needs `BaselineInv`, that the recorded baseline
  rounds to what the server has while the link works. Timeouts are those that
  `create_statement` passes on, so a whole number of milliseconds is kept. The case
  that needs care is a statement that fails after its timeout was applied:
  `execute_statement` records the baseline before it looks at the result.
- About `FfiConnection`, the specification the run `session` checks:
  `FfiSessionSafe`, `FfiNothingLeaks`, `FfiEndsWhole`. Each call of the driver
  manager is shown to be a step of `Session`, a call that ended before it reached
  the `Connection` (`RefusedStep`), or the commit or begin behind AutoCommit
  (`OptionStep`), so the step lemmas of `Session` are used again (`FfiStepIs`).
- `OffStaysManual`: `ManualOnceSwitched`, from `ManualInv`.

`FfiStatementProofs`, for any number of statements, binds and calls, every batch,
text and message size

- `TypeCorrect`: `TypeOK`.
- `MessagesAlwaysFit`, `CutsAreNeeded`: `MessagesFit`, `CutOnlyWhereNeeded`. Both
  speak of the log alone and are not inductive. `JobInv` carries them back to the
  call that fills the log: each range closed so far, and the one being collected,
  has the right size (`RightSize`: what was put together fits, and not one row more
  would). `CallInv` says that a call has the bind, the text and the prepared
  statement which its next step uses, so that the job's batch is defined;
  `LogInv` is `RightSize` for every request sent. A range closes just when the next
  row would overflow it, which is the second half of `RightSize`, and collects a
  row just when it does not, which is the first.
- `CallsDoAsSetUp`: `CallsAsSetUp`. `TextInv` says that a prepared statement belongs
  to the current text of its statement (a new text forgets it), `HolderInv` that
  the batch that runs is that of the statement which holds the connection, and
  `IngestInv` what an ingest that nobody disturbed knows of the table at each of
  its steps (`Made`).
- `BatchesAreExact`: `BatchesExact`. `FreshInv` says that a bind belongs to one call
  and that nothing was requested for it before its batch runs; `ReadyInv` that a
  batch which runs has been converted; `ProgressInv` that the ranges follow each
  other from the first row (`Chain`), and that the requests in the log end where the
  loop stands, at the end of the log. The last part is what keeps other
  statements' executions out: only the holder of the connection adds to the log.

`ExportFileProofs`, for bodies of any number of pieces and any pipe

- `ExportInvariant`: the inductive invariant `CallInv`. `OrderInv` gives each piece
  its place: the consumer has a prefix of the body, the pipe, the relay, the channel
  and the tunnel hold what follows, without a gap. `TaskInv` and `SettleInv` say how
  each task came to its end and what `settle_export` has done by then, `EndInv` what
  a consumer that saw the end of its data has read, `FileInv` what became of the file.
- `NothingIsLeft`, `ExportIsToldTruly`: `NothingLeft` and `ExportToldTruly`, from it.
- About `ValueText`: `DatesFollow` and `DatesInOrder` (parts of `ValuesSurvive`) say that
  `parse_date_to_days` numbers the days of the calendar, for every year and not only
  those of the run: by month ends, leap days and year ends, each a lemma about the
  days before a month or a year. `MonthsReadBack` is the round trip of an interval in
  months.

`HttpTunnelProofs`, for bodies of any chunks or parts, pieces, channels and files of
any size, and any number of requests

- `TunnelInvariant`: the inductive invariant `TunnelInv`. `BodiesWhole` speaks of what
  has arrived and been written; it is kept only because of where the client is in a
  body. `HasRead(n)` says so for an export: the client has read `n` bytes, and the
  tokens on the wire are those of the body from there on (`ChunksFrom`, `BytesFrom`),
  also when the connection was cut; `OnItsWay(n)` that these `n` bytes are with the
  consumer, in the channel or in the client's hand. `ImportInv` says what the chunks
  written so far decode to, and that the last of them is complete; `ParquetInv` that
  the bytes the current answer still lacks are those of the file from `next` on.
- `BodiesStayWhole`: `BodiesWhole`, from it.
- `ClosedStaysSilent`: `ClosedCarriesNothing`. Once a handshake has begun, the client is
  in it, has withdrawn from it with the stream closed (`Withdrawn`), or is past it and
  never back in the setup (`HandshakeBegun`); from `Withdrawn` no step leads anywhere
  but to the end (`WhereSteps`).

That every token of a chunked body belongs to one of its chunks is the one fact that
needs an induction over numbers; it is proved by taking the first chunk that ends
behind the token (`LeastNumber`).

`SingleImportProofs`, for sources of any number of pieces and any channel

- `ImportInvariant`: `ImportInv`. It counts the pieces between source and tunnel
  for each kind of source (`ReadyInv`, `CallbackInv`, `RendererInv`), and says where
  statement, stream and response are in each phase.
- `SourceIsToldTruly`: `SourceToldTruly`. A body that is ended has all pieces because
  none is left in a channel then; a statement is cut only by a failed stream, whose
  error is kept until the import returns (`CutInv`).

`ParallelImportProofs`, for any number of files

- `ImportInvariant`: `ImportInv`: tasks, joiner, statement, response and table by
  phase, and what the joiner has collected (`JoinerInv`).
- `OutcomesAreTrue`, `NothingIsLeft`: `OutcomeIsTrue` and `NothingLeft`. Only the
  joiner aborts a stream before the import returns, and it keeps the file that
  failed first.
- About `TypeMapping`, for all types: `WideningHolds` and `WideningAssociates` (parts
  of `SchemasFit`): `widen_type` is commutative and associative, and its type holds
  the values of both unless these are decimals of which neither holds the other, when
  it never does (section 3); by cases on text, number and the rest. So the schema of
  several files does not depend on their order; that this carries over to a merge of
  any number of files is an induction and is left to TLC. `TypesReadBack` is the way
  of a type through the DDL and back: the same type, but a HASHTYPE of any size comes
  back with the default size, because the DDL says `HASHTYPE(n BYTE)` and
  `extract_single_param` reads no number that has a unit.

`ResultFetchProofs`, for any number of result sets, handles, rows and rows in a page

- `FetchInvariant`: `FetchInv`. `HandleInv` ties a handle, the position kept under it
  and the result set that reads with it, `OwnerInv` says who may still be behind a
  handle of the server, `RowsInv` which rows were received, given and lost, and
  `CountInv` when they are all that was announced.
- `CursorsStayApart`: `CursorsApart`, whatever the responses claim.
- `ReadsRefine`: `ReadsAsPromised`, the refinement of `ResultSet`: each step of each
  reader is a step of the promise or a stutter. Its hypothesis `FirstResponseFits`
  is the one under which the run checks it; without it the promise is broken in the
  two ways section 3 names.

Only model-checked:

- the liveness properties (`SetupEnds`, `TunnelEnds`, `ExportReturns`,
  `ImportReturns`, `ImportSettles`, `FetchAllReturns`): fairness is outside the
  prover's reach;
- most of what the conversions compute (`MCConversions`): CSV and SQL texts, messages
  and columns are read by recursive operators or folds, and induction over what those
  compute is outside its reach. What needs no induction is proved above: the blocks of
  the password, the widening of types and their texts, the numbers of the days and
  the months of intervals. The times of day and the decimals need arithmetic with
  large divisors that the provers do not finish.

## 5. Not modelled

- Over half of the lines under `src/src/` are unit tests inside the source files
  and the transport's test support; they were read for what the code promises.
- `error.rs`: error types and texts. Logging.
- The blocking wrappers of the transfers in `adbc/connection.rs`, which run the
  async method on a runtime; `convert_parquet_files_to_csv` and `connection/auth.rs`,
  which nothing in the driver calls; the interval builders of `arrow_conversion`.
- Cryptography (RSA, ChaCha20, certificates), gzip and bzip2, the readers and
  writers of Arrow and Parquet, the Arrow C interface: library code, seen through
  what the driver does with it.
- Tasks that survive a dropped transfer future; the abort of a transaction by the
  server; two connections in one model.

## 6. Plan

Done: all state machines and conversions of section 2, and proofs of the safety
properties of all state machines.

Left: of the conversions, the facts that need an induction, and liveness, stay with
TLC. The blocking wrappers and the rest of section 5 could be added to the models.
