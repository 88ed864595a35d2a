---------------------------- MODULE SingleImport ----------------------------
(***************************************************************************)
(* An import over one tunnel: from a CSV file, a reader, an iterator, a    *)
(* callback or record batches (src/src/import/csv.rs, arrow.rs), where     *)
(* import_csv_internal polls statement and stream in one select!, and from *)
(* a Parquet file (src/src/import/parquet.rs), as CSV or served by ranges, *)
(* where the stream is a task that finish_import settles.                  *)
(*                                                                         *)
(* The source has N pieces: buffers of CSV, or byte ranges of the file.    *)
(***************************************************************************)
EXTENDS Naturals

CONSTANTS
  N,     \* pieces of the source
  Cap    \* capacity of the channel of a callback or a renderer

ASSUME SingleImportAssumption == N \in Nat \ {0} /\ Cap \in Nat \ {0}

VARIABLES
  kind,       \* the source
  create,     \* create_table_if_not_exists: "yes" or "no"
  phase,      \* where the future of the import is
  ddl,        \* what CREATE TABLE was answered, "none": not sent
  statement,  \* the IMPORT statement on the server; "cut": its tunnel closed early
  response,   \* "unread" while an answer is due on the SQL transport
  stream,     \* the streaming future or task
  producer,   \* the task of the callback, or the thread that renders Parquet as CSV
  queue,      \* pieces in its channel
  made,       \* pieces it has produced
  held,       \* pieces the stream has and has not written
  sent,       \* pieces written to the tunnel
  whole,      \* "yes" once the terminating chunk was written
  result      \* what the import returned

sourceVars == <<producer, queue, made>>
bodyVars   == <<held, sent, whole>>

vars == <<kind, create, phase, ddl, statement, response, stream, sourceVars, bodyVars, result>>

\* import_csv_internal polls these in the caller's task; the others are spawned.
SelectKinds == {"file", "iterator", "callback", "reader", "batches"}
Kinds       == SelectKinds \cup {"parquet_csv", "parquet_native"}

Answered   == statement \in {"ok", "err", "cut"}
StreamOver == stream \in {"ok", "failed", "dropped"}

Return(what) == phase' = "done" /\ result' = what

-----------------------------------------------------------------------------
(* Before the statement                                                    *)

\* infer_schema_from_parquet and the footer checks, then CREATE TABLE; a table
\* that exists already is as good.
CheckFooter ==
  /\ phase = "footer"
  /\ \/ Return("rejected") /\ UNCHANGED ddl
     \/ ddl' \in {"ok", "exists"} /\ phase' = "open" /\ UNCHANGED result
     \/ ddl' = "err" /\ Return("sql_error")
  /\ UNCHANGED <<kind, create, statement, response, stream, sourceVars, bodyVars>>

\* Reading a file, converting record batches or opening a Parquet reader comes
\* before the connection and may fail; Parquet without rows needs no statement.
OpenSource ==
  /\ phase = "open"
  /\ \/ phase' = "connect" /\ UNCHANGED result
     \/ kind \in {"file", "batches", "parquet_csv", "parquet_native"} /\ Return("source_error")
     \/ kind \in {"parquet_csv", "parquet_native"} /\ Return("empty")
  /\ UNCHANGED <<kind, create, ddl, statement, response, stream, sourceVars, bodyVars>>

\* The tunnel is up: the statement goes out and the stream begins.
Connect ==
  /\ phase = "connect"
  /\ \/ Return("connect_error") /\ UNCHANGED <<statement, response, stream, producer>>
     \/ /\ phase' = "running"
        /\ statement' = "running" /\ response' = "unread"
        /\ stream' = CASE kind \in {"file", "iterator"} -> "rendering"
                       [] kind = "callback"             -> "collecting"
                       [] OTHER                         -> "request"
        /\ producer' = IF kind = "callback" THEN "running" ELSE "none"
        /\ UNCHANGED result
  /\ UNCHANGED <<kind, create, ddl, queue, made, bodyVars>>

-----------------------------------------------------------------------------
(* The stream                                                              *)

\* The end of the stream.  In a select! it is the same poll that takes the branch.
StreamEnds(how) ==
  /\ stream' = how
  /\ phase' = IF kind \in SelectKinds /\ phase = "running" THEN "await_sql" ELSE phase

StreamGoesOn(where) == stream' = where /\ UNCHANGED phase

\* The rows are formatted and compressed.
Render ==
  /\ stream = "rendering"
  /\ StreamGoesOn("request")
  /\ held' = N
  /\ UNCHANGED <<kind, create, ddl, statement, response, sourceVars, sent, whole, result>>

\* Mutant: the channel's end is taken for the callback's success.
CollectEnds_NotJoined == StreamGoesOn("request")

\* The channel has ended: the callback is joined and its error is the stream's.
CollectEnds == IF producer = "ok" THEN StreamGoesOn("request") ELSE StreamEnds("failed")

\* The pieces of the callback are collected until it has dropped its sender.
Collect ==
  /\ stream = "collecting"
  /\ \/ queue > 0 /\ queue' = queue - 1 /\ held' = held + 1 /\ UNCHANGED <<stream, phase>>
     \/ queue = 0 /\ producer # "running" /\ CollectEnds /\ UNCHANGED <<queue, held>>
  /\ UNCHANGED <<kind, create, ddl, statement, response, producer, made, sent, whole, result>>

\* Exasol asks for the data; only now a reader is read and Parquet is rendered.
Requested ==
  /\ stream = "request" /\ statement = "running"
  /\ StreamGoesOn(CASE kind = "parquet_native"         -> "serving"
                    [] kind \in {"reader", "batches"} -> "reading"
                    [] OTHER                           -> "writing")
  /\ producer' = IF kind = "parquet_csv" THEN "running" ELSE producer
  /\ UNCHANGED <<kind, create, ddl, statement, response, queue, made, bodyVars, result>>

ReadToEnd ==
  /\ stream = "reading"
  /\ StreamGoesOn("writing")
  /\ held' = N
  /\ UNCHANGED <<kind, create, ddl, statement, response, sourceVars, sent, whole, result>>

WritePiece ==
  /\ stream = "writing"
  /\ \/ held > 0 /\ held' = held - 1 /\ UNCHANGED queue
     \/ kind = "parquet_csv" /\ queue > 0 /\ queue' = queue - 1 /\ UNCHANGED held
  /\ sent' = sent + 1
  /\ UNCHANGED <<kind, create, phase, ddl, statement, response, stream, producer, made, whole, result>>

\* The terminating chunk, for a renderer only after it has ended without error.
EndBody ==
  /\ stream = "writing" /\ held = 0 /\ queue = 0 /\ producer # "running"
  /\ IF kind = "parquet_csv" /\ producer # "ok"
       THEN StreamEnds("failed") /\ UNCHANGED whole
       ELSE StreamEnds("ok") /\ whole' = "yes"
  /\ UNCHANGED <<kind, create, ddl, statement, response, sourceVars, held, sent, result>>

\* Exasol asks for a range of the file, or closes the tunnel when it is done.
Serve ==
  /\ stream = "serving"
  /\ \/ statement = "running" /\ sent < N /\ sent' = sent + 1 /\ UNCHANGED <<stream, phase>>
     \/ Answered /\ StreamEnds("ok") /\ UNCHANGED sent
  /\ UNCHANGED <<kind, create, ddl, statement, response, sourceVars, held, whole, result>>

\* The tunnel, the source, the compression or the file fails; the client is dropped.
StreamFails ==
  /\ ~StreamOver /\ stream # "none"
  /\ StreamEnds("failed")
  /\ UNCHANGED <<kind, create, ddl, statement, response, sourceVars, bodyVars, result>>

-----------------------------------------------------------------------------
(* The callback's task and the rendering thread                            *)

\* A piece goes into the channel; with the receiver gone the send is an error.
Produce ==
  /\ producer = "running"
  /\ \/ StreamOver /\ producer' = "stopped" /\ UNCHANGED <<queue, made>>
     \/ /\ ~StreamOver /\ made < N /\ queue < Cap
        /\ queue' = queue + 1 /\ made' = made + 1
        /\ UNCHANGED producer
     \/ made = N /\ producer' = "ok" /\ UNCHANGED <<queue, made>>
  /\ UNCHANGED <<kind, create, phase, ddl, statement, response, stream, bodyVars, result>>

ProducerFails ==
  /\ producer = "running"
  /\ producer' = "failed"
  /\ UNCHANGED <<kind, create, phase, ddl, statement, response, stream, queue, made, bodyVars, result>>

-----------------------------------------------------------------------------
(* Settling statement and stream                                           *)

\* The select! of import_csv_internal takes the answer of the statement: a failed
\* statement drops the stream.
SqlFirst ==
  /\ phase = "running" /\ kind \in SelectKinds /\ Answered
  /\ response' = "read"
  /\ IF statement = "ok"
       THEN phase' = "await_stream" /\ UNCHANGED <<stream, result>>
       ELSE stream' = "dropped" /\ Return("sql_error")
  /\ UNCHANGED <<kind, create, ddl, statement, sourceVars, bodyVars>>

\* Mutant: a failed stream is returned without waiting for the statement.
AwaitSql_Hasty ==
  /\ phase = "await_sql"
  /\ stream = "failed" \/ Answered
  /\ response' = IF stream = "failed" THEN response ELSE "read"
  /\ Return(CASE stream = "failed" -> "stream_error" [] statement = "ok" -> "ok" [] OTHER -> "sql_error")
  /\ UNCHANGED <<kind, create, ddl, statement, stream, sourceVars, bodyVars>>

\* Mutant: the statement's error is looked at first.
AwaitSql_StatementWins ==
  /\ phase = "await_sql" /\ Answered
  /\ response' = "read"
  /\ Return(CASE statement # "ok" -> "sql_error" [] stream = "failed" -> "stream_error" [] OTHER -> "ok")
  /\ UNCHANGED <<kind, create, ddl, statement, stream, sourceVars, bodyVars>>

\* The stream ended first: the statement is awaited, then the stream's error wins.
AwaitSql ==
  /\ phase = "await_sql" /\ Answered
  /\ response' = "read"
  /\ Return(CASE stream = "failed" -> "stream_error" [] statement = "ok" -> "ok" [] OTHER -> "sql_error")
  /\ UNCHANGED <<kind, create, ddl, statement, stream, sourceVars, bodyVars>>

\* Mutant: after a failed statement the stream is awaited.
FinishImport_Waits ==
  /\ phase = "running" /\ kind \notin SelectKinds /\ Answered
  /\ statement # "ok" => StreamOver
  /\ response' = "read"
  /\ IF statement = "ok" THEN phase' = "await_stream" /\ UNCHANGED result
     ELSE Return(IF stream = "failed" THEN "stream_error" ELSE "sql_error")
  /\ UNCHANGED <<kind, create, ddl, statement, stream, sourceVars, bodyVars>>

\* finish_import: a failed statement aborts the stream, whose own error wins if
\* it had ended with one.
FinishImport ==
  /\ phase = "running" /\ kind \notin SelectKinds /\ Answered
  /\ response' = "read"
  /\ IF statement = "ok" THEN phase' = "await_stream" /\ UNCHANGED <<stream, result>>
     ELSE /\ stream' = IF StreamOver THEN stream ELSE "dropped"
          /\ Return(IF stream = "failed" THEN "stream_error" ELSE "sql_error")
  /\ UNCHANGED <<kind, create, ddl, statement, sourceVars, bodyVars>>

\* The statement succeeded: the stream is awaited.
AwaitStream ==
  /\ phase = "await_stream" /\ StreamOver
  /\ Return(IF stream = "ok" THEN "ok" ELSE "stream_error")
  /\ UNCHANGED <<kind, create, ddl, statement, response, stream, sourceVars, bodyVars>>

-----------------------------------------------------------------------------
(* The server                                                              *)

Answers(outcome) ==
  /\ statement = "running"
  /\ statement' = outcome
  /\ UNCHANGED <<kind, create, phase, ddl, response, stream, sourceVars, bodyVars, result>>

\* An SQL error, before or during the transfer; the tunnel may stay open.
StatementFails == Answers("err")

\* The whole body arrived, or the tunnel closed before.
StatementEnds ==
  \/ (whole = "yes" \/ (kind = "parquet_native" /\ sent = N)) /\ Answers("ok")
  \/ stream = "failed" /\ whole = "no" /\ Answers("cut")

-----------------------------------------------------------------------------
Init ==
  /\ kind \in Kinds
  /\ create \in (IF kind \in SelectKinds THEN {"no"} ELSE {"yes", "no"})
  /\ phase = IF create = "yes" THEN "footer" ELSE "open"
  /\ ddl = "none" /\ statement = "none" /\ response = "none" /\ stream = "none"
  /\ producer = "none" /\ queue = 0 /\ made = 0
  /\ held = 0 /\ sent = 0 /\ whole = "no"
  /\ result = "none"

Import == CheckFooter \/ OpenSource \/ Connect \/ SqlFirst \/ AwaitSql \/ FinishImport \/ AwaitStream
Stream == Render \/ Collect \/ Requested \/ ReadToEnd \/ WritePiece \/ EndBody \/ Serve

Next ==
  \/ Import \/ Stream \/ Produce \/ StatementEnds
  \/ StreamFails \/ ProducerFails \/ StatementFails

Spec == Init /\ [][Next]_vars

\* The runtime polls what can move, a callback goes on, and the server asks for
\* the data of a statement it runs and answers when the transfer is over.
Fairness == WF_vars(Import) /\ WF_vars(Stream) /\ WF_vars(Produce) /\ WF_vars(StatementEnds)

FairSpec == Spec /\ Fairness

-----------------------------------------------------------------------------
(* Properties.                                                             *)

\* The terminating chunk says that all of the source was sent: a callback or a
\* renderer that failed half way never ends the body as if it were complete.
PartNeverEnds == whole = "yes" => sent = N /\ producer \in {"none", "ok"}

\* Whatever fails first, the response of the statement is read before the import
\* returns.
ResponseRead == phase = "done" => response # "unread"

\* A stream that broke its own statement is what the caller is told about, not
\* the SQL error it caused.
SourceErrorNamed == (phase = "done" /\ statement = "cut") => result = "stream_error"

\* What the server and the caller are told of the source is true, and the next statement
\* is not given the response of this one: the import waits for it even when its stream
\* has failed, unlike what specs/import-export/csv-import/spec.md:75-81 says.
SourceToldTruly == PartNeverEnds /\ SourceErrorNamed /\ ResponseRead

\* Every import returns, also when Exasol rejects the statement without asking
\* for data, and then no callback task and no rendering thread stays blocked.
ImportSettles == <>[](phase = "done" /\ producer # "running")
=============================================================================
