---------------------------- MODULE FfiStatement ----------------------------
(***************************************************************************)
(* FfiStatement of src/src/adbc_ffi.rs: statements of one FfiConnection,   *)
(* each used by a thread of its own, over the connection they share behind *)
(* a mutex.  A statement runs SQL text, SQL text with a bound batch, or,   *)
(* once it has a target table, a bulk ingest.                              *)
(*                                                                         *)
(* A call is a sequence of steps; the mutex is held for a whole batch, but *)
(* not between the parts of a call that take it anew (prepare, then the    *)
(* batch; the DDL of an ingest, then its import).  The table is the one    *)
(* every ingest targets, with the binds whose rows are in it; 0 stands for *)
(* rows it held before.  Here an import stores all its rows or none.       *)
(***************************************************************************)
EXTENDS PreparedBatch

CONSTANTS
  IngestOptions,  \* the ingest options a caller sets
  Scenarios,      \* the texts, batches and options that each statement's caller may use
  MaxBinds,       \* bound on the binds
  MaxCalls        \* bound on the calls that may reach the server

NoText == [id |-> 0, params |-> 0, result |-> "count"]

ASSUME FfiStatementAssumption ==
  /\ MaxBinds \in Nat
  /\ MaxCalls \in Nat
  /\ NoText \notin Texts
  /\ Scenarios \subseteq [Statements -> [texts : SUBSET Texts, batches : SUBSET Batches,
                                         options : SUBSET IngestOptions]]
  /\ \A o \in IngestOptions :
       /\ o.target = "set"
       /\ o.temporary \in {"unset", "true"}
       /\ o.mode \in {"unset", "create", "append", "create_append", "replace", "unknown"}
       /\ o.catalog \in {"unset", "EXA", "other"}

VARIABLES
  sql,       \* per statement: its SQL text, or NoText
  prepared,  \* its prepared statement's handle, or 0
  bound,     \* the bind of its bound_data, or 0
  options,   \* its ingest options
  pc,        \* "idle", or the next step of its call
  call,      \* that call: its api and the bind it took
  result,    \* what its last call returned
  before,    \* history: the table when its ingest began
  shared,    \* history: whether another statement wrote the table since
  table,     \* the server: the target table
  calls,     \* calls made so far
  uses       \* the scenario, which does not change

stmtVars == <<sql, prepared, bound, options>>
callVars == <<pc, call, result>>
tableVars == <<before, shared, table>>
vars == <<binds, handles, batchVars, serverVars, stmtVars, callVars, tableVars, calls, uses>>

Absent == [exists |-> "no", rows |-> {}]
Table(rows) == [exists |-> "yes", rows |-> rows]
NoCall == [api |-> "none", bind |-> 0]
NoResult == [kind |-> "none", bind |-> 0, count |-> 0]
NoOptions == [target |-> "unset", temporary |-> "unset", mode |-> "unset", catalog |-> "unset"]

IsBulkIngest(s) == options[s].target # "unset"

\* The mode of an ingest: append unless one is set.
IngestMode(o) == IF o.mode = "unset" THEN "append" ELSE o.mode

Init ==
  /\ BatchInit
  /\ sql = [s \in Statements |-> NoText]
  /\ prepared = [s \in Statements |-> 0]
  /\ bound = [s \in Statements |-> 0]
  /\ options = [s \in Statements |-> NoOptions]
  /\ pc = [s \in Statements |-> "idle"]
  /\ call = [s \in Statements |-> NoCall]
  /\ result = [s \in Statements |-> NoResult]
  /\ before = [s \in Statements |-> Absent]
  /\ shared = [s \in Statements |-> "no"]
  /\ table \in {Absent, Table({0})}
  /\ calls = 0
  /\ uses \in Scenarios

\* The call of s returns.
Finish(s, kind, count) ==
  /\ pc' = [pc EXCEPT ![s] = "idle"]
  /\ call' = [call EXCEPT ![s] = NoCall]
  /\ result' = [result EXCEPT ![s] = [kind |-> kind, bind |-> call[s].bind, count |-> count]]

\* The call of s goes on.
Goto(s, step) ==
  /\ pc' = [pc EXCEPT ![s] = step]
  /\ UNCHANGED <<call, result>>

\* A call of s begins.
Enter(s, api, bind, step) ==
  /\ pc[s] = "idle"
  /\ calls < MaxCalls
  /\ calls' = calls + 1
  /\ pc' = [pc EXCEPT ![s] = step]
  /\ call' = [call EXCEPT ![s] = [api |-> api, bind |-> bind]]
  /\ result' = [result EXCEPT ![s] = NoResult]

-----------------------------------------------------------------------------
(* The statement's own state                                               *)

\* Mutant: the prepared statement of the old text is kept.
SetSqlQuery_KeepsPrepared(s, t) ==
  /\ pc[s] = "idle"
  /\ sql' = [sql EXCEPT ![s] = t]
  /\ UNCHANGED <<binds, handles, batchVars, serverVars, prepared, bound, options, callVars, tableVars,
                 calls>>

\* A prepared statement belongs to the text it was prepared for.  It is dropped
\* without being closed on the server.
SetSqlQuery(s, t) ==
  /\ pc[s] = "idle"
  /\ sql' = [sql EXCEPT ![s] = t]
  /\ prepared' = [prepared EXCEPT ![s] = IF sql[s] # t THEN 0 ELSE @]
  /\ UNCHANGED <<binds, handles, batchVars, serverVars, bound, options, callVars, tableVars, calls>>

\* bind, and bind_stream of a stream that yields rows.
Bind(s, b) ==
  /\ pc[s] = "idle"
  /\ Len(binds) < MaxBinds
  /\ binds' = Append(binds, b)
  /\ bound' = [bound EXCEPT ![s] = Len(binds) + 1]
  /\ UNCHANGED <<handles, batchVars, serverVars, sql, prepared, options, callVars, tableVars, calls>>

\* bind_stream of a stream without batches; one that fails changes nothing.
BindEmptyStream(s) ==
  /\ pc[s] = "idle"
  /\ bound[s] # 0
  /\ bound' = [bound EXCEPT ![s] = 0]
  /\ UNCHANGED <<binds, handles, batchVars, serverVars, sql, prepared, options, callVars,
                 tableVars, calls>>

-----------------------------------------------------------------------------
(* prepare, execute and execute_update with SQL text                       *)

\* bound_data.take()
TakeBound(s) == bound' = [bound EXCEPT ![s] = 0]

\* prepare, and execute_schema of a statement that is not prepared.
Prepare(s) ==
  /\ sql[s] # NoText
  /\ Enter(s, "prepare", 0, "prepare")
  /\ UNCHANGED <<binds, handles, batchVars, serverVars, stmtVars, tableVars>>

\* execute and execute_update: the batch is taken before anything can fail.
ExecuteBound(s, api) ==
  /\ ~IsBulkIngest(s)
  /\ sql[s] # NoText
  /\ bound[s] # 0
  /\ Enter(s, api, bound[s], IF prepared[s] = 0 THEN "prepare" ELSE "bound_rows")
  /\ TakeBound(s)
  /\ UNCHANGED <<binds, handles, batchVars, serverVars, sql, prepared, options, tableVars>>

\* Nothing is bound: the text is run as it is (query_sql and update_sql).
ExecutePlain(s, api) ==
  /\ ~IsBulkIngest(s)
  /\ sql[s] # NoText
  /\ bound[s] = 0
  /\ Enter(s, api, 0, "plain")
  /\ UNCHANGED <<binds, handles, batchVars, serverVars, stmtVars, tableVars>>

\* The server prepares the text of s, refuses it, or is lost.
CreatePrepared(s) ==
  /\ pc[s] = "prepare"
  /\ phase = "free"
  /\ \E answer \in Answers :
       /\ link = "lost" => answer = "lost"
       /\ link' = IF answer = "lost" THEN "lost" ELSE link
       /\ IF answer = "ok"
            THEN /\ handles' = Append(handles, sql[s])
                 /\ prepared' = [prepared EXCEPT ![s] = Len(handles) + 1]
                 /\ IF call[s].api = "prepare" THEN Finish(s, "ok", 0) ELSE Goto(s, "bound_rows")
            ELSE Finish(s, "err", 0) /\ UNCHANGED <<handles, prepared>>
  /\ UNCHANGED <<binds, batchVars, log, sql, bound, options, tableVars, calls>>

\* Mutant: the values are converted while the rows are executed.
BoundRows_Later(s) ==
  /\ pc[s] = "bound_rows"
  /\ IF Rows(binds[call[s].bind]) = 0 THEN Finish(s, "ok", 0) ELSE Goto(s, "lock")
  /\ UNCHANGED <<binds, handles, batchVars, serverVars, stmtVars, tableVars, calls>>

\* Every value of the batch is converted; a batch without rows runs nothing.
BoundRows(s) ==
  LET b == binds[call[s].bind]
  IN /\ pc[s] = "bound_rows"
     /\ IF b.bad # 0 /\ b.stage = "convert" THEN Finish(s, "err", 0)
        ELSE IF Rows(b) = 0 THEN Finish(s, "ok", 0)
        ELSE Goto(s, "lock")
     /\ UNCHANGED <<binds, handles, batchVars, serverVars, stmtVars, tableVars, calls>>

\* The connection is locked for the whole batch.
RunBatch(s) ==
  /\ pc[s] = "lock"
  /\ phase = "free"
  /\ BeginBatch([stmt |-> s, bind |-> call[s].bind, handle |-> prepared[s], api |-> call[s].api])
  /\ Goto(s, "running")
  /\ UNCHANGED <<binds, handles, serverVars, stmtVars, tableVars, calls>>

\* The batch has run and the call returns what it returned.
BatchDone(s) ==
  /\ pc[s] = "running"
  /\ phase = "done"
  /\ Finish(s, outcome.kind, outcome.count)
  /\ ReleaseBatch
  /\ UNCHANGED <<binds, handles, serverVars, stmtVars, tableVars, calls>>

\* Mutant: the text is run although another call holds the connection.
RunPlain_Unlocked(s) ==
  /\ pc[s] = "plain"
  /\ \E answer \in Answers, done \in {"yes", "no"} :
       /\ link = "lost" => answer = "lost"
       /\ link' = IF answer = "lost" THEN "lost" ELSE link
       /\ log' = Append(log, [stmt |-> s, bind |-> 0, text |-> sql[s], first |-> 0, last |-> 0,
                              answer |-> answer, done |-> done])
       /\ Finish(s, IF answer = "ok" THEN "ok" ELSE "err", 0)
  /\ UNCHANGED <<binds, handles, batchVars, stmtVars, tableVars, calls>>

\* The text is executed once, without parameters; the server refuses one that has
\* parameters.  A result set that cannot be fetched, or that an update does not
\* expect, fails the call after the text was executed.
RunPlain(s) ==
  /\ pc[s] = "plain"
  /\ phase = "free"
  /\ \E answer \in Answers, done \in {"yes", "no"}, fetch \in {"ok", "failed"} :
       /\ answer = "ok" => done = "yes"
       /\ answer = "refused" => done = "no"
       /\ sql[s].params > 0 => done = "no"
       /\ link = "lost" => answer = "lost" /\ done = "no"
       /\ link' = IF answer = "lost" THEN "lost" ELSE link
       /\ log' = Append(log, [stmt |-> s, bind |-> 0, text |-> sql[s], first |-> 0, last |-> 0,
                              answer |-> answer, done |-> done])
       /\ Finish(s, IF /\ answer = "ok"
                       /\ sql[s].result = "set" => call[s].api = "execute" /\ fetch = "ok"
                      THEN "ok" ELSE "err", 0)
  /\ UNCHANGED <<binds, handles, batchVars, stmtVars, tableVars, calls>>

-----------------------------------------------------------------------------
(* execute_bulk_ingest                                                     *)

\* set_option, in the calls before an ingest, of a target table and what goes with
\* it.  A statement that has a target keeps it; its options are not changed again.
SetOptions(s, o) ==
  /\ options[s] \in {NoOptions, o}
  /\ options' = [options EXCEPT ![s] = o]

\* The checks before the batch is taken.
OptionsAccepted(o) ==
  /\ o.temporary # "true"
  /\ IngestMode(o) \in {"create", "append", "create_append", "replace"}

\* The checks after it: the catalog and the types of the columns.
BatchAccepted(o, b) == o.catalog \in {"unset", "EXA"} /\ b.types = "storable"

\* execute and execute_update of a statement with a target: the options are
\* checked, the batch is taken, and the catalog and the columns
\* are checked, all before the first SQL statement.
ExecuteIngest(s, o) ==
  /\ IF OptionsAccepted(o) /\ bound[s] # 0
       THEN /\ Enter(s, "ingest", bound[s], IF BatchAccepted(o, binds[bound[s]]) THEN "ddl" ELSE "rejected")
            /\ TakeBound(s)
       ELSE /\ Enter(s, "ingest", 0, "rejected")
            /\ UNCHANGED bound
  /\ before' = [before EXCEPT ![s] = table]
  /\ shared' = [shared EXCEPT ![s] = "no"]
  /\ UNCHANGED <<binds, handles, batchVars, serverVars, sql, prepared, table>>

\* The error of a check.
IngestRejected(s) ==
  /\ pc[s] = "rejected"
  /\ Finish(s, "err", 0)
  /\ UNCHANGED <<binds, handles, batchVars, serverVars, stmtVars, tableVars, calls>>

\* s writes the table, which every other ingest under way then shares.
WriteTable(s, t) ==
  LET others == {o \in Statements \ {s} : t # table /\ pc[o] \in {"ddl", "import"}}
  IN /\ table' = t
     /\ shared' = [o \in Statements |-> IF o \in others THEN "yes" ELSE shared[o]]

\* Mutant: replace creates the table if it is not there, and never drops it.
DdlSteps_NeverDrops(s) ==
  CASE IngestMode(options[s]) = "create" /\ table = Absent -> <<table, Table({})>>
    [] IngestMode(options[s]) \in {"create_append", "replace"} /\ table = Absent -> <<table, Table({})>>
    [] OTHER -> <<table>>

\* The table as the DDL of each mode changes it, one statement after the other.
DdlSteps(s) ==
  CASE IngestMode(options[s]) \in {"create", "create_append"} /\ table = Absent -> <<table, Table({})>>
    [] IngestMode(options[s]) = "replace" -> <<table, Absent, Table({})>>
    [] OTHER -> <<table>>

\* The DDL, under one lock.  It may fail after each statement; create fails on a
\* table that exists.  Append has no DDL.
IngestDdl(s) ==
  /\ pc[s] = "ddl"
  /\ phase = "free"
  /\ IF IngestMode(options[s]) = "append"
       THEN Goto(s, "import") /\ UNCHANGED <<link, tableVars>>
       ELSE \E answer \in Answers, i \in DOMAIN DdlSteps(s) :
              /\ answer = "ok" => i = Len(DdlSteps(s)) /\ (IngestMode(options[s]) = "create" => table = Absent)
              /\ answer = "refused" => i = 1 \/ i < Len(DdlSteps(s))
              /\ link = "lost" => answer = "lost" /\ i = 1
              /\ link' = IF answer = "lost" THEN "lost" ELSE link
              /\ WriteTable(s, DdlSteps(s)[i])
              /\ UNCHANGED before
              /\ IF answer = "ok" THEN Goto(s, "import") ELSE Finish(s, "err", 0)
  /\ UNCHANGED <<binds, handles, batchVars, log, stmtVars, calls>>

\* import_from_record_batch, under a lock of its own: every row is stored and
\* counted, or none is and the call fails; a lost connection fails it either way.
IngestImport(s) ==
  /\ pc[s] = "import"
  /\ phase = "free"
  /\ \E answer \in Answers, done \in {"yes", "no"} :
       /\ answer = "ok" => done = "yes"
       /\ answer = "refused" => done = "no"
       /\ table = Absent => done = "no"
       /\ link = "lost" => answer = "lost" /\ done = "no"
       /\ link' = IF answer = "lost" THEN "lost" ELSE link
       /\ WriteTable(s, IF done = "yes" THEN Table(table.rows \cup {call[s].bind}) ELSE table)
       /\ before' = [before EXCEPT ![s] = Absent]
       /\ IF answer = "ok" THEN Finish(s, "ok", Rows(binds[call[s].bind])) ELSE Finish(s, "err", 0)
  /\ UNCHANGED <<binds, handles, batchVars, log, stmtVars, calls>>

-----------------------------------------------------------------------------
Step ==
  \/ BatchStep /\ UNCHANGED <<stmtVars, callVars, tableVars, calls>>
  \/ \E s \in Statements :
       \/ \E t \in uses[s].texts : SetSqlQuery(s, t)
       \/ \E b \in uses[s].batches : Bind(s, b)
       \/ BindEmptyStream(s)
       \/ Prepare(s)
       \/ \E api \in {"execute", "update"} :
            ExecuteBound(s, api) \/ ExecutePlain(s, api)
       \/ \E o \in uses[s].options : SetOptions(s, o) /\ ExecuteIngest(s, o)
       \/ CreatePrepared(s)
       \/ BoundRows(s)
       \/ RunBatch(s)
       \/ BatchDone(s)
       \/ RunPlain(s)
       \/ IngestRejected(s)
       \/ IngestDdl(s)
       \/ IngestImport(s)

Next == Step /\ UNCHANGED uses

Spec == Init /\ [][Next]_vars

-----------------------------------------------------------------------------
(* Properties                                                              *)

Binds == 0 .. Len(binds)
Kinds == {"none", "ok", "err"}
Apis == {"none", "prepare", "execute", "update", "ingest"}
Tables == [exists : {"yes", "no"}, rows : SUBSET Binds]

TypeOK ==
  /\ BatchTypeOK
  /\ sql \in [Statements -> Texts \cup {NoText}]
  /\ prepared \in [Statements -> 0 .. Len(handles)]
  /\ bound \in [Statements -> Binds]
  /\ options \in [Statements -> IngestOptions \cup {NoOptions}]
  /\ pc \in [Statements -> {"idle", "prepare", "bound_rows", "lock", "running", "plain", "ddl",
                            "import", "rejected"}]
  /\ call \in [Statements -> [api : Apis, bind : Binds]]
  /\ result \in [Statements -> [kind : Kinds, bind : Binds, count : Nat]]
  /\ before \in [Statements -> Tables]
  /\ shared \in [Statements -> {"yes", "no"}]
  /\ table \in Tables
  /\ calls \in 0 .. MaxCalls
  /\ uses \in Scenarios

\* Every execution runs the SQL text that its statement has: a prepared statement
\* of an earlier text is never executed (set_sql_query).
ExecutesSql == Len(log') > Len(log) => LET e == log'[Len(log')] IN e.text = sql[e.stmt]

\* The rows of a bind are executed in order, from the first one, each at most
\* once, and nothing is sent after a request that was not answered with success:
\* a failed batch has stored its first rows and no other.
RowsInOrder ==
  \A i \in 1 .. Len(log) :
    LET again == i > 1 /\ log[i - 1].bind = log[i].bind
    IN log[i].bind # 0 =>
         /\ log[i].first = IF again THEN log[i - 1].last ELSE 0
         /\ log[i].first < log[i].last
         /\ again => log[i - 1].answer = "ok"

\* A call that succeeds with a bound batch has executed every row of it, and an
\* update reports their number.
OkMeansEveryRow ==
  \A s \in Statements :
    LET r == result[s]
    IN r.kind = "ok" /\ r.bind # 0 /\ ~IsBulkIngest(s) /\ Rows(binds[r.bind]) > 0 =>
         /\ r.count = Rows(binds[r.bind])
         /\ \E i \in 1 .. Len(log) :
              log[i].bind = r.bind /\ log[i].last = r.count /\ log[i].answer = "ok"

\* A value that cannot be converted, in whichever row, or a width that differs from
\* the parameter count, sends no execution; nor does a value that a row-count
\* statement cannot encode.
RejectedSendsNothing ==
  \A i \in 1 .. Len(log) :
    LET b == binds[log[i].bind]
    IN log[i].bind # 0 =>
         /\ b.cols = log[i].text.params
         /\ b.bad # 0 => b.stage = "encode" /\ log[i].text.result = "set"

\* A batch of a row-count statement that fits in one data message is one execution,
\* so that a failure stores none of it; a larger one is cut only where it must be:
\* the next row would not have fitted.
CutOnlyWhereNeeded ==
  \A i \in 1 .. Len(log) :
    LET b == binds[log[i].bind]
    IN log[i].bind # 0 /\ ~RunsPerRow(log[i].text, b) /\ log[i].last < Rows(b) =>
         MessageSize(b, log[i].first, log[i].last + 1) > Limit

\* The driver never makes a message too large by putting rows together.
MessagesFit ==
  \A i \in 1 .. Len(log) :
    log[i].last - log[i].first > 1 => MessageSize(binds[log[i].bind], log[i].first, log[i].last) <= Limit

\* The executions of a batch are not interleaved with those of other statements
\* on the connection.
BatchContiguous ==
  \A i, k \in 1 .. Len(log) :
    i < k /\ log[i].bind = log[k].bind /\ log[i].bind # 0 =>
      \A j \in i .. k : log[j].bind = log[i].bind

\* A bound batch is executed as one: checked before the first row goes out, in order,
\* whole if the call succeeded, and with no other statement's executions in between.
BatchesExact == RowsInOrder /\ OkMeansEveryRow /\ RejectedSendsNothing /\ BatchContiguous

\* What each mode leaves in the table when it succeeds, unless another ingest wrote
\* the table meanwhile.
IngestLeaves(s, b) ==
  Table({b} \cup (IF IngestMode(options[s]) = "replace" THEN {} ELSE before[s].rows))

\* An ingest that succeeds, and that no other one joined, leaves its own rows, with the rows
\* of before where the mode keeps them: create needs an absent table, append an existing one.
IngestMeansMode ==
  \A s \in Statements :
    pc[s] = "import" /\ result'[s].kind = "ok" /\ shared[s] = "no" =>
      /\ table' = IngestLeaves(s, call[s].bind)
      /\ IngestMode(options[s]) = "create" => before[s] = Absent
      /\ IngestMode(options[s]) = "append" => before[s] # Absent

\* A call does what its statement was set up for, whatever it was set up for before.  Other
\* statements of the connection may run between its steps; an ingest whose table one of them
\* writes meanwhile is exempt.
CallsAsSetUp == [][ExecutesSql /\ IngestMeansMode]_vars
=============================================================================
