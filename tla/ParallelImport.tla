--------------------------- MODULE ParallelImport ---------------------------
(***************************************************************************)
(* A multi-file import: import_from_files of src/src/import/csv.rs and     *)
(* import_from_parquet_files of src/src/import/parquet.rs, which converts  *)
(* its files to CSV or serves them as they are, on the fan-out of          *)
(* src/src/import/parallel.rs: one dial task and one tunnel per file, the  *)
(* IMPORT statement on the SQL transport, one streaming task per file, the *)
(* task of stream_in_parallel that joins them, and finish_import, which    *)
(* settles the statement with that task.                                   *)
(***************************************************************************)
EXTENDS Naturals

CONSTANT N   \* number of files

\* One file is imported alone: the module SingleImport.
ASSUME ParallelImportAssumption == N \in Nat \ {0, 1}

Files == 1 .. N

VARIABLES
  job,        \* what was asked for: the kind of files, which of them have rows,
              \* and whether the table is to be created
  table,      \* the target table: "missing", "created" by this import, or "there"
  phase,      \* where the future of the import is
  next,       \* the dial task that ParallelTransportPool::connect awaits
  task,       \* task[f]: the dial task of file f, then its streaming task
  whole,      \* files whose terminating chunk reached the server
  joiner,     \* the task of stream_in_parallel
  culprit,    \* the file the joiner's error names, 0: none
  collected,  \* streaming tasks that join_next has returned
  statement,  \* the IMPORT statement on the server; "cut": it failed because a
              \* tunnel closed, which its response does not tell from "err"
  response,   \* "unread" once the statement was sent, "read" once it was answered
  result      \* what the import returned: an outcome and the file it names

vars == <<job, table, phase, next, task, whole, joiner, culprit, collected, statement, response, result>>

Streaming == {"waiting", "sending", "flushing"}

Finish(kind, f) == phase' = "done" /\ result' = [kind |-> kind, file |-> f]

\* Dropping the clients or aborting the tasks that still own one closes the
\* sockets; a dial task is not among them.
Dropped(tasks) == [f \in Files |-> IF tasks[f] \in Streaming \cup {"up"} THEN "aborted" ELSE tasks[f]]

-----------------------------------------------------------------------------
(* Opening the files and ParallelTransportPool::connect                    *)

\* All dials are spawned.
Connect ==
  /\ phase' = "connecting"
  /\ next' = 1
  /\ task' = [f \in Files |-> "dialling"]
  /\ UNCHANGED result

\* import_from_files: every file is opened before any connection.
OpenFiles ==
  /\ phase = "opening"
  /\ job.kind = "csv"
  /\ \/ Finish("open_error", 0) /\ UNCHANGED <<next, task>>
     \/ Connect
  /\ UNCHANGED <<job, table, whole, joiner, culprit, collected, statement, response>>

\* import_from_parquet_files: the union schema and the footer of each file, if a table is
\* to be created.
CheckFooters ==
  /\ phase = "opening"
  /\ job.kind # "csv"
  /\ \/ job.create /\ Finish("rejected", 0)
     \/ phase' = (IF job.create THEN "creating" ELSE "converting") /\ UNCHANGED result
  /\ UNCHANGED <<job, table, next, task, whole, joiner, culprit, collected, statement, response>>

\* create_table_from_ddl: a table that is there already is as good.
CreateTable ==
  /\ phase = "creating"
  /\ \/ phase' = "converting" /\ table' = (IF table = "missing" THEN "created" ELSE table) /\ UNCHANGED result
     \/ Finish("sql_error", 0) /\ UNCHANGED table
  /\ UNCHANGED <<job, next, task, whole, joiner, culprit, collected, statement, response>>

\* The files to be converted are opened; if none of them has a row, the import is done.
\* Files that are served as they are, are opened by their tasks.
OpenParquetFiles ==
  /\ phase = "converting"
  /\ \/ job.kind = "parquet" /\ Finish("open_error", 0) /\ UNCHANGED <<next, task>>
     \/ job.kind = "parquet" /\ job.filled = {} /\ Finish("ok", 0) /\ UNCHANGED <<next, task>>
     \/ (job.kind = "native" \/ job.filled # {}) /\ Connect
  /\ UNCHANGED <<job, table, whole, joiner, culprit, collected, statement, response>>

\* A dial task ends.  A client that nobody waits for any more is dropped.
DialEnds(f) ==
  /\ task[f] = "dialling"
  /\ \E how \in {IF phase = "done" THEN "aborted" ELSE "up", "unreachable"} :
       task' = [task EXCEPT ![f] = how]
  /\ UNCHANGED <<job, table, phase, next, whole, joiner, culprit, collected, statement, response, result>>

\* stream_in_parallel: there are as many clients as files.
StreamInParallel ==
  /\ joiner' = "running"
  /\ task' = [f \in Files |-> "waiting"]

\* The handles are awaited in file order; the first failure returns at once and
\* drops the handles and clients it holds.  After the last one the statement is
\* sent and the streaming tasks are spawned.
CollectDial ==
  /\ phase = "connecting"
  /\ \/ /\ task[next] = "unreachable"
        /\ Finish("connect_error", next)
        /\ task' = Dropped(task)
        /\ UNCHANGED <<next, joiner, statement, response>>
     \/ /\ task[next] = "up"
        /\ next' = next + 1
        /\ IF next = N
             THEN /\ phase' = "statement"
                  /\ statement' = "running"
                  /\ response' = "unread"
                  /\ StreamInParallel
             ELSE UNCHANGED <<phase, statement, response, joiner, task>>
        /\ UNCHANGED result
  /\ UNCHANGED <<job, table, whole, culprit, collected>>

-----------------------------------------------------------------------------
(* One streaming task per file                                             *)

\* handle_import_request: Exasol asks for the file.
Requested(f) ==
  /\ task[f] = "waiting"
  /\ statement = "running"
  /\ task' = [task EXCEPT ![f] = "sending"]
  /\ UNCHANGED <<job, table, phase, next, whole, joiner, culprit, collected, statement, response, result>>

\* The body is written; its terminating chunk follows only the end of the input.
StreamWrites(f) ==
  /\ task[f] = "sending"
  /\ task' = [task EXCEPT ![f] = "flushing"]
  /\ whole' = whole \cup {f}
  /\ UNCHANGED <<job, table, phase, next, joiner, culprit, collected, statement, response, result>>

StreamEnds(f) ==
  /\ task[f] = "flushing"
  /\ task' = [task EXCEPT ![f] = "ok"]
  /\ UNCHANGED <<job, table, phase, next, whole, joiner, culprit, collected, statement, response, result>>

\* Opening, reading, converting or writing fails: the task returns its error and
\* drops its client.
StreamFails(f) ==
  /\ task[f] \in Streaming
  /\ task' = [task EXCEPT ![f] = "failed"]
  /\ UNCHANGED <<job, table, phase, next, whole, joiner, culprit, collected, statement, response, result>>

-----------------------------------------------------------------------------
(* join_stream_handles                                                     *)

\* Mutant: a failure is reported without aborting the other streams.
JoinNext_LeavesOthers ==
  /\ joiner = "running"
  /\ \E f \in Files \ collected :
       /\ collected' = collected \cup {f}
       /\ \/ /\ task[f] = "ok"
             /\ joiner' = IF collected' = Files THEN "ok" ELSE "running"
             /\ UNCHANGED culprit
          \/ task[f] = "failed" /\ joiner' = "failed" /\ culprit' = f
  /\ UNCHANGED <<job, table, phase, next, task, whole, statement, response, result>>

\* join_next returns some task that has ended; the first failure ends the
\* joiner, and its guard aborts the streams that still run.
JoinNext ==
  /\ joiner = "running"
  /\ \E f \in Files \ collected :
       /\ collected' = collected \cup {f}
       /\ \/ /\ task[f] = "ok"
             /\ joiner' = IF collected' = Files THEN "ok" ELSE "running"
             /\ UNCHANGED <<task, culprit>>
          \/ /\ task[f] = "failed"
             /\ joiner' = "failed"
             /\ culprit' = f
             /\ task' = Dropped(task)
  /\ UNCHANGED <<job, table, phase, next, whole, statement, response, result>>

-----------------------------------------------------------------------------
(* execute_sql and finish_import                                           *)

\* Mutant: after a failed statement the tunnel task is awaited, not aborted.
FinishFailed_Waits ==
  /\ joiner # "running"
  /\ UNCHANGED <<joiner, task>>
  /\ IF joiner = "failed" THEN Finish("stream_error", culprit) ELSE Finish("sql_error", 0)

\* The statement failed: the joiner is aborted, with the streams its guard
\* holds, and its own error wins if it had failed before.
FinishFailed ==
  \/ /\ joiner = "running"
     /\ joiner' = "aborted"
     /\ task' = Dropped(task)
     /\ Finish("sql_error", 0)
  \/ /\ joiner # "running"
     /\ UNCHANGED <<joiner, task>>
     /\ IF joiner = "failed" THEN Finish("stream_error", culprit) ELSE Finish("sql_error", 0)

\* execute_sql returns: after a success the joiner is awaited.
StatementAnswered ==
  /\ phase = "statement"
  /\ statement \in {"ok", "err", "cut"}
  /\ response' = "read"
  /\ IF statement = "ok" THEN phase' = "join" /\ UNCHANGED <<joiner, task, result>> ELSE FinishFailed
  /\ UNCHANGED <<job, table, next, whole, culprit, collected, statement>>

\* Mutant: the row count is returned whatever became of the streams.
Join_Ignored ==
  /\ phase = "join"
  /\ Finish("ok", 0)
  /\ UNCHANGED <<job, table, next, task, whole, joiner, culprit, collected, statement, response>>

\* The statement succeeded and the joiner has ended: resolve_stream_task.
Join ==
  /\ phase = "join"
  /\ joiner \in {"ok", "failed"}
  /\ IF joiner = "ok" THEN Finish("ok", 0) ELSE Finish("stream_error", culprit)
  /\ UNCHANGED <<job, table, next, task, whole, joiner, culprit, collected, statement, response>>

-----------------------------------------------------------------------------
(* The server                                                              *)

Answers(outcome) ==
  /\ statement = "running"
  /\ statement' = outcome
  /\ UNCHANGED <<job, table, phase, next, task, whole, joiner, culprit, collected, response, result>>

\* An SQL error, before or during the transfer; no socket need be closed.
StatementFails == Answers("err")

\* Every file arrived, or a tunnel closed before its terminating chunk.
StatementEnds ==
  \/ whole = Files /\ Answers("ok")
  \/ (\E f \in Files \ whole : task[f] \in {"failed", "aborted"}) /\ Answers("cut")

-----------------------------------------------------------------------------
\* A table that is to be created may be there already; one that is not, and is missing,
\* is one more reason for the statement to fail.
Init ==
  /\ job \in [kind : {"csv", "parquet", "native"}, filled : SUBSET Files, create : BOOLEAN]
  /\ job.kind = "csv" => ~job.create
  /\ table \in IF job.create THEN {"missing", "there"} ELSE {"there"}
  /\ phase = "opening"
  /\ next = 0
  /\ task = [f \in Files |-> "none"]
  /\ whole = {}
  /\ joiner = "none"
  /\ culprit = 0
  /\ collected = {}
  /\ statement = "none"
  /\ response = "none"
  /\ result = [kind |-> "none", file |-> 0]

Import == OpenFiles \/ CheckFooters \/ CreateTable \/ OpenParquetFiles \/ CollectDial \/ StatementAnswered \/ Join

Progress(f) == DialEnds(f) \/ Requested(f) \/ StreamWrites(f) \/ StreamEnds(f)

Next ==
  \/ Import \/ JoinNext \/ StatementFails \/ StatementEnds
  \/ \E f \in Files : Progress(f) \/ StreamFails(f)

\* The runtime polls a task that can move, every dial ends (its setup deadline
\* sees to that), and the server asks for the files of a statement it runs and
\* answers when the transfer is over.
Fairness ==
  /\ WF_vars(Import)
  /\ WF_vars(JoinNext)
  /\ WF_vars(StatementEnds)
  /\ \A f \in Files : WF_vars(Progress(f))

Spec == Init /\ [][Next]_vars

FairSpec == Spec /\ Fairness

-----------------------------------------------------------------------------
(* Properties.                                                             *)

\* What the import returns is true: it succeeded only if every file with a row was
\* streamed to its end, so that neither the server's row count nor a joiner that skipped
\* a task hides a lost file; the file an error names failed by itself and was not aborted
\* because of another one; and files that are rejected leave no table behind.
OutcomeIsTrue ==
  /\ result.kind = "ok" => \A f \in job.filled : f \in whole /\ task[f] = "ok"
  /\ result.kind = "stream_error" => task[result.file] = "failed"
  /\ result.kind = "rejected" => table # "created"
  /\ (job.create /\ statement # "none") => table # "missing"

\* Nothing outlives the import: no streaming task, and no response that the next
\* statement on the transport would be given.  No stream is served on after the joiner
\* reported a failure.
NothingLeft ==
  /\ (phase = "done" \/ joiner = "failed") => \A f \in Files : task[f] \notin Streaming
  /\ phase = "done" => response # "unread"

\* Every multi-file import returns, also when Exasol rejects the statement and
\* never asks for a file.
ImportReturns == <>(phase = "done")
=============================================================================
