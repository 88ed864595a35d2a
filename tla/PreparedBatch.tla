--------------------------- MODULE PreparedBatch ---------------------------
(***************************************************************************)
(* Executing a prepared statement for a batch of parameter rows while the  *)
(* connection is locked: execute_prepared_statement of                     *)
(* src/src/transport/native/mod.rs, which runs a statement with a row      *)
(* count as one execution per range of rows that fits in a data message    *)
(* (split_parameter_rows), and the loop of execute_bound_batch of          *)
(* src/src/adbc_ffi.rs, which runs any other statement once per row.       *)
(*                                                                         *)
(* A batch is the number of its columns, the byte offset at which each     *)
(* encoded row ends, and the row, if any (they count from 1), with a value *)
(* that cannot be converted to a parameter or encoded for the wire.  The   *)
(* rows of a range count from 0, and the range ends before its last.       *)
(***************************************************************************)
EXTENDS Naturals, Sequences

CONSTANTS
  Statements,  \* the statements that share the connection
  Batches,     \* the batches a caller may bind
  Texts,       \* the SQL texts
  Overhead,    \* bytes of a message without rows: header, attributes, column headers
  Limit        \* max_data_message_size of the session

Answers == {"ok", "refused", "lost"}

ASSUME PreparedBatchAssumption ==
  /\ Overhead \in Nat
  /\ Limit \in Nat
  /\ \A t \in Texts : t.params \in Nat /\ t.result \in {"count", "set"}
  /\ \A b \in Batches :
       /\ b.cols \in Nat
       /\ b.ends \in Seq(Nat)
       /\ b.bad \in 0 .. Len(b.ends)
       /\ b.cols = 0 => b.bad = 0
       /\ b.stage \in {"convert", "encode"}
       /\ b.types \in {"storable", "other"}
       /\ \A i, j \in 1 .. Len(b.ends) : i <= j => b.ends[i] <= b.ends[j]

VARIABLES
  binds,      \* the batch of each bind, in order
  handles,    \* the server's prepared statements: their SQL text, in order
  phase,      \* "free", or what the call that holds the connection does
  job,        \* that call: its statement, bind, handle and api
  row,        \* its next row
  first_row,  \* the first row of the range being collected
  ranges,     \* the ranges collected
  sent,       \* how many of them were executed
  affected,   \* row counts added up, or rows whose result was fetched
  outcome,    \* what the call will return
  link,       \* the connection: "up" or "lost"
  log         \* the server: the executions requested, in order

batchVars == <<phase, job, row, first_row, ranges, sent, affected, outcome>>
serverVars == <<link, log>>

NoJob == [stmt |-> "none", bind |-> 0, handle |-> 0, api |-> "none"]
NoOutcome == [kind |-> "none", count |-> 0]

data == binds[job.bind]
text == handles[job.handle]

Rows(b) == Len(b.ends)

\* The offset at which row r starts: where the row before it ends.
Start(b, r) == IF r = 0 THEN 0 ELSE b.ends[r]

\* The size of the message with rows first .. last - 1.
MessageSize(b, first, last) == Overhead + (Start(b, last) - Start(b, first))

\* The call ends, with the connection still locked.
Return(kind, count) ==
  /\ phase' = "done"
  /\ outcome' = [kind |-> kind, count |-> count]

-----------------------------------------------------------------------------
(* The server                                                              *)

\* It executes rows first .. last - 1 as a whole, or refuses them as a whole, or
\* the connection is lost before or after they were executed.  It drops the
\* connection on a message that is too large.
Request(first, last, answer) ==
  \E done \in {"yes", "no"} :
    /\ answer = "ok" => done = "yes"
    /\ answer = "refused" => done = "no"
    /\ link = "lost" \/ MessageSize(data, first, last) > Limit => answer = "lost" /\ done = "no"
    /\ link' = IF answer = "lost" THEN "lost" ELSE link
    /\ log' = Append(log, [stmt |-> job.stmt, bind |-> job.bind, text |-> text,
                           first |-> first, last |-> last, answer |-> answer, done |-> done])

-----------------------------------------------------------------------------
(* split_parameter_rows and execute_prepared_ranges                        *)

\* runs_per_row: a result-set statement, or no parameter to carry a row count.
RunsPerRow(t, b) == t.result = "set" \/ b.cols = 0

\* Mutant: the range that is closed keeps the row that made it too large.
CloseRange_KeepsRow ==
  /\ ranges' = Append(ranges, [first |-> first_row, last |-> row + 1])
  /\ first_row' = row + 1

\* The rows collected so far are a range, and this row starts the next one.
CloseRange ==
  /\ ranges' = Append(ranges, [first |-> first_row, last |-> row])
  /\ first_row' = row

\* Mutant: every row is a range of its own.
Overflows_Always == row > first_row

\* The range being collected would be too large with this row.
Overflows == row > first_row /\ MessageSize(data, first_row, row + 1) > Limit

\* One turn of the loop of split_parameter_rows: the row is encoded and joins the
\* range, or closes it.  A value that cannot be encoded ends the call.
SplitRow ==
  /\ phase = "split"
  /\ row < Rows(data)
  /\ IF data.bad = row + 1
       THEN /\ Return("err", 0)
            /\ UNCHANGED <<row, first_row, ranges>>
       ELSE /\ row' = row + 1
            /\ IF Overflows THEN CloseRange ELSE UNCHANGED <<first_row, ranges>>
            /\ UNCHANGED <<phase, outcome>>
  /\ UNCHANGED <<binds, handles, job, sent, affected, link, log>>

\* The rows are encoded: the rest of them is the last range.
SplitDone ==
  /\ phase = "split"
  /\ row = Rows(data)
  /\ ranges' = Append(ranges, [first |-> first_row, last |-> row])
  /\ phase' = "send"
  /\ UNCHANGED <<binds, handles, job, row, first_row, sent, affected, outcome, link, log>>

\* Mutant: a range that fails is passed over and the next one is executed.
SendRange_PassesOver ==
  /\ phase = "send"
  /\ \E answer \in Answers :
       LET range == ranges[sent + 1]
           count == affected + (IF answer = "ok" THEN range.last - range.first ELSE 0)
       IN /\ Request(range.first, range.last, answer)
          /\ sent' = sent + 1
          /\ affected' = count
          /\ IF sent + 1 = Len(ranges)
               THEN Return("ok", count)
               ELSE UNCHANGED <<phase, outcome>>
  /\ UNCHANGED <<binds, handles, job, row, first_row, ranges>>

\* Mutant: the count of the last range is returned, not the sum.
SendRange_LastCount ==
  /\ phase = "send"
  /\ \E answer \in Answers :
       LET range == ranges[sent + 1]
       IN /\ Request(range.first, range.last, answer)
          /\ IF answer = "ok"
               THEN /\ sent' = sent + 1
                    /\ IF sent + 1 = Len(ranges)
                         THEN Return("ok", range.last - range.first)
                         ELSE UNCHANGED <<phase, outcome>>
               ELSE Return("err", 0) /\ UNCHANGED sent
  /\ UNCHANGED <<binds, handles, job, row, first_row, ranges, affected>>

\* execute_prepared_ranges: the next range; the first failure ends the call.
\* The server reports every row of the range as affected.
SendRange ==
  /\ phase = "send"
  /\ \E answer \in Answers :
       LET range == ranges[sent + 1]
           count == affected + (range.last - range.first)
       IN /\ Request(range.first, range.last, answer)
          /\ IF answer = "ok"
               THEN /\ sent' = sent + 1
                    /\ affected' = count
                    /\ IF sent + 1 = Len(ranges)
                         THEN Return("ok", count)
                         ELSE UNCHANGED <<phase, outcome>>
               ELSE Return("err", 0) /\ UNCHANGED <<sent, affected>>
  /\ UNCHANGED <<binds, handles, job, row, first_row, ranges>>

-----------------------------------------------------------------------------
(* One execution per row                                                   *)

\* A value that cannot be encoded ends the call after the rows before it have run.
\* An update fails on a result set, and an execute when it cannot be fetched.
RunRow ==
  /\ phase = "rows"
  /\ IF data.bad = row + 1
       THEN Return("err", 0) /\ UNCHANGED <<row, affected, link, log>>
       ELSE \E answer \in Answers, fetch \in {"ok", "failed"} :
              LET good == answer = "ok" /\ (text.result = "set" => job.api = "execute" /\ fetch = "ok")
              IN /\ Request(row, row + 1, answer)
                 /\ row' = IF good THEN row + 1 ELSE row
                 /\ affected' = IF good THEN affected + 1 ELSE affected
                 /\ IF ~good THEN Return("err", 0)
                    ELSE IF row + 1 = Rows(data) THEN Return("ok", affected + 1)
                    ELSE UNCHANGED <<phase, outcome>>
  /\ UNCHANGED <<binds, handles, job, first_row, ranges, sent>>

-----------------------------------------------------------------------------
\* execute_batch and execute_batch_update: a batch whose width differs from the
\* parameter count sends nothing (build_batch_parameters_data).
BeginBatch(j) ==
  LET t == handles[j.handle]
      b == binds[j.bind]
  IN /\ job' = j
     /\ IF b.cols # t.params
          THEN Return("err", 0)
          ELSE /\ phase' = IF RunsPerRow(t, b) THEN "rows" ELSE "split"
               /\ UNCHANGED outcome
     /\ UNCHANGED <<row, first_row, ranges, sent, affected>>

\* The guard of the connection is dropped.
ReleaseBatch ==
  /\ phase' = "free"
  /\ job' = NoJob
  /\ row' = 0
  /\ first_row' = 0
  /\ ranges' = <<>>
  /\ sent' = 0
  /\ affected' = 0
  /\ outcome' = NoOutcome

BatchInit ==
  /\ binds = <<>>
  /\ handles = <<>>
  /\ phase = "free"
  /\ job = NoJob
  /\ row = 0
  /\ first_row = 0
  /\ ranges = <<>>
  /\ sent = 0
  /\ affected = 0
  /\ outcome = NoOutcome
  /\ link = "up"
  /\ log = <<>>

BatchStep == SplitRow \/ SplitDone \/ SendRange \/ RunRow
-----------------------------------------------------------------------------
Requests == [stmt : Statements, bind : Nat, text : Texts, first : Nat, last : Nat,
             answer : Answers, done : {"yes", "no"}]

ServerTypeOK ==
  /\ binds \in Seq(Batches)
  /\ handles \in Seq(Texts)
  /\ link \in {"up", "lost"}
  /\ log \in Seq(Requests)
  /\ \A i \in 1 .. Len(log) : log[i].bind <= Len(binds)

JobTypeOK ==
  /\ phase \in {"free", "split", "send", "rows", "done"}
  /\ job \in [stmt : Statements \cup {"none"}, bind : 0 .. Len(binds), handle : 0 .. Len(handles),
              api : {"none", "execute", "update"}]
  /\ row \in Nat
  /\ first_row \in Nat
  /\ ranges \in Seq([first : Nat, last : Nat])
  /\ sent \in Nat
  /\ affected \in Nat
  /\ outcome \in [kind : {"none", "ok", "err"}, count : Nat]

BatchTypeOK == ServerTypeOK /\ JobTypeOK
=============================================================================
