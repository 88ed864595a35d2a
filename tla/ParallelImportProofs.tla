------------------------ MODULE ParallelImportProofs ------------------------
(***************************************************************************)
(* What a multi-file import returns and leaves behind, for any number of   *)
(* files.  The inductive invariant relates the phase of the import to its  *)
(* tasks, its joiner and its statement: before the statement there is      *)
(* nothing to leave, while it runs only the joiner may abort a stream, and *)
(* what the joiner has collected ended well.                               *)
(*                                                                         *)
(* And the table that such an import creates (TypeMapping), for all types: *)
(* each column holds the values of every file, whatever their order.       *)
(***************************************************************************)
EXTENDS ParallelImport, TypeMapping, TLAPS

Before == {"opening", "creating", "converting"}
Phases == Before \cup {"connecting", "statement", "join", "done"}
Tasks == {"none", "dialling", "up", "unreachable", "ok", "failed", "aborted"} \cup Streaming
Kinds == {"none", "open_error", "rejected", "sql_error", "connect_error", "stream_error", "ok"}

\* What the variables may hold.
TypeOK ==
  /\ job \in [kind : {"csv", "parquet", "native"}, filled : SUBSET Files, create : BOOLEAN]
  /\ table \in {"missing", "created", "there"}
  /\ phase \in Phases
  /\ next \in Nat
  /\ task \in [Files -> Tasks]
  /\ whole \subseteq Files
  /\ joiner \in {"none", "running", "ok", "failed", "aborted"}
  /\ culprit \in Nat
  /\ collected \subseteq Files
  /\ statement \in {"none", "running", "ok", "err", "cut"}
  /\ response \in {"none", "unread", "read"}
  /\ result \in [kind : Kinds, file : Nat]

\* Where the tasks are in each phase.
TasksByPhase ==
  /\ phase \in Before => \A f \in Files : task[f] = "none"
  /\ phase = "connecting" => /\ next \in Files
                             /\ \A f \in Files : task[f] \in {"dialling", "up", "unreachable"}
  /\ phase \in {"statement", "join"} =>
       \A f \in Files : task[f] \in Streaming \cup {"ok", "failed", "aborted"}
  /\ phase = "done" => \A f \in Files : task[f] \notin Streaming

\* Where the joiner, the statement and its response are in each phase.
RestByPhase ==
  /\ phase \in Before \cup {"connecting"} =>
       joiner = "none" /\ statement = "none" /\ response = "none" /\ collected = {}
  /\ phase \in {"statement", "join"} => joiner \in {"running", "ok", "failed"}
  /\ phase = "done" => joiner # "running"
  /\ phase \in {"join", "done"} => response # "unread"
  /\ phase # "done" => result.kind = "none"

\* The file behind each outcome of the joiner.
JoinerInv ==
  /\ joiner = "running" => \A f \in Files : task[f] # "aborted" /\ (f \in collected => task[f] = "ok")
  /\ joiner = "ok" => \A f \in Files : task[f] = "ok"
  /\ joiner = "failed" => /\ culprit \in Files
                          /\ task[culprit] = "failed"
                          /\ \A f \in Files : task[f] \notin Streaming

\* A stream reports success only after its terminating chunk.
StreamInv == \A f \in Files : task[f] \in {"flushing", "ok"} => f \in whole

\* The table is there before any statement reads files into it.
TableInv ==
  /\ job.kind = "csv" => ~job.create
  /\ phase = "opening" => table # "created"
  /\ (job.create /\ phase \in {"converting", "connecting"}) => table # "missing"
  /\ (job.create /\ statement # "none") => table # "missing"
  /\ result.kind = "rejected" => table # "created"

\* What was returned.
ResultInv ==
  /\ result.kind = "ok" => \A f \in job.filled : task[f] = "ok"
  /\ result.kind = "stream_error" => result.file \in Files /\ task[result.file] = "failed"

\* The inductive invariant.
ImportInv ==
  TypeOK /\ TasksByPhase /\ RestByPhase /\ JoinerInv /\ StreamInv /\ TableInv /\ ResultInv

-----------------------------------------------------------------------------
(* The parts of the invariant are kept by each step                        *)

\* Initially nothing has been started.
LEMMA InitInv == Init => ImportInv
BY ParallelImportAssumption
   DEF Init, ImportInv, TypeOK, TasksByPhase, RestByPhase, JoinerInv, StreamInv, TableInv,
       ResultInv, Before, Phases, Tasks, Kinds, Streaming, Files

\* An outcome is recorded with the file it names.
LEMMA FinishType ==
  ASSUME NEW k \in Kinds, NEW f \in Nat, Finish(k, f)
  PROVE  /\ phase' = "done" /\ phase' \in Phases
         /\ result' \in [kind : Kinds, file : Nat]
         /\ result'.kind = k /\ result'.file = f
BY DEF Finish, Phases

\* All dials are spawned at once.
LEMMA ConnectType ==
  ASSUME Connect
  PROVE  /\ phase' = "connecting" /\ phase' \in Phases
         /\ next' = 1 /\ next' \in Files
         /\ task' \in [Files -> Tasks]
         /\ \A f \in Files : task'[f] = "dialling"
BY ParallelImportAssumption DEF Connect, Phases, Tasks, Files

\* Opening files and creating the table start no task; connecting starts the dials.
LEMMA PrepareStep ==
  ASSUME ImportInv, OpenFiles \/ CheckFooters \/ CreateTable \/ OpenParquetFiles
  PROVE  ImportInv'
<1>. USE DEF ImportInv, Before
<1>0. /\ phase \in Before
      /\ UNCHANGED <<job, whole, joiner, culprit, collected, statement, response>>
  BY DEF OpenFiles, CheckFooters, CreateTable, OpenParquetFiles
<1>1. \/ /\ Connect /\ UNCHANGED <<result, table>>
         /\ phase \in {"opening", "converting"}
         /\ phase = "opening" => job.kind = "csv"
      \/ /\ \E k \in Kinds : /\ Finish(k, 0)
                             /\ k = "ok" => job.filled = {}
                             /\ k = "rejected" => phase = "opening"
                             /\ k # "stream_error"
         /\ UNCHANGED <<next, task, table>>
      \/ /\ phase' \in Before \ {"opening"} /\ UNCHANGED <<next, task, result>>
         /\ table' \in {table, "created"}
         /\ (phase' = "converting" /\ job.create) => table' # "missing"
  <2>1. CASE OpenFiles
    BY <2>1 DEF OpenFiles, Connect, Kinds
  <2>2. CASE CheckFooters
    BY <2>2 DEF CheckFooters, Kinds, TypeOK
  <2>3. CASE CreateTable
    BY <2>3 DEF CreateTable, Kinds, TypeOK
  <2>4. CASE OpenParquetFiles
    BY <2>4 DEF OpenParquetFiles, Connect, Kinds
  <2>. QED
    BY <2>1, <2>2, <2>3, <2>4
<1>2. CASE /\ Connect /\ UNCHANGED <<result, table>>
           /\ phase \in {"opening", "converting"}
           /\ phase = "opening" => job.kind = "csv"
  <2>1. TypeOK' /\ TasksByPhase' /\ StreamInv'
    BY <1>0, <1>2, ConnectType DEF TypeOK, TasksByPhase, StreamInv, Files, Streaming
  <2>2. RestByPhase' /\ JoinerInv' /\ ResultInv'
    BY <1>0, <1>2, ConnectType DEF TypeOK, RestByPhase, JoinerInv, ResultInv
  <2>3. TableInv'
    BY <1>0, <1>2, ConnectType DEF TypeOK, RestByPhase, TableInv
  <2>. QED
    BY <2>1, <2>2, <2>3
<1>3. CASE /\ \E k \in Kinds : /\ Finish(k, 0)
                               /\ k = "ok" => job.filled = {}
                               /\ k = "rejected" => phase = "opening"
                               /\ k # "stream_error"
           /\ UNCHANGED <<next, task, table>>
  <2>1. PICK k \in Kinds : /\ Finish(k, 0)
                           /\ k = "ok" => job.filled = {}
                           /\ k = "rejected" => phase = "opening"
                           /\ k # "stream_error"
    BY <1>3
  <2>2. /\ phase' = "done" /\ phase' \in Phases
        /\ result' \in [kind : Kinds, file : Nat]
        /\ result'.kind = k
    BY <2>1, FinishType
  <2>3. TypeOK' /\ TasksByPhase' /\ StreamInv'
    BY <1>0, <1>3, <2>2 DEF TypeOK, TasksByPhase, StreamInv, Streaming
  <2>4. RestByPhase' /\ JoinerInv' /\ ResultInv'
    BY <1>0, <1>3, <2>1, <2>2 DEF RestByPhase, JoinerInv, ResultInv
  <2>5. TableInv'
    BY <1>0, <1>3, <2>1, <2>2 DEF RestByPhase, TableInv
  <2>. QED
    BY <2>3, <2>4, <2>5
<1>4. CASE /\ phase' \in Before \ {"opening"} /\ UNCHANGED <<next, task, result>>
           /\ table' \in {table, "created"}
           /\ (phase' = "converting" /\ job.create) => table' # "missing"
  <2>1. TypeOK' /\ TasksByPhase' /\ StreamInv'
    BY <1>0, <1>4 DEF TypeOK, TasksByPhase, StreamInv, Phases
  <2>2. RestByPhase' /\ JoinerInv' /\ ResultInv'
    BY <1>0, <1>4 DEF RestByPhase, JoinerInv, ResultInv
  <2>3. TableInv'
    BY <1>0, <1>4 DEF RestByPhase, TableInv
  <2>. QED
    BY <2>1, <2>2, <2>3
<1>. QED
  BY <1>1, <1>2, <1>3, <1>4

\* Aborting the streams keeps what has ended and leaves none running.
LEMMA DroppedTasks ==
  ASSUME TypeOK
  PROVE  /\ Dropped(task) \in [Files -> Tasks]
         /\ \A f \in Files : /\ Dropped(task)[f] \notin Streaming \cup {"up"}
                             /\ Dropped(task)[f] \in {task[f], "aborted"}
                             /\ task[f] \notin Streaming \cup {"up"} => Dropped(task)[f] = task[f]
BY DEF Dropped, TypeOK, Tasks, Streaming

\* Collecting the dials: the first that failed ends the import, the last one
\* that is up starts the statement and one stream for each file.
LEMMA CollectStep ==
  ASSUME ImportInv, CollectDial
  PROVE  ImportInv'
<1>. USE DEF ImportInv
<1>0. /\ phase = "connecting" /\ next \in Files /\ next \in Nat
      /\ UNCHANGED <<job, table, whole, culprit, collected>>
  BY DEF CollectDial, TasksByPhase, TypeOK
<1>1. joiner = "none" /\ statement = "none" /\ response = "none" /\ collected = {} /\ result.kind = "none"
  BY <1>0 DEF RestByPhase
<1>2. CASE /\ Finish("connect_error", next) /\ task' = Dropped(task)
           /\ UNCHANGED <<next, joiner, statement, response>>
  <2>1. /\ phase' = "done" /\ phase' \in Phases
        /\ result' \in [kind : Kinds, file : Nat] /\ result'.kind = "connect_error"
    BY <1>0, <1>2, FinishType DEF Kinds
  <2>2. TypeOK' /\ TasksByPhase' /\ StreamInv'
    BY <1>0, <1>2, <2>1, DroppedTasks DEF TypeOK, TasksByPhase, StreamInv, Before
  <2>3. RestByPhase' /\ JoinerInv' /\ TableInv' /\ ResultInv'
    BY <1>0, <1>1, <1>2, <2>1 DEF RestByPhase, JoinerInv, TableInv, ResultInv, Before
  <2>. QED
    BY <2>2, <2>3
<1>3. CASE /\ next = N /\ next' = next + 1
           /\ phase' = "statement" /\ statement' = "running" /\ response' = "unread"
           /\ StreamInParallel /\ UNCHANGED result
  <2>1. task' \in [Files -> Tasks] /\ \A f \in Files : task'[f] = "waiting"
    BY <1>3 DEF StreamInParallel, Tasks, Streaming
  <2>2. joiner' = "running"
    BY <1>3 DEF StreamInParallel
  <2>3. TypeOK' /\ TasksByPhase' /\ StreamInv'
    BY <1>0, <1>3, <2>1, <2>2 DEF TypeOK, TasksByPhase, StreamInv, Before, Phases, Streaming
  <2>4. RestByPhase' /\ JoinerInv' /\ TableInv' /\ ResultInv'
    BY <1>0, <1>1, <1>3, <2>1, <2>2 DEF RestByPhase, JoinerInv, TableInv, ResultInv, Before
  <2>. QED
    BY <2>3, <2>4
<1>4. CASE /\ next # N /\ next' = next + 1
           /\ UNCHANGED <<phase, statement, response, joiner, task, result>>
  <2>1. next' \in Files /\ next' \in Nat
    BY <1>0, <1>4, ParallelImportAssumption DEF Files
  <2>2. TypeOK' /\ TasksByPhase' /\ StreamInv'
    BY <1>0, <1>4, <2>1 DEF TypeOK, TasksByPhase, StreamInv
  <2>3. RestByPhase' /\ JoinerInv' /\ TableInv' /\ ResultInv'
    BY <1>0, <1>4 DEF RestByPhase, JoinerInv, TableInv, ResultInv
  <2>. QED
    BY <2>2, <2>3
<1>. QED
  BY <1>2, <1>3, <1>4 DEF CollectDial

\* A dial, a request, a written body, an ended or a failed stream: one task moves.
LEMMA TaskStep ==
  ASSUME ImportInv, NEW f \in Files, Progress(f) \/ StreamFails(f)
  PROVE  ImportInv'
<1>. USE DEF ImportInv
<1>0. /\ UNCHANGED <<job, table, phase, next, joiner, culprit, collected, statement, response, result>>
      /\ task \in [Files -> Tasks] /\ task' \in [Files -> Tasks]
      /\ whole \subseteq whole' /\ whole' \subseteq Files
      /\ \A g \in Files \ {f} : task'[g] = task[g]
  BY DEF Progress, DialEnds, Requested, StreamWrites, StreamEnds, StreamFails, TypeOK, Tasks, Streaming
<1>1. \/ /\ task[f] = "dialling"
         /\ task'[f] \in {IF phase = "done" THEN "aborted" ELSE "up", "unreachable"}
      \/ task[f] = "waiting" /\ task'[f] = "sending"
      \/ task[f] = "sending" /\ task'[f] = "flushing" /\ f \in whole'
      \/ task[f] = "flushing" /\ task'[f] = "ok"
      \/ task[f] \in Streaming /\ task'[f] = "failed"
  BY <1>0 DEF Progress, DialEnds, Requested, StreamWrites, StreamEnds, StreamFails
<1>2. TypeOK' /\ RestByPhase' /\ TableInv'
  BY <1>0 DEF TypeOK, RestByPhase, TableInv
<1>3. TasksByPhase'
  BY <1>0, <1>1 DEF TasksByPhase, Streaming, Before, TypeOK
<1>4. JoinerInv'
  <2>1. joiner = "running" => phase \in {"statement", "join"}
    BY DEF RestByPhase, TypeOK, Phases
  <2>. QED
    BY <1>0, <1>1, <2>1 DEF JoinerInv, TasksByPhase, Streaming
<1>5. StreamInv'
  BY <1>0, <1>1 DEF StreamInv, Streaming
<1>6. ResultInv'
  BY <1>0, <1>1 DEF ResultInv, Streaming, TypeOK
<1>. QED
  BY <1>2, <1>3, <1>4, <1>5, <1>6

\* join_next: all streams collected, or a failure that aborts the others.
LEMMA JoinNextStep ==
  ASSUME ImportInv, JoinNext
  PROVE  ImportInv'
<1>. USE DEF ImportInv
<1>0. /\ joiner = "running" /\ phase \in {"statement", "join"} /\ result.kind = "none"
      /\ UNCHANGED <<job, table, phase, next, whole, statement, response, result>>
  BY DEF JoinNext, RestByPhase, TypeOK, Phases
<1>1. PICK f \in Files \ collected :
        /\ collected' = collected \cup {f}
        /\ \/ /\ task[f] = "ok"
              /\ joiner' = IF collected' = Files THEN "ok" ELSE "running"
              /\ UNCHANGED <<task, culprit>>
           \/ /\ task[f] = "failed"
              /\ joiner' = "failed"
              /\ culprit' = f
              /\ task' = Dropped(task)
  BY DEF JoinNext
<1>2. f \in Nat
  BY <1>1, ParallelImportAssumption DEF Files
<1>3. TableInv' /\ ResultInv'
  BY <1>0 DEF TableInv, ResultInv
<1>4. CASE /\ task[f] = "ok" /\ joiner' = (IF collected' = Files THEN "ok" ELSE "running")
           /\ UNCHANGED <<task, culprit>>
  <2>1. TypeOK' /\ TasksByPhase' /\ RestByPhase' /\ StreamInv'
    BY <1>0, <1>1, <1>4 DEF TypeOK, TasksByPhase, RestByPhase, StreamInv, Before
  <2>2. \A g \in collected' : task'[g] = "ok"
    BY <1>0, <1>1, <1>4 DEF JoinerInv, TypeOK
  <2>3. JoinerInv'
    BY <1>0, <1>4, <2>2 DEF JoinerInv
  <2>. QED
    BY <1>3, <2>1, <2>3
<1>5. CASE task[f] = "failed" /\ joiner' = "failed" /\ culprit' = f /\ task' = Dropped(task)
  <2>1. TypeOK' /\ TasksByPhase' /\ RestByPhase' /\ StreamInv'
    BY <1>0, <1>1, <1>2, <1>5, DroppedTasks
       DEF TypeOK, TasksByPhase, RestByPhase, StreamInv, Before
  <2>2. JoinerInv'
    BY <1>0, <1>1, <1>5, DroppedTasks DEF JoinerInv, Streaming
  <2>. QED
    BY <1>3, <2>1, <2>2
<1>. QED
  BY <1>1, <1>4, <1>5

\* The answer of the statement: after a failure nothing is left of the streams.
LEMMA AnsweredStep ==
  ASSUME ImportInv, StatementAnswered
  PROVE  ImportInv'
<1>. USE DEF ImportInv
<1>0. /\ phase = "statement" /\ response' = "read" /\ result.kind = "none"
      /\ joiner \in {"running", "ok", "failed"}
      /\ UNCHANGED <<job, table, next, whole, culprit, collected, statement>>
  BY DEF StatementAnswered, RestByPhase
<1>1. CASE phase' = "join" /\ UNCHANGED <<joiner, task, result>>
  BY <1>0, <1>1 DEF TypeOK, TasksByPhase, RestByPhase, JoinerInv, StreamInv, TableInv, ResultInv,
                    Before, Phases
<1>2. CASE joiner = "running" /\ joiner' = "aborted" /\ task' = Dropped(task) /\ Finish("sql_error", 0)
  <2>1. /\ phase' = "done" /\ phase' \in Phases
        /\ result' \in [kind : Kinds, file : Nat] /\ result'.kind = "sql_error"
    BY <1>2, FinishType DEF Kinds
  <2>2. TypeOK' /\ TasksByPhase' /\ StreamInv'
    BY <1>0, <1>2, <2>1, DroppedTasks DEF TypeOK, TasksByPhase, StreamInv, Before
  <2>3. RestByPhase' /\ JoinerInv' /\ TableInv' /\ ResultInv'
    BY <1>0, <1>2, <2>1 DEF RestByPhase, JoinerInv, TableInv, ResultInv, Before
  <2>. QED
    BY <2>2, <2>3
<1>3. CASE /\ joiner # "running" /\ UNCHANGED <<joiner, task>>
           /\ IF joiner = "failed" THEN Finish("stream_error", culprit) ELSE Finish("sql_error", 0)
  <2>1. culprit \in Nat
    BY DEF TypeOK
  <2>2. /\ phase' = "done" /\ phase' \in Phases
        /\ result' \in [kind : Kinds, file : Nat]
        /\ \/ joiner = "failed" /\ result'.kind = "stream_error" /\ result'.file = culprit
           \/ joiner = "ok" /\ result'.kind = "sql_error"
    BY <1>0, <1>3, <2>1, FinishType DEF Kinds
  <2>3. \A f \in Files : task[f] \notin Streaming
    BY <1>0, <1>3 DEF JoinerInv, Streaming
  <2>4. TypeOK' /\ TasksByPhase' /\ StreamInv'
    BY <1>0, <1>3, <2>2, <2>3 DEF TypeOK, TasksByPhase, StreamInv, Before
  <2>5. RestByPhase' /\ JoinerInv' /\ TableInv' /\ ResultInv'
    BY <1>0, <1>3, <2>2 DEF RestByPhase, JoinerInv, TableInv, ResultInv, Before
  <2>. QED
    BY <2>4, <2>5
<1>. QED
  BY <1>1, <1>2, <1>3 DEF StatementAnswered, FinishFailed

\* After a successful statement the joiner decides.
LEMMA JoinStep ==
  ASSUME ImportInv, Join
  PROVE  ImportInv'
<1>. USE DEF ImportInv
<1>0. /\ phase = "join" /\ joiner \in {"ok", "failed"} /\ culprit \in Nat
      /\ UNCHANGED <<job, table, next, task, whole, joiner, culprit, collected, statement, response>>
  BY DEF Join, TypeOK
<1>1. /\ phase' = "done" /\ phase' \in Phases
      /\ result' \in [kind : Kinds, file : Nat]
      /\ \/ joiner = "failed" /\ result'.kind = "stream_error" /\ result'.file = culprit
         \/ joiner = "ok" /\ result'.kind = "ok"
  BY <1>0, FinishType DEF Join, Kinds
<1>2. \A f \in Files : task[f] \notin Streaming
  BY <1>0 DEF JoinerInv, Streaming
<1>3. TypeOK' /\ TasksByPhase' /\ StreamInv'
  BY <1>0, <1>1, <1>2 DEF TypeOK, TasksByPhase, StreamInv, Before
<1>4. RestByPhase' /\ JoinerInv' /\ TableInv'
  BY <1>0, <1>1 DEF RestByPhase, JoinerInv, TableInv, Before
<1>5. ResultInv'
  BY <1>0, <1>1 DEF JoinerInv, ResultInv, TypeOK
<1>. QED
  BY <1>3, <1>4, <1>5

\* Each step of the import, of its tasks and of the server keeps the invariant.
LEMMA InvStep ==
  ASSUME ImportInv, [Next]_vars
  PROVE  ImportInv'
<1>1. CASE Import
  BY <1>1, PrepareStep, CollectStep, AnsweredStep, JoinStep DEF Import
<1>2. CASE StatementFails \/ StatementEnds
  <2>1. /\ statement = "running" /\ statement' \in {"ok", "err", "cut"}
        /\ UNCHANGED <<job, table, phase, next, task, whole, joiner, culprit, collected, response, result>>
    BY <1>2 DEF StatementFails, StatementEnds, Answers
  <2>. QED
    BY <2>1 DEF ImportInv, TypeOK, TasksByPhase, RestByPhase, JoinerInv, StreamInv, TableInv, ResultInv
<1>3. CASE UNCHANGED vars
  BY <1>3 DEF vars, ImportInv, TypeOK, TasksByPhase, RestByPhase, JoinerInv, StreamInv, TableInv, ResultInv
<1>. QED
  BY <1>1, <1>2, <1>3, JoinNextStep, TaskStep DEF Next

\* The phase of an import, its tasks, its joiner and its statement fit together.
THEOREM ImportInvariant == Spec => []ImportInv
<1>. QED
  BY InitInv, InvStep, PTL DEF Spec

\* import_from_files and import_from_parquet_files tell the truth for any number
\* of files: success only if every file with a row arrived whole, an error that
\* names a file only if that file failed by itself.
THEOREM OutcomesAreTrue == Spec => []OutcomeIsTrue
<1>1. ImportInv => OutcomeIsTrue
  BY DEF ImportInv, TypeOK, StreamInv, TableInv, ResultInv, OutcomeIsTrue
<1>. QED
  BY <1>1, ImportInvariant, PTL

\* Nothing of a multi-file import outlives it, however many files it has.
THEOREM NothingIsLeft == Spec => []NothingLeft
<1>1. ImportInv => NothingLeft
  BY DEF ImportInv, TasksByPhase, RestByPhase, JoinerInv, NothingLeft
<1>. QED
  BY <1>1, ImportInvariant, PTL

-----------------------------------------------------------------------------
(* The types of the columns, as inferred from several files                *)

\* Types that widen to one another; any others widen to text.
Class(t) ==
  CASE t.kind \in {"char", "varchar"}   -> "text"
    [] t.kind \in {"decimal", "double"} -> "number"
    [] OTHER                            -> t.kind

\* Types of one kind that differ in their sizes only.
Sized == {"decimal", "varchar", "char", "timestamp", "day_to_second"}

LEMMA SameType ==
  ASSUME NEW a, NEW b, IsExasolType(a), IsExasolType(b), a.kind = b.kind, a.n = b.n, a.m = b.m
  PROVE  a = b
  BY DEF IsExasolType

LEMMA LongestIsType == IsExasolType(LongestVarchar) /\ Class(LongestVarchar) = "text" /\ LongestVarchar.kind = "varchar" /\ LongestVarchar.n = MaxVarchar
  BY TypeMappingAssumption DEF IsExasolType, ExasolKinds, T, LongestVarchar, Class

LEMMA WidenSized ==
  ASSUME NEW a, NEW b, IsExasolType(a), IsExasolType(b), a.kind = b.kind, a.kind \in Sized
  PROVE  WidenType(a, b) = T(a.kind, Larger(a.n, b.n), Larger(a.m, b.m))
<1>1. CASE a = b
  <2>1. a = T(a.kind, a.n, a.m) /\ Larger(a.n, a.n) = a.n /\ Larger(a.m, a.m) = a.m
    BY DEF IsExasolType, T, Larger
  <2>. QED BY <1>1, <2>1 DEF WidenType
<1>2. CASE a # b
  <2>1. /\ a.kind = "decimal" => AtMost(Larger(a.n, b.n), MaxPrecision) = Larger(a.n, b.n)
        /\ a.kind = "varchar" => AtMost(Larger(a.n, b.n), MaxVarchar) = Larger(a.n, b.n)
        /\ a.kind = "char" => AtMost(Larger(a.n, b.n), MaxChar) = Larger(a.n, b.n)
        /\ a.kind # "decimal" => Larger(a.m, b.m) = 0
    BY TypeMappingAssumption DEF IsExasolType, AtMost, Larger
  <2>2. CASE a.kind = "decimal"
    BY <1>2, <2>1, <2>2 DEF WidenType
  <2>3. CASE a.kind = "varchar"
    BY <1>2, <2>1, <2>3 DEF WidenType
  <2>4. CASE a.kind = "char"
    BY <1>2, <2>1, <2>4 DEF WidenType
  <2>5. CASE a.kind = "timestamp"
    BY <1>2, <2>1, <2>5 DEF WidenType
  <2>6. CASE a.kind = "day_to_second"
    BY <1>2, <2>1, <2>6 DEF WidenType
  <2>. QED BY <2>2, <2>3, <2>4, <2>5, <2>6 DEF Sized
<1>. QED BY <1>1, <1>2

LEMMA WidenText ==
  ASSUME NEW a, NEW b, IsExasolType(a), IsExasolType(b), Class(a) = "text", Class(b) = "text", a.kind # b.kind
  PROVE  WidenType(a, b) = T("varchar", Larger(a.n, b.n), 0)
<1>1. a.kind \in {"char", "varchar"} /\ b.kind \in {"char", "varchar"}
  BY DEF Class, IsExasolType, ExasolKinds
<1>2. {a.kind, b.kind} = {"char", "varchar"} /\ a # b
  BY <1>1
<1>3. AtMost(Larger(a.n, b.n), MaxVarchar) = Larger(a.n, b.n)
  BY <1>1, TypeMappingAssumption DEF IsExasolType, AtMost, Larger
<1>. QED BY <1>1, <1>2, <1>3 DEF WidenType

LEMMA WidenNumber ==
  ASSUME NEW a, NEW b, IsExasolType(a), IsExasolType(b), Class(a) = "number", Class(b) = "number", a.kind = "double" \/ b.kind = "double"
  PROVE  WidenType(a, b) = T("double", 0, 0)
<1>1. a.kind \in {"decimal", "double"} /\ b.kind \in {"decimal", "double"}
  BY DEF Class, IsExasolType, ExasolKinds
<1>2. CASE a.kind = b.kind
  <2>1. a = b /\ a = T("double", 0, 0)
    BY <1>2 DEF IsExasolType, T
  <2>. QED BY <2>1 DEF WidenType
<1>3. CASE a.kind # b.kind
  <2>1. {a.kind, b.kind} = {"decimal", "double"} /\ a # b
    BY <1>1, <1>3
  <2>. QED BY <1>1, <1>3, <2>1 DEF WidenType
<1>. QED BY <1>2, <1>3

LEMMA WidenApart ==
  ASSUME NEW a, NEW b, IsExasolType(a), IsExasolType(b), Class(a) # Class(b) \/ (a # b /\ a.kind \notin Sized \cup {"double"})
  PROVE  WidenType(a, b) = LongestVarchar
  BY DEF WidenType, Class, Sized, IsExasolType, ExasolKinds

LEMMA WidenSame == \A a : WidenType(a, a) = a
  BY DEF WidenType

\* Text that is as long as it gets absorbs every other type.
LEMMA WidenLongest ==
  ASSUME NEW a, IsExasolType(a)
  PROVE  WidenType(LongestVarchar, a) = LongestVarchar /\ WidenType(a, LongestVarchar) = LongestVarchar
<1>1. CASE Class(a) # "text"
  BY <1>1, LongestIsType, WidenApart
<1>2. CASE Class(a) = "text"
  <2>1. a.kind \in {"char", "varchar"} /\ a.m = 0 /\ a.n \in Nat /\ a.n <= MaxVarchar
    BY <1>2, TypeMappingAssumption DEF Class, IsExasolType, ExasolKinds
  <2>2. Larger(a.n, MaxVarchar) = MaxVarchar /\ Larger(MaxVarchar, a.n) = MaxVarchar /\ Larger(0, 0) = 0
    BY <2>1, TypeMappingAssumption DEF Larger
  <2>3. LongestVarchar.m = 0
    BY DEF LongestVarchar, T
  <2>4. CASE a.kind = "varchar"
    <3>1. /\ WidenType(LongestVarchar, a) = T("varchar", Larger(MaxVarchar, a.n), Larger(0, 0))
          /\ WidenType(a, LongestVarchar) = T("varchar", Larger(a.n, MaxVarchar), Larger(0, 0))
      BY <2>1, <2>3, <2>4, LongestIsType, WidenSized DEF Sized
    <3>. QED BY <2>2, <3>1 DEF LongestVarchar
  <2>5. CASE a.kind = "char"
    <3>1. /\ WidenType(LongestVarchar, a) = T("varchar", Larger(MaxVarchar, a.n), 0)
          /\ WidenType(a, LongestVarchar) = T("varchar", Larger(a.n, MaxVarchar), 0)
      BY <1>2, <2>5, LongestIsType, WidenText
    <3>. QED BY <2>2, <3>1 DEF LongestVarchar
  <2>. QED BY <2>1, <2>4, <2>5
<1>. QED BY <1>1, <1>2

\* The ways in which two types can be related.
LEMMA TwoTypes ==
  ASSUME NEW a, NEW b, IsExasolType(a), IsExasolType(b)
  PROVE  \/ a = b
         \/ a.kind = b.kind /\ a.kind \in Sized
         \/ Class(a) = "text" /\ Class(b) = "text" /\ a.kind # b.kind
         \/ Class(a) = "number" /\ Class(b) = "number" /\ (a.kind = "double" \/ b.kind = "double")
         \/ Class(a) # Class(b) \/ (a # b /\ a.kind \notin Sized \cup {"double"})
  BY DEF IsExasolType, ExasolKinds, Class, Sized

LEMMA LargerFacts ==
  ASSUME NEW x \in Nat, NEW y \in Nat
  PROVE  /\ Larger(x, y) \in {x, y} /\ Larger(x, y) \in Nat /\ Larger(x, y) = Larger(y, x)
         /\ x <= Larger(x, y) /\ y <= Larger(x, y)
  BY DEF Larger

\* What two types widen to is a type of the same class, or the longest text.
LEMMA WidenedType ==
  ASSUME NEW a, NEW b, IsExasolType(a), IsExasolType(b)
  PROVE  IsExasolType(WidenType(a, b)) /\ (WidenType(a, b) = LongestVarchar \/ Class(WidenType(a, b)) = Class(a))
<1>0. a.n \in Nat /\ b.n \in Nat /\ a.m \in Nat /\ b.m \in Nat
  BY DEF IsExasolType
<1>1. CASE a = b
  BY <1>1, WidenSame
<1>2. CASE a.kind = b.kind /\ a.kind \in Sized
  <2>1. WidenType(a, b) = T(a.kind, Larger(a.n, b.n), Larger(a.m, b.m))
    BY <1>2, WidenSized
  <2>2. Class(T(a.kind, Larger(a.n, b.n), Larger(a.m, b.m))) = Class(a)
    BY DEF Class, T
  <2>3. PICK x \in Nat, y \in Nat : x = Larger(a.n, b.n) /\ y = Larger(a.m, b.m)
    BY <1>0, LargerFacts
  <2>4. x \in {a.n, b.n} /\ y \in {a.m, b.m} /\ a.n <= x /\ b.n <= x
    BY <1>0, <2>3, LargerFacts
  <2>5. IsExasolType(T(a.kind, x, y))
    BY <1>0, <1>2, <2>4, TypeMappingAssumption DEF IsExasolType, ExasolKinds, Sized, T
  <2>. QED BY <2>1, <2>2, <2>3, <2>5
<1>3. CASE Class(a) = "text" /\ Class(b) = "text" /\ a.kind # b.kind
  <2>1. PICK x \in Nat : x = Larger(a.n, b.n) /\ x \in {a.n, b.n}
    BY <1>0, LargerFacts
  <2>2. x \in 1 .. MaxVarchar
    BY <1>0, <1>3, <2>1, TypeMappingAssumption DEF IsExasolType, ExasolKinds, Class
  <2>3. IsExasolType(T("varchar", x, 0)) /\ Class(T("varchar", x, 0)) = "text"
    BY <2>2 DEF IsExasolType, ExasolKinds, T, Class
  <2>. QED BY <1>3, <2>1, <2>3, WidenText
<1>4. CASE Class(a) = "number" /\ Class(b) = "number" /\ (a.kind = "double" \/ b.kind = "double")
  <2>1. IsExasolType(T("double", 0, 0)) /\ Class(T("double", 0, 0)) = "number"
    BY DEF IsExasolType, ExasolKinds, T, Class
  <2>. QED BY <1>4, <2>1, WidenNumber
<1>5. CASE Class(a) # Class(b) \/ (a # b /\ a.kind \notin Sized \cup {"double"})
  BY <1>5, LongestIsType, WidenApart
<1>. QED BY <1>1, <1>2, <1>3, <1>4, <1>5, TwoTypes

\* widen_type, for every two types: a column that is read from two files is the same in
\* whichever order they come.  It holds the values of both, two decimals excepted: these it
\* holds exactly when one of the two already holds the other, for max(precision) and
\* max(scale) of DECIMAL(5,0) and DECIMAL(5,4) leave one digit before the point.
THEOREM WideningHolds ==
  ASSUME NEW a, NEW b, IsExasolType(a), IsExasolType(b)
  PROVE  /\ IsExasolType(WidenType(a, b))
         /\ WidenType(a, b) = WidenType(b, a)
         /\ (Holds(WidenType(a, b), a) /\ Holds(WidenType(a, b), b))
              <=> (~(a.kind = "decimal" /\ b.kind = "decimal") \/ Holds(a, b) \/ Holds(b, a))
<1>0. a.n \in Nat /\ b.n \in Nat /\ a.m \in Nat /\ b.m \in Nat
  BY DEF IsExasolType
<1>1. CASE a = b
  <2>1. Holds(a, a)
    BY <1>0 DEF Holds
  <2>. QED BY <1>1, <2>1, WidenSame
<1>2. CASE a.kind = b.kind /\ a.kind \in Sized
  <2>1. /\ WidenType(a, b) = T(a.kind, Larger(a.n, b.n), Larger(a.m, b.m))
        /\ WidenType(b, a) = T(a.kind, Larger(b.n, a.n), Larger(b.m, a.m))
    BY <1>2, WidenSized
  <2>2. PICK x \in Nat, y \in Nat : x = Larger(a.n, b.n) /\ y = Larger(a.m, b.m)
    BY <1>0, LargerFacts
  <2>3. /\ x = Larger(b.n, a.n) /\ y = Larger(b.m, a.m)
        /\ a.n <= x /\ b.n <= x /\ a.m <= y /\ b.m <= y
    BY <1>0, <2>2, LargerFacts
  <2>4. CASE a.kind # "decimal"
    <3>1. Holds(T(a.kind, x, y), a) /\ Holds(T(a.kind, x, y), b)
      BY <1>0, <1>2, <2>3, <2>4 DEF Holds, T
    <3>. QED BY <1>2, <2>1, <2>2, <2>3, <2>4, <3>1, WidenedType
  <2>5. CASE a.kind = "decimal"
    <3>1. x \in {a.n, b.n} /\ y \in {a.m, b.m}
      BY <1>0, <2>2, LargerFacts
    <3>2. /\ Holds(a, b) <=> (a.n >= b.n /\ a.m >= b.m /\ a.n - a.m >= b.n - b.m)
          /\ Holds(b, a) <=> (b.n >= a.n /\ b.m >= a.m /\ b.n - b.m >= a.n - a.m)
      <4>1. a.kind = "decimal" /\ b.kind = "decimal" /\ LongestVarchar.kind = "varchar"
        BY <1>2, <2>5 DEF LongestVarchar, T
      <4>2. a # LongestVarchar /\ b # LongestVarchar
        BY <4>1
      <4>. QED BY <4>1, <4>2 DEF Holds
    <3>3. /\ Holds(T("decimal", x, y), a) <=> x - y >= a.n - a.m
          /\ Holds(T("decimal", x, y), b) <=> x - y >= b.n - b.m
      BY <1>0, <1>2, <2>3, <2>5 DEF Holds, LongestVarchar, T
    <3>4. (x - y >= a.n - a.m /\ x - y >= b.n - b.m)
            <=> \/ a.n >= b.n /\ a.m >= b.m /\ a.n - a.m >= b.n - b.m
                \/ b.n >= a.n /\ b.m >= a.m /\ b.n - b.m >= a.n - a.m
      BY <1>0, <2>3, <3>1
    <3>5. /\ IsExasolType(WidenType(a, b))
          /\ WidenType(a, b) = T("decimal", x, y) /\ WidenType(b, a) = T("decimal", x, y)
          /\ a.kind = "decimal" /\ b.kind = "decimal"
      BY <1>2, <2>1, <2>2, <2>3, <2>5, WidenedType
    <3>6. (Holds(T("decimal", x, y), a) /\ Holds(T("decimal", x, y), b)) <=> (Holds(a, b) \/ Holds(b, a))
      BY <3>2, <3>3, <3>4
    <3>. QED BY <3>5, <3>6
  <2>. QED BY <2>4, <2>5
<1>3. CASE Class(a) = "text" /\ Class(b) = "text" /\ a.kind # b.kind
  <2>1. /\ WidenType(a, b) = T("varchar", Larger(a.n, b.n), 0)
        /\ WidenType(b, a) = T("varchar", Larger(b.n, a.n), 0)
    BY <1>3, WidenText
  <2>2. PICK x \in Nat : x = Larger(a.n, b.n) /\ x = Larger(b.n, a.n) /\ a.n <= x /\ b.n <= x
    BY <1>0, LargerFacts
  <2>3. Holds(T("varchar", x, 0), a) /\ Holds(T("varchar", x, 0), b)
    BY <1>0, <1>3, <2>2 DEF Holds, T, IsExasolType, ExasolKinds, Class
  <2>4. a.kind # "decimal"
    BY <1>3 DEF Class
  <2>. QED BY <2>1, <2>2, <2>3, <2>4, WidenedType
<1>4. CASE Class(a) = "number" /\ Class(b) = "number" /\ (a.kind = "double" \/ b.kind = "double")
  <2>1. WidenType(a, b) = T("double", 0, 0) /\ WidenType(b, a) = T("double", 0, 0)
    BY <1>4, WidenNumber
  <2>2. Holds(T("double", 0, 0), a) /\ Holds(T("double", 0, 0), b)
    BY <1>4 DEF Holds, T, IsExasolType, ExasolKinds, Class
  <2>3. ~(a.kind = "decimal" /\ b.kind = "decimal")
    BY <1>4
  <2>. QED BY <2>1, <2>2, <2>3, WidenedType
<1>5. CASE Class(a) # Class(b) \/ (a # b /\ a.kind \notin Sized \cup {"double"})
  <2>1. WidenType(a, b) = LongestVarchar
    BY <1>5, WidenApart
  <2>2. WidenType(b, a) = LongestVarchar
    <3>1. Class(b) # Class(a) \/ (b # a /\ b.kind \notin Sized \cup {"double"})
      BY <1>5 DEF IsExasolType, ExasolKinds, Class, Sized
    <3>. QED BY <3>1, WidenApart
  <2>3. ~(a.kind = "decimal" /\ b.kind = "decimal")
    BY <1>5 DEF Class, Sized
  <2>. QED BY <2>1, <2>2, <2>3, WidenedType DEF Holds
<1>. QED BY <1>1, <1>2, <1>3, <1>4, <1>5, TwoTypes

LEMMA LargerAssociates ==
  ASSUME NEW x \in Nat, NEW y \in Nat, NEW z \in Nat
  PROVE  Larger(Larger(x, y), z) = Larger(x, Larger(y, z))
  BY DEF Larger

\* Three types of one kind that differ in their sizes.
LEMMA SizedAssociates ==
  ASSUME NEW a, NEW b, NEW c, IsExasolType(a), IsExasolType(b), IsExasolType(c),
         a.kind = b.kind, b.kind = c.kind, a.kind \in Sized
  PROVE  WidenType(WidenType(a, b), c) = WidenType(a, WidenType(b, c))
<1>. DEFINE ab == WidenType(a, b)
<1>. DEFINE bc == WidenType(b, c)
<1>1. IsExasolType(ab) /\ IsExasolType(bc)
  BY WidenedType
<1>2. /\ ab = T(a.kind, Larger(a.n, b.n), Larger(a.m, b.m))
      /\ bc = T(a.kind, Larger(b.n, c.n), Larger(b.m, c.m))
  BY WidenSized
<1>3. /\ ab.kind = a.kind /\ ab.n = Larger(a.n, b.n) /\ ab.m = Larger(a.m, b.m)
      /\ bc.kind = a.kind /\ bc.n = Larger(b.n, c.n) /\ bc.m = Larger(b.m, c.m)
  BY <1>2 DEF T
<1>. HIDE DEF ab, bc
<1>4. /\ WidenType(ab, c) = T(a.kind, Larger(ab.n, c.n), Larger(ab.m, c.m))
      /\ WidenType(a, bc) = T(a.kind, Larger(a.n, bc.n), Larger(a.m, bc.m))
  BY <1>1, <1>3, WidenSized
<1>5. Larger(ab.n, c.n) = Larger(a.n, bc.n) /\ Larger(ab.m, c.m) = Larger(a.m, bc.m)
  BY <1>3, LargerAssociates DEF IsExasolType
<1>. QED BY <1>4, <1>5 DEF ab, bc

\* Two texts: CHAR only if both are.
LEMMA WidenTexts ==
  ASSUME NEW a, NEW b, IsExasolType(a), IsExasolType(b), Class(a) = "text", Class(b) = "text"
  PROVE  WidenType(a, b) = T(IF a.kind = "char" /\ b.kind = "char" THEN "char" ELSE "varchar", Larger(a.n, b.n), 0)
<1>1. a.kind \in {"char", "varchar"} /\ b.kind \in {"char", "varchar"} /\ a.m = 0 /\ b.m = 0
  BY DEF Class, IsExasolType, ExasolKinds
<1>2. CASE a.kind = b.kind
  <2>1. WidenType(a, b) = T(a.kind, Larger(a.n, b.n), Larger(a.m, b.m))
    BY <1>1, <1>2, WidenSized DEF Sized
  <2>2. Larger(a.m, b.m) = 0
    BY <1>1 DEF Larger
  <2>. QED BY <1>1, <1>2, <2>1, <2>2
<1>3. CASE a.kind # b.kind
  BY <1>1, <1>3, WidenText
<1>. QED BY <1>2, <1>3

LEMMA TextsAssociate ==
  ASSUME NEW a, NEW b, NEW c, IsExasolType(a), IsExasolType(b), IsExasolType(c),
         Class(a) = "text", Class(b) = "text", Class(c) = "text"
  PROVE  WidenType(WidenType(a, b), c) = WidenType(a, WidenType(b, c))
<1>. DEFINE ab == WidenType(a, b)
<1>. DEFINE bc == WidenType(b, c)
<1>1. IsExasolType(ab) /\ IsExasolType(bc) /\ Class(ab) = "text" /\ Class(bc) = "text"
  BY WidenedType, LongestIsType
<1>2. /\ ab = T(IF a.kind = "char" /\ b.kind = "char" THEN "char" ELSE "varchar", Larger(a.n, b.n), 0)
      /\ bc = T(IF b.kind = "char" /\ c.kind = "char" THEN "char" ELSE "varchar", Larger(b.n, c.n), 0)
  BY WidenTexts
<1>3. /\ ab.kind = "char" <=> a.kind = "char" /\ b.kind = "char"
      /\ bc.kind = "char" <=> b.kind = "char" /\ c.kind = "char"
      /\ ab.n = Larger(a.n, b.n) /\ bc.n = Larger(b.n, c.n)
  BY <1>2 DEF T
<1>. HIDE DEF ab, bc
<1>4. /\ WidenType(ab, c) = T(IF ab.kind = "char" /\ c.kind = "char" THEN "char" ELSE "varchar", Larger(ab.n, c.n), 0)
      /\ WidenType(a, bc) = T(IF a.kind = "char" /\ bc.kind = "char" THEN "char" ELSE "varchar", Larger(a.n, bc.n), 0)
  BY <1>1, WidenTexts
<1>5. Larger(ab.n, c.n) = Larger(a.n, bc.n)
  BY <1>3, LargerAssociates DEF IsExasolType
<1>. QED BY <1>3, <1>4, <1>5 DEF ab, bc

LEMMA NumbersAssociate ==
  ASSUME NEW a, NEW b, NEW c, IsExasolType(a), IsExasolType(b), IsExasolType(c),
         Class(a) = "number", Class(b) = "number", Class(c) = "number"
  PROVE  WidenType(WidenType(a, b), c) = WidenType(a, WidenType(b, c))
<1>. DEFINE ab == WidenType(a, b)
<1>. DEFINE bc == WidenType(b, c)
<1>. DEFINE double == T("double", 0, 0)
<1>1. \A x \in {a, b, c} : x.kind \in {"decimal", "double"}
  BY DEF Class, IsExasolType, ExasolKinds
<1>2. CASE a.kind = "decimal" /\ b.kind = "decimal" /\ c.kind = "decimal"
  BY <1>2, SizedAssociates DEF Sized
<1>3. CASE ~(a.kind = "decimal" /\ b.kind = "decimal" /\ c.kind = "decimal")
  <2>1. IsExasolType(double) /\ double.kind = "double" /\ Class(double) = "number"
    BY DEF IsExasolType, ExasolKinds, T, Class
  <2>2. ASSUME NEW x \in {a, b, c}, NEW y \in {a, b, c}
        PROVE  /\ IsExasolType(WidenType(x, y)) /\ Class(WidenType(x, y)) = "number"
               /\ x.kind = "double" \/ y.kind = "double" => WidenType(x, y).kind = "double"
    <3>1. CASE x.kind = "double" \/ y.kind = "double"
      BY <2>1, <3>1, WidenNumber
    <3>2. CASE ~(x.kind = "double" \/ y.kind = "double")
      <4>1. x.kind = "decimal" /\ y.kind = "decimal"
        BY <1>1, <3>2
      <4>2. WidenType(x, y) = T("decimal", Larger(x.n, y.n), Larger(x.m, y.m))
        BY <4>1, WidenSized DEF Sized
      <4>3. Class(WidenType(x, y)) = "number"
        BY <4>2 DEF Class, T
      <4>. QED BY <3>2, <4>3, WidenedType
    <3>. QED BY <3>1, <3>2
  <2>3. /\ IsExasolType(ab) /\ IsExasolType(bc) /\ Class(ab) = "number" /\ Class(bc) = "number"
        /\ ab.kind = "double" \/ c.kind = "double"
        /\ bc.kind = "double" \/ a.kind = "double"
    BY <1>1, <1>3, <2>2
  <2>. HIDE DEF ab, bc
  <2>4. WidenType(ab, c) = double /\ WidenType(a, bc) = double
    BY <2>3, WidenNumber
  <2>. QED BY <2>4 DEF ab, bc
<1>. QED BY <1>2, <1>3

\* Three types of different classes widen to text, whichever two come first.
LEMMA ApartAssociate ==
  ASSUME NEW a, NEW b, NEW c, IsExasolType(a), IsExasolType(b), IsExasolType(c),
         Class(a) # Class(b) \/ Class(b) # Class(c)
  PROVE  WidenType(WidenType(a, b), c) = WidenType(a, WidenType(b, c))
<1>. DEFINE ab == WidenType(a, b)
<1>. DEFINE bc == WidenType(b, c)
<1>1. /\ IsExasolType(ab) /\ (ab = LongestVarchar \/ Class(ab) = Class(a))
      /\ IsExasolType(bc) /\ (bc = LongestVarchar \/ Class(bc) = Class(b))
  BY WidenedType
<1>2. /\ Class(a) # Class(b) => ab = LongestVarchar
      /\ Class(b) # Class(c) => bc = LongestVarchar
  BY WidenApart
<1>. HIDE DEF ab, bc
<1>3. WidenType(ab, c) = LongestVarchar
  BY <1>1, <1>2, WidenApart, WidenLongest
<1>4. WidenType(a, bc) = LongestVarchar
  BY <1>1, <1>2, WidenApart, WidenLongest
<1>. QED BY <1>3, <1>4 DEF ab, bc

\* Three types of a kind that has no wider one.
LEMMA FixedAssociate ==
  ASSUME NEW a, NEW b, NEW c, IsExasolType(a), IsExasolType(b), IsExasolType(c),
         a.kind \notin Sized \cup {"double"}, a.kind = b.kind, b.kind = c.kind
  PROVE  WidenType(WidenType(a, b), c) = WidenType(a, WidenType(b, c))
<1>1. /\ WidenType(a, b) = IF a = b THEN a ELSE LongestVarchar
      /\ WidenType(b, c) = IF b = c THEN b ELSE LongestVarchar
  BY WidenApart, WidenSame
<1>2. CASE a = b /\ b = c
  BY <1>2, WidenSame
<1>3. CASE a = b /\ b # c
  BY <1>1, <1>3, WidenLongest
<1>4. CASE a # b
  BY <1>1, <1>4, WidenLongest, WidenApart
<1>. QED BY <1>2, <1>3, <1>4

\* widen_type, for every three types: the column does not depend on which files are
\* merged first, so that, with WideningHolds, infer_schema_from_csv_files and
\* infer_schema_from_parquet_files may take the files in any order.
THEOREM WideningAssociates ==
  ASSUME NEW a, NEW b, NEW c, IsExasolType(a), IsExasolType(b), IsExasolType(c)
  PROVE  WidenType(WidenType(a, b), c) = WidenType(a, WidenType(b, c))
<1>1. CASE Class(a) # Class(b) \/ Class(b) # Class(c)
  BY <1>1, ApartAssociate
<1>2. CASE Class(a) = "text" /\ Class(b) = "text" /\ Class(c) = "text"
  BY <1>2, TextsAssociate
<1>3. CASE Class(a) = "number" /\ Class(b) = "number" /\ Class(c) = "number"
  BY <1>3, NumbersAssociate
<1>4. CASE Class(a) = Class(b) /\ Class(b) = Class(c) /\ Class(a) \notin {"text", "number"}
  <2>1. a.kind = b.kind /\ b.kind = c.kind /\ a.kind # "double"
    BY <1>4 DEF Class, IsExasolType, ExasolKinds
  <2>. QED BY <2>1, SizedAssociates, FixedAssociate
<1>. QED BY <1>1, <1>2, <1>3, <1>4

\* A column of every type is described in the DDL so that parse_exasol_type_string reads
\* the same type back from the catalogue, except that a HASHTYPE of any size is read back
\* with the default one; it can be exported to Parquet, and, of the types with an Arrow type
\* of their own, survives the way to Arrow and back.
THEOREM TypesReadBack ==
  ASSUME NEW t, IsExasolType(t)
  PROVE  /\ ParseExasolTypeString(ToDdlType(t))
              = IF t.kind = "hashtype" THEN T("hashtype", DefaultHashBytes, 0) ELSE t
         /\ BuildsFromText(ParquetExportType(t))
         /\ t.kind \in {"boolean", "double", "date", "timestamp", "decimal"} => ArrowToExasol(ExasolToArrow(t)) = t
<1>1. t = T(t.kind, t.n, t.m) /\ t.kind \in ExasolKinds /\ t.n \in Nat /\ t.m \in Nat
  BY DEF IsExasolType, T
<1>2. BuildsFromText(ParquetExportType(t))
  BY <1>1 DEF BuildsFromText, ParquetExportType, ArrowExportType, ExasolToArrow, T, ExasolKinds
<1>3. CASE t.kind = "boolean"
  BY <1>1, <1>2, <1>3 DEF ParseExasolTypeString, ToDdlType, TypeText, T, IsExasolType, ExasolToArrow, ArrowToExasol, Texts, NarrowInts, WideInts, Decimals
<1>4. CASE t.kind = "char"
  BY <1>1, <1>2, <1>4 DEF ParseExasolTypeString, ToDdlType, TypeText, T, IsExasolType, FirstParam
<1>5. CASE t.kind = "varchar"
  BY <1>1, <1>2, <1>5 DEF ParseExasolTypeString, ToDdlType, TypeText, T, IsExasolType, FirstParam
<1>6. CASE t.kind = "decimal"
  <2>1. ToDdlType(t) = TypeText("DECIMAL", <<t.n, t.m>>, "", "")
    BY <1>6 DEF ToDdlType
  <2>2. ParseExasolTypeString(ToDdlType(t)) = T("decimal", t.n, t.m)
    <3>1. PICK params : params = <<t.n, t.m>>
      OBVIOUS
    <3>2. params # <<>> /\ Len(params) = 2 /\ params[1] = t.n /\ params[2] = t.m
      BY <1>1, <3>1
    <3>3. PICK text : text = TypeText("DECIMAL", params, "", "")
      OBVIOUS
    <3>4. text.name = "DECIMAL" /\ text.params = params
      BY <3>3 DEF TypeText
    <3>5. ParseExasolTypeString(text) = T("decimal", params[1], params[2])
      BY <3>2, <3>4 DEF ParseExasolTypeString
    <3>. QED BY <2>1, <3>1, <3>2, <3>3, <3>5
  <2>3. ExasolToArrow(t) = T("decimal128", t.n, t.m)
    BY <1>6 DEF ExasolToArrow
  <2>4. t.n \in 1 .. MaxPrecision /\ t.m \in 0 .. t.n
    BY <1>1, <1>6 DEF IsExasolType
  <2>5. ArrowToExasol(T("decimal128", t.n, t.m)) = T("decimal", t.n, t.m)
    BY <2>4 DEF ArrowToExasol, T, Texts, NarrowInts, WideInts, Decimals
  <2>. QED BY <1>1, <1>2, <1>6, <2>2, <2>3, <2>5
<1>7. CASE t.kind = "double"
  BY <1>1, <1>2, <1>7 DEF ParseExasolTypeString, ToDdlType, TypeText, T, IsExasolType, ExasolToArrow, ArrowToExasol, Texts, NarrowInts, WideInts, Decimals
<1>8. CASE t.kind = "date"
  BY <1>1, <1>2, <1>8 DEF ParseExasolTypeString, ToDdlType, TypeText, T, IsExasolType, ExasolToArrow, ArrowToExasol, Texts, NarrowInts, WideInts, Decimals
<1>9. CASE t.kind = "timestamp"
  BY <1>1, <1>2, <1>9 DEF ParseExasolTypeString, ToDdlType, TypeText, T, IsExasolType, ParseTemporalType, ExasolToArrow, ArrowToExasol, Texts, NarrowInts, WideInts, Decimals
<1>10. CASE t.kind = "year_to_month"
  BY <1>1, <1>2, <1>10 DEF ParseExasolTypeString, ToDdlType, TypeText, T, IsExasolType, ParseTemporalType
<1>11. CASE t.kind = "day_to_second"
  BY <1>1, <1>2, <1>11 DEF ParseExasolTypeString, ToDdlType, TypeText, T, IsExasolType, ParseTemporalType, LastParam, Last, LeadingPrecision
<1>12. CASE t.kind = "geometry"
  BY <1>1, <1>2, <1>12 DEF ParseExasolTypeString, ToDdlType, TypeText, T, IsExasolType, FirstParam
<1>13. CASE t.kind = "hashtype"
  BY <1>1, <1>2, <1>13 DEF ParseExasolTypeString, ToDdlType, TypeText, T, IsExasolType, FirstParam, DefaultHashBytes
<1>. QED BY <1>1, <1>3, <1>4, <1>5, <1>6, <1>7, <1>8, <1>9, <1>10, <1>11, <1>12, <1>13 DEF ExasolKinds
=============================================================================
