------------------------- MODULE SingleImportProofs -------------------------
(***************************************************************************)
(* What an import over one tunnel tells the server and the caller, for any *)
(* number of pieces and any capacity of the channel.  The inductive        *)
(* invariant counts the pieces on their way from the source to the tunnel, *)
(* and says where statement, stream and response are in each phase.        *)
(***************************************************************************)
EXTENDS SingleImport, TLAPS

Phases  == {"footer", "open", "connect", "running", "await_sql", "await_stream", "done"}
Early   == {"footer", "open", "connect"}
Streams == {"none", "rendering", "collecting", "request", "reading", "writing", "serving",
            "ok", "failed", "dropped"}
Outcomes == {"none", "rejected", "sql_error", "source_error", "empty", "connect_error",
             "stream_error", "ok"}

\* What the variables may hold.
TypeOK ==
  /\ kind \in Kinds
  /\ create \in {"yes", "no"}
  /\ phase \in Phases
  /\ ddl \in {"none", "ok", "exists", "err"}
  /\ statement \in {"none", "running", "ok", "err", "cut"}
  /\ response \in {"none", "unread", "read"}
  /\ stream \in Streams
  /\ producer \in {"none", "running", "ok", "failed", "stopped"}
  /\ queue \in Nat /\ made \in Nat /\ held \in Nat /\ sent \in Nat
  /\ whole \in {"yes", "no"}
  /\ result \in Outcomes

\* Statement, stream and response in each phase.
PhaseInv ==
  /\ phase \in Early => statement = "none" /\ response = "none" /\ stream = "none"
  /\ phase \notin Early \cup {"done"} => statement # "none" /\ stream # "none"
  /\ phase = "await_sql" => stream \in {"ok", "failed"}
  /\ phase = "await_stream" => statement = "ok" /\ response = "read"
  /\ phase = "done" => statement # "running" /\ response # "unread"
  /\ (phase = "running" /\ kind \in SelectKinds) => ~StreamOver

\* A statement is cut only by a stream that failed, and that failure stays on
\* record until the import returns it.
CutInv ==
  statement = "cut" => IF phase = "done" THEN result = "stream_error" ELSE stream = "failed"

\* What a stream does, by its source.
PathInv ==
  /\ kind \in {"file", "iterator"}  => stream \notin {"collecting", "reading", "serving"}
  /\ kind = "callback"              => stream \notin {"rendering", "reading", "serving"}
  /\ kind \in {"reader", "batches"} => stream \notin {"rendering", "collecting", "serving"}
  /\ kind = "parquet_csv"           => stream \notin {"rendering", "collecting", "reading", "serving"}
  /\ kind = "parquet_native"        => stream \notin {"rendering", "collecting", "reading", "writing"}

\* The sources that have all their pieces at once.
ReadyInv ==
  kind \in {"file", "iterator", "reader", "batches"} =>
    /\ producer = "none" /\ queue = 0
    /\ stream \in {"none", "rendering", "request", "reading"} => sent = 0
    /\ (stream = "writing" \/ (stream = "request" /\ kind \in {"file", "iterator"})) => held + sent = N

\* The pieces of a callback: in the channel, collected, or written.
CallbackInv ==
  kind = "callback" =>
    /\ made = queue + held + sent
    /\ producer = "ok" => made = N
    /\ stream = "none" => producer = "none"
    /\ stream \in {"request", "writing"} => producer = "ok" /\ queue = 0

\* The pieces of a renderer: in the channel or written.
RendererInv ==
  kind = "parquet_csv" =>
    /\ made = queue + sent /\ held = 0
    /\ producer = "ok" => made = N
    /\ stream \in {"none", "request"} => producer = "none"
    /\ stream = "writing" => producer # "none"

\* A file served by ranges has no body of its own.
RangesInv == kind = "parquet_native" => producer = "none" /\ whole = "no"

\* The terminating chunk is the last thing a stream writes.
EndInv == whole = "yes" => StreamOver /\ sent = N /\ producer \in {"none", "ok"}

\* The pieces on their way from the source to the server.
PieceInv == PathInv /\ ReadyInv /\ CallbackInv /\ RendererInv /\ RangesInv /\ EndInv

\* The inductive invariant.
ImportInv == TypeOK /\ PhaseInv /\ CutInv /\ PieceInv

-----------------------------------------------------------------------------
(* The control of the import                                               *)

\* Every step keeps the types.
LEMMA TypeStep ==
  ASSUME TypeOK, [Next]_vars
  PROVE  TypeOK'
<1>. USE DEF TypeOK, sourceVars, bodyVars
<1>1. CASE CheckFooter \/ OpenSource
  BY <1>1 DEF CheckFooter, OpenSource, Return, Phases, Outcomes
<1>2. CASE Connect
  BY <1>2 DEF Connect, Return, Phases, Outcomes, Streams
<1>3. CASE SqlFirst \/ AwaitSql \/ FinishImport \/ AwaitStream
  BY <1>3 DEF SqlFirst, AwaitSql, FinishImport, AwaitStream, Return, Phases, Outcomes, Streams
<1>4. CASE Render \/ ReadToEnd
  BY <1>4, SingleImportAssumption DEF Render, ReadToEnd, StreamGoesOn, Streams
<1>5. CASE Collect
  BY <1>5 DEF Collect, CollectEnds, StreamGoesOn, StreamEnds, Streams, Phases
<1>6. CASE Requested
  BY <1>6 DEF Requested, StreamGoesOn, Streams
<1>7. CASE WritePiece
  BY <1>7 DEF WritePiece
<1>8. CASE EndBody \/ Serve
  BY <1>8 DEF EndBody, Serve, StreamEnds, Streams, Phases
<1>9. CASE Produce \/ ProducerFails
  BY <1>9, SingleImportAssumption DEF Produce, ProducerFails
<1>10. CASE StatementEnds \/ StatementFails
  BY <1>10 DEF StatementEnds, StatementFails, Answers
<1>11. CASE StreamFails
  BY <1>11 DEF StreamFails, StreamEnds, Streams, Phases
<1>12. CASE UNCHANGED vars
  BY <1>12 DEF vars
<1>. QED
  BY <1>1, <1>2, <1>3, <1>4, <1>5, <1>6, <1>7, <1>8, <1>9, <1>10, <1>11, <1>12 DEF Next, Import, Stream

\* Statement, stream and response stay where each phase has them, and the stream
\* that cut the statement is not forgotten.
LEMMA PhaseStep ==
  ASSUME TypeOK, PhaseInv, CutInv, [Next]_vars
  PROVE  PhaseInv' /\ CutInv'
<1>. USE DEF TypeOK, PhaseInv, CutInv, Early, StreamOver
<1>1. CASE CheckFooter \/ OpenSource \/ Connect
  BY <1>1 DEF CheckFooter, OpenSource, Connect, Return, Phases
<1>2. CASE SqlFirst \/ AwaitSql \/ FinishImport \/ AwaitStream
  BY <1>2 DEF SqlFirst, AwaitSql, FinishImport, AwaitStream, Return, Answered
<1>3. CASE Render \/ ReadToEnd \/ Requested
  BY <1>3 DEF Render, ReadToEnd, Requested, StreamGoesOn
<1>4. CASE Collect
  BY <1>4 DEF Collect, CollectEnds, StreamGoesOn, StreamEnds
<1>5. CASE WritePiece \/ Produce \/ ProducerFails
  BY <1>5 DEF WritePiece, Produce, ProducerFails
<1>6. CASE EndBody
  BY <1>6 DEF EndBody, StreamEnds
<1>7. CASE Serve
  BY <1>7 DEF Serve, StreamEnds
<1>8. CASE StatementEnds \/ StatementFails
  BY <1>8 DEF StatementEnds, StatementFails, Answers
<1>9. CASE StreamFails
  BY <1>9 DEF StreamFails, StreamEnds
<1>10. CASE UNCHANGED vars
  BY <1>10 DEF vars
<1>. QED
  BY <1>1, <1>2, <1>3, <1>4, <1>5, <1>6, <1>7, <1>8, <1>9, <1>10 DEF Next, Import, Stream

-----------------------------------------------------------------------------
(* The pieces                                                              *)

\* No piece is lost or written twice on its way, and the terminating chunk
\* follows the last one.
LEMMA PieceStep ==
  ASSUME TypeOK, PhaseInv, PieceInv, [Next]_vars
  PROVE  PieceInv'
<1>. USE DEF PieceInv, PathInv, ReadyInv, CallbackInv, RendererInv, RangesInv, EndInv, StreamOver, sourceVars, bodyVars
<1>0. /\ kind \in Kinds /\ stream \in Streams
      /\ queue \in Nat /\ made \in Nat /\ held \in Nat /\ sent \in Nat /\ N \in Nat \ {0}
  BY SingleImportAssumption DEF TypeOK
<1>1. CASE CheckFooter \/ OpenSource \/ AwaitSql \/ AwaitStream
  BY <1>1 DEF CheckFooter, OpenSource, AwaitSql, AwaitStream
<1>2. CASE Connect
  BY <1>0, <1>2 DEF Connect, PhaseInv, Early
<1>3. CASE SqlFirst
  BY <1>0, <1>3 DEF SqlFirst
<1>4. CASE FinishImport
  BY <1>0, <1>4 DEF FinishImport
<1>5. CASE Render
  BY <1>0, <1>5 DEF Render, StreamGoesOn
<1>6. CASE ReadToEnd
  BY <1>0, <1>6 DEF ReadToEnd, StreamGoesOn
<1>7. CASE Requested
  BY <1>0, <1>7 DEF Requested, StreamGoesOn, Kinds, SelectKinds
<1>8. CASE Collect
  BY <1>0, <1>8 DEF Collect, CollectEnds, StreamGoesOn, StreamEnds
<1>9. CASE WritePiece
  BY <1>0, <1>9 DEF WritePiece
<1>10. CASE EndBody
  BY <1>0, <1>10 DEF EndBody, StreamEnds, Kinds, SelectKinds
<1>11. CASE Serve
  BY <1>0, <1>11 DEF Serve, StreamEnds
<1>12. CASE Produce \/ ProducerFails
  BY <1>0, <1>12 DEF Produce, ProducerFails, Kinds, SelectKinds
<1>13. CASE StatementEnds \/ StatementFails
  BY <1>13 DEF StatementEnds, StatementFails, Answers
<1>14. CASE StreamFails
  BY <1>0, <1>14 DEF StreamFails, StreamEnds
<1>15. CASE UNCHANGED vars
  BY <1>15 DEF vars
<1>. QED
  BY <1>1, <1>2, <1>3, <1>4, <1>5, <1>6, <1>7, <1>8, <1>9, <1>10, <1>11, <1>12, <1>13, <1>14, <1>15
     DEF Next, Import, Stream

-----------------------------------------------------------------------------
\* Phases, statement, stream and pieces fit together in every import.
THEOREM ImportInvariant == Spec => []ImportInv
<1>1. Init => ImportInv
  BY SingleImportAssumption
     DEF Init, ImportInv, TypeOK, PhaseInv, CutInv, PieceInv, PathInv, ReadyInv, CallbackInv,
         RendererInv, RangesInv, EndInv, Kinds, SelectKinds, Phases, Early, Streams, Outcomes, StreamOver
<1>2. ImportInv /\ [Next]_vars => ImportInv'
  BY TypeStep, PhaseStep, PieceStep DEF ImportInv
<1>. QED
  BY <1>1, <1>2, PTL DEF Spec

\* An import ends its body only when the whole source was sent, names the stream
\* that broke the statement, and leaves no response unread: for a source of any
\* length behind a channel of any capacity.
THEOREM SourceIsToldTruly == Spec => []SourceToldTruly
<1>1. ImportInv => SourceToldTruly
  BY DEF ImportInv, PhaseInv, CutInv, PieceInv, EndInv, SourceToldTruly, PartNeverEnds,
         SourceErrorNamed, ResponseRead
<1>. QED
  BY <1>1, ImportInvariant, PTL
=============================================================================
