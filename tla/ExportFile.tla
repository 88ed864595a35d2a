----------------------------- MODULE ExportFile ----------------------------
(***************************************************************************)
(* The exports a caller asks for: to a callback of its own, to a file or   *)
(* a list (src/src/export/csv.rs), to record batches in an Arrow IPC file  *)
(* (export/arrow.rs) and to a Parquet file (export/parquet.rs).  All of    *)
(* them run the export of CsvExport; but for the caller's own callback,    *)
(* write_decoded is its consumer.                                          *)
(***************************************************************************)
EXTENDS CsvExport

VARIABLES
  target,     \* what was asked for
  phase,      \* where the call is
  handle,     \* the prepared SELECT of a Parquet export
  schema,     \* the Arrow schema: "known", "rejected" or "missing"
  file,       \* the output file
  outcome     \* what the call returned

fileVars == <<target, phase, handle, schema, file, outcome>>

allVars == <<vars, fileVars>>

Return(r) == phase' = "returned" /\ outcome' = r

GoTo(p) == phase' = p /\ UNCHANGED outcome

-----------------------------------------------------------------------------
(* Before the EXPORT statement                                             *)

\* export_to_file: File::create.
CreateFile ==
  /\ phase = "create"
  /\ \/ GoTo("export") /\ file' = "partial"
     \/ Return("io_error") /\ UNCHANGED file
  /\ UNCHANGED <<vars, target, handle, schema>>

\* export_schema: the SELECT is prepared, and its columns are mapped or not.
PrepareSource ==
  /\ phase = "prepare"
  /\ \/ GoTo("close") /\ handle' = "open" /\ schema' \in {"known", "rejected"}
     \/ Return("prepare_error") /\ UNCHANGED <<handle, schema>>
  /\ UNCHANGED <<vars, target, file>>

\* Mutant: a rejected schema returns before the statement is closed.
CloseSource_RejectsFirst ==
  /\ phase = "close"
  /\ IF schema = "rejected" THEN Return("rejected") /\ UNCHANGED handle
     ELSE \/ handle' = "closed" /\ GoTo("export")
          \/ handle' = "close_failed" /\ Return("close_error")
  /\ UNCHANGED <<vars, target, schema, file>>

\* The statement is closed in either case; the rejection goes before a failed close.
CloseSource ==
  /\ phase = "close"
  /\ handle' \in {"closed", "close_failed"}
  /\ CASE schema = "rejected"                              -> Return("rejected")
       [] schema # "rejected" /\ handle' = "close_failed"  -> Return("close_error")
       [] schema # "rejected" /\ handle' = "closed"        -> GoTo("export")
  /\ UNCHANGED <<vars, target, schema, file>>

-----------------------------------------------------------------------------
(* The consumer of the body                                                *)

\* The EXPORT runs in this phase; what it leaves behind may move on after it.
Exporting == phase = "export" \/ settle = "done"

\* The caller's callback returns when it likes.
CallerReturns(when) ==
  /\ phase = "export"
  /\ target = "callback"
  /\ saw_end = when
  /\ CallbackReturns({"ok", "err"}, {"open", "dropped"})
  /\ UNCHANGED fileVars

\* Mutant: what can be decoded so far is enough.
WriterFails_Lenient ==
  /\ phase = "export"
  /\ target # "callback"
  /\ CallbackReturns({"ok", "err"}, {"dropped"})
  /\ UNCHANGED fileVars

\* write_decoded, write_blocks: a block cannot be decoded or written.
WriterFails ==
  /\ phase = "export"
  /\ target # "callback"
  /\ saw_end = "no"
  /\ CallbackReturns({"err"}, {"dropped"})
  /\ UNCHANGED fileVars

\* The data has ended: the decoder is asked for the rest, which is an error if a
\* packed stream is incomplete, and the writer is flushed; a list is then parsed.
WriterEnds ==
  /\ phase = "export"
  /\ target # "callback"
  /\ saw_end = "yes"
  /\ CallbackReturns({"ok", "err"}, {"dropped"})
  /\ file' = IF target = "file" /\ callback' = "ok" /\ Len(got) = Pieces THEN "whole" ELSE file
  /\ UNCHANGED <<target, phase, handle, schema, outcome>>

\* The export has returned: its result is the call's, or the rows are converted.
ExportEnds ==
  /\ phase = "export"
  /\ settle = "done"
  /\ IF result = "ok" /\ target \in {"parquet", "ipc"} THEN GoTo("convert") ELSE Return(result)
  /\ UNCHANGED <<vars, target, handle, schema, file>>

-----------------------------------------------------------------------------
(* After the EXPORT statement                                              *)

\* rows_to_record_batches, export_to_record_batches: all rows become batches, or
\* none does.  Only now does an Arrow export ask for its schema.
Convert ==
  /\ phase = "convert"
  /\ IF schema = "missing" THEN Return("schema_error") ELSE GoTo("write") \/ Return("conversion_error")
  /\ UNCHANGED <<vars, target, handle, schema, file>>

\* Mutant: the file of a failed write stays.
RemoveFile_Keeps == file' = "partial"

\* write_output_file removes the file; the removal may fail as well.
RemoveFile == file' \in {"removed", "not_removed"}

\* write_output_file, export_to_arrow_ipc: the file is created and written.
WriteFile ==
  /\ phase = "write"
  /\ \/ Return("io_error") /\ UNCHANGED file
     \/ Return("ok") /\ file' = "whole"
     \/ Return("write_error") /\ target = "parquet" /\ RemoveFile
     \/ Return("write_error") /\ target = "ipc" /\ file' = "partial"
  /\ UNCHANGED <<vars, target, handle, schema>>

-----------------------------------------------------------------------------
\* Arrow and Parquet exports set no timer.
Init ==
  /\ ExportInit
  /\ target \in {"callback", "file", "list", "ipc", "parquet"}
  /\ target \in {"ipc", "parquet"} => timer = "unset"
  /\ phase = CASE target = "file" -> "create" [] target = "parquet" -> "prepare" [] OTHER -> "export"
  /\ handle = "none"
  /\ schema \in (IF target = "ipc" THEN {"known", "missing"} ELSE {"missing"})
  /\ file = "untouched"
  /\ outcome = "none"

Calls == CreateFile \/ PrepareSource \/ CloseSource \/ ExportEnds \/ Convert \/ WriteFile

Next ==
  \/ Exporting /\ ExportSteps /\ UNCHANGED fileVars
  \/ CallerReturns("yes") \/ CallerReturns("no") \/ WriterFails \/ WriterEnds
  \/ Calls

Consumes == Exporting /\ (CallbackReceives \/ CallbackSeesEnd) /\ UNCHANGED fileVars

\* The runtime polls a task that can move; a callback takes what there is and
\* returns once its data has ended; the server sends its body and answers when
\* the transfer is over, and it answers a prepare and a close.  Nothing is assumed
\* of the timer, of failures or of a callback that returns early.
Fairness ==
  /\ WF_allVars(Exporting /\ Tunnel /\ UNCHANGED fileVars)
  /\ WF_allVars(Exporting /\ Relay /\ UNCHANGED fileVars)
  /\ WF_allVars(Consumes \/ CallerReturns("yes") \/ WriterEnds)
  /\ WF_allVars(Exporting /\ Settle /\ UNCHANGED fileVars)
  /\ WF_allVars(Exporting /\ StatementEnds /\ UNCHANGED fileVars)
  /\ WF_allVars(Calls)

Spec == Init /\ [][Next]_allVars

FairSpec == Spec /\ Fairness

-----------------------------------------------------------------------------
(* Properties.                                                             *)

\* An export that succeeds never hides a body that was cut short or shuffled: a
\* callback that read to the end of its data has the whole body in order, and a
\* file, a list, an Arrow or a Parquet export that returns success has read it all.
NoSilentTruncation ==
  /\ \A i \in DOMAIN got : got[i] = i
  /\ (outcome = "ok" /\ (target # "callback" \/ saw_end = "yes")) => Len(got) = Pieces

\* A call that succeeded has written its whole file.  A Parquet export that failed
\* leaves no half-written file, unless removing it failed too; and however a call
\* ends, the SELECT it prepared for the schema was closed, before EXPORT ran.
FileAsReturned ==
  /\ (outcome = "ok" /\ target \in {"file", "ipc", "parquet"}) => file = "whole"
  /\ (target = "parquet" /\ outcome \notin {"none", "ok"}) => file \in {"untouched", "removed", "not_removed"}
  /\ phase \in {"export", "returned"} => handle # "open"

\* What an export returns is true of the data and of the file, and its error names what
\* failed first.
ExportToldTruly == NoSilentTruncation /\ CallbackNotBlamed /\ FileAsReturned

\* Every export returns, with any callback, a receiver that is kept alive after
\* the callback returned included.
ExportReturns == <>(phase = "returned")
=============================================================================
