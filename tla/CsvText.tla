------------------------------- MODULE CsvText ------------------------------
(***************************************************************************)
(* CSV text as the driver writes it for an import (src/src/import/csv.rs,  *)
(* import/arrow.rs) and reads it from an export (src/src/export/csv.rs,    *)
(* export/arrow.rs).  A text is a sequence of characters; all that the     *)
(* code tells apart are the separator, the delimiter, the two line breaks  *)
(* and the rest.                                                           *)
(***************************************************************************)
EXTENDS Integers, SequencesExt

Sep   == ","
Delim == "q"
LF    == "lf"
CR    == "cr"

Chars == {"a", Sep, Delim, LF, CR}

RowSeparators == {<<LF>>, <<CR>>, <<CR, LF>>}

-----------------------------------------------------------------------------
(* Writing                                                                 *)

\* Mutant: a carriage return alone does not ask for quotes.
NeedsQuoting_LineFeedOnly(value) == Range(value) \cap {Sep, Delim, LF} # {}

NeedsQuoting(value) == Range(value) \cap {Sep, Delim, LF, CR} # {}

\* A delimiter inside quotes is doubled.
EscapeString(value) ==
  IF NeedsQuoting(value)
    THEN <<Delim>> \o FlattenSeq([i \in DOMAIN value |->
                                    IF value[i] = Delim THEN <<Delim, Delim>> ELSE <<value[i]>>]) \o <<Delim>>
    ELSE value

FormatRow(fields, rowSeparator) ==
  FlattenSeq([i \in DOMAIN fields |-> IF i = 1 THEN fields[i] ELSE <<Sep>> \o fields[i]]) \o rowSeparator

\* The text fields of a row, each escaped.
FormatCsvRow(row, rowSeparator) == FormatRow([i \in DOMAIN row |-> EscapeString(row[i])], rowSeparator)

NullField == <<"null">>

\* format_value: a null is written as the null text, without quotes.
FormatValue(value, nullText) == IF value = NullField THEN nullText ELSE EscapeString(value)

-----------------------------------------------------------------------------
(* Reading                                                                 *)

Push(scan, c)   == [scan EXCEPT !.field = Append(@, c)]
NextField(scan) == [scan EXCEPT !.row = Append(@, scan.field), !.field = <<>>]
EndRow(scan)    == [scan EXCEPT !.rows = Append(@, Append(scan.row, scan.field)), !.row = <<>>, !.field = <<>>, !.any = FALSE]

\* One character; peek is the one after it.
Scan(scan, c, peek) ==
  LET s == [scan EXCEPT !.any = TRUE] IN
  CASE s.skip                                    -> [s EXCEPT !.skip = FALSE]
    [] ~s.skip /\ s.quoted /\ c # Delim          -> Push(s, c)
    [] ~s.skip /\ s.quoted /\ c = Delim          -> IF peek = Delim THEN [Push(s, Delim) EXCEPT !.skip = TRUE]
                                                    ELSE [s EXCEPT !.quoted = FALSE]
    [] ~s.skip /\ ~s.quoted /\ c = Delim         -> [s EXCEPT !.quoted = TRUE]
    [] ~s.skip /\ ~s.quoted /\ c = Sep           -> NextField(s)
    [] ~s.skip /\ ~s.quoted /\ c = LF /\ s.lines -> EndRow(s)
    [] ~s.skip /\ ~s.quoted /\ c = CR /\ s.lines -> IF peek = LF THEN s ELSE EndRow(s)
    [] OTHER                                     -> Push(s, c)

\* The whole text; lines says whether a line break ends a row.
ScanText(text, lines) ==
  FoldLeft(LAMBDA scan, i : Scan(scan, text[i], IF i < Len(text) THEN text[i + 1] ELSE "end"),
           [rows |-> <<>>, row |-> <<>>, field |-> <<>>, quoted |-> FALSE, skip |-> FALSE, any |-> FALSE,
            lines |-> lines],
           [i \in DOMAIN text |-> i])

BadRow == <<<<"unclosed quote">>>>

\* csv_rows: the rows up to the end or to the error.
CsvRows(text) ==
  LET end == ScanText(text, TRUE) IN
  CASE end.quoted                -> Append(end.rows, BadRow)
    [] ~end.quoted /\ end.any    -> EndRow(end).rows
    [] ~end.quoted /\ ~end.any   -> end.rows

Unclosed == <<BadRow>>

\* parse_csv collects them: all rows, or the error.
ParseCsv(text) == IF BadRow \in Range(CsvRows(text)) THEN Unclosed ELSE CsvRows(text)

\* parse_csv_row: one line, in which a line break is a character like any other.
ParseCsvRow(line) ==
  LET end == ScanText(line, FALSE) IN
  [fields |-> Append(end.row, end.field), quoted |-> end.quoted]

-----------------------------------------------------------------------------
(* CsvToArrowReader                                                        *)

\* read_line: up to and with the next line feed.
ReadLines(text) ==
  LET cut == FoldLeft(LAMBDA acc, c :
                        IF c = LF THEN [done |-> Append(acc.done, Append(acc.line, c)), line |-> <<>>]
                        ELSE [acc EXCEPT !.line = Append(@, c)],
                      [done |-> <<>>, line |-> <<>>], text) IN
  IF cut.line = <<>> THEN cut.done ELSE Append(cut.done, cut.line)

\* trim_end_matches: every line break at the end of the line.
TrimLine(line) ==
  LET kept == {i \in DOMAIN line : line[i] \notin {LF, CR}} IN
  IF kept = {} THEN <<>> ELSE SubSeq(line, 1, CHOOSE i \in kept : \A j \in kept : j <= i)

\* next_batch reads batch_size lines and leaves the empty ones out.
NextBatch(lines, batchSize, k) ==
  LET taken == SubSeq(lines, (k - 1) * batchSize + 1, IF k * batchSize < Len(lines) THEN k * batchSize ELSE Len(lines))
      rows  == SelectSeq([i \in DOMAIN taken |-> TrimLine(taken[i])], LAMBDA line : line # <<>>)
      read  == [i \in DOMAIN rows |-> ParseCsvRow(rows[i])] IN
  IF \E i \in DOMAIN read : read[i].quoted THEN Unclosed ELSE [i \in DOMAIN read |-> read[i].fields]

\* The answers up to the first that is the given one, one behind the other.
BeforeFirst(answers, last) ==
  LET ends == {k \in DOMAIN answers : answers[k] = last}
      stop == IF ends = {} THEN Len(answers) + 1 ELSE CHOOSE k \in ends : \A j \in ends : k <= j
  IN FlattenSeq(SubSeq(answers, 1, stop - 1))

\* What a caller gets who asks for batches until there is none; a batch whose
\* lines are all empty is such an answer too.
Batches(text, batchSize) ==
  LET lines   == ReadLines(text)
      answers == [k \in 1 .. (Len(lines) \div batchSize + 1) |-> NextBatch(lines, batchSize, k)]
  IN BeforeFirst(answers, <<>>)

\* build_string_array: an empty field is null too.
ReadString(field, nullText, nullable) ==
  IF field = <<>> \/ field = nullText THEN (IF nullable THEN NullField ELSE <<>>) ELSE field

\* export_to_record_batches: a field that a row does not have reads as an empty one.
PaddedRow(row, width) == [c \in 1 .. width |-> IF c <= Len(row) THEN row[c] ELSE <<>>]

-----------------------------------------------------------------------------
(* Parquet export: rows to batches                                         *)

\* field_value: without a null text an empty field is null, with one only that text.
FieldValue(field, nullText) ==
  IF field = (IF nullText = NullField THEN <<>> ELSE nullText) THEN NullField ELSE field

\* The batches, or the number of the row that is at fault.
Reported(batches, row) == [batches |-> batches, row |-> row]

NoError == 0 - 1

\* The row of an error, counted from the first data row.
ErrorRow(first, local) == first + local

\* What the array builder of a type takes (CsvArrays has the builders): a text column
\* takes any value, another one refuses some, here those with an "a".
Fits(type, value) == type = "utf8" \/ "a" \notin Range(value)

\* Column after column is built: the first row of the first column with a value that
\* its type cannot hold.
ChunkError(chunk, types, nullText) ==
  LET bad(c) == {r \in DOMAIN chunk : LET v == FieldValue(chunk[r][c], nullText) IN v # NullField /\ ~Fits(types[c], v)}
      columns == {c \in DOMAIN types : bad(c) # {}} IN
  IF columns = {} THEN NoError
  ELSE LET c == CHOOSE x \in columns : \A y \in columns : x <= y
       IN (CHOOSE r \in bad(c) : \A y \in bad(c) : r <= y) - 1

\* rows_to_record_batches, chunk_to_record_batch: a chunk is pulled row by row, which
\* may meet a row that cannot be read or has the wrong width, and then converted.
RowsToRecordBatches(rows, types, nullText, batchSize) ==
  LET width  == Len(types)
      size   == IF batchSize < 1 THEN 1 ELSE batchSize
      chunks == (Len(rows) + size - 1) \div size
      chunk(k) == SubSeq(rows, (k - 1) * size + 1, IF k * size < Len(rows) THEN k * size ELSE Len(rows))
      first(k) == (k - 1) * size
      pulled(k) == {r \in DOMAIN chunk(k) : chunk(k)[r] = BadRow \/ Len(chunk(k)[r]) # width}
      values(k) == [r \in DOMAIN chunk(k) |-> [c \in 1 .. width |-> FieldValue(chunk(k)[r][c], nullText)]]
      done == FoldLeft(LAMBDA acc, k :
                 IF acc.row # NoError THEN acc
                 ELSE IF pulled(k) # {} THEN Reported(<<>>, ErrorRow(first(k), (CHOOSE r \in pulled(k) : \A y \in pulled(k) : r <= y) - 1))
                 ELSE LET wrong == ChunkError(chunk(k), types, nullText) IN
                      IF wrong # NoError THEN Reported(<<>>, ErrorRow(first(k), wrong))
                      ELSE Reported(Append(acc.batches, values(k)), NoError),
               Reported(<<>>, NoError), [k \in 1 .. chunks |-> k]) IN
  IF done.batches = <<>> /\ done.row = NoError THEN Reported(<<<<>>>>, NoError) ELSE done

\* csv_to_record_batches: the header row is read and left out.
CsvToRecordBatches(text, header, types, nullText, batchSize) ==
  LET read == CsvRows(text) IN
  IF header /\ read # <<>> /\ read[1] = BadRow THEN Reported(<<>>, 0)
  ELSE RowsToRecordBatches(IF header /\ read # <<>> THEN Tail(read) ELSE read, types, nullText, batchSize)
=============================================================================
