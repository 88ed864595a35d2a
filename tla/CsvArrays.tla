------------------------------ MODULE CsvArrays -----------------------------
(***************************************************************************)
(* The columns that the Arrow and the Parquet export make of CSV fields    *)
(* (src/src/export/arrow.rs, export/parquet.rs), and the fields that the   *)
(* import writes for a column (src/src/import/arrow.rs).                   *)
(*                                                                         *)
(* A field is a word.  A column of an export is built from the words that  *)
(* its parser takes, each with the value it spells; a cell is <<>> for     *)
(* null and <<value>> otherwise.  RecordBatch::try_new, which refuses a    *)
(* null in a column that is not nullable and an array whose type differs   *)
(* from its field's in the time zone, is the library's and is left out.    *)
(***************************************************************************)
EXTENDS CsvText, TLC

-----------------------------------------------------------------------------
(* What the parsers take                                                   *)

\* str::parse of an i64 and of an f64, in the standard library.
IntWords   == ("0" :> "0") @@ ("1" :> "1") @@ ("-5" :> "-5")
FloatWords == IntWords @@ ("1.5" :> "1.5") @@ ("inf" :> "inf") @@ ("Infinity" :> "inf") @@ ("-inf" :> "-inf") @@ ("-Infinity" :> "-inf")
                @@ ("nan" :> "NaN") @@ ("NaN" :> "NaN")

\* parse_date_to_days, parse_timestamp_to_micros, parse_decimal_to_i128 (scale 1).
DateWords      == ("1999-12-31" :> "1999-12-31")
TimestampWords == ("1999-12-31" :> "1999-12-31 00:00:00") @@ ("1999-12-31 00:00:00" :> "1999-12-31 00:00:00")
                    @@ ("1999-12-31 10:00:00" :> "1999-12-31 10:00:00")
DecimalWords   == ("0" :> "0.0") @@ ("1" :> "1.0") @@ ("-5" :> "-5.0") @@ ("0.0" :> "0.0") @@ ("1.5" :> "1.5")

\* The words of a boolean, in lower case where they are compared.
BooleanWords == [word \in {"true", "TRUE", "1", "t", "yes", "y"} |-> "true"] @@ [word \in {"false", "0", "f", "no", "No", "n"} |-> "false"]

-----------------------------------------------------------------------------
(* Arrow export                                                            *)

\* A column, or the row at fault; a type that is not built is no row's fault.
Array(cells, row) == [cells |-> cells, row |-> row]

BadType == 0 - 2

Unbuilt == Array(<<>>, BadType)

\* is_null_value: an empty field is null, whatever the null text.
IsNullValue(word, null) == word = "" \/ null = <<word>>

\* A builder: the first field that is null and may not be, or that its parser does
\* not take.
BuildColumn(words, nullable, null, start, parse) ==
  LET isNull(i) == IsNullValue(words[i], null)
      bad       == {i \in DOMAIN words : IF isNull(i) THEN ~nullable ELSE words[i] \notin DOMAIN parse} IN
  IF bad # {} THEN Array(<<>>, start + (CHOOSE i \in bad : \A j \in bad : i <= j) - 1)
  ELSE Array([i \in DOMAIN words |-> IF isNull(i) THEN <<>> ELSE <<parse[words[i]]>>], NoError)

BuildBooleanArray(words, nullable, null, start) == BuildColumn(words, nullable, null, start, BooleanWords)

BuildInt64Array(words, nullable, null, start) == BuildColumn(words, nullable, null, start, IntWords)

\* The spellings of the database come before the parser's own.
BuildFloat64Array(words, nullable, null, start) ==
  BuildColumn(words, nullable, null, start,
    [w \in {"Infinity", "inf"} |-> "inf"] @@ [w \in {"-Infinity", "-inf"} |-> "-inf"] @@ [w \in {"NaN", "nan"} |-> "NaN"] @@ FloatWords)

\* A null is an empty text where the column takes none.
BuildStringArray(words, nullable, null) ==
  Array([i \in DOMAIN words |-> CASE ~IsNullValue(words[i], null)             -> <<words[i]>>
                                  [] IsNullValue(words[i], null) /\ nullable  -> <<>>
                                  [] IsNullValue(words[i], null) /\ ~nullable -> <<"">>], NoError)

BuildDate32Array(words, nullable, null, start)    == BuildColumn(words, nullable, null, start, DateWords)
BuildTimestampArray(words, nullable, null, start) == BuildColumn(words, nullable, null, start, TimestampWords)
BuildDecimalArray(words, nullable, null, start)   == BuildColumn(words, nullable, null, start, DecimalWords)

\* build_array_from_strings.
BuildArrayFromStrings(words, type, nullable, null, start) ==
  CASE type = "boolean"   -> BuildBooleanArray(words, nullable, null, start)
    [] type = "int64"     -> BuildInt64Array(words, nullable, null, start)
    [] type = "float64"   -> BuildFloat64Array(words, nullable, null, start)
    [] type = "utf8"      -> BuildStringArray(words, nullable, null)
    [] type = "date32"    -> BuildDate32Array(words, nullable, null, start)
    [] type = "timestamp" -> BuildTimestampArray(words, nullable, null, start)
    [] type = "decimal"   -> BuildDecimalArray(words, nullable, null, start)
    [] OTHER              -> Unbuilt

\* write_arrow_ipc_file: all batches go to a buffer first, so an error writes nothing.
WriteArrowIpcFile(batches) ==
  IF \E i \in DOMAIN batches : batches[i].row # NoError THEN [rows |-> NoError, written |-> <<>>]
  ELSE [rows |-> FoldLeft(LAMBDA n, b : n + Len(b.cells), 0, batches), written |-> FlattenSeq([i \in DOMAIN batches |-> batches[i].cells])]

-----------------------------------------------------------------------------
(* Parquet export: the cells are null or words when a builder gets them    *)

\* The first cell that the parser does not take, in a column that takes nulls.
FromCells(cells, parse) ==
  LET bad == {i \in DOMAIN cells : cells[i] # <<>> /\ cells[i][1] \notin DOMAIN parse} IN
  IF bad # {} THEN Array(<<>>, (CHOOSE i \in bad : \A j \in bad : i <= j) - 1)
  ELSE Array([i \in DOMAIN cells |-> IF cells[i] = <<>> THEN <<>> ELSE <<parse[cells[i][1]]>>], NoError)

BuildBooleanArrayFromCsv(cells)   == FromCells(cells, BooleanWords)
BuildStringArrayFromCsv(cells)    == Array(cells, NoError)
BuildFloat64ArrayFromCsv(cells)   == FromCells(cells, FloatWords)
BuildDecimalArrayFromCsv(cells)   == FromCells(cells, DecimalWords)
BuildDate32ArrayFromCsv(cells)    == FromCells(cells, DateWords)
BuildTimestampArrayFromCsv(cells) == FromCells(cells, TimestampWords)
BuildInt64ArrayFromCsv(cells)     == FromCells(cells, IntWords)

\* build_array_from_csv_column.
BuildArrayFromCsvColumn(cells, type) ==
  CASE type = "boolean"   -> BuildBooleanArrayFromCsv(cells)
    [] type = "utf8"      -> BuildStringArrayFromCsv(cells)
    [] type = "float64"   -> BuildFloat64ArrayFromCsv(cells)
    [] type = "decimal"   -> BuildDecimalArrayFromCsv(cells)
    [] type = "date32"    -> BuildDate32ArrayFromCsv(cells)
    [] type = "timestamp" -> BuildTimestampArrayFromCsv(cells)
    [] type = "int64"     -> BuildInt64ArrayFromCsv(cells)
    [] OTHER              -> Unbuilt

\* export_to_parquet, export_to_parquet_stream of a caller's CSV text: the file is there
\* before the text is converted, and holds the rows only after all of it was.
ExportTextToParquet(converted) ==
  IF converted.row # NoError THEN [rows |-> NoError, file |-> "empty", written |-> <<>>]
  ELSE [rows |-> FoldLeft(LAMBDA n, b : n + Len(b), 0, converted.batches), file |-> "whole", written |-> FlattenSeq(converted.batches)]

-----------------------------------------------------------------------------
(* Import: the field that a value is written as                            *)

\* format_float.
FormatFloat(value) == CASE value = "inf" -> "Infinity" [] value = "-inf" -> "-Infinity" [] OTHER -> value

\* format_value of a cell and the formatters of the types.
FormatCell(cell, type, nullText) ==
  CASE cell = <<>>                        -> nullText
    [] cell # <<>> /\ type = "float64"    -> FormatFloat(cell[1])
    [] cell # <<>> /\ type # "float64"    -> cell[1]
=============================================================================
