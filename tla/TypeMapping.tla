----------------------------- MODULE TypeMapping ----------------------------
(***************************************************************************)
(* Exasol and Arrow types (src/src/types/mapping.rs), the schema inference *)
(* over several files (types/infer.rs, csv_infer.rs, parquet_infer.rs) and *)
(* the list of types the CSV conversion writes (import/arrow.rs).          *)
(*                                                                         *)
(* A type is [kind, n, m]: n is a size, a precision or a flag, m a scale.  *)
(***************************************************************************)
EXTENDS Integers, SequencesExt

CONSTANTS
  MaxPrecision,   \* 36: largest precision of an Exasol DECIMAL
  IntPrecision,   \* 18: precision of the narrow integers
  MaxVarchar,     \* 2000000
  MaxChar         \* 2000

ASSUME TypeMappingAssumption ==
  /\ IntPrecision \in Nat /\ MaxPrecision \in Nat /\ MaxChar \in Nat /\ MaxVarchar \in Nat
  /\ 0 < IntPrecision /\ IntPrecision < MaxPrecision /\ 0 < MaxChar /\ MaxChar < MaxVarchar

T(kind, n, m) == [kind |-> kind, n |-> n, m |-> m]

LongestVarchar == T("varchar", MaxVarchar, 0)

Unsupported == T("unsupported", 0, 0)

ExasolKinds == {"boolean", "char", "varchar", "decimal", "double", "date", "timestamp",
                "year_to_month", "day_to_second", "geometry", "hashtype"}

\* The values of ExasolType that describe a column.
IsExasolType(t) ==
  /\ t \in [kind : ExasolKinds, n : Nat, m : Nat]
  /\ t.kind \in {"boolean", "double", "date", "year_to_month"} => t.n = 0
  /\ t.kind # "decimal" => t.m = 0
  /\ t.kind = "decimal" => t.n \in 1 .. MaxPrecision /\ t.m <= t.n
  /\ t.kind = "char" => t.n \in 1 .. MaxChar
  /\ t.kind = "varchar" => t.n \in 1 .. MaxVarchar
  /\ t.kind = "timestamp" => t.n \in {0, 1}

Larger(a, b) == IF a > b THEN a ELSE b

AtMost(n, bound) == IF n > bound THEN bound ELSE n

-----------------------------------------------------------------------------
(* TypeMapper                                                              *)

NarrowInts == {"int8", "int16", "int32", "uint8", "uint16", "uint32"}
WideInts   == {"int64", "uint64"}
Texts      == {"utf8", "large_utf8", "utf8_view", "binary", "large_binary", "binary_view", "fixed_size_binary"}
Decimals   == {"decimal128", "decimal256"}

\* arrow_to_exasol; for a dictionary n says whether it maps integers to text.
ArrowToExasol(t) ==
  CASE t.kind = "boolean"                -> T("boolean", 0, 0)
    [] t.kind \in Texts                  -> LongestVarchar
    [] t.kind = "dictionary" /\ t.n = 1  -> LongestVarchar
    [] t.kind \in NarrowInts             -> T("decimal", IntPrecision, 0)
    [] t.kind \in WideInts               -> T("decimal", MaxPrecision, 0)
    [] t.kind \in {"float32", "float64"} -> T("double", 0, 0)
    [] t.kind \in Decimals /\ t.n \in 1 .. MaxPrecision /\ t.m \in 0 .. t.n -> T("decimal", t.n, t.m)
    [] t.kind \in {"date32", "date64"}   -> T("date", 0, 0)
    [] t.kind = "timestamp"              -> T("timestamp", t.n, 0)
    [] t.kind = "interval_year_month"    -> T("year_to_month", 0, 0)
    [] t.kind \in {"interval_day_time", "interval_month_day_nano"} -> T("day_to_second", 3, 0)
    [] OTHER                             -> Unsupported

\* exasol_to_arrow, for the result of a query.
ExasolToArrow(t) ==
  CASE t.kind = "boolean"                           -> T("boolean", 0, 0)
    [] t.kind \in {"char", "varchar"}               -> T("utf8", 0, 0)
    [] t.kind = "decimal"                           -> T("decimal128", t.n, t.m)
    [] t.kind = "double"                            -> T("float64", 0, 0)
    [] t.kind = "date"                              -> T("date32", 0, 0)
    [] t.kind = "timestamp"                         -> T("timestamp", t.n, 0)
    [] t.kind \in {"year_to_month", "day_to_second"} -> T("interval_month_day_nano", 0, 0)
    [] t.kind \in {"geometry", "hashtype"}          -> T("binary", 0, 0)

\* resolve_value_formatter, dictionary_formatter: the types the CSV conversion writes.
Converts(t) ==
  \/ t.kind \in {"boolean", "float32", "float64", "date32", "date64", "timestamp"}
  \/ t.kind \in NarrowInts \cup WideInts \cup Texts \cup Decimals
  \/ t.kind = "dictionary" /\ t.n = 1
  \/ t.kind \in {"interval_year_month", "interval_day_time", "interval_month_day_nano"}

\* native_auto_create_accepts: columns a native Parquet import may create a table for.
NativeAutoCreateAccepts(t) ==
  \/ t.kind \in NarrowInts \cup WideInts \cup Decimals
  \/ t.kind \in {"boolean", "float32", "float64", "utf8", "large_utf8", "binary", "large_binary", "date32", "date64", "timestamp"}

\* check_intervals_keep_month_part: without an Arrow schema in the footer the reader
\* takes any INTERVAL as day-to-second.
IntervalsKeepMonths(types, arrowSchema) ==
  arrowSchema \/ \A i \in DOMAIN types :
                   types[i].kind \notin {"interval_year_month", "interval_day_time", "interval_month_day_nano"}

\* exasol_type_to_arrow of conversion.rs, which the Arrow export offers for a schema.
ArrowExportType(t) == IF t.kind \in {"year_to_month", "day_to_second"} THEN T("int64", 0, 0) ELSE ExasolToArrow(t)

\* exasol_type_to_arrow of a Parquet export: the text stays where no conversion
\* exists, and a local timestamp has no zone.
ParquetExportType(t) ==
  CASE t.kind \in {"year_to_month", "day_to_second", "geometry", "hashtype"} -> T("utf8", 0, 0)
    [] t.kind = "timestamp"                                                  -> T("timestamp", 0, 0)
    [] OTHER                                                                 -> ArrowExportType(t)

\* build_array_from_csv_column, build_array_from_strings.
BuildsFromText(t) == t.kind \in {"boolean", "utf8", "float64", "decimal128", "date32", "timestamp", "int64"}

-----------------------------------------------------------------------------
(* Type texts: [name, params, unit, zone], with the parameters in the order  *)
(* they are written; a unit inside the parentheses makes them unreadable     *)
(* as numbers.                                                               *)

TypeText(name, params, unit, zone) == [name |-> name, params |-> params, unit |-> unit, zone |-> zone]

LeadingPrecision == 9

\* to_ddl_type; the SRID of a geometry is n, 0 for none.
ToDdlType(t) ==
  CASE t.kind = "boolean"       -> TypeText("BOOLEAN", <<>>, "", "")
    [] t.kind = "char"          -> TypeText("CHAR", <<t.n>>, "", "")
    [] t.kind = "varchar"       -> TypeText("VARCHAR", <<t.n>>, "", "")
    [] t.kind = "decimal"       -> TypeText("DECIMAL", <<t.n, t.m>>, "", "")
    [] t.kind = "double"        -> TypeText("DOUBLE", <<>>, "", "")
    [] t.kind = "date"          -> TypeText("DATE", <<>>, "", "")
    [] t.kind = "timestamp"     -> TypeText("TIMESTAMP", <<>>, "", IF t.n = 1 THEN "WITH LOCAL TIME ZONE" ELSE "")
    [] t.kind = "year_to_month" -> TypeText("INTERVAL YEAR TO MONTH", <<LeadingPrecision>>, "", "")
    [] t.kind = "day_to_second" -> TypeText("INTERVAL DAY TO SECOND", <<LeadingPrecision, t.n>>, "", "")
    [] t.kind = "geometry"      -> TypeText("GEOMETRY", IF t.n = 0 THEN <<>> ELSE <<t.n>>, "", "")
    [] t.kind = "hashtype"      -> TypeText("HASHTYPE", <<t.n>>, "BYTE", "")

DefaultHashBytes == 16

\* extract_single_param, extract_last_param: the number, or else the default.
FirstParam(text, default) == IF text.params = <<>> \/ text.unit # "" THEN default ELSE text.params[1]
LastParam(text, default)  == IF text.params = <<>> \/ text.unit # "" THEN default ELSE Last(text.params)

\* parse_temporal_type.
ParseTemporalType(text) ==
  CASE text.name = "TIMESTAMP"               -> T("timestamp", IF text.zone = "" THEN 0 ELSE 1, 0)
    [] text.name = "INTERVAL YEAR TO MONTH"  -> T("year_to_month", 0, 0)
    [] text.name = "INTERVAL DAY TO SECOND"  -> T("day_to_second", LastParam(text, 3), 0)
    [] OTHER                                 -> Unsupported

\* parse_exasol_type_string: the type text of a column in the system views.
ParseExasolTypeString(text) ==
  CASE text.name = "BOOLEAN" -> T("boolean", 0, 0)
    [] text.name = "DATE"    -> T("date", 0, 0)
    [] text.name \in {"DOUBLE", "DOUBLE PRECISION", "FLOAT", "REAL"} -> T("double", 0, 0)
    [] text.name \in {"BIGINT", "INT", "INTEGER", "SMALLINT", "TINYINT"} -> T("decimal", IntPrecision, 0)
    [] text.name \in {"CLOB", "LONG VARCHAR"} -> LongestVarchar
    [] text.name = "GEOMETRY" -> T("geometry", FirstParam(text, 0), 0)
    [] text.name = "HASHTYPE" -> T("hashtype", FirstParam(text, DefaultHashBytes), 0)
    [] text.name = "CHAR"     -> T("char", FirstParam(text, 1), 0)
    [] text.name \in {"VARCHAR", "CHAR VARYING"} -> T("varchar", FirstParam(text, MaxVarchar), 0)
    [] text.name \in {"DECIMAL", "NUMERIC"} ->
         IF text.params = <<>> THEN T("decimal", IntPrecision, 0)
         ELSE T("decimal", text.params[1], IF Len(text.params) = 2 THEN text.params[2] ELSE 0)
    [] OTHER                  -> ParseTemporalType(text)

-----------------------------------------------------------------------------
(* Schema inference                                                        *)

\* Mutant: two timestamps widen to the first.
WidenType_FirstTimestamp(a, b) ==
  CASE a = b -> a [] a.kind = "timestamp" /\ b.kind = "timestamp" -> a [] OTHER -> LongestVarchar

\* widen_type.
WidenType(a, b) ==
  LET both(k) == a.kind = k /\ b.kind = k IN
  CASE a = b -> a
    [] a # b /\ both("decimal")       -> T("decimal", AtMost(Larger(a.n, b.n), MaxPrecision), Larger(a.m, b.m))
    [] a # b /\ both("varchar")       -> T("varchar", AtMost(Larger(a.n, b.n), MaxVarchar), 0)
    [] a # b /\ both("char")          -> T("char", AtMost(Larger(a.n, b.n), MaxChar), 0)
    [] a # b /\ {a.kind, b.kind} = {"char", "varchar"}   -> T("varchar", AtMost(Larger(a.n, b.n), MaxVarchar), 0)
    [] a # b /\ {a.kind, b.kind} = {"decimal", "double"} -> T("double", 0, 0)
    [] a # b /\ both("timestamp")     -> T("timestamp", Larger(a.n, b.n), 0)
    [] a # b /\ both("day_to_second") -> T("day_to_second", Larger(a.n, b.n), 0)
    [] OTHER                          -> LongestVarchar

\* The wider type takes every value of the narrower one, a double a decimal to its own
\* precision: values as long, and of decimals as many digits before and after the point.
Holds(wide, t) ==
  \/ wide = LongestVarchar
  \/ /\ wide.kind = t.kind
     /\ wide.n >= t.n
     /\ wide.m >= t.m
     /\ t.kind = "decimal" => wide.n - wide.m >= t.n - t.m
  \/ wide.kind = "varchar" /\ t.kind = "char" /\ wide.n >= t.n
  \/ wide.kind = "double" /\ t.kind = "decimal"

Mismatch == <<Unsupported>>

\* A file is [fields, rows], a field or a column [type, nullable].
Column(field, type) == [type |-> type, nullable |-> field.nullable]

\* csv_schema_to_columns: a column without a mapping becomes text.
CsvColumns(fields) ==
  [i \in DOMAIN fields |-> LET type == ArrowToExasol(fields[i].type) IN Column(fields[i], IF type = Unsupported THEN LongestVarchar ELSE type)]

\* arrow_schema_to_columns: a column without a mapping is refused.
ParquetColumns(fields) ==
  IF \E i \in DOMAIN fields : ArrowToExasol(fields[i].type) = Unsupported THEN Mismatch
  ELSE [i \in DOMAIN fields |-> Column(fields[i], ArrowToExasol(fields[i].type))]

\* infer_schema_from_csv: a file without rows tells nothing.
InferFromCsv(file) == IF file.rows = 0 THEN Mismatch ELSE CsvColumns(file.fields)

InferFromParquet(file) == ParquetColumns(file.fields)

\* The columns of the first file, widened by those of each further one; Mismatch for an
\* error.
Merge(schemas) ==
  IF schemas = <<>> THEN Mismatch
  ELSE FoldLeft(LAMBDA merged, columns :
                  IF merged = Mismatch \/ columns = Mismatch \/ Len(columns) # Len(merged) THEN Mismatch
                  ELSE [i \in DOMAIN merged |->
                          [type     |-> WidenType(merged[i].type, columns[i].type),
                           nullable |-> merged[i].nullable \/ columns[i].nullable]],
                schemas[1], Tail(schemas))

InferFromCsvFiles(files) == Merge([i \in DOMAIN files |-> InferFromCsv(files[i])])

InferFromParquetFiles(files) == Merge([i \in DOMAIN files |-> InferFromParquet(files[i])])

-----------------------------------------------------------------------------
(* Column names, sequences of characters, and the CREATE TABLE statement   *)

NameQuote == "\""
Numerals  == {"0", "1"}
Letters   == {"A", "B"}

Upper(c) == CASE c = "a" -> "A" [] c = "b" -> "B" [] OTHER -> c

\* csv_schema_to_columns: a file without a header numbers its columns.
CsvColumnName(header, name, i) == IF header THEN name ELSE <<"c", "o", "l", "_", ToString(i)>>

\* quote_column_name, quote_identifier.
QuoteColumnName(name) ==
  <<NameQuote>> \o FlattenSeq([i \in DOMAIN name |-> IF name[i] = NameQuote THEN <<NameQuote, NameQuote>> ELSE <<name[i]>>]) \o <<NameQuote>>

\* sanitize_column_name.
SanitizeColumnName(name) ==
  LET plain == [i \in DOMAIN name |-> IF Upper(name[i]) \in Letters \cup Numerals THEN Upper(name[i]) ELSE "_"] IN
  CASE plain = <<>>                              -> <<"_">>
    [] plain # <<>> /\ plain[1] \in Numerals     -> <<"_">> \o plain
    [] plain # <<>> /\ plain[1] \notin Numerals  -> plain

FormatColumnName(name, mode) == CASE mode = "quoted" -> QuoteColumnName(name) [] mode = "sanitize" -> SanitizeColumnName(name)

\* InferredTableSchema::to_ddl: the table is named as the IMPORT names it.
ToDdl(names, columns, table, schema) ==
  <<"CREATE TABLE">> \o schema \o <<table, "(">>
    \o FlattenSeq([i \in DOMAIN columns |-> names[i] \o <<ToDdlType(columns[i].type).name>> \o (IF i < Len(columns) THEN <<",">> ELSE <<>>)])
    \o <<")">>
=============================================================================
