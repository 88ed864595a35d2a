---------------------------- MODULE ColumnValues ----------------------------
(***************************************************************************)
(* Values between the server and Arrow.  Results: JSON columns of the      *)
(* WebSocket transport (transport/deserialize.rs, query/results.rs,        *)
(* arrow_conversion/) and binary columns of the native transport           *)
(* (native/arrow_builder.rs, native/result_parser.rs).  Parameters: Arrow  *)
(* values bound through ADBC (adbc_ffi.rs, query/prepared.rs) and written  *)
(* by the native transport (native/mod.rs).                                *)
(*                                                                         *)
(* A JSON value is J(k, n, s, t): a number is n / 10^s, a text has its     *)
(* parts in t.  A converted value is a tuple, which keeps its kind.        *)
(***************************************************************************)
EXTENDS TypeMapping, ValueText, NativeWire

J(k, n, s, t) == [k |-> k, n |-> n, s |-> s, t |-> t]

NoText   == [form |-> "none", v |-> <<>>]
JNull    == J("null", 0, 0, NoText)
JBool(b) == J("bool", b, 0, NoText)
JInt(n)  == J("int", n, 0, NoText)
JFloat(n, s) == J("float", n, s, NoText)
JText(form, v) == J("text", 0, 0, [form |-> form, v |-> v])

Null    == <<"null">>
Bad     == <<"error">>
Panic   == <<"panic">>
Num(n)  == <<"number", n>>

-----------------------------------------------------------------------------
(* Column descriptions                                                     *)

None == 0 - 1

\* messages::DataType.
Plain(name) == [name |-> name, precision |-> None, scale |-> None, size |-> None, tz |-> FALSE, fraction |-> None]

OrElse(n, default) == IF n = None THEN default ELSE n

\* native_meta_to_data_type.
NativeMetaToDataType(meta) ==
  CASE meta.type \in WireDecimals -> [Plain("DECIMAL") EXCEPT !.precision = meta.more[1], !.scale = meta.more[2]]
    [] meta.type \in {Wire.double, Wire.real} -> Plain("DOUBLE")
    [] meta.type = Wire.integer   -> [Plain("DECIMAL") EXCEPT !.precision = IntPrecision, !.scale = 0]
    [] meta.type = Wire.smallint  -> [Plain("DECIMAL") EXCEPT !.precision = NarrowPrecision, !.scale = 0]
    [] meta.type = Wire.boolean   -> Plain("BOOLEAN")
    [] meta.type = Wire.char      -> [Plain(IF meta.more[1] % 2 = 1 THEN "VARCHAR" ELSE "CHAR") EXCEPT !.size = meta.more[2]]
    [] meta.type = Wire.date      -> Plain("DATE")
    [] meta.type = Wire.timestamp -> Plain("TIMESTAMP")
    [] meta.type \in {Wire.timestamp_ltz, Wire.timestamp_utc} -> [Plain("TIMESTAMP WITH LOCAL TIME ZONE") EXCEPT !.tz = TRUE]
    [] meta.type = Wire.binary    -> Plain("BINARY")
    [] meta.type = Wire.geometry  -> Plain("GEOMETRY")
    [] meta.type = Wire.hashtype  -> [Plain("HASHTYPE") EXCEPT !.size = meta.more[2]]
    [] meta.type = Wire.interval_year -> Plain("INTERVAL YEAR TO MONTH")
    [] meta.type = Wire.interval_day  -> [Plain("INTERVAL DAY TO SECOND") EXCEPT !.fraction = meta.more[5]]
    [] OTHER                      -> [Plain("VARCHAR") EXCEPT !.size = MaxVarchar]

\* hashtype_from_reported_size: two hexadecimal characters for a byte.
HashtypeFromReportedSize(size) == T("hashtype", IF size = None THEN 16 ELSE size \div 2, 0)

\* exasol_type_of: attributes that are missing have defaults.
ExasolTypeOf(d) ==
  CASE d.name = "BOOLEAN"   -> T("boolean", 0, 0)
    [] d.name = "CHAR"      -> T("char", OrElse(d.size, 1), 0)
    [] d.name = "VARCHAR"   -> T("varchar", OrElse(d.size, MaxVarchar), 0)
    [] d.name = "DECIMAL"   -> T("decimal", OrElse(d.precision, IntPrecision), OrElse(d.scale, 0))
    [] d.name = "DOUBLE"    -> T("double", 0, 0)
    [] d.name = "DATE"      -> T("date", 0, 0)
    [] d.name = "TIMESTAMP" -> T("timestamp", IF d.tz THEN 1 ELSE 0, 0)
    [] d.name = "TIMESTAMP WITH LOCAL TIME ZONE" -> T("timestamp", 1, 0)
    [] d.name = "INTERVAL YEAR TO MONTH" -> T("year_to_month", 0, 0)
    [] d.name = "INTERVAL DAY TO SECOND" -> T("day_to_second", OrElse(d.fraction, 3), 0)
    [] d.name = "GEOMETRY"  -> T("geometry", 0, 0)
    [] d.name = "HASHTYPE"  -> HashtypeFromReportedSize(d.size)
    [] OTHER                -> Unsupported

\* parse_exasol_type, of the public converter: sizes and precisions are required.
ParseExasolType(d) ==
  IF \/ d.name \in {"CHAR", "VARCHAR"} /\ d.size = None
     \/ d.name = "DECIMAL" /\ None \in {d.precision, d.scale}
    THEN Unsupported ELSE ExasolTypeOf(d)

\* build_schema: one column.
SchemaType(d) == IF ExasolTypeOf(d) = Unsupported THEN Unsupported ELSE ExasolToArrow(ExasolTypeOf(d))

Clamp(n, low, high) == IF n < low THEN low ELSE IF n > high THEN high ELSE n

ArrowPrecision == MaxPrecision + 2

\* fill_column_builder, decimal_precision_scale: the type of the array that is built.
FilledType(meta) ==
  CASE meta.type \in {Wire.double, Wire.real} -> T("float64", 0, 0)
    [] meta.type = Wire.integer   -> T("decimal128", IntPrecision, 0)
    [] meta.type = Wire.smallint  -> T("decimal128", NarrowPrecision, 0)
    [] meta.type \in WireDecimals -> T("decimal128", Clamp(meta.more[1], 1, ArrowPrecision), meta.more[2])
    [] meta.type = Wire.boolean   -> T("boolean", 0, 0)
    [] meta.type \in {Wire.binary, Wire.geometry, Wire.hashtype} -> T("binary", 0, 0)
    [] meta.type \in {Wire.interval_year, Wire.interval_day} -> T("interval_month_day_nano", 0, 0)
    [] meta.type = Wire.date      -> T("date32", 0, 0)
    [] meta.type = Wire.timestamp -> T("timestamp", 0, 0)
    [] meta.type \in {Wire.timestamp_ltz, Wire.timestamp_utc} -> T("timestamp", 1, 0)
    [] OTHER                      -> T("utf8", 0, 0)

-----------------------------------------------------------------------------
(* JSON results                                                            *)

\* ColumnVisitor: column k, with k columns before it.
AddColumn(rows, column, k) ==
  [r \in 1 .. Larger(Len(rows), Len(column)) |->
     (IF r <= Len(rows) THEN rows[r] ELSE [i \in 1 .. k |-> JNull])
       \o <<IF r <= Len(column) THEN column[r] ELSE JNull>>]

\* to_row_major, DataVisitor.
ToRowMajor(columns) ==
  FoldLeft(LAMBDA rows, k : AddColumn(rows, columns[k], k - 1), <<>>, [k \in DOMAIN columns |-> k])

\* column_of: a short row is padded.
ColumnOf(rows, c) == [r \in DOMAIN rows |-> IF c <= Len(rows[r]) THEN rows[r][c] ELSE JNull]

\* check_row_width of the public converter looks at the first row.
RowWidthOk(rows, width) == rows = <<>> \/ Len(rows[1]) = width

\* Towards zero; to the nearest.
Trunc(n, d)   == IF n < 0 THEN 0 - ((0 - n) \div d) ELSE n \div d
Rounded(n, d) == IF n < 0 THEN 0 - ((2 * (0 - n) + d) \div (2 * d)) ELSE (2 * n + d) \div (2 * d)

\* A product of floats may come out just below or above the exact one: what
\* cutting it to an integer can give.
CutProduct(v, scale) ==
  LET num == v.n * 10 ^ scale
      den == 10 ^ v.s IN
  IF num % den # 0 \/ num = 0 \/ v.s = 0 THEN {Trunc(num, den)}
  ELSE {Trunc(num, den), Trunc(num, den) - (IF num < 0 THEN 0 - 1 ELSE 1)}

\* parse_string_to_decimal: digits beyond the scale are cut, and none may remain.
ParseStringToDecimal(text, scale) == LET n == ParseDecimal(text, scale) IN IF n = Err THEN Bad ELSE Num(n)

\* An i64 product in a release build: modulo 2^64, MaxInt being i64::MAX.
Wrapped(n) == ((n + MaxInt + 1) % (2 * (MaxInt + 1))) - (MaxInt + 1)

\* 10i64.pow(scale), or its product with n, leaves the range of an i64.
OverflowsI64(n, scale) == 10 ^ scale > MaxInt \/ n * 10 ^ scale > MaxInt \/ n * 10 ^ scale < 0 - (MaxInt + 1)

\* scale_to_decimal: the possible results.  A build with overflow checks panics where a
\* release build goes on with the wrapped product.
ScaleToDecimal(v, scale) ==
  CASE v.k = "text"             -> {IF v.t.form = "decimal" THEN ParseStringToDecimal(v.t.v, scale) ELSE Bad}
    [] v.k = "int"              -> {Num(Wrapped(v.n * 10 ^ scale))} \cup (IF OverflowsI64(v.n, scale) THEN {Panic} ELSE {})
    [] v.k = "float"            -> {Num(n) : n \in CutProduct(v, scale)}
    [] v.k \in {"null", "bool"} -> {Null}

\* A conversion whose error makes the value null.
OrNull(n) == IF n = Err THEN Null ELSE Num(n)

\* json_column_to_array: one value.  What does not fit is null, except a decimal
\* or an interval.
JsonToValue(type, v) ==
  LET is(form) == v.k = "text" /\ v.t.form = form IN
  CASE type.kind = "boolean"    -> {IF v.k = "bool" THEN <<"bool", v.n>> ELSE Null}
    [] type.kind = "float64"    -> {IF v.k \in {"int", "float"} THEN <<"float", v.n, v.s>> ELSE Null}
    [] type.kind = "utf8"       -> {IF v.k = "null" THEN Null ELSE <<"text", v>>}
    [] type.kind = "decimal128" -> ScaleToDecimal(v, type.m)
    [] type.kind = "date32"     -> {IF is("date") THEN OrNull(ParseDateToDays(v.t.v)) ELSE Null}
    [] type.kind = "timestamp"  -> {IF is("timestamp") THEN OrNull(ParseTimestampToMicros(v.t.v)) ELSE Null}
    [] type.kind = "interval_month_day_nano" ->
         {CASE v.k = "null" -> Null [] is("months") -> <<"interval", ParseMonths(v.t.v), 0, 0>>
            [] is("days") -> <<"interval", 0>> \o ParseDayToNanos(v.t.v) [] OTHER -> Bad}
    [] type.kind = "binary"     -> {IF v.k = "text" THEN <<"text", v>> ELSE Null}

\* validate_decimal_precision: significant digits, and all digits with one to spare.
PrecisionOk(text, precision) ==
  LET digits  == text.whole \o text.fraction
      leading == {i \in DOMAIN digits : \A j \in 1 .. i : digits[j] = 0}
      count   == Larger(1, Len(digits) - Cardinality(leading)) IN
  count <= precision /\ Len(digits) <= precision + 1

\* build_typed_array of the public converter: one value.  What does not fit is an
\* error, floats are rounded, and texts are decoded where the type asks for it.
BuildTyped(type, v) ==
  LET is(form) == v.k = "text" /\ v.t.form = form
      num(n)   == IF n = Err THEN Bad ELSE Num(n) IN
  CASE v.k = "null"            -> Null
    [] v.k # "null" /\ type.kind = "boolean"  -> IF v.k = "bool" THEN <<"bool", v.n>> ELSE Bad
    [] v.k # "null" /\ type.kind \in {"char", "varchar"} -> IF v.k = "text" THEN <<"text", v>> ELSE Bad
    [] v.k # "null" /\ type.kind = "decimal"  ->
         CASE v.k = "int"   -> Num(v.n * 10 ^ type.m)
           [] v.k = "float" -> Num(Rounded(v.n * 10 ^ type.m, 10 ^ v.s))
           [] is("decimal") -> IF PrecisionOk(v.t.v, type.n) THEN num(ParseDecimal(v.t.v, type.m)) ELSE Bad
           [] OTHER         -> Bad
    [] v.k # "null" /\ type.kind = "double"    -> IF v.k \in {"int", "float"} THEN <<"float", v.n, v.s>> ELSE Bad
    [] v.k # "null" /\ type.kind = "date"      -> IF is("date") THEN num(ParseDateToDays(v.t.v)) ELSE Bad
    [] v.k # "null" /\ type.kind = "timestamp" -> IF is("timestamp") THEN num(ParseTimestampToMicros(v.t.v)) ELSE Bad
    [] v.k # "null" /\ type.kind = "year_to_month" -> IF is("months") THEN <<"interval", ParseMonths(v.t.v), 0, 0>> ELSE Bad
    [] v.k # "null" /\ type.kind = "day_to_second" -> IF is("days") THEN <<"interval", 0>> \o ParseDayToNanos(v.t.v) ELSE Bad
    [] OTHER                   -> IF is("hex") THEN <<"bytes", v.t.v>> ELSE Bad

-----------------------------------------------------------------------------
(* Binary results                                                          *)

\* fill_*_column: one value, from what the server puts behind the null marker.
\* A date is its packed year, month and day, a timestamp its fields.
FillValue(meta, raw) ==
  CASE raw = Null                                     -> Null
    [] raw # Null /\ meta.type \in Timestamps         -> Num(WireMicros(raw[2]))
    [] raw # Null /\ meta.type = Wire.date            -> Num(YmdToDays(raw[2][1], raw[2][2], raw[2][3]))
    [] raw # Null /\ meta.type = Wire.interval_year   -> <<"interval", ParseMonths(raw[2]), 0, 0>>
    [] raw # Null /\ meta.type = Wire.interval_day    -> <<"interval", 0>> \o ParseDayToNanos(raw[2])
    [] OTHER                                          -> raw

-----------------------------------------------------------------------------
(* Bound parameters                                                        *)

\* arrow_value_to_parameter and parameter_to_json: the JSON value of an Arrow value;
\* a date or a timestamp outside Exasol's range is an error (BadText).
BadText == JText("error", <<>>)

ParameterJson(type, value) ==
  CASE value = Null             -> JNull
    [] value # Null /\ type.kind = "boolean"    -> JBool(value[2])
    [] value # Null /\ type.kind \in {"int16", "int32", "int64"} -> JInt(value[2])
    [] value # Null /\ type.kind \in {"float32", "float64"} -> JFloat(value[2], value[3])
    [] value # Null /\ type.kind \in {"utf8", "large_utf8"} -> JText("plain", value[2])
    [] value # Null /\ type.kind \in {"binary", "large_binary"} -> JText("hex", value[2])
    [] value # Null /\ type.kind = "date32"     ->
         IF FormatDate32(value[2]) = <<>> THEN BadText ELSE JText("date", FormatDate32(value[2]))
    [] value # Null /\ type.kind = "timestamp"  ->
         IF FormatTimestamp("microsecond", value[2]).date = <<>> THEN BadText
         ELSE JText("timestamp", FormatTimestamp("microsecond", value[2]))
    [] value # Null /\ type.kind = "decimal128" -> JText("decimal", FormatDecimalText(value[2], Larger(type.m, 0)))
    [] OTHER                    -> BadText

\* data_type_to_wire_type; json_value_to_wire_type where the server named no type.
DataTypeToWireType(name) ==
  CASE name = "DECIMAL"                -> Wire.decimal
    [] name = "DOUBLE"                 -> Wire.double
    [] name = "BOOLEAN"                -> Wire.boolean
    [] name = "DATE"                   -> Wire.date
    [] name \in {"TIMESTAMP", "TIMESTAMP WITH LOCAL TIME ZONE"} -> Wire.timestamp
    [] name = "GEOMETRY"               -> Wire.geometry
    [] name = "HASHTYPE"               -> Wire.hashtype
    [] name = "INTERVAL YEAR TO MONTH" -> Wire.interval_year
    [] name = "INTERVAL DAY TO SECOND" -> Wire.interval_day
    [] OTHER                           -> Wire.char

JsonValueToWireType(v) ==
  CASE v.k = "bool" -> Wire.boolean [] v.k = "float" -> Wire.double [] v.k = "int" -> Wire.decimal [] OTHER -> Wire.char

\* Mutant: an integer goes over the wire as it is.
ScaleDecimalValue_Unscaled(v, scale) ==
  CASE v.k = "int" -> v.n [] v.k = "float" -> Rounded(v.n * 10 ^ scale, 10 ^ v.s) [] OTHER -> 0

\* scale_decimal_value: saturated to the width of the wire; 0 for what is no number.
ScaleDecimalValue(v, scale) ==
  CASE v.k = "int"   -> Clamp(v.n * 10 ^ scale, 0 - MaxInt, MaxInt)
    [] v.k = "float" -> Clamp(Rounded(v.n * 10 ^ scale, 10 ^ v.s), 0 - MaxInt, MaxInt)
    [] OTHER         -> 0

\* parse_temporal_fields: the fields of a date or a timestamp; a time that is left
\* out is midnight.  <<>> for any other text.
ParseTemporalFields(text) ==
  CASE text.form = "date"      -> <<[date |-> text.v, time |-> <<>>, fraction |-> <<>>]>>
    [] text.form = "timestamp" -> <<text.v>>
    [] OTHER                   -> <<>>

\* write_param_value: what the server reads behind the null marker; Bad is the error
\* of a value that is no text of a date.  A DATE keeps the date fields only.
WriteParamValue(wireType, v, scale) ==
  LET temporal == wireType \in {Wire.date, Wire.timestamp}
      empty    == v.k = "text" /\ v.t = [form |-> "plain", v |-> <<>>]
      fields   == IF v.k = "text" THEN ParseTemporalFields(v.t) ELSE <<>> IN
  CASE v.k = "null" \/ (temporal /\ empty)  -> Null
    [] v.k # "null" /\ ~(temporal /\ empty) ->
         CASE temporal /\ fields = <<>> -> Bad
           [] temporal /\ fields # <<>> -> <<"fields", IF wireType = Wire.date THEN fields[1].date ELSE fields[1]>>
           [] wireType = Wire.boolean   -> <<"bool", IF v.k = "bool" THEN v.n ELSE 0>>
           [] wireType = Wire.double    -> IF v.k \in {"int", "float"} THEN <<"float", v.n, v.s>> ELSE <<"float", 0, 0>>
           [] wireType = Wire.decimal   -> Num(ScaleDecimalValue(v, scale))
           [] OTHER                     -> <<"text", v>>
=============================================================================
