--------------------------- MODULE MCConversions ---------------------------
(***************************************************************************)
(* The conversions of the driver, checked against reference definitions:   *)
(* every state after the first holds one input, and the invariants say     *)
(* what the conversion makes of it.                                        *)
(***************************************************************************)
EXTENDS CsvArrays, ColumnValues, SqlText, TransferOptions, ClientSetup, FfiObjects, NativeKeys

VARIABLES
  family,   \* what is converted, "start" in the first state
  input     \* the input

vars == <<family, input>>

Pick(f, inputs) ==
  /\ family = "start"
  /\ family' = f
  /\ input' \in inputs

UpTo(n, S) == UNION {[1 .. k -> S] : k \in 0 .. n}

-----------------------------------------------------------------------------
(* CSV rows                                                                *)

\* Fields of up to three characters, rows of one or two of them, and single fields
\* and pairs of rows of other shapes; the null text and the size of a batch.
Csv == [rows : {<<f>> : f \in UpTo(3, Chars)} \cup {<<f, g>> : f, g \in UpTo(1, Chars)}
               \cup {<<f, g>> : f \in {<<>>, <<"a">>}, g \in UpTo(2, Chars)},
        tail : UpTo(1, {<<<<"a">>>>, <<<<"a">>, <<"a">>>>, <<<<>>, <<CR>>>>, <<<<Delim>>>>}),
        end : RowSeparators, header : BOOLEAN, null : {NullField, <<"a">>}, batch : {1, 2}]

PickCsv == Pick("csv", Csv)

\* The rows of an input: the first, twice, and the others.
RowsOf(in) == <<in.rows, in.rows>> \o in.tail

CsvBytes(rows, end) == FlattenSeq([i \in DOMAIN rows |-> FormatCsvRow(rows[i], end)])

\* The first column of the Parquet file is text, any other holds no "a".
ColumnTypes(width) == [c \in 1 .. width |-> IF c = 1 THEN "utf8" ELSE "int64"]
HoldsNoA(c, v) == c = 1 \/ "a" \notin Range(v)

\* Columns: the words a field may be, and the values of each type.
Words == {"", "NULL", "TRUE", "No", "t", "0", "1", "-5", "1.5", "Infinity", "-inf", "nan", "1999-12-31", "1999-12-31 10:00:00"}

ValuesOfType == [boolean |-> {"true", "false"}, int64 |-> {"0", "-5"}, float64 |-> {"1.5", "inf", "-inf", "NaN"}, utf8 |-> {"t", "inf"},
                 date32 |-> {"1999-12-31"}, timestamp |-> {"1999-12-31 00:00:00", "1999-12-31 10:00:00"}, decimal |-> {"0.0", "1.5"}]

PickColumn == Pick("column", [type : DOMAIN ValuesOfType \cup {"binary"}, words : UpTo(2, Words), nullable : BOOLEAN, null : {<<>>, <<"NULL">>}, start : {0, 4}])

LineBreaks == {LF, CR}

Same(rows, width) == \A i \in DOMAIN rows : Len(rows[i]) = width

\* CSV text of any rows reads back as the same rows, with each row separator, by the
\* list export; by the Arrow reader too, line by line, if no field holds a line break
\* and no row is an empty line.  The Parquet export keeps the rows in batches of the
\* right size and counts them, or names a row that is really wrong, counted without the
\* header.  Both exports read a column alike, empty fields apart that a null text rules
\* out; each names the first row at fault, in its place of the whole; neither holds a null
\* where none may be; and both read the fields that an import writes for a column.
RowsSurvive ==
  /\ family = "column" =>
       LET arrow(words)  == BuildArrayFromStrings(words, input.type, input.nullable, input.null, input.start)
           cell(w)       == IF w = (IF input.null = <<>> THEN "" ELSE input.null[1]) THEN <<>> ELSE <<w>>
           parquet(words) == BuildArrayFromCsvColumn([i \in DOMAIN words |-> cell(words[i])], input.type)
           read  == arrow(input.words)
           bad   == {i \in DOMAIN input.words : arrow(<<input.words[i]>>).row # NoError}
           plain == input.null = <<>> \/ "" \notin Range(input.words)
           file  == WriteArrowIpcFile(<<read, read>>)
       IN /\ IF input.type = "binary" THEN read.row = BadType /\ parquet(input.words).row = BadType
             ELSE IF bad = {} THEN read.row = NoError /\ Len(read.cells) = Len(input.words)
             ELSE read.row = input.start + Min(bad) - 1
          /\ ~input.nullable => <<>> \notin Range(read.cells)
          /\ (input.nullable /\ plain /\ input.type # "binary") =>
               IF bad = {} THEN parquet(input.words) = read ELSE parquet(input.words).row = read.row - input.start
          /\ file.rows = (IF read.row = NoError THEN 2 * Len(input.words) ELSE NoError)
          /\ input.type \in DOMAIN ValuesOfType =>
               \A v \in ValuesOfType[input.type] :
                 LET words == <<FormatCell(<<v>>, input.type, ""), FormatCell(<<>>, input.type, "")>> IN
                 (input.null = <<>> /\ input.nullable) => arrow(words).cells = <<<<v>>, <<>>>> /\ parquet(words).cells = <<<<v>>, <<>>>>
  /\ family = "csv" =>
    LET rows  == RowsOf(input)
        text  == CsvBytes(rows, input.end)
        width == Len(rows[1])
        data  == IF input.header THEN Tail(rows) ELSE rows
        wrong(i) == \/ Len(data[i]) # width
                    \/ \E c \in 1 .. width : LET v == FieldValue(data[i][c], input.null) IN v # NullField /\ ~HoldsNoA(c, v)
        bad   == {i \in DOMAIN data : wrong(i)}
        chunk(i) == (i - 1) \div input.batch
    IN /\ ParseCsv(text) = rows
       /\ (/\ input.end # <<CR>>
           /\ \A i \in DOMAIN rows : rows[i] # <<<<>>>> /\ \A c \in DOMAIN rows[i] : Range(rows[i][c]) \cap LineBreaks = {})
          => Batches(text, input.batch) = rows
       /\ Then(CsvToRecordBatches(text, input.header, ColumnTypes(width), input.null, input.batch), LAMBDA built :
          /\ IF bad = {}
            THEN /\ built.row = NoError
                 /\ \A b \in DOMAIN built.batches : Len(built.batches[b]) <= input.batch
                 /\ FlattenSeq(built.batches)
                      = [i \in DOMAIN data |-> [c \in 1 .. width |-> FieldValue(data[i][c], input.null)]]
            ELSE built.row + 1 \in bad /\ \A i \in bad : chunk(built.row + 1) <= chunk(i)
          /\ LET file == ExportTextToParquet(built) IN
             IF bad = {} THEN file.file = "whole" /\ file.rows = Len(data) /\ Len(file.written) = Len(data) ELSE file.rows = NoError)
       /\ \A v \in {rows[1][c] : c \in 1 .. width} \cup {NullField} :
            \A nullText \in {<<>>, <<"a", "a">>} :
              (v # nullText /\ v # <<>>) =>
                ReadString(ParseCsv(FormatRow(<<<<Delim, Delim>>, FormatValue(v, nullText)>>, input.end))[1][2], nullText, TRUE) = v

-----------------------------------------------------------------------------
(* Dates, timestamps, intervals and decimals                               *)

\* Years at the turns of the calendar and at both ends of Exasol's range.
Years == {1, 3, 4, 5, 100, 101, 399, 400, 401, 1582, 1600, 1601, 1899, 1900, 1901, 9996, 9999} \cup 1966 .. 2005 \cup 2096 .. 2104

UnitsPerSecond == [second |-> 1, millisecond |-> Step, microsecond |-> Step * Step, nanosecond |-> Step * Step * Step]

\* Instants around midnight and around the boundaries of every unit.
Instants(unit) ==
  LET day == 86400 * UnitsPerSecond[unit]
  IN {k * day + d : k \in {0 - 1, 0, 1}, d \in (0 - 12) .. 12 \cup 95 .. 105 \cup {0 - 100, 3599, 3600, 5999, 60000}}

PickDate      == Pick("date", [year : Years, month : 1 .. 12])
PickTimestamp == Pick("timestamp", UNION {{<<u, v>> : v \in Instants(u)} : u \in DOMAIN UnitsPerSecond})
PickInterval  == Pick("interval", [months : (0 - 25) .. 25, days : {0 - 2, 0 - 1, 0, 1, 9, 10},
                                   millis : {0, 1, 0 - 1, 10, 599, 0 - 600, 36000, 863999, 0 - 864001}])
PickDecimal   == Pick("decimal", [n : {0 - 1000, 0 - 101, 0 - 100, 99, 100, 101, 1000, 12345} \cup (0 - 11) .. 11, scale : (0 - 1) .. 4])

Floor(n, d) == CHOOSE q \in (Trunc(n, d) - 1) .. Trunc(n, d) : q * d <= n /\ n < (q + 1) * d

\* What the driver writes for a value it reads back as the same value: a date of the
\* proleptic calendar, an instant cut down to the microsecond (also before 1970, and
\* on both ways to the server), an interval with its sign, a decimal between -1 and 0.
ValuesSurvive ==
  /\ family = "date" =>
       \A d \in 1 .. DaysIn(input.year, input.month) :
         LET n == DayOfCE(input.year, input.month, d) - DaysFromCEToEpoch IN
         /\ ParseDateToDays(<<input.year, input.month, d>>) = n
         /\ d \in {1, 28, 29, 30, 31} => /\ FormatDate32(n) = <<input.year, input.month, d>>
                                        /\ FormatDate64(n * 24 + 23, 24) = <<input.year, input.month, d>>
  /\ family = "timestamp" =>
       LET micros == IF input[1] = "nanosecond" THEN Floor(input[2], Step) ELSE input[2] * (MicrosPerSecond \div UnitsPerSecond[input[1]])
           text   == FormatTimestamp(input[1], input[2])
       IN /\ ParseTimestampToMicros(text) = micros
          /\ WireMicros(text) = micros
          /\ ParseTimestampToMicros([text EXCEPT !.fraction = @ \o <<9>>]) = micros
  /\ family = "interval" =>
       LET nanos == Step * Step
           text  == FormatDayToSecond(input.days, input.millis, 9)
           total == input.days * MillisPerDay + input.millis
           back  == ParseDayToNanos(text)
       IN /\ ParseMonths(FormatYearToMonth(input.months)) = input.months
          /\ IF Abs(total) >= 10 * MillisPerDay THEN text.sign = "error"
             ELSE back[1] * MillisPerDay * nanos + back[2] = total * nanos
          /\ Abs(total) < 10 * MillisPerDay /\ input.millis \in {1, 0 - 1, 599} =>
               /\ FormatMonthDayNano(0, input.days, input.millis * nanos, 9) = text
               /\ FormatMonthDayNano(0, input.days, input.millis * nanos + 1, 9).sign = "error"
  /\ family = "decimal" =>
       IF input.scale < 0 THEN ParseDecimal(FormatDecimalText(input.n, input.scale), 0) = input.n * 10
       ELSE /\ ParseDecimal(FormatDecimalText(input.n, input.scale), input.scale) = input.n
            /\ ParseDecimal(FormatDecimalText(input.n, input.scale), input.scale + 1) = input.n * 10

-----------------------------------------------------------------------------
(* How a server reads a statement                                          *)

\* How a server reads a text, one character after the other: the tokens so far, and
\* what the next character continues.
Token(kind, text) == <<kind, text>>

Extend(tokens, c) == Append(Front(tokens), Token(Last(tokens)[1], Append(Last(tokens)[2], c)))

ReadOutside(tokens, c) ==
  CASE c = "?"        -> [in |-> "out", tokens |-> Append(tokens, Token("placeholder", <<>>))]
    [] c = Quote      -> [in |-> "string", tokens |-> Append(tokens, Token("string", <<>>))]
    [] c = Identifier -> [in |-> "name", tokens |-> Append(tokens, Token("name", <<>>))]
    [] c \in {"-", "/"} -> [in |-> c, tokens |-> Append(tokens, Token("text", <<c>>))]
    [] OTHER          -> [in |-> "out", tokens |-> Append(tokens, Token("text", <<c>>))]

Within(state, tokens) == [in |-> state, tokens |-> tokens]

ReadCharacter(read, c) ==
  LET tokens == read.tokens IN
  CASE read.in = "out"                     -> ReadOutside(tokens, c)
    [] read.in = "-"                       -> IF c = "-" THEN Within("line", Append(Front(tokens), Token("comment", <<>>)))
                                              ELSE ReadOutside(tokens, c)
    [] read.in = "/"                       -> IF c = "*" THEN Within("block", Append(Front(tokens), Token("comment", <<>>)))
                                              ELSE ReadOutside(tokens, c)
    [] read.in = "string"                  -> IF c = Quote THEN Within("string?", tokens) ELSE Within("string", Extend(tokens, c))
    [] read.in = "string?"                 -> IF c = Quote THEN Within("string", Extend(tokens, c)) ELSE ReadOutside(tokens, c)
    [] read.in = "name"                    -> IF c = Identifier THEN Within("name?", tokens) ELSE Within("name", Extend(tokens, c))
    [] read.in = "name?"                   -> IF c = Identifier THEN Within("name", Extend(tokens, c)) ELSE ReadOutside(tokens, c)
    [] read.in = "line"                    -> IF c = NewLine THEN Within("out", tokens) ELSE Within("line", Extend(tokens, c))
    [] read.in = "block"                   -> Within(IF c = "*" THEN "block*" ELSE "block", Extend(tokens, c))
    [] read.in = "block*"                  -> CASE c = "/" -> Within("out", tokens)
                                                [] c # "/" -> Within(IF c = "*" THEN "block*" ELSE "block", Extend(tokens, c))

Tokens(text) == FoldLeft(ReadCharacter, Within("out", <<>>), text).tokens

-----------------------------------------------------------------------------
(* Types                                                                   *)

ExasolTypes ==
  {T(k, 0, 0) : k \in {"boolean", "double", "date", "year_to_month"}}
    \cup {T("decimal", p, s) : p \in {2, 9, IntPrecision, MaxPrecision}, s \in 0 .. 2}
    \cup {T("char", n, 0) : n \in {1, 9, MaxChar}} \cup {T("varchar", n, 0) : n \in {1, MaxChar, MaxVarchar}}
    \cup {T("timestamp", z, 0) : z \in {0, 1}} \cup {T("day_to_second", f, 0) : f \in {0, 3, 9}}
    \cup {T("geometry", g, 0) : g \in {0, 7}}
    \cup {T("hashtype", b, 0) : b \in {1, DefaultHashBytes, 1024}}

ArrowTypes ==
  {T(k, 0, 0) : k \in Texts \cup NarrowInts \cup WideInts
      \cup {"boolean", "float32", "float64", "date32", "date64", "interval_year_month", "interval_day_time", "interval_month_day_nano",
            "time", "list"}}
    \cup {T(k, p, s) : k \in Decimals, p \in {1, 9, MaxPrecision, MaxPrecision + 1}, s \in (0 - 1) .. 2}
    \cup {T("timestamp", z, 0) : z \in {0, 1}} \cup {T("dictionary", t, 0) : t \in {0, 1}}

PickTypes  == Pick("types", ExasolTypes \X ExasolTypes)
PickArrow  == Pick("arrow", ArrowTypes)
PickFields == Pick("fields", [source : {"csv", "parquet"}, rows : {<<1, 1, 1>>, <<1, 0, 2>>}, types : [1 .. 3 -> {T("int32", 0, 0), T("int64", 0, 0), T("utf8", 0, 0),
                                  T("float64", 0, 0), T("decimal128", 3, 2), T("timestamp", 0, 0), T("timestamp", 1, 0), T("list", 0, 0)}]])

PickNames  == Pick("names", [names : [1 .. 2 -> UpTo(2, {"a", "b", "1", "_", NameQuote, "-", "?", Quote})], mode : {"quoted", "sanitize"}, header : BOOLEAN,
                             schema : {<<>>, <<"s">>}])

FileOf(type, rows) == [fields |-> <<[type |-> type, nullable |-> FALSE]>>, rows |-> rows]

Permutations3 == {p \in [1 .. 3 -> 1 .. 3] : {p[i] : i \in 1 .. 3} = 1 .. 3}

\* Two decimals of which one has more digits before the point and the other after it.
DecimalsApart(t, u) == t.kind = "decimal" /\ u.kind = "decimal" /\ ~Holds(t, u) /\ ~Holds(u, t)

\* What the catalogue makes of a type: a HASHTYPE comes back with the default size.
AsReadBack(t) == IF t.kind = "hashtype" THEN T("hashtype", DefaultHashBytes, 0) ELSE t

\* A column inferred from several files is the same in whatever order the files are given,
\* and holds the values of each of them unless two of the files have decimals that do not
\* hold each other; every CSV file must have rows.  A table is only
\* created for columns that the conversion can write; a type is read back from the catalogue
\* as it was created, except that a HASHTYPE loses its size; and every column of a table can
\* be exported.  The table that is created is the one the IMPORT names, each column has the
\* name it has in the file, or one of letters, digits and underscores.
SchemasFit ==
  /\ family = "types" =>
       LET t == input[1] u == input[2] wide == WidenType(t, u) IN
       /\ IsExasolType(t) /\ IsExasolType(u) /\ IsExasolType(wide)
       /\ wide = WidenType(u, t)
       /\ DecimalsApart(t, u) <=> ~(Holds(wide, t) /\ Holds(wide, u))
       /\ WidenType(wide, t) = wide
       /\ ParseExasolTypeString(ToDdlType(t)) = AsReadBack(t)
       /\ BuildsFromText(ParquetExportType(t))
  /\ family = "arrow" =>
       LET t == ArrowToExasol(input) IN
       /\ t # Unsupported => Converts(input) /\ ParseExasolTypeString(ToDdlType(t)) = t
       /\ (t = Unsupported /\ input.kind \notin Decimals) => ~Converts(input) /\ ~NativeAutoCreateAccepts(input)
       /\ t.kind \in {"boolean", "double", "date", "timestamp", "decimal"} => ArrowToExasol(ExasolToArrow(t)) = t
  /\ family = "names" =>
       LET names   == [i \in 1 .. 2 |-> FormatColumnName(CsvColumnName(input.header, input.names[i], i), input.mode)]
           columns == [i \in 1 .. 2 |-> [type |-> T("date", 0, 0), nullable |-> TRUE]]
           ddl     == Tokens(ToDdl(names, columns, "t", input.schema))
           import  == Tokens(TargetClause([Defaults EXCEPT !.schema = input.schema], "t"))
       IN /\ SubSeq(ddl, 2, Len(import)) = Tail(import)
          /\ IF input.mode = "quoted"
               THEN SelectSeq(ddl, LAMBDA t : t[1] = "name") = [i \in 1 .. 2 |-> <<"name", CsvColumnName(input.header, input.names[i], i)>>]
               ELSE /\ \A i \in DOMAIN ddl : ddl[i][1] = "text"
                    /\ \A i \in 1 .. 2 : /\ names[i] # <<>> /\ names[i][1] \notin Numerals
                                          /\ input.header => Range(names[i]) \subseteq Letters \cup Numerals \cup {"_"}
                                          /\ SanitizeColumnName(names[i]) = names[i]
  /\ family = "fields" =>
       LET files(p) == [i \in 1 .. 3 |-> FileOf(input.types[p[i]], input.rows[p[i]])]
           infer(p) == IF input.source = "csv" THEN InferFromCsvFiles(files(p)) ELSE InferFromParquetFiles(files(p))
           alone(i) == LET file == FileOf(input.types[i], 1) IN IF input.source = "csv" THEN InferFromCsv(file) ELSE InferFromParquet(file)
           same     == [i \in 1 .. 3 |-> i]
       IN /\ \A p \in Permutations3 : infer(p) = infer(same)
          /\ IF infer(same) = Mismatch THEN \E i \in 1 .. 3 : IF input.source = "csv" THEN input.rows[i] = 0 ELSE ArrowToExasol(input.types[i]) = Unsupported
             ELSE \/ \A i \in 1 .. 3 : Holds(infer(same)[1].type, alone(i)[1].type)
                  \/ \E i, j \in 1 .. 3 : DecimalsApart(alone(i)[1].type, alone(j)[1].type)

-----------------------------------------------------------------------------
(* Messages of the native protocol, as the server writes them              *)

Ints(numbers) == FlattenSeq([i \in DOMAIN numbers |-> Le(numbers[i], IntBytes)])

\* A column: its type, the flag byte and the numbers that describe it, and the width
\* of its values, 0 for a length and that many bytes.
ServerColumn(type, flag, numbers, width) == [type |-> type, flag |-> flag, numbers |-> numbers, width |-> width]

ServerColumns ==
  {ServerColumn(Wire.decimal, <<>>, <<9, 2>>, IntBytes), ServerColumn(Wire.decimal, <<>>, <<10, 2>>, LongBytes),
   ServerColumn(Wire.smalldecimal, <<>>, <<9, 0>>, IntBytes), ServerColumn(Wire.bigdecimal, <<>>, <<20, 3>>, 2 * LongBytes),
   ServerColumn(Wire.double, <<>>, <<>>, LongBytes), ServerColumn(Wire.real, <<>>, <<>>, IntBytes),
   ServerColumn(Wire.integer, <<>>, <<>>, LongBytes), ServerColumn(Wire.smallint, <<>>, <<>>, IntBytes),
   ServerColumn(Wire.boolean, <<>>, <<>>, 1), ServerColumn(Wire.date, <<>>, <<>>, IntBytes),
   ServerColumn(Wire.char, <<1>>, <<3, 12>>, 0), ServerColumn(Wire.char, <<0>>, <<1, 4>>, 0),
   ServerColumn(Wire.geometry, <<1>>, <<9, 9>>, 0), ServerColumn(Wire.hashtype, <<0>>, <<32, 32>>, 0),
   ServerColumn(Wire.interval_year, <<0>>, <<7, 7, 2>>, 0), ServerColumn(Wire.interval_day, <<0>>, <<11, 11, 2, 3>>, 0),
   ServerColumn(Wire.timestamp, <<>>, <<3>>, 7 + IntBytes), ServerColumn(Wire.timestamp_utc, <<>>, <<3>>, 7 + IntBytes),
   ServerColumn(Wire.timestamp_ltz, <<>>, <<3>>, 7 + IntBytes), ServerColumn(Wire.binary, <<>>, <<>>, 0)}

MetaOf(c) == [name |-> <<3>>, type |-> c.type, more |-> c.flag \o c.numbers]

ServerValue(c, k) ==
  CASE k = 0            -> NullValue
    [] k > 0            -> [i \in 1 .. (IF c.width = 0 THEN k - 1 ELSE c.width) |-> (k + i) % Base]

ServerValues(columns, rows, seed) ==
  [c \in DOMAIN columns |-> [r \in 1 .. rows |-> ServerValue(columns[c], (seed + c + r) % 3)]]

Sent(c, v) == IF v = NullValue THEN <<0>> ELSE <<1>> \o (IF c.width = 0 THEN LengthPrefixed(v) ELSE v)

SetBytes(handle, columns, rows, seed) ==
  <<ResultType.result_set>> \o Ints(<<handle, Len(columns)>>) \o Le(rows + 1, LongBytes) \o Le(rows, LongBytes)
    \o FlattenSeq([c \in DOMAIN columns |-> LengthPrefixed(<<3>>) \o Le(columns[c].type, IntBytes) \o columns[c].flag \o Ints(columns[c].numbers)])
    \o FlattenSeq([c \in DOMAIN columns |-> FlattenSeq([r \in 1 .. rows |-> Sent(columns[c], ServerValues(columns, rows, seed)[c][r])])])

SetPart(handle, columns, rows, seed) ==
  Part("result_set", handle, <<>>, [c \in DOMAIN columns |-> MetaOf(columns[c])], ServerValues(columns, rows, seed))

State == <<2, 2, 0, 0, 1>>
Text  == <<7, 8>>

\* Parts with what they mean: their bytes, their warnings and their terminal result.
ServerPart(bytes, warnings, terminal) == [bytes |-> bytes, warnings |-> warnings, terminal |-> terminal]

SomeColumns == <<ServerColumn(Wire.char, <<1>>, <<3, 12>>, 0)>>

ServerParts ==
  {ServerPart(<<ResultType.row_count>> \o Le(n, LongBytes), <<>>, Part("row_count", n, <<>>, <<>>, <<>>)) : n \in {0, 5}}
    \cup {ServerPart(<<ResultType.column_count>> \o Le(4, IntBytes), <<>>, NoPart),
          ServerPart(<<ResultType.warning>> \o LengthPrefixed(Text) \o State, <<<<Text, State>>>>, NoPart),
          ServerPart(<<ResultType.exception>> \o LengthPrefixed(Text) \o State, <<>>, Part("exception", 0, <<Text, State>>, <<>>, <<>>)),
          ServerPart(<<ResultType.empty>>, <<>>, EmptyPart),
          ServerPart(<<ResultType.still_executing>>, <<>>, Part("still_executing", 0, <<>>, <<>>, <<>>)),
          ServerPart(SetBytes(6, SomeColumns, 2, 1), <<>>, SetPart(6, SomeColumns, 2, 1))}

\* Parts that take all that follows.
LastParts ==
  {ServerPart(<<ResultType.more_rows, 9, 9>>, <<>>, Part("more_rows", 0, <<<<9, 9>>>>, <<>>, <<>>)),
   ServerPart(<<ResultType.handle>> \o Le(4, IntBytes) \o SetBytes(ParameterDescription, SomeColumns, 0, 0)
                \o <<ResultType.warning>> \o LengthPrefixed(Text) \o State \o SetBytes(2, SomeColumns \o SomeColumns, 0, 0),
              <<<<Text, State>>>>,
              Part("prepared", 4, <<>>, <<MetaOf(SomeColumns[1])>>, <<MetaOf(SomeColumns[1]), MetaOf(SomeColumns[1])>>))}

Attribute(id, type, value) == [id |-> id, type |-> type, value |-> value]

Attributes == {Attribute(7, "bool", <<1>>), Attribute(19, "i32", <<70000>>), Attribute(6, "i64", <<0 - 5>>),
               Attribute(6, "i64", <<2000000>>), Attribute(201, "i64", <<3>>), Attribute(53, "binary", <<0, 1>>),
               Attribute(3, "string", <<>>), Attribute(3, "string", Text)}

PickResultSet  == Pick("result_set", [columns : UpTo(2, ServerColumns), rows : 0 .. 2, seed : 0 .. 2])
PickResponse   == Pick("response", {p \o q : p \in UpTo(2, ServerParts), q \in UpTo(1, LastParts \cup ServerParts)})
PickAttributes == Pick("attributes", UpTo(3, Attributes))

Enveloped(parts) == Le(Len(parts), IntBytes) \o FlattenSeq([i \in DOMAIN parts |-> parts[i].bytes])

-----------------------------------------------------------------------------
(* Values of a result, and of a parameter                                  *)

Seconds2 == [date |-> <<1970, 1, 2>>, time |-> <<1, 2, 3>>, fraction |-> <<4, 5>>]

Instant1 == [date |-> <<1969, 12, 31>>, time |-> <<23, 59, 59>>, fraction |-> <<9, 9>>]

DayTexts == {[sign |-> sg, days |-> 2, time |-> <<3, 4, 5>>, fraction |-> <<6>>] : sg \in {"", "-"}}

\* A column type with a value as the server sends it: in JSON, and in binary.
ResultValues ==
  {<<meta, JNull, Null>> : meta \in {MetaOf(c) : c \in ServerColumns}}
    \cup {<<[name |-> <<3>>, type |-> Wire.decimal, more |-> <<4, 2>>], JText("decimal", FormatDecimalText(n, 2)), Num(n)>> :
            n \in {0 - 150, 0 - 50, 0, 7, 250}}
    \cup {<<[name |-> <<3>>, type |-> w, more |-> <<3, 0>>], JInt(n), Num(n)>> : w \in {Wire.decimal, Wire.smalldecimal}, n \in {0 - 12, 0, 999}}
    \cup {<<[name |-> <<3>>, type |-> Wire.decimal, more |-> <<12, 1>>], JInt(n), Num(n * 10)>> :
            n \in {0 - 3, 5, MaxInt \div 10, MaxInt \div 10 + 1, 0 - (MaxInt \div 10 + 1)}}
    \cup {<<[name |-> <<3>>, type |-> Wire.decimal, more |-> <<4, 2>>], JFloat(v[1], v[2]), Num(v[1] * 10 ^ (2 - v[2]))>> :
            v \in {<<115, 2>>, <<0 - 115, 2>>, <<5, 1>>}}
    \cup {<<MetaOf(ServerColumn(w, <<>>, <<>>, 0)), JInt(n), Num(n)>> : w \in {Wire.integer, Wire.smallint}, n \in {0 - 1, 8}}
    \cup {<<MetaOf(ServerColumn(Wire.boolean, <<>>, <<>>, 0)), JBool(b), <<"bool", b>>>> : b \in {0, 1}}
    \cup {<<MetaOf(ServerColumn(Wire.double, <<>>, <<>>, 0)), JFloat(15, 1), <<"float", 15, 1>>>>}
    \cup {<<MetaOf(ServerColumn(Wire.date, <<>>, <<>>, 0)), JText("date", d), <<"date", d>>>> : d \in {<<1969, 12, 31>>, <<2000, 2, 29>>, <<1, 1, 1>>}}
    \cup {<<MetaOf(ServerColumn(w, <<>>, <<3>>, 0)), JText("timestamp", t), <<"timestamp", t>>>> : w \in Timestamps, t \in {Seconds2, Instant1}}
    \cup {<<MetaOf(ServerColumn(Wire.interval_year, <<0>>, <<7, 7, 2>>, 0)), JText("months", FormatYearToMonth(n)), <<"months", FormatYearToMonth(n)>>>> :
            n \in {0 - 13, 25}}
    \cup {<<MetaOf(ServerColumn(Wire.interval_day, <<0>>, <<11, 11, 2, 3>>, 0)), JText("days", t), <<"days", t>>>> : t \in DayTexts}
    \cup {<<MetaOf(ServerColumn(Wire.char, <<1>>, <<3, 12>>, 0)), JText("plain", Text), <<"text", JText("plain", Text)>>>>}
    \cup {<<MetaOf(ServerColumn(w, <<1>>, <<9, 9>>, 0)), JText("hex", Text), <<"text", JText("hex", Text)>>>> : w \in {Wire.geometry, Wire.hashtype}}

\* A TIMESTAMP WITH LOCAL TIME ZONE in a session some hours ahead of UTC: JSON has the time
\* of the session, the native protocol the instant.
LocalValues ==
  {<<MetaOf(ServerColumn(w, <<>>, <<3>>, 0)), JText("timestamp", [t EXCEPT !.time[1] = @ + h]), <<"timestamp", t>>, h>> :
     w \in {Wire.timestamp_ltz, Wire.timestamp_utc}, t \in {Seconds2, [Instant1 EXCEPT !.time[1] = 12]}, h \in {0 - 1, 2}}

PickValue  == Pick("value", {v \o <<0>> : v \in ResultValues} \cup LocalValues)
PickRagged == Pick("ragged", UpTo(3, 0 .. 2))

Hour == 3600 * UnitsPerSecond.microsecond

\* Numbers in JSON that a DECIMAL column need not read as they are.
DecimalFraction(type, v)  == type.kind = "decimal128" /\ v.k = "float"
ScalingOverflows(type, v) == type.kind = "decimal128" /\ v.k = "int" /\ OverflowsI64(v.n, type.m)

JsonColumns(lengths) == [c \in DOMAIN lengths |-> [r \in 1 .. lengths[c] |-> JInt(10 * c + r)]]

\* The bytes of the native protocol are read as what the server wrote: every response,
\* with its warnings and at most one result, every column description and value,
\* every attribute list.  Whichever transport delivers a result, its columns have the same
\* Arrow types, and its values are the same but for two cases: a local timestamp is ahead
\* over the WebSocket by what the session is ahead of UTC, and a number in JSON that is a
\* fraction, or overflows an i64 when it is scaled, may miss the decimal,
\* a fraction by one in the last place.  The public converter gives
\* the value of the WebSocket transport, rounds a fraction, or refuses.
ResultsRead ==
  /\ family = "result_set" =>
       LET bytes == SetBytes(6, input.columns, input.rows, input.seed)
           part  == SetPart(6, input.columns, input.rows, input.seed)
       IN /\ ParseResponse(Le(1, IntBytes) \o bytes) = Response(<<>>, part)
          /\ ~LooksCounted(bytes) => ParseResponse(bytes) = Response(<<>>, part)
  /\ family = "response" =>
       LET terminals == SelectSeq([i \in DOMAIN input |-> input[i].terminal], LAMBDA t : t # NoPart)
           warnings  == FlattenSeq([i \in DOMAIN input |-> input[i].warnings])
       IN ParseResponse(Enveloped(input)) =
            IF Len(terminals) > 1 THEN BadResponse
            ELSE Response(warnings, IF terminals = <<>> THEN EmptyPart ELSE terminals[1])
  /\ family = "attributes" =>
       ParseAttributes(Serialize(input), Len(input)) = [v |-> input, at |-> Len(Serialize(input))]
  /\ family = "value" =>
       LET meta  == input[1]
           d     == NativeMetaToDataType(meta)
           type  == SchemaType(d)
           json  == JsonToValue(type, input[2])
           value == FillValue(meta, input[3])
           built == BuildTyped(ParseExasolType(d), input[2])
       IN meta.type # Wire.binary =>
            /\ FilledType(meta) = type
            /\ CASE DecimalFraction(type, input[2]) -> value \in json /\ \A got \in json : Abs(got[2] - value[2]) <= 1
                 [] ScalingOverflows(type, input[2]) -> TRUE
                 [] type = T("timestamp", 1, 0) /\ value # Null -> json = {Num(value[2] + input[4] * Hour)}
                 [] OTHER -> json = {value}
            /\ CASE meta.type \in {Wire.geometry, Wire.hashtype} -> TRUE
                 [] ScalingOverflows(type, input[2]) -> built = value
                 [] OTHER -> built \in json \cup {Bad}
  /\ family = "ragged" =>
       LET columns == JsonColumns(input)
           rows    == ToRowMajor(columns)
       IN \A c \in DOMAIN columns :
            ColumnOf(rows, c) = [r \in DOMAIN rows |-> IF r <= Len(columns[c]) THEN columns[c][r] ELSE JNull]

\* A type of the parameter, an Arrow type and a value.
Bound ==
  {<<[Plain("DECIMAL") EXCEPT !.precision = 5, !.scale = sc], T(k, 0, 0), v>> : sc \in 0 .. 2, k \in {"int16", "int64"}, v \in {Null, Num(0 - 7), Num(12)}}
    \cup {<<Plain("BOOLEAN"), T("boolean", 0, 0), v>> : v \in {Null, <<"bool", 0>>, <<"bool", 1>>}}
    \cup {<<Plain("DOUBLE"), T("float64", 0, 0), v>> : v \in {Null, <<"float", 15, 1>>}}
    \cup {<<Plain("VARCHAR"), T("utf8", 0, 0), v>> : v \in {Null, <<"text", Text>>}}
    \cup {<<Plain("DATE"), T("date32", 0, 0), v>> : v \in {Null} \cup {Num(n) : n \in {0 - 719162, 0 - 1, 0, 11016, 2932896, 2932897}}}
    \cup {<<Plain(t), T("timestamp", 0, 0), v>> : t \in {"TIMESTAMP", "TIMESTAMP WITH LOCAL TIME ZONE"},
            v \in {Null} \cup {Num(n) : n \in {0 - 8640001, 0 - 1, 0, 99, 8639999}}}

BoundDecimals ==
  {<<[Plain("DECIMAL") EXCEPT !.precision = 5, !.scale = sc], T("decimal128", 5, sc), Num(n)>> : sc \in 0 .. 2, n \in {0, 5, 0 - 120}}

PickBound == Pick("bound", Bound \cup BoundDecimals)

\* What the server reads of a bound value.
Arrived(d, type, value) == WriteParamValue(DataTypeToWireType(d.name), ParameterJson(type, value), OrElse(d.scale, 0))

\* The value a bound parameter should have at the server.
Expected(d, type, value) ==
  CASE value = Null                                   -> Null
    [] value # Null /\ d.name = "DECIMAL"             -> Num(value[2] * 10 ^ (d.scale - type.m))
    [] value # Null /\ d.name = "VARCHAR"             -> <<"text", JText("plain", value[2])>>
    [] OTHER                                          -> value

\* A value bound through ADBC reaches the server as that value: a null, a boolean, an
\* integer scaled for its DECIMAL parameter, a double, a text, a date and a timestamp on
\* either side of 1970.  For a TIMESTAMP WITH LOCAL TIME ZONE the fields of UTC are sent;
\* what instant a session outside UTC makes of them is not said.  A date the server could
\* not hold is refused before it is sent.
BoundValuesArrive ==
  (family = "bound" /\ input \notin BoundDecimals) =>
    LET d == input[1] IN
    Then(Arrived(d, input[2], input[3]), LAMBDA got :
    CASE input[3] # Null /\ d.name = "DATE" -> IF input[3][2] > 2932896 THEN got = Bad
                                              ELSE got[1] = "fields" /\ YmdToDays(got[2][1], got[2][2], got[2][3]) = input[3][2]
      [] input[3] # Null /\ input[2].kind = "timestamp" -> got[1] = "fields" /\ WireMicros(got[2]) = input[3][2]
      [] OTHER -> got = Expected(d, input[2], input[3]))

\* A decimal bound to a DECIMAL parameter reaches the server as that decimal: the
\* value is converted to the wire format of the parameter's type.
BoundDecimalsArrive ==
  (family = "bound" /\ input \in BoundDecimals) => Arrived(input[1], input[2], input[3]) = Expected(input[1], input[2], input[3])

-----------------------------------------------------------------------------
(* Statements                                                              *)

\* What a parameter should be read as.
ParameterTokens(p) ==
  CASE p.kind \in {"string", "binary"} -> <<Token("string", p.v)>>
    [] OTHER                           -> [i \in DOMAIN p.v |-> Token("text", <<p.v[i]>>)]

Pool == <<Parameter("string", <<"?">>), Parameter("int", <<"-", "5">>), Parameter("string", <<Quote, "-", "-">>),
          Parameter("null", <<"NULL">>), Unbound, Parameter("float", <<"NaN">>), Parameter("string", <<Suspicious>>),
          Parameter("binary", <<"0a">>)>>

\* Up to three parameters, the first of them k-th of the pool.
Parameters(k, n) == [i \in 1 .. n |-> Pool[((k + i) % Len(Pool)) + 1]]

PickSql == Pick("sql", [sql : UpTo(4, SqlChars) \cup [1 .. 5 -> {"?", Quote, "-", "/", "*"}], k : 0 .. Len(Pool) - 1, bound : {1, 3}])

\* A literal written without a space to what is before or after it: a quoted one next
\* to another, and a negative number behind a minus.
Touches(sql, at, params) ==
  \E k \in DOMAIN at :
    \/ /\ params[k].kind \in {"string", "binary"}
       /\ \E j \in {at[k] - 1, at[k] + 1} \cap DOMAIN sql : sql[j] \in {"?", Quote}
    \/ params[k].v # <<>> /\ params[k].v[1] = "-" /\ at[k] > 1 /\ sql[at[k] - 1] = "-"

\* The statement sent is the caller's statement with a literal of the parameter's value
\* in the place of each placeholder, and nothing else of it is read differently: a
\* question mark in a literal, a name or a comment stays, and so does one in a value.
\* It is refused exactly when a value is missing or cannot be written.
SubstitutionKeepsTokens ==
  family = "sql" =>
    LET sql    == input.sql
        params == Parameters(input.k, input.bound)
        tokens == Tokens(sql)
        count  == Len(SelectSeq(tokens, LAMBDA t : t[1] = "placeholder"))
        number(i) == Len(SelectSeq(SubSeq(tokens, 1, i), LAMBDA t : t[1] = "placeholder"))
        used   == SubSeq(params, 1, count)
        built  == BuildSql(sql, params)
    IN IF count > Len(params) \/ \E i \in DOMAIN used : used[i] \in {Pool[5], Pool[6], Pool[7]} THEN built.error # "none"
       ELSE /\ built.error = "none"
            /\ ~Touches(sql, ScanPlaceholders(sql), params) =>
                 Tokens(built.sql) = FlattenSeq([i \in DOMAIN tokens |->
                   IF tokens[i][1] = "placeholder" THEN ParameterTokens(params[number(i)]) ELSE <<tokens[i]>>])

-----------------------------------------------------------------------------
(* Transfers                                                               *)

Word(w)  == <<Token("text", <<w>>)>>
Value(v) == <<Token("string", v)>>

\* The calls a caller makes, with values that have to be quoted.
Call(field, values) == {field :> v : v \in values}

SeparatorCalls == Call("separator", {";", Quote}) \cup Call("delimiter", {Quote}) \cup Call("host", {"elsewhere"}) \cup Call("port", {1})
                    \cup Call("tls", {TRUE})
TargetCalls    == Call("schema", {"s"}) \cup Call("columns", {<<"c", "d">>})
NullCalls      == Call("null", {<<"x">>, <<Quote, "?">>})
TextCalls      == Call("rows", ImportChoices.rows) \cup Call("encoding", {<<"ASCII">>}) \cup Call("compression", ImportChoices.compression)
ImportCalls    == SeparatorCalls \cup TargetCalls \cup NullCalls
BatchCalls     == Call("batch", {1})

CallsOf(kind) ==
  CASE kind \in {"file", "files", "stream", "iter"} -> ImportCalls \cup TextCalls \cup Call("skip", {0, 1}) \cup Call("limit", {"5"})
                                                         \cup Call("trim", ImportChoices.trim)
    [] kind \in {"batch", "ipc"}                     -> ImportCalls \cup BatchCalls
    [] kind \in {"parquet", "parquet stream", "parquet files"} -> ImportCalls \cup BatchCalls \cup Call("create", {TRUE})
                                                         \cup Call("override", {<<TRUE>>, <<FALSE>>})
    [] kind = "csv export"                           -> SeparatorCalls \cup NullCalls \cup TextCalls \cup Call("header", BOOLEAN) \cup Call("timeout", {5})
    [] kind = "arrow export"                         -> SeparatorCalls \cup NullCalls \cup BatchCalls
    [] kind = "parquet export"                       -> SeparatorCalls \cup NullCalls \cup BatchCalls \cup Call("header", BOOLEAN) \cup Call("compression", {"gzip"})

FileImports      == {"file", "files"}
CsvImports       == {"file", "files", "stream", "iter"}
ParquetTransfers == {"parquet", "parquet stream", "parquet files"}
ColumnExports    == {"arrow export", "parquet export"}
Exports          == {"csv export"} \cup ColumnExports

Files == {[ext |-> ".csv", packed |-> "none"], [ext |-> ".gz", packed |-> "gzip"], [ext |-> ".bz2", packed |-> "bzip2"]}

Versions == {<<>>, <<8>>, <<7, 1>>, <<2025, 1, 10>>, <<2025, 1, 11>>, <<2025, 2>>, <<2026, 0, 0>>, <<2025, 1, 0 - 1>>}

Sources == {[kind |-> "table", schema |-> sc, name |-> "t", columns |-> cols] : sc \in {<<>>, <<"s">>}, cols \in {<<>>, <<"c", "d">>}}
             \cup {[kind |-> "query", schema |-> <<>>, name |-> "q", columns |-> <<>>]}

TransferOf(in) ==
  LET params == [host |-> "db", port |-> 8563, version |-> in.version]
  IN CASE in.kind = "file"            -> ImportCsvFromFile(CsvImportOptions(in.calls), params, in.file)
       [] in.kind = "files"           -> ImportCsvFromFiles(CsvImportOptions(in.calls), params, in.file)
       [] in.kind = "stream"          -> ImportCsvFromStream(CsvImportOptions(in.calls), params)
       [] in.kind = "iter"            -> ImportCsvFromIter(CsvImportOptions(in.calls), params)
       [] in.kind = "batch"           -> ImportFromRecordBatch(ArrowImportOptions(in.calls), params)
       [] in.kind = "ipc"             -> ImportFromArrowIpc(ArrowImportOptions(in.calls), params)
       [] in.kind = "parquet"         -> ParquetImport(ParquetImportOptions(in.calls), params)
       [] in.kind = "parquet stream"  -> ImportFromParquetStream(ParquetImportOptions(in.calls), params)
       [] in.kind = "parquet files"   -> ImportParquetFromFiles(ParquetImportOptions(in.calls), params)
       [] in.kind = "csv export"      -> ExportCsv(in.source, CsvExportOptions(in.calls), params)
       [] in.kind = "arrow export"    -> ExportToRecordBatches(in.source, ArrowExportOptions(in.calls), params)
       [] in.kind = "parquet export"  -> ExportToParquet(in.source, ParquetExportOptions(in.calls), params)

TransferInputs(kind) ==
  [kind : {kind}, calls : UpTo(2, CallsOf(kind)),
   file : IF kind \in FileImports THEN Files ELSE {<<>>},
   version : IF kind \in ParquetTransfers THEN Versions ELSE {<<>>},
   source : IF kind \in Exports THEN Sources ELSE {<<>>}]

PickTransfer == \E kind \in CsvImports \cup {"batch", "ipc"} \cup ParquetTransfers \cup Exports : Pick("transfer", TransferInputs(kind))

Address == <<"host", ":", "port">>

\* The packing a file name tells the server.
Announced(name) ==
  CASE Last(name) = ".gz" -> "gzip" [] Last(name) = ".bz2" -> "bzip2" [] Last(name) = ".parquet" -> "parquet" [] OTHER -> "none"

\* What a caller asked for: the argument of the last call, or else what the documentation
\* of the option names.
LastAsked(calls, field, otherwise) ==
  LET at == {i \in DOMAIN calls : field \in DOMAIN calls[i]} IN IF at = {} THEN otherwise ELSE calls[Max(at)][field]

\* The tokens of a clause: its words, and a value or a number.
Clause(given, words, value) == IF given THEN Word(words) \o value ELSE <<>>

\* Whichever method of a Connection starts a transfer, the tunnel goes to the server of
\* the connection, encrypted if asked; the statement is read as the caller's last calls
\* say, quotes in their values included, and as documented where there was no call, with
\* one endpoint and one name of its own for each file; and it announces the format and
\* the packing that the data really has, for a file named after its packing (of several
\* files, if the options name it too).  Arrow and Parquet data keep to one form of CSV.
StatementFitsData ==
  family = "transfer" =>
    Then(TransferOf(input), LAMBDA t :
    LET q       == t.query
        asked(f, otherwise) == LastAsked(input.calls, f, otherwise)
        given(f) == \E i \in DOMAIN input.calls : f \in DOMAIN input.calls[i]
        key     == IF asked("tls", FALSE) THEN <<<<"sha", Quote>>>> ELSE <<>>
        scheme  == IF key = <<>> THEN "http" ELSE "https"
        export  == input.kind \in Exports
        count   == IF input.kind \in {"files", "parquet files"} THEN 3 ELSE 1
        sql     == IF export THEN ExportSql(q.source, q, Address, key)
                   ELSE ImportSql(q, "t", [i \in 1 .. count |-> Entry(Address, key, i)])
    IN Then(Tokens(sql), LAMBDA tokens :
    LET named   == {i \in DOMAIN tokens : i > 1 /\ tokens[i - 1] = Word("FILE")[1]}
        names   == {tokens[i][2] : i \in named}
        at      == {i \in DOMAIN tokens : i > 1 /\ tokens[i - 1] \in {Word("AT")[1], Word("INTO CSV AT")[1]}}
        parquet == t.sent = "parquet"
        suffix  == IF parquet THEN <<";MaxConcurrentReads=1">> ELSE <<>>
        text    == input.kind \in CsvImports \cup {"csv export"}
        framing == Word("ENCODING") \o Value(IF text THEN asked("encoding", <<"UTF-8">>) ELSE <<"UTF-8">>)
                     \o Word("COLUMN SEPARATOR") \o Value(<<asked("separator", ",")>>)
                     \o Word("COLUMN DELIMITER") \o Value(<<asked("delimiter", Identifier)>>)
                     \o Word("ROW SEPARATOR") \o Value(<<IF text THEN asked("rows", "LF") ELSE "LF">>)
        null    == Clause(given("null") /\ input.kind \notin ColumnExports, "NULL", Value(asked("null", <<>>)))
        options == CASE parquet -> <<>>
                     [] export  -> framing \o null \o Clause(text /\ asked("header", FALSE), "WITH COLUMN NAMES", <<>>) \o Word("DELIMIT") \o Word("AUTO")
                     [] OTHER   -> framing \o Clause(asked("skip", 0) = 1, "SKIP", Word("1")) \o null
                                     \o Clause(asked("trim", <<>>) # <<>>, "TRIM", Value(asked("trim", <<>>)))
                                     \o Clause(given("limit"), "REJECT LIMIT", Word("5"))
        target  == IF export THEN SubSeq(tokens, 1, Min({i \in DOMAIN tokens : tokens[i] = Word("INTO CSV AT")[1]}) - 1)
                   ELSE SubSeq(tokens, 1, Min({i \in DOMAIN tokens : tokens[i] = Word("FROM")[1]}) - 1)
        wanted  == IF ~export THEN Word("IMPORT INTO") \o FlattenSeq([i \in 1 .. (IF given("schema") THEN 1 ELSE 0) |-> Word("s")]) \o Word("t")
                                     \o Clause(given("columns"), "c", Word("d"))
                   ELSE IF input.source.kind = "query" THEN Word("EXPORT") \o Word("(") \o Word("q") \o Word(")")
                   ELSE Word("EXPORT") \o Clause(input.source.schema # <<>>, "s", <<>>) \o Word("t") \o Clause(input.source.columns # <<>>, "c", Word("d"))
        pack    == asked("compression", "none")
        truthful == CASE input.kind = "file"  -> pack \in {"none", input.file.packed} \/ input.file.packed = "none"
                      [] input.kind = "files" -> input.file.packed \in {"none", pack}
                      [] OTHER                -> TRUE
    IN /\ t.host = "db" /\ t.port = 8563 /\ t.tls = asked("tls", FALSE)
       /\ Cardinality(named) = count /\ Cardinality(names) = count /\ Cardinality(at) = count
       /\ \A i \in at : tokens[i] = Value(<<scheme>> \o Address \o suffix)[1]
                       /\ key # <<>> => SubSeq(tokens, i + 1, i + 2) = Word("PUBLIC KEY") \o Value(<<"sha", Quote>>)
       /\ target = wanted
       /\ Word("PARQUET")[1] \in Range(tokens) <=> parquet
       /\ SubSeq(tokens, Max(named) + 1, Len(tokens)) = options
       /\ truthful => \A name \in names : Announced(name) = t.sent
       /\ input.kind \in ParquetTransfers =>
            parquet = IF given("override") THEN asked("override", <<>>)[1] ELSE input.version \in {<<2025, 1, 11>>, <<2025, 2>>, <<2026, 0, 0>>}))

-----------------------------------------------------------------------------
(* Connection URIs                                                         *)

\* A caller encodes what would end a part: everything in a user name, the question
\* mark in a password.
Escape(text, chars) == [i \in DOMAIN text |-> IF text[i] \in chars THEN CHOOSE e \in DOMAIN Encoded : Encoded[e] = text[i] ELSE text[i]]

Reserved == {":", "@", "/", "?"}

Secrets == {Absent, <<>>} \cup {<<c>> : c \in Reserved \cup {"x"}} \cup {<<"x", c, d>> : c, d \in Reserved}

Queries == {<<>>, <<<<"user", "q">>>>, <<<<"username", "q">>, <<"pass", "p">>>>, <<<<"password", "p">>, <<"pass", "p2">>>>,
            <<<<"tls", "off">>, <<"user", "q">>>>, <<<<"timeout", "300">>>>, <<<<"timeout", "301">>>>, <<<<"timeout", "x">>>>,
            <<<<"transport", "native">>, <<"transport", "websocket">>>>, <<<<"transport", "other">>>>, <<<<"unknown", "x">>>>}

\* Every way to give the credentials, and every way to name the server.
PickUri ==
  Pick("uri", [user : {Absent, <<"u">>, <<"u", "@">>, <<":", "/">>}, secret : Secrets, host : {<<"h">>}, port : {Absent}, schema : {<<"s">>},
               query : Queries, name : {Absent, <<"n", ":", "@">>}, given : {Absent, <<>>, <<"g", "%@">>}]
         \cup [user : {Absent, <<"u">>}, secret : {Absent, <<"x", "@", "/">>, <<":">>},
              host : {<<"h">>, <<>>, <<"[", ":", ":", "1", "]">>}, port : {Absent, <<"1">>, <<"0">>, <<"x">>}, schema : {Absent, <<>>, <<"s">>},
              query : Queries, name : {Absent}, given : {Absent}])

UriOf(in) ==
  (IF in.user = Absent THEN <<>>
   ELSE Escape(in.user, Reserved) \o (IF in.secret = Absent THEN <<>> ELSE <<":">> \o Escape(in.secret, {"?"})) \o <<"@">>)
    \o in.host \o (IF in.port = Absent THEN <<>> ELSE <<":">> \o in.port)
    \o (IF in.schema = Absent THEN <<>> ELSE <<"/">> \o in.schema)
    \o (IF in.query = <<>> THEN <<>>
        ELSE <<"?">> \o FlattenSeq([i \in DOMAIN in.query |->
                          (IF i = 1 THEN <<>> ELSE <<"&">>) \o <<in.query[i][1], "=", in.query[i][2]>>]))

\* The values of a key in the query, the last of them counts.
Queried(in, key) == LET at == {i \in DOMAIN in.query : in.query[i][1] = key} IN IF at = {} THEN Absent ELSE <<in.query[Max(at)][2]>>

\* A URI put together from its parts is taken apart into the same parts, a password
\* with an "@", ":" or "/" included; the credentials beside it win as they are, then
\* those before the host, then those of the query, each on its own; and a wrong part is
\* refused instead of being left out.
UriReadBack ==
  family = "uri" =>
    LET p      == ParseWithCredentials(UriOf(input), input.name, input.given)
        inUri  == input.user # Absent
        user   == FirstOf(<<input.name, input.user, Queried(input, "user"), Queried(input, "username")>>)
        secret == FirstOf(<<input.given, IF inUri THEN input.secret ELSE Absent, Queried(input, "password"), Queried(input, "pass")>>)
        wrong  == \/ user = Absent \/ input.host = <<>> \/ input.port \in {<<"0">>, <<"x">>}
                  \/ Queried(input, "timeout") \in {<<"301">>, <<"x">>} \/ Queried(input, "transport") = <<"other">>
                  \/ Queried(input, "unknown") # Absent
    IN IF wrong THEN p.error # "none"
       ELSE /\ p.error = "none"
            /\ p.username = user
            /\ p.password = IF secret = Absent THEN <<>> ELSE secret
            /\ p.host = IF Len(input.host) = 1 THEN input.host ELSE <<":", ":", "1">>
            /\ p.port = IF input.port = Absent THEN <<"8563">> ELSE input.port
            /\ p.schema = IF input.schema = <<>> THEN Absent ELSE input.schema
            /\ p.settings["connection_timeout"] = {IF Queried(input, "timeout") = Absent THEN <<"30">> ELSE Queried(input, "timeout")}
            /\ p.settings["use_tls"] = {IF Queried(input, "tls") = Absent THEN <<"true">> ELSE <<"off">>}
            /\ p.settings["transport"] = {Queried(input, "transport")}

-----------------------------------------------------------------------------
(* Metadata                                                                *)

\* Tables come and go while the queries of one call run; a function stays.
TableIds == {<<1, 1>>, <<1, 2>>, <<2, 1>>}

TypeTexts == <<TypeText("DECIMAL", <<9, 2>>, "", ""), TypeText("VARCHAR", <<10>>, "", "")>>

CatalogueOf(ids) ==
  [schemas |-> {1} \cup {id[1] : id \in ids},
   objects |-> {[schema |-> 1, name |-> 3, type |-> "FUNCTION"]}
                 \cup {[schema |-> id[1], name |-> id[2], type |-> IF id = <<1, 2>> THEN "VIEW" ELSE "TABLE"] : id \in ids},
   columns |-> {[schema |-> id[1], table |-> id[2], name |-> 10 - n, ordinal |-> n, type |-> ToString(n), text |-> TypeTexts[n],
                 flag |-> IF n = 1 THEN "false" ELSE "true"] : id \in ids, n \in 1 .. 2}]

ObjectFilters ==
  [catalog : {"none", "exa"}, dbSchema : {Nothing, Just({1}), Just({})}, table : {Nothing, Just({1})},
   types : {Nothing, Just({"VIEW"}), Just({"TABLE", "FUNCTION"})}, column : {Nothing, Just({9})}]

AnyObject == [catalog |-> "none", dbSchema |-> Nothing, table |-> Nothing, types |-> Nothing, column |-> Nothing]

PickObjects ==
  \/ Pick("objects", [at : {[i \in 1 .. 3 |-> ids] : ids \in SUBSET TableIds}, filter : ObjectFilters, connected : {TRUE},
                      depth : {"catalogs", "schemas", "tables", "columns", "all"}, size : {2}, kind : {"decimal128"}])
  \/ Pick("objects", [at : [1 .. 3 -> SUBSET TableIds], filter : {AnyObject, [AnyObject EXCEPT !.table = Just({1})]}, connected : {TRUE},
                      depth : {"all"}, size : {1, 3}, kind : {"decimal128", "int64"}])
  \/ Pick("objects", [at : {[i \in 1 .. 3 |-> TableIds]}, filter : {AnyObject, [AnyObject EXCEPT !.catalog = "other"]},
                      connected : BOOLEAN, depth : {"catalogs", "all"}, size : {2}, kind : {"decimal128"}])

\* The objects a filter asks for, as paths from the schema down.
SchemaPaths(now, f) == {<<s>> : s \in {x \in now.schemas : Like(f.dbSchema, x)}}
TablePaths(now, f)  ==
  {<<t.schema, t.name, t.type>> : t \in {x \in now.objects : /\ x.type \in TableOrView /\ Like(f.types, x.type)
                                                           /\ Like(f.dbSchema, x.schema) /\ Like(f.table, x.name)}}
ColumnPaths(now, f) ==
  {<<c.schema, c.table, c.name, c.ordinal>> :
     c \in {x \in now.columns : Like(f.column, x.name) /\ \E t \in TablePaths(now, f) : t[1] = x.schema /\ t[2] = x.table}}

ListOf(option) == IF option = Nothing THEN <<>> ELSE option[1]

TreeTables(tree)  == UNION {{<<s.name, t>> : t \in Range(ListOf(s.tables))} : s \in Range(ListOf(tree.schemas))}
TreeColumns(tree) == UNION {{<<p[1], p[2].name, c.name, c.ordinal>> : c \in Range(ListOf(p[2].columns))} : p \in TreeTables(tree)}

Distinct(list, Key(_)) == \A i, j \in DOMAIN list : i # j => Key(list[i]) # Key(list[j])

\* The tree of get_objects has the levels of its depth; it holds every object that
\* passes the filters and exists while all its queries run, none that never existed,
\* none twice, none under another's name, and the columns in their order.  The schema
\* of one table has the columns of that table only, in order, with their types.  So has
\* what get_columns lists, on a server whose view has the ORDINAL_POSITION it orders by;
\* on one with the columns that all other queries name it is an error.
ObjectTreeMatches ==
  family = "objects" =>
    LET f       == input.filter
        at      == [i \in 1 .. 3 |-> CatalogueOf(input.at[i])]
        got     == GetObjects(input.connected, input.depth, f, at, input.size, input.kind)
        tree    == got.rows[1]
        tables  == {<<p[1], p[2].name, p[2].type>> : p \in TreeTables(tree)}
        columns == TreeColumns(tree)
        always(Paths(_, _)) == Paths(at[1], f) \cap Paths(at[2], f) \cap Paths(at[3], f)
        ever(Paths(_, _))   == Paths(at[1], f) \cup Paths(at[2], f) \cup Paths(at[3], f)
        between(Paths(_, _), found) == always(Paths) \subseteq found /\ found \subseteq ever(Paths)
        named(paths) == {SubSeq(p, 1, 3) : p \in paths}
    IN IF f.catalog = "other" THEN got = Objects("none", <<>>)
       ELSE IF ~input.connected THEN got.error = "InvalidState"
       ELSE /\ got.error = "none" /\ Len(got.rows) = 1
            /\ (tree.schemas = Nothing) = (input.depth = "catalogs")
            /\ input.depth # "catalogs" =>
                 /\ between(SchemaPaths, {<<s.name>> : s \in Range(tree.schemas[1])})
                 /\ Distinct(tree.schemas[1], LAMBDA s : s.name)
                 /\ \A s \in Range(tree.schemas[1]) :
                      /\ (s.tables = Nothing) = (input.depth = "schemas")
                      /\ Distinct(ListOf(s.tables), LAMBDA t : t.name)
                      /\ \A t \in Range(ListOf(s.tables)) :
                           /\ (t.columns = Nothing) = (input.depth = "tables")
                           /\ Distinct(ListOf(t.columns), LAMBDA c : c.name)
                           /\ \A i, j \in DOMAIN ListOf(t.columns) : i < j => t.columns[1][i].name > t.columns[1][j].name
            /\ input.depth \in {"tables", "columns", "all"} => between(TablePaths, tables)
            /\ input.depth \in {"columns", "all"} =>
                 IF input.kind = "decimal128" THEN between(ColumnPaths, columns)
                 ELSE named(always(ColumnPaths)) \subseteq named(columns) /\ named(columns) \subseteq named(ever(ColumnPaths))
            /\ \A s, t \in 1 .. 2 :
                 LET found == GetTableSchema(TRUE, at[1], Just(s), t)
                     own   == <<s, t>> \in input.at[1]
                     fields == <<[name |-> 9, type |-> T("decimal128", 9, 2), nullable |-> FALSE], [name |-> 8, type |-> T("utf8", 0, 0), nullable |-> TRUE]>>
                 IN /\ found = IF own THEN Objects("none", fields) ELSE Objects("NotFound", <<>>)
                    /\ (own /\ <<3 - s, t>> \notin input.at[1]) => GetTableSchema(TRUE, at[1], Nothing, t) = found
                    /\ (GetTables(at[1], Nothing, Just(s), Just(t)) # <<>>) = own
                    /\ Range(GetSchemas(at[1], Nothing)) = Range(GetCatalogs(at[1]))
                    /\ LET listed(view) == GetColumns(at[1], view, Nothing, Just(s), Just(t), Nothing)
                           known        == listed(AllColumns \cup {"ORDINAL_POSITION"})
                       IN /\ listed(AllColumns).error # "none"
                          /\ known.error = "none"
                          /\ [i \in DOMAIN known.rows |-> known.rows[i].name] = IF own THEN <<9, 8>> ELSE <<>>
            /\ GetTableSchema(FALSE, at[1], Nothing, 1).error = "InvalidState"

-----------------------------------------------------------------------------
(* The way to the server                                                   *)

Certificates == [fingerprint : {<<"f">>, <<"g">>}, trusted : BOOLEAN, names : {{}, {<<"h">>}}]

\* The settings a caller may ask for, each or none of them.
Wishes == [use_tls : {Absent, <<"off">>, <<"yes">>}, validate_certificate : {Absent, <<"0">>, <<"true">>},
           certificate_fingerprint : {Absent, <<"f">>, <<"F">>}, transport : {Absent, <<"native">>, <<"websocket">>},
           connection_timeout : {Absent, <<"300">>, <<"301">>}, client_name : {Absent, <<"c">>}, schema : {Absent, <<"s">>}]

OfType(type, value) == [type |-> type, value |-> value]

DatabaseCalls == {<<"uri", OfType("string", <<"u", "@", "h">>)>>, <<"uri", OfType("string", <<"h">>)>>, <<"uri", OfType("int", <<"h">>)>>,
                  <<"username", OfType("string", <<"n", "@">>)>>, <<"password", OfType("string", <<"p", "?">>)>>,
                  <<"password", OfType("bytes", <<"p">>)>>, <<"x", OfType("string", <<"v">>)>>, <<"x", OfType("int", <<"7">>)>>,
                  <<"future", OfType("string", <<"v">>)>>}

ConnectionCalls == {<<"statement", OfType("none", <<>>)>>, <<"current_schema", OfType("string", <<"a">>)>>, <<"current_schema", OfType("string", <<"b">>)>>,
                    <<"current_schema", OfType("int", <<"7">>)>>, <<"current_catalog", OfType("string", <<"a">>)>>,
                    <<"read_only", OfType("string", <<"true">>)>>, <<"x", OfType("double", <<"1">>)>>, <<"x", OfType("string", <<"v">>)>>}

PickSetup   == Pick("setup", Wishes)
PickOptions == Pick("options", {<<"database", calls>> : calls \in UpTo(4, DatabaseCalls)} \cup {<<"connection", calls>> : calls \in UpTo(4, ConnectionCalls)})

ConnectionCall(connection, call) ==
  IF call[1] = "statement" THEN Ensured(connection) ELSE SetConnectionOption(connection, call[1], call[2]).object

\* The calls that set a key and that the objects are to accept.
Settings(calls, key, types) == {i \in DOMAIN calls : calls[i][1] = key /\ calls[i][2].type \in types}

LastOf(calls, at, default) == IF at = {} THEN default ELSE calls[Max(at)][2].value

\* The same wishes lead to the same parameters by a URI, by a builder and by the options
\* of an ADBC database, whose credentials need no encoding; the transport trusts exactly
\* the certificates that were asked for.  An ADBC object keeps the last value it accepted
\* for a key, reads it back in its own type only, and never gives out the password; the
\* schema is the last one set, or the one of the URI.
OptionsKept ==
  /\ family = "setup" =>
       LET keys  == {k \in SettingKeys \cap DOMAIN input : input[k] # Absent}
           order == SetToSeq(keys)
           query == FlattenSeq([i \in DOMAIN order |-> (IF i = 1 THEN <<"?">> ELSE <<"&">>) \o <<order[i], "=", input[order[i]][1]>>])
           rest  == <<"h">> \o (IF input.schema = Absent THEN <<>> ELSE <<"/">> \o input.schema) \o query
           built == BuilderParams([f \in DOMAIN NewBuilder |->
                       CASE f = "host" -> <<"h">> [] f = "username" -> <<"u">> [] f = "password" -> <<"@">>
                         [] f \in DOMAIN input -> input[f] [] OTHER -> Absent])
           opened == DriverOpen(<<"u", ":", "@", "@">> \o rest)
           given  == NewConnection(DatabaseWithOptions(<<<<"uri", OfType("string", rest)>>, <<"username", OfType("string", <<"u">>)>>,
                                                         <<"password", OfType("string", <<"@">>)>>>>).object)
       IN /\ opened = built /\ given.object = built
          /\ (built.error = "none") = (input.connection_timeout # <<"301">>)
          /\ ValidConnectionString(rest) = FALSE
          /\ built.error = "none" =>
               /\ ShownConnection(built) = <<<<"u">>, <<"h">>, <<"8563">>, input.schema>>
               /\ \A t \in TransportParams(built), c \in Certificates :
                    /\ t.timeout = IF input.connection_timeout = Absent THEN 30 ELSE 300
                    /\ WebsocketUrl(t)[1] = IF input.use_tls = <<"off">> THEN "ws" ELSE "wss"
                    /\ SessionOpens(t, c) =
                         CASE input.use_tls = <<"off">>                 -> TRUE
                           [] OTHER -> IF input.certificate_fingerprint # Absent THEN c.fingerprint = input.certificate_fingerprint
                                       ELSE input.validate_certificate = <<"0">> \/ (c.trusted /\ <<"h">> \in c.names)
               /\ \A i \in TransportCredentials(built) :
                    i.password = <<"@">> /\ i.client = IF input.client_name = Absent THEN <<"driver">> ELSE <<"c">>
               /\ {TransportFor(x) : x \in ValuesOf(built, "transport")} = {IF input.transport = <<"websocket">> THEN "websocket" ELSE "native"}
  /\ (family = "options" /\ input[1] = "database") =>
       LET calls  == input[2]
           wrong  == {i \in DOMAIN calls : calls[i][1] = "future" \/ (calls[i][1] # "x" /\ calls[i][2].type # "string")}
           db     == FoldLeft(LAMBDA d, call : SetDatabaseOption(d, call[1], call[2]).object, NewDatabase, calls)
           last(key) == LastOf(calls, Settings(calls, key, {"string"}), Absent)
           got    == NewConnection(db)
       IN /\ (DatabaseWithOptions(calls).status = "ok") = (wrong = {})
          /\ wrong = {} => DatabaseWithOptions(calls).object = db
          /\ \A key \in {"uri", "username"} : GetDatabaseOption(db, key, "string").object = last(key)
          /\ \A type \in {"string", "bytes", "int", "double"} :
               LET at == Settings(calls, "x", {"string", "int"}) IN
               /\ GetDatabaseOption(db, "password", type).object = Absent
               /\ GetDatabaseOption(db, "x", type) = IF at # {} /\ calls[Max(at)][2].type = type
                                                      THEN Status(calls[Max(at)][2].value, "ok") ELSE Status(Absent, "NotFound")
          /\ got.status = CASE last("uri") = Absent -> "InvalidState"
                            [] last("uri") = <<"h">> /\ last("username") = Absent -> "InvalidArguments"
                            [] OTHER -> "ok"
          /\ got.status = "ok" =>
               /\ got.object.username = IF last("username") = Absent THEN <<"u">> ELSE last("username")
               /\ got.object.password = IF last("password") = Absent THEN <<>> ELSE last("password")
  /\ (family = "options" /\ input[1] = "connection") =>
       LET calls == input[2] IN
       \A schema \in {Absent, <<"s">>} :
         LET params == [ParseWithCredentials(<<"u", "@", "h">>, Absent, Absent) EXCEPT !.schema = schema]
             now    == FoldLeft(ConnectionCall, OpenedConnection(params), calls)
             wanted == LastOf(calls, Settings(calls, "current_schema", {"string"}), schema)
             at     == Settings(calls, "x", {"string", "double"})
             options == FoldLeft(LAMBDA o, call : SetStatementOption(o, call[1], call[2]), <<>>, calls)
         IN /\ GetConnectionOption(now, "current_schema", "string") = Status(wanted, IF wanted = Absent THEN "NotFound" ELSE "ok")
            /\ GetConnectionOption(now, "current_catalog", "string").object = <<"EXA">>
            /\ \A type \in {"string", "bytes", "int", "double"} :
                 LET want == IF at # {} /\ calls[Max(at)][2].type = type THEN Status(calls[Max(at)][2].value, "ok") ELSE Status(Absent, "NotFound") IN
                 /\ GetConnectionOption(now, "x", type) = want
                 /\ GetStatementOption(options, "x", type) = want
                 /\ GetConnectionOption(now, "read_only", type).status = "NotFound"

\* A session is set up as it was asked for, whichever way the wishes came.
SetupAsAsked == UriReadBack /\ OptionsKept

-----------------------------------------------------------------------------
(* Messages of the WebSocket transport                                     *)

\* A conversation of up to four exchanges with a server that keeps two result sets of
\* three rows, and the keys, passwords and replies of the other commands.
Steps == [ask : {"execute", "fetch"}, handle : 1 .. 2, how : {"ok", "error"}]
           \cup [ask : {"close"}, handle : {1}, how : {"ok", "error"}]
           \cup [ask : {"currentSchema"}, handle : 1 .. 2, how : {"ok", "silent"}] \cup [ask : {"refresh"}, handle : {1}, how : {"ok"}]

Keys == {[i \in 1 .. k |-> IF i = 1 THEN first ELSE 9] : k \in {11, 12, 13, 130, 133, 134}, first \in {1, 127, 128, 255}}

PickConversation == Pick("conversation", UpTo(4, Steps))
PickKey ==
  \/ Pick("key", [n : Keys, e : {<<3>>, <<1, 0, 1>>, <<200>>}, change : {"none", "cut", "longer", "no marker"}, room : (0 - 1) .. 2,
                  first : {"ok"}, second : {"ok"}])
  \/ Pick("key", [n : {[i \in 1 .. 13 |-> 9]}, e : {<<3>>}, change : {"none"}, room : {0},
                  first : {"ok", "error", "empty"}, second : {"ok", "error", "empty"}])

SetEntry(columns) == [type |-> "resultSet", count |-> <<>>, set |-> <<[handle |-> <<>>, columns |-> columns, data |-> <<>>, total |-> <<>>]>>]
OtherEntries == {[type |-> "rowCount", count |-> <<4>>, set |-> <<>>], [type |-> "other", count |-> <<>>, set |-> <<>>],
                 [type |-> "resultSet", count |-> <<>>, set |-> <<>>]}

SomeTypes == <<Plain("DOUBLE"), [Plain("HASHTYPE") EXCEPT !.size = 32]>>

PickReply ==
  Pick("reply", [results : UpTo(2, OtherEntries \cup {SetEntry(<<>>), SetEntry(<<<<"c">>>>)}), status : {"ok", "error"}, data : BOOLEAN,
                 text : {<<>>, <<"no">>}, types : UpTo(2, Range(SomeTypes)), names : {<<>>, <<"a">>, <<"">>, <<"", "b">>}, rows : 1 .. 2])

Reply(status, data, exception, attributes) == [status |-> status, data |-> data, exception |-> exception, attributes |-> attributes]

TotalRows == 3

\* Two columns of numbers, column by column.
RowsFrom(start, count) == [c \in 1 .. 2 |-> [r \in 1 .. count |-> JInt(100 * c + start + r)]]

\* The server answers the request it gets: its schema, and what it told of it.
ServerReply(server, request, step) ==
  LET told  == IF step.ask = "currentSchema" /\ step.how = "silent" THEN <<>> ELSE <<<<server.schema>>>>
      fetch == IF TotalRows - request.start > 2 THEN 2 ELSE TotalRows - request.start IN
  CASE step.how = "error"      -> Reply("error", <<>>, <<"no">>, told)
    [] step.how # "error" /\ step.ask = "execute" ->
         Reply("ok", <<[results |-> <<[type |-> "resultSet", count |-> <<>>,
                                       set |-> <<[handle |-> <<step.handle>>, columns |-> <<<<"c", "d">>>>, data |-> <<RowsFrom(0, 1)>>, total |-> <<TotalRows>>]>>]>>]>>,
               <<>>, told)
    [] step.how # "error" /\ step.ask = "fetch"   -> Reply("ok", <<[data |-> RowsFrom(request.start, fetch), total |-> fetch]>>, <<>>, told)
    [] OTHER                   -> Reply("ok", <<>>, <<>>, told)

Converse(talk, step) ==
  LET ask     == [kind |-> step.ask, sql |-> <<>>, handle |-> step.handle, value |-> step.handle]
      named   == CASE step.ask # "currentSchema" -> talk.server.schema [] OTHER -> IF step.handle = 1 THEN "S" ELSE ""
      server  == [schema |-> named]
      reply   == ServerReply(server, Asked(talk.client, ask), step)
      answer  == Answer(ask, reply)
      got     == CASE answer.kind = "result_set" -> Put(talk.got, step.handle, answer.rows)
                   [] answer.kind = "fetched"    -> Put(talk.got, step.handle, (IF step.handle \in DOMAIN talk.got THEN talk.got[step.handle] ELSE <<>>) \o answer.rows)
                   [] step.ask = "close"         -> Without(talk.got, step.handle)
                   [] OTHER                      -> talk.got
  IN [client |-> Exchange(talk.client, ask, reply), server |-> server, got |-> got,
      told |-> IF reply.attributes = <<>> THEN talk.told ELSE IF named = "" THEN <<>> ELSE <<named>>]

\* An RSA public key as the server writes it.
DerLength(n) == IF n < 128 THEN <<n>> ELSE IF n < 256 THEN <<129, n>> ELSE <<130, n \div 256, n % 256>>
DerInteger(bytes) == LET v == (IF bytes[1] > 127 THEN <<0>> ELSE <<>>) \o bytes IN <<2>> \o DerLength(Len(v)) \o v
DerKey(n, e) == LET body == DerInteger(n) \o DerInteger(e) IN <<48>> \o DerLength(Len(body)) \o body

\* Keys of either format, and passwords and phrases shorter and longer than a block.
NativeParts == UpTo(2, {0, 3}) \cup {<<48, 1>>, <<3, 0, 5>>}

PickNativeKey ==
  \/ Pick("native key", [format : {"der"}, n : NativeParts \ {<<>>}, e : NativeParts \ {<<>>}, password : {<<65>>}, phrase : {<<8, 9>>}])
  \/ Pick("native key", [format : {"raw"}, n : NativeParts, e : NativeParts, password : {<<65>>}, phrase : {<<8, 9>>}])
  \/ Pick("native key", [format : {"raw"}, n : {<<3, 5>>}, e : {<<3>>}, password : {[i \in 1 .. k |-> 64 + i] : k \in 0 .. 9},
                         phrase : {[i \in 1 .. k |-> 32 + i] : k \in 0 .. 9}])

\* Zeros in front, to a given length.
PadTo(bytes, n) == [i \in 1 .. n - Len(bytes) |-> 0] \o bytes

\* A native login: a key in either format gives its numbers, and one in two halves is refused
\* if a number is zero.  With a usable key the server, which decrypts block by block and
\* reads every other byte up to the zero, finds the whole password, and its own phrase in
\* between, to the end.  Nothing is said of a key in DER with a number that is zero, which
\* the driver takes: parse_rsa_public_key_pkcs1_der does not look for it.
PasswordReachesServer ==
  family = "native key" =>
    LET width == Larger(Len(input.n), Len(input.e))
        raw   == PadTo(input.e, width) \o PadTo(input.n, width)
        der   == DerKey(input.n, input.e)
        key   == NativeRsaKey(IF input.format = "raw" THEN raw ELSE der)
        clear(x) == x # <<>> /\ x[1] # 0
    IN /\ (input.format = "raw" /\ raw # <<>> /\ raw[1] # 48) =>
            IF Zero(input.n) \/ Zero(input.e) \/ width < 2 THEN key = BadKey ELSE key = <<Unpadded(input.n), Unpadded(input.e)>>
       /\ (input.format = "der" /\ clear(input.n) /\ clear(input.e)) => key = <<input.n, input.e>>
       /\ Usable(key) =>
            LET sent == ExasolEncodePwd(input.password, input.phrase, key) IN
            IF input.phrase = <<>> THEN sent = <<>> ELSE PasswordRead(sent, input.password, input.phrase, key)

\* The server's side of PKCS#1: what stands behind the first zero after the two marks.
Unpad(block) == LET zero == Min({i \in 3 .. Len(block) : block[i] = 0}) IN SubSeq(block, zero + 1, Len(block))

\* The driver reads what a server says over a WebSocket: the rows of each open result
\* set arrive once each and in order, over failed fetches, other sets and a handle used
\* again; the schema is the last one told; the password reaches the server, or the key
\* is refused; an incomplete or a rejected reply is an error with the server's text; and
\* each bound row is sent as it is, typed by the server's types or by its values.
WsAnswersRead ==
  /\ family = "conversation" =>
       LET talk == FoldLeft(Converse, [client |-> [positions |-> <<>>, schema |-> <<>>, message_size |-> DefaultMessageSize],
                                       server |-> [schema |-> ""], got |-> <<>>, told |-> <<>>], input)
       IN /\ \A h \in DOMAIN talk.got : \A r \in DOMAIN talk.got[h] : talk.got[h][r] = <<JInt(100 + r), JInt(200 + r)>>
          /\ talk.client.schema = talk.told
  /\ family = "key" =>
       LET der      == DerKey(input.n, input.e)
           bytes    == CASE input.change = "cut" -> Front(der) [] input.change = "longer" -> Append(der, 2) [] OTHER -> der
           password == [i \in 1 .. Len(input.n) - 11 + input.room |-> IF i = 2 THEN 0 ELSE 65]
           lines    == <<SubSeq(bytes, 1, 5), SubSeq(bytes, 6, Len(bytes))>>
           pem      == [begin |-> TRUE, lines |-> lines, end |-> input.change # "no marker"]
           answer(how, x) == Reply(IF how = "error" THEN "error" ELSE "ok", IF how = "ok" THEN <<x>> ELSE <<>>, <<"no">>, <<>>)
           login    == LoginExchange([username |-> "u", password |-> password, client |-> "c", version |-> "1"],
                                     answer(input.first, pem), answer(input.second, [id |-> 7, release |-> "8", message_size |-> <<>>]))
           accepted == /\ input.change \notin {"cut", "no marker"} /\ input.room <= 0
                       /\ Len(input.n) \in 13 .. 133 \/ (Len(input.n) = 12 /\ input.n[1] > 127)
       IN IF accepted /\ input.first = "ok"
            THEN /\ Len(login.sent[2].password) = Len(input.n) /\ Unpad(login.sent[2].password) = password
                 /\ login.sent[2].username = "u"
                 /\ (login.result.kind = "session") = (input.second = "ok")
            ELSE login.result.kind = "error" /\ Len(login.sent) = 1
  /\ family = "reply" =>
       LET data     == [results |-> input.results]
           reply(x) == Reply(input.status, IF input.data THEN <<x>> ELSE <<>>, input.text, <<>>)
           query    == QueryResultFrom(reply(data))
           first    == input.results[1]
           whole    == /\ input.status = "ok" /\ input.data /\ input.results # <<>>
                       /\ first.type = "rowCount" \/ (first.type = "resultSet" /\ first.set # <<>> /\ first.set[1].columns # <<>>)
           named    == [i \in DOMAIN input.types |-> [type |-> input.types[i], name |-> IF i \in DOMAIN input.names THEN input.names[i] ELSE ""]]
           prepared == PreparedFrom(reply([handle |-> 5, parameters |-> <<[num |-> Len(named), columns |-> named]>>, results |-> <<input.results>>]))
           column   == <<JInt(1), JInt(2)>>
           bound    == [c \in 1 .. 2 |-> SubSeq(<<column, <<JNull, JBool(1)>>>>[c], 1, input.rows)]
           sent(p)  == ExecutePrepared(p, bound)
           fields   == GetParameterSchema(TRUE, prepared.types, prepared.names)
       IN /\ (query.kind # "error") = whole
          /\ input.status = "error" => query.why = OptionOr(input.text, "Unknown error")
          /\ whole /\ first.type = "rowCount" => query.count = 4
          /\ (prepared.kind = "prepared") = (input.status = "ok" /\ input.data)
          /\ prepared.kind = "prepared" =>
               /\ prepared.result_columns # <<>> => \E i \in DOMAIN input.results : input.results[i] = SetEntry(<<<<"c">>>>)
               /\ Len(fields.rows) = Len(input.types)
               /\ \A i \in DOMAIN fields.rows : /\ fields.rows[i].type = ExasolToArrow(ExasolTypeOf(input.types[i]))
                                                /\ fields.rows[i].name = IF named[i].name = "" THEN <<"parameter", i>> ELSE <<named[i].name>>
               /\ \A types \in {<<>>, SomeTypes} :
                    LET s == sent([prepared EXCEPT !.types = types]) IN
                    /\ s.handle = 5 /\ s.num_columns = 2 /\ s.num_rows = input.rows /\ ToRowMajor(s.data) = ToRowMajor(bound)
                    /\ s.columns = IF types # <<>> THEN types
                                   ELSE <<[Plain("DECIMAL") EXCEPT !.precision = 18, !.scale = 0], [Plain("VARCHAR") EXCEPT !.size = MaxVarchar]>>

-----------------------------------------------------------------------------
Init == family = "start" /\ input = <<>>

Next ==
  \/ PickCsv \/ PickColumn
  \/ PickDate \/ PickTimestamp \/ PickInterval \/ PickDecimal
  \/ PickTypes \/ PickArrow \/ PickFields \/ PickNames
  \/ PickResultSet \/ PickResponse \/ PickAttributes \/ PickValue \/ PickRagged \/ PickBound
  \/ PickSql \/ PickTransfer \/ PickUri \/ PickObjects
  \/ PickSetup \/ PickOptions
  \/ PickConversation \/ PickKey \/ PickNativeKey \/ PickReply

Spec == Init /\ [][Next]_vars
=============================================================================
