------------------------------ MODULE NativeWire ----------------------------
(***************************************************************************)
(* The native protocol's messages (src/src/transport/native/): attribute   *)
(* lists (attributes.rs), response envelopes and result sets               *)
(* (result_parser.rs), and the column description a result set carries.    *)
(*                                                                         *)
(* A message is a sequence of bytes 0 .. Base - 1, and every number has    *)
(* its width in bytes; both are parameters, so that TLC's integers hold    *)
(* the numbers.  A reading is [v, at]: the value and the offset behind it; *)
(* the offset Fail is the error of a message that is too short.            *)
(***************************************************************************)
EXTENDS Integers, SequencesExt

CONSTANTS
  Base,        \* 256: values of a byte
  IntBytes,    \* 4: bytes of an i32
  LongBytes,   \* 8: bytes of an i64 or a double
  MaxParts     \* 64: largest number of parts the envelope test believes

ASSUME NativeWireAssumption == Base > 15 /\ IntBytes \in 2 .. LongBytes /\ MaxParts \in 1 .. Base - 1

Fail == 0 - 1

StateBytes == 5   \* of an SQLSTATE

\* A number in two's complement, lowest byte first.
Le(n, width) == [i \in 1 .. width |-> ((n % Base ^ width) \div Base ^ (i - 1)) % Base]

TwosComplement(raw, range) == IF raw >= range \div 2 THEN raw - range ELSE raw

Signed(bytes) ==
  TwosComplement(FoldLeft(+, 0, [i \in DOMAIN bytes |-> bytes[i] * Base ^ (i - 1)]), Base ^ Len(bytes))

\* What is read is a value and the place behind it; Then uses it.
Then(read, Use(_)) == Use(read)

\* Primitive readers.
ReadBytes(data, at, n) ==
  IF at = Fail \/ n < 0 \/ at + n > Len(data) THEN [v |-> <<>>, at |-> Fail]
  ELSE [v |-> SubSeq(data, at + 1, at + n), at |-> at + n]

ReadNumber(data, at, width) ==
  Then(ReadBytes(data, at, width), LAMBDA read : [v |-> IF read.at = Fail THEN 0 ELSE Signed(read.v), at |-> read.at])

ReadLengthPrefixed(data, at) ==
  Then(ReadNumber(data, at, IntBytes), LAMBDA len : ReadBytes(data, len.at, len.v))

AppendRead(acc, read) == [v |-> Append(acc.v, read.v), at |-> read.at]

LengthPrefixed(bytes) == Le(Len(bytes), IntBytes) \o bytes

-----------------------------------------------------------------------------
(* Attributes: the type of a value is known from the attribute's number    *)

AttributeTypes == {"string", "binary", "i32", "i64", "bool"}

\* attribute_type, for the attributes the driver reads or writes.
AttributeType(id) ==
  CASE id \in {7, 51, 57, 55, 17, 15, 41, 45, 50, 61, 62}             -> "bool"
    [] id \in {19, 35, 52, 56, 16, 36, 40, 44, 46, 60, 69, 72, 73}    -> "i32"
    [] id \in {6, 26, 201, 202, 203, 18, 24, 25, 42, 43, 68, 70}      -> "i64"
    [] id \in {53, 54, 32, 34, 33, 65, 66}                            -> "binary"
    [] OTHER                                                          -> "string"

IdBytes == 2

\* read_int32, read_int64, read_bool.
AttributeWidth(type) ==
  CASE type = "bool" -> 1 [] type = "i32" -> IntBytes [] type = "i64" -> LongBytes

\* serialize_attribute, by the type of the value; a number is stored as <<n>>.
SerializeAttribute(a) ==
  Le(a.id, IdBytes) \o
  (CASE a.type \in {"string", "binary"} -> LengthPrefixed(a.value)
     [] a.type = "bool"                 -> Le(a.value[1], 1)
     [] a.type = "i32"                  -> Le(a.value[1], IntBytes)
     [] a.type = "i64"                  -> Le(a.value[1], LongBytes))

Serialize(attributes) == FlattenSeq([i \in DOMAIN attributes |-> SerializeAttribute(attributes[i])])

\* read_attribute_id, read_attribute_value.
ReadAttribute(data, at) ==
  Then(ReadNumber(data, at, IdBytes), LAMBDA id :
    Then(IF AttributeType(id.v) \in {"string", "binary"} THEN ReadLengthPrefixed(data, id.at)
         ELSE Then(ReadNumber(data, id.at, AttributeWidth(AttributeType(id.v))), LAMBDA num : [v |-> <<num.v>>, at |-> num.at]),
      LAMBDA read : [v |-> [id |-> id.v, type |-> AttributeType(id.v), value |-> read.v], at |-> read.at]))

\* parse_attributes: as many as the header announces.
ParseAttributes(data, count) ==
  FoldLeft(LAMBDA acc, i : IF acc.at = Fail THEN acc ELSE AppendRead(acc, ReadAttribute(data, acc.at)),
           [v |-> <<>>, at |-> 0], [i \in 1 .. count |-> i])

\* AttributeSet::get: the first attribute with the number.
GetAttribute(attributes, id) == SelectSeq(attributes, LAMBDA a : a.id = id)[1].value

-----------------------------------------------------------------------------
(* Result sets                                                             *)

Wire == [decimal |-> 6, smalldecimal |-> 63, bigdecimal |-> 64, double |-> 8, real |-> 7, integer |-> 5, smallint |-> 4,
         boolean |-> 9, char |-> 10, date |-> 14, binary |-> 15, interval_year |-> 16, interval_day |-> 17,
         timestamp |-> 21, geometry |-> 123, timestamp_ltz |-> 124, timestamp_utc |-> 125, hashtype |-> 126]

WireDecimals == {Wire.decimal, Wire.smalldecimal, Wire.bigdecimal}
Timestamps   == {Wire.timestamp, Wire.timestamp_ltz, Wire.timestamp_utc}
FixedTypes   == WireDecimals \cup Timestamps
                  \cup {Wire.double, Wire.real, Wire.integer, Wire.smallint, Wire.boolean, Wire.date}

\* Mutant: the fraction of a day-to-second interval is not read.
MetaWidths_NoFraction(type) ==
  CASE type \in WireDecimals                                -> <<IntBytes, IntBytes>>
    [] type \in {Wire.char, Wire.geometry, Wire.hashtype}   -> <<1, IntBytes, IntBytes>>
    [] type \in {Wire.interval_year, Wire.interval_day}     -> <<1, IntBytes, IntBytes, IntBytes>>
    [] type \in Timestamps                                  -> <<IntBytes>>
    [] OTHER                                                -> <<>>

\* parse_column_meta: the numbers that follow a column's type.
MetaWidths(type) ==
  CASE type \in WireDecimals                                -> <<IntBytes, IntBytes>>
    [] type \in {Wire.char, Wire.geometry, Wire.hashtype}   -> <<1, IntBytes, IntBytes>>
    [] type = Wire.interval_year                            -> <<1, IntBytes, IntBytes, IntBytes>>
    [] type = Wire.interval_day                             -> <<1, IntBytes, IntBytes, IntBytes, IntBytes>>
    [] type \in Timestamps                                  -> <<IntBytes>>
    [] OTHER                                                -> <<>>

ReadAll(data, at, widths) ==
  FoldLeft(LAMBDA acc, w : AppendRead(acc, ReadNumber(data, acc.at, w)), [v |-> <<>>, at |-> at], widths)

ReadMeta(data, at) ==
  Then(ReadLengthPrefixed(data, at), LAMBDA name :
    Then(ReadNumber(data, name.at, IntBytes), LAMBDA type :
      Then(ReadAll(data, type.at, MetaWidths(type.v)), LAMBDA more :
        [v |-> [name |-> name.v, type |-> type.v, more |-> more.v], at |-> more.at])))

\* fill_decimal_column: a DECIMAL of a precision up to this one has the width of an i32.
NarrowPrecision == 9

TimestampBytes == 2 + 5 + IntBytes

\* fill_column_builder: the bytes of a value of fixed width.
ValueWidth(meta) ==
  CASE meta.type \in {Wire.double, Wire.integer}                -> LongBytes
    [] meta.type \in {Wire.real, Wire.smallint, Wire.smalldecimal, Wire.date} -> IntBytes
    [] meta.type = Wire.boolean                                 -> 1
    [] meta.type = Wire.decimal                                 -> IF meta.more[1] <= NarrowPrecision THEN IntBytes ELSE LongBytes
    [] meta.type = Wire.bigdecimal                              -> 2 * LongBytes
    [] meta.type \in Timestamps                                 -> TimestampBytes

\* Neither a byte string: a null, and the state of a message too short to carry one.
NullValue    == <<0 - 1>>
UnknownState == <<0 - 2>>

\* One value of a column: the null marker, then its bytes.
ReadValue(data, at, meta) ==
  Then(ReadNumber(data, at, 1), LAMBDA marker :
    IF marker.at = Fail \/ marker.v = 0 THEN [v |-> NullValue, at |-> marker.at]
    ELSE IF meta.type \in FixedTypes
      THEN ReadBytes(data, marker.at, ValueWidth(meta))
      ELSE ReadLengthPrefixed(data, marker.at))

Collect(Read(_), at, count) ==
  FoldLeft(LAMBDA acc, i : AppendRead(acc, Read(acc.at)), [v |-> <<>>, at |-> at], [i \in 1 .. count |-> i])

\* build_batch_from_wire: column after column.
ReadBatch(data, at, metas, rows) ==
  FoldLeft(LAMBDA acc, meta : AppendRead(acc, Collect(LAMBDA from : ReadValue(data, from, meta), acc.at, rows)),
           [v |-> <<>>, at |-> at], metas)

-----------------------------------------------------------------------------
(* Responses                                                               *)

ResultType == [row_count |-> 0, result_set |-> 1, handle |-> 2, column_count |-> 3, warning |-> 4,
               still_executing |-> 5, more_rows |-> 6, exception |-> Base - 1, empty |-> Base - 2]

KnownTypes == {ResultType[n] : n \in DOMAIN ResultType}

ParameterDescription == 0 - 5

\* A part or a terminal result: kind, number, texts, columns of metadata and of values.
Part(kind, n, texts, metas, values) == [kind |-> kind, n |-> n, texts |-> texts, metas |-> metas, values |-> values]

EmptyPart == Part("empty", 0, <<>>, <<>>, <<>>)

NoPart == Part("none", 0, <<>>, <<>>, <<>>)

\* parse_result_set_at: handle, columns, rows announced and rows received.
ReadResultSet(data, at) ==
  Then(ReadAll(data, at, <<IntBytes, IntBytes, LongBytes, LongBytes>>), LAMBDA head :
    IF head.at = Fail \/ head.v[4] < 0 THEN [v |-> NoPart, at |-> Fail]
    ELSE Then(Collect(LAMBDA from : ReadMeta(data, from), head.at, head.v[2]), LAMBDA metas :
           Then(ReadBatch(data, metas.at, metas.v, head.v[4]), LAMBDA batch :
             [v |-> Part("result_set", head.v[1], <<>>, metas.v, batch.v), at |-> batch.at])))

\* parse_message_part: a text and, where the message is long enough, a state.
ReadMessage(data, at) ==
  Then(ReadLengthPrefixed(data, at), LAMBDA text :
    IF text.at = Fail THEN [v |-> <<>>, at |-> Fail]
    ELSE Then(ReadBytes(data, text.at, StateBytes), LAMBDA state :
           IF state.at = Fail THEN [v |-> <<text.v, UnknownState>>, at |-> text.at]
           ELSE [v |-> <<text.v, state.v>>, at |-> state.at]))

\* consume_status_message: nothing, or one text.
SkipStatus(data, at) == IF at = Fail \/ at >= Len(data) THEN at ELSE ReadLengthPrefixed(data, at).at

RECURSIVE ReadLegacy(_, _), ReadDescriptions(_, _, _)

\* The sub-results of a prepared statement: parameters and result columns; an
\* exception among them is an error.
ReadDescriptions(data, at, acc) ==
  IF at = Fail \/ at >= Len(data) THEN [v |-> acc, at |-> at]
  ELSE Then(ReadLegacy(data, at), LAMBDA sub :
         IF sub.at = Fail \/ sub.v.terminal.kind = "exception" THEN [v |-> acc, at |-> Fail]
         ELSE LET isSet == sub.v.terminal.kind = "result_set"
                  isPar == isSet /\ sub.v.terminal.n = ParameterDescription
              IN ReadDescriptions(data, sub.at,
                   [warnings   |-> acc.warnings \o sub.v.warnings,
                    parameters |-> IF isPar THEN sub.v.terminal.metas ELSE acc.parameters,
                    results    |-> IF isSet /\ ~isPar THEN sub.v.terminal.metas ELSE acc.results]))

PartRead(warnings, terminal, to) == [v |-> [warnings |-> warnings, terminal |-> terminal], at |-> to]

\* The body of a part, by its type.
ReadBody(data, from, tag) ==
  CASE tag = ResultType.row_count    ->
         Then(ReadNumber(data, from, LongBytes), LAMBDA n : PartRead(<<>>, Part("row_count", n.v, <<>>, <<>>, <<>>), n.at))
    [] tag = ResultType.result_set   -> Then(ReadResultSet(data, from), LAMBDA set : PartRead(<<>>, set.v, set.at))
    [] tag = ResultType.handle       ->
         Then(ReadNumber(data, from, IntBytes), LAMBDA handle :
           Then(ReadDescriptions(data, handle.at, [warnings |-> <<>>, parameters |-> <<>>, results |-> <<>>]), LAMBDA subs :
             PartRead(subs.v.warnings, Part("prepared", handle.v, <<>>, subs.v.parameters, subs.v.results), subs.at)))
    [] tag = ResultType.column_count -> PartRead(<<>>, EmptyPart, ReadNumber(data, from, IntBytes).at)
    [] tag = ResultType.warning      -> Then(ReadMessage(data, from), LAMBDA text : PartRead(<<text.v>>, EmptyPart, text.at))
    [] tag = ResultType.still_executing -> PartRead(<<>>, Part("still_executing", 0, <<>>, <<>>, <<>>), SkipStatus(data, from))
    [] tag = ResultType.more_rows    ->
         PartRead(<<>>, Part("more_rows", 0, <<SubSeq(data, from + 1, Len(data))>>, <<>>, <<>>), Len(data))
    [] tag = ResultType.exception    ->
         Then(ReadMessage(data, from), LAMBDA text : PartRead(<<>>, Part("exception", 0, text.v, <<>>, <<>>), text.at))
    [] tag = ResultType.empty        -> PartRead(<<>>, EmptyPart, from)
    [] OTHER                         -> PartRead(<<>>, NoPart, Fail)

\* parse_legacy_response_body: one part without a count; also the parts of an envelope.
ReadLegacy(data, at) ==
  Then(ReadNumber(data, at, 1), LAMBDA type :
    IF type.at = Fail THEN PartRead(<<>>, NoPart, Fail) ELSE ReadBody(data, type.at, type.v % Base))

\* assign_terminal_result: a second terminal result is an error.
AssignTerminal(slot, part) == IF slot.kind = "none" THEN part ELSE Part("error", 0, <<>>, <<>>, <<>>)

\* Parts that carry no terminal result.
Attachments == {ResultType.warning, ResultType.column_count}

\* One part of a counted envelope; unlike a lone part, "still executing" has no text.
EnvelopePart(data, acc, last) ==
  LET tag == ReadNumber(data, acc.at, 1).v % Base IN
  IF acc.at = Fail THEN acc
  ELSE Then(IF tag = ResultType.still_executing
              THEN PartRead(<<>>, Part("still_executing", 0, <<>>, <<>>, <<>>), acc.at + 1)
              ELSE ReadLegacy(data, acc.at), LAMBDA read :
         IF read.at = Fail \/ (tag = ResultType.more_rows /\ ~last) THEN [acc EXCEPT !.at = Fail]
         ELSE LET slot == IF tag \in Attachments THEN acc.terminal ELSE AssignTerminal(acc.terminal, read.v.terminal)
              IN [at       |-> IF slot.kind = "error" THEN Fail ELSE read.at,
                  warnings |-> acc.warnings \o read.v.warnings,
                  terminal |-> slot])

\* The test of try_parse_counted_envelope before it commits to the format.
LooksCounted(data) ==
  /\ Len(data) > IntBytes
  /\ ReadNumber(data, 0, IntBytes).v \in 1 .. MaxParts
  /\ data[IntBytes + 1] \in KnownTypes

Response(warnings, terminal) == [warnings |-> warnings, terminal |-> terminal]

BadResponse == Response(<<>>, NoPart)

\* parse_legacy_response: nothing may follow the part.
ParseLegacy(data) ==
  Then(ReadLegacy(data, 0), LAMBDA one : IF one.at # Len(data) THEN BadResponse ELSE Response(one.v.warnings, one.v.terminal))

\* parse_response.
ParseResponse(data) ==
  LET count == ReadNumber(data, 0, IntBytes).v IN
  IF data = <<>> \/ data = Le(0, IntBytes) THEN Response(<<>>, EmptyPart)
  ELSE IF ~LooksCounted(data) THEN ParseLegacy(data)
  ELSE Then(FoldLeft(LAMBDA acc, i : EnvelopePart(data, acc, i = count),
                     [at |-> IntBytes, warnings |-> <<>>, terminal |-> NoPart], [i \in 1 .. count |-> i]), LAMBDA parts :
         IF parts.at = Fail THEN BadResponse
         ELSE IF parts.at # Len(data) THEN ParseLegacy(data)
         ELSE Response(parts.warnings, IF parts.terminal = NoPart THEN EmptyPart ELSE parts.terminal))
=============================================================================
