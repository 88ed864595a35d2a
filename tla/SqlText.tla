------------------------------- MODULE SqlText ------------------------------
(***************************************************************************)
(* Positional parameters put into the text of a statement                  *)
(* (src/src/query/statement.rs): the scanner that finds the placeholders   *)
(* and the literals that replace them.  A text is a sequence of            *)
(* characters, "x" being any that means nothing to the scanner.            *)
(***************************************************************************)
EXTENDS Integers, SequencesExt

Quote      == "'"
Identifier == "\""
NewLine    == "nl"
SqlChars   == {"?", Quote, Identifier, "-", "/", "*", NewLine, "x"}

-----------------------------------------------------------------------------
(* The scanner                                                             *)

\* ScanStep: the next state, and whether the character is a placeholder or the
\* first of a pair whose second is to be skipped.
Go(state)         == [state |-> state, placeholder |-> FALSE, pair |-> FALSE]
GoPastPair(state) == [state |-> state, placeholder |-> FALSE, pair |-> TRUE]
Placeholder       == [state |-> "normal", placeholder |-> TRUE, pair |-> FALSE]

\* Mutant: the star that opens a comment may also close it.
StepOutsideLiteral_NoPair(c, next) ==
  CASE c = "?"                -> Placeholder
    [] c = Quote              -> Go("single")
    [] c = Identifier         -> Go("double")
    [] c = "-" /\ next = "-"  -> Go("line")
    [] c = "/" /\ next = "*"  -> Go("block")
    [] OTHER                  -> Go("normal")

StepOutsideLiteral(c, next) ==
  CASE c = "?"                -> Placeholder
    [] c = Quote              -> Go("single")
    [] c = Identifier         -> Go("double")
    [] c = "-" /\ next = "-"  -> GoPastPair("line")
    [] c = "/" /\ next = "*"  -> GoPastPair("block")
    [] OTHER                  -> Go("normal")

StepInsideQuotes(state, quote, c, next) ==
  CASE c # quote                   -> Go(state)
    [] c = quote /\ next = quote   -> GoPastPair(state)
    [] c = quote /\ next # quote   -> Go("normal")

\* scan_step.
ScanStep(state, c, next) ==
  CASE state = "normal" -> StepOutsideLiteral(c, next)
    [] state = "single" -> StepInsideQuotes(state, Quote, c, next)
    [] state = "double" -> StepInsideQuotes(state, Identifier, c, next)
    [] state = "line"   -> IF c = NewLine THEN Go("normal") ELSE Go("line")
    [] state = "block"  -> IF c = "*" /\ next = "/" THEN GoPastPair("normal") ELSE Go("block")

\* scan_placeholders: the positions, in ascending order.
ScanPlaceholders(sql) ==
  FoldLeft(LAMBDA scan, i :
             LET step == ScanStep(scan.state, sql[i], IF i < Len(sql) THEN sql[i + 1] ELSE "end") IN
             IF scan.skip THEN [scan EXCEPT !.skip = FALSE]
             ELSE [state |-> step.state, skip |-> step.pair, at |-> IF step.placeholder THEN Append(scan.at, i) ELSE scan.at],
           [state |-> "normal", skip |-> FALSE, at |-> <<>>], [i \in DOMAIN sql |-> i]).at

-----------------------------------------------------------------------------
(* Parameters                                                              *)

\* A parameter is [kind, v]; v holds the characters of the value.
Parameter(kind, v) == [kind |-> kind, v |-> v]

Unbound == Parameter("unbound", <<>>)

Refused == <<"refused">>

\* A text in which contains_sql_injection_pattern finds one of its patterns.
Suspicious == "suspicious"

\* to_sql_literal.
ToSqlLiteral(p) ==
  CASE p.kind \in {"null", "bool", "int"} -> p.v
    [] p.kind = "float"  -> IF p.v = <<"NaN">> THEN Refused ELSE p.v
    [] p.kind = "string" -> IF Suspicious \in Range(p.v) THEN Refused
                            ELSE <<Quote>> \o FlattenSeq([i \in DOMAIN p.v |->
                                   IF p.v[i] = Quote THEN <<Quote, Quote>> ELSE <<p.v[i]>>]) \o <<Quote>>
    [] p.kind = "binary" -> <<Quote>> \o p.v \o <<Quote>>

\* bind: the list grows to the index, which counts from 1 here.
Bind(params, index, value) ==
  [i \in 1 .. (IF index > Len(params) THEN index ELSE Len(params)) |->
     CASE i = index -> value [] i # index /\ i <= Len(params) -> params[i] [] OTHER -> Unbound]

Built(error, sql) == [error |-> error, sql |-> sql]

\* build_sql: from the last placeholder to the first, so that the positions before
\* it stay valid.
BuildSql(sql, params) ==
  LET at == ScanPlaceholders(sql) IN
  IF Len(at) > Len(params) THEN Built("not enough", <<>>)
  ELSE FoldLeft(LAMBDA built, k :
                  LET literal == ToSqlLiteral(params[k]) IN
                  CASE built.error # "none"                             -> built
                    [] built.error = "none" /\ params[k] = Unbound      -> Built("not bound", <<>>)
                    [] built.error = "none" /\ params[k] # Unbound      ->
                         IF literal = Refused THEN Built("refused", <<>>)
                         ELSE Built("none", SubSeq(built.sql, 1, at[k] - 1) \o literal
                                              \o SubSeq(built.sql, at[k] + 1, Len(built.sql))),
                Built("none", sql), Reverse([k \in DOMAIN at |-> k]))
=============================================================================
