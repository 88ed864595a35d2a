----------------------------- MODULE TransferSql ----------------------------
(***************************************************************************)
(* The IMPORT and EXPORT statements (src/src/query/clauses.rs, import.rs,  *)
(* export.rs).                                                             *)
(*                                                                         *)
(* A statement is a sequence of keywords and characters; "'" is the quote. *)
(* An option that is not set is the empty sequence, one that is set holds  *)
(* its value.                                                              *)
(***************************************************************************)
EXTENDS Integers, SequencesExt, TLC

SqlQuote == "'"

\* replace("'", "''").
Doubled(value) ==
  FlattenSeq([i \in DOMAIN value |-> IF value[i] = SqlQuote THEN <<SqlQuote, SqlQuote>> ELSE <<value[i]>>])

Literal(value) == <<SqlQuote>> \o Doubled(value) \o <<SqlQuote>>

-----------------------------------------------------------------------------
(* Clauses                                                                 *)

\* quoted_endpoint: the fingerprint selects the scheme and is pinned.
QuotedEndpoint(address, suffix, key) ==
  IF key = <<>> THEN Literal(<<"http">> \o address \o suffix)
  ELSE Literal(<<"https">> \o address \o suffix) \o <<"PUBLIC KEY">> \o Literal(key[1])

\* Mutant: a quote as column delimiter is not doubled.
EscapeSqlChar_Plain(c) == <<c>>

EscapeSqlChar(c) == IF c = SqlQuote THEN <<SqlQuote, SqlQuote>> ELSE <<c>>

CharLiteral(c) == <<SqlQuote>> \o EscapeSqlChar(c) \o <<SqlQuote>>

\* CsvFraming.
CsvFraming(o) ==
  <<"ENCODING">> \o Literal(o.encoding) \o <<"COLUMN SEPARATOR">> \o CharLiteral(o.separator)
    \o <<"COLUMN DELIMITER">> \o CharLiteral(o.delimiter) \o <<"ROW SEPARATOR">> \o Literal(<<o.rows>>)

NullClause(null) == IF null = <<>> THEN <<>> ELSE <<"NULL">> \o Literal(null[1])

-----------------------------------------------------------------------------
(* ImportQuery                                                             *)

\* ImportQuery::new: the fields of the query with their defaults; schema, columns, null,
\* trim and limit are options.
Defaults == [schema |-> <<>>, columns |-> <<>>, encoding |-> <<"UTF-8">>, separator |-> ",", delimiter |-> "\"", rows |-> "LF", skip |-> 0,
             null |-> <<>>, trim |-> <<>>, compression |-> "none", limit |-> <<>>, format |-> "CSV"]

Extensions == {".gz", ".bz2", ".csv", ".parquet"}

\* strip_known_extensions.
Stripped(name) ==
  LET kept == {i \in DOMAIN name : name[i] \notin Extensions} IN
  IF kept = {} THEN <<>> ELSE SubSeq(name, 1, CHOOSE i \in kept : \A j \in kept : j <= i)

\* file_name_for: the extension tells the server how the data is packed.
FileNameFor(query, name) ==
  Stripped(name) \o
  (CASE query.format = "PARQUET"                                    -> <<".parquet">>
     [] query.format = "CSV" /\ query.compression = "none"          -> <<".csv">>
     [] query.format = "CSV" /\ query.compression = "gzip"          -> <<".csv", ".gz">>
     [] query.format = "CSV" /\ query.compression = "bzip2"         -> <<".csv", ".bz2">>)

\* endpoint_of: a Parquet source is read by one reader at a time.
UrlSuffix(query) == IF query.format = "PARQUET" THEN <<";MaxConcurrentReads=1">> ELSE <<>>

\* source_clause: a pair of AT and FILE for each connection.
SourceClause(query, entries) ==
  <<"FROM", query.format>> \o
  FlattenSeq([i \in DOMAIN entries |->
    <<"AT">> \o QuotedEndpoint(entries[i].address, UrlSuffix(query), entries[i].key)
      \o <<"FILE", SqlQuote>> \o FileNameFor(query, entries[i].name) \o <<SqlQuote>>])

TargetClause(query, table) ==
  <<"IMPORT INTO">> \o query.schema \o <<table>> \o (IF query.columns = <<>> THEN <<>> ELSE query.columns[1])

\* csv_option_clauses.
CsvOptionClauses(query) ==
  CsvFraming(query)
    \o (IF query.skip > 0 THEN <<"SKIP", ToString(query.skip)>> ELSE <<>>)
    \o NullClause(query.null)
    \o (IF query.trim = <<>> THEN <<>> ELSE <<"TRIM">> \o Literal(query.trim))
    \o (IF query.limit = <<>> THEN <<>> ELSE <<"REJECT LIMIT">> \o query.limit)

\* ImportQuery::build: the CSV clauses are left out for Parquet.
ImportSql(query, table, entries) ==
  TargetClause(query, table) \o SourceClause(query, entries)
    \o (IF query.format = "PARQUET" THEN <<>> ELSE CsvOptionClauses(query))

\* The pool's entries: one file name for each connection.
Entry(address, key, number) == [address |-> address, key |-> key, name |-> <<ToString(number), ".csv">>]

-----------------------------------------------------------------------------
(* ExportQuery                                                             *)

\* source_clause of an EXPORT.
ExportSourceClause(source) ==
  CASE source.kind = "table" -> <<"EXPORT">> \o source.schema \o <<source.name>> \o source.columns
    [] source.kind = "query" -> <<"EXPORT", "(", source.name, ")">>

\* ExportSource::select_statement: the columns of the export, without running it.
SelectStatement(source) ==
  CASE source.kind = "table" -> <<"SELECT">> \o (IF source.columns = <<>> THEN <<"*">> ELSE source.columns)
                                  \o <<"FROM">> \o source.schema \o <<source.name>>
    [] source.kind = "query" -> <<source.name>>

\* ExportQuery::build.
ExportSql(source, o, address, key) ==
  ExportSourceClause(source) \o <<"INTO CSV AT">> \o QuotedEndpoint(address, <<>>, key)
    \o <<"FILE", SqlQuote, "001", ".csv">>
    \o (CASE o.compression = "none" -> <<>> [] o.compression = "gzip" -> <<".gz">> [] o.compression = "bzip2" -> <<".bz2">>)
    \o <<SqlQuote>> \o CsvFraming(o) \o NullClause(o.null)
    \o (IF o.header THEN <<"WITH COLUMN NAMES">> ELSE <<>>) \o <<"DELIMIT", o.delimit>>
=============================================================================
