--------------------------- MODULE TransferOptions --------------------------
(***************************************************************************)
(* The options of an import or an export as a caller builds them           *)
(* (CsvImportOptions, ArrowImportOptions, ParquetImportOptions,            *)
(* CsvExportOptions, ArrowExportOptions, ParquetExportOptions), the        *)
(* builders of the two statements (ImportQuery, ExportQuery), and how the  *)
(* first are turned into calls of the second.                              *)
(*                                                                         *)
(* A call of a setter is the field it sets with the argument, [f |-> v]; a *)
(* chain of calls is a sequence.                                           *)
(***************************************************************************)
EXTENDS TransferSql

\* One setter after the other, each on what the one before returned.
Chain(Apply(_, _), start, calls) == FoldLeft(Apply, start, calls)

\* A setter of a field that is an Option wraps its argument in Some.
SetField(options, wrapped, call) == [f \in DOMAIN call |-> IF f \in wrapped THEN <<call[f]>> ELSE call[f]] @@ options

Tunnel == [host |-> "", port |-> 0, tls |-> FALSE]

-----------------------------------------------------------------------------
(* The option structs: their defaults and their setters                    *)

\* CsvImportOptions::default.
CsvImportDefaults ==
  Tunnel @@ [schema |-> <<>>, columns |-> <<>>, encoding |-> <<"UTF-8">>, separator |-> ",", delimiter |-> "\"", rows |-> "LF",
             skip |-> 0, null |-> <<>>, trim |-> <<>>, compression |-> "none", limit |-> <<>>]

\* The setters of CsvImportOptions.
CsvImportOptions(calls) == Chain(LAMBDA o, c : SetField(o, {"schema", "columns", "null", "limit"}, c), CsvImportDefaults, calls)

\* CsvWriterOptions::default; an Arrow import holds one of them.
CsvWriterOptions == [separator |-> ",", delimiter |-> "\"", rows |-> "LF", null |-> <<>>, header |-> FALSE]

\* ArrowImportOptions::default, and its setters: those of the writer's fields go through.
ArrowImportOptions(calls) ==
  Chain(LAMBDA o, c : SetField(o, {"schema", "columns"}, c),
        Tunnel @@ CsvWriterOptions @@ [schema |-> <<>>, columns |-> <<>>, batch |-> 10000],
        calls)

\* ParquetImportOptions::default.
ParquetImportDefaults ==
  Tunnel @@ [schema |-> <<>>, columns |-> <<>>, batch |-> 1024, null |-> <<>>, separator |-> ",", delimiter |-> "\"",
             create |-> FALSE, names |-> "quoted", override |-> <<>>]

\* The setters of ParquetImportOptions; override is an Option already.
ParquetImportOptions(calls) == Chain(LAMBDA o, c : SetField(o, {"schema", "columns"}, c), ParquetImportDefaults, calls)

\* CsvExportOptions::default, and its setters.
CsvExportOptions(calls) ==
  Chain(LAMBDA o, c : SetField(o, {"null", "timeout"}, c),
        Tunnel @@ [separator |-> ",", delimiter |-> "\"", rows |-> "LF", encoding |-> <<"UTF-8">>, null |-> <<>>, compression |-> "none",
                   header |-> FALSE, timeout |-> <<>>],
        calls)

\* ArrowExportOptions::default, and its setters.
ArrowExportOptions(calls) ==
  Chain(LAMBDA o, c : SetField(o, {"null", "schema"}, c),
        Tunnel @@ [batch |-> 1024, null |-> <<>>, schema |-> <<>>, separator |-> ",", delimiter |-> "\""],
        calls)

\* ParquetExportOptions::default, and its setters.
ParquetExportOptions(calls) ==
  Chain(LAMBDA o, c : SetField(o, {"null"}, c),
        Tunnel @@ [batch |-> 1024, compression |-> "snappy", header |-> TRUE, separator |-> ",", delimiter |-> "\"", null |-> <<>>],
        calls)

-----------------------------------------------------------------------------
(* The statement builders                                                  *)

\* The setters of an ImportQuery.
SetImportQuery(query, call) == SetField(query, {"schema", "columns", "null", "limit"}, call)

\* RowSeparator::to_sql, Compression, TrimMode::to_sql of an import.
ImportChoices == [rows |-> {"LF", "CR", "CRLF"}, compression |-> {"none", "gzip", "bzip2"}, format |-> {"CSV", "PARQUET"},
                  trim |-> {<<>>, <<"LTRIM">>, <<"RTRIM">>, <<"TRIM">>}]

\* ExportQuery::from_table, from_query, with_source.
NewExportQuery(source) ==
  [source |-> source, separator |-> ",", delimiter |-> "\"", rows |-> "LF", encoding |-> <<"UTF-8">>, null |-> <<>>, delimit |-> "AUTO",
   compression |-> "none", header |-> FALSE]

\* RowSeparator::as_sql, Compression::extension, DelimitMode::as_sql of an export.
ExportChoices == [rows |-> {"LF", "CR", "CRLF"}, compression |-> {"none", "gzip", "bzip2"}, delimit |-> {"AUTO", "ALWAYS", "NEVER"}]

\* The setters of an ExportQuery: schema and columns are ignored when a query is exported.
SetExportQuery(query, call) ==
  CASE "schema" \in DOMAIN call  -> IF query.source.kind = "query" THEN query ELSE [query EXCEPT !.source.schema = <<call.schema>>]
    [] "columns" \in DOMAIN call -> IF query.source.kind = "query" THEN query ELSE [query EXCEPT !.source.columns = call.columns]
    [] OTHER                     -> SetField(query, {"null"}, call)

\* The calls that hand a field on.
Pass(o, fields) == [i \in DOMAIN fields |-> fields[i] :> o[fields[i]]]

\* The same for Options: only one that is set is handed on.
PassSet(o, fields) ==
  LET given == SelectSeq(fields, LAMBDA f : o[f] # <<>>) IN [i \in DOMAIN given |-> given[i] :> o[given[i]][1]]

\* CsvImportOptions::build_query.
CsvImportQuery(o) ==
  Chain(SetImportQuery, Defaults,
        PassSet(o, <<"schema", "columns">>) \o Pass(o, <<"encoding", "separator", "delimiter", "rows", "skip", "trim", "compression">>)
          \o PassSet(o, <<"null", "limit">>))

\* csv_import_options: the batches are written as CSV first, whose form is fixed; an
\* empty null text is the server's own.
ArrowImportQuery(o) ==
  CsvImportQuery([CsvImportDefaults EXCEPT !.separator = o.separator, !.delimiter = o.delimiter, !.schema = o.schema,
                    !.columns = o.columns, !.null = IF o.null = <<>> THEN <<>> ELSE <<o.null>>])

\* apply_schema_and_columns, apply_csv_format: build_single_file_csv_query and
\* build_multi_file_parquet_query.
ParquetImportQuery(o) ==
  Chain(SetImportQuery, Defaults,
        PassSet(o, <<"schema", "columns">>) \o Pass(o, <<"separator", "delimiter">>)
          \o (IF o.null = <<>> THEN <<>> ELSE <<[null |-> o.null]>>))

\* build_single_file_native_query, build_multi_file_parquet_native_query.
NativeParquetImportQuery(o) ==
  Chain(SetImportQuery, Defaults, <<[format |-> "PARQUET"]>> \o PassSet(o, <<"schema", "columns">>))

\* export_with_callback's query.
CsvExportQuery(source, o) ==
  Chain(SetExportQuery, NewExportQuery([source EXCEPT !.schema = <<>>, !.columns = <<>>]),
        PassSet(source, <<"schema">>) \o (IF source.columns = <<>> THEN <<>> ELSE Pass(source, <<"columns">>))
          \o Pass(o, <<"separator", "delimiter", "rows", "encoding", "header", "compression">>) \o PassSet(o, <<"null">>))

\* shared_csv_export_options, for an Arrow or a Parquet export.
SharedOptions(o) ==
  CsvExportOptions(Pass(o, <<"separator", "delimiter">>) \o <<[header |-> FALSE]>> \o Pass(o, <<"host", "port", "tls">>))

-----------------------------------------------------------------------------
(* The importers: the statement's options, and how the bytes they send are *)
(* packed.  A file is [ext, packed]: its extension, and how it is packed.  *)

\* detect_compression.
DetectCompression(file, explicit) ==
  CASE explicit # "none"                                         -> explicit
    [] explicit = "none" /\ file.ext \in {".gz", ".gzip"}        -> "gzip"
    [] explicit = "none" /\ file.ext \in {".bz2", ".bzip2"}      -> "bzip2"
    [] OTHER                                                     -> "none"

IsCompressedFile(file) == DetectCompression(file, "none") # "none"

\* compress_data: "twice" stands for data that is packed again.
Compress(packed, compression) ==
  CASE compression = "none" -> packed [] compression # "none" /\ packed = "none" -> compression [] OTHER -> "twice"

\* import_from_file: an extension settles the packing the options leave open.
FileImport(options, file) == [options EXCEPT !.compression = DetectCompression(file, options.compression)]

\* import_from_file: a packed file goes out as it is.
FileSent(options, file) ==
  IF IsCompressedFile(file) THEN file.packed ELSE Compress(file.packed, DetectCompression(file, options.compression))

\* import_from_files, of two files or more: the name is not consulted for the statement.
FilesSent(options, file) == IF IsCompressedFile(file) THEN file.packed ELSE Compress(file.packed, options.compression)

-----------------------------------------------------------------------------
(* The transfers of a Connection: each sends the importer or exporter to   *)
(* the host and port of the SQL connection, whatever its options said.     *)

AtConnection(options, params) == [options EXCEPT !.host = params.host, !.port = params.port]

\* parse_release_version: numbers of the server's release, a missing patch counts 0.
\* None is <<>>; a part that is no number is -1.
ParseReleaseVersion(parts) ==
  IF Len(parts) < 2 \/ \E i \in 1 .. (IF Len(parts) > 3 THEN 3 ELSE Len(parts)) : parts[i] < 0 THEN <<>>
  ELSE <<parts[1], parts[2], IF Len(parts) = 2 THEN 0 ELSE parts[3]>>

\* Lexicographic order of versions.
VersionAtLeast(v, w) ==
  \/ v[1] > w[1]
  \/ v[1] = w[1] /\ (v[2] > w[2] \/ (v[2] = w[2] /\ v[3] >= w[3]))

\* supports_native_parquet_import; an unknown release is below every threshold.
SupportsNativeParquet(parts) ==
  LET v == ParseReleaseVersion(parts) IN v # <<>> /\ VersionAtLeast(v, <<2025, 1, 11>>)

\* resolve_native_parquet: the caller's choice, else what the server can.
ResolveNativeParquet(override, parts) == IF override # <<>> THEN override[1] ELSE SupportsNativeParquet(parts)

\* A transfer: where the tunnel goes, the statement's query, the format sent in it.
Transfer(options, params, query, sent) ==
  LET at == AtConnection(options, params) IN [host |-> at.host, port |-> at.port, tls |-> at.tls, query |-> query, sent |-> sent]

\* import_csv_from_file, and _from_stream and _from_iter, whose bytes are not packed yet.
ImportCsvFromFile(options, params, file) == Transfer(options, params, CsvImportQuery(FileImport(options, file)), FileSent(options, file))

ImportCsvFromStream(options, params) == Transfer(options, params, CsvImportQuery(options), Compress("none", options.compression))

ImportCsvFromIter(options, params) == ImportCsvFromStream(options, params)

\* import_csv_from_files, of two files or more.
ImportCsvFromFiles(options, params, file) == Transfer(options, params, CsvImportQuery(options), FilesSent(options, file))

\* import_from_record_batch, _batches, _arrow_ipc.
ImportFromRecordBatch(options, params) == Transfer(options, params, ArrowImportQuery(options), "none")

ImportFromArrowIpc(options, params) == ImportFromRecordBatch(options, params)

\* import_from_parquet, _stream, _files: the file's own bytes, or CSV text made of them.
ParquetImport(options, params) ==
  IF ResolveNativeParquet(options.override, params.version)
    THEN Transfer(options, params, NativeParquetImportQuery(options), "parquet")
    ELSE Transfer(options, params, ParquetImportQuery(options), "none")

ImportFromParquetStream(options, params) == ParquetImport(options, params)
ImportParquetFromFiles(options, params)  == ParquetImport(options, params)

\* export_csv_to_file, _to_stream, _to_list and _with_callback.
ExportCsv(source, options, params) == Transfer(options, params, CsvExportQuery(source, options), options.compression)

\* export_to_parquet.
ExportToParquet(source, options, params) == Transfer(options, params, CsvExportQuery(source, SharedOptions(options)), "none")

\* export_to_record_batches, export_to_arrow_ipc.
ExportToRecordBatches(source, options, params) == Transfer(options, params, CsvExportQuery(source, SharedOptions(options)), "none")
=============================================================================
