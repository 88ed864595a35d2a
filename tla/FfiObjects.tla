----------------------------- MODULE FfiObjects -----------------------------
(***************************************************************************)
(* Metadata of the database: the ADBC get_objects tree, the schema of one  *)
(* table or of the parameters of a statement (src/src/adbc_ffi.rs), and    *)
(* the metadata queries of the Rust connection (adbc/connection.rs).       *)
(*                                                                         *)
(* A catalogue is what the system views hold when a query reads them: sets *)
(* of schemas, objects and columns.  Names are numbers, in their order.  A *)
(* pattern is the set of the names it matches, its quotes are escaped as   *)
(* in TransferSql.                                                         *)
(***************************************************************************)
EXTENDS ColumnValues, FiniteSetsExt

\* An Option or a nullable list: nothing, or one value.
Nothing == <<>>
Just(v) == <<v>>

\* like_condition, and no condition for an absent filter (append_where_clause).
Like(pattern, name) == pattern = Nothing \/ name \in pattern[1]

\* String filters of the Rust connection name one object.
Equals(filter, name) == filter = Nothing \/ filter = Just(name)

TableOrView == {"TABLE", "VIEW"}

\* ORDER BY the columns of a key.
SortBy(rows, Key(_)) ==
  LET before(a, b) == \E i \in 1 .. Len(Key(a)) : Key(a)[i] < Key(b)[i] /\ \A k \in 1 .. i - 1 : Key(a)[k] = Key(b)[k]
  IN SetToSortSeq(rows, before)

-----------------------------------------------------------------------------
(* The three queries; each reads the catalogue at its own moment.           *)

\* get_objects_schemas_query.
SchemasQuery(now, dbSchema) == SortBy({s \in now.schemas : Like(dbSchema, s)}, LAMBDA s : <<s>>)

\* Mutant: a filter of types replaces the one for tables and views.
TablesQuery_TypeReplaces(now, dbSchema, table, types) ==
  SortBy({t \in now.objects : /\ t.type \in (IF types = Nothing THEN TableOrView ELSE types[1])
                             /\ Like(dbSchema, t.schema) /\ Like(table, t.name)}, LAMBDA t : <<t.schema, t.name>>)

\* get_objects_tables_query.
TablesQuery(now, dbSchema, table, types) ==
  SortBy({t \in now.objects : /\ t.type \in TableOrView
                             /\ Like(types, t.type)
                             /\ Like(dbSchema, t.schema)
                             /\ Like(table, t.name)}, LAMBDA t : <<t.schema, t.name>>)

\* get_objects_columns_query.
ColumnsQuery(now, dbSchema, table, column) ==
  SortBy({c \in now.columns : Like(dbSchema, c.schema) /\ Like(table, c.table) /\ Like(column, c.name)},
         LAMBDA c : <<c.schema, c.table, c.ordinal>>)

\* query_batches: a result comes in batches.
InBatches(rows, size) ==
  [b \in 1 .. (Len(rows) + size - 1) \div size |-> SubSeq(rows, (b - 1) * size + 1, IF b * size < Len(rows) THEN b * size ELSE Len(rows))]

\* get_int_value: whole numbers arrive as decimals or doubles; a column of another
\* type, or a NULL, counts as absent.
GetIntValue(kind, value, absent) == IF kind \in {"decimal128", "float64"} THEN value ELSE absent

\* schema_names_from.
SchemaNamesFrom(batches) == FlattenSeq(batches)

Grouped(rows, Key(_), Value(_)) ==
  [k \in {Key(rows[i]) : i \in DOMAIN rows} |->
     LET own == SelectSeq(rows, LAMBDA r : Key(r) = k) IN [i \in DOMAIN own |-> Value(own[i])]]

\* tables_by_schema_from.
TablesBySchemaFrom(batches) == Grouped(FlattenSeq(batches), LAMBDA t : t.schema, LAMBDA t : <<t.name, t.type>>)

\* columns_by_table_from: an ordinal that cannot be read is the row in its batch.
ColumnsByTableFrom(batches, kind) ==
  LET numbered(b) == [i \in DOMAIN batches[b] |-> [row |-> batches[b][i], ordinal |-> GetIntValue(kind, batches[b][i].ordinal, i)]] IN
  Grouped(FlattenSeq([b \in DOMAIN batches |-> numbered(b)]),
          LAMBDA c : <<c.row.schema, c.row.table>>, LAMBDA c : <<c.row.name, c.ordinal, c.row.type>>)

-----------------------------------------------------------------------------
(* The tree                                                                 *)

\* ObjectDepthLevels::from: a depth asks for the levels above it too.
DepthLevels(depth) ==
  [schemas |-> depth \in {"schemas", "tables", "columns", "all"},
   tables  |-> depth \in {"tables", "columns", "all"},
   columns |-> depth \in {"columns", "all"}]

GetOr(groups, key, none) == IF key \in DOMAIN groups THEN groups[key] ELSE none

\* append_table_columns: [column_name, ordinal_position, xdbc_type_name].
TableColumns(entries) == [i \in DOMAIN entries |-> [name |-> entries[i][1], ordinal |-> entries[i][2], type |-> entries[i][3]]]

\* append_table_entry: the constraints are always null.
TableEntry(table, columns, levels) ==
  [name |-> table[1], type |-> table[2], constraints |-> Nothing,
   columns |-> IF levels.columns THEN Just(TableColumns(columns)) ELSE Nothing]

\* append_schema_entry.
SchemaEntry(schema, tables, columns, levels) ==
  LET own == GetOr(tables, schema, <<>>) IN
  [name   |-> schema,
   tables |-> IF ~levels.tables THEN Nothing
              ELSE Just([i \in DOMAIN own |-> TableEntry(own[i], GetOr(columns, <<schema, own[i][1]>>, <<>>), levels)])]

\* build_get_objects_batch: one row, for the one catalog EXA.
ObjectsBatch(schemas, tables, columns, levels) ==
  [catalog |-> "EXA",
   schemas |-> IF ~levels.schemas THEN Nothing
               ELSE Just([i \in DOMAIN schemas |-> SchemaEntry(schemas[i], tables, columns, levels)])]

Objects(error, rows) == [error |-> error, rows |-> rows]

\* catalog_is_exasol, in any case.
CatalogIsExasol(catalog) == catalog \in {"none", "EXA", "exa"}

\* get_objects: the filters are [catalog, dbSchema, table, types, column]; at[1], at[2]
\* and at[3] are the catalogue when the queries run, for each level that is asked for.
\* The call takes the connection for one query at a time.
GetObjects(connected, depth, f, at, size, kind) ==
  LET levels  == DepthLevels(depth)
      schemas == SchemaNamesFrom(InBatches(SchemasQuery(at[1], f.dbSchema), size))
      tables  == TablesBySchemaFrom(InBatches(TablesQuery(at[2], f.dbSchema, f.table, f.types), size))
      columns == ColumnsByTableFrom(InBatches(ColumnsQuery(at[3], f.dbSchema, f.table, f.column), size), kind) IN
  CASE ~CatalogIsExasol(f.catalog)               -> Objects("none", <<>>)
    [] CatalogIsExasol(f.catalog) /\ ~connected -> Objects("InvalidState", <<>>)
    [] OTHER -> Objects("none", <<ObjectsBatch(IF levels.schemas THEN schemas ELSE <<>>, IF levels.tables THEN tables ELSE <<>>,
                                               IF levels.columns THEN columns ELSE <<>>, levels)>>)

-----------------------------------------------------------------------------
(* One table                                                                *)

\* table_schema_query: exact names; ordered by the position only.
TableSchemaQuery(now, dbSchema, table) ==
  SortBy({c \in now.columns : c.table = table /\ Equals(dbSchema, c.schema)}, LAMBDA c : <<c.ordinal, c.schema>>)

\* get_nullable_value: nullable unless a flag says otherwise, spells_affirmative.
GetNullableValue(flag) == flag \in {"true", "TRUE", "YES", "1", "null", "not a flag"}

\* table_schema_fields_from.
TableSchemaFields(rows) ==
  [i \in DOMAIN rows |-> [name |-> rows[i].name, type |-> ExasolToArrow(ParseExasolTypeString(rows[i].text)), nullable |-> GetNullableValue(rows[i].flag)]]

\* get_table_schema.
GetTableSchema(connected, now, dbSchema, table) ==
  LET rows == TableSchemaQuery(now, dbSchema, table) IN
  CASE ~connected                  -> Objects("InvalidState", <<>>)
    [] connected /\ rows = <<>>    -> Objects("NotFound", <<>>)
    [] OTHER                       -> Objects("none", TableSchemaFields(rows))

\* transport_datatype_to_exasol.
TransportDatatypeToExasol(d) ==
  CASE d.name \in {"BOOLEAN", "DATE"}               -> T(IF d.name = "DATE" THEN "date" ELSE "boolean", 0, 0)
    [] d.name \in {"DOUBLE", "DOUBLE PRECISION"}    -> T("double", 0, 0)
    [] d.name = "TIMESTAMP"                         -> T("timestamp", IF d.tz THEN 1 ELSE 0, 0)
    [] d.name = "TIMESTAMP WITH LOCAL TIME ZONE"    -> T("timestamp", 1, 0)
    [] d.name = "CHAR"                              -> T("char", OrElse(d.size, 1), 0)
    [] d.name = "VARCHAR"                           -> T("varchar", OrElse(d.size, MaxVarchar), 0)
    [] d.name = "DECIMAL"                           -> T("decimal", OrElse(d.precision, IntPrecision), OrElse(d.scale, 0))
    [] d.name = "GEOMETRY"                          -> T("geometry", 0, 0)
    [] d.name = "HASHTYPE"                          -> T("hashtype", OrElse(d.size, DefaultHashBytes), 0)
    [] d.name = "INTERVAL DAY TO SECOND"            -> T("day_to_second", OrElse(d.fraction, 3), 0)
    [] d.name = "INTERVAL YEAR TO MONTH"            -> T("year_to_month", 0, 0)
    [] OTHER                                        -> Unsupported

\* get_parameter_schema: a parameter without a name gets one from its position.
GetParameterSchema(prepared, types, names) ==
  LET known == [i \in DOMAIN types |-> TransportDatatypeToExasol(types[i])]
      name(i) == IF i \in DOMAIN names /\ names[i] # "" THEN <<names[i]>> ELSE <<"parameter", i>> IN
  CASE ~prepared -> Objects("InvalidState", <<>>)
    [] prepared /\ \E i \in DOMAIN types : known[i] = Unsupported -> Objects("Internal", <<>>)
    [] OTHER     -> Objects("none", [i \in DOMAIN types |-> [name |-> name(i), type |-> ExasolToArrow(known[i]), nullable |-> TRUE]])

-----------------------------------------------------------------------------
(* Metadata queries of the Rust connection                                  *)

\* get_catalogs, get_schemas: the catalog filters the schemas.
GetCatalogs(now)         == SchemasQuery(now, Nothing)
GetSchemas(now, catalog) == SortBy({s \in now.schemas : Equals(catalog, s)}, LAMBDA s : <<s>>)

\* get_tables: the catalog is ignored.
GetTables(now, catalog, schema, table) ==
  SortBy({t \in now.objects : t.type \in TableOrView /\ Equals(schema, t.schema) /\ Equals(table, t.name)}, LAMBDA t : <<t.schema, t.name>>)

\* The columns of SYS.EXA_ALL_COLUMNS, as get_objects_columns_query, table_schema_query and
\* the integration tests name them.
AllColumns == {"COLUMN_SCHEMA", "COLUMN_TABLE", "COLUMN_NAME", "COLUMN_ORDINAL_POSITION", "COLUMN_TYPE", "COLUMN_MAXSIZE",
               "COLUMN_NUM_PREC", "COLUMN_NUM_SCALE", "COLUMN_IS_NULLABLE"}

\* get_columns: the catalog filters the schema, beside the filter for it.  The server refuses
\* a query that names a column its `view' does not have.
GetColumns(now, view, catalog, schema, table, column) ==
  LET named == {"COLUMN_SCHEMA", "COLUMN_TABLE", "COLUMN_NAME", "COLUMN_TYPE", "COLUMN_NUM_PREC", "COLUMN_NUM_SCALE",
                "COLUMN_IS_NULLABLE", "ORDINAL_POSITION"} IN
  IF ~(named \subseteq view) THEN Objects("QueryError", <<>>)
  ELSE Objects("none", SortBy({c \in now.columns : /\ Equals(catalog, c.schema) /\ Equals(schema, c.schema)
                                                  /\ Equals(table, c.table) /\ Equals(column, c.name)},
                              LAMBDA c : <<c.schema, c.table, c.ordinal>>))
=============================================================================
