--------------------------- MODULE MCFfiStatement ---------------------------
(* Small instances of FfiStatement for TLC: a message holds 4 bytes of rows. *)
EXTENDS FfiStatement

MCInsert == [id |-> 1, params |-> 1, result |-> "count"]

MCTexts == {MCInsert,
            [id |-> 2, params |-> 1, result |-> "set"],
            [id |-> 3, params |-> 0, result |-> "count"]}

MCBatch(cols, ends, bad, stage, types) ==
  [cols |-> cols, ends |-> ends, bad |-> bad, stage |-> stage, types |-> types]

MCWhole == MCBatch(1, <<2, 4>>, 0, "convert", "storable")

MCBatches ==
  {MCWhole,                                                \* fits exactly
   MCBatch(1, <<1, 4, 6, 8>>, 0, "convert", "storable"),   \* two messages
   MCBatch(1, <<1, 6>>, 0, "convert", "storable"),         \* a row that is too large
   MCBatch(1, <<2, 4>>, 2, "convert", "storable"),
   MCBatch(1, <<2, 3>>, 2, "encode", "other"),
   MCBatch(1, <<>>, 0, "convert", "storable"),
   MCBatch(0, <<0, 0>>, 0, "convert", "storable")}

MCOption(temporary, mode, catalog) ==
  [target |-> "set", temporary |-> temporary, mode |-> mode, catalog |-> catalog]

MCIngestOptions ==
  {MCOption("unset", "unset", "unset"),
   MCOption("unset", "create", "EXA"),
   MCOption("unset", "create", "other"),
   MCOption("unset", "create_append", "unset"),
   MCOption("unset", "replace", "unset"),
   MCOption("unset", "unknown", "unset"),
   MCOption("true", "replace", "unset")}

\* The first statement does everything of its kind; the second gets in its way.
MCStatements == {"s1", "s2"}

MCSql ==
  [s \in MCStatements |->
     IF s = "s1" THEN [texts |-> MCTexts, batches |-> MCBatches, options |-> {}]
     ELSE [texts |-> {MCInsert}, batches |-> {MCWhole}, options |-> {}]]

MCIngest ==
  [s \in MCStatements |->
     IF s = "s1" THEN [texts |-> {}, batches |-> MCBatches, options |-> MCIngestOptions]
     ELSE [texts |-> {t \in MCTexts : t.params = 0}, batches |-> {MCWhole},
           options |-> {MCOption("unset", "replace", "unset")}]]

MCScenarios == {MCSql, MCIngest}
=============================================================================
