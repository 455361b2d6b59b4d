----------------------------- MODULE DatasetImport -----------------------------
(***************************************************************************)
(* importers.py: the twelve archives become one database, or none.  A      *)
(* dataset gives each table its header and its rows, the cells in the      *)
(* order of the definition.  A cell is <<"int", n>>, <<"text", word>>,     *)
(* <<"bool", b>>, <<"rgb">>, <<"empty">>, or <<"missing">> where the row   *)
(* is too short.  Rows are in the order in which the table keeps them.     *)
(***************************************************************************)
EXTENDS Integers, SequencesExt, Functions

CONSTANTS
  None,
  BatchSize    \* how many rows are inserted at once: 5,000

Tables == <<"themes", "colors", "part_categories", "parts", "part_relationships",
            "elements", "sets", "minifigs", "inventories", "inventory_parts",
            "inventory_sets", "inventory_minifigs">>

(* DATASETS: the columns of each table and what a cell is converted to. *)
Columns ==
  [themes             |-> <<<<"id", "integer">>, <<"name", "text">>,
                            <<"parent_id", "integer?">>>>,
   colors             |-> <<<<"id", "integer">>, <<"name", "text">>, <<"rgb", "rgb">>,
                            <<"is_trans", "boolean">>, <<"num_parts", "quantity">>,
                            <<"num_sets", "quantity">>, <<"y1", "integer?">>,
                            <<"y2", "integer?">>>>,
   part_categories    |-> <<<<"id", "integer">>, <<"name", "text">>>>,
   parts              |-> <<<<"part_num", "text">>, <<"name", "text">>,
                            <<"part_cat_id", "integer">>, <<"part_material", "text">>>>,
   part_relationships |-> <<<<"rel_type", "text">>, <<"child_part_num", "text">>,
                            <<"parent_part_num", "text">>>>,
   elements           |-> <<<<"element_id", "text">>, <<"part_num", "text">>,
                            <<"color_id", "integer">>, <<"design_id", "text">>>>,
   sets               |-> <<<<"set_num", "text">>, <<"name", "text">>, <<"year", "integer">>,
                            <<"theme_id", "integer">>, <<"num_parts", "quantity">>,
                            <<"img_url", "text?">>>>,
   minifigs           |-> <<<<"fig_num", "text">>, <<"name", "text">>,
                            <<"num_parts", "quantity">>, <<"img_url", "text?">>>>,
   inventories        |-> <<<<"id", "integer">>, <<"version", "integer">>,
                            <<"set_num", "text">>>>,
   inventory_parts    |-> <<<<"inventory_id", "integer">>, <<"part_num", "text">>,
                            <<"color_id", "integer">>, <<"quantity", "quantity">>,
                            <<"is_spare", "boolean">>, <<"img_url", "text?">>>>,
   inventory_sets     |-> <<<<"inventory_id", "integer">>, <<"set_num", "text">>,
                            <<"quantity", "quantity">>>>,
   inventory_minifigs |-> <<<<"inventory_id", "integer">>, <<"fig_num", "text">>,
                            <<"quantity", "quantity">>>>]

IsCell(cell) == cell[1] \in {"rgb", "empty", "missing"} => cell = <<cell[1]>>

(* What ends an import; see RowError for what is unexpected. *)
Errors == {"schema", "import", "integrity", "unexpected"}

(* The rows of each table, with a cell for each of its columns. *)
IsDataset(dataset) ==
  /\ DOMAIN dataset = DOMAIN Columns
  /\ \A t \in DOMAIN Columns :
       LET rows == dataset[t].rows
       IN  /\ Len(rows) \in Nat /\ DOMAIN rows = 1 .. Len(rows)
           /\ \A i \in DOMAIN rows :
                DOMAIN rows[i] = DOMAIN Columns[t] /\ \A c \in DOMAIN rows[i] : IsCell(rows[i][c])

Required(table) == {Columns[table][i][1] : i \in DOMAIN Columns[table]}

Cell(table, row, column) ==
  row[CHOOSE i \in DOMAIN Columns[table] : Columns[table][i][1] = column]

(* inspect_header *)
HeaderFits(table, header) == IsInjective(header) /\ Required(table) \subseteq ToSet(header)

(* The transforms.  A text takes any cell, also the missing one.           *)
Converts(type, cell) ==
  CASE type \in {"text", "text?"} -> TRUE
    [] type = "integer"           -> cell[1] = "int"
    [] type = "integer?"          -> cell[1] \in {"int", "empty"}
    [] type = "quantity"          -> cell[1] = "int" /\ cell[2] >= 0
    [] type = "boolean"           -> cell[1] = "bool"
    [] type = "rgb"               -> cell[1] = "rgb"

Malformed(table, row) ==
  {i \in DOMAIN row : ~Converts(Columns[table][i][2], row[i])}

(* _rows: the first cell that does not convert ends the import, with its   *)
(* file and line; a missing boolean raises what nobody expects             *)
(* (AttributeError).                                                       *)
RowError(table, row) ==
  LET first == Min(Malformed(table, row))
  IN  IF Columns[table][first][2] = "boolean" /\ row[first] = <<"missing">>
        THEN "unexpected"
        ELSE "schema"

(* PRIMARY KEY: how many of the first columns identify a row; 0 for none.  *)
KeyColumns ==
  [themes |-> 1, colors |-> 1, part_categories |-> 1, parts |-> 1,
   part_relationships |-> 3, elements |-> 1, sets |-> 1, minifigs |-> 1,
   inventories |-> 1, inventory_parts |-> 0, inventory_sets |-> 0,
   inventory_minifigs |-> 0]

Key(table, row) == SubSeq(row, 1, KeyColumns[table])

(* The constraints of the schema: NOT NULL, CHECK, PRIMARY KEY.            *)
Constrained(table, rows, i) ==
  /\ \A c \in DOMAIN rows[i] :
       rows[i][c] = <<"missing">> => Columns[table][c][2] = "text?"
  /\ table = "inventories" => Cell(table, rows[i], "version")[2] >= 0
  /\ KeyColumns[table] > 0 => \A j \in 1..(i - 1) : Key(table, rows[j]) # Key(table, rows[i])

(* Rows are inserted batch by batch, as they are read: what the database   *)
(* refuses in a batch is found before what is malformed in a later one.    *)
TableError(table, data) ==
  LET rows      == data.rows
      malformed == {i \in DOMAIN rows : Malformed(table, rows[i]) # {}}
      sound     == {i \in DOMAIN rows : malformed = {} \/ i < Min(malformed)}
      read      == IF malformed = {} THEN Len(rows)
                   ELSE ((Min(malformed) - 1) \div BatchSize) * BatchSize
      refused   == {i \in sound : i <= read /\ ~Constrained(table, rows, i)}
  IN  IF ~HeaderFits(table, data.header) THEN "schema"
      ELSE IF refused # {} THEN "import"
      ELSE IF malformed # {} THEN RowError(table, rows[Min(malformed)])
      ELSE None

-----------------------------------------------------------------------------
Check(table, column, targets, optional, reported) ==
  [table |-> table, column |-> column, targets |-> targets, optional |-> optional,
   reported |-> reported]

(* The queries of validate_references: each cell of a column is a key of   *)
(* one of the tables, unless it is one of the kinds that may be left out.  *)
References ==
  {Check("themes", "parent_id", {<<"themes", "id">>}, {"empty"}, "parent_id"),
   Check("parts", "part_cat_id", {<<"part_categories", "id">>}, {}, "part_num"),
   Check("part_relationships", "child_part_num", {<<"parts", "part_num">>}, {},
         "child_part_num"),
   Check("part_relationships", "parent_part_num", {<<"parts", "part_num">>}, {},
         "parent_part_num"),
   Check("elements", "part_num", {<<"parts", "part_num">>}, {}, "element_id"),
   Check("elements", "color_id", {<<"colors", "id">>}, {"negative"}, "element_id"),
   Check("sets", "theme_id", {<<"themes", "id">>}, {}, "set_num"),
   Check("inventories", "set_num", {<<"sets", "set_num">>, <<"minifigs", "fig_num">>}, {},
         "set_num"),
   Check("inventory_parts", "inventory_id", {<<"inventories", "id">>}, {}, "inventory_id"),
   Check("inventory_parts", "part_num", {<<"parts", "part_num">>}, {}, "part_num"),
   Check("inventory_parts", "color_id", {<<"colors", "id">>}, {"negative"}, "color_id"),
   Check("inventory_sets", "set_num", {<<"sets", "set_num">>}, {}, "set_num"),
   Check("inventory_minifigs", "fig_num", {<<"minifigs", "fig_num">>}, {}, "fig_num"),
   Check("inventory_sets", "inventory_id", {<<"inventories", "id">>}, {}, "inventory_id"),
   Check("inventory_minifigs", "inventory_id", {<<"inventories", "id">>}, {},
         "inventory_id")}

Values(dataset, target) ==
  {Cell(target[1], dataset[target[1]].rows[i], target[2]) :
     i \in DOMAIN dataset[target[1]].rows}

(* Mutant: the identifier 0 counts as left out. *)
OptionalZero(kinds, cell) == kinds # {} /\ (cell[1] \in kinds \/ cell = <<"int", 0>>)

Optional(kinds, cell) ==
  \/ cell[1] \in kinds
  \/ "negative" \in kinds /\ cell[1] = "int" /\ cell[2] < 0

Dangles(dataset, check, row) ==
  LET cell == Cell(check.table, row, check.column)
  IN  /\ ~Optional(check.optional, cell)
      /\ \A target \in check.targets : cell \notin Values(dataset, target)

(* A check reports the first row that fails it, by one of its columns, and *)
(* a report that is the empty text counts as none.                         *)
Fails(dataset, check) ==
  LET rows     == dataset[check.table].rows
      dangling == {i \in DOMAIN rows : Dangles(dataset, check, rows[i])}
  IN  /\ dangling # {}
      /\ Cell(check.table, rows[Min(dangling)], check.reported) # <<"empty">>

ReferencesHold(dataset) == \A check \in References : ~Fails(dataset, check)

(***************************************************************************)
(* import_catalog: one transaction.  A database that fails before the      *)
(* commit fails the import; after it the catalog stands.                   *)
(***************************************************************************)
ImportCatalog(dataset, fault) ==
  LET bad == {i \in DOMAIN Tables : TableError(Tables[i], dataset[Tables[i]]) # None}
      Stopped(error) == [outcome |-> error, tables |-> None]
  IN  IF bad # {} THEN Stopped(TableError(Tables[Min(bad)], dataset[Tables[Min(bad)]]))
      ELSE IF ~ReferencesHold(dataset) THEN Stopped("integrity")
      ELSE IF fault = "commit" THEN Stopped("import")
      ELSE [outcome |-> "imported",
            tables  |-> [t \in DOMAIN dataset |-> dataset[t].rows]]
================================================================================
