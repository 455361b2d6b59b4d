--------------------------------- MODULE Boms ---------------------------------
(***************************************************************************)
(* Bills of materials as files (bom.py, exports.py).  An item is a part,   *)
(* a colour, both <<system, identifier>>, and a quantity.  Identifiers are *)
(* numbers in the order of their spellings; the number -p stands for the   *)
(* identifier p behind an apostrophe.  A cell that is no integer, or that  *)
(* is missing or empty, is None; `partless' are the rows that end before   *)
(* their part, in a file with its columns in another order.                *)
(***************************************************************************)
EXTENDS Integers, SequencesExt, Orders

CONSTANTS
  None,
  FormulaIds    \* the identifiers that begin like a formula: = + - @

(* The systems, in the order of their names. *)
Systems == <<"bricklink", "brickowl", "ldraw", "lego", "rebrickable">>

Order(system) == CHOOSE i \in DOMAIN Systems : Systems[i] = system

KeyOf(item) == <<item.part, item.color>>

IsItems(items) ==
  items \in Seq([part : ToSet(Systems) \X Int, color : ToSet(Systems) \X Int,
                 quantity : Nat \ {0}])

(* _part_color_key *)
KeyBefore(a, b) ==
  LET Ranks(key) == <<Order(key[1][1]), key[1][2], Order(key[2][1]), key[2][2]>>
  IN  \E i \in 1..4 :
        /\ Ranks(a)[i] < Ranks(b)[i]
        /\ \A j \in 1..(i - 1) : Ranks(a)[j] = Ranks(b)[j]

Item(key, quantity) == [part |-> key[1], color |-> key[2], quantity |-> quantity]

QuantityOf(items, key) ==
  FoldLeft(LAMBDA sum, item : IF KeyOf(item) = key THEN sum + item.quantity ELSE sum,
           0, items)

(* Of several items of a part and colour a dict keeps the last one. *)
LastQuantity(items, key) ==
  LET own == {i \in DOMAIN items : KeyOf(items[i]) = key}
  IN  IF own = {} THEN 0 ELSE items[Max(own)].quantity

(* Bom.total_quantity *)
TotalQuantity(items) == FoldLeft(LAMBDA sum, item : sum + item.quantity, 0, items)

RowQuantity(items, key) == QuantityOf(items, key)

Keys(items) == {KeyOf(items[i]) : i \in DOMAIN items}

Sorted(keys) == Ordered(keys, KeyBefore)

Occurrences(rows, key) == Cardinality({i \in DOMAIN rows : KeyOf(rows[i]) = key})

(* Bom.normalize: one item for each part and colour, in order, and the     *)
(* keys that had several rows.                                             *)
Normalize(rows) ==
  LET keys == Sorted(Keys(rows))
  IN  [error      |-> None,
       items      |-> [i \in DOMAIN keys |-> Item(keys[i], RowQuantity(rows, keys[i]))],
       duplicates |-> Sorted({key \in Keys(rows) : Occurrences(rows, key) > 1})]

Refused(why) == [error |-> why, items |-> <<>>, duplicates |-> <<>>]

(* The systems that a file's identifiers belong to: those the caller names *)
(* for Bom.from_csv, fixed for the other formats.                          *)
FileSystems(source) ==
  CASE source.format = "csv"           -> source.systems
    [] source.format = "bricklink_xml" -> <<"bricklink", "bricklink">>
    [] OTHER                           -> <<"rebrickable", "rebrickable">>

IsSource(source) ==
  /\ FileSystems(source) \in ToSet(Systems) \X ToSet(Systems)
  /\ source.rows \in Seq([part : Int \cup {None}, color : Int \cup {None},
                          quantity : Int \cup {None}])
  /\ \A i \in source.partless : source.rows[i].part = None

(* A CSV file names all three columns, or nothing of it is read. *)
Columns == {"part", "color", "quantity"}

(* A row makes an item if it has a part, an integer colour and a positive  *)
(* integer quantity.                                                       *)
Readable(row) == None \notin {row.part, row.color, row.quantity} /\ row.quantity > 0

(* The error that names the row; but the code of an LDraw part that is     *)
(* missing cannot be normalized, and what that raises is not caught.       *)
RowError(source, i) ==
  IF i \in source.partless /\ FileSystems(source)[1] = "ldraw" THEN "AttributeError" ELSE i

(* from_csv, from_bricklink_xml, from_rebrickable_csv *)
ReadBom(source) ==
  LET systems == FileSystems(source)
      bad     == {i \in DOMAIN source.rows : ~Readable(source.rows[i])}
      ItemOf(row) == Item(<<<<systems[1], row.part>>, <<systems[2], row.color>>>>, row.quantity)
  IN  IF source.format # "bricklink_xml" /\ ~(Columns \subseteq source.header)
        THEN Refused("header")
      ELSE IF bad # {} THEN Refused(RowError(source, Min(bad)))
      ELSE Normalize([i \in DOMAIN source.rows |-> ItemOf(source.rows[i])])

(* Mutant: cells are written as they are. *)
EscapeNothing(id) == id

(* escape_csv_formula *)
Escape(id) == IF id \in FormulaIds THEN -id ELSE id

(* to_rebrickable_csv: nothing is exported if one identifier is not        *)
(* Rebrickable's.                                                          *)
ExportBom(items) ==
  IF \E i \in DOMAIN items :
       items[i].part[1] # "rebrickable" \/ items[i].color[1] # "rebrickable"
    THEN None
    ELSE [format |-> "rebrickable_csv",
          header |-> Columns, partless |-> {},
          rows   |-> [i \in DOMAIN items |->
                        [part     |-> Escape(items[i].part[2]),
                         color    |-> items[i].color[2],
                         quantity |-> items[i].quantity]]]

(* Bom.diff: the keys whose quantity differs, with both quantities. *)
DiffBoms(before, after) ==
  LET keys == {key \in Keys(before) \cup Keys(after) :
                 LastQuantity(before, key) # LastQuantity(after, key)}
  IN  [key \in keys |-> [before |-> LastQuantity(before, key),
                         after  |-> LastQuantity(after, key)]]
===============================================================================
