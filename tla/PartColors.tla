------------------------------ MODULE PartColors ------------------------------
(***************************************************************************)
(* Whether a part exists in a colour, and the validation of a bill of      *)
(* materials (session.py).                                                 *)
(*                                                                         *)
(* A catalog is a record: `inventories' as in Inventories, where the part  *)
(* of a line is <<part, colour>>; `elements', records of an id and such a  *)
(* pair; `years', the year of each set (owners outside its domain are      *)
(* minifigs); `relations' as in PartRelations.                             *)
(***************************************************************************)
EXTENDS PartRelations

CONSTANT
  ChunkSize           \* how many items one query asks for: 300

LOCAL Stock == INSTANCE Inventories

Elements(c, pair) == {e.id : e \in {x \in c.elements : x.pair = pair}}

(* The lines of latest inventories that have the pair. *)
LatestLines(c, pair) ==
  LET latest == UNION {Stock!LatestInventories(c.inventories, c.inventories[i].owner) :
                         i \in DOMAIN c.inventories}
  IN  UNION {{[inventory |-> i, owner |-> c.inventories[i].owner,
               spare |-> c.inventories[i].lines[j].spare] :
                j \in {k \in DOMAIN c.inventories[i].lines :
                         c.inventories[i].lines[k].part = pair}} : i \in latest}

Exists(c, pair) == Elements(c, pair) # {} \/ LatestLines(c, pair) # {}

(* A related part exists in the colour, one relation away, of any type. *)
RelatedExists(c, pair) ==
  \E r \in c.relations :
    /\ pair[1] \in {r.child, r.parent}
    /\ Exists(c, <<Other(r, pair[1]), pair[2]>>)

(* What is known of one item. *)
Availability(pair, elements, lines, related) ==
  LET years == {l.year : l \in {x \in lines : x.year # None}}
  IN  [pair              |-> pair,
       available         |-> elements # {} \/ lines # {},
       elements          |-> elements,
       inventory_count   |-> Cardinality({l.inventory : l \in lines}),
       set_count         |-> Cardinality({l.owner : l \in {x \in lines : x.year # None}}),
       first_year        |-> IF years = {} THEN None ELSE Min(years),
       last_year         |-> IF years = {} THEN None ELSE Max(years),
       appears_as_spare  |-> \E l \in lines : l.spare,
       spare_only        |-> lines # {} /\ \A l \in lines : l.spare,
       relationship_only |-> related]

WithYear(c, l) ==
  [inventory |-> l.inventory, owner |-> l.owner, spare |-> l.spare,
   year |-> IF l.owner \in DOMAIN c.years THEN c.years[l.owner] ELSE None]

Complete(pair) == None \notin {pair[1], pair[2]}

(* Mutant: the rows of a query are numbered within the chunk. *)
WithinChunk(start, i) == i

InBatch(start, i) == start + i

(***************************************************************************)
(* _check_resolved_part_colors: the pairs are asked for in chunks; what a  *)
(* query finds is kept by the index of the item in the whole batch.        *)
(***************************************************************************)
CheckPartColors(c, pairs) ==
  LET starts   == {k * ChunkSize : k \in {j \in 0..Len(pairs) : j * ChunkSize < Len(pairs)}}
      Asked(start) == {i \in 1..ChunkSize :
                         start + i <= Len(pairs) /\ Complete(pairs[start + i])}
      elements == UNION {UNION {{<<InBatch(s, i), e>> : e \in Elements(c, pairs[s + i])} :
                                  i \in Asked(s)} : s \in starts}
      lines    == UNION {UNION {{<<InBatch(s, i), WithYear(c, l)>> :
                                   l \in LatestLines(c, pairs[s + i])} :
                                  i \in Asked(s)} : s \in starts}
      found    == {x[1] : x \in elements} \cup {x[1] : x \in lines}
      related  == UNION {{InBatch(s, i) : i \in {j \in Asked(s) :
                                                   /\ InBatch(s, j) \notin found
                                                   /\ RelatedExists(c, pairs[s + j])}} :
                           s \in starts}
      Of(i, rows) == IF Complete(pairs[i])
                       THEN {x[2] : x \in {y \in rows : y[1] = i}}
                       ELSE {}
  IN  [i \in DOMAIN pairs |->
         Availability(pairs[i], Of(i, elements), Of(i, lines),
                      Complete(pairs[i]) /\ i \in related)]

CheckPartColor(c, pair) == CheckPartColors(c, <<pair>>)[1]

-----------------------------------------------------------------------------
(* What Session.substitutes does unless it is told otherwise. *)
DefaultSubstitutes(part) ==
  [part |-> part, direction |-> "both", molds |-> TRUE, prints |-> FALSE,
   max_depth |-> 4, max_candidates |-> 100]

(* Mutant: every related part is offered, whether it exists or not. *)
Offering(c, color, candidates) == candidates

Usable(c, color, candidates) ==
  LET kept == Ordered({i \in DOMAIN candidates :
                         CheckPartColor(c, <<candidates[i].candidate, color>>).available},
                      LAMBDA i, j : i < j)
  IN  [k \in DOMAIN kept |-> candidates[kept[k]]]

(* Substitutes are looked for only when the batch found a related part.    *)
Substitutions(c, result) ==
  IF result.relationship_only
    THEN Usable(c, result.pair[2],
                Substitutes(c.relations, DefaultSubstitutes(result.pair[1])))
    ELSE <<>>

(* validate_bom; an item is a pair with `exact', whether its part is       *)
(* Rebrickable's, and a quantity.                                          *)
ValidateBom(c, items) ==
  LET results == CheckPartColors(c, [i \in DOMAIN items |-> items[i].pair])
      rows    == [i \in DOMAIN items |->
                    [pair          |-> items[i].pair,
                     available     |-> results[i].available,
                     exact         |-> items[i].exact,
                     spare_only    |-> results[i].spare_only,
                     substitutions |-> Substitutions(c, results[i])]]
      Count(Holds(_)) == Cardinality({i \in DOMAIN rows : Holds(rows[i])})
  IN  [rows          |-> rows,
       exact         |-> Count(LAMBDA r : r.available /\ r.exact),
       unavailable   |-> Count(LAMBDA r : ~r.available),
       substitutable |-> Count(LAMBDA r : r.substitutions # <<>>)]
===============================================================================
