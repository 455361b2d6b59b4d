----------------------------- MODULE Inventories -----------------------------
(***************************************************************************)
(* catalog/inventory.py and the inventory queries of catalog/queries.py.   *)
(*                                                                         *)
(* A catalog is a function from inventory ids to records: the owner (a set *)
(* or a minifig), the version, the lines (part, quantity, spare or not)    *)
(* and the contained owners with their quantities, both in the order of    *)
(* the queries.  A part stands for a part in a colour.                     *)
(***************************************************************************)
EXTENDS Integers, SequencesExt

CONSTANT None

IsCatalog(catalog) ==
  /\ IsFiniteSet(DOMAIN catalog) /\ DOMAIN catalog \subseteq Int
  /\ \A i \in DOMAIN catalog :
       /\ catalog[i].version \in Nat
       /\ catalog[i].lines \in Seq([part : Nat, quantity : Nat, spare : BOOLEAN])
       /\ catalog[i].contains \in Seq([owner : Nat, quantity : Nat])

(* The latest_inventories view: all the inventories of the owner that have *)
(* its highest version.                                                    *)
LatestInventories(catalog, owner) ==
  LET own == {i \in DOMAIN catalog : catalog[i].owner = owner}
  IN  {i \in own : \A j \in own : catalog[j].version <= catalog[i].version}

(* load_inventory: of the latest inventories, or of those with the version *)
(* that was asked for, the one with the highest id.                        *)
LoadInventory(catalog, owner, version) ==
  LET ids == IF version = None
               THEN LatestInventories(catalog, owner)
               ELSE {i \in DOMAIN catalog :
                       catalog[i].owner = owner /\ catalog[i].version = version}
  IN  IF ids = {} THEN None ELSE Max(ids)

Total(lines, Counts(_)) ==
  SumFunctionOnSet([i \in DOMAIN lines |-> lines[i].quantity],
                   {i \in DOMAIN lines : Counts(lines[i])})

Amount(lines, part, spare) ==
  Total(lines, LAMBDA line : line.part = part /\ line.spare = spare)

(* usage_stats: how many of a part the latest inventories of an owner      *)
(* have, spares counted apart; it adds this up over the owners.            *)
UsedIn(catalog, owner, part, spare) ==
  SumFunction([i \in LatestInventories(catalog, owner) |->
                 Amount(catalog[i].lines, part, spare)])

-----------------------------------------------------------------------------
(* What an expansion has found so far: contributions and skipped owners,   *)
(* each with its path, or the error that ended it.                         *)
Nothing   == [error |-> None, found |-> <<>>, skipped |-> <<>>]
Failed(e) == [Nothing EXCEPT !.error = e]

Join(first, second) ==
  IF second.error # None
    THEN second
    ELSE [first EXCEPT !.found = @ \o second.found, !.skipped = @ \o second.skipped]

Contributions(lines, n, path, spares) ==
  FoldLeft(LAMBDA found, line :
             IF line.spare /\ ~spares
               THEN found
               ELSE Append(found, [part |-> line.part, quantity |-> n * line.quantity,
                                   path |-> path]),
           <<>>, lines)

(* Mutant: an owner within itself is left out. *)
CycleIgnored == Nothing

InventoryCycle    == Failed("cycle")
InventoryNotFound == Failed("missing")

(* Mutant: the quantity of the innermost owner counts, not the product. *)
CopiesOfOne(n, item) == item.quantity

Copies(n, item) == n * item.quantity

(***************************************************************************)
(* bill_of_materials: each owner contributes its lines times its           *)
(* multiplier and expands what it contains.  An owner that is in its own   *)
(* path ends it; one without an inventory ends it if it is the first or    *)
(* the expansion is strict, and is listed as skipped otherwise.            *)
(***************************************************************************)
Owners(catalog) ==
  {catalog[i].owner : i \in DOMAIN catalog} \cup
  UNION {{item.owner : item \in ToSet(catalog[i].contains)} : i \in DOMAIN catalog}

Call(owner, copies, path) == [owner |-> owner, copies |-> copies, path |-> path]

(* One call of expand, given the results of those it makes. *)
ExpandOwner(catalog, query, expand, call) ==
  LET here == Append(call.path, call.owner)
      id   == LoadInventory(catalog, call.owner, None)
  IN  IF Contains(call.path, call.owner) THEN InventoryCycle
      ELSE IF id = None
        THEN IF query.strict \/ call.path = <<>>
               THEN InventoryNotFound
               ELSE [Nothing EXCEPT !.skipped = <<here>>]
      ELSE FoldLeft(LAMBDA sofar, item :
                      IF sofar.error # None THEN sofar
                      ELSE Join(sofar, expand[Call(item.owner, Copies(call.copies, item), here)]),
                    [Nothing EXCEPT !.found =
                       Contributions(catalog[id].lines, call.copies, here, query.spares)],
                    catalog[id].contains)

Expansion(catalog, query) ==
  LET owners == Owners(catalog) \cup {query.owner}
      expand[call \in [owner : owners, copies : Nat, path : Seq(owners)]] ==
        ExpandOwner(catalog, query, expand, call)
  IN  expand

BillOfMaterials(catalog, query) == Expansion(catalog, query)[Call(query.owner, 1, <<>>)]
===============================================================================
