-------------------------------- MODULE Search --------------------------------
(***************************************************************************)
(* search.py: one page of the documents that match a query.  A document    *)
(* has a kind, an id (both numbers in the order of their names), a theme,  *)
(* a year, a category, a material and a number of parts, as far as its     *)
(* kind has them, and the ways in which it matches the text of the query.  *)
(***************************************************************************)
EXTENDS Integers, SequencesExt, Orders

CONSTANTS None, MaxTraversalDepth

LOCAL Themes == INSTANCE PartRelations

(* The ways to match, best first. *)
Tiers == <<"canonical_id", "external_id", "id_prefix", "name", "name_prefix", "words",
           "part_of_name">>

(* There is one document of each kind and id (build_search_index). *)
IsIndex(documents) ==
  /\ IsFiniteSet(documents)
  /\ \A d \in documents :
       d.kind \in Nat /\ d.id \in Nat /\ d.matches \subseteq ToSet(Tiers)
  /\ \A d, e \in documents : d.kind = e.kind /\ d.id = e.id => d = e

(* The tier of a match is the best way; without a text all are in the      *)
(* last.                                                                   *)
Tier(query, document) ==
  IF query.text
    THEN Min({i \in DOMAIN Tiers : Tiers[i] \in document.matches})
    ELSE Len(Tiers)

(* The search is refused before it asks anything. *)
NoFilters ==
  [year_from |-> None, year_to |-> None, min_parts |-> None, max_parts |-> None,
   category |-> None, material |-> None, theme |-> None, subthemes |-> FALSE]

Invalid(query) ==
  \/ query.limit \notin 1..1000
  \/ query.offset < 0
  \/ query.filters.subthemes /\ query.filters.theme = None
  \/ ~query.text /\ query.kinds = None /\ query.filters = NoFilters

(* A bound on a field that a document does not have leaves it out. *)
Between(from, to, value) ==
  /\ from # None => value # None /\ value >= from
  /\ to # None => value # None /\ value <= to

InTheme(themes, filters, theme) ==
  \/ filters.theme = None
  \/ theme = filters.theme /\ (filters.subthemes => theme \in DOMAIN themes)
  \/ /\ filters.subthemes
     /\ filters.theme \in DOMAIN themes
     /\ Contains(Themes!Descendants(themes, filters.theme), theme)

(* No kinds, and an empty set of kinds, stand for all of them. *)
Matches(themes, query, document) ==
  /\ query.kinds \in {None, {}} \/ document.kind \in query.kinds
  /\ Between(query.filters.year_from, query.filters.year_to, document.year)
  /\ Between(query.filters.min_parts, query.filters.max_parts, document.num_parts)
  /\ query.filters.category \in {None, document.category}
  /\ query.filters.material \in {None, document.material}
  /\ InTheme(themes, query.filters, document.theme)
  /\ query.text => document.matches # {}

(* ORDER BY rank, kind, canonical_id *)
BestFirst(query, a, b) ==
  \/ Tier(query, a) < Tier(query, b)
  \/ Tier(query, a) = Tier(query, b) /\ a.kind < b.kind
  \/ Tier(query, a) = Tier(query, b) /\ a.kind = b.kind /\ a.id < b.id

Hits(themes, documents, query) ==
  Ordered({d \in documents : Matches(themes, query, d)},
          LAMBDA a, b : BestFirst(query, a, b))

(* LIMIT and OFFSET *)
Page(rows, limit, offset) ==
  LET last == IF offset + limit < Len(rows) THEN offset + limit ELSE Len(rows)
  IN  SubSeq(rows, offset + 1, last)

(* Mutant: a page past the end says that nothing matched. *)
TotalOfPage(query, hits, page) == IF page = <<>> THEN 0 ELSE Len(hits)

(* The count comes with each row; past the end it is asked for again. *)
TotalOf(query, hits, page) ==
  IF page = <<>> /\ query.offset = 0 THEN 0 ELSE Len(hits)

SearchCatalog(themes, documents, query) ==
  IF Invalid(query)
    THEN [error |-> TRUE, hits |-> <<>>, total |-> 0]
    ELSE LET hits == Hits(themes, documents, query)
             page == Page(hits, query.limit, query.offset)
         IN  [error |-> FALSE, hits |-> page, total |-> TotalOf(query, hits, page)]

(* Repository.iter: page after page, from the offset of what it has        *)
(* yielded, until one is empty.                                            *)
Iterate(rows, size) ==
  LET from[offset \in 0..Len(rows)] ==
        LET page == Page(rows, size, offset)
        IN  IF page = <<>> THEN <<>> ELSE page \o from[offset + Len(page)]
  IN  from[0]
===============================================================================
