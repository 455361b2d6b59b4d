----------------------------- MODULE PartRelations -----------------------------
(***************************************************************************)
(* Walks over the relations of a catalog: canonical molds, substitutes     *)
(* (session.py) and the theme tree (catalog/queries.py, traversal.py).     *)
(* Parts and themes are numbers, in the order of their identifiers.  A     *)
(* relation is a record of its type and the parts it relates; `themes'     *)
(* gives the parent of each theme, or None.                                *)
(***************************************************************************)
EXTENDS Integers, SequencesExt, Orders

CONSTANTS
  None,
  MaxTraversalDepth   \* MAX_TRAVERSAL_DEPTH

IsRelations(relations) == \A r \in relations : r.child \in Nat /\ r.parent \in Nat

(* The relationship types, in the order of their upstream letters A, B, M, *)
(* P, R, T.                                                                *)
RelationshipTypes == <<"alternate", "sub_part", "mold", "print", "pair", "pattern">>

Rank(type) == CHOOSE i \in DOMAIN RelationshipTypes : RelationshipTypes[i] = type

Before(a, b) ==
  \/ Rank(a.type) < Rank(b.type)
  \/ Rank(a.type) = Rank(b.type) /\ a.child < b.child
  \/ Rank(a.type) = Rank(b.type) /\ a.child = b.child /\ a.parent < b.parent

(* part_relationships: the types and both parts are its key.               *)
IsTable(relations) ==
  /\ IsFiniteSet(relations)
  /\ relations \subseteq [type : ToSet(RelationshipTypes), child : Nat, parent : Nat]

(* PartsRepository.relationships: the relations with the part at one end   *)
(* or at either, of the given types, in their order.                       *)
Relationships(relations, part, direction, types) ==
  Ordered({r \in relations :
             /\ r.type \in types
             /\ \/ direction # "children" /\ r.child = part
                \/ direction # "parents" /\ r.parent = part},
          Before)

Variants(relations, part) ==
  Relationships(relations, part, "both", {"mold", "print", "pattern", "alternate"})

(* Mutant: a cycle ends at the part that closes it. *)
CycleEntry(seen, parent) == parent

(* Of a cycle, with what leads to it, the least identifier is canonical. *)
CycleMold(seen, parent) == Min(seen)

MoldParents(relations, part) ==
  {r.parent : r \in {q \in relations : q.type = "mold" /\ q.child = part}}

(* One query: the mold is found at a part without parents or in a cycle,   *)
(* otherwise the least parent is next.                                     *)
MoldStep(relations, walk) ==
  LET parents == MoldParents(relations, walk.current)
      parent  == Min(parents)
  IN  IF walk.mold # None THEN walk
      ELSE IF parents = {} THEN [walk EXCEPT !.mold = walk.current]
      ELSE IF parent \in walk.seen THEN [walk EXCEPT !.mold = CycleMold(walk.seen, parent)]
      ELSE [mold |-> None, current |-> parent, seen |-> walk.seen \cup {parent}]

(* The walk after each number of queries. *)
MoldWalk(relations, part) ==
  LET walk[n \in Nat] ==
        IF n = 0 THEN [mold |-> None, current |-> part, seen |-> {part}]
        ELSE MoldStep(relations, walk[n - 1])
  IN  walk

(***************************************************************************)
(* PartsRepository.canonical_mold: up the mold relations, to the least     *)
(* parent each time, for at most max_depth queries.  None (an error) when  *)
(* the last query still found a parent.                                    *)
(***************************************************************************)
CanonicalMold(relations, part, max_depth) == MoldWalk(relations, part)[max_depth].mold

-----------------------------------------------------------------------------
(* Session.substitutes *)

Appearance == {"print", "pattern"}

Offered(query, r) ==
  /\ query.prints \/ r.type \notin Appearance
  /\ query.molds \/ r.type # "mold"

Other(r, part) == IF r.child = part THEN r.parent ELSE r.child

(* One row of the inner loop: a candidate that was not seen before is      *)
(* queued and becomes evidence, until there are max_candidates.            *)
Consider(query, current, state, r) ==
  LET candidate == Other(r, current.part)
      path      == Append(current.path, candidate)
  IN  IF \/ Len(state.results) >= query.max_candidates
         \/ ~Offered(query, r)
         \/ candidate \in state.seen
        THEN state
        ELSE [seen    |-> state.seen \cup {candidate},
              pending |-> Append(state.pending, [part |-> candidate, path |-> path]),
              results |-> Append(state.results,
                                 [candidate |-> candidate, type |-> r.type, path |-> path])]

(* Mutant: the newest candidate is expanded first. *)
TakeNewest(pending) == <<Last(pending), Front(pending)>>

(* deque.popleft *)
TakeNext(pending) == <<Head(pending), Tail(pending)>>

(* The oldest candidate is expanded, unless it is max_depth hops away.     *)
Expanded(relations, query, state) ==
  LET current == TakeNext(state.pending)[1]
      rest    == [state EXCEPT !.pending = TakeNext(state.pending)[2]]
      rows    == IF Len(current.path) - 1 >= query.max_depth
                   THEN <<>>
                   ELSE Relationships(relations, current.part, query.direction,
                                      ToSet(RelationshipTypes))
  IN  FoldLeft(LAMBDA s, r : Consider(query, current, s, r), rest, rows)

(***************************************************************************)
(* The traversal: breadth first from the resolved part, along relations of *)
(* the direction asked for, until no part is left or there are             *)
(* max_candidates.  A part is expanded at most once.                       *)
(***************************************************************************)
Substitutes(relations, query) ==
  LET parts == {query.part} \cup UNION {{r.child, r.parent} : r \in relations}
      after[n \in 0..Cardinality(parts)] ==
        IF n = 0
          THEN [seen    |-> {query.part},
                pending |-> <<[part |-> query.part, path |-> <<query.part>>]>>,
                results |-> <<>>]
          ELSE LET state == after[n - 1]
               IN  IF state.pending = <<>> \/ Len(state.results) >= query.max_candidates
                     THEN state
                     ELSE Expanded(relations, query, state)
  IN  after[Cardinality(parts)].results

-----------------------------------------------------------------------------
(* The theme tree: recursive queries that carry the depth and the path. *)

IsThemes(themes) ==
  /\ IsFiniteSet(DOMAIN themes) /\ DOMAIN themes \subseteq Nat
  /\ \A t \in DOMAIN themes : themes[t] \in Nat \cup {None}

(* Mutant: the path is not looked at. *)
AnyTheme(path, theme) == TRUE

(* instr(path, '/id/') = 0 *)
NotOnPath(path, theme) == ~Contains(path, theme)

(* THEME_LINEAGE_CTE: the path from a theme over its ancestors, nearest    *)
(* first, as far as each depth.                                            *)
Ancestors(themes, theme) ==
  LET path[depth \in Nat] ==
        IF depth = 0 THEN <<theme>>
        ELSE LET below  == path[depth - 1]
                 parent == themes[Last(below)]
             IN  IF parent \in DOMAIN themes /\ NotOnPath(below, parent)
                   THEN Append(below, parent) ELSE below
  IN  path

(* lineage: outermost ancestor first. *)
Lineage(themes, theme) == Reverse(Ancestors(themes, theme)[MaxTraversalDepth])

(* THEME_SUBTREE_CTE: the paths down from a theme, by depth. *)
Subtree(themes, theme) ==
  LET rows[depth \in Nat] ==
        IF depth = 0 THEN {<<theme>>}
        ELSE UNION {{Append(path, t) :
                       t \in {x \in DOMAIN themes :
                                themes[x] = Last(path) /\ NotOnPath(path, x)}} :
                      path \in rows[depth - 1]}
  IN  rows

Nearer(a, b) == Len(a) < Len(b) \/ (Len(a) = Len(b) /\ Last(a) < Last(b))

(* Every row but the theme's own. *)
Below(themes, theme) == UNION {Subtree(themes, theme)[n] : n \in 1..MaxTraversalDepth}

(* descendants: by depth and then by id. *)
Descendants(themes, theme) ==
  LET rows == Ordered(Below(themes, theme), Nearer)
  IN  [i \in DOMAIN rows |-> Last(rows[i])]
================================================================================
