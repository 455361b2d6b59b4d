------------------------------- MODULE Mappings -------------------------------
(***************************************************************************)
(* How identifiers of LDraw and of other systems are mapped to Rebrickable *)
(* ones and back: bridge/mappings.py, the resolvers of session.py and      *)
(* translate_bom.  Every resolver asks its strategies in turn; a strategy  *)
(* is a source and the identifiers it finds, `sure' if one alone decides.  *)
(*                                                                         *)
(* The evidence of a snapshot is a record of relations <<external,         *)
(* canonical>>: the user's overrides (one for each external), the cached   *)
(* crosswalk, and for colours those of equal rgb and of equal name; of the *)
(* canonical identifiers; and of the part relations.  Identifiers are      *)
(* normalised: spellings of one identifier are not told apart.             *)
(***************************************************************************)
EXTENDS Naturals, FiniteSets, Sequences, FiniteSetsExt

CONSTANT None

(* The user's overrides: one for each external identifier. *)
IsOverrides(relation) ==
  /\ IsFiniteSet(relation)
  /\ \A p \in relation : None \notin {p[1], p[2]}
  /\ \A p, q \in relation : p[1] = q[1] => p[2] = q[2]

Found(source, ids)     == [source |-> source, ids |-> ids, sure |-> TRUE]
Candidates(source, ids) == [source |-> source, ids |-> ids, sure |-> FALSE]

Unresolved == [status |-> "unresolved", target |-> None, source |-> "none",
               candidates |-> {}]

(* A match by one strategy. *)
Match(strategy) ==
  LET one == strategy.sure /\ Cardinality(strategy.ids) = 1
  IN  [status     |-> IF one THEN "resolved" ELSE "ambiguous",
       target     |-> IF one THEN CHOOSE id \in strategy.ids : TRUE ELSE None,
       source     |-> strategy.source,
       candidates |-> IF one THEN {} ELSE strategy.ids]

(* The first strategy that finds anything answers, with several candidates *)
(* if it found several.                                                    *)
FirstFound(strategies) ==
  LET finds == {i \in DOMAIN strategies : strategies[i].ids # {}}
  IN  IF finds = {} THEN Unresolved ELSE Match(strategies[Min(finds)])

(* The first strategy that finds exactly one answers; only when none does, *)
(* the first that finds several.                                           *)
FirstUnique(strategies) ==
  LET decide == {i \in DOMAIN strategies : Cardinality(strategies[i].ids) = 1}
  IN  IF decide = {} THEN FirstFound(strategies) ELSE Match(strategies[Min(decide)])

-----------------------------------------------------------------------------
To(relation, external)    == {p[2] : p \in {q \in relation : q[1] = external}}
From(relation, canonical) == {p[1] : p \in {q \in relation : q[2] = canonical}}

Related(evidence, code) ==
  UNION {{r.child, r.parent} \ {code} :
           r \in {q \in evidence.relations : code \in {q.child, q.parent}}}

(* Mutant: what the API confirmed goes before what the user said. *)
LDrawPartByApi(evidence, code) ==
  FirstFound(<<Found("api_external_id", To(evidence.crosswalk, code)),
               Found("user_override", To(evidence.overrides, code)),
               Found("exact_canonical_id", {code} \cap evidence.known),
               Candidates("relationship_candidate", Related(evidence, code))>>)

ResolveLDrawPart(evidence, code) ==
  FirstFound(<<Found("user_override", To(evidence.overrides, code)),
               Found("api_external_id", To(evidence.crosswalk, code)),
               Found("exact_canonical_id", {code} \cap evidence.known),
               Candidates("relationship_candidate", Related(evidence, code))>>)

(* The equal identifier is a candidate only: LDraw may not have it. *)
ResolveRebrickablePart(evidence, part) ==
  FirstFound(<<Found("user_override", From(evidence.overrides, part)),
               Found("api_external_id", From(evidence.crosswalk, part)),
               Candidates("exact_canonical_id", {part} \cap evidence.known)>>)

(* find_ldraw_candidates and find_ldraw_color_candidates *)
FindCandidates(match) ==
  IF match.target # None THEN {match.target} ELSE match.candidates

(* An LDraw colour may come with its rgb value and name (described), or as *)
(* its code alone.                                                         *)
ResolveLDrawColor(evidence, code, described) ==
  LET confirmed == FirstFound(<<Found("user_override", To(evidence.overrides, code)),
                                Found("api_external_id", To(evidence.crosswalk, code))>>)
  IN  IF confirmed # Unresolved \/ ~described
        THEN confirmed
        ELSE FirstUnique(<<Found("rgb", To(evidence.rgb, code)),
                           Found("name", To(evidence.name, code))>>)

ResolveRebrickableColor(evidence, color) ==
  FirstUnique(<<Found("user_override", From(evidence.overrides, color)),
                Found("api_external_id", From(evidence.crosswalk, color))>>)

(* resolve_part and resolve_color of the session: Rebrickable identifiers  *)
(* stand for themselves, those of BrickLink and others need a cached id;   *)
(* asLDraw is what the resolver of LDraw codes answers.                    *)
Resolve(evidence, system, id, asLDraw) ==
  CASE system = "ldraw"       -> asLDraw
    [] system = "rebrickable" ->
         FirstFound(<<Found("exact_canonical_id", {id} \cap evidence.known)>>)
    [] OTHER -> FirstFound(<<Found("api_external_id", To(evidence.crosswalk, id))>>)

(* external_ids: what is cached for the part that was resolved, and what   *)
(* the user maps to it.                                                    *)
ExternalIds(evidence, match) ==
  IF match.target = None
    THEN {}
    ELSE From(evidence.crosswalk, match.target) \cup From(evidence.overrides, match.target)

-----------------------------------------------------------------------------
Severity == [resolved |-> 0, ambiguous |-> 1, unresolved |-> 2]

WorseStatus(part, color) ==
  IF Severity[color.status] > Severity[part.status] THEN color.status ELSE part.status

(* translate_bom: one row for each item, its status the worse of both.     *)
TranslateRow(parts, colors, item) ==
  LET part  == ResolveLDrawPart(parts, item.part)
      color == ResolveLDrawColor(colors, item.color, item.described)
  IN  [part   |-> part.target,
       color  |-> color.target,
       status |-> WorseStatus(part, color)]

TranslateBom(parts, colors, items) ==
  LET rows == [i \in DOMAIN items |-> TranslateRow(parts, colors, items[i])]
      Count(status) == Cardinality({i \in DOMAIN rows : rows[i].status = status})
  IN  [rows       |-> rows,
       resolved   |-> Count("resolved"),
       ambiguous  |-> Count("ambiguous"),
       unresolved |-> Count("unresolved")]
===============================================================================
