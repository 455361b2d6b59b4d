---------------------------- MODULE CatalogQueries ----------------------------
(***************************************************************************)
(* What the library answers about one catalog: each behaviour is one       *)
(* question and its answer.  The questions are constants, so that the      *)
(* answers are compared with their definitions on every small catalog.     *)
(***************************************************************************)
EXTENDS CommandLine, Functions

CONSTANTS
  None, MaxTraversalDepth, ChunkSize, BatchSize, FormulaIds,
  BomQuestions,          \* [catalog, query]
  UsageQuestions,        \* [catalog, owner, part]
  MoldQuestions,         \* [relations, part, max_depth]
  SubstituteQuestions,   \* [relations, query]
  ThemeQuestions,        \* [themes, theme]
  MappingQuestions,      \* [parts, colors, items]
  ColorQuestions,        \* [catalog, items]
  SearchQuestions,       \* [themes, documents, query]
  FileQuestions,         \* sources of Boms
  DiffQuestions,         \* [before, after], the rows of two files
  ImportQuestions,       \* [dataset, fault]
  StatusQuestions,       \* cases of CatalogStatus
  Calls                  \* of the command line

Stock    == INSTANCE Inventories
Links    == INSTANCE PartRelations
Maps     == INSTANCE Mappings
Colors   == INSTANCE PartColors
Finder   == INSTANCE Search
Files    == INSTANCE Boms
Importer == INSTANCE DatasetImport
States   == INSTANCE CatalogStatus

ASSUME StatusAssumption ==
  /\ \A case \in StatusQuestions : case \in States!Cases
  /\ None \notin Int \cup States!Healths \cup States!Verifications

ASSUME BomAssumption ==
  /\ None \notin {"cycle", "missing"}
  /\ \A q \in BomQuestions \cup UsageQuestions : Stock!IsCatalog(q.catalog)
  /\ \A q \in BomQuestions : q.query.spares \in BOOLEAN /\ q.query.strict \in BOOLEAN

ASSUME MoldAssumption ==
  \A q \in MoldQuestions :
    Links!IsRelations(q.relations) /\ q.part \in Nat /\ q.max_depth \in Nat

ASSUME SubstituteAssumption ==
  \A q \in SubstituteQuestions :
    /\ Links!IsTable(q.relations) /\ q.query.part \in Nat
    /\ q.query.max_depth \in Nat /\ q.query.max_candidates \in Nat

ASSUME ThemeAssumption ==
  /\ MaxTraversalDepth \in Nat
  /\ \A q \in ThemeQuestions : Links!IsThemes(q.themes) /\ q.theme \in DOMAIN q.themes

ASSUME MappingAssumption ==
  \A q \in MappingQuestions :
    /\ Maps!IsOverrides(q.parts.overrides) /\ Maps!IsOverrides(q.colors.overrides)
    /\ None \notin q.parts.known
    /\ \A p \in q.parts.crosswalk \cup q.colors.crosswalk \cup q.colors.rgb \cup q.colors.name :
         p[2] # None
    /\ Len(q.items) \in Nat /\ DOMAIN q.items = 1 .. Len(q.items)

ASSUME ColorAssumption ==
  /\ ChunkSize \in Nat \ {0}
  /\ \A q \in ColorQuestions :
       /\ Len(q.items) \in Nat /\ DOMAIN q.items = 1 .. Len(q.items)
       /\ \A i \in 1 .. Len(q.items) : q.items[i].pair[1] \in Nat \cup {None}
       /\ Links!IsTable(q.catalog.relations)

ASSUME SearchAssumption ==
  \A q \in SearchQuestions :
    Finder!IsIndex(q.documents) /\ q.query.limit \in Int /\ q.query.offset \in Int

ASSUME FileAssumption ==
  /\ None \notin {"header", "AttributeError"}
  /\ FormulaIds \subseteq Int /\ \A id \in FormulaIds : -id \notin FormulaIds
  /\ \A q \in FileQuestions : Files!IsSource(q)
  /\ \A q \in DiffQuestions : Files!IsItems(q.before) /\ Files!IsItems(q.after)

ASSUME ImportAssumption ==
  /\ \A q \in ImportQuestions : Importer!IsDataset(q.dataset)
  /\ None \notin Importer!Errors

VARIABLES kind, question, answer

vars == <<kind, question, answer, commandVars>>

Init ==
  /\ answer = None
  /\ \/ kind = "bom" /\ question \in BomQuestions
     \/ kind = "usage" /\ question \in UsageQuestions
     \/ kind = "mold" /\ question \in MoldQuestions
     \/ kind = "substitutes" /\ question \in SubstituteQuestions
     \/ kind = "themes" /\ question \in ThemeQuestions
     \/ kind = "mapping" /\ question \in MappingQuestions
     \/ kind = "colors" /\ question \in ColorQuestions
     \/ kind = "search" /\ question \in SearchQuestions
     \/ kind = "file" /\ question \in FileQuestions
     \/ kind = "diff" /\ question \in DiffQuestions
     \/ kind = "import" /\ question \in ImportQuestions
     \/ kind = "status" /\ question \in StatusQuestions
     \/ kind = "command" /\ question \in Calls
  /\ IF kind = "command" THEN CommandInit(question) ELSE NoCommandInit

Answer(k, value) ==
  /\ answer = None /\ kind = k
  /\ answer' = value
  /\ UNCHANGED <<kind, question, commandVars>>

AnswerBom == Answer("bom", Stock!BillOfMaterials(question.catalog, question.query))

(* What one owner adds to usage_stats; and the inventory. *)
AnswerUsage ==
  Answer("usage",
         [regular |-> Stock!UsedIn(question.catalog, question.owner, question.part, FALSE),
          spare   |-> Stock!UsedIn(question.catalog, question.owner, question.part, TRUE),
          latest  |-> Stock!LoadInventory(question.catalog, question.owner, None)])

AnswerMold ==
  Answer("mold", [mold |-> Links!CanonicalMold(question.relations, question.part,
                                               question.max_depth)])

AnswerSubstitutes ==
  Answer("substitutes", Links!Substitutes(question.relations, question.query))

AnswerThemes ==
  Answer("themes", [lineage     |-> Links!Lineage(question.themes, question.theme),
                    descendants |-> Links!Descendants(question.themes, question.theme)])

AnswerMapping ==
  Answer("mapping", Maps!TranslateBom(question.parts, question.colors, question.items))

AnswerColors ==
  Answer("colors",
         [availability |->
            Colors!CheckPartColors(question.catalog,
                                   [i \in DOMAIN question.items |-> question.items[i].pair]),
          validation   |-> Colors!ValidateBom(question.catalog, question.items)])

AnswerSearch ==
  Answer("search", Finder!SearchCatalog(question.themes, question.documents, question.query))

AnswerFile ==
  LET bom == Files!ReadBom(question)
  IN  Answer("file", [bom |-> bom, export |-> Files!ExportBom(bom.items)])

AnswerDiff ==
  LET Items(rows) == Files!Normalize(rows).items
  IN  Answer("diff", Files!DiffBoms(Items(question.before), Items(question.after)))

AnswerImport ==
  Answer("import", Importer!ImportCatalog(question.dataset, question.fault))

(* catalog_state, with and without verify, under the lock; and a refresh. *)
AnswerStatus ==
  Answer("status",
         [verified |-> States!InspectCatalog(question, TRUE, None, States!Locked).status,
          seen     |-> States!InspectCatalog(question, FALSE, None, States!Locked).status,
          mappings |-> States!RefreshOver(question)])

Next ==
  \/ AnswerBom \/ AnswerUsage \/ AnswerMold \/ AnswerSubstitutes \/ AnswerThemes
  \/ AnswerMapping \/ AnswerColors \/ AnswerSearch \/ AnswerFile \/ AnswerDiff
  \/ AnswerImport \/ AnswerStatus
  \/ CommandNext /\ UNCHANGED <<kind, question, answer>>

Spec == Init /\ [][Next]_vars

Answered(k) == kind = k /\ answer # None

-----------------------------------------------------------------------------
(* What an owner's inventory contains, as a set of owners. *)
Contained(catalog, owner) ==
  LET id == Stock!LoadInventory(catalog, owner, None)
  IN  IF id = None THEN {} ELSE {item.owner : item \in ToSet(catalog[id].contains)}

(* What is in an owner, at any depth; itself, if it is in a cycle. *)
Below(catalog, owner) ==
  LET n == Cardinality(Stock!Owners(catalog))
      reach[k \in 0..n] ==
        Contained(catalog, owner) \cup
        (IF k = 0 THEN {} ELSE UNION {Contained(catalog, o) : o \in reach[k - 1]})
  IN  reach[n]

(* How many copies of an owner the root has in all, counted backwards from *)
(* the owner over what contains it.                                        *)
CopiesOf(catalog, root, owner) ==
  LET all == Stock!Owners(catalog) \cup {root}
      QuantityIn(holder, o) ==
        LET id == Stock!LoadInventory(catalog, holder, None)
        IN  IF id = None THEN 0
            ELSE Stock!Total(catalog[id].contains, LAMBDA item : item.owner = o)
      copies[n \in 0..Cardinality(all)] ==
        [o \in all |->
           (IF o = root THEN 1 ELSE 0) +
           (IF n = 0 THEN 0
            ELSE SumFunction([holder \in all |-> QuantityIn(holder, o) * copies[n - 1][holder]]))]
  IN  copies[Cardinality(all)][owner]

CopiesCounted ==
  LET catalog == question.catalog
      root    == question.query.owner
      InBom(part)   == Stock!Total(answer.found, LAMBDA f : f.part = part)
      Direct(o, part) ==
        LET id == Stock!LoadInventory(catalog, o, None)
        IN  IF id = None THEN 0
            ELSE Stock!Amount(catalog[id].lines, part, FALSE) +
                 (IF question.query.spares
                    THEN Stock!Amount(catalog[id].lines, part, TRUE) ELSE 0)
      parts == UNION {{line.part : line \in ToSet(catalog[i].lines)} : i \in DOMAIN catalog}
  IN  \A part \in parts :
        InBom(part) =
          SumFunction([o \in Stock!Owners(catalog) \cup {root} |->
                         CopiesOf(catalog, root, o) * Direct(o, part)])

UsageCounted ==
  LET catalog == question.catalog
      bom     == Stock!BillOfMaterials(catalog, [owner  |-> question.owner,
                                                 spares |-> TRUE, strict |-> FALSE])
      plain   == \A i, j \in DOMAIN catalog :
                   catalog[i].owner = question.owner =>
                     /\ catalog[i].contains = <<>>
                     /\ catalog[j].owner = question.owner /\ i # j =>
                          catalog[i].version # catalog[j].version
  IN  plain =>
        answer.regular + answer.spare =
          Stock!Total(bom.found, LAMBDA f : f.part = question.part)

(***************************************************************************)
(* A bill of materials counts each part as often as the sets and minifigs  *)
(* it is in are contained, however they are nested and shared: the sum of  *)
(* what the paths contribute is the sum over the owners of copies times    *)
(* quantity (inventory.py, expand and its inventory_cache).  What          *)
(* usage_stats counts in the inventories of an owner is the same, if it    *)
(* contains no other owner and no two inventories share the version.       *)
(***************************************************************************)
BomCountsCopies ==
  /\ Answered("bom") /\ answer.error = None => CopiesCounted
  /\ Answered("usage") => UsageCounted

(***************************************************************************)
(* The expansion ends, with an error exactly when an owner at or below the *)
(* root contains itself, when the root has no inventory, or, if it is      *)
(* strict, when anything below has none; otherwise the owners without one  *)
(* are the skipped ones (InventoryCycleError, InventoryNotFoundError).     *)
(***************************************************************************)
BomFailsOnCycles ==
  Answered("bom") =>
    LET catalog == question.catalog
        root    == question.query.owner
        below   == Below(catalog, root) \cup {root}
        cyclic  == \E o \in below : o \in Below(catalog, o)
        without == {o \in below : Stock!LoadInventory(catalog, o, None) = None}
    IN  /\ answer.error # None <=>
             cyclic \/ root \in without \/ (question.query.strict /\ without # {})
        /\ answer.error = "cycle" => cyclic
        /\ answer.error = None => {Last(path) : path \in ToSet(answer.skipped)} = without

-----------------------------------------------------------------------------
(* The parts on the way up from a part, itself included, to the least      *)
(* parent each time.                                                       *)
Upwards(relations, part, steps) ==
  LET at[n \in 0..steps] ==
        IF n = 0 THEN part
        ELSE LET parents == Links!MoldParents(relations, at[n - 1])
             IN  IF parents = {} THEN at[n - 1] ELSE Min(parents)
  IN  {at[n] : n \in 0..steps}

(***************************************************************************)
(* The canonical mold of a part is the one without parents on the way up,  *)
(* or, when the way up runs into a cycle, the least part on it, those that *)
(* lead to the cycle included; none is found exactly when max_depth parts  *)
(* after the first are all new.  It is canonical itself, and parts that    *)
(* lead to each other have the same one, whichever the question is about   *)
(* (canonical_mold's docstring: "their deterministic canonical endpoint"). *)
(***************************************************************************)
MoldsAgree ==
  Answered("mold") =>
    LET depth == question.max_depth
        up    == Upwards(question.relations, question.part, depth)
        roots == {part \in up : Links!MoldParents(question.relations, part) = {}}
        Mold(part) == Links!CanonicalMold(question.relations, part, depth)
    IN  /\ answer.mold = None <=> Cardinality(up) > depth
        /\ answer.mold # None =>
             /\ answer.mold \in IF roots # {} THEN roots ELSE {Min(up)}
             /\ Mold(answer.mold) = answer.mold
             /\ \A other \in up :
                  question.part \in Upwards(question.relations, other, depth) =>
                    Mold(other) = answer.mold

(* The parts that are n steps away, and no nearer, over what is offered. *)
Distance(relations, query) ==
  LET Steps(part) ==
        {Links!Other(r, part) :
           r \in {q \in relations :
                    /\ Links!Offered(query, q)
                    /\ \/ query.direction # "children" /\ q.child = part
                       \/ query.direction # "parents" /\ q.parent = part}}
      ring[n \in 0..query.max_depth] ==
        IF n = 0 THEN {query.part}
        ELSE (UNION {Steps(part) : part \in ring[n - 1]}) \ UNION {ring[m] : m \in 0..(n - 1)}
  IN  ring

(***************************************************************************)
(* Substitutes come nearest first, each once and by a shortest path over   *)
(* the relations that were asked for; all of them within max_depth, or the *)
(* nearest max_candidates (Session.substitutes).                           *)
(***************************************************************************)
SubstitutesNearest ==
  Answered("substitutes") =>
    LET query == question.query
        ring  == Distance(question.relations, query)
        found == {e.candidate : e \in ToSet(answer)}
        all   == UNION {ring[n] : n \in 1..query.max_depth}
        Far(e) == Len(e.path) - 1
    IN  /\ \A i, j \in DOMAIN answer :
             i < j => /\ Far(answer[i]) <= Far(answer[j])
                      /\ answer[i].candidate # answer[j].candidate
        /\ \A e \in ToSet(answer) : e.candidate \in ring[Far(e)] /\ Last(e.path) = e.candidate
        /\ found \subseteq all
        /\ found = all \/ (/\ Len(answer) = query.max_candidates
                           /\ \A part \in all \ found : answer # <<>> =>
                                part \notin UNION {ring[n] : n \in 1..(Far(Last(answer)) - 1)})

(* The themes from which a theme is so many parents away. *)
Level(themes, theme) ==
  LET level[n \in 0..MaxTraversalDepth] ==
        IF n = 0 THEN {theme} ELSE {t \in DOMAIN themes : themes[t] \in level[n - 1]}
  IN  level

(***************************************************************************)
(* Walks over the themes end also where parents form a cycle: the lineage  *)
(* goes from ancestor to theme, and further up only if there is no parent, *)
(* if it is in the lineage already or beyond MaxTraversalDepth; and the    *)
(* descendants are the themes below, as far as MaxTraversalDepth reaches;  *)
(* each of them once (traversal.py).                                       *)
(***************************************************************************)
ThemesOnce ==
  Answered("themes") =>
    LET themes == question.themes
        level  == Level(themes, question.theme)
    IN  /\ IsInjective(answer.lineage)
        /\ Last(answer.lineage) = question.theme
        /\ \A i \in 1..(Len(answer.lineage) - 1) :
             themes[answer.lineage[i + 1]] = answer.lineage[i]
        /\ \/ Len(answer.lineage) = MaxTraversalDepth + 1
           \/ themes[Head(answer.lineage)] \notin DOMAIN themes \ ToSet(answer.lineage)
        /\ IsInjective(answer.descendants)
        /\ ToSet(answer.descendants) =
             (UNION {level[n] : n \in 1..MaxTraversalDepth}) \ {question.theme}

-----------------------------------------------------------------------------
PartsByUser ==
  \A o \in question.parts.overrides :
    LET match == Maps!Resolve(question.parts, "ldraw", o[1],
                              Maps!ResolveLDrawPart(question.parts, o[1]))
    IN  /\ match.target = o[2]
        /\ o[1] \in Maps!FindCandidates(Maps!ResolveRebrickablePart(question.parts, o[2]))
        /\ o[1] \in Maps!ExternalIds(question.parts, match)

ColorsByUser ==
  \A o \in question.colors.overrides :
    LET back == Maps!ResolveRebrickableColor(question.colors, o[2])
    IN  Maps!From(question.colors.overrides, o[2]) = {o[1]} =>
          Maps!FindCandidates(back) = {o[1]}

RowHonest(item, row) ==
  /\ \A o \in question.parts.overrides : o[1] = item.part => row.part = o[2]
  /\ \A o \in question.colors.overrides : o[1] = item.color => row.color = o[2]
  /\ row.status = "resolved" <=> None \notin {row.part, row.color}

(***************************************************************************)
(* What the user says decides: an override of a code gives its target, and *)
(* the target leads back to the code; for colours, when it is the only one *)
(* for the target (docs/ldraw-bridge.md, the order of the strategies).  In *)
(* a translated bill of materials an overridden part or colour has its     *)
(* target, a row is called resolved just when it has both identifiers, and *)
(* each row is counted under one status (translate_bom).                   *)
(***************************************************************************)
OverridesDecide ==
  Answered("mapping") =>
    /\ PartsByUser /\ ColorsByUser
    /\ \A i \in DOMAIN question.items : RowHonest(question.items[i], answer.rows[i])
    /\ answer.resolved + answer.ambiguous + answer.unresolved = Len(question.items)

(***************************************************************************)
(* A batch gives each item what a check of that item alone would give,     *)
(* wherever it falls in the chunks of the queries.                         *)
(***************************************************************************)
PartColorsPerItem ==
  Answered("colors") =>
    \A i \in DOMAIN question.items :
      answer.availability[i] = Colors!CheckPartColor(question.catalog, question.items[i].pair)

(***************************************************************************)
(* Validation proposes substitutes only for an item that does not exist in *)
(* its colour while some directly related part does.  Each exists in the   *)
(* colour and is at most four relations away, by relations that are not    *)
(* those of prints and patterns.  Unless there are more such parts than    *)
(* the search takes, every one that exists is proposed; and unless the     *)
(* search is filled by those one relation away, one is, if any of these    *)
(* exists (validate_bom, substitutes).                                     *)
(***************************************************************************)
ValidationHonest ==
  Answered("colors") =>
    LET catalog    == question.catalog
        Query(row) == [part |-> row.pair[1], direction |-> "both", molds |-> TRUE,
                       prints |-> FALSE, max_depth |-> 4, max_candidates |-> 100]
        Ring(row)     == Distance(catalog.relations, Query(row))
        Around(row)   == UNION {Ring(row)[n] : n \in 1..4}
        Missing(row)  == Colors!Complete(row.pair) /\ ~Colors!Exists(catalog, row.pair)
        Proposed(row) == {e.candidate : e \in ToSet(row.substitutions)}
        Fitting(row, parts) == {p \in parts : Colors!Exists(catalog, <<p, row.pair[2]>>)}
    IN  \A row \in ToSet(answer.validation.rows) :
          IF Missing(row) /\ Colors!RelatedExists(catalog, row.pair)
            THEN /\ Proposed(row) \subseteq Fitting(row, Around(row))
                 /\ Cardinality(Around(row)) <= 100 =>
                      Proposed(row) = Fitting(row, Around(row))
                 /\ /\ Cardinality(Ring(row)[1]) <= 100
                    /\ Fitting(row, Ring(row)[1]) # {}
                    => Proposed(row) # {}
            ELSE row.substitutions = <<>>

-----------------------------------------------------------------------------
(***************************************************************************)
(* Pages of a search fit together: each is its part of the one ordered     *)
(* list of what matches, so many hits after its first one as the offset    *)
(* says; each, also an empty one past the end, knows how many there are in *)
(* all; and page after page gives all of them.                             *)
(***************************************************************************)
SearchPages ==
  Answered("search") /\ ~answer.error =>
    LET query    == question.query
        matching == {d \in question.documents : Finder!Matches(question.themes, query, d)}
        Before(hit) == {d \in matching : Finder!BestFirst(query, d, hit)}
        whole    == Finder!Hits(question.themes, question.documents, query)
    IN  /\ answer.total = Cardinality(matching)
        /\ Len(answer.hits) <= query.limit
        /\ Len(answer.hits) = query.limit \/ query.offset + Len(answer.hits) >= answer.total
        /\ \A i \in DOMAIN answer.hits :
             /\ answer.hits[i] \in matching
             /\ Cardinality(Before(answer.hits[i])) = query.offset + i - 1
        /\ Finder!Iterate(whole, query.limit) = whole /\ ToSet(whole) = matching

(***************************************************************************)
(* No piece gets lost between the rows of a file and the items: each part  *)
(* and colour has the sum of its rows, once, and the keys with several     *)
(* rows are the reported ones; a difference, added to the old quantities,  *)
(* gives the new ones (Bom.normalize, Bom.diff).                           *)
(***************************************************************************)
QuantitiesKept ==
  /\ Answered("file") /\ answer.bom.error = None =>
       LET items == answer.bom.items
       IN  /\ Files!TotalQuantity(items) = Files!TotalQuantity(question.rows)
           /\ \A i, j \in DOMAIN items : i < j => Files!KeyBefore(Files!KeyOf(items[i]),
                                                                  Files!KeyOf(items[j]))
           /\ Len(items) < Len(question.rows) <=> answer.bom.duplicates # <<>>
  /\ Answered("diff") =>
       \A row \in ToSet(question.before \o question.after) :
         LET key   == Files!KeyOf(row)
             delta == IF key \in DOMAIN answer
                        THEN answer[key].after - answer[key].before ELSE 0
         IN  Files!QuantityOf(question.before, key) + delta =
               Files!QuantityOf(question.after, key)

(***************************************************************************)
(* An export has no cell that a spreadsheet would take for a formula, and  *)
(* reading it back gives the same items, but for the identifiers that were *)
(* escaped (to_rebrickable_csv, from_rebrickable_csv).                     *)
(***************************************************************************)
ExportsReadBack ==
  Answered("file") /\ answer.export # None =>
    LET back == Files!ReadBom(answer.export).items
    IN  /\ \A row \in ToSet(answer.export.rows) : row.part \notin FormulaIds
        /\ (\A item \in ToSet(answer.bom.items) : item.part[2] \notin FormulaIds) =>
             back = answer.bom.items

-----------------------------------------------------------------------------
(* What refers to what in a catalog, one by one. *)
ForeignKeys ==
  {<<"parts", "part_cat_id", "part_categories", "id">>,
   <<"part_relationships", "child_part_num", "parts", "part_num">>,
   <<"part_relationships", "parent_part_num", "parts", "part_num">>,
   <<"elements", "part_num", "parts", "part_num">>,
   <<"sets", "theme_id", "themes", "id">>,
   <<"inventory_parts", "part_num", "parts", "part_num">>,
   <<"inventory_parts", "inventory_id", "inventories", "id">>,
   <<"inventory_sets", "set_num", "sets", "set_num">>,
   <<"inventory_sets", "inventory_id", "inventories", "id">>,
   <<"inventory_minifigs", "fig_num", "minifigs", "fig_num">>,
   <<"inventory_minifigs", "inventory_id", "inventories", "id">>}

Cells(table, column) ==
  {Importer!Cell(table, row, column) : row \in ToSet(answer.tables[table])}

(* The columns that identify an entity by a text. *)
Identifiers == {"part_num", "child_part_num", "parent_part_num", "element_id", "set_num",
                "fig_num"}

NoEmptyIdentifier ==
  \A t \in DOMAIN answer.tables : \A column \in Identifiers \cap Importer!Required(t) :
    <<"empty">> \notin Cells(t, column)

(***************************************************************************)
(* In a catalog that was imported every reference has its target: the      *)
(* twelve files, each sound by itself, belong together.  Optional are the  *)
(* parent of a theme and the colours below 0.  Files with empty            *)
(* identifiers are left out (see ReferencesPass).                          *)
(***************************************************************************)
ImportedSound ==
  Answered("import") /\ answer.outcome = "imported" /\ NoEmptyIdentifier =>
    /\ \A key \in ForeignKeys : Cells(key[1], key[2]) \subseteq Cells(key[3], key[4])
    /\ Cells("themes", "parent_id") \subseteq Cells("themes", "id") \cup {<<"empty">>}
    /\ \A cell \in Cells("elements", "color_id") \cup Cells("inventory_parts", "color_id") :
         cell \in Cells("colors", "id") \/ cell[2] < 0
    /\ Cells("inventories", "set_num") \subseteq
         Cells("sets", "set_num") \cup Cells("minifigs", "fig_num")

(***************************************************************************)
(* The active pointer changes only after "schema, cross-file reference,    *)
(* FTS, row-count, and SQLite integrity" checks pass (README.md): in an    *)
(* imported catalog no reference is without its target.                    *)
(***************************************************************************)
ReferencesPass ==
  Answered("import") /\ answer.outcome = "imported" =>
    \A key \in ForeignKeys : Cells(key[1], key[2]) \subseteq Cells(key[3], key[4])

-----------------------------------------------------------------------------
(***************************************************************************)
(* A refresh keeps the cached mappings of the catalog it replaces exactly  *)
(* if the database is sound when it holds the lock, after the rollback of  *)
(* a hot journal if need be, and has the identity that the manifest says,  *)
(* whatever a verification before the download found; and what it cannot   *)
(* read for the moment stops it (docs/migration-1.1.md: "Operational       *)
(* access or storage failures abort refresh rather than discarding a       *)
(* potentially healthy cache").                                            *)
(***************************************************************************)
MappingsKept ==
  Answered("status") =>
    LET case   == question
        db     == States!Db(case, States!Locked)
        Sound  == "healthy" \in {db.health, IF db.health = "hot" THEN db.recovers ELSE None}
        agrees == case.pointer = "escaping" \/
                    States!Eligibility(case.manifest) \in {None, db.identity}
        Broken == \/ case.pointer \in {"failing", "oversized"}
                  \/ case.pointer = "snapshot" /\
                       (case.manifest.file = "failing" \/ States!Db(case, 2).health = "failing")
                  \/ States!ActivationKnown(case) /\ case.contained /\
                       "failing" \in {db.health, IF db.health = "hot" THEN db.recovers ELSE None}
    IN  /\ answer.mappings = "carried" <=>
             ~Broken /\ States!ActivationKnown(case) /\ case.contained /\ Sound /\ agrees
        /\ answer.mappings = "aborted" => Broken
        /\ answer.verified = "ready" =>
             answer.seen = "ready" /\ (answer.mappings = "carried" \/ Broken)
================================================================================
