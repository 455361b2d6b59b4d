------------------------- MODULE CatalogQueriesProofs -------------------------
(***************************************************************************)
(* What the library answers about a catalog, for catalogs, files and       *)
(* questions of any size.                                                  *)
(*                                                                         *)
(* A question keeps its answer (Asked), so each theorem is one about the   *)
(* operators of the answer.  What those do step by step is followed by     *)
(* induction: a set of numbers with 0 that is closed under successors has  *)
(* all of them (Induct), and steps on a set can be taken forever (Runs,    *)
(* Recursion), which gives the recursive functions of the model values.    *)
(* An element of a finite set in a strict order stands where as many come  *)
(* before it, so each place is taken (PlaceTaken) and there is one list    *)
(* (ListIs).  A walk over themes goes up one parent at a time, and two     *)
(* paths to one theme have the same length or go round a cycle (PathsMeet).*)
(***************************************************************************)
EXTENDS CatalogQueries, FiniteSetTheorems, SequenceTheorems, TLAPS

-----------------------------------------------------------------------------
LEMMA DbIs ==
  ASSUME NEW c \in States!Cases, NEW t \in Nat
  PROVE  States!Db(c, t) \in States!Databases
BY DEF States!Db, States!Cases

LEMMA SignatureIs ==
  ASSUME NEW c \in States!Cases, NEW t \in Nat
  PROVE  States!Signature(c, t) \in {1, 2} /\ States!Signature(c, t) \in Int \cup {None}
BY DEF States!Signature

LEMMA VerificationIs ==
  ASSUME NEW c \in States!Cases, NEW s \in Nat, NEW r \in Nat, NEW a \in Nat,
         NEW db, db = States!Db(c, r),
         NEW v, v = States!VerifyDatabase(c, s, r, a)
  PROVE  /\ v \in States!Verifications /\ v # None
         /\ v.status = db.health \/ (v.status = "missing" /\ \E t \in {s, a} : States!Gone(c, t))
         /\ v.status = "healthy" => v.identity = db.identity
         /\ v.signature # None => /\ v.status \notin {"hot", "failing", "missing"}
                                  /\ v.signature = States!Signature(c, a)
                                  /\ States!Signature(c, a) = States!Signature(c, s)
<1>1. db \in States!Databases
  BY DbIs
<1>2. States!Signature(c, a) \in Int \cup {None}
  BY SignatureIs
<1>3. CASE \E t \in {s, r, a} : States!Gone(c, t)
  <2>1. v = [status |-> "missing", identity |-> None, signature |-> None]
    BY <1>3 DEF States!VerifyDatabase
  <2>2. v \in States!Verifications
    BY <2>1 DEF States!Verifications, States!Healths
  <2> QED
    BY <1>3, <2>1, <2>2, StatusAssumption DEF States!Gone
<1>4. CASE ~\E t \in {s, r, a} : States!Gone(c, t)
  <2> PICK sig \in Int \cup {None} :
             sig = IF /\ db.health \notin {"hot", "failing"}
                      /\ States!Signature(c, s) = States!Signature(c, a)
                     THEN States!Signature(c, a) ELSE None
    BY <1>2
  <2>1. v = [status    |-> db.health,
             identity  |-> IF db.health = "healthy" THEN db.identity ELSE None,
             signature |-> sig]
    BY <1>4 DEF States!VerifyDatabase
  <2>2. v \in States!Verifications
    BY <2>1, <1>1 DEF States!Verifications, States!Databases, States!Healths
  <2>3. db.health # "missing"
    BY <1>4 DEF States!Gone
  <2> QED
    BY <2>1, <2>2, <2>3, StatusAssumption
<1> QED
  BY <1>3, <1>4

(* A verification says of a database what it is. *)
TrueOf(v, db) == v.status = db.health /\ (v.status = "healthy" => v.identity = db.identity)

LEMMA LockedIsTrue ==
  ASSUME NEW c \in States!Cases, NEW v, v = States!VerifyAt(c, States!Locked)
  PROVE  v \in States!Verifications /\ v # None /\ TrueOf(v, States!Db(c, States!Locked))
<1>1. States!Locked \in Nat
  BY DEF States!Locked
<1>2. v = States!VerifyDatabase(c, States!Locked, States!Locked, States!Locked)
  BY DEF States!VerifyAt
<1>3. \A t \in {States!Locked, States!Locked} :
        States!Gone(c, t) => States!Db(c, States!Locked).health = "missing"
  BY DEF States!Gone
<1> QED
  BY <1>1, <1>2, <1>3, VerificationIs DEF TrueOf

LEMMA FirstVerified ==
  ASSUME NEW c \in States!Cases, NEW v, v = States!VerifyAt(c, 1)
  PROVE  /\ v \in States!Verifications /\ v # None
         /\ v.status = "healthy" => TrueOf(v, States!Db(c, 2))
         /\ v.status = "failing" => States!Db(c, 2).health = "failing"
         /\ States!Db(c, 2).health = "failing" /\ v.status # "failing" =>
              States!Db(c, States!Locked).health \in {"missing", "failing"}
         /\ v.status = "healthy" /\ v.signature # None
              /\ v.signature = States!Signature(c, States!Locked) =>
              TrueOf(v, States!Db(c, States!Locked))
<1>1. v = States!VerifyDatabase(c, 1, 2, 3)
  BY DEF States!VerifyAt, States!Locked
<1>2. /\ v \in States!Verifications /\ v # None
      /\ v.status = States!Db(c, 2).health
           \/ (v.status = "missing" /\ \E t \in {1, 3} : States!Gone(c, t))
      /\ v.status = "healthy" => v.identity = States!Db(c, 2).identity
      /\ v.signature # None => /\ v.signature = States!Signature(c, 3)
                               /\ States!Signature(c, 3) = States!Signature(c, 1)
  BY <1>1, VerificationIs
<1>3. c.edit \in Nat
  BY DEF States!Cases
<1>4. States!Gone(c, 3) /\ States!Db(c, 2).health = "failing" =>
        States!Db(c, States!Locked).health = "missing"
  BY <1>3 DEF States!Gone, States!Db, States!Locked
<1>5. States!Gone(c, 1) /\ States!Db(c, 2).health = "failing" =>
        States!Db(c, States!Locked).health = "failing"
  BY <1>3 DEF States!Gone, States!Db, States!Locked
<1>6. States!Signature(c, 3) = States!Signature(c, 1)
        /\ States!Signature(c, 3) = States!Signature(c, States!Locked) =>
        States!Db(c, 2) = States!Db(c, States!Locked)
  BY <1>3 DEF States!Signature, States!Db, States!Locked
<1> QED
  BY <1>2, <1>4, <1>5, <1>6 DEF TrueOf

(* What an inspection at t makes of a verification. *)
Inspected(c, v, e, t, r) ==
  /\ r.identity = e
  /\ r.error <=> c.manifest.file = "failing" \/ (v # None /\ v.status = "failing")
  /\ \/ r.verification = v
     \/ /\ r.verification.status = "missing" /\ r.verification.signature = None
        /\ States!Gone(c, t)
  /\ r.status = "ready" <=>
       /\ c.manifest.file = "sound" /\ c.manifest.schema = "supported"
       /\ ~States!Gone(c, t)
       /\ v = None \/ (v.status = "healthy" /\ ~States!Ineligible(e, v))
  /\ r.status = "ready" => r.verification = v

LEMMA InspectionIs ==
  ASSUME NEW c, NEW v \in States!Verifications \cup {None}, NEW e, NEW t
  PROVE  Inspected(c, v, e, t, States!InspectSnapshot(c, v, e, t))
BY StatusAssumption DEF States!InspectSnapshot, Inspected

(* What a reader that verifies nothing yet, or a refresh, uses. *)
Source(db) == IF db.health = "hot" THEN db.recovers ELSE db.health

UsedAgain(c, v) == States!Reusable(c, v, States!Locked, TRUE)

Carried(c, i, db, m) ==
  /\ m = "carried" <=> /\ States!ActivationKnown(c) /\ c.contained
                       /\ "healthy" \in {db.health, Source(db)}
                       /\ i.identity \in {None, db.identity}
  /\ m = "aborted" <=> /\ States!ActivationKnown(c) /\ c.contained
                       /\ "failing" \in {db.health, Source(db)}

LEMMA CarryIs ==
  ASSUME NEW c \in States!Cases, NEW i, NEW db, db = States!Db(c, States!Locked),
         UsedAgain(c, i.verification) =>
           i.verification \in States!Verifications /\ TrueOf(i.verification, db)
  PROVE  Carried(c, i, db, States!CarryMappings(c, i))
<1> PICK m : m = States!CarryMappings(c, i)
  OBVIOUS
<1> PICK vl : vl = States!VerifyAt(c, States!Locked)
  OBVIOUS
<1>1. vl \in States!Verifications /\ vl # None /\ TrueOf(vl, db)
  BY LockedIsTrue
<1> PICK u : u = IF UsedAgain(c, i.verification)
                   THEN i.verification ELSE vl
  OBVIOUS
<1>2. u \in States!Verifications /\ TrueOf(u, db)
  BY <1>1
<1>3. db \in States!Databases
  BY DbIs DEF States!Locked
<1>4. m = IF ~States!ActivationKnown(c) THEN "nothing"
          ELSE IF ~c.contained THEN "skipped"
          ELSE IF u.status = "failing" THEN "aborted"
          ELSE IF States!Ineligible(i.identity, u) THEN "skipped"
          ELSE States!CopyCrosswalk(c, i.identity)
  BY DEF States!CarryMappings, UsedAgain
<1>5. States!CopyCrosswalk(c, i.identity) =
        IF Source(db) = "failing" THEN "aborted"
        ELSE IF Source(db) \in {"missing", "incompatible"} THEN "skipped"
        ELSE IF db.health = "hot" /\ Source(db) = "corrupt" THEN "skipped"
        ELSE IF i.identity \notin {None, db.identity} THEN "skipped"
        ELSE "carried"
  BY DEF States!CopyCrosswalk, Source
<1>6. States!Ineligible(i.identity, u) <=>
        \/ db.health \in {"incompatible", "missing", "corrupt"}
        \/ db.health = "healthy" /\ i.identity \notin {None, db.identity}
  BY <1>2, StatusAssumption DEF States!Ineligible, TrueOf
<1>7. u.status = db.health
  BY <1>2 DEF TrueOf
<1>8. db.health \in States!Healths /\ db.recovers \in {"healthy", "corrupt", "incompatible", "failing"}
  BY <1>3 DEF States!Databases
<1> HIDE DEF Source
<1>9. CASE db.health = "hot"
  BY <1>4, <1>5, <1>6, <1>7, <1>8, <1>9 DEF Source, Carried
<1>10. CASE db.health # "hot"
  BY <1>4, <1>5, <1>6, <1>7, <1>8, <1>10 DEF Carried, Source, States!Healths
<1> QED
  BY <1>9, <1>10

(* What stops a refresh, the identity that its manifest asks for, and what *)
(* becomes of the mappings.                                                *)
Stops(c, db) ==
  \/ c.pointer \in {"failing", "oversized"}
  \/ /\ c.pointer = "snapshot"
     /\ c.manifest.file = "failing" \/ States!Db(c, 2).health = "failing"
  \/ /\ States!ActivationKnown(c) /\ c.contained
     /\ "failing" \in {db.health, Source(db)}

Identity(c) == IF c.pointer = "snapshot" THEN States!Eligibility(c.manifest) ELSE None

Refreshed(c, db, m) ==
  /\ m = "carried" <=> /\ ~Stops(c, db) /\ States!ActivationKnown(c) /\ c.contained
                       /\ "healthy" \in {db.health, Source(db)}
                       /\ Identity(c) \in {None, db.identity}
  /\ m = "aborted" => Stops(c, db)

LEMMA RefreshIs ==
  ASSUME NEW c \in States!Cases, NEW db, db = States!Db(c, States!Locked)
  PROVE  Refreshed(c, db, States!RefreshOver(c))
<1> DEFINE stops == Stops(c, db)
           e == Identity(c)
<1> PICK m : m = States!RefreshOver(c)
  OBVIOUS
<1> SUFFICES /\ m = "carried" <=> /\ ~stops /\ States!ActivationKnown(c) /\ c.contained
                                  /\ "healthy" \in {db.health, Source(db)}
                                  /\ e \in {None, db.identity}
             /\ m = "aborted" => stops
  BY DEF Refreshed
<1> USE DEF Stops, Identity
<1> PICK first : first = States!VerifyAt(c, 1)
  OBVIOUS
<1>1. /\ first \in States!Verifications /\ first # None
      /\ first.status = "failing" => States!Db(c, 2).health = "failing"
      /\ States!Db(c, 2).health = "failing" /\ first.status # "failing" =>
           db.health \in {"missing", "failing"}
      /\ first.status = "healthy" /\ first.signature # None
           /\ first.signature = States!Signature(c, States!Locked) => TrueOf(first, db)
  BY FirstVerified
<1> PICK last : last = States!VerifyAt(c, States!Locked)
  OBVIOUS
<1>2. last \in States!Verifications /\ last # None /\ TrueOf(last, db)
  BY LockedIsTrue
<1>3. States!Locked \in Nat /\ 1 \in Nat
  BY DEF States!Locked
<1> PICK prior : prior = States!InspectCatalog(c, TRUE, None, 1)
  OBVIOUS
<1> PICK kept : kept = IF /\ c.pointer = "snapshot" /\ prior.verification # None
                          /\ prior.verification.status = "healthy"
                         THEN prior.verification ELSE None
  OBVIOUS
<1> PICK begun : begun = States!InspectCatalog(c, FALSE, kept, States!Locked)
  OBVIOUS
<1> PICK second : second = IF begun.status = "ready" /\ begun.verification = None
                             THEN States!InspectCatalog(c, TRUE, None, States!Locked)
                             ELSE begun
  OBVIOUS
<1>4. m = IF c.pointer = "oversized" \/ prior.error \/ second.error THEN "aborted"
          ELSE States!CarryMappings(c, second)
  BY DEF States!RefreshOver
<1>5. CASE c.pointer # "snapshot"
  <2>1. /\ prior.error <=> c.pointer = "failing"
        /\ kept = None
    BY <1>5 DEF States!InspectCatalog
  <2>2. /\ begun.error <=> c.pointer = "failing"
        /\ begun.verification = None /\ begun.identity = None
        /\ begun.status # "ready"
    BY <1>5, <2>1 DEF States!InspectCatalog
  <2>3. second = begun
    BY <2>2
  <2>4. ~UsedAgain(c, second.verification)
    BY <2>2, <2>3 DEF UsedAgain, States!Reusable
  <2> PICK carry : carry = States!CarryMappings(c, second)
    OBVIOUS
  <2>5. /\ carry = "carried" <=> /\ States!ActivationKnown(c) /\ c.contained
                                 /\ "healthy" \in {db.health, Source(db)}
                                 /\ second.identity \in {None, db.identity}
        /\ carry = "aborted" <=> /\ States!ActivationKnown(c) /\ c.contained
                                 /\ "failing" \in {db.health, Source(db)}
    <3>1. Carried(c, second, db, carry)
      BY <2>4, CarryIs
    <3> QED
      BY <3>1 DEF Carried
  <2>6. States!ActivationKnown(c) => c.pointer = "escaping"
    BY <1>5 DEF States!ActivationKnown
  <2>7. ~("healthy" \in {db.health, Source(db)} /\ "failing" \in {db.health, Source(db)})
    BY DEF Source
  <2> QED
    BY <1>4, <1>5, <2>1, <2>2, <2>3, <2>5, <2>6, <2>7
<1>6. CASE c.pointer = "snapshot"
  <2> PICK g : g = States!Eligibility(c.manifest)
    OBVIOUS
  <2>1. prior = States!InspectSnapshot(c, first, g, 1)
    BY <1>6 DEF States!InspectCatalog
  <2>2. /\ prior.error <=> c.manifest.file = "failing" \/ first.status = "failing"
        /\ prior.verification = first
             \/ (prior.verification.status = "missing" /\ prior.verification.signature = None)
    <3>1. Inspected(c, first, g, 1, prior)
      BY <1>1, <2>1, InspectionIs
    <3> QED
      BY <1>1, <3>1 DEF Inspected
  <2>3. kept = None \/ (kept = first /\ first.status = "healthy")
    BY <2>2
  <2> PICK used : used = IF kept # None /\ ~States!Reusable(c, kept, States!Locked, FALSE)
                           THEN last ELSE kept
    OBVIOUS
  <2>4. used \in States!Verifications \cup {None} /\ (used # None => TrueOf(used, db))
    BY <2>3, <1>1, <1>2, StatusAssumption DEF States!Reusable
  <2>5. begun = States!InspectSnapshot(c, used, g, States!Locked)
    BY <1>6 DEF States!InspectCatalog
  <2>6. States!InspectCatalog(c, TRUE, None, States!Locked)
          = States!InspectSnapshot(c, last, g, States!Locked)
    BY <1>6 DEF States!InspectCatalog
  <2>7. PICK v \in {used, last} : second = States!InspectSnapshot(c, v, g, States!Locked)
    BY <2>5, <2>6
  <2>8. v \in States!Verifications \cup {None} /\ (v # None => TrueOf(v, db))
    BY <1>2, <2>4, <2>7
  <2>9. /\ second.identity = g
        /\ second.error <=> c.manifest.file = "failing" \/ (v # None /\ v.status = "failing")
        /\ \/ second.verification = v
           \/ /\ second.verification.status = "missing"
              /\ second.verification.signature = None
    <3>1. Inspected(c, v, g, States!Locked, second)
      BY <2>7, <2>8, InspectionIs
    <3> QED
      BY <3>1 DEF Inspected
  <2>10. UsedAgain(c, second.verification) =>
           second.verification \in States!Verifications /\ TrueOf(second.verification, db)
    BY <2>8, <2>9 DEF UsedAgain, States!Reusable
  <2> PICK carry : carry = States!CarryMappings(c, second)
    OBVIOUS
  <2>11. /\ carry = "carried" <=> /\ States!ActivationKnown(c) /\ c.contained
                                  /\ "healthy" \in {db.health, Source(db)}
                                  /\ second.identity \in {None, db.identity}
         /\ carry = "aborted" <=> /\ States!ActivationKnown(c) /\ c.contained
                                  /\ "failing" \in {db.health, Source(db)}
    <3>1. Carried(c, second, db, carry)
      BY <2>10, CarryIs
    <3> QED
      BY <3>1 DEF Carried
  <2>12. States!ActivationKnown(c) /\ c.contained
    BY <1>6 DEF States!ActivationKnown, States!Cases
  <2>13. v # None => v.status = db.health
    BY <2>8 DEF TrueOf
  <2>14. ~("healthy" \in {db.health, Source(db)} /\ "failing" \in {db.health, Source(db)})
         /\ ~("healthy" \in {db.health, Source(db)} /\ db.health = "missing")
    BY DEF Source
  <2>15. e = g
    BY <1>6
  <2>16. m = IF prior.error \/ second.error THEN "aborted" ELSE carry
    BY <1>4, <1>6
  <2>17. second.error => stops
    BY <1>6, <2>9, <2>12, <2>13
  <2>18. prior.error => stops
    BY <1>1, <1>6, <2>2
  <2>19. m = "aborted" => stops
    BY <2>11, <2>16, <2>17, <2>18
  <2>20. m = "carried" => ~stops
    BY <1>1, <1>6, <2>2, <2>9, <2>11, <2>14, <2>16
  <2> QED
    BY <2>9, <2>11, <2>12, <2>15, <2>16, <2>17, <2>18, <2>19, <2>20
<1> QED
  BY <1>5, <1>6

StatusAnswer ==
  [verified |-> States!InspectCatalog(question, TRUE, None, States!Locked).status,
   seen     |-> States!InspectCatalog(question, FALSE, None, States!Locked).status,
   mappings |-> States!RefreshOver(question)]

MappingAnswer == Maps!TranslateBom(question.parts, question.colors, question.items)

ColorsAnswer ==
  [availability |->
     Colors!CheckPartColors(question.catalog,
                            [i \in DOMAIN question.items |-> question.items[i].pair]),
   validation   |-> Colors!ValidateBom(question.catalog, question.items)]

ImportAnswer == Importer!ImportCatalog(question.dataset, question.fault)

MoldAnswer ==
  [mold |-> Links!CanonicalMold(question.relations, question.part, question.max_depth)]

ThemesAnswer == [lineage     |-> Links!Lineage(question.themes, question.theme),
                 descendants |-> Links!Descendants(question.themes, question.theme)]

SubstitutesAnswer == Links!Substitutes(question.relations, question.query)

SearchAnswer == Finder!SearchCatalog(question.themes, question.documents, question.query)

FileAnswer == [bom    |-> Files!ReadBom(question),
               export |-> Files!ExportBom(Files!ReadBom(question).items)]

DiffAnswer == Files!DiffBoms(Files!Normalize(question.before).items,
                             Files!Normalize(question.after).items)

BomAnswer == Stock!BillOfMaterials(question.catalog, question.query)

UsageAnswer ==
  [regular |-> Stock!UsedIn(question.catalog, question.owner, question.part, FALSE),
   spare   |-> Stock!UsedIn(question.catalog, question.owner, question.part, TRUE),
   latest  |-> Stock!LoadInventory(question.catalog, question.owner, None)]

(* A question keeps its answer, and it is the one that the library gives. *)
Given(k, questions, value) ==
  kind = k => question \in questions /\ (answer = None \/ answer = value)

Asked ==
  /\ Given("status", StatusQuestions, StatusAnswer)
  /\ Given("mapping", MappingQuestions, MappingAnswer)
  /\ Given("colors", ColorQuestions, ColorsAnswer)
  /\ Given("import", ImportQuestions, ImportAnswer)
  /\ Given("mold", MoldQuestions, MoldAnswer)
  /\ Given("themes", ThemeQuestions, ThemesAnswer)
  /\ Given("substitutes", SubstituteQuestions, SubstitutesAnswer)
  /\ Given("search", SearchQuestions, SearchAnswer)
  /\ Given("file", FileQuestions, FileAnswer)
  /\ Given("diff", DiffQuestions, DiffAnswer)
  /\ Given("bom", BomQuestions, BomAnswer)
  /\ Given("usage", UsageQuestions, UsageAnswer)

LEMMA AskedAlways == Spec => []Asked
<1>1. Init => Asked
  BY DEF Init, Asked, Given
<1>2. Asked /\ [Next]_vars => Asked'
  <2> SUFFICES ASSUME Asked, [Next]_vars PROVE Asked'
    OBVIOUS
  <2> USE DEF Answer
  <2>1. kind' = kind /\ question' = question
    BY DEF Next, vars, AnswerBom, AnswerUsage, AnswerMold, AnswerSubstitutes, AnswerThemes,
           AnswerMapping, AnswerColors, AnswerSearch, AnswerFile, AnswerDiff, AnswerImport,
           AnswerStatus
  <2>a. /\ StatusAnswer' = StatusAnswer /\ MappingAnswer' = MappingAnswer
        /\ ColorsAnswer' = ColorsAnswer /\ ImportAnswer' = ImportAnswer
        /\ MoldAnswer' = MoldAnswer /\ ThemesAnswer' = ThemesAnswer
        /\ SubstitutesAnswer' = SubstitutesAnswer /\ SearchAnswer' = SearchAnswer
        /\ FileAnswer' = FileAnswer /\ DiffAnswer' = DiffAnswer
        /\ BomAnswer' = BomAnswer /\ UsageAnswer' = UsageAnswer
    BY <2>1
       DEF StatusAnswer, MappingAnswer, ColorsAnswer, ImportAnswer, MoldAnswer, ThemesAnswer,
           SubstitutesAnswer, SearchAnswer, FileAnswer, DiffAnswer, BomAnswer, UsageAnswer
  <2>2. CASE answer' = answer
    BY <2>1, <2>2, <2>a DEF Asked, Given
  <2>3. CASE answer' # answer
    <3> USE DEF AnswerBom, AnswerUsage, AnswerMold, AnswerSubstitutes, AnswerThemes,
                AnswerMapping, AnswerColors, AnswerSearch, AnswerFile, AnswerDiff, AnswerImport,
                AnswerStatus
    <3>1. kind = "status" => answer' = StatusAnswer
      BY <2>3 DEF Next, vars, StatusAnswer
    <3>2. kind = "mapping" => answer' = MappingAnswer
      BY <2>3 DEF Next, vars, MappingAnswer
    <3>3. kind = "colors" => answer' = ColorsAnswer
      BY <2>3 DEF Next, vars, ColorsAnswer
    <3>4. kind = "import" => answer' = ImportAnswer
      BY <2>3 DEF Next, vars, ImportAnswer
    <3>5. kind = "mold" => answer' = MoldAnswer
      BY <2>3 DEF Next, vars, MoldAnswer
    <3>6. kind = "themes" => answer' = ThemesAnswer
      BY <2>3 DEF Next, vars, ThemesAnswer
    <3>7. kind = "substitutes" => answer' = SubstitutesAnswer
      BY <2>3 DEF Next, vars, SubstitutesAnswer
    <3>8. kind = "search" => answer' = SearchAnswer
      BY <2>3 DEF Next, vars, SearchAnswer
    <3>9. kind = "file" => answer' = FileAnswer
      BY <2>3 DEF Next, vars, FileAnswer
    <3>10. kind = "diff" => answer' = DiffAnswer
      BY <2>3 DEF Next, vars, DiffAnswer
    <3>11. kind = "bom" => answer' = BomAnswer
      BY <2>3 DEF Next, vars, BomAnswer
    <3>12. kind = "usage" => answer' = UsageAnswer
      BY <2>3 DEF Next, vars, UsageAnswer
    <3> QED
      BY <2>1, <2>a, <3>1, <3>2, <3>3, <3>4, <3>5, <3>6, <3>7, <3>8, <3>9, <3>10, <3>11, <3>12
         DEF Asked, Given
  <2> QED
    BY <2>2, <2>3
<1> QED
  BY <1>1, <1>2, PTL DEF Spec

(***************************************************************************)
(* A refresh keeps the cached mappings exactly when the database is sound  *)
(* under the lock and has the identity of its manifest, for any history of *)
(* the database, its journal and its files between the first verification  *)
(* and the lock (refresh.py, _refresh_attempt and _activation_mappings;    *)
(* database.py, inspect_catalog).                                          *)
(***************************************************************************)
THEOREM MappingsKeptAlways == Spec => []MappingsKept
<1>1. Asked => MappingsKept
  <2> SUFFICES ASSUME Asked, Answered("status") PROVE MappingsKept
    BY DEF MappingsKept
  <2> PICK c : c = question
    OBVIOUS
  <2>1. c \in States!Cases /\ answer = StatusAnswer
    BY StatusAssumption DEF Asked, Given, Answered
  <2> PICK db : db = States!Db(c, States!Locked)
    OBVIOUS
  <2> PICK m : m = States!RefreshOver(c)
    OBVIOUS
  <2>2. Refreshed(c, db, m)
    BY <2>1, RefreshIs
  <2>3. /\ StatusAnswer.mappings = m
        /\ StatusAnswer.verified = States!InspectCatalog(c, TRUE, None, States!Locked).status
        /\ StatusAnswer.seen = States!InspectCatalog(c, FALSE, None, States!Locked).status
    BY DEF StatusAnswer
  <2> PICK last : last = States!VerifyAt(c, States!Locked)
    OBVIOUS
  <2>4. last \in States!Verifications /\ last # None /\ TrueOf(last, db)
    BY <2>1, LockedIsTrue
  <2> PICK g : g = States!Eligibility(c.manifest)
    OBVIOUS
  <2> DEFINE sound  == "healthy" \in {db.health, IF db.health = "hot" THEN db.recovers ELSE None}
             agrees == c.pointer = "escaping" \/
                         States!Eligibility(c.manifest) \in {None, db.identity}
             broken == \/ c.pointer \in {"failing", "oversized"}
                       \/ c.pointer = "snapshot" /\
                            (c.manifest.file = "failing" \/ States!Db(c, 2).health = "failing")
                       \/ States!ActivationKnown(c) /\ c.contained /\
                            "failing" \in {db.health,
                                          IF db.health = "hot" THEN db.recovers ELSE None}
  <2> SUFFICES
        /\ answer.mappings = "carried" <=>
             ~broken /\ States!ActivationKnown(c) /\ c.contained /\ sound /\ agrees
        /\ answer.mappings = "aborted" => broken
        /\ answer.verified = "ready" =>
             answer.seen = "ready" /\ (answer.mappings = "carried" \/ broken)
    BY DEF MappingsKept
  <2>7. "healthy" # None /\ "failing" # None
    BY StatusAssumption DEF States!Healths
  <2>8. sound <=> "healthy" \in {db.health, Source(db)}
    BY <2>7 DEF Source
  <2>9. broken <=> Stops(c, db)
    BY <2>7 DEF Stops, Source
  <2>10. States!ActivationKnown(c) => (agrees <=> Identity(c) \in {None, db.identity})
    BY DEF States!ActivationKnown, Identity
  <2> HIDE DEF sound, agrees, broken
  <2>5. CASE c.pointer # "snapshot"
    <3>1. StatusAnswer.verified # "ready"
      BY <2>3, <2>5 DEF States!InspectCatalog
    <3>2. Refreshed(c, db, answer.mappings)
      BY <2>1, <2>2, <2>3
    <3> QED
      BY <2>1, <2>3, <2>8, <2>9, <2>10, <3>1, <3>2 DEF Refreshed
  <2>6. CASE c.pointer = "snapshot"
    <3>1. /\ States!InspectCatalog(c, TRUE, None, States!Locked)
               = States!InspectSnapshot(c, last, g, States!Locked)
          /\ States!InspectCatalog(c, FALSE, None, States!Locked)
               = States!InspectSnapshot(c, None, g, States!Locked)
      BY <2>6 DEF States!InspectCatalog
    <3>2. /\ Inspected(c, last, g, States!Locked, States!InspectSnapshot(c, last, g, States!Locked))
          /\ Inspected(c, None, g, States!Locked, States!InspectSnapshot(c, None, g, States!Locked))
      BY <2>4, InspectionIs
    <3>3. answer.verified = "ready" =>
            answer.seen = "ready" /\ last.status = "healthy" /\ ~States!Ineligible(g, last)
      BY <2>1, <2>3, <2>4, <3>1, <3>2 DEF Inspected
    <3>4. last.status = "healthy" /\ ~States!Ineligible(g, last) =>
            db.health = "healthy" /\ g \in {None, db.identity}
      BY <2>4 DEF States!Ineligible, TrueOf
    <3>5. States!ActivationKnown(c) /\ c.contained
      BY <2>1, <2>6 DEF States!ActivationKnown, States!Cases
    <3>6. Refreshed(c, db, answer.mappings)
      BY <2>1, <2>2, <2>3
    <3>7. Identity(c) = g
      BY <2>6 DEF Identity
    <3> QED
      BY <2>1, <2>8, <2>9, <2>10, <3>3, <3>4, <3>5, <3>6, <3>7 DEF Refreshed
  <2> QED
    BY <2>5, <2>6
<1> QED
  BY <1>1, AskedAlways, PTL

LEMMA FirstIsMin ==
  ASSUME NEW S, S \subseteq Nat \ {0}, 1 \in S
  PROVE  Min(S) = 1
<1>1. \E x \in S : \A y \in S : x <= y
  <2> WITNESS 1 \in S
  <2> QED
    OBVIOUS
<1> PICK m : m = Min(S)
  OBVIOUS
<1>2. m \in S /\ \A y \in S : m <= y
  BY <1>1 DEF Min
<1>3. m \in Nat /\ m # 0 /\ m <= 1
  BY <1>2
<1> QED
  BY <1>3

LEMMA MapsSame ==
  ASSUME NEW S
  PROVE  /\ Maps!Cardinality(S) = Cardinality(S)
         /\ Maps!IsFiniteSet(S) <=> IsFiniteSet(S)
         /\ Maps!Min(S) = Min(S)
<1>1. Maps!Cardinality(S) = Cardinality(S)
  BY DEF Maps!Cardinality, Cardinality
<1>2. Maps!IsFiniteSet(S) <=> IsFiniteSet(S)
  BY DEF Maps!IsFiniteSet, IsFiniteSet
<1>3. Maps!Min(S) = Min(S)
  BY DEF Maps!Min, Min
<1> QED
  BY <1>1, <1>2, <1>3

LEMMA OneFound ==
  ASSUME NEW source, NEW id
  PROVE  Maps!Match(Maps!Found(source, {id})).target = id
<1> PICK s : s = Maps!Found(source, {id})
  OBVIOUS
<1>1. Maps!Cardinality({id}) = 1
  BY FS_Singleton, MapsSame
<1>2. (CHOOSE x \in {id} : TRUE) = id
  OBVIOUS
<1>3. s.sure /\ s.ids = {id}
  BY DEF Maps!Found
<1> QED
  BY <1>1, <1>2, <1>3 DEF Maps!Match

LEMMA SomeFound ==
  ASSUME NEW source, NEW ids, IsFiniteSet(ids), NEW id \in ids, id # None
  PROVE  id \in Maps!FindCandidates(Maps!Match(Maps!Found(source, ids)))
<1> PICK s : s = Maps!Found(source, ids)
  OBVIOUS
<1>1. CASE Cardinality(ids) = 1
  <2>1. ids = {id}
    BY <1>1, FS_Singleton
  <2>2. Maps!Match(s).target = id
    BY <2>1, OneFound
  <2> QED
    BY <2>2 DEF Maps!FindCandidates
<1>2. CASE Cardinality(ids) # 1
  <2>1. Maps!Cardinality(s.ids) # 1 /\ s.ids = ids
    BY <1>2, MapsSame DEF Maps!Found
  <2>2. Maps!Match(s).target = None /\ Maps!Match(s).candidates = ids
    BY <2>1 DEF Maps!Match
  <2> QED
    BY <2>2 DEF Maps!FindCandidates
<1> QED
  BY <1>1, <1>2

LEMMA FirstAnswers ==
  ASSUME NEW s, 1 \in DOMAIN s, DOMAIN s \subseteq Nat \ {0}, s[1].ids # {}
  PROVE  Maps!FirstFound(s) = Maps!Match(s[1])
<1> DEFINE finds == {i \in DOMAIN s : s[i].ids # {}}
<1>1. finds # {} /\ Maps!Min(finds) = 1
  BY FirstIsMin, MapsSame
<1> QED
  BY <1>1 DEF Maps!FirstFound

LEMMA FiniteFrom ==
  ASSUME NEW R, IsFiniteSet(R), NEW y
  PROVE  IsFiniteSet(Maps!From(R, y))
<1> PICK Q : Q = {q \in R : q[2] = y}
  OBVIOUS
<1> PICK T : T = {q[1] : q \in Q}
  OBVIOUS
<1> PICK f : f = [q \in Q |-> q[1]]
  OBVIOUS
<1>1. IsFiniteSet(Q)
  BY FS_Subset
<1>2. f \in Surjection(Q, T)
  BY DEF Surjection
<1>3. IsFiniteSet(T)
  BY <1>1, <1>2, FS_Surjection
<1> QED
  BY <1>3 DEF Maps!From

LEMMA LeastNat ==
  ASSUME NEW T, T \subseteq Nat, T # {}
  PROVE  \E x \in T : \A y \in T : x <= y
<1> DEFINE below == OpToRel(<, Nat)
<1>1. IsWellFoundedOn(below, Nat)
  BY NatLessThanWellFounded
<1>2. PICK x \in T : \A y \in T : ~ (<<y, x>> \in below)
  BY <1>1, WFMin
<1>3. ASSUME NEW y \in T, ~(<<y, x>> \in below) PROVE x <= y
  BY <1>3 DEF OpToRel
<1> QED
  BY <1>2, <1>3

(* Every item falls into one chunk or another. *)
LEMMA MinIs ==
  ASSUME NEW S, S \subseteq Nat, S # {}
  PROVE  /\ Min(S) \in S /\ \A y \in S : Min(S) <= y
         /\ Importer!Min(S) = Min(S)
<1>1. \E x \in S : \A y \in S : x <= y
  BY LeastNat
<1> QED
  BY <1>1 DEF Min, Importer!Min

LEMMA DisjointCount ==
  ASSUME NEW S, NEW T, IsFiniteSet(S), IsFiniteSet(T), S \cap T = {}
  PROVE  IsFiniteSet(S \cup T) /\ Cardinality(S \cup T) = Cardinality(S) + Cardinality(T)
<1>1. Cardinality({}) = 0
  BY FS_EmptySet
<1>2. Cardinality(S) \in Nat /\ Cardinality(T) \in Nat
  BY FS_CardinalityType
<1>3. /\ IsFiniteSet(S \cup T)
      /\ Cardinality(S \cup T) = Cardinality(S) + Cardinality(T) - Cardinality(S \cap T)
  BY FS_Union
<1>4. Cardinality(S \cap T) = 0
  BY <1>1
<1> QED
  BY <1>2, <1>3, <1>4

(* An override is the only target of its code. *)
LEMMA OneTarget ==
  ASSUME NEW R, Maps!IsOverrides(R), NEW o \in R
  PROVE  Maps!To(R, o[1]) = {o[2]} /\ None \notin {o[1], o[2]}
BY DEF Maps!IsOverrides, Maps!To

LEMMA PartOverridden ==
  ASSUME NEW p, Maps!IsOverrides(p.overrides), NEW o \in p.overrides
  PROVE  Maps!ResolveLDrawPart(p, o[1]).target = o[2]
<1> PICK s : s = <<Maps!Found("user_override", {o[2]}),
                   Maps!Found("api_external_id", Maps!To(p.crosswalk, o[1])),
                   Maps!Found("exact_canonical_id", {o[1]} \cap p.known),
                   Maps!Candidates("relationship_candidate", Maps!Related(p, o[1]))>>
  OBVIOUS
<1>1. /\ 1 \in DOMAIN s /\ DOMAIN s \subseteq Nat \ {0}
      /\ s[1] = Maps!Found("user_override", {o[2]}) /\ s[1].ids # {}
  BY DEF Maps!Found
<1>2. Maps!ResolveLDrawPart(p, o[1]) = Maps!FirstFound(s)
  BY OneTarget DEF Maps!ResolveLDrawPart
<1>3. Maps!FirstFound(s) = Maps!Match(s[1])
  BY <1>1, FirstAnswers
<1>4. Maps!Match(s[1]).target = o[2]
  BY <1>1, OneFound
<1> QED
  BY <1>2, <1>3, <1>4

LEMMA ColorOverridden ==
  ASSUME NEW c, Maps!IsOverrides(c.overrides), NEW o \in c.overrides, NEW described
  PROVE  Maps!ResolveLDrawColor(c, o[1], described).target = o[2]
<1> PICK s : s = <<Maps!Found("user_override", {o[2]}),
                   Maps!Found("api_external_id", Maps!To(c.crosswalk, o[1]))>>
  OBVIOUS
<1>1. /\ 1 \in DOMAIN s /\ DOMAIN s \subseteq Nat \ {0}
      /\ s[1] = Maps!Found("user_override", {o[2]}) /\ s[1].ids # {}
  BY DEF Maps!Found
<1>2. Maps!FirstFound(s) = Maps!Match(s[1])
  BY <1>1, FirstAnswers
<1>3. Maps!Match(s[1]).target = o[2]
  BY <1>1, OneFound
<1>4. o[2] # None
  BY OneTarget
<1>5. Maps!FirstFound(s) # Maps!Unresolved
  BY <1>2, <1>3, <1>4 DEF Maps!Unresolved
<1>6. Maps!ResolveLDrawColor(c, o[1], described) = Maps!FirstFound(s)
  BY <1>5, OneTarget DEF Maps!ResolveLDrawColor
<1> QED
  BY <1>2, <1>3, <1>6

(* What a resolver answers: a target, just when it is resolved. *)
Settled(match) ==
  /\ match.status \in {"resolved", "ambiguous", "unresolved"}
  /\ match.status = "resolved" <=> match.target # None

LEMMA MatchSettled ==
  ASSUME NEW strategy, None \notin strategy.ids \/ ~strategy.sure
  PROVE  Settled(Maps!Match(strategy))
<1> PICK match : match = Maps!Match(strategy)
  OBVIOUS
<1>1. CASE strategy.sure /\ Maps!Cardinality(strategy.ids) = 1
  <2>1. strategy.ids # {}
    BY <1>1, FS_EmptySet, MapsSame
  <2>2. (CHOOSE id \in strategy.ids : TRUE) \in strategy.ids
    BY <2>1
  <2>3. /\ match.status = "resolved"
        /\ match.target = CHOOSE id \in strategy.ids : TRUE
    BY <1>1 DEF Maps!Match
  <2> QED
    BY <1>1, <2>2, <2>3 DEF Settled
<1>2. CASE ~(strategy.sure /\ Maps!Cardinality(strategy.ids) = 1)
  <2>1. match.status = "ambiguous" /\ match.target = None
    BY <1>2 DEF Maps!Match
  <2> QED
    BY <2>1 DEF Settled
<1> QED
  BY <1>1, <1>2

(* Strategies that find no None. *)
FindIds(strategies) ==
  /\ DOMAIN strategies \subseteq Nat
  /\ \A i \in DOMAIN strategies : None \notin strategies[i].ids \/ ~strategies[i].sure

LEMMA FoundSettled ==
  ASSUME NEW s, FindIds(s)
  PROVE  Settled(Maps!FirstFound(s)) /\ Settled(Maps!FirstUnique(s))
<1> PICK finds : finds = {i \in DOMAIN s : s[i].ids # {}}
  OBVIOUS
<1> PICK decide : decide = {i \in DOMAIN s : Maps!Cardinality(s[i].ids) = 1}
  OBVIOUS
<1>1. Settled(Maps!Unresolved)
  BY DEF Settled, Maps!Unresolved
<1>2. ASSUME NEW T, T \subseteq DOMAIN s, T # {} PROVE Settled(Maps!Match(s[Maps!Min(T)]))
  <2>1. T \subseteq Nat
    BY <1>2 DEF FindIds
  <2>2. Maps!Min(T) \in T
    BY <1>2, <2>1, MinIs, MapsSame
  <2> QED
    BY <1>2, <2>2, MatchSettled DEF FindIds
<1>3. Settled(Maps!FirstFound(s))
  <2>1. Maps!FirstFound(s) = IF finds = {} THEN Maps!Unresolved ELSE Maps!Match(s[Maps!Min(finds)])
    BY DEF Maps!FirstFound
  <2> QED
    BY <1>1, <1>2, <2>1
<1>4. Settled(Maps!FirstUnique(s))
  <2>1. Maps!FirstUnique(s) =
          IF decide = {} THEN Maps!FirstFound(s) ELSE Maps!Match(s[Maps!Min(decide)])
    BY DEF Maps!FirstUnique
  <2> QED
    BY <1>2, <1>3, <2>1
<1> QED
  BY <1>3, <1>4

LEMMA NoTarget ==
  ASSUME NEW R, \A q \in R : q[2] # None, NEW external
  PROVE  None \notin Maps!To(R, external)
BY DEF Maps!To

LEMMA OverridesNamed ==
  ASSUME NEW R, Maps!IsOverrides(R)
  PROVE  \A q \in R : q[2] # None
BY DEF Maps!IsOverrides

LEMMA PartSettled ==
  ASSUME NEW p, Maps!IsOverrides(p.overrides), \A q \in p.crosswalk : q[2] # None,
         None \notin p.known, NEW code
  PROVE  Settled(Maps!ResolveLDrawPart(p, code))
<1> PICK s : s = <<Maps!Found("user_override", Maps!To(p.overrides, code)),
                   Maps!Found("api_external_id", Maps!To(p.crosswalk, code)),
                   Maps!Found("exact_canonical_id", {code} \cap p.known),
                   Maps!Candidates("relationship_candidate", Maps!Related(p, code))>>
  OBVIOUS
<1>1. /\ None \notin Maps!To(p.overrides, code) /\ None \notin Maps!To(p.crosswalk, code)
      /\ None \notin {code} \cap p.known
  BY NoTarget, OverridesNamed
<1>2. FindIds(s)
  BY <1>1 DEF FindIds, Maps!Found, Maps!Candidates
<1>3. Maps!ResolveLDrawPart(p, code) = Maps!FirstFound(s)
  BY DEF Maps!ResolveLDrawPart
<1> QED
  BY <1>2, <1>3, FoundSettled

LEMMA ColorSettled ==
  ASSUME NEW c, Maps!IsOverrides(c.overrides),
         \A q \in c.crosswalk \cup c.rgb \cup c.name : q[2] # None, NEW code, NEW described
  PROVE  Settled(Maps!ResolveLDrawColor(c, code, described))
<1> PICK s : s = <<Maps!Found("user_override", Maps!To(c.overrides, code)),
                   Maps!Found("api_external_id", Maps!To(c.crosswalk, code))>>
  OBVIOUS
<1> PICK t : t = <<Maps!Found("rgb", Maps!To(c.rgb, code)),
                   Maps!Found("name", Maps!To(c.name, code))>>
  OBVIOUS
<1>1. /\ None \notin Maps!To(c.overrides, code) /\ None \notin Maps!To(c.crosswalk, code)
      /\ None \notin Maps!To(c.rgb, code) /\ None \notin Maps!To(c.name, code)
  <2>1. /\ \A q \in c.overrides : q[2] # None
        /\ \A q \in c.crosswalk : q[2] # None
        /\ \A q \in c.rgb : q[2] # None
        /\ \A q \in c.name : q[2] # None
    BY OverridesNamed
  <2> QED
    BY <2>1, NoTarget
<1>2. FindIds(s) /\ FindIds(t)
  BY <1>1 DEF FindIds, Maps!Found
<1>3. Settled(Maps!FirstFound(s)) /\ Settled(Maps!FirstUnique(t))
  BY <1>2, FoundSettled
<1>4. \/ Maps!ResolveLDrawColor(c, code, described) = Maps!FirstFound(s)
      \/ Maps!ResolveLDrawColor(c, code, described) = Maps!FirstUnique(t)
  BY DEF Maps!ResolveLDrawColor
<1> QED
  BY <1>3, <1>4

LEMMA WorseOf ==
  ASSUME NEW m, NEW n, Settled(m), Settled(n)
  PROVE  /\ Maps!WorseStatus(m, n) \in {"resolved", "ambiguous", "unresolved"}
         /\ Maps!WorseStatus(m, n) = "resolved" <=> m.target # None /\ n.target # None
<1>1. /\ Maps!Severity["resolved"] = 0 /\ Maps!Severity["ambiguous"] = 1
      /\ Maps!Severity["unresolved"] = 2
  BY DEF Maps!Severity
<1> QED
  BY <1>1 DEF Maps!WorseStatus, Settled

Having(f, n, name) == {i \in 1 .. n : f[i] = name}

(* Statuses are counted once each. *)
LEMMA CountedOnce ==
  ASSUME NEW n \in Nat, NEW f,
         \A i \in 1 .. n : f[i] \in {"resolved", "ambiguous", "unresolved"}
  PROVE  Cardinality(Having(f, n, "resolved")) + Cardinality(Having(f, n, "ambiguous"))
           + Cardinality(Having(f, n, "unresolved")) = n
<1> PICK R : R = Having(f, n, "resolved")
  OBVIOUS
<1> PICK A : A = Having(f, n, "ambiguous")
  OBVIOUS
<1> PICK U : U = Having(f, n, "unresolved")
  OBVIOUS
<1>1. IsFiniteSet(1 .. n) /\ Cardinality(1 .. n) = n
  BY FS_Interval
<1>2. IsFiniteSet(R) /\ IsFiniteSet(A) /\ IsFiniteSet(U)
  <2>1. R \subseteq 1 .. n /\ A \subseteq 1 .. n /\ U \subseteq 1 .. n
    BY DEF Having
  <2> QED
    BY <1>1, <2>1, FS_Subset
<1>3. IsFiniteSet(R \cup A) /\ Cardinality(R \cup A) = Cardinality(R) + Cardinality(A)
  <2>1. R \cap A = {}
    BY DEF Having
  <2> QED
    BY <1>2, <2>1, DisjointCount
<1>4. Cardinality((R \cup A) \cup U) = Cardinality(R \cup A) + Cardinality(U)
  <2>1. (R \cup A) \cap U = {}
    BY DEF Having
  <2> QED
    BY <1>2, <1>3, <2>1, DisjointCount
<1>5. (R \cup A) \cup U = 1 .. n
  BY DEF Having
<1> QED
  BY <1>1, <1>3, <1>4, <1>5

(***************************************************************************)
(* What the user says decides, over whatever the catalog, the cache and the*)
(* other strategies say, and leads back; a translated row has the targets  *)
(* of its overrides, is resolved just when it has both identifiers, and is *)
(* counted once, for any overrides, any catalog and any bill of materials  *)
(* (mappings.py, the order of the strategies; translate_bom).              *)
(***************************************************************************)
THEOREM OverridesDecideAlways == Spec => []OverridesDecide
<1>1. Asked => OverridesDecide
  <2> SUFFICES ASSUME Asked, Answered("mapping") PROVE OverridesDecide
    BY DEF OverridesDecide
  <2> PICK p : p = question.parts
    OBVIOUS
  <2> PICK c : c = question.colors
    OBVIOUS
  <2>1. Maps!IsOverrides(p.overrides) /\ Maps!IsOverrides(c.overrides)
    BY MappingAssumption DEF Asked, Given, Answered
  <2>2. ASSUME NEW o \in p.overrides
        PROVE  LET match == Maps!Resolve(p, "ldraw", o[1], Maps!ResolveLDrawPart(p, o[1]))
               IN  /\ match.target = o[2]
                   /\ o[1] \in Maps!FindCandidates(Maps!ResolveRebrickablePart(p, o[2]))
                   /\ o[1] \in Maps!ExternalIds(p, match)
    <3> PICK match : match = Maps!ResolveLDrawPart(p, o[1])
      OBVIOUS
    <3>1. Maps!Resolve(p, "ldraw", o[1], match) = match
      BY DEF Maps!Resolve
    <3>2. o[1] \in Maps!From(p.overrides, o[2]) /\ None \notin {o[1], o[2]}
      BY <2>1 DEF Maps!IsOverrides, Maps!From
    <3>3. match.target = o[2]
      BY <2>1, PartOverridden
    <3>4. o[1] \in Maps!FindCandidates(Maps!ResolveRebrickablePart(p, o[2]))
      <4> PICK ids : ids = Maps!From(p.overrides, o[2])
        OBVIOUS
      <4>1. IsFiniteSet(ids) /\ o[1] \in ids /\ o[1] # None
        BY <2>1, <3>2, FiniteFrom, MapsSame DEF Maps!IsOverrides
      <4> PICK s : s = <<Maps!Found("user_override", ids),
                         Maps!Found("api_external_id", Maps!From(p.crosswalk, o[2])),
                         Maps!Candidates("exact_canonical_id", {o[2]} \cap p.known)>>
        OBVIOUS
      <4>2. 1 \in DOMAIN s /\ DOMAIN s \subseteq Nat \ {0} /\ s[1] = Maps!Found("user_override", ids) /\ s[1].ids # {}
        BY <4>1 DEF Maps!Found
      <4>3. Maps!ResolveRebrickablePart(p, o[2]) = Maps!FirstFound(s)
        BY DEF Maps!ResolveRebrickablePart
      <4>4. Maps!FirstFound(s) = Maps!Match(s[1])
        BY <4>2, FirstAnswers
      <4> QED
        BY <4>1, <4>2, <4>3, <4>4, SomeFound
    <3>5. o[1] \in Maps!ExternalIds(p, match)
      BY <3>2, <3>3 DEF Maps!ExternalIds
    <3> QED
      BY <3>1, <3>3, <3>4, <3>5
  <2>3. ASSUME NEW o \in c.overrides, Maps!From(c.overrides, o[2]) = {o[1]}
        PROVE  Maps!FindCandidates(Maps!ResolveRebrickableColor(c, o[2])) = {o[1]}
    <3> PICK s : s = <<Maps!Found("user_override", {o[1]}),
                       Maps!Found("api_external_id", Maps!From(c.crosswalk, o[2]))>>
      OBVIOUS
    <3>1. 1 \in DOMAIN s /\ DOMAIN s \subseteq Nat \ {0} /\ s[1] = Maps!Found("user_override", {o[1]}) /\ s[1].ids = {o[1]}
      BY DEF Maps!Found
    <3>2. Maps!ResolveRebrickableColor(c, o[2]) = Maps!FirstUnique(s)
      BY <2>3 DEF Maps!ResolveRebrickableColor
    <3>3. Maps!FirstUnique(s) = Maps!Match(s[1])
      <4> DEFINE decide == {i \in DOMAIN s : Maps!Cardinality(s[i].ids) = 1}
      <4>1. Maps!Cardinality(s[1].ids) = 1
        BY <3>1, FS_Singleton, MapsSame
      <4>2. decide # {} /\ Maps!Min(decide) = 1
        BY <3>1, <4>1, FirstIsMin, MapsSame
      <4> QED
        BY <4>2 DEF Maps!FirstUnique
    <3>4. Maps!Match(s[1]).target = o[1]
      BY <3>1, OneFound
    <3>5. o[1] # None
      BY <2>1 DEF Maps!IsOverrides
    <3> QED
      BY <3>2, <3>3, <3>4, <3>5 DEF Maps!FindCandidates
  <2> PICK items : items = question.items
    OBVIOUS
  <2> PICK n : n = Len(items)
    OBVIOUS
  <2> PICK rows : rows = [i \in DOMAIN items |-> Maps!TranslateRow(p, c, items[i])]
    OBVIOUS
  <2>4. n \in Nat /\ DOMAIN items = 1 .. n
    BY MappingAssumption DEF Asked, Given, Answered
  <2>5. /\ answer.rows = rows
        /\ answer.resolved = Cardinality({i \in 1 .. n : rows[i].status = "resolved"})
        /\ answer.ambiguous = Cardinality({i \in 1 .. n : rows[i].status = "ambiguous"})
        /\ answer.unresolved = Cardinality({i \in 1 .. n : rows[i].status = "unresolved"})
    <3>1. answer = Maps!TranslateBom(p, c, items)
      BY DEF Asked, Given, Answered, MappingAnswer
    <3>2. DOMAIN rows = 1 .. n
      BY <2>4
    <3> QED
      BY <3>1, <3>2, MapsSame DEF Maps!TranslateBom
  <2>6. ASSUME NEW i \in 1 .. n
        PROVE  /\ rows[i].part = Maps!ResolveLDrawPart(p, items[i].part).target
               /\ rows[i].color =
                    Maps!ResolveLDrawColor(c, items[i].color, items[i].described).target
               /\ rows[i].status \in {"resolved", "ambiguous", "unresolved"}
               /\ rows[i].status = "resolved" <=> rows[i].part # None /\ rows[i].color # None
    <3> PICK part : part = Maps!ResolveLDrawPart(p, items[i].part)
      OBVIOUS
    <3> PICK color : color = Maps!ResolveLDrawColor(c, items[i].color, items[i].described)
      OBVIOUS
    <3>1. /\ None \notin p.known /\ \A q \in p.crosswalk : q[2] # None
          /\ \A q \in c.crosswalk \cup c.rgb \cup c.name : q[2] # None
      BY MappingAssumption DEF Asked, Given, Answered
    <3>2. Settled(part) /\ Settled(color)
      BY <2>1, <3>1, PartSettled, ColorSettled
    <3>3. rows[i] = [part   |-> part.target,
                     color  |-> color.target,
                     status |-> Maps!WorseStatus(part, color)]
      BY <2>4 DEF Maps!TranslateRow
    <3> QED
      BY <3>2, <3>3, WorseOf
  <2>7. ASSUME NEW o \in p.overrides, NEW i \in 1 .. n, items[i].part = o[1]
        PROVE  rows[i].part = o[2]
    <3>1. Maps!ResolveLDrawPart(p, o[1]).target = o[2]
      BY <2>1, PartOverridden
    <3> QED
      BY <2>6, <2>7, <3>1
  <2>8. ASSUME NEW o \in c.overrides, NEW i \in 1 .. n, items[i].color = o[1]
        PROVE  rows[i].color = o[2]
    <3>1. Maps!ResolveLDrawColor(c, o[1], items[i].described).target = o[2]
      BY <2>1, ColorOverridden
    <3> QED
      BY <2>6, <2>8, <3>1
  <2>9. answer.resolved + answer.ambiguous + answer.unresolved = n
    <3> PICK f : f = [i \in 1 .. n |-> rows[i].status]
      OBVIOUS
    <3>1. \A i \in 1 .. n : f[i] = rows[i].status
      OBVIOUS
    <3>2. ASSUME NEW name
          PROVE  Having(f, n, name) = {i \in 1 .. n : rows[i].status = name}
      BY <3>1 DEF Having
    <3>3. \A i \in 1 .. n : f[i] \in {"resolved", "ambiguous", "unresolved"}
      BY <2>6, <3>1
    <3>4. Cardinality(Having(f, n, "resolved")) + Cardinality(Having(f, n, "ambiguous"))
            + Cardinality(Having(f, n, "unresolved")) = n
      BY <2>4, <3>3, CountedOnce
    <3>5. /\ answer.resolved = Cardinality(Having(f, n, "resolved"))
          /\ answer.ambiguous = Cardinality(Having(f, n, "ambiguous"))
          /\ answer.unresolved = Cardinality(Having(f, n, "unresolved"))
      BY <2>5, <3>2
    <3> QED
      BY <3>4, <3>5
  <2>10. PartsByUser
    BY <2>2 DEF PartsByUser
  <2>11. ColorsByUser
    BY <2>3 DEF ColorsByUser
  <2>12. ASSUME NEW i \in 1 .. n PROVE RowHonest(items[i], rows[i])
    <3>1. \A o \in p.overrides : o[1] = items[i].part => rows[i].part = o[2]
      BY <2>7
    <3>2. \A o \in c.overrides : o[1] = items[i].color => rows[i].color = o[2]
      BY <2>8
    <3>3. rows[i].status = "resolved" <=> None \notin {rows[i].part, rows[i].color}
      BY <2>6
    <3> QED
      BY <3>1, <3>2, <3>3 DEF RowHonest
  <2> QED
    BY <2>4, <2>5, <2>9, <2>10, <2>11, <2>12 DEF OverridesDecide
<1> QED
  BY <1>1, AskedAlways, PTL

-----------------------------------------------------------------------------
LEMMA ChunkOf ==
  ASSUME NEW n \in Nat, NEW j \in 1 .. n
  PROVE  \E k \in 0 .. n, i \in 1 .. ChunkSize : k * ChunkSize < n /\ j = k * ChunkSize + i
<1> DEFINE T == {k \in Nat : j <= (k + 1) * ChunkSize}
<1>1. ChunkSize \in Nat /\ ChunkSize >= 1
  BY ColorAssumption
<1>2. j \in T
  <2>1. (j + 1) * ChunkSize = j * ChunkSize + ChunkSize
    BY <1>1
  <2>2. j * ChunkSize >= j
    BY <1>1
  <2> QED
    BY <1>1, <2>1, <2>2
<1>3. PICK k \in T : \A y \in T : k <= y
  BY <1>2, LeastNat
<1>4. (k + 1) * ChunkSize = k * ChunkSize + ChunkSize /\ k * ChunkSize \in Nat
  BY <1>1
<1>5. k * ChunkSize < j
  <2>1. CASE k = 0
    BY <1>1, <2>1
  <2>2. CASE k # 0
    <3>1. k - 1 \in Nat /\ k - 1 \notin T
      BY <1>3, <2>2
    <3>2. ~(j <= (k - 1 + 1) * ChunkSize)
      BY <3>1
    <3>3. k - 1 + 1 = k
      BY <1>3
    <3> QED
      BY <1>4, <3>2, <3>3
  <2> QED
    BY <2>1, <2>2
<1>6. k <= j
  BY <1>2, <1>3
<1> DEFINE i == j - k * ChunkSize
<1>7. i \in 1 .. ChunkSize /\ j = k * ChunkSize + i
  BY <1>1, <1>3, <1>4, <1>5
<1> QED
  BY <1>3, <1>4, <1>5, <1>6, <1>7

(* What is known of a pair, without regard to a batch. *)
ElementsOf(c, pair) == IF Colors!Complete(pair) THEN Colors!Elements(c, pair) ELSE {}

LinesOf(c, pair) ==
  IF Colors!Complete(pair)
    THEN {Colors!WithYear(c, l) : l \in Colors!LatestLines(c, pair)} ELSE {}

RelatedOnly(c, pair) ==
  /\ Colors!Complete(pair)
  /\ ElementsOf(c, pair) = {} /\ LinesOf(c, pair) = {}
  /\ Colors!RelatedExists(c, pair)

LEMMA BatchIsPerItem ==
  ASSUME NEW c, NEW pairs, Len(pairs) \in Nat, DOMAIN pairs = 1 .. Len(pairs),
         NEW i \in DOMAIN pairs
  PROVE  Colors!CheckPartColors(c, pairs)[i] =
           Colors!Availability(pairs[i], ElementsOf(c, pairs[i]), LinesOf(c, pairs[i]),
                               RelatedOnly(c, pairs[i]))
<1> PICK n \in Nat : n = Len(pairs)
  OBVIOUS
<1> PICK starts : starts = {k * ChunkSize : k \in {j \in 0 .. n : j * ChunkSize < n}}
  OBVIOUS
<1> DEFINE InChunk(s) == {j \in 1 .. ChunkSize : s + j <= n /\ Colors!Complete(pairs[s + j])}
<1> PICK es : es = UNION {UNION {{<<s + j, e>> : e \in Colors!Elements(c, pairs[s + j])} :
                                   j \in InChunk(s)} : s \in starts}
  OBVIOUS
<1> PICK ls : ls = UNION {UNION {{<<s + j, Colors!WithYear(c, l)>> :
                                    l \in Colors!LatestLines(c, pairs[s + j])} :
                                   j \in InChunk(s)} : s \in starts}
  OBVIOUS
<1> PICK found : found = {x[1] : x \in es} \cup {x[1] : x \in ls}
  OBVIOUS
<1> PICK related : related = UNION {{s + j : j \in {h \in InChunk(s) :
                                                    /\ s + h \notin found
                                                    /\ Colors!RelatedExists(c, pairs[s + h])}} :
                                      s \in starts}
  OBVIOUS
<1>1. ASSUME Colors!Complete(pairs[i])
      PROVE  \E s \in starts : \E j \in InChunk(s) : i = s + j
  <2> PICK k \in 0 .. n, j \in 1 .. ChunkSize : k * ChunkSize < n /\ i = k * ChunkSize + j
    BY ChunkOf
  <2>1. k * ChunkSize \in starts
    OBVIOUS
  <2>2. j \in InChunk(k * ChunkSize)
    BY <1>1
  <2> QED
    BY <2>1, <2>2
<1> DEFINE OfEs == {x[2] : x \in {y \in es : y[1] = i}}
           OfLs == {x[2] : x \in {y \in ls : y[1] = i}}
<1>2. Colors!Complete(pairs[i]) => OfEs = Colors!Elements(c, pairs[i])
  <2> SUFFICES ASSUME Colors!Complete(pairs[i]) PROVE OfEs = Colors!Elements(c, pairs[i])
    OBVIOUS
  <2>1. ASSUME NEW e \in Colors!Elements(c, pairs[i]) PROVE <<i, e>> \in es
    BY <1>1, <2>1
  <2>2. ASSUME NEW y \in es, y[1] = i PROVE y[2] \in Colors!Elements(c, pairs[i])
    BY <2>2
  <2>3. \A e \in Colors!Elements(c, pairs[i]) : <<i, e>>[1] = i /\ <<i, e>>[2] = e
    OBVIOUS
  <2>4. ASSUME NEW e \in Colors!Elements(c, pairs[i]) PROVE e \in OfEs
    BY <2>1, <2>3
  <2>5. ASSUME NEW e \in OfEs PROVE e \in Colors!Elements(c, pairs[i])
    <3> PICK x \in es : x[1] = i /\ x[2] = e
      OBVIOUS
    <3> QED
      BY <2>2
  <2> HIDE DEF OfEs
  <2> QED
    BY <2>4, <2>5
<1>3. Colors!Complete(pairs[i]) => OfLs = LinesOf(c, pairs[i])
  <2> SUFFICES ASSUME Colors!Complete(pairs[i]) PROVE OfLs = LinesOf(c, pairs[i])
    OBVIOUS
  <2>1. ASSUME NEW l \in Colors!LatestLines(c, pairs[i]) PROVE <<i, Colors!WithYear(c, l)>> \in ls
    <3> PICK s \in starts : \E j \in InChunk(s) : i = s + j
      BY <1>1
    <3> PICK j \in InChunk(s) : i = s + j
      OBVIOUS
    <3>1. <<s + j, Colors!WithYear(c, l)>>
            \in {<<s + j, Colors!WithYear(c, m)>> : m \in Colors!LatestLines(c, pairs[s + j])}
      BY <2>1
    <3> QED
      BY <3>1
  <2>2. ASSUME NEW y \in ls, y[1] = i
        PROVE  \E l \in Colors!LatestLines(c, pairs[i]) : y[2] = Colors!WithYear(c, l)
    BY <2>2
  <2>3. LinesOf(c, pairs[i]) = {Colors!WithYear(c, l) : l \in Colors!LatestLines(c, pairs[i])}
    BY DEF LinesOf
  <2>4. ASSUME NEW x \in OfLs PROVE x \in LinesOf(c, pairs[i])
    BY <2>2, <2>3
  <2>5. ASSUME NEW l \in Colors!LatestLines(c, pairs[i]) PROVE Colors!WithYear(c, l) \in OfLs
    <3> PICK y : y = <<i, Colors!WithYear(c, l)>>
      OBVIOUS
    <3>1. y \in ls /\ y[1] = i /\ y[2] = Colors!WithYear(c, l)
      BY <2>1
    <3> QED
      BY <3>1
  <2> QED
    BY <2>3, <2>4, <2>5
<1>4. Colors!Complete(pairs[i]) =>
        (i \in found <=> ~(ElementsOf(c, pairs[i]) = {} /\ LinesOf(c, pairs[i]) = {}))
  <2> SUFFICES ASSUME Colors!Complete(pairs[i])
               PROVE  i \in found <=> ~(OfEs = {} /\ OfLs = {})
    BY <1>2, <1>3 DEF ElementsOf
  <2>1. i \in {x[1] : x \in es} <=> OfEs # {}
    OBVIOUS
  <2>2. i \in {x[1] : x \in ls} <=> OfLs # {}
    OBVIOUS
  <2> QED
    BY <2>1, <2>2
<1> HIDE DEF OfEs, OfLs
<1>5. (Colors!Complete(pairs[i]) /\ i \in related) <=> RelatedOnly(c, pairs[i])
  <2>1. i \in related => Colors!RelatedExists(c, pairs[i]) /\ i \notin found
    OBVIOUS
  <2>2. Colors!Complete(pairs[i]) /\ i \notin found /\ Colors!RelatedExists(c, pairs[i]) =>
          i \in related
    BY <1>1
  <2> QED
    BY <1>4, <2>1, <2>2 DEF RelatedOnly
<1> DEFINE Of(k, rows) == IF Colors!Complete(pairs[k])
                            THEN {x[2] : x \in {y \in rows : y[1] = k}}
                            ELSE {}
<1>6. Colors!CheckPartColors(c, pairs) =
        [k \in DOMAIN pairs |->
           Colors!Availability(pairs[k], Of(k, es), Of(k, ls),
                               Colors!Complete(pairs[k]) /\ k \in related)]
  BY DEF Colors!CheckPartColors, Colors!InBatch
<1>7. Of(i, es) = ElementsOf(c, pairs[i]) /\ Of(i, ls) = LinesOf(c, pairs[i])
  BY <1>2, <1>3 DEF ElementsOf, LinesOf, OfEs, OfLs
<1> HIDE DEF Of, InChunk
<1>8. Colors!CheckPartColors(c, pairs)[i] =
        Colors!Availability(pairs[i], ElementsOf(c, pairs[i]), LinesOf(c, pairs[i]),
                            Colors!Complete(pairs[i]) /\ i \in related)
  BY <1>6, <1>7
<1>9. (Colors!Complete(pairs[i]) /\ i \in related) = RelatedOnly(c, pairs[i])
  BY <1>5 DEF RelatedOnly
<1> QED
  BY <1>8, <1>9

(***************************************************************************)
(* A batch of any length gives each item what a check of that item alone   *)
(* would give, for any positive size of the chunks (session.py,            *)
(* _check_resolved_part_colors).                                           *)
(***************************************************************************)
THEOREM PartColorsPerItemAlways == Spec => []PartColorsPerItem
<1>1. Asked => PartColorsPerItem
  <2> SUFFICES ASSUME Asked, Answered("colors"), NEW i \in DOMAIN question.items
               PROVE  answer.availability[i]
                        = Colors!CheckPartColor(question.catalog, question.items[i].pair)
    BY DEF PartColorsPerItem
  <2> PICK c : c = question.catalog
    OBVIOUS
  <2> PICK items : items = question.items
    OBVIOUS
  <2> PICK pairs : pairs = [k \in DOMAIN items |-> items[k].pair]
    OBVIOUS
  <2> PICK pair : pair = items[i].pair
    OBVIOUS
  <2>1. /\ Len(items) \in Nat /\ DOMAIN items = 1 .. Len(items)
        /\ answer = ColorsAnswer
    BY ColorAssumption DEF Asked, Given, Answered
  <2>2. answer.availability = Colors!CheckPartColors(c, pairs)
    BY <2>1 DEF ColorsAnswer
  <2>3. Len(pairs) = Len(items) /\ DOMAIN pairs = 1 .. Len(items)
    BY <2>1
  <2>4. Len(<<pair>>) = 1 /\ DOMAIN <<pair>> = 1 .. 1 /\ <<pair>>[1] = pair /\ 1 \in 1 .. 1
    OBVIOUS
  <2>5. pairs[i] = pair
    OBVIOUS
  <2>6. Colors!CheckPartColors(c, pairs)[i] =
          Colors!Availability(pair, ElementsOf(c, pair), LinesOf(c, pair), RelatedOnly(c, pair))
    BY <2>1, <2>3, <2>5, BatchIsPerItem
  <2>7. Colors!CheckPartColors(c, <<pair>>)[1] =
          Colors!Availability(pair, ElementsOf(c, pair), LinesOf(c, pair), RelatedOnly(c, pair))
    BY <2>4, BatchIsPerItem
  <2>8. Colors!CheckPartColor(c, pair) = Colors!CheckPartColors(c, <<pair>>)[1]
    BY DEF Colors!CheckPartColor
  <2> QED
    BY <2>2, <2>6, <2>7, <2>8
<1> QED
  BY <1>1, AskedAlways, PTL

-----------------------------------------------------------------------------
(* Where a column is in its table. *)
Place(t, column) == CHOOSE i \in DOMAIN Importer!Columns[t] : Importer!Columns[t][i][1] = column

LEMMA PlaceIs ==
  ASSUME NEW t, NEW column \in Importer!Required(t)
  PROVE  /\ Place(t, column) \in DOMAIN Importer!Columns[t]
         /\ Importer!Columns[t][Place(t, column)][1] = column
         /\ \A row : Importer!Cell(t, row, column) = row[Place(t, column)]
<1>1. \E i \in DOMAIN Importer!Columns[t] : Importer!Columns[t][i][1] = column
  BY DEF Importer!Required
<1> QED
  BY <1>1 DEF Place, Importer!Cell

(* An imported dataset: no table has an error, and no reference fails. *)
Imported(dataset, a) ==
  /\ \A t \in DOMAIN Importer!Columns : Importer!TableError(t, dataset[t]) = None
  /\ Importer!ReferencesHold(dataset)
  /\ a.tables = [t \in DOMAIN dataset |-> dataset[t].rows]

LEMMA ErrorsAre ==
  ASSUME NEW t, NEW data
  PROVE  Importer!TableError(t, data) \in {"schema", "import", "unexpected", None}
<1>1. \A row : Importer!RowError(t, row) \in {"schema", "unexpected"}
  BY DEF Importer!RowError
<1> QED
  BY <1>1 DEF Importer!TableError

LEMMA ImportedIs ==
  ASSUME NEW dataset, NEW fault, NEW a, a = Importer!ImportCatalog(dataset, fault),
         a.outcome = "imported"
  PROVE  Imported(dataset, a)
<1> DEFINE Error(i) == Importer!TableError(Importer!Tables[i], dataset[Importer!Tables[i]])
           bad == {i \in DOMAIN Importer!Tables : Error(i) # None}
<1>1. DOMAIN Importer!Tables = 1 .. 12
  BY DEF Importer!Tables
<1>2. \A t \in DOMAIN Importer!Columns : \E i \in 1 .. 12 : t = Importer!Tables[i]
  BY DEF Importer!Tables, Importer!Columns
<1> PICK least : least = Importer!Min(bad)
  OBVIOUS
<1> PICK e : e = Error(least)
  OBVIOUS
<1>3. bad # {} => a.outcome # "imported"
  <2> SUFFICES ASSUME bad # {} PROVE a.outcome # "imported"
    OBVIOUS
  <2>1. bad \subseteq Nat
    <3>1. bad \subseteq 1 .. 12
      BY <1>1
    <3>2. 1 .. 12 \subseteq Nat
      OBVIOUS
    <3> HIDE DEF bad
    <3> QED
      BY <3>1, <3>2
  <2>2. least \in bad
    BY <2>1, MinIs
  <2>3. e # None /\ e \in {"schema", "import", "unexpected", None}
    BY <2>2, ErrorsAre
  <2>4. a.outcome = e
    BY DEF Importer!ImportCatalog
  <2> QED
    BY <2>3, <2>4
<1>4. bad = {}
  BY <1>3
<1>5. Importer!ReferencesHold(dataset) /\ a.tables = [t \in DOMAIN dataset |-> dataset[t].rows]
  BY <1>4 DEF Importer!ImportCatalog
<1> QED
  BY <1>1, <1>2, <1>4, <1>5 DEF Imported

RowsOf(dataset, t) == {dataset[t].rows[i] : i \in DOMAIN dataset[t].rows}

LEMMA IntegersAre ==
  ASSUME NEW dataset, Importer!IsDataset(dataset), NEW t \in DOMAIN Importer!Columns,
         Importer!TableError(t, dataset[t]) = None,
         NEW row \in RowsOf(dataset, t), NEW column \in Importer!Required(t),
         Importer!Columns[t][Place(t, column)][2] = "integer"
  PROVE  Importer!Cell(t, row, column)[1] = "int"
<1> PICK rows : rows = dataset[t].rows
  OBVIOUS
<1> PICK i \in DOMAIN rows : row = rows[i]
  BY DEF RowsOf
<1> PICK p : p = Place(t, column)
  OBVIOUS
<1>1. p \in DOMAIN row /\ Importer!Cell(t, row, column) = row[p]
  BY PlaceIs DEF Importer!IsDataset
<1> DEFINE malformed == {j \in DOMAIN rows : Importer!Malformed(t, rows[j]) # {}}
<1>2. malformed = {}
  <2> SUFFICES ASSUME malformed # {} PROVE FALSE
    OBVIOUS
  <2>1. malformed \subseteq Nat
    BY DEF Importer!IsDataset
  <2> PICK r : r = rows[Importer!Min(malformed)]
    OBVIOUS
  <2>2. Importer!RowError(t, r) # None
    BY ImportAssumption DEF Importer!RowError, Importer!Errors
  <2>3. "schema" # None /\ "import" # None
    BY ImportAssumption DEF Importer!Errors
  <2> QED
    BY <2>2, <2>3 DEF Importer!TableError
<1>3. Importer!Malformed(t, row) = {}
  BY <1>2
<1>4. Importer!Converts("integer", row[p])
  BY <1>1, <1>3 DEF Importer!Malformed
<1> QED
  BY <1>1, <1>4 DEF Importer!Converts

(* A check that does not fail, and would report no empty text. *)
LEMMA CheckIs ==
  ASSUME NEW dataset, Importer!IsDataset(dataset), NEW check,
         check.table \in DOMAIN Importer!Columns,
         ~Importer!Fails(dataset, check),
         \A row \in RowsOf(dataset, check.table) :
           Importer!Dangles(dataset, check, row) =>
             Importer!Cell(check.table, row, check.reported) # <<"empty">>,
         NEW row \in RowsOf(dataset, check.table)
  PROVE  \/ Importer!Optional(check.optional, Importer!Cell(check.table, row, check.column))
         \/ \E target \in check.targets :
              Importer!Cell(check.table, row, check.column) \in Importer!Values(dataset, target)
<1> PICK rows : rows = dataset[check.table].rows
  OBVIOUS
<1> DEFINE dangling == {i \in DOMAIN rows : Importer!Dangles(dataset, check, rows[i])}
<1>1. DOMAIN rows = 1 .. Len(rows) /\ Len(rows) \in Nat
  BY DEF Importer!IsDataset
<1>2. dangling = {}
  <2> SUFFICES ASSUME dangling # {} PROVE FALSE
    OBVIOUS
  <2>1. dangling \subseteq Nat
    BY <1>1
  <2> PICK least : least = Importer!Min(dangling)
    OBVIOUS
  <2>2. least \in dangling
    BY <2>1, MinIs
  <2>3. Importer!Cell(check.table, rows[least], check.reported) # <<"empty">>
    BY <2>2 DEF RowsOf
  <2> QED
    BY <2>3 DEF Importer!Fails
<1>3. ~Importer!Dangles(dataset, check, row)
  BY <1>2 DEF RowsOf
<1> QED
  BY <1>3 DEF Importer!Dangles

TableNames == {"themes", "colors", "part_categories", "parts", "part_relationships", "elements",
               "sets", "minifigs", "inventories", "inventory_parts", "inventory_sets",
               "inventory_minifigs"}

LEMMA TablesAre == DOMAIN Importer!Columns = TableNames
BY DEF Importer!Columns, TableNames

Integer(t, column) ==
  column \in Importer!Required(t) /\ Importer!Columns[t][Place(t, column)][2] = "integer"

LEMMA IntegerIs ==
  ASSUME NEW t, NEW column, NEW p \in DOMAIN Importer!Columns[t],
         Importer!Columns[t][p] = <<column, "integer">>,
         \A i \in DOMAIN Importer!Columns[t] : Importer!Columns[t][i][1] = column => i = p
  PROVE  Integer(t, column)
<1>1. column \in Importer!Required(t)
  BY DEF Importer!Required
<1>2. Place(t, column) = p
  BY <1>1, PlaceIs
<1> QED
  BY <1>1, <1>2 DEF Integer

LEMMA IntegerColumns ==
  /\ Integer("elements", "color_id") /\ Integer("inventory_parts", "color_id")
  /\ Integer("inventory_parts", "inventory_id")
  /\ Integer("inventory_sets", "inventory_id")
  /\ Integer("inventory_minifigs", "inventory_id")
<1>1. Integer("elements", "color_id")
  <2> DEFINE cs == Importer!Columns["elements"]
  <2>1. DOMAIN cs = 1 .. 4 /\ 3 \in 1 .. 4 /\ cs[3] = <<"color_id", "integer">>
        /\ \A i \in 1 .. 4 : cs[i][1] = "color_id" => i = 3
    BY DEF Importer!Columns
  <2> QED
    BY <2>1, IntegerIs
<1>2. Integer("inventory_parts", "color_id")
  <2> DEFINE cs == Importer!Columns["inventory_parts"]
  <2>1. DOMAIN cs = 1 .. 6 /\ 3 \in 1 .. 6 /\ cs[3] = <<"color_id", "integer">>
        /\ \A i \in 1 .. 6 : cs[i][1] = "color_id" => i = 3
    BY DEF Importer!Columns
  <2> QED
    BY <2>1, IntegerIs
<1>3. Integer("inventory_parts", "inventory_id")
  <2> DEFINE cs == Importer!Columns["inventory_parts"]
  <2>1. DOMAIN cs = 1 .. 6 /\ 1 \in 1 .. 6 /\ cs[1] = <<"inventory_id", "integer">>
        /\ \A i \in 1 .. 6 : cs[i][1] = "inventory_id" => i = 1
    BY DEF Importer!Columns
  <2> QED
    BY <2>1, IntegerIs
<1>4. Integer("inventory_sets", "inventory_id")
  <2> DEFINE cs == Importer!Columns["inventory_sets"]
  <2>1. DOMAIN cs = 1 .. 3 /\ 1 \in 1 .. 3 /\ cs[1] = <<"inventory_id", "integer">>
        /\ \A i \in 1 .. 3 : cs[i][1] = "inventory_id" => i = 1
    BY DEF Importer!Columns
  <2> QED
    BY <2>1, IntegerIs
<1>5. Integer("inventory_minifigs", "inventory_id")
  <2> DEFINE cs == Importer!Columns["inventory_minifigs"]
  <2>1. DOMAIN cs = 1 .. 3 /\ 1 \in 1 .. 3 /\ cs[1] = <<"inventory_id", "integer">>
        /\ \A i \in 1 .. 3 : cs[i][1] = "inventory_id" => i = 1
    BY DEF Importer!Columns
  <2> QED
    BY <2>1, IntegerIs
<1> QED
  BY <1>1, <1>2, <1>3, <1>4, <1>5

(* The columns that a check reports: they identify an entity. *)
LEMMA IdentifierColumns ==
  /\ "part_num" \in Importer!Required("parts")
  /\ {"child_part_num", "parent_part_num"} \subseteq Importer!Required("part_relationships")
  /\ "element_id" \in Importer!Required("elements")
  /\ "part_num" \in Importer!Required("inventory_parts")
  /\ "set_num" \in Importer!Required("sets")
  /\ "set_num" \in Importer!Required("inventories")
  /\ "set_num" \in Importer!Required("inventory_sets")
  /\ "fig_num" \in Importer!Required("inventory_minifigs")
<1>1. "part_num" \in Importer!Required("parts")
  BY DEF Importer!Columns, Importer!Required
<1>2. {"child_part_num", "parent_part_num"} \subseteq Importer!Required("part_relationships")
  BY DEF Importer!Columns, Importer!Required
<1>3. "element_id" \in Importer!Required("elements")
  BY DEF Importer!Columns, Importer!Required
<1>4. "part_num" \in Importer!Required("inventory_parts")
  BY DEF Importer!Columns, Importer!Required
<1>5. "set_num" \in Importer!Required("sets")
  BY DEF Importer!Columns, Importer!Required
<1>7. "set_num" \in Importer!Required("inventories")
  BY DEF Importer!Columns, Importer!Required
<1>8. "set_num" \in Importer!Required("inventory_sets")
  BY DEF Importer!Columns, Importer!Required
<1>6. "fig_num" \in Importer!Required("inventory_minifigs")
  BY DEF Importer!Columns, Importer!Required
<1> QED
  BY <1>1, <1>2, <1>3, <1>4, <1>5, <1>6, <1>7, <1>8

CellsOf(dataset, t, column) == {Importer!Cell(t, row, column) : row \in RowsOf(dataset, t)}

(* What an imported catalog has in a column. *)
LEMMA CellsAre ==
  ASSUME NEW dataset, Importer!IsDataset(dataset), Imported(dataset, answer),
         NEW t \in TableNames, NEW column
  PROVE  /\ Cells(t, column) = CellsOf(dataset, t, column)
         /\ Cells(t, column) = Importer!Values(dataset, <<t, column>>)
<1> PICK rows : rows = dataset[t].rows
  OBVIOUS
<1>1. t \in DOMAIN dataset
  BY TablesAre DEF Importer!IsDataset
<1>2. answer.tables[t] = rows
  BY <1>1 DEF Imported
<1>3. ToSet(rows) = RowsOf(dataset, t)
  BY DEF ToSet, RowsOf
<1>4. Cells(t, column) = {Importer!Cell(t, row, column) : row \in RowsOf(dataset, t)}
  BY <1>2, <1>3 DEF Cells
<1> PICK target : target = <<t, column>>
  OBVIOUS
<1>5. Importer!Values(dataset, target) = {Importer!Cell(t, rows[i], column) : i \in DOMAIN rows}
  BY DEF Importer!Values
<1> QED
  BY <1>4, <1>5 DEF RowsOf, CellsOf

(* A reference that is checked has its target, or is of the optional kind. *)
LEMMA TargetIs ==
  ASSUME NEW dataset, Importer!IsDataset(dataset), Imported(dataset, answer), NoEmptyIdentifier,
         NEW t \in TableNames, NEW column, NEW targets, NEW optional, NEW reported,
         Importer!Check(t, column, targets, optional, reported) \in Importer!References,
         \/ reported \in Identifiers \cap Importer!Required(t)
         \/ Integer(t, reported)
         \/ reported = column /\ optional = {"empty"},
         NEW cell \in Cells(t, column)
  PROVE  \/ Importer!Optional(optional, cell)
         \/ \E target \in targets : cell \in Importer!Values(dataset, target)
<1> PICK check : check = Importer!Check(t, column, targets, optional, reported)
  OBVIOUS
<1>1. /\ check.table = t /\ check.column = column /\ check.targets = targets
      /\ check.optional = optional /\ check.reported = reported
  BY DEF Importer!Check
<1>2. ~Importer!Fails(dataset, check)
  BY DEF Imported, Importer!ReferencesHold
<1>3. PICK found \in RowsOf(dataset, t) : cell = Importer!Cell(t, found, column)
  <2>1. cell \in CellsOf(dataset, t, column)
    BY CellsAre
  <2> QED
    BY <2>1 DEF CellsOf
<1>4. ASSUME NEW row \in RowsOf(dataset, t), Importer!Dangles(dataset, check, row)
      PROVE  Importer!Cell(t, row, reported) # <<"empty">>
  <2>1. CASE reported \in Identifiers \cap Importer!Required(t)
    <3>1. t \in DOMAIN answer.tables
      BY TablesAre DEF Imported, Importer!IsDataset
    <3>2. <<"empty">> \notin Cells(t, reported)
      BY <2>1, <3>1 DEF NoEmptyIdentifier
    <3>3. Cells(t, reported) = CellsOf(dataset, t, reported)
      BY CellsAre
    <3> QED
      BY <3>2, <3>3 DEF CellsOf
  <2>2. CASE Integer(t, reported)
    <3>1. Importer!TableError(t, dataset[t]) = None
      BY TablesAre DEF Imported
    <3>2. Importer!Cell(t, row, reported)[1] = "int"
      BY <2>2, <3>1, TablesAre, IntegersAre DEF Integer
    <3> QED
      BY <3>2
  <2>3. CASE reported = column /\ optional = {"empty"}
    <3>1. ~Importer!Optional(optional, Importer!Cell(t, row, column))
      BY <1>1, <1>4 DEF Importer!Dangles
    <3>2. Importer!Cell(t, row, column)[1] # "empty"
      BY <2>3, <3>1 DEF Importer!Optional
    <3> QED
      BY <2>3, <3>2
  <2> QED
    BY <2>1, <2>2, <2>3
<1>5. check.table \in DOMAIN Importer!Columns
  BY <1>1, TablesAre
<1> QED
  BY <1>1, <1>2, <1>3, <1>4, <1>5, CheckIs

LEMMA KeyIs ==
  ASSUME NEW dataset, Importer!IsDataset(dataset), Imported(dataset, answer), NoEmptyIdentifier,
         NEW t \in TableNames, NEW column, NEW u \in TableNames, NEW id, NEW reported,
         Importer!Check(t, column, {<<u, id>>}, {}, reported) \in Importer!References,
         reported \in Identifiers \cap Importer!Required(t) \/ Integer(t, reported)
  PROVE  Cells(t, column) \subseteq Cells(u, id)
<1> SUFFICES ASSUME NEW cell \in Cells(t, column) PROVE cell \in Cells(u, id)
  OBVIOUS
<1>1. \/ Importer!Optional({}, cell)
      \/ \E target \in {<<u, id>>} : cell \in Importer!Values(dataset, target)
  BY TargetIs
<1>2. ~Importer!Optional({}, cell)
  BY DEF Importer!Optional
<1>3. cell \in Importer!Values(dataset, <<u, id>>)
  BY <1>1, <1>2
<1> QED
  BY <1>3, CellsAre

(* Colours may also be below 0, in two tables. *)
LEMMA ColorIs ==
  ASSUME NEW dataset, Importer!IsDataset(dataset), Imported(dataset, answer), NoEmptyIdentifier,
         NEW t \in TableNames, NEW reported, Integer(t, "color_id"),
         Importer!Check(t, "color_id", {<<"colors", "id">>}, {"negative"}, reported)
           \in Importer!References,
         reported \in Identifiers \cap Importer!Required(t) \/ Integer(t, reported),
         NEW cell \in Cells(t, "color_id")
  PROVE  cell \in Cells("colors", "id") \/ cell[2] < 0
<1>1. \/ Importer!Optional({"negative"}, cell)
      \/ \E target \in {<<"colors", "id">>} : cell \in Importer!Values(dataset, target)
  BY TargetIs
<1>2. Importer!Optional({"negative"}, cell) => cell[2] < 0
  <2>1. cell \in CellsOf(dataset, t, "color_id")
    BY CellsAre
  <2>2. PICK row \in RowsOf(dataset, t) : cell = Importer!Cell(t, row, "color_id")
    BY <2>1 DEF CellsOf
  <2>3. Importer!TableError(t, dataset[t]) = None
    BY TablesAre DEF Imported
  <2>4. cell[1] = "int"
    BY <2>2, <2>3, TablesAre, IntegersAre DEF Integer
  <2> QED
    BY <2>4 DEF Importer!Optional
<1>3. cell \in Importer!Values(dataset, <<"colors", "id">>) => cell \in Cells("colors", "id")
  BY CellsAre DEF TableNames
<1> QED
  BY <1>1, <1>2, <1>3

(***************************************************************************)
(* In an imported catalog every reference has its target, for files of any *)
(* length and any cells, except where an identifier is the empty text      *)
(* (importers.py, import_catalog).                                         *)
(***************************************************************************)
THEOREM ImportedSoundAlways == Spec => []ImportedSound
<1>1. Asked => ImportedSound
  <2> SUFFICES ASSUME Asked, Answered("import"), answer.outcome = "imported", NoEmptyIdentifier
               PROVE  ImportedSound
    BY DEF ImportedSound
  <2> PICK dataset : dataset = question.dataset
    OBVIOUS
  <2>1. Importer!IsDataset(dataset) /\ Imported(dataset, answer)
    <3>1. /\ answer = Importer!ImportCatalog(dataset, question.fault)
          /\ Importer!IsDataset(dataset)
      BY ImportAssumption DEF Asked, Given, Answered, ImportAnswer
    <3> QED
      BY <3>1, ImportedIs
  <2> DEFINE Checks(t, column, u, id, reported) ==
               Importer!Check(t, column, {<<u, id>>}, {}, reported) \in Importer!References
  <2>2. ASSUME NEW key \in ForeignKeys
        PROVE  Cells(key[1], key[2]) \subseteq Cells(key[3], key[4])
    <3>1. Cells("parts", "part_cat_id") \subseteq Cells("part_categories", "id")
      <4>1. Importer!Check("parts", "part_cat_id", {<<"part_categories", "id">>}, {}, "part_num")
              \in Importer!References
        BY DEF Importer!References
      <4> QED
        BY <2>1, <4>1, KeyIs, IdentifierColumns DEF TableNames, Identifiers
    <3>2. Cells("part_relationships", "child_part_num") \subseteq Cells("parts", "part_num")
      <4>1. Importer!Check("part_relationships", "child_part_num", {<<"parts", "part_num">>}, {}, "child_part_num")
              \in Importer!References
        BY DEF Importer!References
      <4> QED
        BY <2>1, <4>1, KeyIs, IdentifierColumns DEF TableNames, Identifiers
    <3>3. Cells("part_relationships", "parent_part_num") \subseteq Cells("parts", "part_num")
      <4>1. Importer!Check("part_relationships", "parent_part_num", {<<"parts", "part_num">>}, {}, "parent_part_num")
              \in Importer!References
        BY DEF Importer!References
      <4> QED
        BY <2>1, <4>1, KeyIs, IdentifierColumns DEF TableNames, Identifiers
    <3>4. Cells("elements", "part_num") \subseteq Cells("parts", "part_num")
      <4>1. Importer!Check("elements", "part_num", {<<"parts", "part_num">>}, {}, "element_id")
              \in Importer!References
        BY DEF Importer!References
      <4> QED
        BY <2>1, <4>1, KeyIs, IdentifierColumns DEF TableNames, Identifiers
    <3>5. Cells("sets", "theme_id") \subseteq Cells("themes", "id")
      <4>1. Importer!Check("sets", "theme_id", {<<"themes", "id">>}, {}, "set_num")
              \in Importer!References
        BY DEF Importer!References
      <4> QED
        BY <2>1, <4>1, KeyIs, IdentifierColumns DEF TableNames, Identifiers
    <3>6. Cells("inventory_parts", "part_num") \subseteq Cells("parts", "part_num")
      <4>1. Importer!Check("inventory_parts", "part_num", {<<"parts", "part_num">>}, {}, "part_num")
              \in Importer!References
        BY DEF Importer!References
      <4> QED
        BY <2>1, <4>1, KeyIs, IdentifierColumns DEF TableNames, Identifiers
    <3>7. Cells("inventory_parts", "inventory_id") \subseteq Cells("inventories", "id")
      <4>1. Importer!Check("inventory_parts", "inventory_id", {<<"inventories", "id">>}, {}, "inventory_id")
              \in Importer!References
        BY DEF Importer!References
      <4> QED
        BY <2>1, <4>1, KeyIs, IntegerColumns DEF TableNames, Identifiers
    <3>8. Cells("inventory_sets", "set_num") \subseteq Cells("sets", "set_num")
      <4>1. Importer!Check("inventory_sets", "set_num", {<<"sets", "set_num">>}, {}, "set_num")
              \in Importer!References
        BY DEF Importer!References
      <4> QED
        BY <2>1, <4>1, KeyIs, IdentifierColumns DEF TableNames, Identifiers
    <3>9. Cells("inventory_sets", "inventory_id") \subseteq Cells("inventories", "id")
      <4>1. Importer!Check("inventory_sets", "inventory_id", {<<"inventories", "id">>}, {}, "inventory_id")
              \in Importer!References
        BY DEF Importer!References
      <4> QED
        BY <2>1, <4>1, KeyIs, IntegerColumns DEF TableNames, Identifiers
    <3>10. Cells("inventory_minifigs", "fig_num") \subseteq Cells("minifigs", "fig_num")
      <4>1. Importer!Check("inventory_minifigs", "fig_num", {<<"minifigs", "fig_num">>}, {}, "fig_num")
              \in Importer!References
        BY DEF Importer!References
      <4> QED
        BY <2>1, <4>1, KeyIs, IdentifierColumns DEF TableNames, Identifiers
    <3>11. Cells("inventory_minifigs", "inventory_id") \subseteq Cells("inventories", "id")
      <4>1. Importer!Check("inventory_minifigs", "inventory_id", {<<"inventories", "id">>}, {}, "inventory_id")
              \in Importer!References
        BY DEF Importer!References
      <4> QED
        BY <2>1, <4>1, KeyIs, IntegerColumns DEF TableNames, Identifiers
    <3> QED
      BY <3>1, <3>2, <3>3, <3>4, <3>5, <3>6, <3>7, <3>8, <3>9, <3>10, <3>11 DEF ForeignKeys
  <2>3. Cells("themes", "parent_id") \subseteq Cells("themes", "id") \cup {<<"empty">>}
    <3> SUFFICES ASSUME NEW cell \in Cells("themes", "parent_id")
                 PROVE  cell \in Cells("themes", "id") \cup {<<"empty">>}
      OBVIOUS
    <3>1. Importer!Check("themes", "parent_id", {<<"themes", "id">>}, {"empty"}, "parent_id")
            \in Importer!References
      BY DEF Importer!References
    <3>2. \/ Importer!Optional({"empty"}, cell)
          \/ \E target \in {<<"themes", "id">>} : cell \in Importer!Values(dataset, target)
      BY <2>1, <3>1, TargetIs DEF TableNames
    <3>3. Importer!Optional({"empty"}, cell) => cell[1] = "empty"
      BY DEF Importer!Optional
    <3>4. Importer!IsCell(cell)
      <4>6. "themes" \in TableNames
        BY DEF TableNames
      <4>7. Cells("themes", "parent_id") = CellsOf(dataset, "themes", "parent_id")
        BY <2>1, <4>6, CellsAre
      <4>1. cell \in CellsOf(dataset, "themes", "parent_id")
        BY <4>7
      <4>2. PICK row \in RowsOf(dataset, "themes") : cell = Importer!Cell("themes", row, "parent_id")
        BY <4>1 DEF CellsOf
      <4>3. "parent_id" \in Importer!Required("themes")
        BY DEF Importer!Columns, Importer!Required
      <4> PICK p : p = Place("themes", "parent_id")
        OBVIOUS
      <4>4. p \in DOMAIN Importer!Columns["themes"] /\ cell = row[p]
        BY <4>2, <4>3, PlaceIs
      <4>5. "themes" \in DOMAIN Importer!Columns
        BY TablesAre DEF TableNames
      <4> QED
        BY <2>1, <4>4, <4>5 DEF RowsOf, Importer!IsDataset
    <3>5. cell[1] = "empty" => cell = <<"empty">>
      BY <3>4 DEF Importer!IsCell
    <3>6. cell \in Importer!Values(dataset, <<"themes", "id">>) => cell \in Cells("themes", "id")
      BY <2>1, CellsAre DEF TableNames
    <3> QED
      BY <3>2, <3>3, <3>5, <3>6
  <2> DEFINE colored == Cells("elements", "color_id") \cup Cells("inventory_parts", "color_id")
  <2>4. ASSUME NEW cell \in colored
        PROVE  cell \in Cells("colors", "id") \/ cell[2] < 0
    <3>1. Importer!Check("elements", "color_id", {<<"colors", "id">>}, {"negative"}, "element_id")
            \in Importer!References
      BY DEF Importer!References
    <3>2. Importer!Check("inventory_parts", "color_id", {<<"colors", "id">>}, {"negative"},
                         "color_id") \in Importer!References
      BY DEF Importer!References
    <3>3. CASE cell \in Cells("elements", "color_id")
      BY <2>1, <3>1, <3>3, ColorIs, IntegerColumns, IdentifierColumns DEF TableNames, Identifiers
    <3>4. CASE cell \in Cells("inventory_parts", "color_id")
      BY <2>1, <3>2, <3>4, ColorIs, IntegerColumns DEF TableNames
    <3> QED
      BY <3>3, <3>4
  <2>5. Cells("inventories", "set_num") \subseteq
          Cells("sets", "set_num") \cup Cells("minifigs", "fig_num")
    <3> SUFFICES ASSUME NEW cell \in Cells("inventories", "set_num")
                 PROVE  cell \in Cells("sets", "set_num") \cup Cells("minifigs", "fig_num")
      OBVIOUS
    <3> PICK targets : targets = {<<"sets", "set_num">>, <<"minifigs", "fig_num">>}
      OBVIOUS
    <3>1. Importer!Check("inventories", "set_num", targets, {}, "set_num") \in Importer!References
      BY DEF Importer!References
    <3>2. \/ Importer!Optional({}, cell)
          \/ \E target \in targets : cell \in Importer!Values(dataset, target)
      BY <2>1, <3>1, TargetIs, IdentifierColumns DEF TableNames, Identifiers
    <3>3. ~Importer!Optional({}, cell)
      BY DEF Importer!Optional
    <3> QED
      BY <2>1, <3>2, <3>3, CellsAre DEF TableNames
  <2> QED
    BY <2>2, <2>3, <2>4, <2>5 DEF ImportedSound
<1> QED
  BY <1>1, AskedAlways, PTL

-----------------------------------------------------------------------------
LEMMA Induct ==
  ASSUME NEW T, 0 \in T, \A n \in Nat : n \in T => n + 1 \in T
  PROVE  \A n \in Nat : n \in T
<1> SUFFICES ASSUME NEW n \in Nat, n \notin T PROVE FALSE
  OBVIOUS
<1> DEFINE U == {m \in Nat : m \notin T}
<1>1. PICK x \in U : \A y \in U : x <= y
  BY LeastNat
<1>2. x # 0 /\ x - 1 \in Nat /\ x - 1 \notin U
  BY <1>1
<1> QED
  BY <1>1, <1>2

(* A walk of n steps from a. *)
Walks(D, a, step, n) ==
  {h \in [0 .. n -> D] : h[0] = a /\ \A i \in 0 .. n - 1 : h[i + 1] = step[h[i]]}

(* Steps on a set can be taken any number of times. *)
LEMMA WalkExists ==
  ASSUME NEW D, NEW a \in D, NEW step \in [D -> D], NEW n \in Nat
  PROVE  Walks(D, a, step, n) # {}
<1> DEFINE T == {m \in Nat : Walks(D, a, step, m) # {}}
<1>1. 0 \in T
  <2>1. [i \in 0 .. 0 |-> a] \in Walks(D, a, step, 0)
    BY DEF Walks
  <2> QED
    BY <2>1
<1>2. ASSUME NEW m \in Nat, m \in T PROVE m + 1 \in T
  <2> PICK h : h \in Walks(D, a, step, m)
    BY <1>2
  <2> DEFINE g == [i \in 0 .. m + 1 |-> IF i = m + 1 THEN step[h[m]] ELSE h[i]]
  <2>1. h \in [0 .. m -> D] /\ h[0] = a /\ \A i \in 0 .. m - 1 : h[i + 1] = step[h[i]]
    BY DEF Walks
  <2>2. g \in [0 .. m + 1 -> D] /\ g[0] = a
    BY <2>1
  <2>3. ASSUME NEW i \in 0 .. m PROVE g[i + 1] = step[g[i]]
    <3>1. CASE i = m
      BY <2>1, <3>1
    <3>2. CASE i # m
      BY <2>1, <3>2
    <3> QED
      BY <3>1, <3>2
  <2>4. m + 1 - 1 = m
    OBVIOUS
  <2>5. g \in Walks(D, a, step, m + 1)
    BY <2>2, <2>3, <2>4 DEF Walks
  <2> QED
    BY <2>5
<1> HIDE DEF T
<1>3. n \in T
  BY <1>1, <1>2, Induct
<1> QED
  BY <1>3 DEF T

LEMMA WalkUnique ==
  ASSUME NEW D, NEW a \in D, NEW step \in [D -> D], NEW n \in Nat, NEW m \in Nat,
         NEW g \in Walks(D, a, step, n), NEW h \in Walks(D, a, step, m),
         NEW i \in Nat, i <= n, i <= m
  PROVE  g[i] = h[i]
<1> DEFINE T == {j \in Nat : j <= n /\ j <= m => g[j] = h[j]}
<1>1. 0 \in T
  BY DEF Walks
<1>2. ASSUME NEW j \in Nat, j \in T PROVE j + 1 \in T
  BY <1>2 DEF Walks
<1> HIDE DEF T
<1>3. i \in T
  BY <1>1, <1>2, Induct
<1> QED
  BY <1>3 DEF T

(* ... and so there is the sequence of all of them. *)
Runs(D, a, step) == {f \in [Nat -> D] : f[0] = a /\ \A n \in Nat : f[n + 1] = step[f[n]]}

LEMMA Recursion ==
  ASSUME NEW D, NEW a \in D, NEW step \in [D -> D]
  PROVE  Runs(D, a, step) # {}
<1> DEFINE W(n) == CHOOSE h : h \in Walks(D, a, step, n)
           f == [n \in Nat |-> W(n)[n]]
<1>1. \A n \in Nat : W(n) \in Walks(D, a, step, n)
  BY WalkExists
<1> HIDE DEF W
<1>5. ASSUME NEW n \in Nat PROVE W(n)[n] \in D
  <2>1. W(n) \in [0 .. n -> D]
    BY <1>1 DEF Walks
  <2> QED
    BY <2>1
<1>2. f \in [Nat -> D]
  BY <1>5
<1>3. f[0] = a
  BY <1>1 DEF Walks
<1>4. ASSUME NEW n \in Nat PROVE f[n + 1] = step[f[n]]
  <2>1. W(n) \in Walks(D, a, step, n) /\ W(n + 1) \in Walks(D, a, step, n + 1)
    BY <1>1
  <2>2. W(n)[n] = W(n + 1)[n]
    BY <2>1, WalkUnique
  <2>3. W(n + 1)[n + 1] = step[W(n + 1)[n]]
    <3> PICK h : h = W(n + 1)
      OBVIOUS
    <3>1. \A i \in 0 .. n + 1 - 1 : h[i + 1] = step[h[i]]
      BY <2>1 DEF Walks
    <3> QED
      BY <3>1
  <2> QED
    BY <2>2, <2>3
<1>6. f \in Runs(D, a, step)
  BY <1>2, <1>3, <1>4 DEF Runs
<1> QED
  BY <1>6

-----------------------------------------------------------------------------
LEMMA LinksMin ==
  ASSUME NEW S, S \subseteq Nat, S # {}
  PROVE  Links!Min(S) = Min(S) /\ Min(S) \in S /\ \A y \in S : Min(S) <= y
<1>1. Links!Min(S) = Min(S)
  BY DEF Links!Min, Min
<1> QED
  BY <1>1, MinIs

(* The next part on the way up: the least parent, or the part itself. *)
Up(relations, part) ==
  IF Links!MoldParents(relations, part) = {} THEN part
  ELSE Min(Links!MoldParents(relations, part))

LEMMA UpIs ==
  ASSUME NEW relations, Links!IsRelations(relations), NEW part \in Nat
  PROVE  /\ Links!MoldParents(relations, part) \subseteq Nat
         /\ Up(relations, part) \in Nat
<1>1. Links!MoldParents(relations, part) \subseteq Nat
  BY DEF Links!MoldParents, Links!IsRelations
<1> QED
  BY <1>1, LinksMin DEF Up

Ways(relations, part) ==
  {f \in [Nat -> Nat] : f[0] = part /\ \A n \in Nat : f[n + 1] = Up(relations, f[n])}

LEMMA WayExists ==
  ASSUME NEW relations, Links!IsRelations(relations), NEW part \in Nat
  PROVE  \E a : a \in Ways(relations, part)
<1> DEFINE step == [p \in Nat |-> Up(relations, p)]
<1>1. step \in [Nat -> Nat]
  BY UpIs
<1> HIDE DEF step
<1> PICK f : f \in Runs(Nat, part, step)
  BY <1>1, Recursion
<1>2. f \in [Nat -> Nat] /\ f[0] = part /\ \A n \in Nat : f[n + 1] = step[f[n]]
  BY DEF Runs
<1>3. \A n \in Nat : f[n + 1] = Up(relations, f[n])
  BY <1>2 DEF step
<1> QED
  BY <1>2, <1>3 DEF Ways

(* The way comes back to a part within d steps. *)
Short(a, d) == \E i \in 0 .. d - 1 : a[d] = a[i]

Orbit(a) == {a[n] : n \in Nat}

LEMMA Shifted ==
  ASSUME NEW relations, NEW part, NEW a \in Ways(relations, part), NEW i \in Nat, NEW d \in Nat,
         a[d] = a[i], NEW j \in Nat
  PROVE  a[d + j] = a[i + j]
<1> DEFINE T == {k \in Nat : a[d + k] = a[i + k]}
<1>1. 0 \in T
  OBVIOUS
<1>2. ASSUME NEW k \in Nat, k \in T PROVE k + 1 \in T
  <2>1. a[d + k + 1] = Up(relations, a[d + k]) /\ a[i + k + 1] = Up(relations, a[i + k])
    BY DEF Ways
  <2>2. d + k + 1 = d + (k + 1) /\ i + k + 1 = i + (k + 1)
    OBVIOUS
  <2> QED
    BY <1>2, <2>1, <2>2
<1> HIDE DEF T
<1>3. j \in T
  BY <1>1, <1>2, Induct
<1> QED
  BY <1>3 DEF T

(* The rest of a way is the way from where it is. *)
LEMMA RestIs ==
  ASSUME NEW relations, NEW part, NEW a \in Ways(relations, part), NEW j \in Nat, NEW q, q = a[j],
         NEW b \in Ways(relations, q), NEW n \in Nat
  PROVE  b[n] = a[j + n]
<1> DEFINE T == {k \in Nat : b[k] = a[j + k]}
<1>1. 0 \in T
  BY DEF Ways
<1>2. ASSUME NEW k \in Nat, k \in T PROVE k + 1 \in T
  <2>1. b[k + 1] = Up(relations, b[k]) /\ a[j + k + 1] = Up(relations, a[j + k])
    BY DEF Ways
  <2>2. j + k + 1 = j + (k + 1)
    OBVIOUS
  <2> QED
    BY <1>2, <2>1, <2>2
<1> HIDE DEF T
<1>3. n \in T
  BY <1>1, <1>2, Induct
<1> QED
  BY <1>3 DEF T

LEMMA ShortLater ==
  ASSUME NEW relations, NEW part, NEW a \in Ways(relations, part), NEW d \in Nat, Short(a, d),
         NEW j \in Nat, NEW q, q = a[j], NEW b \in Ways(relations, q)
  PROVE  Short(b, d) /\ Short(a, d + 1)
<1> PICK i \in 0 .. d - 1 : a[d] = a[i]
  BY DEF Short
<1>1. a[d + j] = a[i + j] /\ a[d + 1] = a[i + 1]
  BY Shifted
<1>2. b[d] = a[j + d] /\ b[i] = a[j + i]
  BY RestIs
<1>3. j + d = d + j /\ j + i = i + j
  OBVIOUS
<1>4. b[d] = b[i]
  BY <1>1, <1>2, <1>3
<1>5. i + 1 \in 0 .. d + 1 - 1
  OBVIOUS
<1> QED
  BY <1>1, <1>4, <1>5 DEF Short

LEMMA OrbitIs ==
  ASSUME NEW relations, NEW part, NEW a \in Ways(relations, part), NEW d \in Nat, Short(a, d)
  PROVE  Orbit(a) = {a[i] : i \in 0 .. d - 1}
<1> PICK i \in 0 .. d - 1 : a[d] = a[i]
  BY DEF Short
<1> DEFINE T == {n \in Nat : a[n] \in {a[k] : k \in 0 .. d - 1}}
<1>1. 0 \in T
  OBVIOUS
<1>2. ASSUME NEW n \in Nat, n \in T PROVE n + 1 \in T
  <2> PICK k \in 0 .. d - 1 : a[n] = a[k]
    BY <1>2
  <2>1. a[n + 1] = a[k + 1]
    BY DEF Ways
  <2> QED
    BY <2>1
<1> HIDE DEF T
<1>3. \A n \in Nat : n \in T
  BY <1>1, <1>2, Induct
<1> QED
  BY <1>3 DEF T, Orbit

LEMMA WayIn ==
  ASSUME NEW relations, NEW part, NEW a \in Ways(relations, part)
  PROVE  a \in [Nat -> Nat] /\ Orbit(a) \subseteq Nat /\ part \in Orbit(a)
BY DEF Ways, Orbit

(* A part without parents ends the way, and only one can. *)
LEMMA RootEnds ==
  ASSUME NEW relations, NEW part, NEW a \in Ways(relations, part), NEW i \in Nat,
         Links!MoldParents(relations, a[i]) = {}, NEW n \in Nat, i <= n
  PROVE  a[n] = a[i]
<1>1. a[i + 1] = a[i]
  BY DEF Ways, Up
<1> DEFINE T == {k \in Nat : a[i + k] = a[i]}
<1>2. 0 \in T
  OBVIOUS
<1>3. ASSUME NEW k \in Nat, k \in T PROVE k + 1 \in T
  <2>1. a[i + k + 1] = Up(relations, a[i + k])
    BY DEF Ways
  <2>2. i + k + 1 = i + (k + 1)
    OBVIOUS
  <2> QED
    BY <1>3, <2>1, <2>2 DEF Up
<1> HIDE DEF T
<1>4. n - i \in T
  BY <1>2, <1>3, Induct
<1>5. i + (n - i) = n
  OBVIOUS
<1> QED
  BY <1>4, <1>5 DEF T

Roots(relations, orbit) == {q \in orbit : Links!MoldParents(relations, q) = {}}

(* The root of an orbit, or the least part of one without. *)
Canonical(relations, orbit) ==
  IF Roots(relations, orbit) # {} THEN CHOOSE q : q \in Roots(relations, orbit) ELSE Min(orbit)

LEMMA OneRoot ==
  ASSUME NEW relations, NEW part, NEW a \in Ways(relations, part),
         NEW i \in Nat, Links!MoldParents(relations, a[i]) = {}
  PROVE  Roots(relations, Orbit(a)) = {a[i]} /\ Canonical(relations, Orbit(a)) = a[i]
<1>1. ASSUME NEW q \in Roots(relations, Orbit(a)) PROVE q = a[i]
  <2> PICK j \in Nat : q = a[j]
    BY DEF Roots, Orbit
  <2>1. Links!MoldParents(relations, a[j]) = {}
    BY DEF Roots
  <2> QED
    BY <2>1, RootEnds
<1>2. a[i] \in Roots(relations, Orbit(a))
  BY DEF Roots, Orbit
<1>3. Roots(relations, Orbit(a)) = {a[i]}
  BY <1>1, <1>2
<1> QED
  BY <1>3 DEF Canonical

LEMMA CanonicalIs ==
  ASSUME NEW relations, NEW part, NEW a \in Ways(relations, part)
  PROVE  Canonical(relations, Orbit(a)) \in Orbit(a)
<1>1. Orbit(a) \subseteq Nat /\ Orbit(a) # {}
  BY WayIn
<1> QED
  BY <1>1, MinIs DEF Canonical, Roots

(* How far a walk has come after n queries. *)
WalkedTo(relations, a, n, w) ==
  /\ Short(a, n) => w.mold = Canonical(relations, Orbit(a))
  /\ ~Short(a, n) => w = [mold |-> None, current |-> a[n], seen |-> {a[i] : i \in 0 .. n}]

LEMMA StepWalks ==
  ASSUME NEW relations, Links!IsRelations(relations), NEW part, NEW a \in Ways(relations, part),
         NEW n \in Nat, NEW w, WalkedTo(relations, a, n, w)
  PROVE  WalkedTo(relations, a, n + 1, Links!MoldStep(relations, w))
<1>1. a \in [Nat -> Nat] /\ None \notin Nat
  BY WayIn, StatusAssumption
<1>2. CASE Short(a, n)
  <2>1. Short(a, n + 1)
    <3>1. a[0] = part
      BY DEF Ways
    <3> QED
      BY <1>2, <3>1, ShortLater
  <2>2. w.mold # None
    BY <1>1, <1>2, CanonicalIs, WayIn DEF WalkedTo
  <2>3. Links!MoldStep(relations, w) = w
    BY <2>2 DEF Links!MoldStep
  <2> QED
    BY <1>2, <2>1, <2>3 DEF WalkedTo
<1>3. CASE ~Short(a, n)
  <2> PICK seen : seen = {a[i] : i \in 0 .. n}
    OBVIOUS
  <2>1. w = [mold |-> None, current |-> a[n], seen |-> seen]
    BY <1>3 DEF WalkedTo
  <2> PICK parents : parents = Links!MoldParents(relations, a[n])
    OBVIOUS
  <2>2. parents \subseteq Nat
    BY <1>1, UpIs
  <2>3. a[n + 1] = Up(relations, a[n])
    BY DEF Ways
  <2>4. CASE parents = {}
    <3>1. a[n + 1] = a[n]
      BY <2>3, <2>4 DEF Up
    <3>2. Short(a, n + 1)
      BY <3>1 DEF Short
    <3>3. Links!MoldStep(relations, w).mold = a[n]
      BY <2>1, <2>4 DEF Links!MoldStep
    <3>4. Links!MoldParents(relations, a[n]) = {}
      BY <2>4
    <3>5. Canonical(relations, Orbit(a)) = a[n]
      BY <3>4, OneRoot
    <3> QED
      BY <3>2, <3>3, <3>5 DEF WalkedTo
  <2>5. CASE parents # {}
    <3> PICK parent : parent = a[n + 1]
      OBVIOUS
    <3>1. Links!Min(parents) = parent
      BY <2>2, <2>3, <2>5, LinksMin DEF Up
    <3>2. Short(a, n + 1) <=> parent \in seen
      BY DEF Short
    <3>3. CASE parent \in seen
      <4>1. Links!MoldStep(relations, w).mold = Links!Min(seen)
        BY <2>1, <2>5, <3>1, <3>3 DEF Links!MoldStep, Links!CycleMold
      <4>2. Orbit(a) = {a[i] : i \in 0 .. n + 1 - 1}
        BY <3>2, <3>3, OrbitIs
      <4>3. Orbit(a) = seen
        BY <4>2
      <4>4. ASSUME NEW q \in Roots(relations, Orbit(a)) PROVE FALSE
        <5> PICK i \in 0 .. n : q = a[i]
          BY <4>3 DEF Roots
        <5>1. Links!MoldParents(relations, a[i]) = {}
          BY DEF Roots
        <5>2. i # n
          BY <2>5, <5>1
        <5>3. a[n] = a[i]
          BY <5>1, RootEnds
        <5> QED
          BY <1>3, <5>2, <5>3 DEF Short
      <4>5. Canonical(relations, Orbit(a)) = Min(seen)
        BY <4>3, <4>4 DEF Canonical
      <4>6. Links!Min(seen) = Min(seen)
        BY <1>1, LinksMin
      <4> QED
        BY <3>2, <3>3, <4>1, <4>5, <4>6 DEF WalkedTo
    <3>4. CASE parent \notin seen
      <4>1. Links!MoldStep(relations, w)
              = [mold |-> None, current |-> parent, seen |-> seen \cup {parent}]
        BY <2>1, <2>5, <3>1, <3>4 DEF Links!MoldStep
      <4>2. seen \cup {parent} = {a[i] : i \in 0 .. n + 1}
        OBVIOUS
      <4> QED
        BY <3>2, <3>4, <4>1, <4>2 DEF WalkedTo
    <3> QED
      BY <3>3, <3>4
  <2> QED
    BY <2>4, <2>5
<1> QED
  BY <1>2, <1>3

WalkStates == [mold : Nat \cup {None}, current : Nat, seen : SUBSET Nat]

LEMMA StepTyped ==
  ASSUME NEW relations, Links!IsRelations(relations), NEW w \in WalkStates
  PROVE  Links!MoldStep(relations, w) \in WalkStates
<1> PICK parents : parents = Links!MoldParents(relations, w.current)
  OBVIOUS
<1>1. parents \subseteq Nat
  BY UpIs DEF WalkStates
<1> PICK parent : parent = Links!Min(parents)
  OBVIOUS
<1>2. parents # {} => parent \in Nat
  BY <1>1, LinksMin
<1>3. parent \in w.seen => Links!CycleMold(w.seen, parent) \in Nat
  BY LinksMin DEF Links!CycleMold, WalkStates
<1> QED
  BY <1>2, <1>3 DEF Links!MoldStep, WalkStates

LEMMA WalkIs ==
  ASSUME NEW relations, Links!IsRelations(relations), NEW part \in Nat,
         NEW a \in Ways(relations, part), NEW n \in Nat
  PROVE  WalkedTo(relations, a, n, Links!MoldWalk(relations, part)[n])
<1> DEFINE start == [mold |-> None, current |-> part, seen |-> {part}]
           Equation(walk) ==
             walk = [m \in Nat |-> IF m = 0 THEN start
                                   ELSE Links!MoldStep(relations, walk[m - 1])]
<1>1. \E walk : Equation(walk)
  <2> DEFINE step == [w \in WalkStates |-> Links!MoldStep(relations, w)]
  <2>1. start \in WalkStates /\ step \in [WalkStates -> WalkStates]
    BY StepTyped DEF WalkStates
  <2> HIDE DEF step, start
  <2> PICK f : f \in Runs(WalkStates, start, step)
    BY <2>1, Recursion
  <2>2. f \in [Nat -> WalkStates] /\ f[0] = start /\ \A m \in Nat : f[m + 1] = step[f[m]]
    BY DEF Runs
  <2>3. ASSUME NEW m \in Nat, m # 0 PROVE f[m] = Links!MoldStep(relations, f[m - 1])
    <3>1. m - 1 \in Nat /\ m - 1 + 1 = m
      BY <2>3
    <3>2. f[m] = step[f[m - 1]] /\ f[m - 1] \in WalkStates
      BY <2>2, <3>1
    <3> QED
      BY <3>2 DEF step
  <2>4. Equation(f)
    BY <2>2, <2>3
  <2> QED
    BY <2>4
<1> PICK walk : walk = Links!MoldWalk(relations, part)
  OBVIOUS
<1>2. Equation(walk)
  BY <1>1 DEF Links!MoldWalk
<1>3. walk[0] = start /\ \A m \in Nat : walk[m + 1] = Links!MoldStep(relations, walk[m])
  BY <1>2
<1> HIDE DEF Equation
<1> DEFINE T == {m \in Nat : WalkedTo(relations, a, m, walk[m])}
<1>4. 0 \in T
  <2>1. a[0] = part /\ {a[i] : i \in 0 .. 0} = {a[0]}
    BY DEF Ways
  <2> QED
    BY <1>3, <2>1 DEF WalkedTo, Short
<1>5. ASSUME NEW m \in Nat, m \in T PROVE m + 1 \in T
  BY <1>3, <1>5, StepWalks
<1> HIDE DEF T
<1>6. n \in T
  BY <1>4, <1>5, Induct
<1> QED
  BY <1>6 DEF T

(* The canonical mold of a part, found within so many queries. *)
LEMMA MoldIs ==
  ASSUME NEW relations, Links!IsRelations(relations), NEW part \in Nat,
         NEW a \in Ways(relations, part), NEW d \in Nat
  PROVE  Links!CanonicalMold(relations, part, d) =
           IF Short(a, d) THEN Canonical(relations, Orbit(a)) ELSE None
<1>1. WalkedTo(relations, a, d, Links!MoldWalk(relations, part)[d])
  BY WalkIs
<1> QED
  BY <1>1 DEF WalkedTo, Links!CanonicalMold

(* What is further up is in the orbit. *)
LEMMA UpwardsIs ==
  ASSUME NEW relations, Links!IsRelations(relations), NEW part \in Nat,
         NEW a \in Ways(relations, part), NEW d \in Nat
  PROVE  Upwards(relations, part, d) = {a[n] : n \in 0 .. d}
<1> DEFINE Equation(at) ==
             at = [n \in 0 .. d |->
                     IF n = 0 THEN part
                     ELSE LET parents == Links!MoldParents(relations, at[n - 1])
                          IN  IF parents = {} THEN at[n - 1] ELSE Min(parents)]
<1>1. \E at : Equation(at)
  <2> DEFINE f == [n \in 0 .. d |-> a[n]]
  <2>1. ASSUME NEW n \in 0 .. d, n # 0 PROVE a[n] = Up(relations, a[n - 1]) /\ n - 1 \in 0 .. d
    <3>1. n - 1 \in Nat /\ n - 1 + 1 = n
      BY <2>1
    <3> QED
      BY <3>1 DEF Ways
  <2>2. Equation(f)
    BY <2>1 DEF Ways, Up
  <2> QED
    BY <2>2
<1> PICK at : at = CHOOSE f : Equation(f)
  OBVIOUS
<1>2. Equation(at)
  BY <1>1
<1>3. Upwards(relations, part, d) = {at[n] : n \in 0 .. d}
  BY DEF Upwards
<1>4. ASSUME NEW n \in 0 .. d
      PROVE  at[n] = IF n = 0 THEN part ELSE Up(relations, at[n - 1])
  <2> DEFINE g == [m \in 0 .. d |-> IF m = 0 THEN part ELSE Up(relations, at[m - 1])]
  <2>1. at = g
    BY <1>2 DEF Up
  <2>2. g[n] = IF n = 0 THEN part ELSE Up(relations, at[n - 1])
    OBVIOUS
  <2> HIDE DEF g, Equation
  <2> QED
    BY <2>1, <2>2
<1>5. at[0] = part
  <2>1. 0 \in 0 .. d
    OBVIOUS
  <2> HIDE DEF Equation
  <2> QED
    BY <1>4, <2>1
<1>6. ASSUME NEW n \in Nat, n + 1 <= d PROVE at[n + 1] = Up(relations, at[n])
  <2>1. n + 1 \in 0 .. d /\ n + 1 # 0 /\ n + 1 - 1 = n
    BY <1>6
  <2> HIDE DEF Equation
  <2> QED
    BY <1>4, <2>1
<1> HIDE DEF Equation
<1> DEFINE T == {n \in Nat : n <= d => at[n] = a[n]}
<1>7. 0 \in T
  BY <1>5 DEF Ways
<1>8. ASSUME NEW n \in Nat, n \in T PROVE n + 1 \in T
  <2>1. a[n + 1] = Up(relations, a[n])
    BY DEF Ways
  <2> QED
    BY <1>6, <1>8, <2>1
<1> HIDE DEF T
<1>9. \A n \in Nat : n \in T
  BY <1>7, <1>8, Induct
<1>10. \A n \in 0 .. d : at[n] = a[n]
  BY <1>9 DEF T
<1> QED
  BY <1>3, <1>10

-----------------------------------------------------------------------------
MoldOf(q) == Links!CanonicalMold(question.relations, q, question.max_depth)

LEMMA RestOrbit ==
  ASSUME NEW relations, NEW part, NEW a \in Ways(relations, part), NEW j \in Nat, NEW q, q = a[j],
         NEW b \in Ways(relations, q)
  PROVE  Orbit(b) \subseteq Orbit(a)
<1> SUFFICES ASSUME NEW n \in Nat PROVE b[n] \in Orbit(a)
  BY DEF Orbit
<1>1. b[n] = a[j + n] /\ j + n \in Nat
  BY RestIs
<1> QED
  BY <1>1 DEF Orbit

(* The canonical part of an orbit is that of its own orbit. *)
LEMMA CanonicalOf ==
  ASSUME NEW relations, NEW part, NEW a \in Ways(relations, part),
         NEW q, q = Canonical(relations, Orbit(a)), NEW b \in Ways(relations, q)
  PROVE  Canonical(relations, Orbit(b)) = q
<1>1. q \in Orbit(a)
  BY CanonicalIs
<1> PICK j \in Nat : q = a[j]
  BY <1>1 DEF Orbit
<1>2. b[0] = q /\ q \in Orbit(b)
  BY WayIn DEF Ways
<1>3. Orbit(b) \subseteq Orbit(a)
  BY RestOrbit
<1>4. CASE Roots(relations, Orbit(a)) # {}
  <2>1. q \in Roots(relations, Orbit(a))
    BY <1>4 DEF Canonical
  <2>2. Links!MoldParents(relations, b[0]) = {}
    BY <1>2, <2>1 DEF Roots
  <2> QED
    BY <1>2, <2>2, OneRoot
<1>5. CASE Roots(relations, Orbit(a)) = {}
  <2>1. Roots(relations, Orbit(b)) = {}
    BY <1>3, <1>5 DEF Roots
  <2>2. Orbit(a) \subseteq Nat /\ Orbit(a) # {} /\ Orbit(b) \subseteq Nat /\ Orbit(b) # {}
    BY <1>2, <1>1, WayIn
  <2>3. q = Min(Orbit(a)) /\ Canonical(relations, Orbit(b)) = Min(Orbit(b))
    BY <1>5, <2>1 DEF Canonical
  <2> PICK x : x = Min(Orbit(b))
    OBVIOUS
  <2>4. q \in Nat /\ x \in Nat /\ q <= x /\ x <= q
    BY <1>2, <1>3, <2>2, <2>3, MinIs
  <2> QED
    BY <2>3, <2>4
<1> QED
  BY <1>4, <1>5

(* The parts on a way, up to the d-th step.                                *)
Trail(a, d) == {a[n] : n \in 0 .. d}

(* A way that repeats itself within d steps goes on over the same parts.   *)
LEMMA ShortOrbit ==
  ASSUME NEW relations, NEW part, NEW a \in Ways(relations, part), NEW d \in Nat, Short(a, d)
  PROVE  Orbit(a) = Trail(a, d - 1)
<1> PICK i \in 0 .. d - 1 : a[d] = a[i]
  BY DEF Short
<1> DEFINE T == {n \in Nat : a[n] \in {a[m] : m \in 0 .. d - 1}}
<1>1. 0 \in T
  OBVIOUS
<1>2. ASSUME NEW n \in Nat, n \in T PROVE n + 1 \in T
  <2> PICK m \in 0 .. d - 1 : a[n] = a[m]
    BY <1>2
  <2>1. a[n + 1] = a[m + 1] /\ m \in Nat
    BY DEF Ways
  <2>2. CASE m = d - 1
    BY <2>1, <2>2
  <2>3. CASE m # d - 1
    <3>1. m + 1 \in 0 .. d - 1
      BY <2>3
    <3> QED
      BY <2>1, <3>1
  <2> QED
    BY <2>2, <2>3
<1> HIDE DEF T
<1>3. \A n \in Nat : n \in T
  BY <1>1, <1>2, Induct
<1> QED
  BY <1>3 DEF T, Orbit, Trail

(* It does so just when the parts up to the d-th are fewer.                *)
LEMMA ShortCount ==
  ASSUME NEW relations, NEW part, NEW a \in Ways(relations, part), NEW d \in Nat
  PROVE  Short(a, d) <=> ~(Cardinality(Trail(a, d)) > d)
<1> PICK S : S = Trail(a, d)
  OBVIOUS
<1> PICK f : f = [n \in 0 .. d |-> a[n]]
  OBVIOUS
<1>1. IsFiniteSet(0 .. d) /\ Cardinality(0 .. d) = d + 1
  BY FS_Interval
<1>2. f \in Surjection(0 .. d, S)
  BY DEF Surjection, Trail
<1>3. IsFiniteSet(S) /\ Cardinality(S) \in Nat /\ Cardinality(S) <= d + 1
  BY <1>1, <1>2, FS_Surjection, FS_CardinalityType
<1>4. ASSUME Short(a, d) PROVE Cardinality(S) <= d
  <2>1. S \subseteq Orbit(a)
    BY DEF Orbit, Trail
  <2>2. Orbit(a) = Trail(a, d - 1)
    BY <1>4, ShortOrbit
  <2>3. Trail(a, d - 1) \subseteq S
    BY DEF Trail
  <2> PICK g : g = [n \in 0 .. d - 1 |-> a[n]]
    OBVIOUS
  <2>4. g \in Surjection(0 .. d - 1, Trail(a, d - 1))
    BY DEF Surjection, Trail
  <2>5. g \in Surjection(0 .. d - 1, S)
    <3>1. Trail(a, d - 1) = S
      BY <2>1, <2>2, <2>3
    <3> QED
      BY <2>4, <3>1
  <2>6. IsFiniteSet(0 .. d - 1) /\ Cardinality(0 .. d - 1) = d
    BY FS_Interval
  <2> QED
    BY <2>5, <2>6, FS_Surjection
<1>5. ASSUME ~Short(a, d) PROVE Cardinality(S) > d
  <2>1. ASSUME NEW i \in 0 .. d, NEW j \in 0 .. d, i < j, a[i] = a[j] PROVE FALSE
    <3> DEFINE U == {n \in Nat : Short(a, j + n)}
    <3>1. 0 \in U
      BY <2>1 DEF Short
    <3>2. ASSUME NEW n \in Nat, n \in U PROVE n + 1 \in U
      <4>1. Short(a, (j + n) + 1)
        <5> PICK b : b = a
          OBVIOUS
        <5>1. b \in Ways(relations, part) /\ a[0] = part
          BY DEF Ways
        <5> QED
          BY <3>2, <5>1, ShortLater
      <4> QED
        BY <4>1
    <3> HIDE DEF U
    <3>3. d - j \in U
      BY <3>1, <3>2, Induct
    <3> QED
      BY <1>5, <3>3 DEF U
  <2>2. f \in Injection(0 .. d, S)
    <3>1. \A i, j \in 0 .. d : a[i] = a[j] => i = j
      BY <2>1
    <3>2. \A i \in 0 .. d : f[i] = a[i] /\ a[i] \in S
      BY DEF Trail
    <3>3. f \in [0 .. d -> S]
      BY <3>2
    <3> QED
      BY <3>1, <3>2, <3>3 DEF Injection, IsInjective
  <2>3. Cardinality(0 .. d) <= Cardinality(S)
    BY <1>3, <2>2, FS_Injection
  <2> QED
    BY <1>1, <1>3, <2>3
<1> QED
  BY <1>3, <1>4, <1>5

(***************************************************************************)
(* The canonical mold is the root of the way up or the least part on it,   *)
(* is its own canonical mold and is shared by parts that lead to each      *)
(* other, and it is missing just when max_depth was too small, for any     *)
(* relations, with cycles and branches, and any max_depth (queries.py,     *)
(* canonical_mold).                                                        *)
(***************************************************************************)
THEOREM MoldsAgreeAlways == Spec => []MoldsAgree
<1>1. Asked => MoldsAgree
  <2> SUFFICES ASSUME Asked, Answered("mold") PROVE MoldsAgree
    BY DEF MoldsAgree
  <2> PICK relations : relations = question.relations
    OBVIOUS
  <2> PICK part : part = question.part
    OBVIOUS
  <2> PICK d : d = question.max_depth
    OBVIOUS
  <2>1. Links!IsRelations(relations) /\ part \in Nat /\ d \in Nat
    BY MoldAssumption DEF Asked, Given, Answered
  <2> PICK a : a \in Ways(relations, part)
    BY <2>1, WayExists
  <2> PICK mold : mold = answer.mold
    OBVIOUS
  <2>2. mold = Links!CanonicalMold(relations, part, d)
    BY DEF Asked, Given, Answered, MoldAnswer
  <2>3. a \in [Nat -> Nat]
    BY WayIn
  <2> PICK up : up = Upwards(relations, part, d)
    OBVIOUS
  <2>4. up = Trail(a, d)
    BY <2>1, UpwardsIs DEF Trail
  <2>5. mold = IF Short(a, d) THEN Canonical(relations, Orbit(a)) ELSE None
    BY <2>1, <2>2, MoldIs
  <2>6. mold = None <=> Cardinality(up) > d
    <3>1. Short(a, d) => mold \in Nat
      BY <2>3, <2>5, CanonicalIs DEF Orbit
    <3>2. None \notin Nat
      BY StatusAssumption
    <3>3. Short(a, d) <=> ~(Cardinality(Trail(a, d)) > d)
      BY <2>1, ShortCount
    <3> QED
      BY <2>4, <2>5, <3>1, <3>2, <3>3
  <2> SUFFICES ASSUME mold # None
               PROVE  /\ mold \in IF {q \in up : Links!MoldParents(relations, q) = {}} # {}
                                    THEN {q \in up : Links!MoldParents(relations, q) = {}}
                                    ELSE {Min(up)}
                      /\ Links!CanonicalMold(relations, mold, d) = mold
                      /\ \A other \in up :
                           part \in Upwards(relations, other, d) =>
                             Links!CanonicalMold(relations, other, d) = mold
    BY <2>6 DEF MoldsAgree
  <2>7. Short(a, d) /\ mold = Canonical(relations, Orbit(a))
    BY <2>5
  <2>8. mold \in IF {q \in up : Links!MoldParents(relations, q) = {}} # {}
                   THEN {q \in up : Links!MoldParents(relations, q) = {}}
                   ELSE {Min(up)}
    <3>1. Orbit(a) = up
      <4>1. Orbit(a) = Trail(a, d - 1)
        BY <2>7, <2>1, ShortOrbit
      <4>2. up \subseteq Orbit(a) /\ Trail(a, d - 1) \subseteq up
        BY <2>1, <2>4 DEF Orbit, Trail
      <4> QED
        BY <4>1, <4>2
    <3> QED
      BY <2>7, <3>1 DEF Canonical, Roots
  <2>9. Links!CanonicalMold(relations, mold, d) = mold
    <3>1. mold \in Orbit(a)
      BY <2>7, CanonicalIs
    <3> PICK j \in Nat : mold = a[j]
      BY <3>1 DEF Orbit
    <3>2. mold \in Nat
      BY <2>3
    <3> PICK b : b \in Ways(relations, mold)
      BY <2>1, <3>2, WayExists
    <3>3. Short(b, d)
      BY <2>1, <2>7, ShortLater
    <3>4. Canonical(relations, Orbit(b)) = mold
      BY <2>7, CanonicalOf
    <3> QED
      BY <2>1, <3>2, <3>3, <3>4, MoldIs
  <2>10. ASSUME NEW other \in up, part \in Upwards(relations, other, d)
        PROVE  Links!CanonicalMold(relations, other, d) = mold
    <3> PICK j \in 0 .. d : other = a[j]
      BY <2>4 DEF Trail
    <3>1. other \in Nat
      BY <2>3
    <3> PICK b : b \in Ways(relations, other)
      BY <2>1, <3>1, WayExists
    <3> PICK k \in 0 .. d : part = b[k]
      BY <2>1, <2>10, <3>1, UpwardsIs
    <3>2. Short(b, d)
      BY <2>1, <2>7, ShortLater
    <3>3. Orbit(b) \subseteq Orbit(a)
      BY RestOrbit
    <3>4. Orbit(a) \subseteq Orbit(b)
      BY RestOrbit
    <3>5. Orbit(b) = Orbit(a)
      BY <3>3, <3>4, Zenon
    <3>6. Links!CanonicalMold(relations, other, d) = Canonical(relations, Orbit(b))
      BY <2>1, <3>1, <3>2, MoldIs
    <3> QED
      BY <2>7, <3>5, <3>6
  <2> QED
    BY <2>8, <2>9, <2>10
<1> QED
  BY <1>1, AskedAlways, PTL

-----------------------------------------------------------------------------
LEMMA SequenceOf ==
  ASSUME NEW n \in Nat, NEW S, NEW f \in [1 .. n -> S]
  PROVE  f \in Seq(S) /\ Len(f) = n /\ DOMAIN f = 1 .. n
<1>1. f \in Seq(S)
  OBVIOUS
<1> QED
  BY <1>1, LenProperties

(* A strict total order, as a set of pairs. *)
StrictOrder(S, R) ==
  /\ \A x \in S : <<x, x>> \notin R
  /\ \A x, y \in S : x # y => <<x, y>> \in R \/ <<y, x>> \in R
  /\ \A x, y, z \in S : <<x, y>> \in R /\ <<y, z>> \in R => <<x, z>> \in R

Predecessors(S, R, x) == {y \in S : <<y, x>> \in R}

(* f lists the elements of S in the order R, each once. *)
Lists(f, S, R) ==
  /\ f \in [1 .. Cardinality(S) -> S]
  /\ \A i, j \in 1 .. Cardinality(S) : i < j => <<f[i], f[j]>> \in R
  /\ \A x \in S : \E i \in 1 .. Cardinality(S) : f[i] = x
  /\ \A i \in 1 .. Cardinality(S) : Cardinality(Predecessors(S, R, f[i])) = i - 1

LEMMA PredecessorsGrow ==
  ASSUME NEW S, IsFiniteSet(S), NEW R, StrictOrder(S, R),
         NEW x \in S, NEW y \in S, <<x, y>> \in R
  PROVE  Cardinality(Predecessors(S, R, x)) < Cardinality(Predecessors(S, R, y))
<1> PICK P : P = Predecessors(S, R, x)
  OBVIOUS
<1> PICK Q : Q = Predecessors(S, R, y)
  OBVIOUS
<1>1. P \subseteq Q /\ Q \subseteq S /\ x \in Q /\ x \notin P
  BY DEF Predecessors, StrictOrder
<1>2. IsFiniteSet(Q) /\ IsFiniteSet(P)
  BY <1>1, FS_Subset
<1>3. Cardinality(P) <= Cardinality(Q) /\ Cardinality(P) # Cardinality(Q)
  BY <1>1, <1>2, FS_Subset
<1>4. Cardinality(P) \in Nat /\ Cardinality(Q) \in Nat
  BY <1>2, FS_CardinalityType
<1> QED
  BY <1>3, <1>4

LEMMA PredecessorsFew ==
  ASSUME NEW S, IsFiniteSet(S), NEW R, StrictOrder(S, R), NEW x \in S
  PROVE  /\ Cardinality(S) \in Nat
         /\ Cardinality(Predecessors(S, R, x)) \in 0 .. Cardinality(S) - 1
<1> PICK P : P = Predecessors(S, R, x)
  OBVIOUS
<1>1. P \subseteq S /\ x \notin P
  BY DEF Predecessors, StrictOrder
<1>2. IsFiniteSet(P) /\ Cardinality(P) <= Cardinality(S) /\ Cardinality(P) # Cardinality(S)
  BY <1>1, FS_Subset
<1>3. Cardinality(P) \in Nat /\ Cardinality(S) \in Nat
  BY <1>2, FS_CardinalityType
<1> QED
  BY <1>2, <1>3

(* Somebody has just so many predecessors. *)
LEMMA PlaceTaken ==
  ASSUME NEW S, IsFiniteSet(S), NEW R, StrictOrder(S, R), NEW i \in 1 .. Cardinality(S)
  PROVE  \E x \in S : Cardinality(Predecessors(S, R, x)) = i - 1
<1> PICK n : n = Cardinality(S)
  OBVIOUS
<1> DEFINE rank == [x \in S |-> Cardinality(Predecessors(S, R, x)) + 1]
<1>1. n \in Nat
  BY FS_CardinalityType
<1>2. rank \in [S -> 1 .. n]
  <2> SUFFICES ASSUME NEW x \in S PROVE Cardinality(Predecessors(S, R, x)) + 1 \in 1 .. n
    OBVIOUS
  <2> QED
    BY <1>1, PredecessorsFew
<1>3. ASSUME NEW x \in S, NEW y \in S, x # y PROVE rank[x] # rank[y]
  <2>1. <<x, y>> \in R \/ <<y, x>> \in R
    BY <1>3 DEF StrictOrder
  <2>2. Cardinality(Predecessors(S, R, x)) # Cardinality(Predecessors(S, R, y))
    BY <2>1, PredecessorsGrow, PredecessorsFew
  <2>3. /\ Cardinality(Predecessors(S, R, x)) \in 0 .. n - 1
        /\ Cardinality(Predecessors(S, R, y)) \in 0 .. n - 1
    BY PredecessorsFew
  <2> QED
    BY <1>1, <2>2, <2>3
<1> HIDE DEF rank
<1>4. rank \in Injection(S, 1 .. n)
  BY <1>2, <1>3 DEF Injection, IsInjective
<1>5. IsFiniteSet(1 .. n) /\ Cardinality(1 .. n) = n
  BY <1>1, FS_Interval
<1>6. rank \in Surjection(S, 1 .. n)
  BY <1>4, <1>5, FS_Injection
<1> PICK x \in S : rank[x] = i
  BY <1>6 DEF Surjection
<1>7. Cardinality(Predecessors(S, R, x)) \in 0 .. n - 1
  BY PredecessorsFew
<1> QED
  BY <1>1, <1>7 DEF rank

(* A sequence that has each element where as many precede it is the list. *)
LEMMA ListIs ==
  ASSUME NEW S, IsFiniteSet(S), NEW R, StrictOrder(S, R),
         NEW f \in [1 .. Cardinality(S) -> S],
         \A i \in 1 .. Cardinality(S) : Cardinality(Predecessors(S, R, f[i])) = i - 1
  PROVE  Lists(f, S, R)
<1> PICK n : n = Cardinality(S)
  OBVIOUS
<1>1. n \in Nat
  BY FS_CardinalityType
<1>2. ASSUME NEW i \in 1 .. n, NEW j \in 1 .. n, i < j
      PROVE  <<f[i], f[j]>> \in R
  <2>1. f[i] \in S /\ f[j] \in S
    OBVIOUS
  <2>2. /\ Cardinality(Predecessors(S, R, f[i])) = i - 1
        /\ Cardinality(Predecessors(S, R, f[j])) = j - 1
    OBVIOUS
  <2>3. f[i] # f[j]
    BY <1>1, <1>2, <2>2
  <2>4. <<f[j], f[i]>> \notin R
    BY <1>1, <1>2, <2>1, <2>2, PredecessorsGrow
  <2> QED
    BY <2>1, <2>3, <2>4 DEF StrictOrder
<1>3. ASSUME NEW i \in 1 .. n, NEW j \in 1 .. n, i # j PROVE f[i] # f[j]
  BY <1>1, <1>3
<1>4. f \in Injection(1 .. n, S)
  BY <1>3 DEF Injection, IsInjective
<1>5. IsFiniteSet(1 .. n) /\ Cardinality(1 .. n) = n
  BY <1>1, FS_Interval
<1>6. f \in Surjection(1 .. n, S)
  BY <1>4, <1>5, FS_Injection
<1> QED
  BY <1>2, <1>6 DEF Lists, Surjection

-----------------------------------------------------------------------------
(* A page of n rows after the offset. *)
LastOf(n, limit, offset) == IF offset + limit < n THEN offset + limit ELSE n

IsPage(page, D, rows, offset, last) ==
  /\ page = SubSeq(rows, offset + 1, last)
  /\ page \in Seq(D) /\ last \in Nat
  /\ Len(page) = IF offset < last THEN last - offset ELSE 0
  /\ \A i \in 1 .. Len(page) : page[i] = rows[offset + i]
  /\ page = <<>> <=> Len(page) = 0

LEMMA PageIs ==
  ASSUME NEW D, NEW rows \in Seq(D), NEW limit \in Nat \ {0}, NEW offset \in Nat
  PROVE  IsPage(Finder!Page(rows, limit, offset), D, rows, offset,
                LastOf(Len(rows), limit, offset))
<1> PICK page : page = Finder!Page(rows, limit, offset)
  OBVIOUS
<1> PICK last : last = LastOf(Len(rows), limit, offset)
  OBVIOUS
<1>1. Len(rows) \in Nat /\ last \in Nat /\ last <= Len(rows)
  BY LenProperties DEF LastOf
<1>2. page = SubSeq(rows, offset + 1, last)
  BY DEF Finder!Page, LastOf
<1>3. \A i \in offset + 1 .. last : rows[i] \in D
  BY <1>1, ElementOfSeq
<1>4. /\ page \in Seq(D)
      /\ Len(page) = IF offset + 1 <= last THEN last - (offset + 1) + 1 ELSE 0
      /\ \A i \in 1 .. last - (offset + 1) + 1 : page[i] = rows[offset + 1 + i - 1]
  BY <1>1, <1>2, <1>3, SubSeqProperties
<1>5. Len(page) = IF offset < last THEN last - offset ELSE 0
  BY <1>1, <1>4
<1>6. \A i \in 1 .. Len(page) : page[i] = rows[offset + i]
  <2> SUFFICES ASSUME NEW i \in 1 .. Len(page) PROVE page[i] = rows[offset + i]
    OBVIOUS
  <2>1. i \in 1 .. last - (offset + 1) + 1 /\ offset + 1 + i - 1 = offset + i
    BY <1>1, <1>5
  <2> QED
    BY <1>4, <2>1
<1>7. page = <<>> <=> Len(page) = 0
  BY <1>4, EmptySeq
<1> QED
  BY <1>1, <1>2, <1>4, <1>5, <1>6, <1>7 DEF IsPage

(* Page after page gives all the rows. *)
LEMMA IterateIs ==
  ASSUME NEW D, NEW rows \in Seq(D), NEW size \in Nat \ {0}
  PROVE  Finder!Iterate(rows, size) = rows
<1> PICK n : n = Len(rows)
  OBVIOUS
<1>1. n \in Nat
  BY LenProperties
<1> DEFINE Rest(o) == SubSeq(rows, o + 1, n)
           Then(from, o) ==
             IF Finder!Page(rows, size, o) = <<>> THEN <<>>
             ELSE Finder!Page(rows, size, o) \o from[o + Len(Finder!Page(rows, size, o))]
           Equation(from) == from = [o \in 0 .. n |-> Then(from, o)]
<1>2. ASSUME NEW from, NEW o \in 0 .. n,
             \A p \in 0 .. n : o < p => from[p] = Rest(p)
      PROVE  Then(from, o) = Rest(o)
  <2> PICK last : last = LastOf(n, size, o)
    OBVIOUS
  <2> PICK page : page = Finder!Page(rows, size, o)
    OBVIOUS
  <2>1. /\ page = SubSeq(rows, o + 1, last) /\ last \in Nat
        /\ Len(page) = IF o < last THEN last - o ELSE 0
        /\ page = <<>> <=> Len(page) = 0
    BY <1>1, PageIs DEF IsPage
  <2>2. CASE o = n
    <3>1. page = <<>>
      BY <1>1, <2>1, <2>2 DEF LastOf
    <3>2. Rest(o) = <<>>
      BY <1>1, <2>2, SubSeqEmpty
    <3> QED
      BY <3>1, <3>2
  <2>3. CASE o # n
    <3>1. o < last /\ last \in o .. n /\ last <= n /\ o + Len(page) = last
      BY <1>1, <2>1, <2>3 DEF LastOf
    <3>2. page # <<>>
      <4>1. Len(page) # 0
        BY <1>1, <3>1
      <4> QED
        BY <4>1
    <3>3. from[last] = Rest(last)
      BY <1>1, <1>2, <3>1
    <3>4. SubSeq(rows, o + 1, last) \o SubSeq(rows, last + 1, n) = SubSeq(rows, o + 1, n)
      <4> PICK m : m = o + 1
        OBVIOUS
      <4>1. m \in 1 .. Len(rows) + 1 /\ last \in m - 1 .. Len(rows) /\ n \in last .. Len(rows)
        BY <1>1, <3>1
      <4>2. SubSeq(rows, m, last) \o SubSeq(rows, last + 1, n) = SubSeq(rows, m, n)
        BY <4>1, ConcatAdjacentSubSeq
      <4> QED
        BY <4>2
    <3> QED
      BY <2>1, <3>1, <3>2, <3>3, <3>4
  <2> QED
    BY <2>2, <2>3
<1>3. \E from : Equation(from)
  <2> DEFINE rest == [o \in 0 .. n |-> Rest(o)]
  <2>1. ASSUME NEW o \in 0 .. n PROVE Then(rest, o) = Rest(o)
    <3>1. \A p \in 0 .. n : o < p => rest[p] = Rest(p)
      OBVIOUS
    <3> HIDE DEF rest, Rest, Then
    <3> QED
      BY <1>2, <3>1
  <2> HIDE DEF Then, Rest
  <2>2. Equation(rest)
    BY <2>1
  <2> QED
    BY <2>2
<1> HIDE DEF Equation
<1> PICK from : from = CHOOSE f : Equation(f)
  OBVIOUS
<1>4. Equation(from)
  BY <1>3
<1> USE DEF Equation
<1>5. Finder!Iterate(rows, size) = from[0]
  BY DEF Finder!Iterate
<1>6. ASSUME NEW o \in 0 .. n PROVE from[o] = Then(from, o)
  BY <1>4
<1> HIDE DEF Equation, Then, Rest
<1> DEFINE T == {k \in Nat : \A o \in 0 .. n : n - o <= k => from[o] = Rest(o)}
<1>7. 0 \in T
  BY <1>1, <1>2, <1>6
<1>8. ASSUME NEW k \in Nat, k \in T PROVE k + 1 \in T
  <2> SUFFICES ASSUME NEW o \in 0 .. n, n - o <= k + 1 PROVE from[o] = Rest(o)
    OBVIOUS
  <2>1. \A p \in 0 .. n : o < p => from[p] = Rest(p)
    BY <1>1, <1>8
  <2> QED
    BY <1>2, <1>6, <2>1
<1> HIDE DEF T
<1>9. n \in T
  BY <1>1, <1>7, <1>8, Induct
<1>10. from[0] = Rest(0)
  BY <1>1, <1>9 DEF T
<1>11. Rest(0) = rows
  BY SubSeqFull DEF Rest
<1> QED
  BY <1>5, <1>10, <1>11

LEMMA TierIs ==
  ASSUME NEW documents, Finder!IsIndex(documents), NEW themes, NEW query,
         NEW d \in documents, Finder!Matches(themes, query, d)
  PROVE  Finder!Tier(query, d) \in Nat
<1>1. CASE query.text
  <2> PICK ways : ways = {i \in DOMAIN Finder!Tiers : Finder!Tiers[i] \in d.matches}
    OBVIOUS
  <2>1. d.matches # {} /\ d.matches \subseteq Finder!ToSet(Finder!Tiers)
    BY <1>1 DEF Finder!Matches, Finder!IsIndex
  <2>2. DOMAIN Finder!Tiers \subseteq Nat
    BY DEF Finder!Tiers
  <2>3. ways \subseteq Nat /\ ways # {}
    BY <2>1, <2>2 DEF Finder!ToSet
  <2>4. Finder!Min(ways) = Min(ways) /\ Min(ways) \in ways
    BY <2>3, MinIs DEF Finder!Min, Min
  <2> QED
    BY <1>1, <2>3, <2>4 DEF Finder!Tier
<1>2. CASE ~query.text
  BY <1>2 DEF Finder!Tier, Finder!Tiers
<1> QED
  BY <1>1, <1>2

LEMMA HitsAre ==
  ASSUME NEW documents, Finder!IsIndex(documents), NEW themes, NEW query,
         NEW S, S = {d \in documents : Finder!Matches(themes, query, d)},
         NEW R, R = {p \in S \X S : Finder!BestFirst(query, p[1], p[2])}
  PROVE  IsFiniteSet(S) /\ Lists(Finder!Hits(themes, documents, query), S, R)
<1>1. IsFiniteSet(documents)
  BY DEF Finder!IsIndex, Finder!IsFiniteSet, IsFiniteSet
<1>2. IsFiniteSet(S)
  BY <1>1, FS_Subset
<1>3. \A x, y \in S : <<x, y>> \in R <=> Finder!BestFirst(query, x, y)
  OBVIOUS
<1>4. \A d \in S : Finder!Tier(query, d) \in Nat /\ d.kind \in Nat /\ d.id \in Nat
  BY TierIs DEF Finder!IsIndex
<1>5. \A d, e \in S : d.kind = e.kind /\ d.id = e.id => d = e
  BY DEF Finder!IsIndex
<1>6. StrictOrder(S, R)
  <2>1. ASSUME NEW x \in S PROVE <<x, x>> \notin R
    BY <1>3, <1>4 DEF Finder!BestFirst
  <2>2. ASSUME NEW x \in S, NEW y \in S, x # y PROVE <<x, y>> \in R \/ <<y, x>> \in R
    BY <1>3, <1>4, <1>5, <2>2 DEF Finder!BestFirst
  <2>3. ASSUME NEW x \in S, NEW y \in S, NEW z \in S, <<x, y>> \in R, <<y, z>> \in R
        PROVE  <<x, z>> \in R
    BY <1>3, <1>4, <2>3 DEF Finder!BestFirst
  <2> QED
    BY <2>1, <2>2, <2>3 DEF StrictOrder
<1> PICK n : n = Cardinality(S)
  OBVIOUS
<1>7. \A T : Finder!Cardinality(T) = Cardinality(T)
  BY DEF Finder!Cardinality, Cardinality
<1> PICK f : f = Finder!Hits(themes, documents, query)
  OBVIOUS
<1>8. f = [i \in 1 .. n |->
             CHOOSE x \in S : Finder!Cardinality({y \in S : Finder!BestFirst(query, y, x)}) = i - 1]
  BY <1>7 DEF Finder!Hits, Finder!Ordered
<1>9. ASSUME NEW x \in S
      PROVE  Finder!Cardinality({y \in S : Finder!BestFirst(query, y, x)})
               = Cardinality(Predecessors(S, R, x))
  <2>1. {y \in S : Finder!BestFirst(query, y, x)} = Predecessors(S, R, x)
    BY <1>3 DEF Predecessors
  <2> QED
    BY <1>7, <2>1
<1>10. ASSUME NEW i \in 1 .. n
       PROVE  f[i] \in S /\ Cardinality(Predecessors(S, R, f[i])) = i - 1
  <2>1. \E x \in S : Finder!Cardinality({y \in S : Finder!BestFirst(query, y, x)}) = i - 1
    BY <1>2, <1>6, <1>9, PlaceTaken
  <2>2. f[i] \in S /\ Finder!Cardinality({y \in S : Finder!BestFirst(query, y, f[i])}) = i - 1
    BY <1>8, <2>1
  <2> QED
    BY <1>9, <2>2
<1>11. f \in [1 .. n -> S]
  BY <1>8, <1>10
<1> QED
  BY <1>2, <1>6, <1>10, <1>11, ListIs

LEMMA ValidIs ==
  ASSUME NEW query, query.limit \in Int, query.offset \in Int, ~Finder!Invalid(query)
  PROVE  query.limit \in Nat \ {0} /\ query.offset \in Nat
<1>1. query.limit \in 1 .. 1000
  BY DEF Finder!Invalid
<1>2. ~(query.offset < 0)
  BY DEF Finder!Invalid
<1> PICK limit : limit = query.limit
  OBVIOUS
<1>3. limit \in Nat \ {0}
  BY <1>1
<1> QED
  BY <1>2, <1>3

(***************************************************************************)
(* Every page of a search is the part of the ordered list of what matches  *)
(* that its offset and limit ask for, its total counts them all, and page  *)
(* after page gives each once, for any index, query and size of the pages  *)
(* (search.py; queries.py, Repository.iter).                               *)
(***************************************************************************)
THEOREM SearchPagesAlways == Spec => []SearchPages
<1>1. Asked => SearchPages
  <2> SUFFICES ASSUME Asked, Answered("search"), ~answer.error PROVE SearchPages
    BY DEF SearchPages
  <2> PICK themes : themes = question.themes
    OBVIOUS
  <2> PICK documents : documents = question.documents
    OBVIOUS
  <2> PICK query : query = question.query
    OBVIOUS
  <2> PICK S : S = {d \in documents : Finder!Matches(themes, query, d)}
    OBVIOUS
  <2> PICK R : R = {p \in S \X S : Finder!BestFirst(query, p[1], p[2])}
    OBVIOUS
  <2> PICK hits : hits = Finder!Hits(themes, documents, query)
    OBVIOUS
  <2> PICK n : n = Cardinality(S)
    OBVIOUS
  <2>1. /\ Finder!IsIndex(documents) /\ query.limit \in Int /\ query.offset \in Int
        /\ answer = Finder!SearchCatalog(themes, documents, query)
    BY SearchAssumption DEF Asked, Given, Answered, SearchAnswer
  <2>1a. query.limit \in Int /\ query.offset \in Int
    BY <2>1
  <2>2. ~Finder!Invalid(query)
    BY <2>1 DEF Finder!SearchCatalog
  <2>3. query.limit \in Nat \ {0} /\ query.offset \in Nat
    BY <2>2, <2>1a, ValidIs
  <2> PICK page : page = Finder!Page(hits, query.limit, query.offset)
    OBVIOUS
  <2>4. answer.hits = page /\ answer.total = Finder!TotalOf(query, hits, page)
    BY <2>1, <2>2 DEF Finder!SearchCatalog
  <2>5. IsFiniteSet(S) /\ Lists(hits, S, R)
    BY <2>1, HitsAre
  <2>6. n \in Nat
    BY <2>5, FS_CardinalityType
  <2>7. hits \in [1 .. n -> S]
    BY <2>5 DEF Lists
  <2>8. hits \in Seq(S) /\ Len(hits) = n
    BY <2>6, <2>7, SequenceOf
  <2> PICK last : last = LastOf(n, query.limit, query.offset)
    OBVIOUS
  <2>9. /\ last \in Nat /\ page \in Seq(S)
        /\ Len(page) = IF query.offset < last THEN last - query.offset ELSE 0
        /\ \A i \in 1 .. Len(page) : page[i] = hits[query.offset + i]
        /\ page = <<>> <=> Len(page) = 0
    <3> PICK limit : limit = query.limit
      OBVIOUS
    <3> PICK offset : offset = query.offset
      OBVIOUS
    <3>1. limit \in Nat \ {0} /\ offset \in Nat
      BY <2>3
    <3>2. IsPage(Finder!Page(hits, limit, offset), S, hits, offset,
                 LastOf(Len(hits), limit, offset))
      BY <2>8, <3>1, PageIs
    <3>3. IsPage(page, S, hits, offset, last)
      BY <2>8, <3>2
    <3> QED
      BY <3>3 DEF IsPage
  <2>10. answer.total = n
    BY <2>3, <2>4, <2>6, <2>8, <2>9 DEF Finder!TotalOf, LastOf
  <2>11. Len(page) <= query.limit /\ (Len(page) = query.limit \/ query.offset + Len(page) >= n)
    BY <2>3, <2>6, <2>9 DEF LastOf
  <2>12. ASSUME NEW i \in DOMAIN page
         PROVE  /\ page[i] \in S
                /\ Cardinality({d \in S : Finder!BestFirst(query, d, page[i])})
                     = query.offset + i - 1
    <3>1. i \in 1 .. Len(page)
      BY <2>9
    <3> PICK p : p = query.offset + i
      OBVIOUS
    <3>2. p \in 1 .. n
      <4> PICK o : o = query.offset
        OBVIOUS
      <4>1. o < last /\ i <= last - o /\ last <= n /\ p = o + i
        BY <2>3, <2>6, <2>9, <3>1 DEF LastOf
      <4> QED
        BY <2>3, <2>6, <2>9, <3>1, <4>1
    <3>3. page[i] = hits[p] /\ page[i] \in S
      BY <2>7, <2>9, <3>1, <3>2
    <3>4. Cardinality(Predecessors(S, R, hits[p])) = p - 1
      BY <2>5, <3>2 DEF Lists
    <3>5. Predecessors(S, R, page[i]) = {d \in S : Finder!BestFirst(query, d, page[i])}
      BY <3>3 DEF Predecessors
    <3>6. p - 1 = query.offset + i - 1
      BY <2>3, <2>6, <2>9, <3>1, <3>2
    <3> QED
      BY <3>3, <3>4, <3>5, <3>6
  <2>13. Finder!Iterate(hits, query.limit) = hits
    BY <2>3, <2>8, IterateIs
  <2>14. ToSet(hits) = S
    <3>1. \A x \in S : \E i \in 1 .. n : hits[i] = x
      BY <2>5 DEF Lists
    <3>2. DOMAIN hits = 1 .. n /\ \A i \in 1 .. n : hits[i] \in S
      BY <2>7
    <3> QED
      BY <3>1, <3>2 DEF ToSet
  <2> QED
    BY <2>4, <2>10, <2>11, <2>12, <2>13, <2>14 DEF SearchPages
<1> QED
  BY <1>1, AskedAlways, PTL

-----------------------------------------------------------------------------
(* A chain of themes, from one to parent after parent. *)
Climbs(themes, theme) ==
  {p \in Seq(DOMAIN themes) :
     /\ Len(p) >= 1 /\ p[1] = theme
     /\ \A i \in 1 .. Len(p) - 1 : themes[p[i]] = p[i + 1]
     /\ \A i, j \in 1 .. Len(p) : p[i] = p[j] => i = j}

(* A path of n children down from a theme, without repetition. *)
Paths(themes, theme, n) ==
  {p \in [1 .. n + 1 -> DOMAIN themes] :
     /\ p[1] = theme
     /\ \A i \in 1 .. n : themes[p[i + 1]] = p[i]
     /\ \A i, j \in 1 .. n + 1 : p[i] = p[j] => i = j}

ClimbStep(themes, below) ==
  IF themes[Links!Last(below)] \in DOMAIN themes
       /\ Links!NotOnPath(below, themes[Links!Last(below)])
    THEN Append(below, themes[Links!Last(below)]) ELSE below

LEMMA ClimbOn ==
  ASSUME NEW themes, Links!IsThemes(themes), NEW theme \in DOMAIN themes,
         NEW p \in Climbs(themes, theme)
  PROVE  ClimbStep(themes, p) \in Climbs(themes, theme)
<1> PICK n : n = Len(p)
  OBVIOUS
<1> PICK parent : parent = themes[p[n]]
  OBVIOUS
<1>1. /\ p \in Seq(DOMAIN themes) /\ n \in Nat /\ n >= 1 /\ p[1] = theme
      /\ \A i \in 1 .. n - 1 : themes[p[i]] = p[i + 1]
      /\ \A i, j \in 1 .. n : p[i] = p[j] => i = j
  BY LenProperties DEF Climbs
<1>2. Links!Last(p) = p[n]
  BY DEF Links!Last
<1>3. CASE parent \in DOMAIN themes /\ Links!NotOnPath(p, parent)
  <2> PICK q : q = Append(p, parent)
    OBVIOUS
  <2>1. ClimbStep(themes, p) = q
    BY <1>2, <1>3 DEF ClimbStep
  <2>2. /\ q \in Seq(DOMAIN themes) /\ Len(q) = n + 1 /\ q[n + 1] = parent
        /\ \A i \in 1 .. n : q[i] = p[i]
    BY <1>1, <1>3, AppendProperties
  <2>3. \A i \in 1 .. n : p[i] # parent
    BY <1>3 DEF Links!NotOnPath, Links!Contains
  <2>4. q[1] = theme
    BY <1>1, <2>2
  <2>5. ASSUME NEW i \in 1 .. n PROVE themes[q[i]] = q[i + 1]
    <3>1. CASE i = n
      BY <1>1, <2>2, <3>1
    <3>2. CASE i # n
      <4>1. i \in 1 .. n - 1 /\ i + 1 \in 1 .. n
        BY <1>1, <3>2
      <4> QED
        BY <1>1, <2>2, <4>1
    <3> QED
      BY <3>1, <3>2
  <2>6. ASSUME NEW i \in 1 .. n + 1, NEW j \in 1 .. n + 1, q[i] = q[j] PROVE i = j
    BY <1>1, <2>2, <2>3, <2>6
  <2>7. Len(q) >= 1 /\ Len(q) - 1 = n
    BY <1>1, <2>2
  <2> QED
    BY <2>1, <2>2, <2>4, <2>5, <2>6, <2>7 DEF Climbs
<1>4. CASE ~(parent \in DOMAIN themes /\ Links!NotOnPath(p, parent))
  BY <1>2, <1>4 DEF ClimbStep
<1> QED
  BY <1>3, <1>4

(* A chain after n queries: of n parents, or one that ends.                 *)
Climbed(themes, theme, n, p) ==
  /\ p \in Climbs(themes, theme)
  /\ Len(p) = n + 1 \/ ClimbStep(themes, p) = p

LEMMA ClimbedOn ==
  ASSUME NEW themes, Links!IsThemes(themes), NEW theme \in DOMAIN themes,
         NEW n \in Nat, NEW p, Climbed(themes, theme, n, p)
  PROVE  Climbed(themes, theme, n + 1, ClimbStep(themes, p))
<1> PICK q : q = ClimbStep(themes, p)
  OBVIOUS
<1>1. p \in Climbs(themes, theme) /\ q \in Climbs(themes, theme)
  BY ClimbOn DEF Climbed
<1>2. CASE q = p
  BY <1>1, <1>2 DEF Climbed
<1>3. CASE q # p
  <2>1. Len(p) = n + 1
    BY <1>3 DEF Climbed
  <2>2. q = Append(p, themes[Links!Last(p)]) /\ themes[Links!Last(p)] \in DOMAIN themes
    BY <1>3 DEF ClimbStep
  <2>3. p \in Seq(DOMAIN themes)
    BY <1>1 DEF Climbs
  <2>4. Len(q) = n + 1 + 1
    BY <2>1, <2>2, <2>3, AppendProperties
  <2> QED
    BY <1>1, <2>4 DEF Climbed
<1> QED
  BY <1>2, <1>3

(* A chain ends where there is no parent, or where it is on the chain.      *)
LEMMA ClimbEnds ==
  ASSUME NEW themes, NEW theme, NEW p \in Climbs(themes, theme), ClimbStep(themes, p) = p,
         themes[Links!Last(p)] \in DOMAIN themes
  PROVE  \E i \in 1 .. Len(p) : p[i] = themes[Links!Last(p)]
<1> PICK parent : parent = themes[Links!Last(p)]
  OBVIOUS
<1>1. p \in Seq(DOMAIN themes) /\ Len(p) \in Nat
  BY LenProperties DEF Climbs
<1>2. ASSUME Links!NotOnPath(p, parent) PROVE FALSE
  <2>1. p = Append(p, parent)
    BY <1>2 DEF ClimbStep
  <2>2. Len(Append(p, parent)) = Len(p) + 1
    BY <1>1, AppendProperties
  <2> QED
    BY <1>1, <2>1, <2>2
<1> QED
  BY <1>2 DEF Links!NotOnPath, Links!Contains

LEMMA AncestorsAre ==
  ASSUME NEW themes, Links!IsThemes(themes), NEW theme \in DOMAIN themes, NEW n \in Nat
  PROVE  Climbed(themes, theme, n, Links!Ancestors(themes, theme)[n])
<1> PICK D : D = Climbs(themes, theme)
  OBVIOUS
<1> DEFINE Equation(path) ==
             path = [m \in Nat |-> IF m = 0 THEN <<theme>> ELSE ClimbStep(themes, path[m - 1])]
<1>1. <<theme>> \in D
  BY DEF Climbs
<1>2. \E path : Equation(path)
  <2> DEFINE step == [p \in D |-> ClimbStep(themes, p)]
  <2>1. step \in [D -> D]
    BY ClimbOn
  <2> HIDE DEF step
  <2> PICK f : f \in Runs(D, <<theme>>, step)
    BY <1>1, <2>1, Recursion
  <2>2. f \in [Nat -> D] /\ f[0] = <<theme>> /\ \A m \in Nat : f[m + 1] = step[f[m]]
    BY DEF Runs
  <2>3. ASSUME NEW m \in Nat, m # 0 PROVE f[m] = ClimbStep(themes, f[m - 1])
    <3>1. m - 1 \in Nat /\ m - 1 + 1 = m
      BY <2>3
    <3>2. f[m] = step[f[m - 1]] /\ f[m - 1] \in D
      BY <2>2, <3>1
    <3> QED
      BY <3>2 DEF step
  <2> HIDE DEF Equation
  <2>4. Equation(f)
    BY <2>2, <2>3 DEF Equation
  <2> QED
    BY <2>4
<1> PICK path : path = Links!Ancestors(themes, theme)
  OBVIOUS
<1>3. path = CHOOSE f : Equation(f)
  BY DEF Links!Ancestors, ClimbStep
<1>4. Equation(path)
  BY <1>2, <1>3
<1>5. path[0] = <<theme>> /\ \A m \in Nat : path[m + 1] = ClimbStep(themes, path[m])
  BY <1>4
<1> HIDE DEF Equation
<1> DEFINE T == {m \in Nat : Climbed(themes, theme, m, path[m])}
<1>6. 0 \in T
  BY <1>1, <1>5 DEF Climbed
<1>7. ASSUME NEW m \in Nat, m \in T PROVE m + 1 \in T
  BY <1>5, <1>7, ClimbedOn
<1> HIDE DEF T
<1>8. n \in T
  BY <1>6, <1>7, Induct
<1> QED
  BY <1>8 DEF T

(* The lineage goes down from the outermost ancestor, to the theme. *)
LineageOf(themes, theme, line) ==
  /\ IsInjective(line)
  /\ Last(line) = theme
  /\ \A i \in 1 .. (Len(line) - 1) : themes[line[i + 1]] = line[i]
  /\ \/ Len(line) = MaxTraversalDepth + 1
     \/ themes[Head(line)] \notin DOMAIN themes \ ToSet(line)

LEMMA LineageIs ==
  ASSUME NEW themes, Links!IsThemes(themes), NEW theme \in DOMAIN themes
  PROVE  LineageOf(themes, theme, Links!Lineage(themes, theme))
<1> PICK p : p = Links!Ancestors(themes, theme)[MaxTraversalDepth]
  OBVIOUS
<1> PICK n : n = Len(p)
  OBVIOUS
<1> PICK line : line = Links!Lineage(themes, theme)
  OBVIOUS
<1>1. /\ p \in Climbs(themes, theme)
      /\ Len(p) = MaxTraversalDepth + 1 \/ ClimbStep(themes, p) = p
  BY ThemeAssumption, AncestorsAre DEF Climbed
<1>2. /\ p \in Seq(DOMAIN themes) /\ n \in Nat /\ n >= 1 /\ p[1] = theme
      /\ \A i \in 1 .. n - 1 : themes[p[i]] = p[i + 1]
      /\ \A i, j \in 1 .. n : p[i] = p[j] => i = j
  BY <1>1, LenProperties DEF Climbs
<1>3. line = [i \in 1 .. n |-> p[(n - i) + 1]]
  BY DEF Links!Lineage, Links!Reverse
<1>4. \A i \in 1 .. n : (n - i) + 1 \in 1 .. n /\ p[(n - i) + 1] \in DOMAIN themes
  BY <1>2, ElementOfSeq
<1>5. line \in [1 .. n -> DOMAIN themes]
  BY <1>3, <1>4
<1>6. Len(line) = n /\ DOMAIN line = 1 .. n
  BY <1>2, <1>5, SequenceOf
<1>7. IsInjective(line)
  <2> SUFFICES ASSUME NEW i \in 1 .. n, NEW j \in 1 .. n, line[i] = line[j] PROVE i = j
    BY <1>6 DEF IsInjective
  <2> PICK k : k = (n - i) + 1
    OBVIOUS
  <2> PICK l : l = (n - j) + 1
    OBVIOUS
  <2>1. k \in 1 .. n /\ l \in 1 .. n /\ line[i] = p[k] /\ line[j] = p[l]
    BY <1>3, <1>4
  <2>2. k = l
    BY Zenon, <1>2, <2>1
  <2> QED
    BY <1>2, <2>2
<1>8. line[n] = theme
  BY <1>2, <1>3
<1>9. ASSUME NEW i \in 1 .. n - 1 PROVE themes[line[i + 1]] = line[i]
  <2> PICK k : k = n - i
    OBVIOUS
  <2>1. k \in 1 .. n - 1 /\ i \in 1 .. n /\ i + 1 \in 1 .. n
        /\ (n - i) + 1 = k + 1 /\ (n - (i + 1)) + 1 = k
    BY <1>2
  <2>2. line[i] = p[k + 1] /\ line[i + 1] = p[k]
    BY <1>3, <2>1
  <2> QED
    BY <1>2, <2>1, <2>2
<1>10. \/ n = MaxTraversalDepth + 1
       \/ themes[Head(line)] \notin DOMAIN themes \ ToSet(line)
  <2> SUFFICES ASSUME ClimbStep(themes, p) = p, themes[Head(line)] \in DOMAIN themes
               PROVE  themes[Head(line)] \in ToSet(line)
    BY <1>1
  <2>1. 1 \in 1 .. n /\ (n - 1) + 1 = n
    BY <1>2
  <2>2. line[1] = p[n]
    BY <1>3, <2>1
  <2>3. Head(line) = p[n] /\ Links!Last(p) = p[n]
    BY <2>2 DEF Head, Links!Last
  <2> PICK i \in 1 .. n : p[i] = themes[Head(line)]
    BY <1>1, <2>3, ClimbEnds
  <2> PICK k : k = (n - i) + 1
    OBVIOUS
  <2>4. k \in 1 .. n /\ (n - k) + 1 = i
    BY <1>2
  <2>5. line[k] = p[i]
    BY <1>3, <2>4
  <2> QED
    BY <1>6, <2>4, <2>5 DEF ToSet
<1> QED
  BY <1>6, <1>7, <1>8, <1>9, <1>10 DEF LineageOf, Last

(* One more child, if it is not on the path. *)
Grown(themes, rows) ==
  UNION {{Append(path, t) :
            t \in {x \in DOMAIN themes :
                     themes[x] = Links!Last(path) /\ Links!NotOnPath(path, x)}} :
           path \in rows}

LEMMA PathIs ==
  ASSUME NEW themes, NEW theme, NEW n \in Nat, NEW p \in Paths(themes, theme, n)
  PROVE  /\ p \in Seq(DOMAIN themes) /\ Len(p) = n + 1 /\ Links!Last(p) = p[n + 1]
         /\ DOMAIN p = 1 .. n + 1 /\ p[1] = theme
         /\ \A i \in 1 .. n + 1 : p[i] \in DOMAIN themes
         /\ \A i \in 1 .. n : themes[p[i + 1]] = p[i]
         /\ \A i, j \in 1 .. n + 1 : p[i] = p[j] => i = j
<1>1. p \in [1 .. n + 1 -> DOMAIN themes]
  BY DEF Paths
<1>2. p \in Seq(DOMAIN themes) /\ Len(p) = n + 1 /\ DOMAIN p = 1 .. n + 1
  BY <1>1, SequenceOf
<1> QED
  BY <1>1, <1>2 DEF Paths, Links!Last

LEMMA PathGrows ==
  ASSUME NEW themes, NEW theme, NEW n \in Nat, NEW p \in Paths(themes, theme, n),
         NEW t \in DOMAIN themes, themes[t] = p[n + 1], \A i \in 1 .. n + 1 : p[i] # t
  PROVE  Append(p, t) \in Paths(themes, theme, n + 1)
<1> PICK q : q = Append(p, t)
  OBVIOUS
<1>1. /\ p \in Seq(DOMAIN themes) /\ Len(p) = n + 1 /\ p[1] = theme
      /\ \A i \in 1 .. n : themes[p[i + 1]] = p[i]
      /\ \A i, j \in 1 .. n + 1 : p[i] = p[j] => i = j
  BY PathIs
<1>2. /\ q \in Seq(DOMAIN themes) /\ Len(q) = n + 2 /\ q[n + 2] = t
      /\ \A i \in 1 .. n + 1 : q[i] = p[i]
  BY <1>1, AppendProperties
<1>3. q \in [1 .. n + 1 + 1 -> DOMAIN themes]
  <2>1. q \in [1 .. Len(q) -> DOMAIN themes]
    BY <1>2, LenProperties
  <2>2. Len(q) = n + 1 + 1
    BY <1>2
  <2> QED
    BY <2>1, <2>2
<1>4. q[1] = theme
  BY <1>1, <1>2
<1>5. ASSUME NEW i \in 1 .. n + 1 PROVE themes[q[i + 1]] = q[i]
  <2>1. CASE i = n + 1
    BY <1>2, <2>1
  <2>2. CASE i # n + 1
    <3>1. i \in 1 .. n /\ i + 1 \in 1 .. n + 1
      BY <2>2
    <3> QED
      BY <1>1, <1>2, <3>1
  <2> QED
    BY <2>1, <2>2
<1>6. ASSUME NEW i \in 1 .. n + 1 + 1, NEW j \in 1 .. n + 1 + 1, q[i] = q[j] PROVE i = j
  BY <1>1, <1>2, <1>6
<1> QED
  BY <1>3, <1>4, <1>5, <1>6 DEF Paths

(* The beginning of a path is one. *)
LEMMA PathBegins ==
  ASSUME NEW themes, NEW theme, NEW n \in Nat, NEW p \in Paths(themes, theme, n), NEW m \in 0 .. n
  PROVE  [i \in 1 .. m + 1 |-> p[i]] \in Paths(themes, theme, m)
<1>1. /\ p[1] = theme /\ \A i \in 1 .. n + 1 : p[i] \in DOMAIN themes
      /\ \A i \in 1 .. n : themes[p[i + 1]] = p[i]
      /\ \A i, j \in 1 .. n + 1 : p[i] = p[j] => i = j
  BY PathIs
<1> PICK q : q = [i \in 1 .. m + 1 |-> p[i]]
  OBVIOUS
<1>2. q \in [1 .. m + 1 -> DOMAIN themes] /\ \A i \in 1 .. m + 1 : q[i] = p[i]
  BY <1>1
<1>3. \A i \in 1 .. m : i + 1 \in 1 .. m + 1 /\ i \in 1 .. n /\ i \in 1 .. m + 1
  OBVIOUS
<1>4. \A i \in 1 .. m : themes[q[i + 1]] = q[i]
  BY <1>1, <1>2, <1>3
<1>5. \A i, j \in 1 .. m + 1 : q[i] = q[j] => i = j
  BY <1>1, <1>2
<1>6. q[1] = theme
  BY <1>1, <1>2
<1> QED
  BY <1>2, <1>4, <1>5, <1>6 DEF Paths

LEMMA GrownIs ==
  ASSUME NEW themes, NEW theme, NEW n \in Nat
  PROVE  Grown(themes, Paths(themes, theme, n)) = Paths(themes, theme, n + 1)
<1>1. ASSUME NEW q \in Grown(themes, Paths(themes, theme, n))
      PROVE  q \in Paths(themes, theme, n + 1)
  <2> PICK p \in Paths(themes, theme, n) :
             q \in {Append(p, t) : t \in {x \in DOMAIN themes :
                      themes[x] = Links!Last(p) /\ Links!NotOnPath(p, x)}}
    BY <1>1 DEF Grown
  <2> PICK t \in DOMAIN themes :
             q = Append(p, t) /\ themes[t] = Links!Last(p) /\ Links!NotOnPath(p, t)
    OBVIOUS
  <2>1. Links!Last(p) = p[n + 1] /\ Len(p) = n + 1
    BY PathIs
  <2>2. \A i \in 1 .. n + 1 : p[i] # t
    BY <2>1 DEF Links!NotOnPath, Links!Contains
  <2> QED
    BY <2>1, <2>2, PathGrows
<1>2. ASSUME NEW q \in Paths(themes, theme, n + 1)
      PROVE  q \in Grown(themes, Paths(themes, theme, n))
  <2> PICK p : p = [i \in 1 .. n + 1 |-> q[i]]
    OBVIOUS
  <2> PICK t : t = q[n + 2]
    OBVIOUS
  <2>1. p \in Paths(themes, theme, n)
    <3>1. n \in 0 .. n + 1
      OBVIOUS
    <3> QED
      BY <3>1, PathBegins
  <2>2. /\ q \in Seq(DOMAIN themes) /\ Len(q) = n + 2 /\ DOMAIN q = 1 .. n + 2
        /\ \A i \in 1 .. n + 2 : q[i] \in DOMAIN themes
        /\ \A i \in 1 .. n + 1 : themes[q[i + 1]] = q[i]
        /\ \A i, j \in 1 .. n + 2 : q[i] = q[j] => i = j
    BY PathIs
  <2>3. p \in Seq(DOMAIN themes) /\ Len(p) = n + 1 /\ Links!Last(p) = p[n + 1]
    BY <2>1, PathIs
  <2>4. t \in DOMAIN themes /\ themes[t] = p[n + 1]
    <3>1. n + 1 \in 1 .. n + 1 /\ n + 2 \in 1 .. n + 2 /\ n + 1 + 1 = n + 2
      OBVIOUS
    <3> QED
      BY <2>2, <3>1
  <2>5. Links!NotOnPath(p, t)
    <3>1. ASSUME NEW i \in 1 .. n + 1 PROVE p[i] # t
      BY <2>2, <3>1
    <3> QED
      BY <2>3, <3>1 DEF Links!NotOnPath, Links!Contains
  <2>6. q = Append(p, t)
    <3> PICK r : r = Append(p, t)
      OBVIOUS
    <3>1. /\ r \in Seq(DOMAIN themes) /\ Len(r) = n + 2 /\ r[n + 2] = t
          /\ \A i \in 1 .. n + 1 : r[i] = p[i]
      BY <2>3, <2>4, AppendProperties
    <3>2. \A i \in 1 .. n + 2 : r[i] = q[i]
      BY <3>1
    <3>3. r \in [1 .. n + 2 -> DOMAIN themes] /\ q \in [1 .. n + 2 -> DOMAIN themes]
      BY <2>2, <3>1, LenProperties
    <3> QED
      BY <3>2, <3>3
  <2>7. q \in {Append(p, x) : x \in {y \in DOMAIN themes :
                  themes[y] = Links!Last(p) /\ Links!NotOnPath(p, y)}}
    BY <2>3, <2>4, <2>5, <2>6
  <2> QED
    BY <2>1, <2>7 DEF Grown
<1> QED
  BY <1>1, <1>2

LEMMA SubtreeIs ==
  ASSUME NEW themes, NEW theme \in DOMAIN themes, NEW n \in Nat
  PROVE  Links!Subtree(themes, theme)[n] = Paths(themes, theme, n)
<1> DEFINE Equation(rows) ==
             rows = [m \in Nat |-> IF m = 0 THEN {<<theme>>} ELSE Grown(themes, rows[m - 1])]
           f == [m \in Nat |-> Paths(themes, theme, m)]
<1>1. Paths(themes, theme, 0) = {<<theme>>}
  <2>1. ASSUME NEW p \in Paths(themes, theme, 0) PROVE p = <<theme>>
    <3>1. p \in [1 .. 0 + 1 -> DOMAIN themes] /\ p[1] = theme
      BY DEF Paths
    <3> QED
      BY <3>1
  <2>2. <<theme>> \in Paths(themes, theme, 0)
    BY DEF Paths
  <2> QED
    BY <2>1, <2>2
<1>2. ASSUME NEW m \in Nat, m # 0
      PROVE  Paths(themes, theme, m) = Grown(themes, Paths(themes, theme, m - 1))
  <2>1. m - 1 \in Nat /\ m - 1 + 1 = m
    BY <1>2
  <2> QED
    BY <2>1, GrownIs
<1>3. Equation(f)
  <2>1. ASSUME NEW m \in Nat
        PROVE  f[m] = IF m = 0 THEN {<<theme>>} ELSE Grown(themes, f[m - 1])
    <3>1. CASE m = 0
      BY <1>1, <3>1
    <3>2. CASE m # 0
      <4>1. m - 1 \in Nat
        BY <3>2
      <4> QED
        BY <1>2, <3>2, <4>1
    <3> QED
      BY <3>1, <3>2
  <2>2. f = [m \in Nat |-> f[m]]
    OBVIOUS
  <2> HIDE DEF f
  <2> QED
    BY <2>1, <2>2
<1> PICK rows : rows = Links!Subtree(themes, theme)
  OBVIOUS
<1>4. rows = CHOOSE g : Equation(g)
  BY DEF Links!Subtree, Grown
<1>5. Equation(rows)
  BY <1>3, <1>4
<1> HIDE DEF f
<1>5a. rows[0] = {<<theme>>}
  BY <1>5
<1>6. ASSUME NEW m \in Nat PROVE rows[m + 1] = Grown(themes, rows[m])
  <2> PICK k : k = m + 1
    OBVIOUS
  <2>1. k \in Nat /\ k # 0 /\ k - 1 = m
    OBVIOUS
  <2>2. rows[k] = Grown(themes, rows[k - 1])
    BY <1>5, <2>1
  <2> QED
    BY <2>1, <2>2
<1> HIDE DEF Equation
<1> DEFINE T == {m \in Nat : rows[m] = Paths(themes, theme, m)}
<1>7. 0 \in T
  BY <1>1, <1>5a
<1>8. ASSUME NEW m \in Nat, m \in T PROVE m + 1 \in T
  BY <1>6, <1>8, GrownIs
<1> HIDE DEF T
<1>9. n \in T
  BY <1>7, <1>8, Induct
<1> QED
  BY <1>9 DEF T

-----------------------------------------------------------------------------
(* A theme has one parent, so there is one path to it. *)
LEMMA PathsMeet ==
  ASSUME NEW themes, NEW theme, NEW n \in Nat, NEW p \in Paths(themes, theme, n),
         NEW m \in Nat, NEW q \in Paths(themes, theme, m), n <= m,
         p[n + 1] = q[m + 1]
  PROVE  n = m /\ p = q
<1>1. /\ p[1] = theme /\ \A i \in 1 .. n : themes[p[i + 1]] = p[i]
      /\ p \in [1 .. n + 1 -> DOMAIN themes]
  BY DEF Paths
<1>2. /\ q[1] = theme /\ \A i \in 1 .. m : themes[q[i + 1]] = q[i]
      /\ \A i, j \in 1 .. m + 1 : q[i] = q[j] => i = j
      /\ q \in [1 .. m + 1 -> DOMAIN themes]
  BY DEF Paths
<1> DEFINE T == {k \in Nat : k <= n => p[n - k + 1] = q[m - k + 1]}
<1>3. 0 \in T
  OBVIOUS
<1>4. ASSUME NEW k \in Nat, k \in T PROVE k + 1 \in T
  <2> SUFFICES ASSUME k + 1 <= n PROVE p[n - (k + 1) + 1] = q[m - (k + 1) + 1]
    OBVIOUS
  <2> PICK i : i = n - k
    OBVIOUS
  <2> PICK j : j = m - k
    OBVIOUS
  <2>1. i \in 1 .. n /\ j \in 1 .. m
    OBVIOUS
  <2>2. p[i + 1] = q[j + 1]
    BY <1>4
  <2>3. p[i] = q[j]
    BY <1>1, <1>2, <2>1, <2>2
  <2>4. n - (k + 1) + 1 = i /\ m - (k + 1) + 1 = j
    OBVIOUS
  <2> QED
    BY <2>3, <2>4
<1> HIDE DEF T
<1>5. \A k \in Nat : k \in T
  BY <1>3, <1>4, Induct
<1>6. \A k \in 0 .. n : p[n - k + 1] = q[m - k + 1]
  BY <1>5 DEF T
<1>7. p[1] = q[m - n + 1]
  BY <1>6
<1>8. m - n + 1 \in 1 .. m + 1 /\ 1 \in 1 .. m + 1
  OBVIOUS
<1>9. m - n + 1 = 1
  BY <1>1, <1>2, <1>7, <1>8
<1>10. n = m
  BY <1>9
<1>11. ASSUME NEW i \in 1 .. n + 1 PROVE p[i] = q[i]
  <2> PICK k : k = n + 1 - i
    OBVIOUS
  <2>1. k \in 0 .. n /\ n - k + 1 = i
    OBVIOUS
  <2> QED
    BY <1>6, <1>10, <2>1
<1> QED
  BY <1>1, <1>2, <1>10, <1>11

(* What is below a theme are paths to it. *)
IsBelow(themes, theme, p) == \E n \in 1 .. MaxTraversalDepth : p \in Paths(themes, theme, n)

LEMMA BelowIs ==
  ASSUME NEW themes, NEW theme \in DOMAIN themes, NEW p
  PROVE  p \in Links!Below(themes, theme) <=> IsBelow(themes, theme, p)
<1>1. \A n \in 1 .. MaxTraversalDepth : n \in Nat
  BY ThemeAssumption
<1>2. \A n \in 1 .. MaxTraversalDepth :
        Links!Subtree(themes, theme)[n] = Paths(themes, theme, n)
  BY <1>1, SubtreeIs
<1>3. p \in Links!Below(themes, theme)
        <=> \E n \in 1 .. MaxTraversalDepth : p \in Links!Subtree(themes, theme)[n]
  BY DEF Links!Below
<1> QED
  BY <1>2, <1>3 DEF IsBelow

(* The ends of these paths, and the levels below the theme. *)
Ends(themes, theme) == {Links!Last(p) : p \in Links!Below(themes, theme)}

Levels(themes, theme) ==
  (UNION {Level(themes, theme)[n] : n \in 1 .. MaxTraversalDepth}) \ {theme}

LEMMA BelowUnique ==
  ASSUME NEW themes, NEW theme \in DOMAIN themes,
         NEW p \in Links!Below(themes, theme), NEW q \in Links!Below(themes, theme)
  PROVE  /\ Len(p) \in Nat /\ Links!Last(p) \in DOMAIN themes
         /\ Links!Last(p) = Links!Last(q) => p = q
<1> PICK n \in 1 .. MaxTraversalDepth : p \in Paths(themes, theme, n)
  BY BelowIs DEF IsBelow
<1> PICK m \in 1 .. MaxTraversalDepth : q \in Paths(themes, theme, m)
  BY BelowIs DEF IsBelow
<1>1. n \in Nat /\ m \in Nat /\ n + 1 \in 1 .. n + 1
  BY ThemeAssumption
<1>2. Len(p) = n + 1 /\ Links!Last(p) = p[n + 1] /\ p[n + 1] \in DOMAIN themes
  BY <1>1, PathIs
<1>3. Links!Last(q) = q[m + 1]
  BY <1>1, PathIs
<1>4. CASE n <= m
  BY <1>1, <1>2, <1>3, <1>4, PathsMeet
<1>5. CASE m <= n
  BY <1>1, <1>2, <1>3, <1>5, PathsMeet
<1> QED
  BY <1>1, <1>4, <1>5

LEMMA BelowFinite ==
  ASSUME NEW themes, Links!IsThemes(themes), NEW theme \in DOMAIN themes
  PROVE  IsFiniteSet(Links!Below(themes, theme))
<1> PICK S : S = Links!Below(themes, theme)
  OBVIOUS
<1> DEFINE end == [p \in S |-> Links!Last(p)]
<1>1. end \in [S -> DOMAIN themes]
  BY BelowUnique
<1>2. \A p, q \in S : end[p] = end[q] => p = q
  BY BelowUnique
<1> HIDE DEF end
<1>3. end \in Injection(S, DOMAIN themes)
  BY <1>1, <1>2 DEF Injection, IsInjective
<1>4. IsFiniteSet(DOMAIN themes)
  BY DEF Links!IsThemes, Links!IsFiniteSet, IsFiniteSet
<1> QED
  BY <1>3, <1>4, FS_Injection

(* The descendants are the ends of the paths, in an order, each once. *)
LEMMA DescendantsAre ==
  ASSUME NEW themes, Links!IsThemes(themes), NEW theme \in DOMAIN themes,
         NEW found, found = Links!Descendants(themes, theme)
  PROVE  IsInjective(found) /\ ToSet(found) = Ends(themes, theme)
<1> PICK S : S = Links!Below(themes, theme)
  OBVIOUS
<1> PICK R : R = {p \in S \X S : Links!Nearer(p[1], p[2])}
  OBVIOUS
<1>1. \A x, y \in S : <<x, y>> \in R <=> Links!Nearer(x, y)
  OBVIOUS
<1>2. \A x \in S : Len(x) \in Nat /\ Links!Last(x) \in Nat
  BY BelowUnique DEF Links!IsThemes
<1>3. \A x, y \in S : Links!Last(x) = Links!Last(y) => x = y
  BY BelowUnique
<1>4. StrictOrder(S, R)
  <2>1. ASSUME NEW x \in S PROVE <<x, x>> \notin R
    BY <1>1, <1>2 DEF Links!Nearer
  <2>2. ASSUME NEW x \in S, NEW y \in S, x # y PROVE <<x, y>> \in R \/ <<y, x>> \in R
    BY <1>1, <1>2, <1>3, <2>2 DEF Links!Nearer
  <2>3. ASSUME NEW x \in S, NEW y \in S, NEW z \in S, <<x, y>> \in R, <<y, z>> \in R
        PROVE  <<x, z>> \in R
    BY <1>1, <1>2, <2>3 DEF Links!Nearer
  <2> QED
    BY <2>1, <2>2, <2>3 DEF StrictOrder
<1>5. IsFiniteSet(S)
  BY BelowFinite
<1> PICK n : n = Cardinality(S)
  OBVIOUS
<1>6. n \in Nat
  BY <1>5, FS_CardinalityType
<1>7. \A T : Links!Cardinality(T) = Cardinality(T)
  BY DEF Links!Cardinality, Cardinality
<1> PICK f : f = [i \in 1 .. n |->
             CHOOSE x \in S : Links!Cardinality({y \in S : Links!Nearer(y, x)}) = i - 1]
  OBVIOUS
<1>8. f = [i \in 1 .. Links!Cardinality(S) |->
             CHOOSE x \in S : Links!Cardinality({y \in S : Links!Nearer(y, x)}) = i - 1]
  BY <1>7
<1>9. found = [i \in DOMAIN f |-> Links!Last(f[i])]
  <2> PICK g : g = [i \in 1 .. Links!Cardinality(Links!Below(themes, theme)) |->
                     CHOOSE x \in Links!Below(themes, theme) :
                       Links!Cardinality({y \in Links!Below(themes, theme) :
                                            Links!Nearer(y, x)}) = i - 1]
    OBVIOUS
  <2>1. found = [i \in DOMAIN g |-> Links!Last(g[i])]
    BY DEF Links!Descendants, Links!Ordered
  <2>2. g = f
    BY <1>8
  <2> QED
    BY <2>1, <2>2
<1>10. ASSUME NEW x \in S
       PROVE  Links!Cardinality({y \in S : Links!Nearer(y, x)})
                = Cardinality(Predecessors(S, R, x))
  <2>1. {y \in S : Links!Nearer(y, x)} = Predecessors(S, R, x)
    BY <1>1 DEF Predecessors
  <2> QED
    BY <1>7, <2>1
<1>11. ASSUME NEW i \in 1 .. n
       PROVE  f[i] \in S /\ Cardinality(Predecessors(S, R, f[i])) = i - 1
  <2>1. \E x \in S : Links!Cardinality({y \in S : Links!Nearer(y, x)}) = i - 1
    BY <1>4, <1>5, <1>10, PlaceTaken
  <2>2. f[i] \in S /\ Links!Cardinality({y \in S : Links!Nearer(y, f[i])}) = i - 1
    BY <2>1
  <2> QED
    BY <1>10, <2>2
<1>12. f \in [1 .. n -> S]
  BY <1>11
<1>13. Lists(f, S, R)
  BY <1>4, <1>5, <1>11, <1>12, ListIs
<1>14. \A i, j \in 1 .. n : f[i] = f[j] => i = j
  <2> SUFFICES ASSUME NEW i \in 1 .. n, NEW j \in 1 .. n, f[i] = f[j], i # j PROVE FALSE
    OBVIOUS
  <2>1. i < j \/ j < i
    BY <1>6
  <2>2. <<f[i], f[i]>> \in R
    BY <1>13, <2>1 DEF Lists
  <2> QED
    BY <1>4, <1>12, <2>2 DEF StrictOrder
<1>15. DOMAIN found = 1 .. n /\ \A i \in 1 .. n : found[i] = Links!Last(f[i])
  BY <1>9, <1>12
<1>16. IsInjective(found)
  <2> SUFFICES ASSUME NEW i \in 1 .. n, NEW j \in 1 .. n, found[i] = found[j] PROVE i = j
    BY <1>15 DEF IsInjective
  <2>0. f[i] \in S /\ f[j] \in S
    BY <1>12
  <2>1. Links!Last(f[i]) = Links!Last(f[j])
    BY Zenon, <1>15
  <2>2. f[i] = f[j]
    BY <1>3, <2>0, <2>1
  <2> QED
    BY <1>14, <2>2
<1>17. \A x \in S : \E i \in 1 .. n : f[i] = x
  BY <1>13 DEF Lists
<1>18. ToSet(found) = {Links!Last(p) : p \in S}
  <2>1. ASSUME NEW i \in 1 .. n PROVE found[i] \in {Links!Last(p) : p \in S}
    BY <1>12, <1>15
  <2>2. ASSUME NEW p \in S PROVE \E i \in 1 .. n : found[i] = Links!Last(p)
    BY <1>15, <1>17
  <2>3. ToSet(found) = {found[i] : i \in 1 .. n}
    BY <1>15 DEF ToSet
  <2> QED
    BY <2>1, <2>2, <2>3
<1> QED
  BY <1>16, <1>18 DEF Ends

LEMMA LevelIs ==
  ASSUME NEW themes, NEW theme \in DOMAIN themes
  PROVE  /\ Level(themes, theme)[0] = {theme}
         /\ \A n \in 0 .. MaxTraversalDepth - 1 :
              Level(themes, theme)[n + 1]
                = {t \in DOMAIN themes : themes[t] \in Level(themes, theme)[n]}
<1> PICK d : d = MaxTraversalDepth
  OBVIOUS
<1>1. d \in Nat
  BY ThemeAssumption
<1> DEFINE Lower(set) == {t \in DOMAIN themes : themes[t] \in set}
           Equation(level) ==
             level = [n \in 0 .. d |-> IF n = 0 THEN {theme} ELSE Lower(level[n - 1])]
<1>2. \E level : Equation(level)
  <2> PICK D : D = SUBSET (DOMAIN themes)
    OBVIOUS
  <2> PICK start : start = {theme}
    OBVIOUS
  <2> DEFINE step == [s \in D |-> Lower(s)]
  <2>1. step \in [D -> D] /\ start \in D
    OBVIOUS
  <2> HIDE DEF step
  <2> PICK f : f \in Runs(D, start, step)
    BY <2>1, Recursion
  <2>2. f \in [Nat -> D] /\ f[0] = {theme} /\ \A m \in Nat : f[m + 1] = step[f[m]]
    BY DEF Runs
  <2>3. ASSUME NEW m \in Nat, m # 0 PROVE f[m] = Lower(f[m - 1]) /\ m - 1 \in Nat
    <3>1. m - 1 \in Nat /\ m - 1 + 1 = m
      BY <2>3
    <3>2. f[m] = step[f[m - 1]] /\ f[m - 1] \in D
      BY <2>2, <3>1
    <3> QED
      BY <3>1, <3>2 DEF step
  <2> DEFINE g == [n \in 0 .. d |-> f[n]]
  <2>4. \A n \in 0 .. d : g[n] = IF n = 0 THEN {theme} ELSE Lower(g[n - 1])
    <3> SUFFICES ASSUME NEW n \in 0 .. d
                 PROVE  g[n] = IF n = 0 THEN {theme} ELSE Lower(g[n - 1])
      OBVIOUS
    <3>1. CASE n = 0
      BY <2>2, <3>1
    <3>2. CASE n # 0
      <4>1. n - 1 \in 0 .. d /\ n \in Nat
        BY <1>1, <3>2
      <4>2. f[n] = Lower(f[n - 1])
        BY <2>3, <3>2, <4>1
      <4>3. g[n] = f[n] /\ g[n - 1] = f[n - 1]
        BY <4>1
      <4> HIDE DEF g, Lower
      <4> QED
        BY <3>2, <4>2, <4>3
    <3> HIDE DEF g, Lower
    <3> QED
      BY <3>1, <3>2
  <2>5. g = [n \in 0 .. d |-> g[n]]
    OBVIOUS
  <2> HIDE DEF g, Lower
  <2>6. Equation(g)
    BY <2>4, <2>5
  <2> QED
    BY <2>6
<1> PICK level : level = Level(themes, theme)
  OBVIOUS
<1>3. level = CHOOSE g : Equation(g)
  BY DEF Level
<1>4. Equation(level)
  BY <1>2, <1>3
<1>5. level[0] = {theme}
  BY <1>1, <1>4
<1>6. ASSUME NEW n \in 0 .. d - 1 PROVE level[n + 1] = Lower(level[n])
  <2> PICK k : k = n + 1
    OBVIOUS
  <2>1. k \in 0 .. d /\ k # 0 /\ k - 1 = n
    BY <1>1
  <2>2. level[k] = Lower(level[k - 1])
    BY <1>4, <2>1
  <2> QED
    BY <2>1, <2>2
<1> QED
  BY <1>5, <1>6

(* A theme is on a level if a path leads to it, or a shorter one does. *)
LEMMA LevelsBelow ==
  ASSUME NEW themes, NEW theme \in DOMAIN themes
  PROVE  Ends(themes, theme) = Levels(themes, theme)
<1> PICK d : d = MaxTraversalDepth
  OBVIOUS
<1>1. d \in Nat
  BY ThemeAssumption
<1> PICK level : level = Level(themes, theme)
  OBVIOUS
<1>2. /\ level[0] = {theme}
      /\ \A n \in 0 .. d - 1 : level[n + 1] = {t \in DOMAIN themes : themes[t] \in level[n]}
  BY LevelIs
<1>3. ASSUME NEW n \in 1 .. d, NEW p \in Paths(themes, theme, n)
      PROVE  Links!Last(p) \in level[n] /\ Links!Last(p) # theme
  <2>1. /\ p[1] = theme /\ Links!Last(p) = p[n + 1]
        /\ \A i \in 1 .. n + 1 : p[i] \in DOMAIN themes
        /\ \A i \in 1 .. n : themes[p[i + 1]] = p[i]
        /\ \A i, j \in 1 .. n + 1 : p[i] = p[j] => i = j
    BY <1>1, PathIs
  <2> DEFINE T == {i \in Nat : i <= n => p[i + 1] \in level[i]}
  <2>2. 0 \in T
    BY <1>2, <2>1
  <2>3. ASSUME NEW i \in Nat, i \in T PROVE i + 1 \in T
    <3> SUFFICES ASSUME i + 1 <= n PROVE p[i + 1 + 1] \in level[i + 1]
      OBVIOUS
    <3> PICK j : j = i + 1
      OBVIOUS
    <3>1. j \in 1 .. n /\ j + 1 \in 1 .. n + 1 /\ i \in 0 .. d - 1 /\ i + 1 + 1 = j + 1
      BY <1>1
    <3>2. p[j + 1] \in DOMAIN themes /\ themes[p[j + 1]] = p[j] /\ p[j] \in level[i]
      BY <2>1, <2>3, <3>1
    <3> QED
      BY <1>2, <3>1, <3>2
  <2> HIDE DEF T
  <2>4. n \in T
    BY <1>1, <2>2, <2>3, Induct
  <2>5. p[n + 1] # theme
    <3>1. 1 \in 1 .. n + 1 /\ n + 1 \in 1 .. n + 1 /\ n + 1 # 1
      BY <1>1
    <3> QED
      BY <2>1, <3>1
  <2> QED
    BY <1>1, <2>1, <2>4, <2>5 DEF T
<1> DEFINE Leads(n, t) == \E m \in 0 .. n : \E p \in Paths(themes, theme, m) : p[m + 1] = t
           U == {n \in Nat : n <= d => \A t \in level[n] : Leads(n, t)}
<1>4. 0 \in U
  <2>1. <<theme>> \in Paths(themes, theme, 0)
    BY DEF Paths
  <2>2. <<theme>>[0 + 1] = theme
    OBVIOUS
  <2>3. Leads(0, theme)
    BY <2>1, <2>2
  <2> HIDE DEF Leads
  <2> QED
    BY <1>2, <2>3
<1>5. ASSUME NEW n \in Nat, n \in U PROVE n + 1 \in U
  <2> SUFFICES ASSUME n + 1 <= d, NEW t \in level[n + 1] PROVE Leads(n + 1, t)
    OBVIOUS
  <2>1. t \in DOMAIN themes /\ themes[t] \in level[n]
    BY <1>1, <1>2
  <2>2. Leads(n, themes[t])
    BY <1>1, <1>5, <2>1
  <2> PICK m \in 0 .. n : \E p \in Paths(themes, theme, m) : p[m + 1] = themes[t]
    BY <2>2
  <2> PICK p \in Paths(themes, theme, m) : p[m + 1] = themes[t]
    OBVIOUS
  <2>3. CASE \E i \in 1 .. m + 1 : p[i] = t
    <3> PICK i \in 1 .. m + 1 : p[i] = t
      BY <2>3
    <3> PICK k : k = i - 1
      OBVIOUS
    <3>1. k \in 0 .. m /\ k \in 0 .. n + 1 /\ k + 1 = i
      OBVIOUS
    <3> PICK q : q = [j \in 1 .. k + 1 |-> p[j]]
      OBVIOUS
    <3>2. q \in Paths(themes, theme, k)
      BY <3>1, PathBegins
    <3>3. q[k + 1] = t
      BY <3>1
    <3> QED
      BY <3>1, <3>2, <3>3
  <2>4. CASE \A i \in 1 .. m + 1 : p[i] # t
    <3> PICK q : q = Append(p, t)
      OBVIOUS
    <3>0. m \in Nat /\ themes[t] = p[m + 1] /\ t \in DOMAIN themes
      BY <2>1
    <3>1. q \in Paths(themes, theme, m + 1)
      BY <2>4, <3>0, PathGrows
    <3>3. p \in Seq(DOMAIN themes) /\ Len(p) = m + 1
      BY <3>0, PathIs
    <3>4. q[m + 2] = t
      BY <3>0, <3>3, AppendProperties
    <3>2. m + 1 \in 0 .. n + 1 /\ m + 1 + 1 = m + 2
      OBVIOUS
    <3> QED
      BY <3>1, <3>2, <3>4
  <2> QED
    BY <2>3, <2>4
<1> HIDE DEF U
<1>6. \A n \in Nat : n \in U
  BY <1>4, <1>5, Induct
<1>7. ASSUME NEW n \in 1 .. d, NEW t \in level[n], t # theme
      PROVE  \E p \in Links!Below(themes, theme) : Links!Last(p) = t
  <2>1. Leads(n, t)
    BY <1>1, <1>6 DEF U
  <2> PICK m \in 0 .. n : \E p \in Paths(themes, theme, m) : p[m + 1] = t
    BY <2>1
  <2> PICK p \in Paths(themes, theme, m) : p[m + 1] = t
    OBVIOUS
  <2>2. p[1] = theme /\ Links!Last(p) = p[m + 1]
    BY <1>1, PathIs
  <2>3. m # 0
    BY <1>7, <2>2
  <2>4. m \in 1 .. d
    BY <1>1, <2>3
  <2>5. p \in Links!Below(themes, theme)
    BY <2>4, BelowIs DEF IsBelow
  <2> QED
    BY <2>2, <2>5
<1>8. ASSUME NEW p \in Links!Below(themes, theme)
      PROVE  Links!Last(p) \in (UNION {level[n] : n \in 1 .. d}) \ {theme}
  <2> PICK n \in 1 .. d : p \in Paths(themes, theme, n)
    BY BelowIs DEF IsBelow
  <2> QED
    BY <1>3
<1> QED
  BY <1>7, <1>8 DEF Ends, Levels

(***************************************************************************)
(* The lineage and the descendants of a theme end, have each theme once and*)
(* lack none, for any tree of themes and any parents that form cycles, as  *)
(* far as any MaxTraversalDepth reaches (queries.py, lineage and           *)
(* descendants; traversal.py).                                             *)
(***************************************************************************)
THEOREM ThemesOnceAlways == Spec => []ThemesOnce
<1>1. Asked => ThemesOnce
  <2> SUFFICES ASSUME Asked, Answered("themes") PROVE ThemesOnce
    BY DEF ThemesOnce
  <2> PICK themes : themes = question.themes
    OBVIOUS
  <2> PICK theme : theme = question.theme
    OBVIOUS
  <2>1. Links!IsThemes(themes) /\ theme \in DOMAIN themes
    BY ThemeAssumption DEF Asked, Given, Answered
  <2>2. answer = [lineage     |-> Links!Lineage(themes, theme),
                  descendants |-> Links!Descendants(themes, theme)]
    BY DEF Asked, Given, Answered, ThemesAnswer
  <2>3. LineageOf(themes, theme, answer.lineage)
    BY <2>1, <2>2, LineageIs
  <2>4. /\ IsInjective(answer.descendants)
        /\ ToSet(answer.descendants) = Ends(themes, theme)
    BY <2>1, <2>2, DescendantsAre
  <2>5. ToSet(answer.descendants) = Levels(themes, theme)
    BY <2>1, <2>4, LevelsBelow
  <2> QED
    BY <2>3, <2>4, <2>5 DEF ThemesOnce, LineageOf, Levels
<1> QED
  BY <1>1, AskedAlways, PTL

-----------------------------------------------------------------------------
LEMMA MaxIs ==
  ASSUME NEW n \in Nat, NEW S \in SUBSET (1 .. n), S # {}
  PROVE  Max(S) \in S /\ \A x \in S : x <= Max(S)
<1> DEFINE T == {k \in Nat : \A U \in SUBSET (1 .. k) :
                   U # {} => \E x \in U : \A y \in U : x >= y}
<1>1. 0 \in T
  <2>1. 1 .. 0 = {}
    OBVIOUS
  <2> QED
    BY <2>1
<1>2. ASSUME NEW k \in Nat, k \in T PROVE k + 1 \in T
  <2> SUFFICES ASSUME NEW U \in SUBSET (1 .. k + 1), U # {}
               PROVE  \E x \in U : \A y \in U : x >= y
    OBVIOUS
  <2>1. CASE k + 1 \in U
    BY <2>1
  <2>2. CASE k + 1 \notin U
    <3>1. U \in SUBSET (1 .. k)
      BY <2>2
    <3> QED
      BY <1>2, <3>1
  <2> QED
    BY <2>1, <2>2
<1> HIDE DEF T
<1>3. n \in T
  BY <1>1, <1>2, Induct
<1>4. \E x \in S : \A y \in S : x >= y
  BY <1>3 DEF T
<1>5. Max(S) \in S /\ \A y \in S : Max(S) >= y
  BY <1>4 DEF Max
<1> QED
  BY <1>5

(* Steps taken in the order of the numbers, as a fold over a set of them. *)
Folds(D, a, step, n, iter) ==
  \A s \in SUBSET (1 .. n) :
    /\ iter[s] \in D
    /\ iter[s] = IF s = {} THEN a ELSE step[Max(s)][iter[s \ {Max(s)}]]

LEMMA FoldExists ==
  ASSUME NEW n \in Nat, NEW D, NEW a \in D, NEW step \in [1 .. n -> [D -> D]]
  PROVE  \E iter \in [SUBSET (1 .. n) -> D] : Folds(D, a, step, n, iter)
<1>c. PICK C : C = [SUBSET (1 .. n) -> D]
  OBVIOUS
<1> DEFINE After(g, s) == IF s = {} THEN a ELSE step[Max(s)][g[s \ {Max(s)}]]
           next == [g \in C |-> [s \in SUBSET (1 .. n) |-> After(g, s)]]
<1>s. PICK start : start = [s \in SUBSET (1 .. n) |-> a]
  OBVIOUS
<1>1. ASSUME NEW g \in C, NEW s \in SUBSET (1 .. n) PROVE After(g, s) \in D
  <2>1. CASE s = {}
    BY <2>1
  <2>2. CASE s # {}
    <3> PICK x : x = Max(s)
      OBVIOUS
    <3>1. x \in 1 .. n
      BY <2>2, MaxIs
    <3>2. g[s \ {x}] \in D
      BY <1>c
    <3> QED
      BY <2>2, <3>1, <3>2
  <2> QED
    BY <2>1, <2>2
<1>2. next \in [C -> C] /\ start \in C
  <2> HIDE DEF After
  <2> QED
    BY <1>1, <1>c, <1>s
<1>3. ASSUME NEW g \in C, NEW s \in SUBSET (1 .. n) PROVE next[g][s] = After(g, s)
  <2> HIDE DEF After
  <2> QED
    OBVIOUS
<1> HIDE DEF next
<1> PICK f : f \in Runs(C, start, next)
  BY <1>2, Recursion
<1>4. f \in [Nat -> C] /\ f[0] = start /\ \A m \in Nat : f[m + 1] = next[f[m]]
  BY DEF Runs
<1>5. ASSUME NEW m \in Nat, NEW s \in SUBSET (1 .. n) PROVE f[m + 1][s] = After(f[m], s)
  <2>1. f[m] \in C /\ f[m + 1] = next[f[m]]
    BY <1>4
  <2> HIDE DEF After
  <2> QED
    BY <1>3, <2>1
<1> DEFINE T == {m \in Nat : \A s \in SUBSET (1 .. n) :
                   (\A x \in s : x <= m) => f[m + 1][s] = f[m][s]}
<1>6. 0 \in T
  <2> SUFFICES ASSUME NEW s \in SUBSET (1 .. n), \A x \in s : x <= 0
               PROVE  f[0 + 1][s] = f[0][s]
    OBVIOUS
  <2>1. s = {}
    OBVIOUS
  <2>2. f[0 + 1][s] = a
    BY <1>5, <2>1
  <2> QED
    BY <1>4, <1>s, <2>2
<1>7. ASSUME NEW m \in Nat, m \in T PROVE m + 1 \in T
  <2> HIDE DEF After
  <2> SUFFICES ASSUME NEW s \in SUBSET (1 .. n), \A x \in s : x <= m + 1
               PROVE  f[m + 1 + 1][s] = f[m + 1][s]
    BY DEF T
  <2>m. m + 1 \in Nat
    OBVIOUS
  <2>1. f[m + 1 + 1][s] = After(f[m + 1], s) /\ f[m + 1][s] = After(f[m], s)
    BY <1>5, <2>m
  <2> USE DEF After
  <2>2. CASE s = {}
    BY <2>1, <2>2
  <2>3. CASE s # {}
    <3> PICK x : x = Max(s)
      OBVIOUS
    <3> PICK r : r = s \ {x}
      OBVIOUS
    <3>1. x \in s /\ \A y \in s : y <= x
      BY <2>3, MaxIs
    <3>2. r \in SUBSET (1 .. n) /\ \A y \in r : y <= m
      <4> SUFFICES ASSUME NEW y \in r PROVE y <= m
        OBVIOUS
      <4>1. y \in 1 .. n /\ x \in 1 .. n /\ y # x /\ y <= x /\ x <= m + 1
        BY <3>1
      <4> QED
        BY <4>1
    <3>3. f[m + 1][r] = f[m][r]
      BY <1>7, <3>2
    <3> QED
      BY <2>1, <2>3, <3>3
  <2> QED
    BY <2>2, <2>3
<1> HIDE DEF T
<1>8. n \in T
  BY <1>6, <1>7, Induct
<1>9. ASSUME NEW s \in SUBSET (1 .. n) PROVE f[n][s] = After(f[n], s)
  <2>1. f[n + 1][s] = f[n][s]
    BY <1>8 DEF T
  <2> HIDE DEF After
  <2> QED
    BY <1>5, <2>1
<1>10. f[n] \in [SUBSET (1 .. n) -> D]
  BY <1>4, <1>c
<1>11. Folds(D, a, step, n, f[n])
  BY <1>9, <1>10 DEF Folds
<1> QED
  BY <1>10, <1>11

(* What a fold has after each of the numbers. *)
FoldRun(D, a, step, n, run) ==
  /\ run \in [0 .. n -> D] /\ run[0] = a
  /\ \A k \in 1 .. n : run[k] = step[k][run[k - 1]]

LEMMA FoldRuns ==
  ASSUME NEW n \in Nat, NEW D, NEW a, NEW step, NEW iter, Folds(D, a, step, n, iter)
  PROVE  \E run : FoldRun(D, a, step, n, run) /\ run[n] = iter[1 .. n]
<1> DEFINE run == [k \in 0 .. n |-> iter[1 .. k]]
<1>1. \A k \in 0 .. n : 1 .. k \in SUBSET (1 .. n)
  OBVIOUS
<1>2. run \in [0 .. n -> D]
  BY <1>1 DEF Folds
<1>3. run[0] = a
  <2>1. 1 .. 0 = {}
    OBVIOUS
  <2>2. 0 \in 0 .. n
    OBVIOUS
  <2> QED
    BY <1>1, <2>1, <2>2 DEF Folds
<1>4. ASSUME NEW k \in 1 .. n PROVE run[k] = step[k][run[k - 1]]
  <2> PICK s : s = 1 .. k
    OBVIOUS
  <2>1. s \in SUBSET (1 .. n) /\ s # {} /\ k \in s
    OBVIOUS
  <2>2. Max(s) = k
    <3> PICK x : x = Max(s)
      OBVIOUS
    <3>1. x \in s /\ k <= x
      BY <2>1, MaxIs
    <3> QED
      BY <3>1
  <2>3. s \ {k} = 1 .. k - 1
    OBVIOUS
  <2>4. iter[s] = step[k][iter[s \ {k}]]
    BY <2>1, <2>2 DEF Folds
  <2>5. run[k] = iter[s] /\ run[k - 1] = iter[1 .. k - 1]
    OBVIOUS
  <2> QED
    BY <2>3, <2>4, <2>5
<1>5. run[n] = iter[1 .. n]
  OBVIOUS
<1> HIDE DEF run
<1> QED
  BY <1>2, <1>3, <1>4, <1>5 DEF FoldRun

(* Steps on what has the type of the start, whatever they do otherwise. *)
FoldsFrom(D, a, step, n, iter) ==
  /\ iter[{}] = a
  /\ \A s \in SUBSET (1 .. n) :
       s # {} /\ iter[s \ {Max(s)}] \in D => iter[s] = step[Max(s)][iter[s \ {Max(s)}]]

RunTo(D, a, step, n, last) == \E run : FoldRun(D, a, step, n, run) /\ run[n] = last

LEMMA FoldIs ==
  ASSUME NEW n \in Nat, NEW D, NEW a \in D, NEW step \in [1 .. n -> [D -> D]],
         NEW iter, FoldsFrom(D, a, step, n, iter)
  PROVE  RunTo(D, a, step, n, iter[1 .. n])
<1>0. /\ iter[{}] = a
      /\ \A s \in SUBSET (1 .. n) :
           s # {} /\ iter[s \ {Max(s)}] \in D => iter[s] = step[Max(s)][iter[s \ {Max(s)}]]
  BY DEF FoldsFrom
<1> DEFINE T == {m \in Nat : \A s \in SUBSET (1 .. n) : (\A x \in s : x <= m) => iter[s] \in D}
<1> HIDE DEF T
<1>1. 0 \in T
  <2> SUFFICES ASSUME NEW s \in SUBSET (1 .. n), \A x \in s : x <= 0 PROVE iter[s] \in D
    BY DEF T
  <2>1. s = {}
    OBVIOUS
  <2> QED
    BY <1>0, <2>1
<1>2. ASSUME NEW m \in Nat, m \in T PROVE m + 1 \in T
  <2> SUFFICES ASSUME NEW s \in SUBSET (1 .. n), \A x \in s : x <= m + 1
               PROVE  iter[s] \in D
    BY DEF T
  <2> SUFFICES ASSUME s # {} PROVE iter[s] \in D
    BY <1>0
  <2> PICK x : x = Max(s)
    OBVIOUS
  <2> PICK r : r = s \ {x}
    OBVIOUS
  <2>1. x \in s /\ \A y \in s : y <= x
    BY MaxIs
  <2>2. \A y \in r : y <= m
    <3> SUFFICES ASSUME NEW y \in r PROVE y <= m
      OBVIOUS
    <3>1. y \in 1 .. n /\ x \in 1 .. n /\ y # x /\ y <= x /\ x <= m + 1
      BY <2>1
    <3> QED
      BY <3>1
  <2>3. iter[r] \in D
    BY <1>2, <2>2 DEF T
  <2>4. iter[s] = step[x][iter[r]] /\ x \in 1 .. n
    BY <1>0, <2>1, <2>3
  <2> QED
    BY <2>3, <2>4
<1>3. n \in T
  BY <1>1, <1>2, Induct
<1>4. \A s \in SUBSET (1 .. n) : iter[s] \in D
  <2> SUFFICES ASSUME NEW s \in SUBSET (1 .. n) PROVE iter[s] \in D
    OBVIOUS
  <2>1. \A x \in s : x <= n
    OBVIOUS
  <2> QED
    BY <1>3, <2>1 DEF T
<1>5. Folds(D, a, step, n, iter)
  <2>1. ASSUME NEW s \in SUBSET (1 .. n), s # {}
        PROVE  iter[s] = step[Max(s)][iter[s \ {Max(s)}]]
    <3>1. iter[s \ {Max(s)}] \in D
      BY <1>4
    <3> QED
      BY <1>0, <2>1, <3>1
  <2> QED
    BY <1>0, <1>4, <2>1 DEF Folds
<1> QED
  BY <1>5, FoldRuns DEF RunTo

-----------------------------------------------------------------------------
(* The sums of the numbers of a sequence. *)
Sums(s, a, n) ==
  /\ s \in [0 .. n -> Int] /\ s[0] = 0
  /\ \A k \in 1 .. n : s[k] = s[k - 1] + a[k]

LEMMA SumsExist ==
  ASSUME NEW n \in Nat, NEW a \in [1 .. n -> Int]
  PROVE  \E s : Sums(s, a, n)
<1> DEFINE T == {k \in Nat : k <= n => \E s : Sums(s, a, k)}
<1>1. 0 \in T
  <2> PICK s : s = [k \in 0 .. 0 |-> 0]
    OBVIOUS
  <2>1. Sums(s, a, 0)
    BY DEF Sums
  <2> QED
    BY <2>1
<1>2. ASSUME NEW k \in Nat, k \in T PROVE k + 1 \in T
  <2> SUFFICES ASSUME k + 1 <= n PROVE \E s : Sums(s, a, k + 1)
    OBVIOUS
  <2> PICK s : Sums(s, a, k)
    BY <1>2
  <2> PICK t : t = [i \in 0 .. k + 1 |-> IF i = k + 1 THEN s[k] + a[k + 1] ELSE s[i]]
    OBVIOUS
  <2>1. s \in [0 .. k -> Int] /\ s[0] = 0 /\ \A i \in 1 .. k : s[i] = s[i - 1] + a[i]
    BY DEF Sums
  <2>2. t \in [0 .. k + 1 -> Int] /\ t[0] = 0
    BY <2>1
  <2>3. ASSUME NEW i \in 1 .. k + 1 PROVE t[i] = t[i - 1] + a[i]
    <3>1. CASE i = k + 1
      BY <3>1
    <3>2. CASE i # k + 1
      <4>1. i \in 1 .. k /\ i - 1 \in 0 .. k + 1 /\ i - 1 # k + 1 /\ i \in 0 .. k + 1
        BY <3>2
      <4> QED
        BY <2>1, <3>2, <4>1
    <3> QED
      BY <3>1, <3>2
  <2>4. Sums(t, a, k + 1)
    BY <2>2, <2>3 DEF Sums
  <2> QED
    BY <2>4
<1> HIDE DEF T
<1>3. n \in T
  BY <1>1, <1>2, Induct
<1> QED
  BY <1>3 DEF T

LEMMA SumOfZeros ==
  ASSUME NEW n \in Nat, NEW a, NEW s, Sums(s, a, n), \A i \in 1 .. n : a[i] = 0
  PROVE  s[n] = 0
<1> DEFINE T == {k \in Nat : k <= n => s[k] = 0}
<1>1. 0 \in T
  BY DEF Sums
<1>2. ASSUME NEW k \in Nat, k \in T PROVE k + 1 \in T
  <2> SUFFICES ASSUME k + 1 <= n PROVE s[k + 1] = 0
    OBVIOUS
  <2> PICK i : i = k + 1
    OBVIOUS
  <2>1. i \in 1 .. n /\ i - 1 = k
    OBVIOUS
  <2> QED
    BY <1>2, <2>1 DEF Sums
<1> HIDE DEF T
<1>3. n \in T
  BY <1>1, <1>2, Induct
<1> QED
  BY <1>3 DEF T

(* One number more at one place is that much more in all. *)
LEMMA SumGrows ==
  ASSUME NEW n \in Nat, NEW a, NEW b, NEW s, NEW t, Sums(s, a, n), Sums(t, b, n),
         NEW j \in 1 .. n, NEW q \in Int, \A i \in 1 .. n : a[i] \in Int, b[j] = a[j] + q,
         \A i \in 1 .. n : i # j => b[i] = a[i]
  PROVE  t[n] = s[n] + q
<1>1. /\ s \in [0 .. n -> Int] /\ s[0] = 0 /\ \A k \in 1 .. n : s[k] = s[k - 1] + a[k]
      /\ t \in [0 .. n -> Int] /\ t[0] = 0 /\ \A k \in 1 .. n : t[k] = t[k - 1] + b[k]
  BY DEF Sums
<1> DEFINE T == {k \in Nat : k <= n => t[k] = IF k < j THEN s[k] ELSE s[k] + q}
<1>2. 0 \in T
  BY <1>1
<1>3. ASSUME NEW k \in Nat, k \in T PROVE k + 1 \in T
  <2> SUFFICES ASSUME k + 1 <= n
               PROVE  t[k + 1] = IF k + 1 < j THEN s[k + 1] ELSE s[k + 1] + q
    OBVIOUS
  <2>i. PICK i : i = k + 1
    OBVIOUS
  <2>1. i \in 1 .. n /\ i - 1 = k /\ k \in 0 .. n /\ i \in 0 .. n
    BY <2>i
  <2>2. s[i] = s[k] + a[i] /\ t[i] = t[k] + b[i] /\ s[k] \in Int /\ s[i] \in Int
    <3>1. s[i] = s[i - 1] + a[i]
      BY <1>1, <2>1
    <3>2. t[i] = t[i - 1] + b[i]
      BY <1>1, <2>1
    <3> QED
      BY <1>1, <2>1, <3>1, <3>2
  <2>3. t[k] = IF k < j THEN s[k] ELSE s[k] + q
    BY <1>3
  <2>4. CASE i < j
    BY <2>i, <2>1, <2>2, <2>3, <2>4
  <2>5. CASE i = j
    BY <2>i, <2>1, <2>2, <2>3, <2>5
  <2>6. CASE i > j
    <3>1. b[i] = a[i] /\ t[k] = s[k] + q
      BY <2>i, <2>1, <2>3, <2>6
    <3> PICK x : x = a[i]
      OBVIOUS
    <3>2. s[i] = s[k] + x /\ t[i] = (s[k] + q) + x
      BY <2>2, <3>1
    <3>3. x \in Int
      BY <2>1
    <3> QED
      BY <2>i, <2>1, <2>2, <2>6, <3>2, <3>3
  <2> QED
    BY <2>i, <2>1, <2>4, <2>5, <2>6
<1> HIDE DEF T
<1>4. n \in T
  BY <1>2, <1>3, Induct
<1> QED
  BY <1>4 DEF T
===============================================================================
