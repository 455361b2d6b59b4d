--------------------------- MODULE CatalogDocuments ---------------------------
(***************************************************************************)
(* CatalogSystem with the search documents: for each entity of a database, *)
(* the external identifiers by which search.py finds it.  They repeat what *)
(* the mapping tables of the same database say, and are written in the     *)
(* same transactions, but only for the entities that the writer takes to   *)
(* be affected (bridge/cache.py, bridge/ldraw.py, refresh.py).  The parts  *)
(* that overrides map to (Targets) are in every catalog.  Sessions, which  *)
(* write nothing, do not open here.                                        *)
(***************************************************************************)
EXTENDS CatalogSystem

VARIABLES
  documents,   \* for each snapshot and entity, the identifiers it is found by
  blind        \* history: where an override was written for a key of which
               \* file and database knew different targets

documentVars == <<vars, documents, blind>>

Entities == Parts \cup Targets

(* What the tables of a database say. *)
Listed(database, entity) ==
  {e \in Externals : database.crosswalk[e] = entity} \cup
  {k \in Keys : database.overrides[k] = entity}

DocumentsInit ==
  /\ Init
  /\ documents = [s \in Snapshots |-> [x \in Entities |-> Listed(db[s], x)]]
  /\ blind = {}

(* update_search_document, for the affected entities *)
UpdateDocuments(s, affected) ==
  documents' = [documents EXCEPT ![s] =
                  [x \in Entities |-> IF x \in affected THEN Listed(db'[s], x) ELSE @[x]]]

(* Mutant: whoever had the identifiers before keeps them. *)
AffectedPartOnly(w) == {wop[w].part}

(* store_crosswalks: the part, and those that had its identifiers. *)
AffectedByStore(w) ==
  {wop[w].part} \cup {db[wtarget[w]].crosswalk[e] : e \in wop[w].externals}

(* _persist_override and _delete_override: the new target, and the one     *)
(* that the YAML file has.                                                 *)
AffectedByOverride(w) == {Entry(wop[w]), yaml[wop[w].key]}

StoreAndUpdate(w) ==
  /\ StoreCrosswalks(w)
  /\ UpdateDocuments(wtarget[w], AffectedByStore(w))
  /\ UNCHANGED blind

CommitAndUpdate(w) ==
  LET s == wtarget[w]
  IN  /\ CommitOverride(w)
      /\ IF s = None
           THEN UNCHANGED <<documents, blind>>
           ELSE /\ UpdateDocuments(s, AffectedByOverride(w))
                /\ blind' = IF db[s].overrides[wop[w].key] = yaml[wop[w].key]
                              THEN blind ELSE blind \cup {s}

(* _carry_crosswalk writes all documents of the candidate anew. *)
CarryAndRebuild(r) ==
  /\ CarryCrosswalk(r)
  /\ UpdateDocuments(mine[r], Entities)
  /\ UNCHANGED blind

(* The steps that write neither mappings nor documents of a database.      *)
OtherRefresh(r) ==
  \/ Begin(r) \/ Import(r) \/ Materialize(r) \/ Abandon(r) \/ AcquireLock(r)
  \/ CancelAcquire(r) \/ Resolve(r) \/ Refuse(r) \/ WriteMarker(r) \/ MoveIn(r)
  \/ BreakMove(r) \/ Install(r) \/ Activate(r) \/ Prune(r) \/ Fail(r) \/ Handle(r)
  \/ Release(r) \/ Cleanup(r) \/ Crash(r)

OtherWrite(w) ==
  StartWrite(w) \/ WriteYaml(w) \/ FailWrite(w) \/ FinishWrite(w) \/ CrashWrite(w)

DocumentsNext ==
  \/ /\ UNCHANGED <<writerVars, readerVars>>
     /\ \E r \in Refreshers :
          \/ CarryAndRebuild(r)
          \/ OtherRefresh(r) /\ UNCHANGED <<documents, blind>>
  \/ /\ UNCHANGED <<refresherVars, readerVars>>
     /\ \E w \in Writers :
          \/ StoreAndUpdate(w) \/ CommitAndUpdate(w)
          \/ OtherWrite(w) /\ UNCHANGED <<documents, blind>>

DocumentsSpec == DocumentsInit /\ [][DocumentsNext]_documentVars

-----------------------------------------------------------------------------
(***************************************************************************)
(* Search finds the parts of the active catalog by exactly the identifiers *)
(* that are mapped to them, after every enrichment, override, removal and  *)
(* refresh, failed ones included; but for a database in which an override  *)
(* was written for a key that the YAML file, from which the affected parts *)
(* are taken, maps to another part than the database.                      *)
(***************************************************************************)
DocumentsTrue ==
  pointer.id \in Snapshots \ blind =>
    \A x \in Entities : documents[pointer.id][x] = Listed(db[pointer.id], x)
==============================================================================
