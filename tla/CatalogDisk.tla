----------------------------- MODULE CatalogDisk -----------------------------
(***************************************************************************)
(* The files that the processes of one catalog share, and the operators    *)
(* the code applies to them: the active pointer, the snapshot directories, *)
(* the YAML file of user overrides and the promotion lock.                 *)
(*                                                                         *)
(* Nothing here takes a step: Promotion (refresh), BridgeWriters           *)
(* (enrichment and overrides) and ReaderSessions (open_catalog) extend     *)
(* this module and each adds the steps of one kind of process.             *)
(***************************************************************************)
EXTENDS Naturals, FiniteSets

CONSTANTS
  Refreshers,   \* processes that run refresh_catalog
  Writers,      \* processes that write crosswalks and overrides
  Readers,      \* sessions that open the catalog read-only
  MayCrash,     \* the processes that may die at any step
  Sleepers,     \* refreshers that may leave their staging directory untouched
                \* for a day: suspended, or as the clock of another machine sees it
  Snapshots,    \* snapshot ids: one for each refresh attempt, never reused
  Parts,        \* canonical ids that a data set may hold
  Externals,    \* external ids that the API confirms for a part
  Keys,         \* sources of user overrides
  Targets,      \* targets of user overrides
  Retention,    \* Config.snapshot_retention
  Origins,      \* the catalogs that a run may start from: see Origin
  None,         \* "nothing here"
  Corrupt       \* the id that a malformed pointer file reads as

Processes == Refreshers \cup Writers \cup Readers

ASSUME DiskAssumption ==
  /\ Retention \in Nat \ {0}
  /\ MayCrash \subseteq Processes
  /\ Sleepers \subseteq Refreshers
  /\ Refreshers \cap Writers = {}
  /\ Refreshers \cap Readers = {}
  /\ Writers \cap Readers = {}
  /\ None \notin Processes \cup Snapshots \cup Parts \cup Targets
  /\ Corrupt \notin Snapshots \cup {None}
  /\ Origins \subseteq {"fresh", "legacy", "outdated", "managed", "corrupt"}

VARIABLES
  pointer,    \* active.json: the id, the generation and the activation history
  place,      \* where the directory of a snapshot is: see Places
  damaged,    \* directories that a failed rmtree or move left incomplete
  marker,     \* the generation in a directory's activation marker, or None
  db,         \* the content of a snapshot's database
  yaml,       \* the override file: the target of each key, or None
  lock,       \* the process that holds the promotion lock, or None
  used,       \* snapshot ids drawn so far: an id holds a uuid, so is new
  home        \* whether the directory of the pointer and the lock exists

diskVars == <<pointer, place, damaged, marker, db, yaml, lock, used, home>>

-----------------------------------------------------------------------------
(* Types *)

(***************************************************************************)
(* A snapshot is built in a staging directory below the cache, moved to    *)
(* `.incoming-<id>' beside the snapshots, and renamed to its own name.     *)
(***************************************************************************)
Places == {"absent", "staging", "incoming", "installed"}

(***************************************************************************)
(* A database: the canonical ids of its data set, its crosswalk cache, its *)
(* copy of the overrides, and whether its schema is the supported one.     *)
(***************************************************************************)
Databases ==
  [parts     : SUBSET Parts,
   crosswalk : [Externals -> Parts \cup {None}],
   overrides : [Keys -> Targets \cup {None}],
   supported : BOOLEAN]

(***************************************************************************)
(* The pointer file.  `_activation_history' is a list without duplicates,  *)
(* newest first; order[s] is the place of s counted from the oldest entry, *)
(* 0 when s is not listed.  gen is None in a pointer that an older release *)
(* wrote and in one that cannot be read.                                   *)
(***************************************************************************)
Pointers ==
  [id    : Snapshots \cup {None, Corrupt},
   gen   : Snapshots \cup {None},
   order : [Snapshots -> Nat]]

DiskTypeOK ==
  /\ pointer \in Pointers
  /\ place \in [Snapshots -> Places]
  /\ damaged \subseteq Snapshots
  /\ marker \in [Snapshots -> Snapshots \cup {None}]
  /\ db \in [Snapshots -> Databases]
  /\ yaml \in [Keys -> Targets \cup {None}]
  /\ lock \in Processes \cup {None}
  /\ used \subseteq Snapshots
  /\ home \in {"missing", "present"}

-----------------------------------------------------------------------------
(* Reading the disk *)

NoMappings  == [e \in Externals |-> None]
NoOverrides == [k \in Keys |-> None]
NoHistory   == [s \in Snapshots |-> 0]
NoPointer   == [id |-> None, gen |-> None, order |-> NoHistory]

BlankDatabase ==
  [parts |-> {}, crosswalk |-> NoMappings, overrides |-> NoOverrides,
   supported |-> TRUE]

Installed == {s \in Snapshots : place[s] = "installed"}

(* A directory that holds everything the import wrote into it. *)
Whole(s) == place[s] = "installed" /\ s \notin damaged

(* _verify_database says HEALTHY: a complete database, the schema version  *)
(* of this release.                                                        *)
Healthy(s) == Whole(s) /\ db[s].supported

(* Mutant: the generation is the id of the active snapshot. *)
GenerationFromActive(base, new) == IF base.gen = None THEN base.id ELSE base.gen

(* Mutant: every promotion starts the history again from the active one. *)
OrderFromActive(base) == [s \in Snapshots |-> IF s = base.id THEN 1 ELSE 0]

(***************************************************************************)
(* _activation_history: the generation and the order that a pointer        *)
(* proves.  A pointer without them starts a new generation (a fresh uuid:  *)
(* the id of the snapshot being promoted stands for it) whose only entry   *)
(* is the pointer's own target.                                            *)
(***************************************************************************)
ProvenGeneration(base, new) == IF base.gen = None THEN new ELSE base.gen

ProvenOrder(base) ==
  IF base.gen # None
    THEN base.order
    ELSE [s \in Snapshots |-> IF s = base.id THEN 1 ELSE 0]

(***************************************************************************)
(* _prospective_pointer: the pointer that activates `new' after `base'.    *)
(* The new snapshot comes first, the entries whose directory is gone are   *)
(* dropped, and the others keep their order.                               *)
(***************************************************************************)
ProspectivePointer(base, new) ==
  LET listed == {s \in Installed \ {new} : ProvenOrder(base)[s] > 0}
      newest == IF base.id \in Snapshots THEN ProvenOrder(base)[base.id] ELSE 0
  IN [id    |-> new,
      gen   |-> ProvenGeneration(base, new),
      order |-> [s \in Snapshots |->
                   IF s = new THEN newest + 1
                   ELSE IF s \in listed THEN ProvenOrder(base)[s]
                   ELSE 0]]

(* Mutant: the active snapshot and the retention count both count. *)
KeptOneFewer(active, order) ==
  {active} \cup
  {s \in Installed :
     /\ order[s] > 0
     /\ Cardinality({t \in Installed : order[t] > order[s]}) + 1 < Retention}

(***************************************************************************)
(* The directories that _prune_snapshots keeps: the active one, and the    *)
(* newest entries of the history whose directory exists, up to the         *)
(* retention count.                                                        *)
(***************************************************************************)
Kept(active, order) ==
  {active} \cup
  {s \in Installed :
     /\ order[s] > 0
     /\ Cardinality({t \in Installed : order[t] > order[s]}) < Retention}

(* Mutant: only the directories of the history are removed. *)
DoomedByHistory(p) ==
  {s \in Snapshots : place[s] = "incoming"} \cup
  {s \in Installed \ Kept(p.id, p.order) : p.order[s] > 0}

(***************************************************************************)
(* The directories it removes: every `.incoming-' directory, and what is   *)
(* not kept but is in the history or carries the generation's marker.      *)
(***************************************************************************)
Doomed(p) ==
  {s \in Snapshots : place[s] = "incoming"} \cup
  {s \in Installed \ Kept(p.id, p.order) : p.order[s] > 0 \/ marker[s] = p.gen}

-----------------------------------------------------------------------------
(* Changing the disk *)

(***************************************************************************)
(* shutil.rmtree: the directories in gone disappear; those in broken raise *)
(* part-way, those in lost after their activation marker went.             *)
(***************************************************************************)
PlacesWithout(gone) ==
  [s \in Snapshots |-> IF s \in gone THEN "absent" ELSE place[s]]

RemoveContents(gone, broken, lost) ==
  /\ damaged' = (damaged \ gone) \cup broken
  /\ marker' = [s \in Snapshots |->
                  IF s \in gone \cup lost THEN None ELSE marker[s]]
  /\ db' = [s \in Snapshots |-> IF s \in gone THEN BlankDatabase ELSE db[s]]

RemoveTrees(gone, broken, lost) ==
  /\ place' = PlacesWithout(gone)
  /\ RemoveContents(gone, broken, lost)

(***************************************************************************)
(* rmtree over a set of directories, any of which may fail: each call is   *)
(* tried whatever became of the others, and its OSError is swallowed.      *)
(***************************************************************************)
TryRemoveTrees(doomed) ==
  \E broken \in SUBSET doomed :
    \E lost \in SUBSET broken :
      RemoveTrees(doomed \ broken, broken, lost)

-----------------------------------------------------------------------------
(***************************************************************************)
(* The catalogs a run may start from: none at all; one that an older       *)
(* release activated, with the supported schema or another; one that this  *)
(* release activated; one whose pointer file was damaged since.            *)
(***************************************************************************)
OriginPointer(kind, s) ==
  \/ kind = "fresh" /\ pointer = NoPointer
  \/ kind = "corrupt" /\ pointer = [NoPointer EXCEPT !.id = Corrupt]
  \/ kind = "managed" /\ pointer = [id    |-> s,
                                    gen   |-> s,
                                    order |-> [NoHistory EXCEPT ![s] = 1]]
  \/ kind \in {"legacy", "outdated"} /\ pointer = [NoPointer EXCEPT !.id = s]

OriginDatabase(kind) ==
  {[BlankDatabase EXCEPT !.parts = parts, !.supported = kind # "outdated"] :
     parts \in SUBSET Parts}

Origin(kind, s) ==
  LET present == IF kind = "fresh" THEN {} ELSE {s}
  IN  /\ OriginPointer(kind, s)
      /\ place = [t \in Snapshots |->
                    IF t \in present THEN "installed" ELSE "absent"]
      /\ marker = [t \in Snapshots |->
                     IF t \in present /\ kind \in {"managed", "corrupt"}
                       THEN s ELSE None]
      /\ \E first \in OriginDatabase(kind) :
           db = [t \in Snapshots |->
                   IF t \in present THEN first ELSE BlankDatabase]
      /\ used = present
      /\ home = IF kind = "fresh" THEN "missing" ELSE "present"

DiskInit ==
  /\ \E kind \in Origins, s \in Snapshots : Origin(kind, s)
  /\ damaged = {}
  /\ yaml = NoOverrides
  /\ lock = None
=============================================================================
