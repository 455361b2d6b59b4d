------------------------- MODULE CatalogSystemProofs -------------------------
(***************************************************************************)
(* CatalogSystem keeps its promises for every value of its constants.      *)
(*                                                                         *)
(* Inv is inductive: InitInv, one lemma per action (named after it, with   *)
(* Inv at its end) and NextInv.  The safety properties are parts of it or  *)
(* follow from it.  The refinement of ActiveCatalog then needs, for every  *)
(* step, that it is a replacement, an enrichment or a stutter.             *)
(***************************************************************************)
EXTENDS CatalogSystem, TLAPS

USE DiskAssumption DEF DiskAssumption

(* Every catalog a run may start from satisfies the invariant.             *)
LEMMA InitInv == Init => Inv
<1> SUFFICES ASSUME Init PROVE Inv
  OBVIOUS
<1> USE DEF Init, DiskInit, RefreshersInit, WritersInit, ReadersInit
<1>1. PICK kind \in Origins, s \in Snapshots : Origin(kind, s)
  OBVIOUS
<1>2. BlankDatabase \in Databases
  BY DEF BlankDatabase, Databases, NoMappings, NoOverrides
<1>3. db \in [Snapshots -> Databases]
  <2>1. PICK first \in OriginDatabase(kind) :
          db = [t \in Snapshots |->
                  IF t \in (IF kind = "fresh" THEN {} ELSE {s})
                    THEN first ELSE BlankDatabase]
    BY <1>1 DEF Origin
  <2>2. first \in Databases
    BY <1>2 DEF OriginDatabase, Databases
  <2> QED
    BY <1>2, <2>1, <2>2
<1>4. NoPointer \in Pointers
  BY DEF NoPointer, NoHistory, Pointers
<1>5. pointer \in Pointers
  <2>1. [NoHistory EXCEPT ![s] = 1] \in [Snapshots -> Nat]
    BY DEF NoHistory
  <2> QED
    BY <1>1, <1>4, <2>1 DEF Origin, OriginPointer, Pointers
<1>6. TypeOK
  BY <1>1, <1>3, <1>4, <1>5
  DEF TypeOK, DiskTypeOK, RefreshersTypeOK, WritersTypeOK, ReadersTypeOK,
      Origin, Places, Stages, NoOverrides, Processes
<1>7. LockOwner /\ OwnIds /\ OwnContents /\ Requests /\ NoLostActivation
        /\ TargetsActive /\ OpensActive /\ OverrideWrites
  BY DEF LockOwner, OwnIds, OwnContents, OwnContent, Requests, NoLostActivation,
         TargetsActive, OpensActive, OverrideWrites, Holding, Promoting, Processes
<1>8. OwnPlaces /\ OwnDamage
  BY <1>1 DEF OwnPlaces, OwnDamage, Origin, BeforeLock, Promoting
<1>9. ActiveOnDisk
  BY <1>1 DEF ActiveOnDisk, Origin, OriginPointer, NoPointer
<1> QED
  BY <1>6, <1>7, <1>8, <1>9 DEF Inv

-----------------------------------------------------------------------------
(* The vocabulary of the control states is expanded everywhere below. *)
USE DEF Stages, BeforeLock, Holding, Promoting, Move, Punctual

(* A running attempt has a snapshot id.                                    *)
LEMMA OwnSnapshot ==
  ASSUME Inv, NEW r \in Refreshers, pc[r] # "idle"
  PROVE  mine[r] \in Snapshots
BY DEF Inv, TypeOK, DiskTypeOK, OwnIds

(* What is carried is a crosswalk.                                         *)
LEMMA CarriedType ==
  ASSUME DiskTypeOK, NEW source, NEW target \in Snapshots
  PROVE  Carried(source, target) \in [Externals -> Parts \cup {None}]
BY DEF DiskTypeOK, Databases, Carried, NoMappings

(***************************************************************************)
(* What would be carried depends on nothing but the source database and    *)
(* the ids of the target.                                                  *)
(***************************************************************************)
LEMMA CarriedStable ==
  ASSUME NEW source, NEW target,
         source \in Snapshots => db'[source] = db[source] /\ (Whole(source)' <=> Whole(source)),
         db'[target].parts = db[target].parts
  PROVE  Carried(source, target)' = Carried(source, target)
BY DEF Carried, Healthy

(* The updates of a database that the actions make.                        *)
LEMMA DatabaseUpdates ==
  ASSUME NEW d \in Databases
  PROVE  /\ \A p \in SUBSET Parts : [BlankDatabase EXCEPT !.parts = p] \in Databases
         /\ \A o \in [Keys -> Targets \cup {None}] :
              [d EXCEPT !.overrides = o] \in Databases
         /\ \A c \in [Externals -> Parts \cup {None}] :
              [d EXCEPT !.crosswalk = c] \in Databases
BY DEF BlankDatabase, Databases, NoMappings, NoOverrides

(* A step that leaves the active directory and its database alone.         *)
ActiveKept ==
  pointer.id \in Snapshots =>
    /\ place'[pointer.id] = place[pointer.id]
    /\ pointer.id \in damaged' <=> pointer.id \in damaged
    /\ db'[pointer.id] = db[pointer.id]

(***************************************************************************)
(* A step that leaves the active database and the directory of a refresher *)
(* alone keeps what is known of the content of that directory.             *)
(***************************************************************************)
LEMMA OthersContent ==
  ASSUME Inv, NEW q \in Refreshers, UNCHANGED <<pointer, pc[q], mine[q]>>,
         pc[q] # "idle" => db'[mine[q]] = db[mine[q]],
         ActiveKept
  PROVE  OwnContent(q)'
<1>1. CASE pc[q] \in {"carried", "prepared", "moved", "installed"}
  <2>1. Carried(pointer.id, mine[q])' = Carried(pointer.id, mine[q])
    BY <1>1, CarriedStable DEF ActiveKept, Whole
  <2> QED
    BY <1>1, <2>1 DEF Inv, OwnContents, OwnContent
<1>2. CASE pc[q] \notin {"carried", "prepared", "moved", "installed"}
  BY <1>2 DEF Inv, OwnContents, OwnContent
<1> QED
  BY <1>1, <1>2

(***************************************************************************)
(* A step of a refresher that leaves the pointer and the active database   *)
(* alone keeps what readers and writers rely on.                           *)
(***************************************************************************)
LEMMA OthersActive ==
  ASSUME Inv, UNCHANGED <<pointer, writerVars, readerVars>>, used \subseteq used',
         ActiveKept
  PROVE  ActiveOnDisk' /\ TargetsActive' /\ OpensActive' /\ OverrideWrites'
<1> USE DEF Inv, ActiveOnDisk, ActiveKept, writerVars, readerVars
<1>1. ActiveOnDisk'
  OBVIOUS
<1>2. TargetsActive'
  BY DEF TargetsActive, TypeOK, WritersTypeOK
<1>3. OpensActive'
  <2> SUFFICES ASSUME NEW c \in Readers, rpc[c] = "resolved"
               PROVE  pin[c] = pointer.id /\ Healthy(pin[c])'
    BY DEF OpensActive
  <2>1. pin[c] = pointer.id /\ Healthy(pointer.id) /\ pointer.id \in Snapshots
    BY DEF OpensActive, Requests, Healthy
  <2> QED
    BY <2>1 DEF Healthy, Whole
<1>4. OverrideWrites'
  BY DEF OverrideWrites
<1> QED
  BY <1>1, <1>2, <1>3, <1>4

(* The pointer file that a promotion writes is a pointer.                  *)
LEMMA ProspectiveType ==
  ASSUME NEW b \in Pointers, NEW new \in Snapshots
  PROVE  ProspectivePointer(b, new) \in Pointers
<1>1. ProvenOrder(b) \in [Snapshots -> Nat]
  BY DEF ProvenOrder, Pointers
<1>2. ProvenGeneration(b, new) \in Snapshots
  BY DEF ProvenGeneration, Pointers
<1> QED
  BY <1>1, <1>2 DEF ProspectivePointer, Pointers

(* Removing directories keeps the types.                                   *)
LEMMA RemoveTreesType ==
  ASSUME DiskTypeOK, NEW gone \in SUBSET Snapshots, NEW broken \in SUBSET Snapshots,
         NEW lost \in SUBSET Snapshots, RemoveTrees(gone, broken, lost),
         UNCHANGED <<pointer, yaml, used, home>>, lock' \in Processes \cup {None}
  PROVE  DiskTypeOK'
<1>1. BlankDatabase \in Databases
  BY DEF BlankDatabase, Databases, NoMappings, NoOverrides
<1> QED
  BY <1>1 DEF DiskTypeOK, RemoveTrees, PlacesWithout, RemoveContents, Places

(* What a removal does to a directory, and that it spares the others.      *)
LEMMA RemoveTreesEffect ==
  ASSUME DiskTypeOK, NEW gone, NEW broken, NEW lost, RemoveTrees(gone, broken, lost)
  PROVE  /\ \A s \in Snapshots \ gone : place'[s] = place[s] /\ db'[s] = db[s]
         /\ \A s \in gone : s \in Snapshots => place'[s] = "absent"
         /\ \A s \in Snapshots \ (gone \cup broken) : s \in damaged' <=> s \in damaged
         /\ damaged' \subseteq (damaged \ gone) \cup broken
BY DEF DiskTypeOK, RemoveTrees, PlacesWithout, RemoveContents

-----------------------------------------------------------------------------
(* The steps of a refresher keep the invariant. *)
LEMMA AbandonInv ==
  ASSUME Inv, NEW r \in Refreshers, Abandon(r), UNCHANGED <<writerVars, readerVars>>
  PROVE  Inv'
<1> USE DEF Inv, TypeOK, DiskTypeOK, RefreshersTypeOK, WritersTypeOK,
            ReadersTypeOK, Abandon, diskVars, writerVars, readerVars
<1>1. TypeOK'
  BY DEF OwnIds, Processes
<1>2. LockOwner' /\ OwnIds' /\ Requests' /\ NoLostActivation'
  BY DEF LockOwner, OwnIds, Requests, NoLostActivation, Processes
<1>3. OwnPlaces' /\ OwnDamage' /\ ActiveOnDisk'
  BY DEF OwnIds, OwnPlaces, OwnDamage, ActiveOnDisk, LockOwner
<1>4. OwnContents'
  BY DEF OwnIds, OwnContents, OwnContent, LockOwner, Carried, Healthy, Whole
<1>5. TargetsActive' /\ OpensActive' /\ OverrideWrites'
  BY DEF TargetsActive, OpensActive, OverrideWrites, LockOwner, OwnPlaces,
         Whole, Healthy
<1> QED
  BY <1>1, <1>2, <1>3, <1>4, <1>5

LEMMA AcquireLockInv ==
  ASSUME Inv, NEW r \in Refreshers, AcquireLock(r), UNCHANGED <<writerVars, readerVars>>
  PROVE  Inv'
<1> USE DEF Inv, TypeOK, DiskTypeOK, RefreshersTypeOK, WritersTypeOK,
            ReadersTypeOK, AcquireLock, diskVars, writerVars, readerVars
<1>1. TypeOK'
  BY DEF OwnIds, Processes
<1>2. LockOwner' /\ OwnIds' /\ Requests' /\ NoLostActivation'
  BY DEF LockOwner, OwnIds, Requests, NoLostActivation, Processes
<1>3. OwnPlaces' /\ OwnDamage' /\ ActiveOnDisk'
  BY DEF OwnIds, OwnPlaces, OwnDamage, ActiveOnDisk, LockOwner
<1>4. OwnContents'
  BY DEF OwnIds, OwnContents, OwnContent, LockOwner, Carried, Healthy, Whole
<1>5. TargetsActive' /\ OpensActive' /\ OverrideWrites'
  BY DEF TargetsActive, OpensActive, OverrideWrites, LockOwner, OwnPlaces,
         Whole, Healthy
<1> QED
  BY <1>1, <1>2, <1>3, <1>4, <1>5

LEMMA CancelAcquireInv ==
  ASSUME Inv, NEW r \in Refreshers, CancelAcquire(r), UNCHANGED <<writerVars, readerVars>>
  PROVE  Inv'
<1> USE DEF Inv, TypeOK, DiskTypeOK, RefreshersTypeOK, WritersTypeOK,
            ReadersTypeOK, CancelAcquire, diskVars, writerVars, readerVars
<1>1. TypeOK'
  BY DEF OwnIds, Processes
<1>2. LockOwner' /\ OwnIds' /\ Requests' /\ NoLostActivation'
  BY DEF LockOwner, OwnIds, Requests, NoLostActivation, Processes
<1>3. OwnPlaces' /\ OwnDamage' /\ ActiveOnDisk'
  BY DEF OwnIds, OwnPlaces, OwnDamage, ActiveOnDisk, LockOwner
<1>4. OwnContents'
  BY DEF OwnIds, OwnContents, OwnContent, LockOwner, Carried, Healthy, Whole
<1>5. TargetsActive' /\ OpensActive' /\ OverrideWrites'
  BY DEF TargetsActive, OpensActive, OverrideWrites, LockOwner, OwnPlaces,
         Whole, Healthy
<1> QED
  BY <1>1, <1>2, <1>3, <1>4, <1>5

LEMMA ResolveInv ==
  ASSUME Inv, NEW r \in Refreshers, Resolve(r), UNCHANGED <<writerVars, readerVars>>
  PROVE  Inv'
<1> USE DEF Inv, TypeOK, DiskTypeOK, RefreshersTypeOK, WritersTypeOK,
            ReadersTypeOK, Resolve, diskVars, writerVars, readerVars
<1>1. TypeOK'
  BY DEF OwnIds, Processes
<1>2. LockOwner' /\ OwnIds' /\ Requests' /\ NoLostActivation'
  BY DEF LockOwner, OwnIds, Requests, NoLostActivation, Processes
<1>3. OwnPlaces' /\ OwnDamage' /\ ActiveOnDisk'
  BY DEF OwnIds, OwnPlaces, OwnDamage, ActiveOnDisk, LockOwner
<1>4. OwnContents'
  BY DEF OwnIds, OwnContents, OwnContent, LockOwner, Carried, Healthy, Whole
<1>5. TargetsActive' /\ OpensActive' /\ OverrideWrites'
  BY DEF TargetsActive, OpensActive, OverrideWrites, LockOwner, OwnPlaces,
         Whole, Healthy
<1> QED
  BY <1>1, <1>2, <1>3, <1>4, <1>5

LEMMA RefuseInv ==
  ASSUME Inv, NEW r \in Refreshers, Refuse(r), UNCHANGED <<writerVars, readerVars>>
  PROVE  Inv'
<1> USE DEF Inv, TypeOK, DiskTypeOK, RefreshersTypeOK, WritersTypeOK,
            ReadersTypeOK, Refuse, diskVars, writerVars, readerVars
<1>1. TypeOK'
  BY DEF OwnIds, Processes
<1>2. LockOwner' /\ OwnIds' /\ Requests' /\ NoLostActivation'
  BY DEF LockOwner, OwnIds, Requests, NoLostActivation, Processes
<1>3. OwnPlaces' /\ OwnDamage' /\ ActiveOnDisk'
  BY DEF OwnIds, OwnPlaces, OwnDamage, ActiveOnDisk, LockOwner
<1>4. OwnContents'
  BY DEF OwnIds, OwnContents, OwnContent, LockOwner, Carried, Healthy, Whole
<1>5. TargetsActive' /\ OpensActive' /\ OverrideWrites'
  BY DEF TargetsActive, OpensActive, OverrideWrites, LockOwner, OwnPlaces,
         Whole, Healthy
<1> QED
  BY <1>1, <1>2, <1>3, <1>4, <1>5

LEMMA FailInv ==
  ASSUME Inv, NEW r \in Refreshers, Fail(r), UNCHANGED <<writerVars, readerVars>>
  PROVE  Inv'
<1> USE DEF Inv, TypeOK, DiskTypeOK, RefreshersTypeOK, WritersTypeOK,
            ReadersTypeOK, Fail, diskVars, writerVars, readerVars
<1>1. TypeOK'
  BY DEF OwnIds, Processes
<1>2. LockOwner' /\ OwnIds' /\ Requests' /\ NoLostActivation'
  BY DEF LockOwner, OwnIds, Requests, NoLostActivation, Processes
<1>3. OwnPlaces' /\ OwnDamage' /\ ActiveOnDisk'
  BY DEF OwnIds, OwnPlaces, OwnDamage, ActiveOnDisk, LockOwner
<1>4. OwnContents'
  BY DEF OwnIds, OwnContents, OwnContent, LockOwner, Carried, Healthy, Whole
<1>5. TargetsActive' /\ OpensActive' /\ OverrideWrites'
  BY DEF TargetsActive, OpensActive, OverrideWrites, LockOwner, OwnPlaces,
         Whole, Healthy
<1> QED
  BY <1>1, <1>2, <1>3, <1>4, <1>5

LEMMA ReleaseInv ==
  ASSUME Inv, NEW r \in Refreshers, Release(r), UNCHANGED <<writerVars, readerVars>>
  PROVE  Inv'
<1> USE DEF Inv, TypeOK, DiskTypeOK, RefreshersTypeOK, WritersTypeOK,
            ReadersTypeOK, Release, diskVars, writerVars, readerVars
<1>1. TypeOK'
  BY DEF OwnIds, Processes
<1>2. LockOwner' /\ OwnIds' /\ Requests' /\ NoLostActivation'
  BY DEF LockOwner, OwnIds, Requests, NoLostActivation, Processes
<1>3. OwnPlaces' /\ OwnDamage' /\ ActiveOnDisk'
  BY DEF OwnIds, OwnPlaces, OwnDamage, ActiveOnDisk, LockOwner
<1>4. OwnContents'
  BY DEF OwnIds, OwnContents, OwnContent, LockOwner, Carried, Healthy, Whole
<1>5. TargetsActive' /\ OpensActive' /\ OverrideWrites'
  BY DEF TargetsActive, OpensActive, OverrideWrites, LockOwner, OwnPlaces,
         Whole, Healthy
<1> QED
  BY <1>1, <1>2, <1>3, <1>4, <1>5

LEMMA BeginInv ==
  ASSUME Inv, NEW r \in Refreshers, Begin(r), UNCHANGED <<writerVars, readerVars>>
  PROVE  Inv'
<1> USE DEF Inv, Begin, writerVars, readerVars
<1>1. PICK s \in Snapshots \ used, gone \in SUBSET Stale,
           broken \in SUBSET (Stale \cap InUse), lost \in SUBSET Stale :
        /\ broken \cap gone = {}
        /\ mine' = [mine EXCEPT ![r] = s]
        /\ used' = used \cup {s}
        /\ place' = [PlacesWithout(gone) EXCEPT ![s] = "staging"]
        /\ RemoveContents(gone, broken, lost)
  OBVIOUS
<1>2. BlankDatabase \in Databases
  BY DEF BlankDatabase, Databases, NoMappings, NoOverrides
<1>3. TypeOK'
  BY <1>1, <1>2
  DEF TypeOK, DiskTypeOK, RefreshersTypeOK, WritersTypeOK, ReadersTypeOK, Places,
      PlacesWithout, RemoveContents, Stale
<1>4. LockOwner' /\ OwnIds' /\ Requests' /\ NoLostActivation'
  BY <1>1
  DEF TypeOK, RefreshersTypeOK, LockOwner, OwnIds, Requests, NoLostActivation
<1>5. /\ s \notin damaged /\ place'[s] = "staging"
      /\ \A t \in Snapshots \ {s} : place'[t] = IF t \in gone THEN "absent" ELSE place[t]
      /\ damaged' = (damaged \ gone) \cup broken
      /\ \A t \in Snapshots : db'[t] = IF t \in gone THEN BlankDatabase ELSE db[t]
      /\ \A t \in Stale : place[t] = "staging" /\ t # s
  BY <1>1 DEF OwnPlaces, TypeOK, DiskTypeOK, PlacesWithout, RemoveContents, Stale
<1>6. Punctual => \A q \in Refreshers : mine[q] \notin Stale
  BY DEF Stale
<1>7. Punctual => broken = {}
  BY <1>1, <1>6 DEF InUse
<1>8. pc'[r] = "fetching" /\ mine'[r] = s
  BY <1>1 DEF TypeOK, RefreshersTypeOK
<1>9. \A q \in Refreshers \ {r} :
        pc'[q] = pc[q] /\ mine'[q] = mine[q] /\ (pc[q] # "idle" => mine[q] \in used)
  BY <1>1 DEF TypeOK, RefreshersTypeOK, OwnIds
<1>10. OwnPlaces'
  <2>1. \A t \in Snapshots : t \notin used' => place'[t] = "absent"
    BY <1>1, <1>5 DEF OwnPlaces
  <2>2. \A t \in damaged' : t \in Snapshots \ gone /\ place[t] # "absent"
    BY <1>1, <1>5 DEF OwnPlaces, TypeOK, DiskTypeOK, Stale
  <2>3. \A t \in damaged' : place'[t] # "absent"
    BY <1>5, <2>2
  <2> QED
    BY <1>1, <1>5, <1>8, <1>9, <2>1, <2>3, OwnSnapshot DEF OwnPlaces
<1>11. OwnDamage'
  <2> SUFFICES ASSUME Punctual PROVE OwnDamage'
    BY DEF OwnDamage
  <2>1. \A t \in damaged' : place'[t] # "staging"
    BY <1>5, <1>7 DEF OwnDamage, OwnPlaces, TypeOK, DiskTypeOK
  <2>2. \A q \in Refreshers \ {r} :
          pc[q] # "idle" => /\ place'[mine[q]] = place[mine[q]]
                            /\ mine[q] \in damaged' => mine[q] \in damaged
    BY <1>1, <1>5, <1>6, <1>7, <1>9, OwnSnapshot
  <2> QED
    BY <1>5, <1>7, <1>8, <1>9, <2>1, <2>2 DEF OwnDamage
<1>12. ActiveKept
  BY <1>1, <1>5 DEF ActiveKept, ActiveOnDisk
<1>13. OwnContents'
  <2> SUFFICES ASSUME NEW q \in Refreshers PROVE OwnContent(q)'
    BY DEF OwnContents
  <2>1. CASE q = r
    BY <1>8, <2>1 DEF OwnContent
  <2>2. CASE q # r /\ (pc[q] # "idle" => mine[q] \notin gone)
    BY <1>5, <1>9, <1>12, <2>2, OthersContent, OwnSnapshot
  <2>3. CASE q # r /\ pc[q] # "idle" /\ mine[q] \in gone
    <3>1. ~Punctual /\ db'[mine[q]].supported
      BY <1>1, <1>5, <1>6, <2>3, OwnSnapshot DEF BlankDatabase
    <3> QED
      BY <1>9, <2>3, <3>1 DEF OwnContent
  <2> QED
    BY <2>1, <2>2, <2>3
<1>14. ActiveOnDisk' /\ TargetsActive' /\ OpensActive' /\ OverrideWrites'
  BY <1>1, <1>12, OthersActive
<1> QED
  BY <1>3, <1>4, <1>10, <1>11, <1>13, <1>14

LEMMA ImportInv ==
  ASSUME Inv, NEW r \in Refreshers, Import(r), UNCHANGED <<writerVars, readerVars>>
  PROVE  Inv'
<1> USE DEF Inv, Import, writerVars, readerVars
<1> mine[r] \in Snapshots
  BY OwnSnapshot
<1>1. TypeOK'
  <2>1. PICK parts \in SUBSET Parts :
          db' = [db EXCEPT ![mine[r]] = [BlankDatabase EXCEPT !.parts = parts]]
    OBVIOUS
  <2>2. [BlankDatabase EXCEPT !.parts = parts] \in Databases
    BY DatabaseUpdates DEF TypeOK, DiskTypeOK
  <2> QED
    BY <2>1, <2>2
    DEF TypeOK, DiskTypeOK, RefreshersTypeOK, WritersTypeOK, ReadersTypeOK
<1>2. LockOwner' /\ OwnIds' /\ Requests' /\ NoLostActivation'
  BY DEF TypeOK, RefreshersTypeOK, LockOwner, OwnIds, Requests, NoLostActivation
<1>3. OwnPlaces' /\ OwnDamage'
  BY DEF TypeOK, RefreshersTypeOK, DiskTypeOK, OwnIds, OwnPlaces, OwnDamage, Whole
<1>4. OwnContents'
  <2> SUFFICES ASSUME NEW q \in Refreshers PROVE OwnContent(q)'
    BY DEF OwnContents
  <2>1. CASE q = r
    BY <2>1 DEF OwnContent, BlankDatabase, TypeOK, DiskTypeOK, RefreshersTypeOK
  <2>2. CASE q # r
    BY <2>2, OthersContent
    DEF OwnIds, OwnPlaces, OwnDamage, ActiveOnDisk, ActiveKept, TypeOK, RefreshersTypeOK, Whole,
        DiskTypeOK
  <2> QED
    BY <2>1, <2>2
<1>5. ActiveOnDisk' /\ TargetsActive' /\ OpensActive' /\ OverrideWrites'
  BY OthersActive DEF ActiveOnDisk, ActiveKept, OwnPlaces, TypeOK, DiskTypeOK
<1> QED
  BY <1>1, <1>2, <1>3, <1>4, <1>5

LEMMA MaterializeInv ==
  ASSUME Inv, NEW r \in Refreshers, Materialize(r), UNCHANGED <<writerVars, readerVars>>
  PROVE  Inv'
<1> USE DEF Inv, Materialize, writerVars, readerVars
<1> mine[r] \in Snapshots
  BY OwnSnapshot
<1>1. TypeOK'
  <2>1. [db[mine[r]] EXCEPT !.overrides = yaml] \in Databases
    BY DatabaseUpdates DEF TypeOK, DiskTypeOK
  <2> QED
    BY <2>1
    DEF TypeOK, DiskTypeOK, RefreshersTypeOK, WritersTypeOK, ReadersTypeOK
<1>2. LockOwner' /\ OwnIds' /\ Requests' /\ NoLostActivation'
  BY DEF TypeOK, RefreshersTypeOK, LockOwner, OwnIds, Requests, NoLostActivation
<1>3. OwnPlaces' /\ OwnDamage'
  BY DEF TypeOK, RefreshersTypeOK, DiskTypeOK, OwnIds, OwnPlaces, OwnDamage, Whole
<1>4. OwnContents'
  <2> SUFFICES ASSUME NEW q \in Refreshers PROVE OwnContent(q)'
    BY DEF OwnContents
  <2>1. CASE q = r
    BY <2>1
    DEF OwnContents, OwnContent, TypeOK, DiskTypeOK, RefreshersTypeOK, Databases
  <2>2. CASE q # r
    BY <2>2, OthersContent
    DEF OwnIds, OwnPlaces, OwnDamage, ActiveOnDisk, ActiveKept, TypeOK, RefreshersTypeOK, Whole,
        DiskTypeOK
  <2> QED
    BY <2>1, <2>2
<1>5. ActiveOnDisk' /\ TargetsActive' /\ OpensActive' /\ OverrideWrites'
  BY OthersActive DEF ActiveOnDisk, ActiveKept, OwnPlaces, TypeOK, DiskTypeOK
<1> QED
  BY <1>1, <1>2, <1>3, <1>4, <1>5

LEMMA MoveInInv ==
  ASSUME Inv, NEW r \in Refreshers, MoveIn(r), UNCHANGED <<writerVars, readerVars>>
  PROVE  Inv'
<1> USE DEF Inv, MoveIn, writerVars, readerVars
<1> mine[r] \in Snapshots
  BY OwnSnapshot
<1>1. TypeOK'
  BY DEF TypeOK, DiskTypeOK, RefreshersTypeOK, WritersTypeOK, ReadersTypeOK,
         OwnIds, Places, Processes
<1>2. LockOwner' /\ OwnIds' /\ Requests' /\ NoLostActivation'
  BY DEF TypeOK, RefreshersTypeOK, LockOwner, OwnIds, Requests, NoLostActivation
<1>3. OwnPlaces' /\ OwnDamage'
  BY DEF TypeOK, RefreshersTypeOK, DiskTypeOK, OwnIds, OwnPlaces, OwnDamage, Whole
<1>4. OwnContents'
  <2> SUFFICES ASSUME NEW q \in Refreshers PROVE OwnContent(q)'
    BY DEF OwnContents
  <2>1. CASE q = r
    <3>1. Carried(pointer.id, mine[r])' = Carried(pointer.id, mine[r])
      BY CarriedStable DEF ActiveOnDisk, OwnPlaces, Whole, TypeOK, DiskTypeOK
    <3> QED
      BY <2>1, <3>1 DEF OwnContents, OwnContent, TypeOK, RefreshersTypeOK
  <2>2. CASE q # r
    BY <2>2, OthersContent
    DEF OwnIds, OwnPlaces, OwnDamage, ActiveOnDisk, ActiveKept, TypeOK, RefreshersTypeOK, Whole,
        DiskTypeOK
  <2> QED
    BY <2>1, <2>2
<1>5. ActiveOnDisk' /\ TargetsActive' /\ OpensActive' /\ OverrideWrites'
  BY OthersActive DEF ActiveOnDisk, ActiveKept, OwnPlaces, TypeOK, DiskTypeOK
<1> QED
  BY <1>1, <1>2, <1>3, <1>4, <1>5

LEMMA BreakMoveInv ==
  ASSUME Inv, NEW r \in Refreshers, BreakMove(r), UNCHANGED <<writerVars, readerVars>>
  PROVE  Inv'
<1> USE DEF Inv, BreakMove, Move, writerVars, readerVars
<1> mine[r] \in Snapshots
  BY OwnSnapshot
<1>1. TypeOK'
  BY DEF TypeOK, DiskTypeOK, RefreshersTypeOK, WritersTypeOK, ReadersTypeOK,
         OwnIds, Places, Processes, Stages, Holding
<1>2. LockOwner' /\ OwnIds' /\ Requests' /\ NoLostActivation'
  BY DEF TypeOK, RefreshersTypeOK, LockOwner, OwnIds, Requests, NoLostActivation,
         Holding, Promoting
<1>3. OwnPlaces' /\ OwnDamage'
  BY DEF TypeOK, RefreshersTypeOK, DiskTypeOK, OwnIds, OwnPlaces, OwnDamage, Whole, BeforeLock
<1>4. OwnContents'
  <2> SUFFICES ASSUME NEW q \in Refreshers PROVE OwnContent(q)'
    BY DEF OwnContents
  <2>1. CASE q = r
    BY <2>1 DEF OwnContents, OwnContent, TypeOK, RefreshersTypeOK, Promoting
  <2>2. CASE q # r
    BY <2>2, OthersContent
    DEF OwnIds, OwnPlaces, OwnDamage, ActiveOnDisk, ActiveKept, TypeOK, RefreshersTypeOK, Whole,
        DiskTypeOK
  <2> QED
    BY <2>1, <2>2
<1>5. ActiveOnDisk' /\ TargetsActive' /\ OpensActive' /\ OverrideWrites'
  BY OthersActive DEF ActiveOnDisk, ActiveKept, OwnPlaces, TypeOK, DiskTypeOK
<1> QED
  BY <1>1, <1>2, <1>3, <1>4, <1>5


LEMMA InstallInv ==
  ASSUME Inv, NEW r \in Refreshers, Install(r), UNCHANGED <<writerVars, readerVars>>
  PROVE  Inv'
<1> USE DEF Inv, Install, writerVars, readerVars
<1> mine[r] \in Snapshots
  BY OwnSnapshot
<1>1. TypeOK'
  BY DEF TypeOK, DiskTypeOK, RefreshersTypeOK, WritersTypeOK, ReadersTypeOK,
         OwnIds, Places, Processes
<1>2. LockOwner' /\ OwnIds' /\ Requests' /\ NoLostActivation'
  BY DEF TypeOK, RefreshersTypeOK, LockOwner, OwnIds, Requests, NoLostActivation
<1>3. OwnPlaces' /\ OwnDamage'
  BY DEF TypeOK, RefreshersTypeOK, DiskTypeOK, OwnIds, OwnPlaces, OwnDamage,
         ActiveOnDisk, Whole
<1>4. OwnContents'
  <2> SUFFICES ASSUME NEW q \in Refreshers PROVE OwnContent(q)'
    BY DEF OwnContents
  <2>1. CASE q = r
    <3>1. Carried(pointer.id, mine[r])' = Carried(pointer.id, mine[r])
      BY CarriedStable DEF ActiveOnDisk, OwnPlaces, Whole, TypeOK, DiskTypeOK
    <3> QED
      BY <2>1, <3>1 DEF OwnContents, OwnContent, TypeOK, RefreshersTypeOK
  <2>2. CASE q # r
    BY <2>2, OthersContent
    DEF OwnIds, OwnPlaces, OwnDamage, ActiveOnDisk, ActiveKept, TypeOK, RefreshersTypeOK, Whole,
        DiskTypeOK
  <2> QED
    BY <2>1, <2>2
<1>5. ActiveOnDisk' /\ TargetsActive' /\ OpensActive' /\ OverrideWrites'
  BY OthersActive DEF ActiveOnDisk, ActiveKept, OwnPlaces, TypeOK, DiskTypeOK
<1> QED
  BY <1>1, <1>2, <1>3, <1>4, <1>5

LEMMA CarryCrosswalkInv ==
  ASSUME Inv, NEW r \in Refreshers, CarryCrosswalk(r), UNCHANGED <<writerVars, readerVars>>
  PROVE  Inv'
<1> USE DEF Inv, CarryCrosswalk, writerVars, readerVars
<1> mine[r] \in Snapshots
  BY OwnSnapshot
<1> DEFINE carried == Carried(base[r].id, mine[r])
<1>1. [db[mine[r]] EXCEPT !.crosswalk = carried] \in Databases
  BY CarriedType, DatabaseUpdates DEF TypeOK, DiskTypeOK
<1>2. TypeOK'
  BY <1>1
  DEF TypeOK, DiskTypeOK, RefreshersTypeOK, WritersTypeOK, ReadersTypeOK
<1>3. LockOwner' /\ OwnIds' /\ Requests' /\ NoLostActivation'
  BY DEF TypeOK, RefreshersTypeOK, LockOwner, OwnIds, Requests, NoLostActivation
<1>4. OwnPlaces' /\ OwnDamage'
  BY DEF TypeOK, RefreshersTypeOK, OwnPlaces, OwnDamage, Whole
<1>5. OwnContents'
  <2> SUFFICES ASSUME NEW q \in Refreshers PROVE OwnContent(q)'
    BY DEF OwnContents
  <2>1. CASE q = r
    <3>1. /\ db'[mine[r]].crosswalk = carried
          /\ db'[mine[r]].supported = db[mine[r]].supported
          /\ db'[mine[r]].parts = db[mine[r]].parts
      BY DEF TypeOK, DiskTypeOK, Databases
    <3>2. Carried(pointer.id, mine[r])' = Carried(pointer.id, mine[r])
      BY <3>1, CarriedStable DEF ActiveOnDisk, Whole, TypeOK, DiskTypeOK
    <3>3. carried = Carried(pointer.id, mine[r])
      BY DEF NoLostActivation
    <3> QED
      BY <2>1, <3>1, <3>2, <3>3
      DEF OwnContents, OwnContent, TypeOK, RefreshersTypeOK
  <2>2. CASE q # r
    BY <2>2, OthersContent
    DEF OwnIds, OwnPlaces, OwnDamage, ActiveOnDisk, ActiveKept, TypeOK, RefreshersTypeOK,
        Whole, DiskTypeOK
  <2> QED
    BY <2>1, <2>2
<1>6. ActiveOnDisk' /\ TargetsActive' /\ OpensActive' /\ OverrideWrites'
  BY OthersActive DEF ActiveOnDisk, ActiveKept, TypeOK, DiskTypeOK
<1> QED
  BY <1>2, <1>3, <1>4, <1>5, <1>6

LEMMA WriteMarkerInv ==
  ASSUME Inv, NEW r \in Refreshers, WriteMarker(r), UNCHANGED <<writerVars, readerVars>>
  PROVE  Inv'
<1> USE DEF Inv, WriteMarker, writerVars, readerVars
<1> mine[r] \in Snapshots
  BY OwnSnapshot
<1>1. ProvenGeneration(base[r], mine[r]) \in Snapshots
  BY DEF ProvenGeneration, TypeOK, RefreshersTypeOK, Pointers
<1>2. TypeOK'
  BY <1>1
  DEF TypeOK, DiskTypeOK, RefreshersTypeOK, WritersTypeOK, ReadersTypeOK, Places
<1>3. LockOwner' /\ OwnIds' /\ Requests' /\ NoLostActivation'
  BY DEF TypeOK, RefreshersTypeOK, LockOwner, OwnIds, Requests, NoLostActivation
<1>4. OwnPlaces' /\ OwnDamage'
  BY DEF TypeOK, RefreshersTypeOK, DiskTypeOK, OwnIds, OwnPlaces, OwnDamage
<1>5. ActiveKept
  BY DEF ActiveKept, ActiveOnDisk, OwnPlaces, TypeOK, DiskTypeOK
<1>6. OwnContents'
  <2> SUFFICES ASSUME NEW q \in Refreshers PROVE OwnContent(q)'
    BY DEF OwnContents
  <2>1. CASE q = r
    <3>1. Carried(pointer.id, mine[r])' = Carried(pointer.id, mine[r])
      BY <1>5, CarriedStable DEF ActiveKept, Whole
    <3> QED
      BY <2>1, <3>1 DEF OwnContents, OwnContent, TypeOK, RefreshersTypeOK
  <2>2. CASE q # r
    BY <1>5, <2>2, OthersContent DEF TypeOK, RefreshersTypeOK
  <2> QED
    BY <2>1, <2>2
<1>7. ActiveOnDisk' /\ TargetsActive' /\ OpensActive' /\ OverrideWrites'
  BY <1>5, OthersActive
<1> QED
  BY <1>2, <1>3, <1>4, <1>6, <1>7

LEMMA ActivateInv ==
  ASSUME Inv, NEW r \in Refreshers, Activate(r), UNCHANGED <<writerVars, readerVars>>
  PROVE  Inv'
<1> USE DEF Inv, Activate, writerVars, readerVars
<1> mine[r] \in Snapshots
  BY OwnSnapshot
<1>1. pointer' \in Pointers /\ pointer'.id = mine[r]
  BY ProspectiveType DEF ProspectivePointer, TypeOK, RefreshersTypeOK
<1>2. TypeOK'
  BY <1>1 DEF TypeOK, DiskTypeOK, RefreshersTypeOK, WritersTypeOK, ReadersTypeOK
<1>3. /\ lock = r
      /\ \A q \in Refreshers \ {r} : pc[q] \notin Holding
      /\ \A w \in Writers : wpc[w] = "idle"
      /\ \A c \in Readers : rpc[c] \notin {"locked", "resolved"}
  BY DEF LockOwner
<1>4. LockOwner' /\ OwnIds' /\ Requests' /\ NoLostActivation'
  BY <1>3
  DEF TypeOK, RefreshersTypeOK, LockOwner, OwnIds, Requests, NoLostActivation
<1>5. OwnPlaces' /\ OwnDamage' /\ ActiveOnDisk'
  BY <1>1 DEF TypeOK, RefreshersTypeOK, OwnIds, OwnPlaces, OwnDamage, ActiveOnDisk
<1>6. OwnContents'
  BY <1>3 DEF TypeOK, RefreshersTypeOK, OwnContents, OwnContent
<1>7. TargetsActive' /\ OpensActive' /\ OverrideWrites'
  BY <1>3 DEF TargetsActive, OpensActive, OverrideWrites
<1> QED
  BY <1>2, <1>4, <1>5, <1>6, <1>7

(***************************************************************************)
(* Prune and Handle: a refresher that holds the lock removes directories,  *)
(* any of which may fail, but never the active one.                        *)
(***************************************************************************)
LEMMA RemovalInv ==
  ASSUME Inv, NEW r \in Refreshers, Move(r, pc[r], "release"), pc[r] \in Holding,
         NEW doomed \in SUBSET {s \in Snapshots : place[s] \in {"incoming", "installed"}},
         pointer.id \notin doomed, TryRemoveTrees(doomed),
         UNCHANGED <<pointer, yaml, lock, used, home, mine, base, writerVars,
                     readerVars>>
  PROVE  Inv'
<1> USE DEF Inv, writerVars, readerVars
<1>1. PICK broken \in SUBSET doomed, lost \in SUBSET doomed :
        RemoveTrees(doomed \ broken, broken, lost)
  BY DEF TryRemoveTrees
<1>2. DiskTypeOK'
  BY <1>1, RemoveTreesType DEF TypeOK, DiskTypeOK
<1>3. TypeOK'
  BY <1>2 DEF TypeOK, RefreshersTypeOK, WritersTypeOK, ReadersTypeOK
<1>4. /\ \A s \in Snapshots \ doomed : place'[s] = place[s] /\ db'[s] = db[s]
      /\ \A s \in doomed \ broken : place'[s] = "absent"
      /\ \A s \in broken : place'[s] = place[s]
      /\ \A s \in Snapshots \ doomed : s \in damaged' <=> s \in damaged
      /\ damaged' \subseteq (damaged \ (doomed \ broken)) \cup broken
  BY <1>1, RemoveTreesEffect DEF TypeOK
<1>5. LockOwner' /\ OwnIds' /\ Requests' /\ NoLostActivation'
  BY DEF TypeOK, RefreshersTypeOK, LockOwner, OwnIds, Requests, NoLostActivation
<1>6. \A q \in Refreshers \ {r} :
        pc'[q] = pc[q] /\ (pc[q] # "idle" => pc[q] \in BeforeLock \cup {"cleanup"})
  BY DEF TypeOK, RefreshersTypeOK, LockOwner
<1>7. OwnPlaces'
  <2>1. \A s \in Snapshots : s \notin used => place'[s] = "absent"
    BY <1>4 DEF OwnPlaces
  <2>2. \A s \in damaged' : place'[s] # "absent"
    BY <1>4 DEF OwnPlaces, TypeOK, DiskTypeOK
  <2>3. \A q \in Refreshers \ {r} :
          pc[q] \in BeforeLock => place'[mine[q]] \in {"staging", "absent"}
    BY <1>4 DEF OwnPlaces, OwnIds, TypeOK, DiskTypeOK
  <2> QED
    BY <1>6, <2>1, <2>2, <2>3 DEF OwnPlaces, TypeOK, RefreshersTypeOK
<1>8. OwnDamage'
  <2>1. Punctual => \A s \in damaged' : place'[s] # "staging"
    BY <1>4 DEF OwnDamage, TypeOK, DiskTypeOK
  <2>2. \A q \in Refreshers \ {r} :
          pc[q] \in BeforeLock =>
            place'[mine[q]] = place[mine[q]] /\ (mine[q] \in damaged' <=> mine[q] \in damaged)
    BY <1>4, OwnSnapshot DEF OwnPlaces
  <2> QED
    BY <1>6, <2>1, <2>2 DEF OwnDamage, TypeOK, RefreshersTypeOK
<1>9. OwnContents'
  <2>1. \A q \in Refreshers \ {r} :
          pc[q] \in {"imported", "ready"} => db'[mine[q]] = db[mine[q]]
    BY <1>4 DEF OwnPlaces, OwnIds, TypeOK, DiskTypeOK
  <2> QED
    BY <1>6, <2>1 DEF OwnContents, OwnContent, TypeOK, RefreshersTypeOK
<1>10. ActiveOnDisk' /\ TargetsActive' /\ OpensActive' /\ OverrideWrites'
  BY <1>4, OthersActive DEF ActiveOnDisk, ActiveKept
<1> QED
  BY <1>3, <1>5, <1>7, <1>8, <1>9, <1>10

(* Prune and Handle when they remove nothing.                              *)
LEMMA IdleInv ==
  ASSUME Inv, NEW r \in Refreshers, Move(r, pc[r], "release"), pc[r] \in Holding,
         UNCHANGED <<diskVars, mine, base, writerVars, readerVars>>
  PROVE  Inv'
<1> USE DEF Inv, diskVars, writerVars, readerVars
<1>1. TypeOK' /\ LockOwner' /\ OwnIds' /\ Requests' /\ NoLostActivation'
  BY DEF TypeOK, DiskTypeOK, RefreshersTypeOK, WritersTypeOK, ReadersTypeOK,
         LockOwner, OwnIds, Requests, NoLostActivation
<1>2. OwnPlaces' /\ OwnDamage' /\ OwnContents'
  BY DEF TypeOK, RefreshersTypeOK, OwnPlaces, OwnDamage, OwnContents, OwnContent, Whole,
         Carried, Healthy
<1>3. ActiveOnDisk' /\ TargetsActive' /\ OpensActive' /\ OverrideWrites'
  BY OthersActive DEF ActiveOnDisk, ActiveKept
<1> QED
  BY <1>1, <1>2, <1>3

LEMMA PruneInv ==
  ASSUME Inv, NEW r \in Refreshers, Prune(r), UNCHANGED <<writerVars, readerVars>>
  PROVE  Inv'
<1>1. CASE pointer.id = mine[r]
  <2>1. Doomed(pointer) \in SUBSET {s \in Snapshots : place[s] \in {"incoming", "installed"}}
    BY DEF Doomed, Installed
  <2>2. pointer.id \notin Doomed(pointer)
    BY <1>1, OwnSnapshot DEF Prune, Doomed, Kept, Inv, ActiveOnDisk
  <2> QED
    BY <1>1, <2>1, <2>2, RemovalInv DEF Prune
<1>2. CASE pointer.id # mine[r]
  BY <1>2, IdleInv DEF Prune, diskVars
<1> QED
  BY <1>1, <1>2

LEMMA HandleInv ==
  ASSUME Inv, NEW r \in Refreshers, Handle(r), UNCHANGED <<writerVars, readerVars>>
  PROVE  Inv'
<1>1. CASE pointer.id \notin {Corrupt, mine[r]} /\ place[mine[r]] = "installed"
  <2>1. {mine[r]} \in SUBSET {s \in Snapshots : place[s] \in {"incoming", "installed"}}
    BY <1>1, OwnSnapshot DEF Handle
  <2> QED
    BY <1>1, <2>1, RemovalInv DEF Handle
<1>2. CASE ~(pointer.id \notin {Corrupt, mine[r]} /\ place[mine[r]] = "installed")
  BY <1>2, IdleInv DEF Handle, diskVars
<1> QED
  BY <1>1, <1>2

(* The end of an attempt clears what its refresher knows.                  *)
LEMMA ForgetType ==
  ASSUME RefreshersTypeOK, NEW r \in Refreshers, Forget(r)
  PROVE  /\ mine' \in [Refreshers -> Snapshots \cup {None}]
         /\ base' \in [Refreshers -> Pointers]
         /\ \A q \in Refreshers \ {r} : mine'[q] = mine[q] /\ base'[q] = base[q]
<1>1. NoPointer \in Pointers
  BY DEF NoPointer, NoHistory, Pointers
<1> QED
  BY <1>1 DEF RefreshersTypeOK, Forget

LEMMA CleanupInv ==
  ASSUME Inv, NEW r \in Refreshers, Cleanup(r), UNCHANGED <<writerVars, readerVars>>
  PROVE  Inv'
<1> USE DEF Inv, Cleanup, writerVars, readerVars
<1> mine[r] \in Snapshots
  BY OwnSnapshot
<1>1. /\ DiskTypeOK'
      /\ \A s \in Snapshots \ {mine[r]} :
           place'[s] = place[s] /\ db'[s] = db[s] /\ (s \in damaged' <=> s \in damaged)
      /\ place'[mine[r]] \in {place[mine[r]], "absent"}
      /\ mine[r] \in damaged' => mine[r] \in damaged /\ place'[mine[r]] = place[mine[r]]
      /\ place[mine[r]] = "installed" =>
           UNCHANGED <<place, damaged, db>>
  <2>1. CASE place[mine[r]] \in {"staging", "incoming"} /\ RemoveTrees({mine[r]}, {}, {})
    <3>1. DiskTypeOK'
      BY <2>1, RemoveTreesType DEF TypeOK, DiskTypeOK
    <3>2. /\ \A s \in Snapshots \ {mine[r]} : place'[s] = place[s] /\ db'[s] = db[s]
          /\ place'[mine[r]] = "absent"
          /\ damaged' = damaged \ {mine[r]}
      BY <2>1 DEF RemoveTrees, PlacesWithout, RemoveContents, TypeOK, DiskTypeOK
    <3> QED
      BY <2>1, <3>1, <3>2
  <2>2. CASE UNCHANGED <<place, damaged, marker, db>>
    BY <2>2 DEF TypeOK, DiskTypeOK
  <2> QED
    BY <2>1, <2>2
<1>2. TypeOK'
  BY <1>1, ForgetType DEF TypeOK, RefreshersTypeOK, WritersTypeOK, ReadersTypeOK
<1>3. LockOwner' /\ OwnIds' /\ Requests' /\ NoLostActivation'
  BY ForgetType
  DEF TypeOK, RefreshersTypeOK, LockOwner, OwnIds, Requests, NoLostActivation
<1>4. \A q \in Refreshers \ {r} :
        /\ pc'[q] = pc[q] /\ mine'[q] = mine[q]
        /\ pc[q] # "idle" => mine[q] \in Snapshots \ {mine[r]}
  BY ForgetType, OwnSnapshot DEF TypeOK, RefreshersTypeOK, OwnIds
<1>5. pc'[r] = "idle"
  BY DEF TypeOK, RefreshersTypeOK
<1>6. ActiveKept
  BY <1>1 DEF ActiveOnDisk, ActiveKept
<1>7. OwnPlaces'
  <2>1. \A s \in Snapshots : s \notin used => place'[s] = "absent"
    BY <1>1 DEF OwnPlaces, OwnIds
  <2>2. \A s \in damaged' : place'[s] # "absent"
    BY <1>1 DEF OwnPlaces, TypeOK, DiskTypeOK
  <2> QED
    BY <1>1, <1>4, <1>5, <2>1, <2>2 DEF OwnPlaces
<1>8. OwnDamage'
  <2>1. Punctual => \A s \in damaged' : place'[s] # "staging"
    BY <1>1 DEF OwnDamage, TypeOK, DiskTypeOK
  <2> QED
    BY <1>1, <1>4, <1>5, <2>1 DEF OwnDamage
<1>9. OwnContents'
  <2> SUFFICES ASSUME NEW q \in Refreshers PROVE OwnContent(q)'
    BY DEF OwnContents
  <2>1. CASE q = r
    BY <1>5, <2>1 DEF OwnContent
  <2>2. CASE q # r
    <3>1. UNCHANGED <<pointer, pc[q], mine[q]>> /\ (pc[q] # "idle" => db'[mine[q]] = db[mine[q]])
      BY <1>1, <1>4, <2>2
    <3> QED
      BY <1>6, <3>1, OthersContent
  <2> QED
    BY <2>1, <2>2
<1>10. ActiveOnDisk' /\ TargetsActive' /\ OpensActive' /\ OverrideWrites'
  BY <1>6, OthersActive
<1> QED
  BY <1>2, <1>3, <1>7, <1>8, <1>9, <1>10

LEMMA CrashInv ==
  ASSUME Inv, NEW r \in Refreshers, Crash(r), UNCHANGED <<writerVars, readerVars>>
  PROVE  Inv'
<1> USE DEF Inv, Crash, writerVars, readerVars
<1>1. TypeOK'
  BY ForgetType
  DEF TypeOK, DiskTypeOK, RefreshersTypeOK, WritersTypeOK, ReadersTypeOK
<1>2. LockOwner' /\ OwnIds' /\ Requests' /\ NoLostActivation'
  BY ForgetType
 
  DEF TypeOK, RefreshersTypeOK, LockOwner, OwnIds, Requests, NoLostActivation,
      Processes
<1>3. pc'[r] = "idle" /\ \A q \in Refreshers \ {r} : pc'[q] = pc[q] /\ mine'[q] = mine[q]
  BY ForgetType DEF TypeOK, RefreshersTypeOK
<1>4. OwnPlaces' /\ OwnDamage'
  BY <1>3 DEF OwnPlaces, OwnDamage
<1>5. OwnContents'
  BY <1>3 DEF OwnContents, OwnContent, Carried, Healthy, Whole
<1>6. ActiveOnDisk' /\ TargetsActive' /\ OpensActive' /\ OverrideWrites'
  BY OthersActive DEF ActiveOnDisk, ActiveKept
<1> QED
  BY <1>1, <1>2, <1>4, <1>5, <1>6

-----------------------------------------------------------------------------
(***************************************************************************)
(* A step of a writer or a reader that leaves the directories alone, and   *)
(* of the active database all but its crosswalk and its overrides, does    *)
(* not disturb a refresher.                                                *)
(***************************************************************************)
LEMMA RefreshersUndisturbed ==
  ASSUME Inv, UNCHANGED <<pointer, place, damaged, used, refresherVars>>,
         \A r \in Refreshers : pc[r] \in Holding =>
           db' = db,
         \A s \in Snapshots : db'[s].supported = db[s].supported
  PROVE  OwnIds' /\ OwnPlaces' /\ OwnDamage' /\ OwnContents' /\ NoLostActivation' /\ ActiveOnDisk'
<1> USE DEF Inv, refresherVars
<1>1. OwnIds' /\ OwnPlaces' /\ OwnDamage' /\ NoLostActivation' /\ ActiveOnDisk'
  BY DEF OwnIds, OwnPlaces, OwnDamage, NoLostActivation, ActiveOnDisk
<1>2. OwnContents'
  <2> SUFFICES ASSUME NEW r \in Refreshers PROVE OwnContent(r)'
    BY DEF OwnContents
  <2>1. CASE pc[r] \in Holding
    BY <2>1 DEF OwnContents, OwnContent, Carried, Healthy, Whole
  <2>2. CASE pc[r] \in {"imported", "ready"}
    BY <2>2, OwnSnapshot DEF OwnContents, OwnContent
  <2>3. CASE pc[r] \notin Holding \cup {"imported", "ready"}
    BY <2>3 DEF OwnContent
  <2> QED
    BY <2>1, <2>2, <2>3
<1> QED
  BY <1>1, <1>2

LEMMA StartWriteInv ==
  ASSUME Inv, NEW w \in Writers, StartWrite(w), UNCHANGED <<refresherVars, readerVars>>
  PROVE  Inv'
<1> USE DEF Inv, StartWrite, refresherVars, readerVars
<1>1. PICK op \in Writes :
        LET active == IF pointer.id \in Installed THEN pointer.id ELSE None
        IN  /\ wop' = [wop EXCEPT ![w] = op]
            /\ wtarget' = [wtarget EXCEPT ![w] = active]
            /\ wpc' = [wpc EXCEPT ![w] =
                         IF op.kind = "store" /\ active = None THEN "release" ELSE "locked"]
  OBVIOUS
<1>2. TypeOK'
  BY <1>1
  DEF TypeOK, DiskTypeOK, RefreshersTypeOK, WritersTypeOK, ReadersTypeOK,
              Installed, Processes
<1>3. LockOwner'
  <2>1. wpc'[w] # "idle" /\ \A v \in Writers \ {w} : wpc'[v] = wpc[v]
    BY <1>1 DEF TypeOK, WritersTypeOK
  <2> QED
    BY <2>1 DEF LockOwner, Processes
<1>4. Requests'
  BY <1>1 DEF Requests, TypeOK, WritersTypeOK, Installed
<1>5. OwnIds' /\ OwnPlaces' /\ OwnDamage' /\ OwnContents' /\ NoLostActivation' /\ ActiveOnDisk'
  BY RefreshersUndisturbed
<1>6. TargetsActive'
  BY <1>1
  DEF TargetsActive, TypeOK, WritersTypeOK, Installed, ActiveOnDisk, Whole
<1>7. OpensActive'
  BY DEF OpensActive, Healthy, Whole
<1>8. OverrideWrites'
  BY <1>1
  DEF OverrideWrites, LockOwner, TypeOK, WritersTypeOK, Installed, ActiveOnDisk,
              Whole, Processes
<1> QED
  BY <1>2, <1>3, <1>4, <1>5, <1>6, <1>7, <1>8

(* What a write does to the active database keeps its type and its schema. *)
LEMMA EditType ==
  ASSUME DiskTypeOK, NEW d \in Databases
  PROVE  /\ \A p \in Parts, x \in SUBSET Externals :
              Confirm(d.crosswalk, p, x) \in [Externals -> Parts \cup {None}]
         /\ \A k \in Keys, t \in Targets \cup {None} :
              [d.overrides EXCEPT ![k] = t] \in [Keys -> Targets \cup {None}]
BY DEF Databases, Confirm

(***************************************************************************)
(* A step of a writer that holds the lock, keeps its target, and edits     *)
(* nothing but that target's crosswalk or overrides.                       *)
(***************************************************************************)
LEMMA EditInv ==
  ASSUME Inv, NEW w \in Writers, NEW next \in {"committed", "release"},
         wpc[w] \in {"locked", "committed"},
         next = "committed" =>
           /\ wop[w].kind # "store"
           /\ pointer.id \in Snapshots =>
                db'[pointer.id].overrides[wop[w].key] = Entry(wop[w]),
         wpc' = [wpc EXCEPT ![w] = next],
         db' \in [Snapshots -> Databases],
         yaml' \in [Keys -> Targets \cup {None}],
         \A s \in Snapshots : db'[s].supported = db[s].supported,
         UNCHANGED <<pointer, place, damaged, marker, lock, used, home, wop, wtarget,
                     refresherVars, readerVars>>
  PROVE  Inv'
<1> USE DEF Inv, readerVars
<1>1. TypeOK'
  BY DEF TypeOK, DiskTypeOK, RefreshersTypeOK, WritersTypeOK, ReadersTypeOK,
         refresherVars
<1>2. LockOwner' /\ Requests'
  BY DEF LockOwner, Requests, TypeOK, WritersTypeOK, refresherVars
<1>3. \A r \in Refreshers : pc[r] \notin Holding
  BY DEF LockOwner
<1>4. OwnIds' /\ OwnPlaces' /\ OwnDamage' /\ OwnContents' /\ NoLostActivation' /\ ActiveOnDisk'
  BY <1>3, RefreshersUndisturbed
<1>5. TargetsActive' /\ OpensActive' /\ OverrideWrites'
  BY DEF TargetsActive, OpensActive, OverrideWrites, LockOwner, TypeOK,
         WritersTypeOK, Whole
<1> QED
  BY <1>1, <1>2, <1>4, <1>5

LEMMA StoreCrosswalksInv ==
  ASSUME Inv, NEW w \in Writers, StoreCrosswalks(w), UNCHANGED <<refresherVars, readerVars>>
  PROVE  Inv'
<1> USE DEF Inv, StoreCrosswalks
<1>1. wtarget[w] \in Snapshots /\ wop[w].part \in Parts /\ wop[w].externals \in SUBSET Externals
  BY DEF Requests, Writes
<1> DEFINE d == db[wtarget[w]]
           new == Confirm(d.crosswalk, wop[w].part, wop[w].externals)
<1>2. d \in Databases
  BY <1>1 DEF TypeOK, DiskTypeOK
<1>3. [d EXCEPT !.crosswalk = new] \in Databases
  BY <1>1, <1>2, EditType, DatabaseUpdates DEF TypeOK
<1>4. db' = [db EXCEPT ![wtarget[w]] = [d EXCEPT !.crosswalk = new]]
  OBVIOUS
<1>5. db' \in [Snapshots -> Databases]
  BY <1>3, <1>4 DEF TypeOK, DiskTypeOK
<1>6. \A s \in Snapshots : db'[s].supported = db[s].supported
  BY <1>2, <1>4 DEF TypeOK, DiskTypeOK, Databases
<1> QED
  BY <1>5, <1>6, EditInv DEF TypeOK, DiskTypeOK

LEMMA CommitOverrideInv ==
  ASSUME Inv, NEW w \in Writers, CommitOverride(w), UNCHANGED <<refresherVars, readerVars>>
  PROVE  Inv'
<1> USE DEF Inv, CommitOverride
<1>1. CASE wtarget[w] = None
  BY <1>1, EditInv DEF TypeOK, DiskTypeOK, OverrideWrites
<1>2. CASE wtarget[w] # None
  <2>1. /\ wtarget[w] \in Snapshots
        /\ wop[w].key \in Keys /\ Entry(wop[w]) \in Targets \cup {None}
    BY <1>2 DEF Requests, Writes, Entry, TypeOK, WritersTypeOK
  <2> DEFINE d == db[wtarget[w]]
             new == [d.overrides EXCEPT ![wop[w].key] = Entry(wop[w])]
  <2>2. d \in Databases
    BY <2>1 DEF TypeOK, DiskTypeOK
  <2>3. [d EXCEPT !.overrides = new] \in Databases
    BY <2>1, <2>2, EditType, DatabaseUpdates DEF TypeOK
  <2>4. db' = [db EXCEPT ![wtarget[w]] = [d EXCEPT !.overrides = new]]
    BY <1>2
  <2>5. db' \in [Snapshots -> Databases]
    BY <2>3, <2>4 DEF TypeOK, DiskTypeOK
  <2>6. \A s \in Snapshots : db'[s].supported = db[s].supported
    BY <2>2, <2>4 DEF TypeOK, DiskTypeOK, Databases
  <2>7. db'[wtarget[w]].overrides[wop[w].key] = Entry(wop[w])
    BY <2>1, <2>2, <2>4 DEF TypeOK, DiskTypeOK, Databases
  <2> QED
    BY <2>5, <2>6, <2>7, EditInv DEF TypeOK, DiskTypeOK, OverrideWrites
<1> QED
  BY <1>1, <1>2

LEMMA WriteYamlInv ==
  ASSUME Inv, NEW w \in Writers, WriteYaml(w), UNCHANGED <<refresherVars, readerVars>>
  PROVE  Inv'
<1> USE DEF Inv, WriteYaml
<1>1. wop[w].key \in Keys /\ Entry(wop[w]) \in Targets \cup {None}
  BY DEF Requests, Writes, Entry
<1>2. yaml' \in [Keys -> Targets \cup {None}]
  BY <1>1 DEF TypeOK, DiskTypeOK
<1> QED
  BY <1>2, EditInv DEF TypeOK, DiskTypeOK

LEMMA FailWriteInv ==
  ASSUME Inv, NEW w \in Writers, FailWrite(w), UNCHANGED <<refresherVars, readerVars>>
  PROVE  Inv'
BY EditInv DEF Inv, FailWrite, diskVars, TypeOK, DiskTypeOK

(* The end of a write, by itself or by a crash.                            *)
LEMMA EndWriteInv ==
  ASSUME Inv, NEW w \in Writers, wpc[w] # "idle", EndWrite(w),
         UNCHANGED <<refresherVars, readerVars>>
  PROVE  Inv'
<1> USE DEF Inv, EndWrite, readerVars
<1>1. TypeOK'
  BY DEF TypeOK, DiskTypeOK, RefreshersTypeOK, WritersTypeOK, ReadersTypeOK,
         refresherVars
<1>2. LockOwner' /\ Requests'
  BY DEF LockOwner, Requests, TypeOK, WritersTypeOK, refresherVars, Processes
<1>3. OwnIds' /\ OwnPlaces' /\ OwnDamage' /\ OwnContents' /\ NoLostActivation' /\ ActiveOnDisk'
  BY RefreshersUndisturbed
<1>4. TargetsActive' /\ OpensActive' /\ OverrideWrites'
  BY DEF TargetsActive, OpensActive, OverrideWrites, LockOwner, TypeOK,
         WritersTypeOK, Whole, Healthy
<1> QED
  BY <1>1, <1>2, <1>3, <1>4

(***************************************************************************)
(* The steps of a reader, which change nothing but the lock on disk.       *)
(***************************************************************************)
LEMMA ReaderInv ==
  ASSUME Inv, NEW c \in Readers, Open(c), UNCHANGED <<refresherVars, writerVars>>
  PROVE  Inv'
<1> USE DEF Inv, Open, ProceedOpen, StartOpen, StartUnlocked, ResolveActive, Connect, FailOpen,
            Close,
            CrashOpen, EndOpen, writerVars, diskVars
<1>1. TypeOK'
  BY DEF TypeOK, DiskTypeOK, RefreshersTypeOK, WritersTypeOK, ReadersTypeOK,
         refresherVars, Processes
<1>2. LockOwner' /\ Requests'
  BY DEF LockOwner, Requests, TypeOK, ReadersTypeOK, refresherVars, Processes
<1>3. OwnIds' /\ OwnPlaces' /\ OwnDamage' /\ OwnContents' /\ NoLostActivation' /\ ActiveOnDisk'
  BY RefreshersUndisturbed
<1>4. TargetsActive' /\ OpensActive' /\ OverrideWrites'
  BY DEF TargetsActive, OpensActive, OverrideWrites, TypeOK, ReadersTypeOK,
         Whole, Healthy
<1> QED
  BY <1>1, <1>2, <1>3, <1>4

LEMMA StutterInv ==
  ASSUME Inv, UNCHANGED vars
  PROVE  Inv'
<1> USE DEF Inv, vars, diskVars, writerVars, readerVars
<1>1. TypeOK' /\ LockOwner' /\ Requests'
  BY DEF TypeOK, DiskTypeOK, RefreshersTypeOK, WritersTypeOK, ReadersTypeOK,
         LockOwner, Requests, refresherVars
<1>2. OwnIds' /\ OwnPlaces' /\ OwnDamage' /\ OwnContents' /\ NoLostActivation' /\ ActiveOnDisk'
  BY RefreshersUndisturbed
<1>3. TargetsActive' /\ OpensActive' /\ OverrideWrites'
  BY DEF TargetsActive, OpensActive, OverrideWrites, Whole, Healthy
<1> QED
  BY <1>1, <1>2, <1>3

-----------------------------------------------------------------------------
(* The invariant is inductive: one lemma above for each action.            *)
LEMMA NextInv == Inv /\ [Next]_vars => Inv'
<1> SUFFICES ASSUME Inv, [Next]_vars PROVE Inv'
  OBVIOUS
<1>1. CASE RefresherStep
  <2> SUFFICES ASSUME NEW r \in Refreshers, Refresh(r), UNCHANGED <<writerVars, readerVars>>
               PROVE  Inv'
    BY <1>1 DEF RefresherStep
  <2> QED
    BY BeginInv, ImportInv, MaterializeInv, AbandonInv, AcquireLockInv, ResolveInv,
       RefuseInv, CancelAcquireInv, CarryCrosswalkInv, WriteMarkerInv, MoveInInv, BreakMoveInv, InstallInv, ActivateInv, PruneInv, FailInv,
       HandleInv, ReleaseInv, CleanupInv, CrashInv
    DEF Refresh, Proceed
<1>2. CASE WriterStep
  <2> SUFFICES ASSUME NEW w \in Writers, Write(w), UNCHANGED <<refresherVars, readerVars>>
               PROVE  Inv'
    BY <1>2 DEF WriterStep
  <2> QED
    BY StartWriteInv, StoreCrosswalksInv, CommitOverrideInv, WriteYamlInv, FailWriteInv,
       EndWriteInv
    DEF Write, ProceedWrite, FinishWrite, CrashWrite
<1>3. CASE ReaderStep
  BY <1>3, ReaderInv DEF ReaderStep
<1>4. CASE UNCHANGED vars
  BY <1>4, StutterInv
<1> QED
  BY <1>1, <1>2, <1>3, <1>4 DEF Next

(***************************************************************************)
(* Inv holds in every reachable state of the system, for every number of   *)
(* processes, snapshots, parts, keys and every retention, and whichever    *)
(* refreshers sleep.                                                       *)
(***************************************************************************)
THEOREM InvHolds == Spec => []Inv
<1>1. Init => Inv
  BY InitInv
<1>2. Inv /\ [Next]_vars => Inv'
  BY NextInv
<1> QED
  BY <1>1, <1>2, PTL DEF Spec

(* Every variable keeps its type.                                          *)
THEOREM TypeCorrect == Spec => []TypeOK
<1>1. Inv => TypeOK
  BY DEF Inv
<1> QED
  BY <1>1, InvHolds, PTL

(***************************************************************************)
(* The snapshot that open_catalog resolved is still active, complete and   *)
(* of the supported schema when it connects.                               *)
(***************************************************************************)
THEOREM OpensActiveAlways == Spec => []OpensActive
<1>1. Inv => OpensActive
  BY DEF Inv
<1> QED
  BY <1>1, InvHolds, PTL

(***************************************************************************)
(* Every bridge write lands in the active snapshot, and that is complete   *)
(* (store_crosswalks, _persist_override, _delete_override), unless a       *)
(* refresh slept.                                                          *)
(***************************************************************************)
THEOREM WritesActiveAlways ==
  ASSUME Punctual
  PROVE  Spec => []WritesActive
<1>1. Inv => WritesActive
  BY DEF Inv, ActiveOnDisk, TargetsActive, Requests, TypeOK, WritersTypeOK,
         WritesActive, Whole
<1> QED
  BY <1>1, InvHolds, PTL

(***************************************************************************)
(* A promotion replaces the pointer it has read: no activation is lost     *)
(* between the two (_promote_snapshot).                                    *)
(***************************************************************************)
THEOREM NoLostActivationAlways == Spec => []NoLostActivation
<1>1. Inv => NoLostActivation
  BY DEF Inv
<1> QED
  BY <1>1, InvHolds, PTL

(***************************************************************************)
(* The active pointer names a completely installed directory at every step *)
(* of every refresh, failure and crash (_promote_snapshot), when no        *)
(* refresh leaves its staging directory untouched for a day.               *)
(***************************************************************************)
THEOREM ActiveInstalledAlways ==
  ASSUME Punctual
  PROVE  Spec => []ActiveInstalled
<1>1. Inv => ActiveInstalled
  BY DEF Inv, ActiveOnDisk, ActiveInstalled, Whole
<1> QED
  BY <1>1, InvHolds, PTL

-----------------------------------------------------------------------------
(***************************************************************************)
(* A step that changes neither the pointer nor what users see of the       *)
(* active database is a stutter of ActiveCatalog.                          *)
(***************************************************************************)
LEMMA SameView ==
  ASSUME UNCHANGED pointer,
         pointer.id \in Snapshots =>
           /\ db'[pointer.id].parts = db[pointer.id].parts
           /\ db'[pointer.id].crosswalk = db[pointer.id].crosswalk
           /\ db'[pointer.id].supported = db[pointer.id].supported
  PROVE  UNCHANGED Abstract!vars
BY DEF Abstract!vars, ActiveId, ActiveDb

(* The step that replaces the pointer file is a replacement.               *)
LEMMA ActivateReplaces ==
  ASSUME Punctual, Inv, NEW r \in Refreshers, Activate(r)
  PROVE  Abstract!Replace
<1> USE DEF Inv, Activate
<1> mine[r] \in Snapshots
  BY OwnSnapshot
<1>1. pointer'.id = mine[r] /\ UNCHANGED db
  BY DEF ProspectivePointer
<1>2. ActiveId' = mine[r] /\ ActiveDb' = db[mine[r]]
  BY <1>1 DEF ActiveId, ActiveDb
<1>3. ActiveId' \in Snapshots \ {ActiveId}
  BY <1>2 DEF OwnPlaces, ActiveId
<1>4. ActiveDb'.supported = TRUE /\ ActiveDb'.parts \in SUBSET Parts
  BY <1>2 DEF OwnContents, OwnContent, TypeOK, DiskTypeOK, Databases
<1>5. ActiveDb'.crosswalk = Carried(pointer.id, mine[r])
  BY <1>2 DEF OwnContents, OwnContent
<1>6. Carried(pointer.id, mine[r]) =
        [e \in Externals |->
           IF ActiveDb.supported /\ ActiveDb.crosswalk[e] \in ActiveDb'.parts
             THEN ActiveDb.crosswalk[e] ELSE None]
  <2>1. CASE pointer.id \in Snapshots
    <3>1. ActiveDb = db[pointer.id] /\ (Healthy(pointer.id) <=> ActiveDb.supported)
      BY <2>1 DEF ActiveDb, ActiveId, Healthy, Whole, ActiveOnDisk
    <3> QED
      BY <1>2, <2>1, <3>1 DEF Carried, NoMappings
  <2>2. CASE pointer.id \notin Snapshots
    <3>1. ActiveDb.crosswalk = NoMappings
      BY <2>2 DEF ActiveDb, ActiveId, BlankDatabase
    <3>2. None \notin ActiveDb'.parts
      BY <1>4
    <3> QED
      BY <2>2, <3>1, <3>2 DEF Carried, NoMappings
  <2> QED
    BY <2>1, <2>2
<1> QED
  BY <1>3, <1>4, <1>5, <1>6 DEF Abstract!Replace

(* The commit of store_crosswalks is an enrichment.                        *)
LEMMA StoreEnriches ==
  ASSUME Inv, NEW w \in Writers, StoreCrosswalks(w)
  PROVE  Abstract!Enrich
<1> USE DEF Inv, StoreCrosswalks
<1>1. wtarget[w] \in Snapshots /\ wop[w].part \in Parts /\ wop[w].externals \in SUBSET Externals
  BY DEF Requests, Writes
<1>2. wtarget[w] = pointer.id
  BY <1>1 DEF TargetsActive
<1>3. ActiveId = wtarget[w] /\ ActiveId' = ActiveId
  BY <1>1, <1>2 DEF ActiveId
<1>4. ActiveDb = db[wtarget[w]] /\ ActiveDb' = db'[wtarget[w]]
  BY <1>1, <1>3 DEF ActiveDb
<1>5. /\ db'[wtarget[w]].parts = db[wtarget[w]].parts
      /\ db'[wtarget[w]].supported = db[wtarget[w]].supported
      /\ db'[wtarget[w]].crosswalk =
           Confirm(db[wtarget[w]].crosswalk, wop[w].part, wop[w].externals)
  BY <1>1 DEF TypeOK, DiskTypeOK, Databases
<1>6. ActiveDb'.crosswalk =
        [e \in Externals |->
           IF e \in wop[w].externals THEN wop[w].part
           ELSE IF ActiveDb.crosswalk[e] = wop[w].part THEN None
           ELSE ActiveDb.crosswalk[e]]
  BY <1>4, <1>5 DEF Confirm
<1>7. /\ ActiveId \in Snapshots
      /\ ActiveDb'.supported = ActiveDb.supported
      /\ ActiveDb'.parts = ActiveDb.parts
  BY <1>1, <1>3, <1>4, <1>5
<1> QED
  BY <1>1, <1>3, <1>6, <1>7 DEF Abstract!Enrich

(***************************************************************************)
(* No step of a refresher but the replacement of the pointer changes which *)
(* database is active, and none changes that database.                     *)
(***************************************************************************)
LEMMA ActiveUntouched ==
  ASSUME Inv, NEW r \in Refreshers, Refresh(r), ~Activate(r)
  PROVE  UNCHANGED pointer /\ (pointer.id \in Snapshots => db'[pointer.id] = db[pointer.id])
<1> USE DEF Inv
<1>1. UNCHANGED pointer
  BY DEF Refresh, Proceed, Begin, Import, Materialize, Abandon, AcquireLock,
         CancelAcquire, Resolve, Refuse, CarryCrosswalk, WriteMarker, MoveIn, BreakMove,
         Install, Prune, Fail, Handle, Release, Cleanup, Crash, diskVars
<1>2. ASSUME pointer.id \in Snapshots PROVE db'[pointer.id] = db[pointer.id]
  <2>1. pointer.id \in Installed
    BY <1>2 DEF ActiveOnDisk, Installed
  <2>2. CASE Import(r) \/ Materialize(r)
    BY <2>1, <2>2, <1>2 DEF Import, Materialize, Installed, TypeOK, DiskTypeOK
  <2>7. CASE CarryCrosswalk(r)
    BY <2>1, <2>7, <1>2 DEF CarryCrosswalk, Installed, TypeOK, DiskTypeOK
  <2>8. CASE Begin(r)
    BY <2>1, <2>8, <1>2 DEF Begin, RemoveContents, Stale, Installed
  <2>3. CASE Prune(r)
    <3>1. pointer.id \notin Doomed(pointer)
      BY <2>1 DEF Doomed, Kept, Installed
    <3> QED
      BY <1>2, <2>3, <3>1 DEF Prune, TryRemoveTrees, RemoveTrees, RemoveContents
  <2>4. CASE Handle(r)
    BY <1>2, <2>4 DEF Handle, TryRemoveTrees, RemoveTrees, RemoveContents
  <2>5. CASE Cleanup(r)
    BY <1>2, <2>1, <2>5 DEF Cleanup, RemoveTrees, RemoveContents, Installed
  <2>6. CASE UNCHANGED db
    BY <2>6
  <2> QED
    BY <2>2, <2>3, <2>4, <2>5, <2>6, <2>7, <2>8
    DEF Refresh, Proceed, Abandon, AcquireLock, CancelAcquire, Resolve, Refuse,
        WriteMarker, MoveIn, BreakMove, Move, Install, Fail, Release, Crash, Activate,
        diskVars
<1> QED
  BY <1>1, <1>2

(* So each of them is invisible, pruning included.                         *)
LEMMA RefresherStutters ==
  ASSUME Inv, NEW r \in Refreshers, Refresh(r), ~Activate(r)
  PROVE  UNCHANGED Abstract!vars
BY ActiveUntouched, SameView

(* Every other step of a writer is invisible, overrides included.          *)
LEMMA WriterStutters ==
  ASSUME Inv, NEW w \in Writers, Write(w), ~StoreCrosswalks(w)
  PROVE  UNCHANGED Abstract!vars
<1> USE DEF Inv
<1>1. UNCHANGED pointer
  BY DEF Write, ProceedWrite, StartWrite, CommitOverride, WriteYaml, FailWrite,
         FinishWrite, CrashWrite, EndWrite, diskVars
<1>2. ASSUME pointer.id \in Snapshots
      PROVE  /\ db'[pointer.id].parts = db[pointer.id].parts
             /\ db'[pointer.id].crosswalk = db[pointer.id].crosswalk
             /\ db'[pointer.id].supported = db[pointer.id].supported
  <2>1. CASE CommitOverride(w)
    BY <1>2, <2>1 DEF CommitOverride, TypeOK, DiskTypeOK, Databases
  <2>2. CASE UNCHANGED db
    BY <2>2
  <2> QED
    BY <2>1, <2>2 DEF Write, ProceedWrite, StartWrite, WriteYaml, FailWrite,
         FinishWrite, CrashWrite, EndWrite, diskVars
<1> QED
  BY <1>1, <1>2, SameView

(* Readers change nothing.                                                 *)
LEMMA ReaderStutters ==
  ASSUME NEW c \in Readers, Open(c)
  PROVE  UNCHANGED Abstract!vars
<1>1. UNCHANGED <<pointer, db>>
  BY DEF Open, ProceedOpen, StartOpen, StartUnlocked, ResolveActive, Connect, FailOpen,
         Close, CrashOpen,
         EndOpen, diskVars
<1> QED
  BY <1>1, SameView

(* The initial states map to initial states.                               *)
LEMMA InitAbstract == Init => Abstract!Init
<1> SUFFICES ASSUME Init PROVE Abstract!Init
  OBVIOUS
<1>1. PICK kind \in Origins, s \in Snapshots : Origin(kind, s)
  BY DEF Init, DiskInit
<1>2. Inv
  BY InitInv
<1>3. ActiveId \in Snapshots \cup {None}
  BY DEF ActiveId
<1>4. ActiveDb \in Databases
  BY <1>2
  DEF ActiveDb, ActiveId, Inv, TypeOK, DiskTypeOK, BlankDatabase, Databases,
              NoMappings, NoOverrides
<1>5. ActiveDb.crosswalk = NoMappings
  <2>1. \A d \in OriginDatabase(kind) : d.crosswalk = NoMappings
    BY DEF OriginDatabase, BlankDatabase
  <2>2. \A t \in Snapshots : db[t].crosswalk = NoMappings
    BY <1>1, <2>1 DEF Origin, BlankDatabase
  <2> QED
    BY <2>2 DEF ActiveDb, ActiveId, BlankDatabase
<1> QED
  BY <1>3, <1>4, <1>5 DEF Abstract!Init, Databases, NoMappings

(***************************************************************************)
(* The system implements ActiveCatalog: what a user sees of the catalog    *)
(* changes only by whole replacements that keep the confirmed mappings of  *)
(* every part that is still there, and by enrichments, in whatever order   *)
(* refreshers, writers and crashes interleave, when no refresh sleeps.     *)
(***************************************************************************)
THEOREM CatalogImplements ==
  ASSUME Punctual
  PROVE  Spec => ImplementsActiveCatalog
<1>1. Init => Abstract!Init
  BY InitAbstract
<1>2. Inv /\ [Next]_vars => [Abstract!Next]_Abstract!vars
  <2> SUFFICES ASSUME Inv, [Next]_vars PROVE [Abstract!Next]_Abstract!vars
    OBVIOUS
  <2>1. CASE RefresherStep
    BY <2>1, ActivateReplaces, RefresherStutters
    DEF RefresherStep, Abstract!Next
  <2>2. CASE WriterStep
    BY <2>2, StoreEnriches, WriterStutters DEF WriterStep, Abstract!Next
  <2>3. CASE ReaderStep
    BY <2>3, ReaderStutters DEF ReaderStep
  <2>4. CASE UNCHANGED vars
    BY <2>4, SameView DEF vars, diskVars
  <2> QED
    BY <2>1, <2>2, <2>3, <2>4 DEF Next
<1> QED
  BY <1>1, <1>2, InvHolds, PTL DEF Spec, ImplementsActiveCatalog, Abstract!Spec

(***************************************************************************)
(* The YAML file never says more than the active database: when it changes *)
(* an entry, the active database already has it (_persist_override).       *)
(***************************************************************************)
THEOREM YamlFollows == Spec => YamlFollowsDatabase
<1>1. ASSUME Inv, [Next]_vars, NEW k \in Keys, yaml'[k] # yaml[k], pointer.id \in Snapshots
      PROVE  db[pointer.id].overrides[k] = yaml'[k]
  <2>1. PICK w \in Writers : WriteYaml(w)
    BY <1>1
   
    DEF Next, RefresherStep, WriterStep, ReaderStep, Refresh, Proceed, Write,
        ProceedWrite, Open, ProceedOpen, Begin, Import, Materialize, Abandon, AcquireLock,
        CancelAcquire, Resolve, Refuse, CarryCrosswalk, WriteMarker, Install, MoveIn,
        BreakMove, Activate, Prune, Fail, Handle, Release, Cleanup, Crash, StartWrite,
        StoreCrosswalks, CommitOverride, FailWrite, FinishWrite, CrashWrite, EndWrite,
        StartOpen, StartUnlocked, ResolveActive, Connect, FailOpen, Close, CrashOpen,
        EndOpen, diskVars, vars
  <2>2. k = wop[w].key /\ yaml'[k] = Entry(wop[w])
    BY <1>1, <2>1 DEF WriteYaml, Inv, TypeOK, DiskTypeOK
  <2> QED
    BY <1>1, <2>1, <2>2 DEF WriteYaml, Inv, OverrideWrites
<1>2. Inv /\ [Next]_vars =>
        [\A k \in Keys : yaml'[k] # yaml[k] /\ pointer.id \in Snapshots =>
           db[pointer.id].overrides[k] = yaml'[k]]_vars
  BY <1>1
<1> QED
  BY <1>2, InvHolds, PTL DEF Spec, YamlFollowsDatabase
=============================================================================
