------------------------------ MODULE Promotion ------------------------------
(***************************************************************************)
(* refresh_catalog: building a snapshot in a private staging directory and *)
(* promoting it.  Each refresher is a process (or a task) that runs one    *)
(* _refresh_attempt after another.  Up to "ready" it works in its staging  *)
(* directory without the lock; from "locked" to "release" it holds the     *)
(* promotion lock, and _promote_snapshot runs in a worker thread that a    *)
(* cancellation waits for.                                                 *)
(*                                                                         *)
(*   fetching -> imported -> ready -> locked -> resolved -> carried        *)
(*     -> prepared -> moved -> installed -> activated -> release           *)
(*     -> cleanup -> idle                                                  *)
(*                                                                         *)
(* A failure before the lock goes to "cleanup"; one inside                 *)
(* _promote_snapshot goes to "handling", its except clause.                *)
(***************************************************************************)
EXTENDS CatalogDisk

VARIABLES
  pc,     \* where each refresher is
  mine,   \* the snapshot id of its attempt
  base    \* the pointer it read under the lock

refresherVars == <<pc, mine, base>>
promotionVars == <<diskVars, refresherVars>>

BeforeLock == {"fetching", "imported", "ready"}
Promoting  == {"resolved", "carried", "prepared", "moved", "installed", "activated"}
Holding    == Promoting \cup {"locked", "handling", "release"}
Stages     == BeforeLock \cup Holding \cup {"idle", "cleanup"}

RefreshersTypeOK ==
  /\ pc \in [Refreshers -> Stages]
  /\ mine \in [Refreshers -> Snapshots \cup {None}]
  /\ base \in [Refreshers -> Pointers]

PromotionTypeOK == DiskTypeOK /\ RefreshersTypeOK

Move(r, from, to) ==
  /\ pc[r] = from
  /\ pc' = [pc EXCEPT ![r] = to]

(***************************************************************************)
(* No attempt sleeps for a day while its staging directory is in use.      *)
(***************************************************************************)
Punctual == Sleepers = {}

-----------------------------------------------------------------------------
(* Building the candidate *)

(***************************************************************************)
(* _prune_abandoned_staging takes a directory that nothing has touched for *)
(* a day for abandoned: what earlier attempts left, and the directory of a *)
(* running one that slept.                                                 *)
(***************************************************************************)
Stale ==
  {t \in Snapshots : /\ place[t] = "staging"
                     /\ \A q \in Refreshers \ Sleepers : mine[q] # t}

InUse == {mine[q] : q \in Refreshers}

(***************************************************************************)
(* An attempt draws its id, removes stale staging directories and makes    *)
(* its own.  A removal may fail part-way or before it began; what is left  *)
(* in a directory that no attempt will use again is not kept track of.     *)
(* The preflight checks that end an attempt here change nothing.           *)
(***************************************************************************)
Begin(r) ==
  /\ Move(r, "idle", "fetching")
  /\ \E s \in Snapshots \ used, gone \in SUBSET Stale :
       \E broken \in SUBSET ((Stale \cap InUse) \ gone) :
         \E lost \in SUBSET broken :
           /\ mine' = [mine EXCEPT ![r] = s]
           /\ used' = used \cup {s}
           /\ place' = [PlacesWithout(gone) EXCEPT ![s] = "staging"]
           /\ RemoveContents(gone, broken, lost)
  /\ UNCHANGED <<pointer, yaml, lock, home, base>>

(***************************************************************************)
(* Twelve archives downloaded (or reused after a 304) and imported in one  *)
(* transaction: the staging database holds some data set, no crosswalk.    *)
(* It needs all of them: an archive that was removed is an error.          *)
(***************************************************************************)
Import(r) ==
  /\ Move(r, "fetching", "imported")
  /\ place[mine[r]] = "staging" /\ mine[r] \notin damaged
  /\ \E parts \in SUBSET Parts :
       db' = [db EXCEPT ![mine[r]] = [BlankDatabase EXCEPT !.parts = parts]]
  /\ UNCHANGED <<pointer, place, damaged, marker, yaml, lock, used, home, mine, base>>

(***************************************************************************)
(* materialize_overrides copies the YAML file into the staging database,   *)
(* the manifest is written and the snapshots directory made.  Nothing here *)
(* holds the lock.  A staging directory that the manifest alone makes      *)
(* again has no database for CarryCrosswalk, and the attempt fails there.  *)
(***************************************************************************)
Materialize(r) ==
  /\ Move(r, "imported", "ready")
  /\ place[mine[r]] = "staging"
  /\ db' = [db EXCEPT ![mine[r]].overrides = yaml]
  /\ home' = "present"
  /\ UNCHANGED <<pointer, place, damaged, marker, yaml, lock, used, mine, base>>

(* Mutant: the wait for the lock has no timeout. *)
AbandonUntimed(r) ==
  /\ pc[r] \in BeforeLock \ {"ready"}
  /\ pc' = [pc EXCEPT ![r] = "cleanup"]
  /\ UNCHANGED <<diskVars, mine, base>>

(***************************************************************************)
(* The attempt ends before it has the lock: a download, header, import or  *)
(* file error, all twelve archives unchanged, a cancellation, or the lock  *)
(* timeout.                                                                *)
(***************************************************************************)
Abandon(r) ==
  /\ pc[r] \in BeforeLock
  /\ pc' = [pc EXCEPT ![r] = "cleanup"]
  /\ UNCHANGED <<diskVars, mine, base>>

-----------------------------------------------------------------------------
(* Promoting it *)

(* Mutant: the attempt goes on without the lock after waiting for it. *)
AcquireLockAnyway(r) ==
  /\ Move(r, "ready", "locked")
  /\ lock' = r
  /\ UNCHANGED <<pointer, place, damaged, marker, db, yaml, used, home, mine, base>>

AcquireLock(r) ==
  /\ Move(r, "ready", "locked")
  /\ lock = None
  /\ lock' = r
  /\ UNCHANGED <<pointer, place, damaged, marker, db, yaml, used, home, mine, base>>

(* Mutant: a cancellation does not wait for the thread that takes the lock. *)
CancelUnsettled(r) ==
  /\ Move(r, "ready", "cleanup")
  /\ lock = None
  /\ lock' = r
  /\ UNCHANGED <<pointer, place, damaged, marker, db, yaml, used, home, mine, base>>

(***************************************************************************)
(* The task is cancelled while lock.acquire runs in a thread, which goes   *)
(* on: settle() waits for it, and acquire_lock gives back what it got.  A  *)
(* thread that does not get the lock in time is an Abandon.                *)
(***************************************************************************)
CancelAcquire(r) ==
  /\ Move(r, "ready", "release")
  /\ lock = None
  /\ lock' = r
  /\ UNCHANGED <<pointer, place, damaged, marker, db, yaml, used, home, mine, base>>

(* The pointer is read again under the lock, and its catalog inspected. *)
Resolve(r) ==
  /\ Move(r, "locked", "resolved")
  /\ base' = [base EXCEPT ![r] = pointer]
  /\ UNCHANGED <<diskVars, mine>>

(* The inspection meets an operational error, or the caller is cancelled. *)
Refuse(r) ==
  /\ Move(r, "locked", "release")
  /\ UNCHANGED <<diskVars, mine, base>>

(* Mutant: the mappings of parts that are gone are carried too. *)
CarriedUnfiltered(source, target) ==
  IF source \in Snapshots /\ Healthy(source) THEN db[source].crosswalk ELSE NoMappings

(***************************************************************************)
(* _carry_crosswalk: the mappings of the active snapshot whose canonical   *)
(* id the candidate also has.  A source that does not verify is skipped.   *)
(***************************************************************************)
Carried(source, target) ==
  IF source \in Snapshots /\ Healthy(source)
    THEN [e \in Externals |->
            IF db[source].crosswalk[e] \in db[target].parts
              THEN db[source].crosswalk[e]
              ELSE None]
    ELSE NoMappings

CarryCrosswalk(r) ==
  /\ Move(r, "resolved", "carried")
  /\ place[mine[r]] = "staging"
  /\ db' = [db EXCEPT ![mine[r]].crosswalk = Carried(base[r].id, mine[r])]
  /\ UNCHANGED <<pointer, place, damaged, marker, yaml, lock, used, home, mine, base>>

(***************************************************************************)
(* _atomic_json makes the directories above the marker: a staging          *)
(* directory that was removed meanwhile is there again, with nothing in it *)
(* but the marker.                                                         *)
(***************************************************************************)
WriteMarker(r) ==
  /\ Move(r, "carried", "prepared")
  /\ place' = [place EXCEPT ![mine[r]] = "staging"]
  /\ damaged' = damaged \cup {s \in {mine[r]} : place[s] = "absent"}
  /\ marker' = [marker EXCEPT ![mine[r]] = ProvenGeneration(base[r], mine[r])]
  /\ UNCHANGED <<pointer, db, yaml, lock, used, home, mine, base>>

MoveIn(r) ==
  /\ Move(r, "prepared", "moved")
  /\ place[mine[r]] = "staging"
  /\ place' = [place EXCEPT ![mine[r]] = "incoming"]
  /\ UNCHANGED <<pointer, damaged, marker, db, yaml, lock, used, home, mine, base>>

(* shutil.move copies between file systems, and can stop half-way.         *)
BreakMove(r) ==
  /\ Move(r, "prepared", "handling")
  /\ place[mine[r]] = "staging"
  /\ place' = [place EXCEPT ![mine[r]] = "incoming"]
  /\ damaged' = damaged \cup {mine[r]}
  /\ UNCHANGED <<pointer, marker, db, yaml, lock, used, home, mine, base>>

Install(r) ==
  /\ Move(r, "moved", "installed")
  /\ place' = [place EXCEPT ![mine[r]] = "installed"]
  /\ UNCHANGED <<pointer, damaged, marker, db, yaml, lock, used, home, mine, base>>

(* The pointer file is replaced atomically: the candidate is active. *)
Activate(r) ==
  /\ Move(r, "installed", "activated")
  /\ pointer' = ProspectivePointer(base[r], mine[r])
  /\ UNCHANGED <<place, damaged, marker, db, yaml, lock, used, home, mine, base>>

Prune(r) ==
  /\ Move(r, "activated", "release")
  /\ IF pointer.id = mine[r]
       THEN TryRemoveTrees(Doomed(pointer))
       ELSE UNCHANGED <<place, damaged, marker, db>>
  /\ UNCHANGED <<pointer, yaml, lock, used, home, mine, base>>

(***************************************************************************)
(* Any step of _promote_snapshot may raise, before or after its effect:    *)
(* os.replace can succeed and the fsync of its directory fail.             *)
(***************************************************************************)
Fail(r) ==
  /\ pc[r] \in Promoting
  /\ pc' = [pc EXCEPT ![r] = "handling"]
  /\ UNCHANGED <<diskVars, mine, base>>

(* Mutant: a failed promotion always removes what it installed. *)
HandleAlways(r) ==
  /\ Move(r, "handling", "release")
  /\ IF place[mine[r]] = "installed"
       THEN TryRemoveTrees({mine[r]})
       ELSE UNCHANGED <<place, damaged, marker, db>>
  /\ UNCHANGED <<pointer, yaml, lock, used, home, mine, base>>

(***************************************************************************)
(* The except clause removes an installed candidate only if the pointer    *)
(* proves it inactive: a pointer that cannot be read proves nothing.       *)
(***************************************************************************)
Handle(r) ==
  /\ Move(r, "handling", "release")
  /\ IF pointer.id \notin {Corrupt, mine[r]} /\ place[mine[r]] = "installed"
       THEN TryRemoveTrees({mine[r]})
       ELSE UNCHANGED <<place, damaged, marker, db>>
  /\ UNCHANGED <<pointer, yaml, lock, used, home, mine, base>>

Release(r) ==
  /\ Move(r, "release", "cleanup")
  /\ lock' = None
  /\ UNCHANGED <<pointer, place, damaged, marker, db, yaml, used, home, mine, base>>

(***************************************************************************)
(* The staging and incoming directories are removed, after the lock.       *)
(* Errors are ignored, and a second cancellation can skip the removal.     *)
(***************************************************************************)
Forget(r) ==
  /\ mine' = [mine EXCEPT ![r] = None]
  /\ base' = [base EXCEPT ![r] = NoPointer]

Cleanup(r) ==
  /\ Move(r, "cleanup", "idle")
  /\ \/ /\ place[mine[r]] \in {"staging", "incoming"}
        /\ RemoveTrees({mine[r]}, {}, {})
     \/ UNCHANGED <<place, damaged, marker, db>>
  /\ Forget(r)
  /\ UNCHANGED <<pointer, yaml, lock, used, home>>

(* The process dies: the system drops its lock, its files stay. *)
Crash(r) ==
  /\ r \in MayCrash
  /\ pc[r] # "idle"
  /\ pc' = [pc EXCEPT ![r] = "idle"]
  /\ lock' = IF lock = r THEN None ELSE lock
  /\ Forget(r)
  /\ UNCHANGED <<pointer, place, damaged, marker, db, yaml, used, home>>

-----------------------------------------------------------------------------
(* The steps a running attempt goes on with by itself. *)
Proceed(r) ==
  \/ Import(r) \/ Materialize(r) \/ Abandon(r)
  \/ AcquireLock(r) \/ CancelAcquire(r) \/ Resolve(r) \/ Refuse(r)
  \/ CarryCrosswalk(r) \/ WriteMarker(r) \/ MoveIn(r) \/ BreakMove(r) \/ Install(r)
  \/ Activate(r) \/ Prune(r)
  \/ Fail(r) \/ Handle(r) \/ Release(r) \/ Cleanup(r)

Refresh(r) == Begin(r) \/ Proceed(r) \/ Crash(r)

RefreshersInit ==
  /\ pc = [r \in Refreshers |-> "idle"]
  /\ mine = [r \in Refreshers |-> None]
  /\ base = [r \in Refreshers |-> NoPointer]

PromotionInit == DiskInit /\ RefreshersInit
PromotionNext == \E r \in Refreshers : Refresh(r)
PromotionSpec == PromotionInit /\ [][PromotionNext]_promotionVars

=============================================================================
