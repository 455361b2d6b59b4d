----------------------------- MODULE CatalogStatus -----------------------------
(***************************************************************************)
(* How a catalog is inspected and verified (database.py), and what a       *)
(* refresh makes of it: whether the cached API mappings of the catalog it  *)
(* replaces are carried over, skipped, or stop it.                         *)
(*                                                                         *)
(* A case is what is on disk: the pointer, whether the database is inside  *)
(* its snapshot, the manifest, and the database as it is before and from   *)
(* an instant on.  A refresh looks at the database at three instants when  *)
(* it begins, 1 to 3, and under the lock, when nobody changes it any more, *)
(* at the instant 4.                                                       *)
(***************************************************************************)
EXTENDS Integers, FiniteSets

CONSTANT None

Healths == {"missing", "corrupt", "incompatible", "failing", "healthy", "hot"}

Databases ==
  [health   : Healths,
   identity : Int,
   recovers : {"healthy", "corrupt", "incompatible", "failing"}]

Manifests ==
  [file     : {"sound", "invalid", "missing", "special", "failing"},
   schema   : {"supported", "other"},
   identity : Int \cup {None}]

(* The snapshot that a pointer names was contained when it was read. *)
Cases ==
  {c \in [pointer   : {"none", "failing", "oversized", "invalid", "escaping", "snapshot"},
          contained : BOOLEAN, manifest : Manifests, before : Databases, after : Databases,
          edit      : Nat] :
     c.pointer = "snapshot" => c.contained}

(* What a verification finds: a status, the identity of a healthy database *)
(* and, where it can be used again, the signature.                         *)
Verifications ==
  [status : Healths, identity : Int \cup {None}, signature : Int \cup {None}]

Locked == 4

Db(case, t) == IF t < case.edit THEN case.before ELSE case.after

(* _database_signature: it changes with the database. *)
Signature(case, t) == IF t < case.edit THEN 1 ELSE 2

Gone(case, t) == Db(case, t).health = "missing"

(* A hot journal, or a failure, is an exception, which leaves no signature *)
(* behind; neither does a database that changed meanwhile.                 *)
VerifyDatabase(case, sign, read, after) ==
  LET db == Db(case, read)
  IN  IF \E t \in {sign, read, after} : Gone(case, t)
        THEN [status |-> "missing", identity |-> None, signature |-> None]
      ELSE [status    |-> db.health,
            identity  |-> IF db.health = "healthy" THEN db.identity ELSE None,
            signature |-> IF /\ db.health \notin {"hot", "failing"}
                             /\ Signature(case, sign) = Signature(case, after)
                            THEN Signature(case, after) ELSE None]

VerifyAt(case, t) == IF t = Locked THEN VerifyDatabase(case, t, t, t)
                     ELSE VerifyDatabase(case, t, t + 1, t + 2)

(* Mutant: a healthy database stays healthy. *)
ReusableUnsigned(case, verification, t, negative) ==
  verification # None /\ verification.status = "healthy"

(* _verification_reusable *)
Reusable(case, verification, t, negative) ==
  /\ verification # None
  /\ \/ verification.status = "healthy"
     \/ negative /\ verification.status \in {"corrupt", "incompatible"}
  /\ verification.signature # None
  /\ ~Gone(case, t) /\ verification.signature = Signature(case, t)

(* _CacheEligibility: the identity that a manifest has, also one that is   *)
(* invalid otherwise; None if there is none.                               *)
Eligibility(manifest) ==
  IF manifest.file \in {"sound", "invalid"} THEN manifest.identity ELSE None

(* Why cached mappings are not copied (_CacheEligibility.reason). *)
Ineligible(identity, verification) ==
  /\ verification # None
  /\ \/ verification.status \in {"incompatible", "missing", "corrupt"}
     \/ /\ verification.status = "healthy"
        /\ identity \notin {None, verification.identity}

-----------------------------------------------------------------------------
(* _inspect_catalog, of a pointer that names a snapshot: the first of      *)
(* these obstacles makes the status; what the database is takes precedence *)
(* where it is known (unavailable).                                        *)
InspectSnapshot(case, verification, identity, t) ==
  LET manifest == case.manifest
      Is(status) == verification # None /\ verification.status = status
      Result(status, error, v) ==
        [status |-> status, error |-> error, verification |-> v, identity |-> identity]
      Unavailable(status, error) ==
        Result(IF Is("incompatible") THEN "schema_mismatch" ELSE status,
               error \/ Is("failing"), verification)
  IN  IF manifest.file = "missing"
        THEN Unavailable(IF Gone(case, t) THEN "unreadable" ELSE "import_required", FALSE)
      ELSE IF manifest.file # "sound" THEN Unavailable("unreadable", manifest.file = "failing")
      ELSE IF Is("incompatible") \/ Is("failing") THEN Unavailable("unreadable", FALSE)
      ELSE IF manifest.schema # "supported"
        THEN Result("schema_mismatch", FALSE, verification)
      ELSE IF Gone(case, t)
        THEN Result("unreadable", FALSE,
                    [status |-> "missing", identity |-> None, signature |-> None])
      ELSE IF verification # None /\ (~Is("healthy") \/ Ineligible(identity, verification))
        THEN Unavailable("unreadable", FALSE)
      ELSE Result("ready", FALSE, verification)

(* A given verification is used as long as it can be; one is made at once  *)
(* if the caller asks for it.                                              *)
InspectCatalog(case, verify, verification, t) ==
  LET used == IF verify \/ (verification # None /\ ~Reusable(case, verification, t, FALSE))
                THEN VerifyAt(case, t) ELSE verification
      Early(status, error) == [status |-> status, error |-> error,
                               verification |-> verification, identity |-> None]
  IN  CASE case.pointer = "none"     -> Early("missing", FALSE)
        [] case.pointer = "snapshot" ->
             InspectSnapshot(case, used, Eligibility(case.manifest), t)
        [] OTHER                     -> Early("unreadable", case.pointer = "failing")

-----------------------------------------------------------------------------
(* activation_id: which snapshot is active is known also if it escapes the *)
(* directory of the snapshots.                                             *)
ActivationKnown(case) == case.pointer \in {"snapshot", "escaping"}

(* _copy_crosswalk: the transaction checks the identity again; a hot       *)
(* journal is rolled back first.  It does not check the pages.             *)
CopyCrosswalk(case, identity) ==
  LET db     == Db(case, Locked)
      source == IF db.health = "hot" THEN db.recovers ELSE db.health
  IN  IF source = "failing" THEN "aborted"
      ELSE IF source \in {"missing", "incompatible"} THEN "skipped"
      ELSE IF db.health = "hot" /\ source = "corrupt" THEN "skipped"
      ELSE IF identity \notin {None, db.identity} THEN "skipped"
      ELSE "carried"

(* _promote_snapshot, the part before the directory is moved. *)
CarryMappings(case, inspection) ==
  LET used == IF Reusable(case, inspection.verification, Locked, TRUE)
                THEN inspection.verification ELSE VerifyAt(case, Locked)
  IN  IF ~ActivationKnown(case) THEN "nothing"
      ELSE IF ~case.contained THEN "skipped"
      ELSE IF used.status = "failing" THEN "aborted"
      ELSE IF Ineligible(inspection.identity, used) THEN "skipped"
      ELSE CopyCrosswalk(case, inspection.identity)

(* _refresh_attempt: what it verified at its beginning is used under the   *)
(* lock if it was healthy; and a READY catalog is verified there at last.  *)
RefreshOver(case) ==
  LET prior  == InspectCatalog(case, TRUE, None, 1)
      kept   == IF /\ case.pointer = "snapshot" /\ prior.verification # None
                   /\ prior.verification.status = "healthy"
                  THEN prior.verification ELSE None
      first  == InspectCatalog(case, FALSE, kept, Locked)
      second == IF first.status = "ready" /\ first.verification = None
                  THEN InspectCatalog(case, TRUE, None, Locked) ELSE first
  IN  IF case.pointer = "oversized" \/ prior.error \/ second.error THEN "aborted"
      ELSE CarryMappings(case, second)
================================================================================
