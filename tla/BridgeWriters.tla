---------------------------- MODULE BridgeWriters ----------------------------
(***************************************************************************)
(* The bridge's writes into the active snapshot: store_crosswalks (after   *)
(* enrich_part_mapping or enrich_color_mapping), record_override and       *)
(* delete_override.  Each takes the promotion lock, reads the pointer,     *)
(* commits one transaction to the database the pointer names and, for an   *)
(* override, then replaces the YAML file.  A writer that does not get the  *)
(* lock in time has changed nothing.                                       *)
(*                                                                         *)
(*   idle -> locked -> committed -> release -> idle                        *)
(***************************************************************************)
EXTENDS CatalogDisk

VARIABLES
  wpc,      \* where each writer is
  wop,      \* the write it makes
  wtarget   \* the snapshot it writes to, or None

writerVars == <<wpc, wop, wtarget>>

Writes ==
  [kind : {"store"}, part : Parts, externals : SUBSET Externals] \cup
  [kind : {"record"}, key : Keys, target : Targets] \cup
  [kind : {"delete"}, key : Keys]

NoWrite == [kind |-> "none"]

WritersTypeOK ==
  /\ wpc \in [Writers -> {"idle", "locked", "committed", "release"}]
  /\ wop \in [Writers -> Writes \cup {NoWrite}]
  /\ wtarget \in [Writers -> Snapshots \cup {None}]

(* Mutant: the write does not take the lock. *)
StartWriteUnlocked(w) ==
  /\ wpc[w] = "idle"
  /\ \E op \in Writes :
       /\ op.kind = "store" => pointer.id \in Installed
       /\ wop' = [wop EXCEPT ![w] = op]
       /\ wtarget' = [wtarget EXCEPT ![w] =
                         IF pointer.id \in Installed THEN pointer.id ELSE None]
       /\ wpc' = [wpc EXCEPT ![w] = "locked"]
  /\ UNCHANGED diskVars

(***************************************************************************)
(* Under the lock, whose directory FileLock makes, the writer reads the    *)
(* pointer.  Enrichment needs an active database; an override without one  *)
(* goes to the YAML file only.                                             *)
(***************************************************************************)
StartWrite(w) ==
  /\ wpc[w] = "idle"
  /\ lock = None
  /\ lock' = w
  /\ home' = "present"
  /\ \E op \in Writes :
       LET active == IF pointer.id \in Installed THEN pointer.id ELSE None
       IN  /\ wop' = [wop EXCEPT ![w] = op]
           /\ wtarget' = [wtarget EXCEPT ![w] = active]
           /\ wpc' = [wpc EXCEPT ![w] =
                        IF op.kind = "store" /\ active = None
                          THEN "release" ELSE "locked"]
  /\ UNCHANGED <<pointer, place, damaged, marker, db, yaml, used>>

(***************************************************************************)
(* store_crosswalks: the confirmed ids replace the part's earlier ones,    *)
(* and are taken from whatever part had them.                              *)
(***************************************************************************)
Confirm(crosswalk, part, externals) ==
  [e \in Externals |->
     IF e \in externals THEN part
     ELSE IF crosswalk[e] = part THEN None
     ELSE crosswalk[e]]

StoreCrosswalks(w) ==
  /\ wpc[w] = "locked"
  /\ wop[w].kind = "store"
  /\ db' = [db EXCEPT ![wtarget[w]].crosswalk =
               Confirm(@, wop[w].part, wop[w].externals)]
  /\ wpc' = [wpc EXCEPT ![w] = "release"]
  /\ UNCHANGED <<pointer, place, damaged, marker, yaml, lock, used, home, wop, wtarget>>

(***************************************************************************)
(* _persist_override and _delete_override: the row of the key is replaced  *)
(* or deleted in the active database, and only then (write_overrides) in   *)
(* the YAML file.                                                          *)
(***************************************************************************)
Entry(op) == IF op.kind = "record" THEN op.target ELSE None

(* Mutant: the YAML file is written first, the database not at all. *)
CommitToYaml(w) ==
  /\ wpc[w] = "locked"
  /\ wop[w].kind # "store"
  /\ yaml' = [yaml EXCEPT ![wop[w].key] = Entry(wop[w])]
  /\ wpc' = [wpc EXCEPT ![w] = "committed"]
  /\ UNCHANGED <<pointer, place, damaged, marker, db, lock, used, home, wop, wtarget>>

CommitOverride(w) ==
  /\ wpc[w] = "locked"
  /\ wop[w].kind # "store"
  /\ db' = IF wtarget[w] = None
             THEN db
             ELSE [db EXCEPT ![wtarget[w]].overrides[wop[w].key] = Entry(wop[w])]
  /\ wpc' = [wpc EXCEPT ![w] = "committed"]
  /\ UNCHANGED <<pointer, place, damaged, marker, yaml, lock, used, home, wop, wtarget>>

WriteYaml(w) ==
  /\ wpc[w] = "committed"
  /\ yaml' = [yaml EXCEPT ![wop[w].key] = Entry(wop[w])]
  /\ wpc' = [wpc EXCEPT ![w] = "release"]
  /\ UNCHANGED <<pointer, place, damaged, marker, db, lock, used, home, wop, wtarget>>

(* The database or the YAML file cannot be written: the error is raised.   *)
FailWrite(w) ==
  /\ wpc[w] \in {"locked", "committed"}
  /\ wpc' = [wpc EXCEPT ![w] = "release"]
  /\ UNCHANGED <<diskVars, wop, wtarget>>

EndWrite(w) ==
  /\ wpc' = [wpc EXCEPT ![w] = "idle"]
  /\ wop' = [wop EXCEPT ![w] = NoWrite]
  /\ wtarget' = [wtarget EXCEPT ![w] = None]
  /\ lock' = None
  /\ UNCHANGED <<pointer, place, damaged, marker, db, yaml, used, home>>

FinishWrite(w) == wpc[w] = "release" /\ EndWrite(w)

CrashWrite(w) == w \in MayCrash /\ wpc[w] # "idle" /\ EndWrite(w)

ProceedWrite(w) ==
  \/ StoreCrosswalks(w) \/ CommitOverride(w) \/ WriteYaml(w)
  \/ FailWrite(w) \/ FinishWrite(w)

Write(w) == StartWrite(w) \/ ProceedWrite(w) \/ CrashWrite(w)

WritersInit ==
  /\ wpc = [w \in Writers |-> "idle"]
  /\ wop = [w \in Writers |-> NoWrite]
  /\ wtarget = [w \in Writers |-> None]
=============================================================================
