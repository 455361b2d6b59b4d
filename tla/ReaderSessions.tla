---------------------------- MODULE ReaderSessions ---------------------------
(***************************************************************************)
(* open_catalog: a session resolves the active snapshot, verifies it and   *)
(* connects to its database, all under the promotion lock; the connection  *)
(* then stays on that database until the session closes it.  A session     *)
(* that does not get the lock in time raises and stays closed.  One that   *)
(* finds no directory for the lock file goes on without the lock.          *)
(*                                                                         *)
(*   closed -> locked -> resolved -> open -> closed                        *)
(*   closed -> unlocked -> glimpsed -> open -> closed                      *)
(***************************************************************************)
EXTENDS CatalogDisk

VARIABLES
  rpc,   \* where each session is
  pin    \* the snapshot it resolved, or None

readerVars == <<rpc, pin>>

ReadersTypeOK ==
  /\ rpc \in [Readers -> {"closed", "locked", "resolved", "unlocked", "glimpsed", "open"}]
  /\ pin \in [Readers -> Snapshots \cup {None}]

StartOpen(c) ==
  /\ rpc[c] = "closed"
  /\ home = "present"
  /\ lock = None
  /\ lock' = c
  /\ rpc' = [rpc EXCEPT ![c] = "locked"]
  /\ UNCHANGED <<pointer, place, damaged, marker, db, yaml, used, home, pin>>

(* There is no directory to lock in yet, so nothing is locked. *)
StartUnlocked(c) ==
  /\ rpc[c] = "closed"
  /\ home = "missing"
  /\ rpc' = [rpc EXCEPT ![c] = "unlocked"]
  /\ UNCHANGED <<diskVars, pin>>

(* Mutant: the lock is released once the snapshot is resolved. *)
ResolveAndRelease(c) ==
  /\ rpc[c] = "locked"
  /\ pointer.id \in Snapshots
  /\ Healthy(pointer.id)
  /\ pin' = [pin EXCEPT ![c] = pointer.id]
  /\ rpc' = [rpc EXCEPT ![c] = "resolved"]
  /\ lock' = None
  /\ UNCHANGED <<pointer, place, damaged, marker, db, yaml, used, home>>

(* catalog_state(verify=True) classifies the pointer's target as READY. *)
ResolveActive(c) ==
  /\ \/ rpc[c] = "locked" /\ rpc' = [rpc EXCEPT ![c] = "resolved"]
     \/ rpc[c] = "unlocked" /\ rpc' = [rpc EXCEPT ![c] = "glimpsed"]
  /\ pointer.id \in Snapshots
  /\ Healthy(pointer.id)
  /\ pin' = [pin EXCEPT ![c] = pointer.id]
  /\ UNCHANGED diskVars

Connect(c) ==
  /\ rpc[c] \in {"resolved", "glimpsed"}
  /\ place[pin[c]] = "installed"
  /\ rpc' = [rpc EXCEPT ![c] = "open"]
  /\ lock' = IF lock = c THEN None ELSE lock
  /\ UNCHANGED <<pointer, place, damaged, marker, db, yaml, used, home, pin>>

EndOpen(c) ==
  /\ rpc' = [rpc EXCEPT ![c] = "closed"]
  /\ pin' = [pin EXCEPT ![c] = None]
  /\ lock' = IF lock = c THEN None ELSE lock
  /\ UNCHANGED <<pointer, place, damaged, marker, db, yaml, used, home>>

(* No catalog, another schema, a damaged one, a cancellation: the lock is  *)
(* released and the error raised.                                          *)
FailOpen(c) ==
  rpc[c] \in {"locked", "resolved", "unlocked", "glimpsed"} /\ EndOpen(c)

Close(c) == rpc[c] = "open" /\ EndOpen(c)

CrashOpen(c) == c \in MayCrash /\ rpc[c] # "closed" /\ EndOpen(c)

ProceedOpen(c) == ResolveActive(c) \/ Connect(c) \/ FailOpen(c)

Open(c) ==
  \/ StartOpen(c) \/ StartUnlocked(c) \/ ProceedOpen(c)
  \/ Close(c) \/ CrashOpen(c)

ReadersInit ==
  /\ rpc = [c \in Readers |-> "closed"]
  /\ pin = [c \in Readers |-> None]
=============================================================================
