---------------------------- MODULE CatalogSystem ----------------------------
(***************************************************************************)
(* Refreshers, bridge writers and reader sessions on one catalog.          *)
(***************************************************************************)
EXTENDS Promotion, BridgeWriters, ReaderSessions

vars == <<diskVars, refresherVars, writerVars, readerVars>>

TypeOK ==
  DiskTypeOK /\ RefreshersTypeOK /\ WritersTypeOK /\ ReadersTypeOK

Init == DiskInit /\ RefreshersInit /\ WritersInit /\ ReadersInit

RefresherStep == \E r \in Refreshers : Refresh(r) /\ UNCHANGED <<writerVars, readerVars>>
WriterStep    == \E w \in Writers : Write(w) /\ UNCHANGED <<refresherVars, readerVars>>
ReaderStep    == \E c \in Readers : Open(c) /\ UNCHANGED <<refresherVars, writerVars>>

Next == RefresherStep \/ WriterStep \/ ReaderStep

Spec == Init /\ [][Next]_vars

(***************************************************************************)
(* Once it runs, an operation goes on: its process takes its steps, and a  *)
(* wait for the lock ends with the lock or with Config.lock_timeout.       *)
(* Nobody has to start one, to fail, to crash or to close a session.       *)
(***************************************************************************)
Fairness ==
  /\ \A r \in Refreshers : WF_vars(Proceed(r) /\ UNCHANGED <<writerVars, readerVars>>)
  /\ \A w \in Writers : WF_vars(ProceedWrite(w) /\ UNCHANGED <<refresherVars, readerVars>>)
  /\ \A c \in Readers : WF_vars(ProceedOpen(c) /\ UNCHANGED <<refresherVars, writerVars>>)

FairSpec == Spec /\ Fairness

-----------------------------------------------------------------------------
(***************************************************************************)
(* The active pointer always names a completely installed directory, at    *)
(* every step of every refresh: while a candidate is built, renamed,       *)
(* activated, removed after a failure or pruned, and when a process dies   *)
(* in between (_promote_snapshot, _prune_snapshots), but for a refresh     *)
(* that sleeps for a day: refresh_catalog "atomically promote[s] a         *)
(* complete snapshot".                                                     *)
(***************************************************************************)
ActiveInstalled == pointer.id \in Snapshots => Whole(pointer.id)

(***************************************************************************)
(* The snapshot that open_catalog resolved under the lock is still the     *)
(* active one, and still complete, when it connects: no refresh replaces   *)
(* or prunes it in between.                                                *)
(***************************************************************************)
OpensActive ==
  \A c \in Readers :
    rpc[c] = "resolved" => pin[c] = pointer.id /\ Healthy(pin[c])

(***************************************************************************)
(* No refresh prunes a snapshot between its resolution and the connection, *)
(* whatever way it was opened (open_catalog's docstring: the steps "all    *)
(* hold the promotion lock so a concurrent refresh cannot prune the        *)
(* resolved snapshot").                                                    *)
(***************************************************************************)
OpensProtected ==
  \A c \in Readers : rpc[c] \in {"resolved", "glimpsed"} => Whole(pin[c])

(***************************************************************************)
(* A bridge write lands in the active snapshot: the database that a writer *)
(* found through the pointer is still the active one when it commits, so   *)
(* no confirmed mapping goes to a superseded or removed database.          *)
(***************************************************************************)
WritesActive ==
  \A w \in Writers :
    wpc[w] \in {"locked", "committed"} /\ wtarget[w] # None =>
      wtarget[w] = pointer.id /\ Whole(wtarget[w])

(***************************************************************************)
(* A promotion acts on the pointer that it read: from reading it under the *)
(* lock to replacing it, nobody else replaces it, so no activation and no  *)
(* mapping is overwritten by one that did not know of it.                  *)
(***************************************************************************)
NoLostActivation ==
  \A r \in Refreshers :
    pc[r] \in {"resolved", "carried", "prepared", "moved", "installed"} =>
      base[r] = pointer

(***************************************************************************)
(* The YAML file never says more than the active database: at the moment   *)
(* an entry changes there, the active database, if there is one, already   *)
(* has it (the comment in _persist_override: "a failed database write must *)
(* not record the override durably").                                      *)
(***************************************************************************)
YamlFollowsDatabase ==
  [][\A k \in Keys :
       yaml'[k] # yaml[k] /\ pointer.id \in Snapshots =>
         db[pointer.id].overrides[k] = yaml'[k]]_vars

(***************************************************************************)
(* A snapshot is activated with the overrides that the YAML file holds at  *)
(* that moment (docs/ldraw-bridge.md: "YAML overrides are versioned,       *)
(* deterministic, and materialized into each snapshot").                   *)
(***************************************************************************)
OverridesMaterialized ==
  [][pointer'.id # pointer.id => db[pointer'.id].overrides = yaml]_vars

-----------------------------------------------------------------------------
(***************************************************************************)
(* What makes the properties inductive: who holds the lock, what an        *)
(* attempt may have done to its own directory so far, and what is in it.   *)
(* That a directory is complete takes attempts that do not sleep.          *)
(***************************************************************************)
LockOwner ==
  /\ \A r \in Refreshers : lock = r <=> pc[r] \in Holding
  /\ \A w \in Writers : lock = w <=> wpc[w] # "idle"
  /\ \A c \in Readers : lock = c <=> rpc[c] \in {"locked", "resolved"}

OwnIds ==
  /\ \A r \in Refreshers : pc[r] # "idle" => mine[r] \in used
  /\ \A r, q \in Refreshers :
       r # q /\ pc[r] # "idle" /\ pc[q] # "idle" => mine[r] # mine[q]

OwnPlaces ==
  /\ \A s \in Snapshots : s \notin used => place[s] = "absent"
  /\ \A s \in damaged : place[s] # "absent"
  /\ \A r \in Refreshers :
       /\ pc[r] \in BeforeLock \cup {"locked", "resolved", "carried", "prepared"} =>
            place[mine[r]] \in {"staging", "absent"}
       /\ pc[r] = "moved" => place[mine[r]] = "incoming"
       /\ pc[r] = "installed" => place[mine[r]] = "installed" /\ mine[r] # pointer.id

OwnDamage ==
  Punctual =>
    /\ \A s \in damaged : place[s] # "staging"
    /\ \A r \in Refreshers :
         /\ pc[r] \in BeforeLock \cup Promoting \cup {"locked"} =>
              mine[r] \notin damaged
         /\ pc[r] \in BeforeLock \cup {"locked", "resolved", "carried", "prepared"} =>
              place[mine[r]] = "staging"

OwnContent(r) ==
  /\ pc[r] \in Promoting \cup {"imported", "ready", "locked"} =>
       db[mine[r]].supported
  /\ Punctual /\ pc[r] \in {"carried", "prepared", "moved", "installed"} =>
       db[mine[r]].crosswalk = Carried(pointer.id, mine[r])

OwnContents == \A r \in Refreshers : OwnContent(r)

ActiveOnDisk ==
  pointer.id \in Snapshots =>
    /\ place[pointer.id] = "installed" /\ pointer.id \in used
    /\ Punctual => pointer.id \notin damaged

TargetsActive ==
  \A w \in Writers :
    wpc[w] \in {"locked", "committed"} /\ wtarget[w] # None => wtarget[w] = pointer.id

Requests ==
  /\ \A w \in Writers :
       /\ wpc[w] \in {"locked", "committed"} => wop[w] \in Writes
       /\ wpc[w] = "committed" => wop[w].kind # "store"
       /\ wpc[w] = "locked" /\ wop[w].kind = "store" => wtarget[w] \in Snapshots
  /\ \A c \in Readers : rpc[c] \in {"resolved", "glimpsed"} => pin[c] \in Snapshots

OverrideWrites ==
  \A w \in Writers :
    wpc[w] \in {"locked", "committed"} /\ pointer.id \in Snapshots =>
      /\ wtarget[w] = pointer.id
      /\ wpc[w] = "committed" =>
           db[pointer.id].overrides[wop[w].key] = Entry(wop[w])

Inv ==
  /\ TypeOK
  /\ LockOwner
  /\ OwnIds
  /\ OwnPlaces
  /\ OwnDamage
  /\ OwnContents
  /\ ActiveOnDisk
  /\ Requests
  /\ NoLostActivation
  /\ TargetsActive
  /\ OpensActive
  /\ OverrideWrites

-----------------------------------------------------------------------------
(***************************************************************************)
(* The system implements ActiveCatalog: the active snapshot and its        *)
(* mappings are those of the database the pointer names.                   *)
(***************************************************************************)
ActiveId == IF pointer.id \in Snapshots THEN pointer.id ELSE None
ActiveDb == IF ActiveId = None THEN BlankDatabase ELSE db[ActiveId]

Abstract == INSTANCE ActiveCatalog WITH
  active   <- ActiveId,
  readable <- ActiveDb.supported,
  parts    <- ActiveDb.parts,
  mappings <- ActiveDb.crosswalk

(***************************************************************************)
(* Every step of every process changes what users see as one replacement   *)
(* or one enrichment, or not at all: a mapping confirmed while a refresh   *)
(* runs is in the snapshot that the refresh activates.                     *)
(***************************************************************************)
ImplementsActiveCatalog == Abstract!Spec

-----------------------------------------------------------------------------
(***************************************************************************)
(* Whoever takes the promotion lock gives it back, whatever fails or       *)
(* crashes while it is held.                                               *)
(***************************************************************************)
LockReleased == \A p \in Processes : lock = p ~> lock # p

(***************************************************************************)
(* Every refresh attempt comes to its end, also when others never let it   *)
(* have the lock: it waits for at most Config.lock_timeout.                *)
(***************************************************************************)
RefreshEnds == \A r \in Refreshers : pc[r] # "idle" ~> pc[r] = "idle"
=============================================================================
