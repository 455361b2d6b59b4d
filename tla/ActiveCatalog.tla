---------------------------- MODULE ActiveCatalog ----------------------------
(***************************************************************************)
(* What the users of a catalog see of it, with no file, lock or pointer:   *)
(* one active snapshot, replaced as a whole, whose API mappings survive    *)
(* the replacement when their part does.                                   *)
(***************************************************************************)
CONSTANTS Snapshots, Parts, Externals, None

VARIABLES
  active,     \* the id of the active snapshot, or None
  readable,   \* whether this release can open it
  parts,      \* its canonical ids
  mappings    \* its API-confirmed external ids

vars == <<active, readable, parts, mappings>>

Init ==
  /\ active \in Snapshots \cup {None}
  /\ readable \in BOOLEAN
  /\ parts \in SUBSET Parts
  /\ mappings = [e \in Externals |-> None]

(***************************************************************************)
(* A refresh replaces the snapshot by a readable one.  Nothing confirmed   *)
(* is lost but what has no part any more, and nothing is invented; only    *)
(* an unreadable catalog's mappings are dropped.                           *)
(***************************************************************************)
Replace ==
  /\ active' \in Snapshots \ {active}
  /\ readable' = TRUE
  /\ parts' \in SUBSET Parts
  /\ mappings' = [e \in Externals |->
                    IF readable /\ mappings[e] \in parts' THEN mappings[e] ELSE None]

(* Enrichment replaces everything known of one part. *)
Enrich ==
  /\ active \in Snapshots
  /\ \E part \in Parts, externals \in SUBSET Externals :
       mappings' = [e \in Externals |->
                      IF e \in externals THEN part
                      ELSE IF mappings[e] = part THEN None
                      ELSE mappings[e]]
  /\ UNCHANGED <<active, readable, parts>>

Next == Replace \/ Enrich

Spec == Init /\ [][Next]_vars
=============================================================================
