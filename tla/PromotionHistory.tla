-------------------------- MODULE PromotionHistory ---------------------------
(***************************************************************************)
(* CatalogSystem with its history: log lists the snapshots that have been  *)
(* active, newest first.  The code keeps no such list: it has the history  *)
(* in the pointer, written by whoever promoted last, and it forgets what   *)
(* it removed.  The properties compare the two.  managed says whether the  *)
(* run began with a pointer of this release: every promotion then finds    *)
(* the generation by which it knows the directories it may remove.         *)
(***************************************************************************)
EXTENDS CatalogSystem, Sequences

VARIABLES log, managed

historyVars == <<vars, log, managed>>

HistoryInit ==
  /\ Init
  /\ log = IF pointer.id \in Snapshots THEN <<pointer.id>> ELSE <<>>
  /\ managed = (pointer.gen # None)

Record ==
  /\ log' = IF pointer'.id = pointer.id THEN log ELSE <<pointer'.id>> \o log
  /\ UNCHANGED managed

HistoryNext == Next /\ Record

HistorySpec == HistoryInit /\ [][HistoryNext]_historyVars

-----------------------------------------------------------------------------
(***************************************************************************)
(* The last snapshot_retention activations are on disk and complete,       *)
(* whatever other refreshers, failures and crashes came between them: the  *)
(* history in the pointer never loses or reorders one of them              *)
(* (_prospective_pointer, _prune_snapshots).                               *)
(***************************************************************************)
RecentRetained ==
  \A i \in 1 .. Len(log) : i <= Retention => Whole(log[i])

(***************************************************************************)
(* The pointer's history lists every activated snapshot that is still on   *)
(* disk, in the order of the activations: no refresher overwrites it with  *)
(* one it read before another refresher promoted (_activation_history).    *)
(***************************************************************************)
HistoryIsTrue ==
  \A i, j \in 1 .. Len(log) :
    (i < j /\ {log[i], log[j]} \subseteq Installed)
      => pointer.order[log[i]] > pointer.order[log[j]] /\ pointer.order[log[j]] > 0

(* A promotion gets through its pruning. *)
Pruned(r) == pc[r] = "activated" /\ pc'[r] = "release"

OnlyRetainedMarked ==
  (\E r \in Refreshers : Pruned(r)) =>
     \A s \in (Installed \ damaged)' :
       marker'[s] # None => \E i \in 1 .. Len(log) : i <= Retention /\ s = log[i]

(***************************************************************************)
(* A promotion that gets through its pruning leaves, of the directories    *)
(* with an activation marker, only the retained activations: the others,   *)
(* orphans of failed and crashed promotions included, are gone unless      *)
(* their removal failed (docs/quickstart.md: "New managed orphans are      *)
(* removed once the pointer confirms they are inactive").                  *)
(***************************************************************************)
OrphansRemoved == [][OnlyRetainedMarked]_historyVars

OnlyBrokenTransfers ==
  (\E r \in Refreshers : Pruned(r)) =>
     \A s \in Snapshots : place'[s] = "incoming" => s \in damaged'

(***************************************************************************)
(* What a promotion that gets through its pruning cleans up, unless a      *)
(* removal failed: every transfer that a dead or failed refresher left     *)
(* beside the snapshots; and in a catalog that began under this release    *)
(* every orphan.  One that an older release began, or that was empty, has  *)
(* no generation to know its orphans by until a promotion has been         *)
(* completed (_activation_history, _prune_snapshots).                      *)
(***************************************************************************)
PruningCleans ==
  [][OnlyBrokenTransfers /\ (managed => OnlyRetainedMarked)]_historyVars
=============================================================================
