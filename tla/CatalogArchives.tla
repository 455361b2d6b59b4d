--------------------------- MODULE CatalogArchives ---------------------------
(***************************************************************************)
(* CatalogSystem with the data that refreshes download.  An attempt asks   *)
(* for every data set with the fingerprint that the active snapshot has of *)
(* it; for what the server has not changed since (304) it copies the       *)
(* archive out of that snapshot, without the lock and while other          *)
(* refreshes promote and prune.  When every archive is unchanged it stops; *)
(* when the data sets contradict each other it is repeated once, and then  *)
(* everything is downloaded.  Writers and sessions, which touch no         *)
(* archive, do not run here.                                               *)
(***************************************************************************)
EXTENDS CatalogSystem

CONSTANTS
  Datasets,   \* the data sets of a catalog
  Newest      \* how often the server publishes each: the bound of its versions

(* archive is what an attempt wrote: what a sweep takes from a refresher   *)
(* that slept is not kept track of, so that nobody sleeps here.            *)
ASSUME ArchivesAssumption == Newest \in Nat \ {0} /\ Punctual

Broken == 0     \* an archive that is not as it was served

VARIABLES
  server,    \* the version of each data set that the server has
  archive,   \* the versions in the directory of each snapshot
  calls,     \* the attempts that a call of refresh_catalog has begun
  again,     \* whether it is to begin another
  prior,     \* the snapshot that was active when the attempt began, or None
  fetch,     \* how far the task of each data set is, and what it has got
  report,    \* the snapshot that the call says is unchanged, or None
  since      \* history: what the server had when the attempt began

callVars     == <<calls, again, prior, fetch, report, since>>
archivesVars == <<vars, server, archive, callVars>>

Nothing   == [d \in Datasets |-> Broken]
Unfetched == [state |-> "waiting", version |-> Broken]

ArchivesInit ==
  /\ Init
  /\ server = [d \in Datasets |-> 1]
  /\ archive = [s \in Snapshots |-> IF s = pointer.id THEN server ELSE Nothing]
  /\ calls = [r \in Refreshers |-> 0]
  /\ again = [r \in Refreshers |-> FALSE]
  /\ prior = [r \in Refreshers |-> None]
  /\ fetch = [r \in Refreshers |-> [d \in Datasets |-> Unfetched]]
  /\ report = [r \in Refreshers |-> None]
  /\ since = [r \in Refreshers |-> Nothing]

(* The server publishes a data set: it is not ours to say when.            *)
Publish(d) ==
  /\ server[d] < Newest
  /\ server' = [server EXCEPT ![d] = @ + 1]
  /\ UNCHANGED <<vars, archive, callVars>>

(* Mutant: the repetition goes on with the archives that it has. *)
FetchedBefore(r) == IF again[r] THEN fetch[r] ELSE [d \in Datasets |-> Unfetched]

NothingFetched(r) == [d \in Datasets |-> Unfetched]

(* A call of refresh_catalog, and the one repetition of its attempt. *)
BeginAttempt(r) ==
  /\ Begin(r)
  /\ calls[r] = 0 \/ again[r]
  /\ calls' = [calls EXCEPT ![r] = @ + 1]
  /\ again' = [again EXCEPT ![r] = FALSE]
  /\ prior' = [prior EXCEPT ![r] =
                 IF pointer.id \in Snapshots /\ Healthy(pointer.id) THEN pointer.id ELSE None]
  /\ fetch' = [fetch EXCEPT ![r] = NothingFetched(r)]
  /\ since' = [since EXCEPT ![r] = server]
  /\ UNCHANGED <<server, archive, report>>

-----------------------------------------------------------------------------
(* Fetching: one task for each data set *)

Settle(r, d, state, version) ==
  fetch' = [fetch EXCEPT ![r][d] = [state |-> state, version |-> version]]

Fetching(r, d, state) ==
  /\ pc[r] = "fetching"
  /\ place[mine[r]] = "staging"
  /\ fetch[r][d].state = state
  /\ UNCHANGED <<vars, server, archive, calls, again, prior, report, since>>

(* Mutant: the repetition asks with the fingerprints too. *)
ConditionalAlways(r) == prior[r] # None

(* The first attempt sends the fingerprints that it has. *)
Conditional(r) == prior[r] # None /\ calls[r] = 1

Ask(r, d) ==
  /\ Fetching(r, d, "waiting")
  /\ IF Conditional(r) /\ archive[prior[r]][d] = server[d]
       THEN Settle(r, d, "reusing", Broken)
       ELSE Settle(r, d, "fetched", server[d])

(* Mutant: whatever is found in the directory is taken. *)
ReuseUnchecked(r, d) ==
  /\ Fetching(r, d, "reusing")
  /\ Settle(r, d, "kept", IF Whole(prior[r]) THEN archive[prior[r]][d] ELSE Broken)

(***************************************************************************)
(* _reuse_archive copies a file of the right length and digest; otherwise  *)
(* the data set is downloaded after all, in the version of that moment.    *)
(* A pruned directory has lost some of its files, or all of them.          *)
(***************************************************************************)
Reuse(r, d) ==
  /\ Fetching(r, d, "reusing")
  /\ \/ place[prior[r]] = "installed" /\ Settle(r, d, "kept", archive[prior[r]][d])
     \/ ~Whole(prior[r]) /\ Settle(r, d, "fetched", server[d])

Got(r)     == [d \in Datasets |-> fetch[r][d].version]
Fetched(r) == pc[r] = "fetching" /\ \A d \in Datasets : fetch[r][d].state \in {"kept", "fetched"}

(* Mutant: one unchanged archive is enough. *)
SomeKept(r) == \E d \in Datasets : fetch[r][d].state = "kept"

AllKept(r) == \A d \in Datasets : fetch[r][d].state = "kept"

-----------------------------------------------------------------------------
(* What becomes of what was fetched *)

ReportUnchanged(r) ==
  /\ Fetched(r) /\ AllKept(r)
  /\ Abandon(r)
  /\ report' = [report EXCEPT ![r] = prior[r]]
  /\ UNCHANGED <<server, archive, calls, again, prior, fetch, since>>

ImportArchives(r) ==
  /\ Fetched(r) /\ ~AllKept(r)
  /\ Import(r)
  /\ archive' = [archive EXCEPT ![mine[r]] = Got(r)]
  /\ UNCHANGED <<server, callVars>>

(* DatasetIntegrityError: data sets of different versions may contradict   *)
(* each other.  refresh_catalog repeats the attempt, but once only.        *)
Contradict(r) ==
  /\ Fetched(r) /\ ~AllKept(r)
  /\ \E d, e \in Datasets : Got(r)[d] # Got(r)[e]
  /\ Abandon(r)
  /\ again' = [again EXCEPT ![r] = calls[r] = 1]
  /\ UNCHANGED <<server, archive, calls, prior, fetch, report, since>>

ForgetAttempt(r) ==
  /\ prior' = [prior EXCEPT ![r] = None]
  /\ fetch' = [fetch EXCEPT ![r] = IF again'[r] THEN @ ELSE [d \in Datasets |-> Unfetched]]
  /\ report' = [report EXCEPT ![r] = None]
  /\ since' = [since EXCEPT ![r] = Nothing]
  /\ UNCHANGED <<server, archive>>

EndAttempt(r) ==
  /\ Cleanup(r)
  /\ calls' = [calls EXCEPT ![r] = IF again[r] THEN @ ELSE 0]
  /\ UNCHANGED again
  /\ ForgetAttempt(r)

CrashCall(r) ==
  /\ Crash(r)
  /\ calls' = [calls EXCEPT ![r] = 0]
  /\ again' = [again EXCEPT ![r] = FALSE]
  /\ ForgetAttempt(r)

Promote(r) ==
  \/ Materialize(r) \/ Abandon(r) \/ AcquireLock(r) \/ CancelAcquire(r) \/ Resolve(r)
  \/ Refuse(r) \/ CarryCrosswalk(r) \/ WriteMarker(r) \/ MoveIn(r) \/ BreakMove(r)
  \/ Install(r) \/ Activate(r) \/ Prune(r) \/ Fail(r) \/ Handle(r) \/ Release(r)

RefreshCall(r) ==
  \/ BeginAttempt(r) \/ EndAttempt(r) \/ CrashCall(r)
  \/ \E d \in Datasets : Ask(r, d) \/ Reuse(r, d)
  \/ ReportUnchanged(r) \/ ImportArchives(r) \/ Contradict(r)
  \/ Promote(r) /\ UNCHANGED <<server, archive, callVars>>

ArchivesNext ==
  \/ \E d \in Datasets : Publish(d)
  \/ \E r \in Refreshers : RefreshCall(r) /\ UNCHANGED <<writerVars, readerVars>>

ArchivesSpec == ArchivesInit /\ [][ArchivesNext]_archivesVars

-----------------------------------------------------------------------------
(***************************************************************************)
(* A promoted snapshot is what the server offered: each of its archives is *)
(* complete and at least as new as when the attempt began, also where it   *)
(* was copied from a snapshot that another refresh was removing.           *)
(***************************************************************************)
AsNewAsServed ==
  \A r \in Refreshers : pc[r] \in Promoting =>
    \A d \in Datasets : archive[mine[r]][d] >= since[r][d]

(***************************************************************************)
(* UNCHANGED is true: the snapshot that the report names had, of every     *)
(* data set, what the server offered when the attempt began, although it   *)
(* may no longer be the active one.                                        *)
(***************************************************************************)
UnchangedIsTrue ==
  \A r \in Refreshers : report[r] # None =>
    \A d \in Datasets : archive[report[r]][d] >= since[r][d]

(***************************************************************************)
(* The repetition after an integrity error copies nothing from the active  *)
(* snapshot, and there is no second repetition.                            *)
(***************************************************************************)
RepeatedAfresh ==
  \A r \in Refreshers :
    /\ calls[r] <= 2
    /\ calls[r] = 2 => \A d \in Datasets : fetch[r][d].state \notin {"reusing", "kept"}

(***************************************************************************)
(* A refresh never takes a data set back to an earlier version than the    *)
(* active snapshot has, unless that snapshot was activated while it ran:   *)
(* two refreshes at once may end with the older data.                      *)
(***************************************************************************)
NeverBackwards ==
  [][\A r \in Refreshers :
       pc[r] = "installed" /\ pc'[r] = "activated" /\ prior[r] = pointer.id /\ prior[r] # None
         => \A d \in Datasets : archive[mine[r]][d] >= archive[pointer.id][d]]_archivesVars
==============================================================================
