--------------------------- MODULE CatalogDataProofs ---------------------------
(***************************************************************************)
(* What the active snapshot is made of, for every value of the constants:  *)
(* archives as new as the server's, search documents that say what the     *)
(* tables say, and a history of activations that pruning keeps.            *)
(*                                                                         *)
(* The steps of CatalogArchives and of CatalogDocuments are steps of       *)
(* CatalogSystem, so its invariant holds in both.  With it, the snapshot   *)
(* that an attempt copies from is one that nobody writes to any more       *)
(* (PriorsSettled), which bounds what the attempt may have fetched so far  *)
(* (FetchesBounded); and a candidate's documents, rebuilt in its           *)
(* preparation, are still right when it becomes the active snapshot        *)
(* (CandidatesCurrent).  Nobody's staging directory is swept in use here   *)
(* (Punctual): what would be left in it is not kept track of.              *)
(*                                                                         *)
(* The steps of PromotionHistory are steps of CatalogSystem as well.  The  *)
(* pointer lists what the log does, as far as it is still installed        *)
(* (OrderIsTrue), so that the highest ranks, which pruning keeps, are the  *)
(* last activations (RecentKept, KeptRecent).                              *)
(***************************************************************************)
EXTENDS PromotionHistory, FiniteSetTheorems, CatalogArchives, CatalogDocuments, CatalogSystemProofs

USE DiskAssumption DEF DiskAssumption
USE DEF Stages, BeforeLock, Holding, Promoting, Move

Fetches == [state : {"waiting", "reusing", "kept", "fetched"}, version : Nat]

ArchivesTypeOK ==
  /\ server \in [Datasets -> Nat]
  /\ archive \in [Snapshots -> [Datasets -> Nat]]
  /\ calls \in [Refreshers -> Nat]
  /\ again \in [Refreshers -> BOOLEAN]
  /\ prior \in [Refreshers -> Snapshots \cup {None}]
  /\ fetch \in [Refreshers -> [Datasets -> Fetches]]
  /\ report \in [Refreshers -> Snapshots \cup {None}]
  /\ since \in [Refreshers -> [Datasets -> Nat]]

(* Nothing is newer than what the server has. *)
NothingNewer ==
  \A d \in Datasets :
    /\ \A s \in Snapshots : archive[s][d] <= server[d]
    /\ \A r \in Refreshers : since[r][d] <= server[d]

(* The snapshot that an attempt copies from is one that was finished before. *)
PriorsSettled ==
  \A r \in Refreshers :
    prior[r] # None =>
      /\ pc[r] # "idle"
      /\ prior[r] \in used
      /\ \A q \in Refreshers : pc[q] \in BeforeLock => mine[q] # prior[r]
      /\ \A d \in Datasets : archive[prior[r]][d] <= since[r][d]

FetchBounded(r, d) ==
  /\ fetch[r][d].state \in {"reusing", "kept"} =>
       prior[r] # None /\ archive[prior[r]][d] >= since[r][d]
  /\ fetch[r][d].state \in {"kept", "fetched"} =>
       fetch[r][d].version >= since[r][d] /\ fetch[r][d].version <= server[d]

FetchesBounded ==
  \A r \in Refreshers : pc[r] # "idle" => \A d \in Datasets : FetchBounded(r, d)

CandidatesNewEnough ==
  \A r \in Refreshers : pc[r] \in {"imported", "ready", "locked"} \cup Promoting =>
    \A d \in Datasets : archive[mine[r]][d] >= since[r][d]

ReportsPrior ==
  \A r \in Refreshers : report[r] # None =>
    /\ report[r] = prior[r]
    /\ \A d \in Datasets : archive[prior[r]][d] >= since[r][d]

RepetitionsFirst == \A r \in Refreshers : again[r] => calls[r] = 1

ArchivesInv ==
  /\ ArchivesTypeOK
  /\ NothingNewer
  /\ PriorsSettled
  /\ FetchesBounded
  /\ CandidatesNewEnough
  /\ ReportsPrior
  /\ RepetitionsFirst
  /\ RepeatedAfresh

-----------------------------------------------------------------------------
(* Every step is one of CatalogSystem, or leaves its variables alone.      *)
LEMMA RefreshCallStep ==
  ASSUME NEW r \in Refreshers, RefreshCall(r), UNCHANGED <<writerVars, readerVars>>
  PROVE  [Next]_vars
<1>1. CASE \E d \in Datasets : Ask(r, d) \/ Reuse(r, d)
  BY <1>1 DEF Ask, Reuse, Fetching
<1>2. CASE ~ \E d \in Datasets : Ask(r, d) \/ Reuse(r, d)
  <2>1. Refresh(r)
    BY <1>2
    DEF RefreshCall, BeginAttempt, EndAttempt, CrashCall, ReportUnchanged, ImportArchives,
        Contradict, Promote, Refresh, Proceed
  <2> QED
    BY <2>1 DEF Next, RefresherStep
<1> QED
  BY <1>1, <1>2

LEMMA ArchivesRefine == ArchivesSpec => Spec
<1>1. ArchivesInit => Init
  BY DEF ArchivesInit
<1>2. [ArchivesNext]_archivesVars => [Next]_vars
  BY RefreshCallStep DEF ArchivesNext, Publish, archivesVars
<1> QED
  BY <1>1, <1>2, PTL DEF ArchivesSpec, Spec

LEMMA ArchivesInitInv == ArchivesInit => ArchivesInv
<1> SUFFICES ASSUME ArchivesInit PROVE ArchivesInv
  OBVIOUS
<1> USE DEF ArchivesInit, Nothing, Unfetched, Broken
<1>1. ArchivesTypeOK
  BY DEF ArchivesTypeOK, Fetches
<1>2. NothingNewer
  BY DEF NothingNewer
<1>3. PriorsSettled /\ FetchesBounded /\ CandidatesNewEnough /\ ReportsPrior
        /\ RepetitionsFirst /\ RepeatedAfresh
  BY DEF PriorsSettled, FetchesBounded, CandidatesNewEnough, ReportsPrior, RepetitionsFirst,
         RepeatedAfresh, Init, RefreshersInit
<1> QED
  BY <1>1, <1>2, <1>3 DEF ArchivesInv

-----------------------------------------------------------------------------
(* The server only goes forward.                                           *)
LEMMA PublishArchives ==
  ASSUME Inv, ArchivesInv, NEW d \in Datasets, Publish(d)
  PROVE  ArchivesInv'
<1> USE DEF ArchivesInv, Publish, vars, refresherVars, diskVars, callVars
<1>1. ArchivesTypeOK'
  BY DEF ArchivesTypeOK
<1>2. \A e \in Datasets : server[e] \in Nat /\ server'[e] \in Nat /\ server[e] <= server'[e]
  BY DEF ArchivesTypeOK
<1>3. NothingNewer'
  BY <1>2 DEF NothingNewer, ArchivesTypeOK
<1>4. FetchesBounded'
  BY <1>2 DEF FetchesBounded, FetchBounded, ArchivesTypeOK, Fetches
<1>5. PriorsSettled' /\ CandidatesNewEnough' /\ ReportsPrior' /\ RepetitionsFirst' /\ RepeatedAfresh'
  BY DEF PriorsSettled, CandidatesNewEnough, ReportsPrior, RepetitionsFirst, RepeatedAfresh
<1> QED
  BY <1>1, <1>3, <1>4, <1>5

(* An attempt begins with the fingerprints of the active snapshot.         *)
LEMMA BeginArchives ==
  ASSUME Inv, ArchivesInv, NEW r \in Refreshers, BeginAttempt(r)
  PROVE  ArchivesInv'
<1> USE DEF ArchivesInv, BeginAttempt, Begin, Inv, TypeOK, RefreshersTypeOK
<1>1. /\ pc[r] = "idle" /\ pc' = [pc EXCEPT ![r] = "fetching"]
      /\ mine'[r] \in Snapshots \ used /\ mine[r] \in Snapshots \cup {None}
      /\ used' = used \cup {mine'[r]}
      /\ \A q \in Refreshers \ {r} : mine'[q] = mine[q]
      /\ UNCHANGED <<pointer, server, archive, report>>
  OBVIOUS
<1>2. prior[r] = None /\ report[r] = None
  BY <1>1 DEF PriorsSettled, ReportsPrior
<1>3. /\ prior'[r] # None => prior'[r] = pointer.id /\ pointer.id \in Snapshots /\ Healthy(pointer.id)
      /\ since'[r] = server
      /\ \A d \in Datasets : fetch'[r][d] = Unfetched
      /\ \A q \in Refreshers \ {r} : prior'[q] = prior[q] /\ since'[q] = since[q] /\ fetch'[q] = fetch[q]
  BY DEF NothingFetched, ArchivesTypeOK
<1>4. ArchivesTypeOK'
  <2>1. NothingFetched(r) \in [Datasets -> Fetches]
    BY DEF NothingFetched, Unfetched, Broken, Fetches
  <2> QED
    BY <2>1 DEF ArchivesTypeOK
<1>5. NothingNewer'
  BY <1>1, <1>3 DEF NothingNewer, ArchivesTypeOK
<1>6. PriorsSettled'
  <2>1. ASSUME NEW q \in Refreshers \ {r}, prior[q] # None
        PROVE  mine'[r] # prior[q]
    BY <1>1, <2>1 DEF PriorsSettled
  <2>2. ASSUME prior'[r] # None, NEW q \in Refreshers, pc'[q] \in BeforeLock
        PROVE  mine'[q] # prior'[r]
    BY <1>1, <1>3, <2>2 DEF OwnPlaces, ActiveOnDisk, Whole
  <2>3. prior'[r] # None =>
          prior'[r] \in used /\ \A d \in Datasets : archive[prior'[r]][d] <= server[d]
    BY <1>3 DEF ActiveOnDisk, NothingNewer
  <2> QED
    BY <1>1, <1>3, <2>1, <2>2, <2>3 DEF PriorsSettled
<1>7. FetchesBounded'
  BY <1>1, <1>3 DEF FetchesBounded, FetchBounded, Unfetched
<1>8. CandidatesNewEnough' /\ ReportsPrior'
  BY <1>1, <1>2, <1>3 DEF CandidatesNewEnough, ReportsPrior
<1>9. RepetitionsFirst' /\ RepeatedAfresh'
  BY <1>3 DEF RepetitionsFirst, RepeatedAfresh, ArchivesTypeOK, Unfetched
<1> QED
  BY <1>4, <1>5, <1>6, <1>7, <1>8, <1>9

(***************************************************************************)
(* Asking and copying: an archive that the server has not changed is as    *)
(* new as the server's, and one that is downloaded is of that moment.      *)
(***************************************************************************)
LEMMA FetchArchives ==
  ASSUME Inv, ArchivesInv, NEW r \in Refreshers, NEW d \in Datasets, Ask(r, d) \/ Reuse(r, d)
  PROVE  ArchivesInv'
<1> USE DEF ArchivesInv, vars, refresherVars, diskVars
<1>1. /\ pc[r] = "fetching"
      /\ UNCHANGED <<pc, mine, used, server, archive, calls, again, prior, report, since>>
  BY DEF Ask, Reuse, Fetching
<1>2. \A e \in Datasets : server[e] \in Nat /\ since[r][e] \in Nat /\ since[r][e] <= server[e]
  BY DEF ArchivesTypeOK, NothingNewer
<1>3. PICK f \in Fetches :
        /\ fetch' = [fetch EXCEPT ![r][d] = f]
        /\ f.state \in {"reusing", "kept"} =>
             /\ prior[r] # None /\ archive[prior[r]][d] >= since[r][d]
             /\ calls[r] = 1 \/ fetch[r][d].state = "reusing"
        /\ f.state \in {"kept", "fetched"} =>
             f.version >= since[r][d] /\ f.version <= server[d]
  <2>1. CASE Ask(r, d)
    <3>1. CASE Conditional(r) /\ archive[prior[r]][d] = server[d]
      <4>1. [state |-> "reusing", version |-> Broken] \in Fetches
        BY DEF Fetches, Broken
      <4> QED
        BY <1>2, <2>1, <3>1, <4>1 DEF Ask, Settle, Conditional, ArchivesTypeOK
    <3>2. CASE ~(Conditional(r) /\ archive[prior[r]][d] = server[d])
      <4>1. [state |-> "fetched", version |-> server[d]] \in Fetches
        BY <1>2 DEF Fetches
      <4> QED
        BY <1>2, <2>1, <3>2, <4>1 DEF Ask, Settle
    <3> QED
      BY <3>1, <3>2
  <2>2. CASE Reuse(r, d)
    <3>1. /\ fetch[r][d].state = "reusing"
          /\ prior[r] \in Snapshots /\ archive[prior[r]][d] \in Nat
          /\ archive[prior[r]][d] >= since[r][d] /\ archive[prior[r]][d] <= server[d]
      BY <1>1, <2>2
      DEF Reuse, Fetching, FetchesBounded, FetchBounded, ArchivesTypeOK, NothingNewer
    <3>2. CASE Settle(r, d, "kept", archive[prior[r]][d])
      <4>1. [state |-> "kept", version |-> archive[prior[r]][d]] \in Fetches
        BY <3>1 DEF Fetches
      <4> QED
        BY <3>1, <3>2, <4>1 DEF Settle
    <3>3. CASE Settle(r, d, "fetched", server[d])
      <4> DEFINE f == [state |-> "fetched", version |-> server[d]]
      <4>1. f \in Fetches /\ fetch' = [fetch EXCEPT ![r][d] = f]
        BY <1>2, <3>3 DEF Fetches, Settle
      <4>2. /\ f.state = "fetched"
            /\ f.version >= since[r][d] /\ f.version <= server[d]
        BY <1>2
      <4> HIDE DEF f
      <4> QED
        BY <4>1, <4>2
    <3> QED
      BY <2>2, <3>2, <3>3 DEF Reuse
  <2> QED
    BY <2>1, <2>2
<1>4. /\ fetch' \in [Refreshers -> [Datasets -> Fetches]]
      /\ fetch'[r][d] = f
      /\ \A q \in Refreshers, e \in Datasets : q # r \/ e # d => fetch'[q][e] = fetch[q][e]
  BY <1>3 DEF ArchivesTypeOK
<1>5. ArchivesTypeOK' /\ NothingNewer' /\ PriorsSettled' /\ CandidatesNewEnough' /\ ReportsPrior'
        /\ RepetitionsFirst'
  BY <1>1, <1>4
  DEF ArchivesTypeOK, NothingNewer, PriorsSettled, CandidatesNewEnough, ReportsPrior,
      RepetitionsFirst
<1>6. FetchesBounded'
  <2> SUFFICES ASSUME NEW q \in Refreshers, pc[q] # "idle", NEW e \in Datasets
               PROVE  FetchBounded(q, e)'
    BY <1>1 DEF FetchesBounded
  <2>1. CASE q = r /\ e = d
    BY <1>1, <1>3, <1>4, <2>1 DEF FetchBounded
  <2>2. CASE q # r \/ e # d
    BY <1>1, <1>4, <2>2 DEF FetchesBounded, FetchBounded
  <2> QED
    BY <2>1, <2>2
<1>7. RepeatedAfresh'
  BY <1>1, <1>3, <1>4 DEF RepeatedAfresh
<1> QED
  BY <1>5, <1>6, <1>7

(* The import puts what was fetched into the candidate's directory.        *)
LEMMA ImportsArchives ==
  ASSUME Inv, ArchivesInv, NEW r \in Refreshers, ImportArchives(r)
  PROVE  ArchivesInv'
<1> USE DEF ArchivesInv, ImportArchives, Import, callVars
<1> DEFINE new == mine[r]
<1>1. /\ pc[r] = "fetching" /\ pc' = [pc EXCEPT ![r] = "imported"] /\ new \in Snapshots
      /\ UNCHANGED <<mine, used, server, calls, again, prior, fetch, report, since>>
  BY OwnSnapshot
<1>2. \A d \in Datasets :
        /\ Got(r)[d] \in Nat
        /\ Got(r)[d] >= since[r][d] /\ Got(r)[d] <= server[d]
  <2> SUFFICES ASSUME NEW d \in Datasets
               PROVE  /\ Got(r)[d] \in Nat
                      /\ Got(r)[d] >= since[r][d] /\ Got(r)[d] <= server[d]
    OBVIOUS
  <2>1. Got(r)[d] = fetch[r][d].version /\ fetch[r][d] \in Fetches
    BY DEF Got, ArchivesTypeOK
  <2>2. fetch[r][d].version \in Nat
    BY <2>1 DEF Fetches
  <2>3. fetch[r][d].state \in {"kept", "fetched"}
    BY DEF Fetched
  <2>4. FetchBounded(r, d)
    BY <1>1 DEF FetchesBounded
  <2> QED
    BY <2>1, <2>2, <2>3, <2>4 DEF FetchBounded
<1>3. /\ archive'[new] = Got(r)
      /\ \A s \in Snapshots \ {new} : archive'[s] = archive[s]
      /\ archive' \in [Snapshots -> [Datasets -> Nat]]
  BY <1>1, <1>2 DEF ArchivesTypeOK, Got
<1>4. \A q \in Refreshers : prior[q] # None => prior[q] \in Snapshots /\ prior[q] # new
  BY <1>1 DEF PriorsSettled, ArchivesTypeOK
<1>5. ArchivesTypeOK' /\ NothingNewer'
  BY <1>1, <1>2, <1>3 DEF ArchivesTypeOK, NothingNewer
<1>6. PriorsSettled'
  BY <1>1, <1>3, <1>4 DEF PriorsSettled, Inv, TypeOK, RefreshersTypeOK
<1>7. FetchesBounded' /\ ReportsPrior'
  BY <1>1, <1>3, <1>4
  DEF FetchesBounded, FetchBounded, ReportsPrior, Inv, TypeOK, RefreshersTypeOK, ArchivesTypeOK
<1>8. CandidatesNewEnough'
  <2> SUFFICES ASSUME NEW q \in Refreshers, pc'[q] \in {"imported", "ready", "locked"} \cup Promoting,
                      NEW d \in Datasets
               PROVE  archive'[mine[q]][d] >= since[q][d]
    BY <1>1 DEF CandidatesNewEnough
  <2>1. CASE q = r
    BY <1>2, <1>3, <2>1
  <2>2. CASE q # r
    <3>1. mine[q] \in Snapshots /\ mine[q] # new /\ pc'[q] = pc[q]
      BY <1>1, <2>2, OwnSnapshot DEF Inv, TypeOK, RefreshersTypeOK, OwnIds
    <3> QED
      BY <1>3, <3>1 DEF CandidatesNewEnough
  <2> QED
    BY <2>1, <2>2
<1>9. RepetitionsFirst' /\ RepeatedAfresh'
  BY <1>1 DEF RepetitionsFirst, RepeatedAfresh
<1> QED
  BY <1>5, <1>6, <1>7, <1>8, <1>9

(* Ending the attempt as UNCHANGED or as contradictory writes no archive.  *)
LEMMA AbandonArchives ==
  ASSUME Inv, ArchivesInv, NEW r \in Refreshers, ReportUnchanged(r) \/ Contradict(r)
  PROVE  ArchivesInv'
<1> USE DEF ArchivesInv
<1>1. /\ pc[r] = "fetching" /\ pc' = [pc EXCEPT ![r] = "cleanup"]
      /\ UNCHANGED <<mine, used, server, archive, calls, prior, fetch, since>>
  BY DEF ReportUnchanged, Contradict, Abandon, Fetched, diskVars
<1>2. CASE ReportUnchanged(r)
  <2>1. report' = [report EXCEPT ![r] = prior[r]] /\ UNCHANGED again
    BY <1>2 DEF ReportUnchanged
  <2>2. \A d \in Datasets : prior[r] # None => archive[prior[r]][d] >= since[r][d]
    BY <1>1, <1>2 DEF ReportUnchanged, AllKept, FetchesBounded, FetchBounded
  <2> QED
    BY <1>1, <2>1, <2>2
    DEF ArchivesTypeOK, NothingNewer, PriorsSettled, FetchesBounded, FetchBounded,
        CandidatesNewEnough, ReportsPrior, RepetitionsFirst, RepeatedAfresh,
        Inv, TypeOK, RefreshersTypeOK
<1>3. CASE Contradict(r)
  <2>1. again' = [again EXCEPT ![r] = calls[r] = 1] /\ UNCHANGED report
    BY <1>3 DEF Contradict
  <2>2. again' \in [Refreshers -> BOOLEAN] /\ RepetitionsFirst'
    BY <1>1, <2>1, Zenon DEF ArchivesTypeOK, RepetitionsFirst
  <2> QED
    BY <1>1, <2>1, <2>2
    DEF ArchivesTypeOK, NothingNewer, PriorsSettled, FetchesBounded, FetchBounded,
        CandidatesNewEnough, ReportsPrior, RepeatedAfresh, Inv, TypeOK, RefreshersTypeOK
<1> QED
  BY <1>2, <1>3

(* What an attempt knows is gone when it ends or dies.                     *)
LEMMA EndArchives ==
  ASSUME Inv, ArchivesInv, NEW r \in Refreshers, EndAttempt(r) \/ CrashCall(r)
  PROVE  ArchivesInv'
<1> USE DEF ArchivesInv, Inv, TypeOK, RefreshersTypeOK
<1>1. /\ pc' = [pc EXCEPT ![r] = "idle"] /\ pc'[r] = "idle" /\ UNCHANGED <<used, server, archive>>
      /\ \A q \in Refreshers \ {r} : mine'[q] = mine[q]
  BY DEF EndAttempt, CrashCall, Cleanup, Crash, Forget, ForgetAttempt
<1>2. /\ prior' = [prior EXCEPT ![r] = None] /\ report' = [report EXCEPT ![r] = None]
      /\ since' = [since EXCEPT ![r] = Nothing]
      /\ fetch' = [fetch EXCEPT ![r] =
                     IF again'[r] THEN fetch[r] ELSE [d \in Datasets |-> Unfetched]]
  BY DEF EndAttempt, CrashCall, ForgetAttempt
<1>3. \/ again' = again /\ calls' = [calls EXCEPT ![r] = IF again[r] THEN calls[r] ELSE 0]
      \/ again' = [again EXCEPT ![r] = FALSE] /\ calls' = [calls EXCEPT ![r] = 0]
  BY DEF EndAttempt, CrashCall
<1>4. Unfetched \in Fetches /\ Unfetched.state = "waiting"
      /\ Nothing \in [Datasets -> Nat] /\ \A d \in Datasets : Nothing[d] = 0
  BY DEF Unfetched, Fetches, Nothing, Broken
<1>5. ArchivesTypeOK'
  <2>1. again' \in [Refreshers -> BOOLEAN] /\ calls' \in [Refreshers -> Nat]
    <3>1. (IF again[r] THEN calls[r] ELSE 0) \in Nat
      BY DEF ArchivesTypeOK
    <3>2. calls' \in [Refreshers -> Nat]
      <4> HIDE DEF Inv, TypeOK, RefreshersTypeOK
      <4>1. calls \in [Refreshers -> Nat]
        BY DEF ArchivesTypeOK
      <4>2. \E n \in Nat : calls' = [calls EXCEPT ![r] = n]
        BY <1>3, <3>1
      <4> QED
        BY <4>1, <4>2
    <3>3. again' \in [Refreshers -> BOOLEAN]
      BY <1>3 DEF ArchivesTypeOK
    <3> QED
      BY <3>2, <3>3
  <2>2. fetch' \in [Refreshers -> [Datasets -> Fetches]]
    <3>1. (IF again'[r] THEN fetch[r] ELSE [d \in Datasets |-> Unfetched]) \in [Datasets -> Fetches]
      BY <1>4 DEF ArchivesTypeOK
    <3> QED
      BY <1>2, <3>1 DEF ArchivesTypeOK
  <2> QED
    BY <1>1, <1>2, <1>4, <2>1, <2>2 DEF ArchivesTypeOK
<1>6. NothingNewer' /\ FetchesBounded' /\ ReportsPrior'
  BY <1>1, <1>2, <1>4
  DEF NothingNewer, FetchesBounded, FetchBounded, ReportsPrior, ArchivesTypeOK
<1>7. PriorsSettled' /\ CandidatesNewEnough'
  BY <1>1, <1>2, <1>4 DEF PriorsSettled, CandidatesNewEnough, ArchivesTypeOK
<1>8. RepetitionsFirst' /\ RepeatedAfresh'
  BY <1>2, <1>3, <1>4 DEF RepetitionsFirst, RepeatedAfresh, ArchivesTypeOK
<1> QED
  BY <1>5, <1>6, <1>7, <1>8

(* Promotion touches no archive: only how far the attempt is changes.      *)
LEMMA PromoteArchives ==
  ASSUME Inv, ArchivesInv, NEW r \in Refreshers, Promote(r), UNCHANGED <<server, archive, callVars>>
  PROVE  ArchivesInv'
<1> USE DEF ArchivesInv, Inv, TypeOK, RefreshersTypeOK, callVars
<1>1. /\ UNCHANGED <<mine, used>>
      /\ \A q \in Refreshers \ {r} : pc'[q] = pc[q]
      /\ pc[r] # "idle" /\ pc'[r] # "idle"
      /\ pc'[r] \in BeforeLock => pc[r] \in BeforeLock
      /\ pc'[r] \in {"imported", "ready", "locked"} \cup Promoting =>
           pc[r] \in {"imported", "ready", "locked"} \cup Promoting
  BY DEF Promote, Materialize, Abandon, AcquireLock, CancelAcquire, Resolve, Refuse,
         CarryCrosswalk, WriteMarker, MoveIn, BreakMove, Install, Activate, Prune, Fail,
         Handle, Release, diskVars
<1>2. ArchivesTypeOK' /\ NothingNewer' /\ ReportsPrior' /\ RepetitionsFirst' /\ RepeatedAfresh'
  BY DEF ArchivesTypeOK, NothingNewer, ReportsPrior, RepetitionsFirst, RepeatedAfresh
<1>3. PriorsSettled' /\ FetchesBounded' /\ CandidatesNewEnough'
  BY <1>1 DEF PriorsSettled, FetchesBounded, FetchBounded, CandidatesNewEnough
<1> QED
  BY <1>2, <1>3

-----------------------------------------------------------------------------
LEMMA ArchivesNextInv == Inv /\ ArchivesInv /\ [ArchivesNext]_archivesVars => ArchivesInv'
<1> SUFFICES ASSUME Inv, ArchivesInv, [ArchivesNext]_archivesVars PROVE ArchivesInv'
  OBVIOUS
<1>1. ASSUME NEW r \in Refreshers, RefreshCall(r) PROVE ArchivesInv'
  BY <1>1, BeginArchives, FetchArchives, ImportsArchives, AbandonArchives, EndArchives,
     PromoteArchives
  DEF RefreshCall
<1>2. CASE UNCHANGED archivesVars
  BY <1>2
  DEF archivesVars, vars, refresherVars, diskVars, callVars, ArchivesInv, ArchivesTypeOK,
      NothingNewer, PriorsSettled, FetchesBounded, FetchBounded, CandidatesNewEnough,
      ReportsPrior, RepetitionsFirst, RepeatedAfresh
<1> QED
  BY <1>1, <1>2, PublishArchives DEF ArchivesNext

LEMMA ArchivesInvHolds == ArchivesSpec => []ArchivesInv
BY ArchivesInitInv, ArchivesNextInv, ArchivesRefine, InvHolds, PTL DEF ArchivesSpec

(***************************************************************************)
(* A promoted snapshot is as new as what the server offered when its       *)
(* attempt began, in every data set (_download_one, _reuse_archive).       *)
(***************************************************************************)
THEOREM AsNewAsServedAlways == ArchivesSpec => []AsNewAsServed
<1>1. ArchivesInv => AsNewAsServed
  BY DEF ArchivesInv, CandidatesNewEnough, AsNewAsServed
<1> QED
  BY <1>1, ArchivesInvHolds, PTL

(***************************************************************************)
(* A snapshot that is reported as unchanged had all that the server        *)
(* offered when the attempt began (_refresh_attempt).                      *)
(***************************************************************************)
THEOREM UnchangedIsTrueAlways == ArchivesSpec => []UnchangedIsTrue
<1>1. ArchivesInv => UnchangedIsTrue
  BY DEF ArchivesInv, ReportsPrior, UnchangedIsTrue
<1> QED
  BY <1>1, ArchivesInvHolds, PTL

(***************************************************************************)
(* An attempt is repeated at most once, and then copies nothing            *)
(* (refresh_catalog).                                                      *)
(***************************************************************************)
THEOREM RepeatedAfreshAlways == ArchivesSpec => []RepeatedAfresh
<1>1. ArchivesInv => RepeatedAfresh
  BY DEF ArchivesInv
<1> QED
  BY <1>1, ArchivesInvHolds, PTL

(***************************************************************************)
(* A refresh takes no data set back to an earlier version than the active  *)
(* snapshot has, if that one was active when it began (_refresh_attempt,   *)
(* _promote_snapshot).                                                     *)
(***************************************************************************)
THEOREM NeverBackwardsAlways == ArchivesSpec => NeverBackwards
<1>1. ASSUME Inv, ArchivesInv, NEW r \in Refreshers, pc[r] = "installed",
             prior[r] = pointer.id, prior[r] # None, NEW d \in Datasets
      PROVE  archive[mine[r]][d] >= archive[pointer.id][d]
  <2>1. archive[mine[r]][d] >= since[r][d] /\ archive[prior[r]][d] <= since[r][d]
    BY <1>1 DEF ArchivesInv, CandidatesNewEnough, PriorsSettled
  <2>2. mine[r] \in Snapshots /\ prior[r] \in Snapshots
    BY <1>1, OwnSnapshot DEF ArchivesInv, ArchivesTypeOK
  <2> QED
    BY <1>1, <2>1, <2>2 DEF ArchivesInv, ArchivesTypeOK
<1>2. Inv /\ ArchivesInv =>
        [\A r \in Refreshers :
           pc[r] = "installed" /\ pc'[r] = "activated" /\ prior[r] = pointer.id /\ prior[r] # None
             => \A d \in Datasets : archive[mine[r]][d] >= archive[pointer.id][d]]_archivesVars
  BY <1>1
<1> QED
  BY <1>2, ArchivesInvHolds, ArchivesRefine, InvHolds, PTL DEF NeverBackwards

-----------------------------------------------------------------------------
(* The documents of a database repeat its tables. *)
Current(s) == \A x \in Entities : documents[s][x] = Listed(db[s], x)

DocumentsTypeOK ==
  /\ documents \in [Snapshots -> [Entities -> SUBSET (Externals \cup Keys)]]
  /\ blind \subseteq Snapshots

CandidatesCurrent ==
  \A r \in Refreshers : pc[r] \in {"carried", "prepared", "moved", "installed"} => Current(mine[r])

DocumentsInv == Punctual /\ DocumentsTypeOK /\ CandidatesCurrent /\ DocumentsTrue

-----------------------------------------------------------------------------
(* Each step, whatever it does to the documents, is one of CatalogSystem.  *)
LEMMA DocumentsStep == [DocumentsNext]_documentVars => [Next]_vars
<1>1. ASSUME NEW r \in Refreshers, CarryAndRebuild(r) \/ OtherRefresh(r)
      PROVE  Refresh(r)
  BY <1>1 DEF CarryAndRebuild, OtherRefresh, Refresh, Proceed
<1>2. ASSUME NEW w \in Writers, StoreAndUpdate(w) \/ CommitAndUpdate(w) \/ OtherWrite(w)
      PROVE  Write(w)
  BY <1>2 DEF StoreAndUpdate, CommitAndUpdate, OtherWrite, Write, ProceedWrite
<1> QED
  BY <1>1, <1>2 DEF DocumentsNext, documentVars, Next, RefresherStep, WriterStep

(***************************************************************************)
(* Everything that is proved of CatalogSystem holds with the documents.    *)
(***************************************************************************)
LEMMA DocumentsRefine == DocumentsSpec => Spec
<1>1. DocumentsInit => Init
  BY DEF DocumentsInit
<1> QED
  BY <1>1, DocumentsStep, PTL DEF DocumentsSpec, Spec

(* An update writes what the tables say, and only where it is told to.     *)
LEMMA UpdateEffect ==
  ASSUME DocumentsTypeOK, NEW s \in Snapshots, NEW affected, UpdateDocuments(s, affected)
  PROVE  /\ documents' \in [Snapshots -> [Entities -> SUBSET (Externals \cup Keys)]]
         /\ \A x \in Entities :
              documents'[s][x] = IF x \in affected THEN Listed(db'[s], x) ELSE documents[s][x]
         /\ \A t \in Snapshots \ {s} : documents'[t] = documents[t]
BY DEF DocumentsTypeOK, UpdateDocuments, Listed

LEMMA DocumentsInitInv == Punctual /\ DocumentsInit => DocumentsInv
<1> SUFFICES ASSUME Punctual, DocumentsInit PROVE DocumentsInv
  OBVIOUS
<1>1. DocumentsTypeOK
  BY DEF DocumentsInit, DocumentsTypeOK, Listed
<1>2. CandidatesCurrent
  BY DEF DocumentsInit, Init, RefreshersInit, CandidatesCurrent
<1>3. DocumentsTrue
  BY DEF DocumentsInit, DocumentsTrue
<1> QED
  BY <1>1, <1>2, <1>3 DEF DocumentsInv

-----------------------------------------------------------------------------
(***************************************************************************)
(* What a refresher does leaves the databases of the other attempts that   *)
(* have been prepared alone, and its own once it is prepared.              *)
(***************************************************************************)
LEMMA CandidatesUntouched ==
  ASSUME Punctual, Inv, NEW r \in Refreshers, Refresh(r), ~CarryCrosswalk(r),
         NEW q \in Refreshers, pc'[q] \in {"carried", "prepared", "moved", "installed"}
  PROVE  /\ pc[q] \in {"carried", "prepared", "moved", "installed"}
         /\ mine'[q] = mine[q]
         /\ db'[mine[q]] = db[mine[q]]
<1> USE DEF Inv, TypeOK, DiskTypeOK, RefreshersTypeOK
<1>1. CASE q = r
  BY <1>1
  DEF Refresh, Proceed, Begin, Import, Materialize, Abandon, AcquireLock, CancelAcquire,
      Resolve, Refuse, WriteMarker, MoveIn, BreakMove, Install, Activate, Prune, Fail,
      Handle, Release, Cleanup, Crash, diskVars
<1>2. CASE q # r
  <2>1. pc'[q] = pc[q] /\ mine'[q] = mine[q]
    BY <1>2
    DEF Refresh, Proceed, Begin, Import, Materialize, Abandon, AcquireLock, CancelAcquire,
        Resolve, Refuse, CarryCrosswalk, WriteMarker, MoveIn, BreakMove, Install,
        Activate, Prune, Fail, Handle, Release, Cleanup, Crash, Forget, diskVars
  <2>2. pc[r] # "idle" => mine[r] # mine[q]
    BY <1>2, <2>1 DEF OwnIds
  <2>3. pc[r] \notin Holding /\ mine[q] \in Snapshots
    BY <1>2, <2>1, OwnSnapshot DEF LockOwner
  <2>4. CASE Import(r) \/ Materialize(r)
    BY <2>1, <2>2, <2>3, <2>4 DEF Import, Materialize
  <2>5. CASE Cleanup(r)
    BY <2>1, <2>2, <2>3, <2>5 DEF Cleanup, RemoveTrees, RemoveContents
  <2>6. CASE Begin(r)
    <3>1. mine[q] \notin Stale
      BY DEF Stale, Punctual
    <3> QED
      BY <2>1, <2>3, <2>6, <3>1 DEF Begin, RemoveContents
  <2>7. CASE UNCHANGED db
    BY <2>1, <2>7
  <2> QED
    BY <2>3, <2>4, <2>5, <2>6, <2>7
    DEF Refresh, Proceed, Abandon, AcquireLock, CancelAcquire, Resolve, Refuse,
        CarryCrosswalk, WriteMarker, MoveIn, BreakMove, Install, Activate, Prune, Fail,
        Handle, Release, Crash, diskVars
<1> QED
  BY <1>1, <1>2

(* The preparation rebuilds the documents of its own snapshot only.        *)
LEMMA CarryDocuments ==
  ASSUME Inv, DocumentsInv, NEW r \in Refreshers, CarryAndRebuild(r)
  PROVE  DocumentsInv'
<1> USE DEF Inv, TypeOK, DiskTypeOK, RefreshersTypeOK
<1>1. CarryCrosswalk(r) /\ UpdateDocuments(mine[r], Entities) /\ UNCHANGED <<blind, mine, pointer, place>>
  BY DEF CarryAndRebuild, CarryCrosswalk
<1>2. pc[r] = "resolved" /\ pc' = [pc EXCEPT ![r] = "carried"] /\ place[mine[r]] = "staging"
  BY <1>1 DEF CarryCrosswalk
<1>3. mine[r] \in Snapshots
  BY <1>2, OwnSnapshot
<1>4. \A s \in Snapshots \ {mine[r]} : db'[s] = db[s]
  BY <1>1 DEF CarryCrosswalk
<1>5. /\ DocumentsTypeOK'
      /\ Current(mine[r])'
      /\ \A s \in Snapshots \ {mine[r]} : documents'[s] = documents[s]
  BY <1>1, <1>3, UpdateEffect DEF DocumentsInv, DocumentsTypeOK, Current
<1>6. CandidatesCurrent'
  <2>1. \A q \in Refreshers \ {r} : pc'[q] \notin {"carried", "prepared", "moved", "installed"}
    BY <1>2 DEF LockOwner
  <2> QED
    BY <1>1, <1>5, <2>1 DEF CandidatesCurrent, Current
<1>7. DocumentsTrue'
  <2>1. pointer.id # mine[r]
    BY <1>2, <1>3 DEF ActiveOnDisk, Whole
  <2> QED
    BY <1>1, <1>4, <1>5, <2>1 DEF DocumentsInv, DocumentsTrue
<1> QED
  BY <1>5, <1>6, <1>7 DEF DocumentsInv

(* The other steps of a refresher write no documents.                      *)
LEMMA OtherRefreshDocuments ==
  ASSUME Inv, DocumentsInv, NEW r \in Refreshers, OtherRefresh(r), UNCHANGED <<documents, blind>>
  PROVE  DocumentsInv'
<1>1. Refresh(r) /\ ~CarryCrosswalk(r)
  <2>1. Refresh(r)
    BY DEF OtherRefresh, Refresh, Proceed
  <2>2. ~CarryCrosswalk(r)
    BY DEF OtherRefresh, Begin, Import, Materialize, Abandon, AcquireLock, CancelAcquire,
           Resolve, Refuse, CarryCrosswalk, WriteMarker, MoveIn, BreakMove, Install,
           Activate, Prune, Fail, Handle, Release, Cleanup, Crash, Inv, TypeOK,
           RefreshersTypeOK
  <2> QED
    BY <2>1, <2>2
<1>2. DocumentsTypeOK'
  BY DEF DocumentsInv, DocumentsTypeOK
<1>3. CandidatesCurrent'
  BY <1>1, CandidatesUntouched DEF CandidatesCurrent, Current, DocumentsInv
<1>4. DocumentsTrue'
  <2>1. CASE Activate(r)
    <3>1. pc[r] = "installed" /\ pointer'.id = mine[r] /\ UNCHANGED db
      BY <2>1 DEF Activate, ProspectivePointer
    <3> QED
      BY <3>1 DEF DocumentsInv, DocumentsTrue, CandidatesCurrent, Current
  <2>2. CASE ~Activate(r)
    BY <1>1, <2>2, ActiveUntouched DEF DocumentsInv, DocumentsTrue
  <2> QED
    BY <2>1, <2>2
<1> QED
  BY <1>2, <1>3, <1>4 DEF DocumentsInv

-----------------------------------------------------------------------------
(* While a writer holds the lock no candidate is prepared.                 *)
LEMMA NoCandidates ==
  ASSUME Inv, NEW w \in Writers, wpc[w] # "idle", UNCHANGED refresherVars
  PROVE  CandidatesCurrent'
BY DEF Inv, LockOwner, CandidatesCurrent, refresherVars

(***************************************************************************)
(* Enrichment: an entity that is neither the part nor had one of the       *)
(* identifiers keeps exactly those that it had.                            *)
(***************************************************************************)
LEMMA StoreDocuments ==
  ASSUME Inv, DocumentsInv, NEW w \in Writers, StoreAndUpdate(w), UNCHANGED refresherVars
  PROVE  DocumentsInv'
<1> USE DEF Inv
<1> DEFINE s == wtarget[w]
<1>1. /\ StoreCrosswalks(w) /\ wpc[w] = "locked" /\ wop[w].kind = "store"
      /\ UNCHANGED <<pointer, blind>>
      /\ UpdateDocuments(s, AffectedByStore(w))
  BY DEF StoreAndUpdate, StoreCrosswalks
<1>2. s \in Snapshots /\ s = pointer.id /\ wop[w].part \in Parts
      /\ wop[w].externals \in SUBSET Externals
  BY <1>1 DEF Requests, TargetsActive, Writes
<1>3. /\ db'[s].crosswalk = Confirm(db[s].crosswalk, wop[w].part, wop[w].externals)
      /\ db'[s].overrides = db[s].overrides
  BY <1>1, <1>2 DEF StoreCrosswalks, TypeOK, DiskTypeOK, Databases
<1>4. /\ DocumentsTypeOK'
      /\ \A x \in Entities :
           documents'[s][x] =
             IF x \in AffectedByStore(w) THEN Listed(db'[s], x) ELSE documents[s][x]
  BY <1>1, <1>2, UpdateEffect DEF DocumentsInv, DocumentsTypeOK
<1>5. ASSUME NEW x \in Entities, x \notin AffectedByStore(w)
      PROVE  Listed(db'[s], x) = Listed(db[s], x)
  <2>1. x # wop[w].part /\ x # None /\ \A e \in wop[w].externals : db[s].crosswalk[e] # x
    BY <1>5 DEF AffectedByStore, Entities
  <2>2. \A e \in Externals : db'[s].crosswalk[e] = x <=> db[s].crosswalk[e] = x
    BY <1>2, <1>3, <2>1 DEF Confirm
  <2> QED
    BY <1>3, <2>2 DEF Listed
<1>6. DocumentsTrue'
  BY <1>1, <1>2, <1>4, <1>5 DEF DocumentsInv, DocumentsTrue
<1>7. CandidatesCurrent'
  BY <1>1, NoCandidates
<1> QED
  BY <1>4, <1>6, <1>7 DEF DocumentsInv

(***************************************************************************)
(* Overrides: where the YAML file and the database agree on the key, the   *)
(* entities affected are the old target and the new one.                   *)
(***************************************************************************)
LEMMA CommitDocuments ==
  ASSUME Inv, DocumentsInv, NEW w \in Writers, CommitAndUpdate(w), UNCHANGED refresherVars
  PROVE  DocumentsInv'
<1> USE DEF Inv
<1> DEFINE s == wtarget[w]
           k == wop[w].key
<1>1. CommitOverride(w) /\ wpc[w] = "locked" /\ wop[w].kind # "store" /\ UNCHANGED pointer
  BY DEF CommitAndUpdate, CommitOverride
<1>2. CandidatesCurrent'
  BY <1>1, NoCandidates
<1>3. CASE s = None
  <2>1. UNCHANGED <<db, documents, blind>>
    BY <1>3 DEF CommitAndUpdate, CommitOverride
  <2> QED
    BY <1>1, <1>2, <2>1 DEF DocumentsInv, DocumentsTypeOK, DocumentsTrue
<1>4. CASE s # None
  <2>1. s \in Snapshots /\ s = pointer.id /\ k \in Keys
    BY <1>1, <1>4 DEF Requests, TargetsActive, Writes, TypeOK, WritersTypeOK
  <2>2. /\ db'[s].crosswalk = db[s].crosswalk
        /\ db'[s].overrides = [db[s].overrides EXCEPT ![k] = Entry(wop[w])]
    <3>1. db[s] \in Databases /\ db \in [Snapshots -> Databases]
      BY <2>1 DEF TypeOK, DiskTypeOK
    <3>2. db' = [db EXCEPT ![s].overrides[k] = Entry(wop[w])]
      BY <1>1, <1>4 DEF CommitOverride
    <3> QED
      BY <2>1, <3>1, <3>2 DEF Databases
  <2>3. /\ UpdateDocuments(s, AffectedByOverride(w))
        /\ blind' = IF db[s].overrides[k] = yaml[k] THEN blind ELSE blind \cup {s}
    BY <1>4 DEF CommitAndUpdate
  <2>4. /\ DocumentsTypeOK'
        /\ \A x \in Entities :
             documents'[s][x] =
               IF x \in AffectedByOverride(w) THEN Listed(db'[s], x) ELSE documents[s][x]
    BY <2>1, <2>3, UpdateEffect DEF DocumentsInv, DocumentsTypeOK
  <2>5. ASSUME NEW x \in Entities, x \notin AffectedByOverride(w), s \notin blind'
        PROVE  Listed(db'[s], x) = Listed(db[s], x)
    <3>1. x # Entry(wop[w]) /\ x # yaml[k] /\ db[s].overrides[k] = yaml[k]
      BY <2>3, <2>5 DEF AffectedByOverride
    <3>2. \A j \in Keys : db'[s].overrides[j] = x <=> db[s].overrides[j] = x
      BY <2>1, <2>2, <3>1 DEF TypeOK, DiskTypeOK, Databases
    <3> QED
      BY <2>2, <3>2 DEF Listed
  <2>6. DocumentsTrue'
    BY <1>1, <2>1, <2>3, <2>4, <2>5 DEF DocumentsInv, DocumentsTrue
  <2> QED
    BY <1>2, <2>4, <2>6 DEF DocumentsInv
<1> QED
  BY <1>3, <1>4

(* The other steps of a writer change no database.                         *)
LEMMA OtherWriteDocuments ==
  ASSUME Inv, DocumentsInv, NEW w \in Writers, OtherWrite(w), UNCHANGED refresherVars,
         UNCHANGED <<documents, blind>>
  PROVE  DocumentsInv'
<1>1. UNCHANGED <<pointer, db>>
  BY DEF OtherWrite, StartWrite, WriteYaml, FailWrite, FinishWrite, CrashWrite, EndWrite,
         diskVars
<1> QED
  BY <1>1
  DEF DocumentsInv, DocumentsTypeOK, CandidatesCurrent, Current, DocumentsTrue, refresherVars

-----------------------------------------------------------------------------
LEMMA DocumentsNextInv == Inv /\ DocumentsInv /\ [DocumentsNext]_documentVars => DocumentsInv'
<1> SUFFICES ASSUME Inv, DocumentsInv, [DocumentsNext]_documentVars PROVE DocumentsInv'
  OBVIOUS
<1>1. ASSUME NEW r \in Refreshers,
             CarryAndRebuild(r) \/ (OtherRefresh(r) /\ UNCHANGED <<documents, blind>>)
      PROVE  DocumentsInv'
  BY <1>1, CarryDocuments, OtherRefreshDocuments
<1>2. ASSUME NEW w \in Writers, UNCHANGED refresherVars,
             \/ StoreAndUpdate(w) \/ CommitAndUpdate(w)
             \/ OtherWrite(w) /\ UNCHANGED <<documents, blind>>
      PROVE  DocumentsInv'
  BY <1>2, StoreDocuments, CommitDocuments, OtherWriteDocuments
<1>3. CASE UNCHANGED documentVars
  BY <1>3
  DEF DocumentsInv, DocumentsTypeOK, CandidatesCurrent, Current, DocumentsTrue,
      documentVars, vars, refresherVars, diskVars
<1> QED
  BY <1>1, <1>2, <1>3 DEF DocumentsNext

(***************************************************************************)
(* Search finds the parts of the active catalog by exactly the identifiers *)
(* that are mapped to them (store_crosswalks, _persist_override,           *)
(* _delete_override, _carry_crosswalk), when no refresh sleeps.            *)
(***************************************************************************)
THEOREM DocumentsTrueAlways ==
  ASSUME Punctual
  PROVE  DocumentsSpec => []DocumentsTrue
<1>1. DocumentsInit => DocumentsInv
  BY DocumentsInitInv
<1>2. DocumentsInv => DocumentsTrue
  BY DEF DocumentsInv
<1> QED
  BY <1>1, <1>2, DocumentsNextInv, DocumentsRefine, InvHolds, PTL DEF DocumentsSpec

(***************************************************************************)
(* With the documents, too, the YAML file never says more than the active  *)
(* database (_persist_override).                                           *)
(***************************************************************************)
THEOREM DocumentsYamlFollows == DocumentsSpec => YamlFollowsDatabase
BY DocumentsRefine, YamlFollows

USE DiskAssumption DEF DiskAssumption
USE DEF Stages, BeforeLock, Holding, Promoting, Move

Activations == 1 .. Len(log)
Logged      == {log[i] : i \in Activations}
Order       == ProvenOrder(pointer)

LogTypeOK == log \in Seq(Snapshots) /\ managed \in BOOLEAN

(* The log ends with the pointer, and no snapshot is activated twice. *)
LogIsPast ==
  /\ Logged \subseteq used
  /\ \A i, j \in Activations : log[i] = log[j] => i = j
  /\ pointer.id \in Snapshots <=> Len(log) > 0
  /\ Len(log) > 0 => log[1] = pointer.id

(* A candidate becomes part of the past when it is activated. *)
CandidatesNew ==
  \A r \in Refreshers :
    /\ pc[r] \in BeforeLock \cup {"locked", "resolved", "carried", "prepared", "moved",
           "installed"} =>
         mine[r] \notin Logged
    /\ pc[r] = "activated" => mine[r] = pointer.id
    /\ pc[r] = "handling" => mine[r] \notin Logged \/ mine[r] = pointer.id

OrderIsTrue ==
  /\ \A s \in Snapshots : Order[s] > 0 => s \in Logged
  /\ \A i \in Activations : log[i] \in Installed => Order[log[i]] > 0
  /\ \A i, j \in Activations :
       i < j /\ log[i] \in Installed /\ log[j] \in Installed => Order[log[i]] > Order[log[j]]
  /\ pointer.gen = None => Len(log) <= 1

MarkersManaged ==
  managed => pointer.gen # None /\ \A s \in Snapshots : marker[s] \in {None, pointer.gen}

HistoryInv ==
  /\ Punctual
  /\ LogTypeOK /\ LogIsPast /\ CandidatesNew /\ OrderIsTrue /\ RecentRetained /\ MarkersManaged

-----------------------------------------------------------------------------
LEMMA OrderType ==
  ASSUME Inv
  PROVE  Order \in [Snapshots -> Nat]
BY DEF Inv, TypeOK, DiskTypeOK, Pointers, Order, ProvenOrder

LEMMA LoggedSnapshots ==
  ASSUME LogTypeOK
  PROVE  /\ Len(log) \in Nat
         /\ \A i \in Activations : log[i] \in Snapshots
         /\ Logged \subseteq Snapshots
BY DEF LogTypeOK, Logged, Activations

(* Every state that is reached from Init by Next is one of CatalogSystem.  *)
LEMMA HistoryRefines == HistorySpec => Spec
<1>1. HistoryInit => Init
  BY DEF HistoryInit
<1>2. [HistoryNext]_historyVars => [Next]_vars
  BY DEF HistoryNext, historyVars
<1> QED
  BY <1>1, <1>2, PTL DEF HistorySpec, Spec

(* The catalogs that a run may start from have at most one activation.     *)
LEMMA HistoryInitInv == Punctual /\ HistoryInit => HistoryInv
<1> SUFFICES ASSUME Punctual, HistoryInit PROVE HistoryInv
  OBVIOUS
<1> USE DEF HistoryInit
<1>1. PICK kind \in Origins, s \in Snapshots : Origin(kind, s)
  BY DEF Init, DiskInit
<1>2. /\ pointer.id \in Snapshots => pointer.id = s /\ s \in used /\ Whole(s)
      /\ Order[s] = IF pointer.id \in Snapshots THEN 1 ELSE 0
      /\ \A t \in Snapshots \ {s} : Order[t] = 0
      /\ pointer.gen # None => pointer.gen = s /\ \A t \in Snapshots : marker[t] \in {None, s}
  BY <1>1
  DEF Init, DiskInit, Origin, OriginPointer, NoPointer, NoHistory, Order, ProvenOrder, Whole
<1>3. CASE pointer.id \in Snapshots
  <2>1. log = <<s>>
    BY <1>2, <1>3
  <2>2. LogTypeOK /\ Len(log) = 1 /\ log[1] = s /\ Logged = {s}
    BY <2>1 DEF LogTypeOK, Logged, Activations
  <2>3. \A i \in Activations : i = 1
    BY <2>2 DEF Activations
  <2>4. LogIsPast /\ RecentRetained
    BY <1>2, <1>3, <2>2, <2>3 DEF LogIsPast, RecentRetained, Activations
  <2>5. OrderIsTrue
    BY <1>2, <1>3, <2>2, <2>3 DEF OrderIsTrue
  <2>6. CandidatesNew /\ MarkersManaged
    BY <1>2 DEF CandidatesNew, MarkersManaged, Init, RefreshersInit
  <2> QED
    BY <2>2, <2>4, <2>5, <2>6 DEF HistoryInv
<1>4. CASE pointer.id \notin Snapshots
  <2>1. log = <<>>
    BY <1>4
  <2>2. LogTypeOK /\ Len(log) = 0 /\ Logged = {}
    BY <2>1 DEF LogTypeOK, Logged, Activations
  <2>3. \A t \in Snapshots : Order[t] = 0
    BY <1>2, <1>4
  <2>4. LogIsPast /\ RecentRetained
    BY <1>4, <2>2 DEF LogIsPast, RecentRetained, Activations
  <2>5. OrderIsTrue
    BY <2>2, <2>3 DEF OrderIsTrue, Activations
  <2>6. CandidatesNew /\ MarkersManaged
    BY <1>2 DEF CandidatesNew, MarkersManaged, Init, RefreshersInit
  <2> QED
    BY <2>2, <2>4, <2>5, <2>6 DEF HistoryInv
<1> QED
  BY <1>3, <1>4

-----------------------------------------------------------------------------
(* What the retention count keeps *)

(* The first n entries of the log are n snapshots.                         *)
LEMMA CountFirst ==
  ASSUME LogTypeOK, LogIsPast, NEW n \in 0 .. Len(log)
  PROVE  IsFiniteSet({log[i] : i \in 1 .. n}) /\ Cardinality({log[i] : i \in 1 .. n}) = n
<1> DEFINE first == {log[i] : i \in 1 .. n}
           f == [i \in 1 .. n |-> log[i]]
<1>1. Len(log) \in Nat /\ n \in Nat /\ 1 .. n \subseteq Activations
  BY LoggedSnapshots DEF Activations
<1>2. f \in Bijection(1 .. n, first)
  <2>1. \A i, j \in 1 .. n : f[i] = f[j] => i = j
    BY <1>1 DEF LogIsPast
  <2>2. f \in Injection(1 .. n, first)
    BY <2>1 DEF Injection, IsInjective
  <2>3. f \in Surjection(1 .. n, first)
    BY DEF Surjection
  <2> QED
    BY <2>2, <2>3 DEF Bijection
<1>3. IsFiniteSet(1 .. n) /\ Cardinality(1 .. n) = n
  BY <1>1, FS_Interval
<1>4. ExistsBijection(1 .. n, first)
  BY <1>2 DEF ExistsBijection
<1> QED
  BY <1>3, <1>4, FS_Bijection

(* Whatever comes before an activation in the pointer's order came later.  *)
LEMMA NewerInOrder ==
  ASSUME Inv, HistoryInv, pointer.gen # None, NEW i \in Activations, log[i] \in Installed
  PROVE  /\ \A t \in Installed : pointer.order[t] > pointer.order[log[i]] =>
              \E j \in 1 .. i - 1 : t = log[j]
         /\ \A j \in 1 .. i - 1 :
              log[j] \in Installed => pointer.order[log[j]] > pointer.order[log[i]]
<1> USE OrderType, LoggedSnapshots DEF HistoryInv, OrderIsTrue, Installed, Logged, Activations
<1>1. Order = pointer.order
  BY DEF Order, ProvenOrder
<1>2. ASSUME NEW t \in Installed, pointer.order[t] > pointer.order[log[i]]
      PROVE  \E j \in 1 .. i - 1 : t = log[j]
  <2>1. Order[t] > 0
    BY <1>1, <1>2
  <2>2. PICK j \in Activations : t = log[j]
    BY <2>1
  <2>3. ~(i < j) /\ i # j
    BY <1>1, <1>2, <2>2
  <2> QED
    BY <2>2, <2>3
<1>3. ASSUME NEW j \in 1 .. i - 1, log[j] \in Installed
      PROVE  pointer.order[log[j]] > pointer.order[log[i]]
  BY <1>1, <1>3
<1> QED
  BY <1>2, <1>3

(* Pruning keeps the last snapshot_retention activations.                  *)
LEMMA RecentKept ==
  ASSUME Inv, HistoryInv, NEW i \in Activations, i <= Retention
  PROVE  log[i] \in Kept(pointer.id, pointer.order)
<1> USE LoggedSnapshots DEF HistoryInv, Activations
<1>1. CASE i = 1
  BY <1>1 DEF LogIsPast, Kept
<1>2. CASE i # 1
  <2> DEFINE newer == {t \in Installed : pointer.order[t] > pointer.order[log[i]]}
             first == {log[j] : j \in 1 .. i - 1}
  <2>1. pointer.gen # None
    BY <1>2 DEF OrderIsTrue
  <2>2. log[i] \in Installed
    BY DEF RecentRetained, Whole, Installed
  <2>3. pointer.order[log[i]] > 0
    BY <2>1, <2>2 DEF OrderIsTrue, Order, ProvenOrder
  <2>4. newer \in SUBSET first
    BY <2>1, <2>2, NewerInOrder
  <2>5. IsFiniteSet(first) /\ Cardinality(first) = i - 1
    <3> i - 1 \in 0 .. Len(log)
      OBVIOUS
    <3> QED
      BY CountFirst
  <2>6. IsFiniteSet(newer) /\ Cardinality(newer) \in Nat /\ Cardinality(newer) <= i - 1
    BY <2>4, <2>5, FS_Subset, FS_CardinalityType
  <2>7. Cardinality(newer) < Retention
    BY <2>6
  <2> QED
    BY <2>2, <2>3, <2>7 DEF Kept
<1> QED
  BY <1>1, <1>2

(* And it keeps nothing else.                                              *)
LEMMA KeptRecent ==
  ASSUME Inv, HistoryInv, pointer.gen # None, pointer.id \in Snapshots,
         NEW s \in Kept(pointer.id, pointer.order)
  PROVE  \E i \in Activations : i <= Retention /\ s = log[i]
<1> USE LoggedSnapshots DEF HistoryInv, Activations
<1>1. CASE s = pointer.id
  BY <1>1 DEF LogIsPast
<1>2. CASE s # pointer.id
  <2> DEFINE newer == {t \in Installed : pointer.order[t] > pointer.order[s]}
  <2>1. s \in Installed /\ pointer.order[s] > 0 /\ Cardinality(newer) < Retention
    BY <1>2 DEF Kept
  <2>2. PICK i \in Activations : s = log[i]
    BY <2>1 DEF OrderIsTrue, Order, ProvenOrder, Logged, Installed
  <2>3. ASSUME i > Retention PROVE FALSE
    <3> DEFINE first == {log[j] : j \in 1 .. Retention}
               before == {log[j] : j \in 1 .. i - 1}
    <3>1. IsFiniteSet(first) /\ Cardinality(first) = Retention
      <4> Retention \in 0 .. Len(log)
        BY <2>3
      <4> QED
        BY CountFirst
    <3>2. IsFiniteSet(before)
      <4> i - 1 \in 0 .. Len(log)
        OBVIOUS
      <4> QED
        BY CountFirst
    <3>3. newer \in SUBSET before
      BY <2>1, <2>2, NewerInOrder
    <3>4. first \in SUBSET newer
      <4>1. \A j \in 1 .. Retention : log[j] \in Installed /\ j \in 1 .. i - 1
        BY <2>3 DEF RecentRetained, Whole, Installed
      <4> QED
        BY <2>1, <2>2, <4>1, NewerInOrder
    <3>5. IsFiniteSet(newer)
      BY <3>2, <3>3, FS_Subset
    <3>6. Cardinality(newer) \in Nat /\ Cardinality(first) <= Cardinality(newer)
      BY <3>4, <3>5, FS_Subset, FS_CardinalityType
    <3> QED
      BY <2>1, <3>1, <3>6
  <2> QED
    BY <2>2, <2>3
<1> QED
  BY <1>1, <1>2

-----------------------------------------------------------------------------
(* The steps *)

(***************************************************************************)
(* A step that leaves the pointer alone keeps the invariant if it installs *)
(* no directory of the past, spares the retained ones, and marks nothing   *)
(* with another generation.                                                *)
(***************************************************************************)
LEMMA SamePointer ==
  ASSUME HistoryInv, UNCHANGED <<pointer, log, managed>>, used \subseteq used',
         CandidatesNew',
         \A s \in Logged : s \in Installed' => s \in Installed,
         \A i \in Activations : i <= Retention => Whole(log[i])',
         managed => \A s \in Snapshots : marker'[s] \in {None, pointer.gen}
  PROVE  HistoryInv'
<1> USE DEF HistoryInv, Activations, Logged
<1>1. LogTypeOK' /\ LogIsPast' /\ RecentRetained' /\ MarkersManaged'
  BY DEF LogTypeOK, LogIsPast, RecentRetained, MarkersManaged
<1>2. OrderIsTrue'
  <2>1. Order' = Order
    BY DEF Order, ProvenOrder
  <2> QED
    BY <2>1 DEF OrderIsTrue
<1> QED
  BY <1>1, <1>2

(* What the steps of a refresher do to the directories of the past.        *)
LEMMA PastSpared ==
  ASSUME Inv, HistoryInv, NEW r \in Refreshers, Refresh(r), ~Activate(r), NEW s \in Logged
  PROVE  s \in Installed' => s \in Installed
<1> USE DEF Inv, TypeOK, DiskTypeOK, RefreshersTypeOK
<1> s \in Snapshots /\ s \in used
  BY LoggedSnapshots DEF HistoryInv, LogIsPast
<1>1. CASE Begin(r)
  BY <1>1 DEF Begin, Installed, PlacesWithout, Stale
<1>2. CASE MoveIn(r) \/ BreakMove(r)
  BY <1>2, OwnSnapshot DEF MoveIn, BreakMove, Installed
<1>3. CASE Install(r)
  BY <1>3, OwnSnapshot DEF Install, Installed, HistoryInv, CandidatesNew
<1>4. CASE WriteMarker(r)
  BY <1>4, OwnSnapshot DEF WriteMarker, Installed
<1>5. CASE Prune(r) \/ Handle(r) \/ Cleanup(r)
  <2>1. \E gone : place' = PlacesWithout(gone) \/ UNCHANGED place
    BY <1>5 DEF Prune, Handle, Cleanup, TryRemoveTrees, RemoveTrees
  <2> QED
    BY <2>1 DEF PlacesWithout, Installed
<1>6. CASE UNCHANGED place
  BY <1>6 DEF Installed
<1> QED
  BY <1>1, <1>2, <1>3, <1>4, <1>5, <1>6
  DEF Refresh, Proceed, Import, Materialize, Abandon, AcquireLock, CancelAcquire, Resolve,
      Refuse, CarryCrosswalk, Activate, Fail, Release, Crash, diskVars

(* The retained snapshots stay, whatever is moved, pruned or cleaned up.   *)
LEMMA RecentSpared ==
  ASSUME Inv, HistoryInv, NEW r \in Refreshers, Refresh(r), ~Activate(r),
         NEW i \in Activations, i <= Retention, NEW s, s = log[i]
  PROVE  Whole(s)'
<1> USE DEF Inv, TypeOK, DiskTypeOK, RefreshersTypeOK
<1>1. Whole(s) /\ s \in Snapshots /\ s \in Logged /\ s \in used
  BY LoggedSnapshots DEF HistoryInv, RecentRetained, Activations, Logged, LogIsPast
<1>2. CASE Begin(r)
  BY <1>1, <1>2 DEF Begin, Whole, PlacesWithout, RemoveContents, Stale
<1>3. CASE WriteMarker(r) \/ MoveIn(r) \/ BreakMove(r) \/ Install(r)
  BY <1>1, <1>3, OwnSnapshot
  DEF WriteMarker, MoveIn, BreakMove, Install, Whole, HistoryInv, CandidatesNew
<1>4. CASE Prune(r)
  <2>1. s \notin Doomed(pointer)
    BY <1>1, RecentKept DEF Doomed, Whole
  <2> QED
    BY <1>1, <1>4, <2>1
    DEF Prune, TryRemoveTrees, RemoveTrees, PlacesWithout, RemoveContents, Whole
<1>5. CASE Handle(r)
  <2>1. s # mine[r] \/ pointer.id = mine[r]
    BY <1>1, <1>5 DEF Handle, HistoryInv, CandidatesNew
  <2> QED
    BY <1>1, <1>5, <2>1
    DEF Handle, TryRemoveTrees, RemoveTrees, PlacesWithout, RemoveContents, Whole
<1>6. CASE Cleanup(r)
  BY <1>1, <1>6 DEF Cleanup, RemoveTrees, PlacesWithout, RemoveContents, Whole
<1>7. CASE UNCHANGED <<place, damaged>>
  BY <1>1, <1>7 DEF Whole
<1> QED
  BY <1>2, <1>3, <1>4, <1>5, <1>6, <1>7
  DEF Refresh, Proceed, Import, Materialize, Abandon, AcquireLock, CancelAcquire, Resolve,
      Refuse, CarryCrosswalk, WriteMarker, Activate, Fail, Release, Crash, diskVars

(* A candidate stays new until it is activated.                            *)
LEMMA CandidatesStayNew ==
  ASSUME Inv, HistoryInv, NEW r \in Refreshers, Refresh(r), ~Activate(r), UNCHANGED log
  PROVE  CandidatesNew'
<1> USE DEF Inv, TypeOK, DiskTypeOK, RefreshersTypeOK, HistoryInv
<1>1. UNCHANGED <<pointer, Logged>>
  BY ActiveUntouched DEF Logged, Activations
<1>2. \A q \in Refreshers \ {r} : pc'[q] = pc[q] /\ mine'[q] = mine[q]
  BY DEF Refresh, Proceed, Begin, Import, Materialize, Abandon, AcquireLock,
         CancelAcquire, Resolve, Refuse, CarryCrosswalk, WriteMarker, MoveIn, BreakMove,
         Install, Activate, Prune, Fail, Handle, Release, Cleanup, Crash, Forget, diskVars
<1>3. CASE Begin(r)
  <2>1. pc'[r] = "fetching" /\ mine'[r] \in Snapshots \ used
    BY <1>3 DEF Begin
  <2> QED
    BY <1>1, <1>2, <2>1 DEF CandidatesNew, LogIsPast
<1>4. CASE ~Begin(r)
  <2>1. pc'[r] \in {"idle", "cleanup", "release"} \/ mine'[r] = mine[r]
    BY <1>4
    DEF Refresh, Proceed, Import, Materialize, Abandon, AcquireLock, CancelAcquire,
        Resolve, Refuse, CarryCrosswalk, WriteMarker, MoveIn, BreakMove, Install,
        Activate, Prune, Fail, Handle, Release, Cleanup, Crash, diskVars
  <2>2. /\ pc'[r] # "activated"
        /\ pc'[r] = "handling" => pc[r] \in Promoting
        /\ pc'[r] \in BeforeLock \cup {"locked", "resolved", "carried", "prepared", "moved",
           "installed"} =>
             pc[r] \in BeforeLock \cup {"locked", "resolved", "carried", "prepared", "moved",
           "installed"}
    BY <1>4
    DEF Refresh, Proceed, Import, Materialize, Abandon, AcquireLock, CancelAcquire,
        Resolve, Refuse, CarryCrosswalk, WriteMarker, MoveIn, BreakMove, Install,
        Activate, Prune, Fail, Handle, Release, Cleanup, Crash, diskVars
  <2> QED
    BY <1>1, <1>2, <2>1, <2>2 DEF CandidatesNew
<1> QED
  BY <1>3, <1>4

(* In a managed catalog every marker is of the one generation.             *)
LEMMA MarkersStay ==
  ASSUME Inv, HistoryInv, NEW r \in Refreshers, Refresh(r), managed, NEW s \in Snapshots
  PROVE  marker'[s] \in {None, pointer.gen}
<1> USE DEF Inv, TypeOK, DiskTypeOK, RefreshersTypeOK, HistoryInv, MarkersManaged
<1>1. CASE WriteMarker(r)
  <2>1. ProvenGeneration(base[r], mine[r]) = pointer.gen
    BY <1>1 DEF WriteMarker, NoLostActivation, ProvenGeneration
  <2> QED
    BY <1>1, <2>1 DEF WriteMarker
<1>2. CASE Begin(r)
  BY <1>2 DEF Begin, RemoveContents
<1>3. CASE Prune(r) \/ Handle(r) \/ Cleanup(r)
  BY <1>3 DEF Prune, Handle, Cleanup, TryRemoveTrees, RemoveTrees, PlacesWithout, RemoveContents
<1>4. CASE UNCHANGED marker
  BY <1>4
<1> QED
  BY <1>1, <1>2, <1>3, <1>4
  DEF Refresh, Proceed, Import, Materialize, Abandon, AcquireLock, CancelAcquire, Resolve,
      Refuse, CarryCrosswalk, MoveIn, BreakMove, Install, Activate, Fail, Release, Crash,
      diskVars

LEMMA RefreshHistory ==
  ASSUME Inv, HistoryInv, NEW r \in Refreshers, Refresh(r), ~Activate(r), Record
  PROVE  HistoryInv'
<1>1. UNCHANGED <<pointer, log, managed>>
  BY ActiveUntouched DEF Record
<1>2. used \subseteq used'
  BY DEF Refresh, Proceed, Begin, Import, Materialize, Abandon, AcquireLock,
         CancelAcquire, Resolve, Refuse, CarryCrosswalk, WriteMarker, MoveIn, BreakMove,
         Install, Activate, Prune, Fail, Handle, Release, Cleanup, Crash, diskVars
<1>3. \A i \in Activations : i <= Retention => Whole(log[i])'
  BY <1>1, RecentSpared DEF Whole
<1> QED
  BY <1>1, <1>2, <1>3, SamePointer, PastSpared, CandidatesStayNew, MarkersStay

-----------------------------------------------------------------------------
(***************************************************************************)
(* The activation puts its snapshot before all that the pointer lists, and *)
(* drops from the list what is no longer installed.                        *)
(***************************************************************************)
LEMMA ActivateHistory ==
  ASSUME Inv, HistoryInv, NEW r \in Refreshers, Activate(r), Record
  PROVE  HistoryInv'
<1> USE DEF Inv, Activate
<1> DEFINE new == mine[r]
<1>1. /\ new \in Snapshots \ Logged /\ new \in used /\ new # pointer.id
      /\ Whole(new) /\ base[r] = pointer
  BY OwnSnapshot
  DEF OwnPlaces, OwnDamage, OwnIds, NoLostActivation, HistoryInv, CandidatesNew, Whole
<1>2. /\ pointer'.id = new
      /\ pointer'.gen = ProvenGeneration(pointer, new) /\ pointer'.gen # None
      /\ \A s \in Snapshots : pointer'.order[s] =
           IF s = new
             THEN (IF pointer.id \in Snapshots THEN Order[pointer.id] ELSE 0) + 1
             ELSE IF s \in Installed /\ Order[s] > 0 THEN Order[s] ELSE 0
  BY <1>1 DEF ProspectivePointer, ProvenGeneration, Order, TypeOK, DiskTypeOK, Pointers
<1>3. Order \in [Snapshots -> Nat] /\ Order' = pointer'.order
  BY <1>2, OrderType DEF Order, ProvenOrder
<1>4. /\ log' \in Seq(Snapshots) /\ Len(log') = Len(log) + 1
      /\ log'[1] = new
      /\ \A i \in Activations : log'[i + 1] = log[i]
  BY <1>1, <1>2 DEF Record, HistoryInv, LogTypeOK, Activations
<1>5. \A i \in Activations' : i # 1 => i - 1 \in Activations /\ log'[i] = log[i - 1]
  BY <1>4, LoggedSnapshots DEF HistoryInv, Activations
<1>6. Logged' = Logged \cup {new}
  <2>1. \A i \in Activations : i + 1 \in Activations'
    BY <1>4, LoggedSnapshots DEF HistoryInv, Activations
  <2>2. 1 \in Activations'
    BY <1>4, LoggedSnapshots DEF HistoryInv, Activations
  <2>3. \A s \in Logged' : s \in Logged \cup {new}
    BY <1>4, <1>5 DEF Logged
  <2>4. \A s \in Logged \cup {new} : s \in Logged'
    BY <1>4, <2>1, <2>2 DEF Logged
  <2> QED
    BY <2>3, <2>4
<1>7. LogTypeOK' /\ MarkersManaged'
  BY <1>2, <1>4 DEF HistoryInv, LogTypeOK, MarkersManaged, Record, ProvenGeneration
<1>8. LogIsPast'
  <2>1. \A i, j \in Activations' : log'[i] = log'[j] => i = j
    <3> SUFFICES ASSUME NEW i \in Activations', NEW j \in Activations', log'[i] = log'[j], i # j
                 PROVE  FALSE
      OBVIOUS
    <3>1. CASE i = 1 \/ j = 1
      BY <1>1, <1>4, <1>5, <3>1 DEF Logged
    <3>2. CASE i # 1 /\ j # 1
      <4>1. i - 1 \in Activations /\ j - 1 \in Activations /\ log[i - 1] = log[j - 1]
        BY <1>5, <3>2
      <4>2. i - 1 = j - 1
        BY <4>1 DEF HistoryInv, LogIsPast
      <4>3. i \in Int /\ j \in Int
        BY <1>4, LoggedSnapshots DEF HistoryInv, Activations
      <4> QED
        BY <4>2, <4>3
    <3> QED
      BY <3>1, <3>2
  <2>2. Logged' \subseteq used'
    BY <1>1, <1>6 DEF HistoryInv, LogIsPast
  <2> QED
    BY <1>1, <1>2, <1>4, <2>1, <2>2, LoggedSnapshots DEF HistoryInv, LogIsPast
<1>9. CandidatesNew'
  <2>1. \A q \in Refreshers \ {r} : pc'[q] = pc[q] /\ pc[q] \notin Holding
    BY DEF LockOwner, TypeOK, RefreshersTypeOK
  <2>2. \A q \in Refreshers \ {r} : pc[q] # "idle" => mine[q] # new
    BY DEF OwnIds
  <2>3. pc'[r] = "activated"
    BY DEF TypeOK, RefreshersTypeOK
  <2> QED
    BY <1>2, <1>6, <2>1, <2>2, <2>3 DEF HistoryInv, CandidatesNew
<1>10. OrderIsTrue'
  <2>1. \A i \in Activations : log[i] \in Installed =>
          /\ Order'[log[i]] = Order[log[i]] /\ Order[log[i]] > 0
          /\ pointer.id \in Snapshots /\ Order[pointer.id] >= Order[log[i]]
    <3> SUFFICES ASSUME NEW i \in Activations, log[i] \in Installed
                 PROVE  /\ Order'[log[i]] = Order[log[i]] /\ Order[log[i]] > 0
                        /\ pointer.id \in Snapshots /\ Order[pointer.id] >= Order[log[i]]
      OBVIOUS
    <3>1. log[i] \in Snapshots /\ log[i] # new /\ Order[log[i]] > 0
      BY <1>1, LoggedSnapshots DEF HistoryInv, OrderIsTrue, Logged
    <3>2. pointer.id \in Snapshots /\ pointer.id = log[1] /\ log[1] \in Installed
      BY LoggedSnapshots DEF HistoryInv, LogIsPast, Activations, ActiveOnDisk, Whole, Installed
    <3>3. Order[pointer.id] >= Order[log[i]]
      <4>1. CASE i = 1
        BY <1>3, <3>2, <4>1
      <4>2. CASE i # 1
        BY <1>3, <3>1, <3>2, <4>2, LoggedSnapshots DEF HistoryInv, OrderIsTrue, Activations
      <4> QED
        BY <4>1, <4>2
    <3> QED
      BY <1>2, <1>3, <3>1, <3>2, <3>3
  <2>2. /\ Order'[new] > 0
        /\ pointer.id \in Snapshots => Order'[new] > Order[pointer.id]
    BY <1>1, <1>2, <1>3
  <2>3. \A s \in Snapshots : Order'[s] > 0 => s \in Logged'
    BY <1>2, <1>3, <1>6 DEF HistoryInv, OrderIsTrue
  <2>4. \A i \in Activations' : log'[i] \in Installed' => Order'[log'[i]] > 0
    BY <1>4, <1>5, <2>1, <2>2 DEF Installed
  <2>5. ASSUME NEW i \in Activations', NEW j \in Activations', i < j,
               log'[i] \in Installed', log'[j] \in Installed'
        PROVE  Order'[log'[i]] > Order'[log'[j]]
    <3>1. j # 1 /\ j - 1 \in Activations /\ log'[j] = log[j - 1]
      BY <1>4, <1>5, <2>5, LoggedSnapshots DEF Activations, HistoryInv
    <3>2. log[j - 1] \in Installed /\ log[j - 1] \in Snapshots
      BY <2>5, <3>1 DEF Installed
    <3>3. CASE i = 1
      <4>1. /\ Order'[log[j - 1]] = Order[log[j - 1]]
            /\ pointer.id \in Snapshots /\ Order[pointer.id] >= Order[log[j - 1]]
        BY <2>1, <3>1, <3>2
      <4>2. Order[log[j - 1]] \in Nat /\ Order[pointer.id] \in Nat
        BY <1>3, <3>2, <4>1
      <4>3. Order'[new] = Order[pointer.id] + 1
        BY <1>1, <1>2, <1>3, <4>1
      <4>4. log'[i] = new
        BY <1>4, <3>3
      <4> QED
        BY <3>1, <4>1, <4>2, <4>3, <4>4
    <3>4. CASE i # 1
      <4>1. i - 1 \in Activations /\ log'[i] = log[i - 1] /\ i - 1 < j - 1
        BY <1>5, <2>5, <3>4, LoggedSnapshots DEF Activations, HistoryInv
      <4>2. log[i - 1] \in Installed
        BY <2>5, <4>1 DEF Installed
      <4>3. Order[log[i - 1]] > Order[log[j - 1]]
        BY <3>1, <3>2, <4>1, <4>2 DEF HistoryInv, OrderIsTrue
      <4> QED
        BY <2>1, <3>1, <3>2, <4>1, <4>2, <4>3
    <3> QED
      BY <3>3, <3>4
  <2> QED
    BY <1>2, <2>3, <2>4, <2>5 DEF OrderIsTrue
<1>11. RecentRetained'
  <2>1. ASSUME NEW i \in Activations', i <= Retention
        PROVE  place[log'[i]] = "installed" /\ log'[i] \notin damaged
    <3>1. CASE i = 1
      BY <1>1, <1>4, <3>1 DEF Whole
    <3>2. CASE i # 1
      <4>1. i - 1 \in Activations /\ log'[i] = log[i - 1] /\ i - 1 <= Retention
        BY <1>5, <2>1, <3>2, LoggedSnapshots DEF Activations, HistoryInv
      <4> QED
        BY <4>1 DEF HistoryInv, RecentRetained, Activations, Whole
    <3> QED
      BY <3>1, <3>2
  <2> QED
    BY <2>1 DEF RecentRetained, Activations, Whole
<1> QED
  BY <1>7, <1>8, <1>9, <1>10, <1>11 DEF HistoryInv

-----------------------------------------------------------------------------
(* Writers and sessions touch neither pointer nor directories.             *)
LEMMA OthersHistory ==
  ASSUME Inv, HistoryInv, WriterStep \/ ReaderStep \/ UNCHANGED vars,
         Record \/ UNCHANGED <<log, managed>>
  PROVE  HistoryInv'
<1>1. UNCHANGED <<pointer, place, damaged, marker, used, refresherVars>>
  BY DEF WriterStep, Write, ProceedWrite, StartWrite, StoreCrosswalks, CommitOverride,
         WriteYaml, FailWrite, FinishWrite, CrashWrite, EndWrite, ReaderStep, Open,
         ProceedOpen, StartOpen, StartUnlocked, ResolveActive, Connect, FailOpen, Close,
         CrashOpen, EndOpen, vars, refresherVars, diskVars
<1>2. UNCHANGED <<log, managed>>
  BY <1>1 DEF Record
<1>3. CandidatesNew'
  BY <1>1, <1>2 DEF HistoryInv, CandidatesNew, refresherVars, Logged, Activations
<1> QED
  BY <1>1, <1>2, <1>3, SamePointer
  DEF Installed, Whole, HistoryInv, RecentRetained, Activations, MarkersManaged

LEMMA HistoryNextInv == Inv /\ HistoryInv /\ [HistoryNext]_historyVars => HistoryInv'
<1> SUFFICES ASSUME Inv, HistoryInv, [HistoryNext]_historyVars PROVE HistoryInv'
  OBVIOUS
<1>1. CASE RefresherStep /\ Record
  BY <1>1, RefreshHistory, ActivateHistory DEF RefresherStep
<1>2. CASE (WriterStep \/ ReaderStep) /\ Record
  BY <1>2, OthersHistory
<1>3. CASE UNCHANGED historyVars
  BY <1>3, OthersHistory DEF historyVars
<1> QED
  BY <1>1, <1>2, <1>3 DEF HistoryNext, Next

LEMMA HistoryInvHolds == ASSUME Punctual PROVE HistorySpec => [](Inv /\ HistoryInv)
<1>1. HistoryInit => HistoryInv
  BY HistoryInitInv
<1> QED
  BY <1>1, HistoryNextInv, HistoryRefines, InvHolds, PTL DEF HistorySpec

(***************************************************************************)
(* The last snapshot_retention activations are on disk and complete,       *)
(* whatever failed or died between them (_prospective_pointer,             *)
(* _prune_snapshots), when no refresh sleeps.                              *)
(***************************************************************************)
THEOREM RecentRetainedAlways ==
  ASSUME Punctual
  PROVE  HistorySpec => []RecentRetained
<1>1. HistoryInv => RecentRetained
  BY DEF HistoryInv
<1> QED
  BY <1>1, HistoryInvHolds, PTL

(***************************************************************************)
(* The pointer's history lists every activated snapshot that is still on   *)
(* disk, in the order of the activations (_activation_history).            *)
(***************************************************************************)
THEOREM HistoryIsTrueAlways ==
  ASSUME Punctual
  PROVE  HistorySpec => []HistoryIsTrue
<1>1. ASSUME Inv, HistoryInv, NEW i \in Activations, NEW j \in Activations, i < j,
             log[i] \in Installed, log[j] \in Installed
      PROVE  pointer.order[log[i]] > pointer.order[log[j]] /\ pointer.order[log[j]] > 0
  <2>1. pointer.gen # None
    BY <1>1, LoggedSnapshots DEF HistoryInv, OrderIsTrue, Activations
  <2>2. Order = pointer.order
    BY <2>1 DEF Order, ProvenOrder
  <2> QED
    BY <1>1, <2>2 DEF HistoryInv, OrderIsTrue
<1>2. Inv /\ HistoryInv => HistoryIsTrue
  BY <1>1 DEF HistoryIsTrue, Activations
<1> QED
  BY <1>2, HistoryInvHolds, PTL

(***************************************************************************)
(* A promotion that gets through its pruning leaves, except where a        *)
(* removal failed, no abandoned transfer, and in a catalog that began      *)
(* under this release no orphan (_prune_snapshots).                        *)
(***************************************************************************)
THEOREM PruningCleansAlways ==
  ASSUME Punctual
  PROVE  HistorySpec => PruningCleans
<1>1. ASSUME Inv, HistoryInv, HistoryNext, NEW r \in Refreshers, Pruned(r)
      PROVE  /\ pointer.id = mine[r] /\ pointer.id \in Snapshots /\ UNCHANGED pointer
             /\ TryRemoveTrees(Doomed(pointer))
  <2>1. Prune(r)
    <3>1. RefresherStep
      BY <1>1
      DEF HistoryNext, Next, WriterStep, ReaderStep, refresherVars, Pruned
    <3>2. PICK q \in Refreshers : Refresh(q)
      BY <3>1 DEF RefresherStep
    <3>3. q = r
      BY <1>1, <3>2
      DEF Refresh, Proceed, Begin, Import, Materialize, Abandon, AcquireLock,
          CancelAcquire, Resolve, Refuse, CarryCrosswalk, WriteMarker, MoveIn, BreakMove,
          Install, Activate, Prune, Fail, Handle, Release, Cleanup, Crash, Pruned, Inv,
          TypeOK, RefreshersTypeOK
    <3> QED
      BY <1>1, <3>2, <3>3
      DEF Refresh, Proceed, Begin, Import, Materialize, Abandon, AcquireLock,
          CancelAcquire, Resolve, Refuse, CarryCrosswalk, WriteMarker, MoveIn, BreakMove,
          Install, Activate, Fail, Handle, Release, Cleanup, Crash, Pruned, Inv, TypeOK,
          RefreshersTypeOK
  <2>2. mine[r] = pointer.id /\ mine[r] \in Snapshots
    BY <1>1, OwnSnapshot DEF HistoryInv, CandidatesNew, Pruned
  <2> QED
    BY <2>1, <2>2 DEF Prune
<1>2. ASSUME Inv, HistoryInv, HistoryNext, NEW r \in Refreshers, Pruned(r),
             NEW s \in Snapshots, place'[s] = "incoming"
      PROVE  s \in damaged'
  BY <1>1, <1>2
  DEF TryRemoveTrees, RemoveTrees, PlacesWithout, RemoveContents, Doomed, Inv, TypeOK,
      DiskTypeOK
<1>3. ASSUME Inv, HistoryInv, HistoryNext, NEW r \in Refreshers, Pruned(r), managed,
             NEW s \in (Installed \ damaged)', marker'[s] # None
      PROVE  \E i \in Activations : i <= Retention /\ s = log[i]
  <2>1. s \in Snapshots /\ s \notin Doomed(pointer) /\ s \in Installed /\ marker[s] # None
    BY <1>1, <1>3
    DEF TryRemoveTrees, RemoveTrees, PlacesWithout, RemoveContents, Installed, Inv,
        TypeOK, DiskTypeOK, Doomed
  <2>2. pointer.gen # None /\ marker[s] = pointer.gen
    BY <1>3, <2>1 DEF HistoryInv, MarkersManaged
  <2>3. s \in Kept(pointer.id, pointer.order)
    BY <2>1, <2>2 DEF Doomed
  <2> QED
    BY <1>1, <1>3, <2>2, <2>3, KeptRecent
<1>4. Inv /\ HistoryInv /\ [HistoryNext]_historyVars =>
        [OnlyBrokenTransfers /\ (managed => OnlyRetainedMarked)]_historyVars
  BY <1>2, <1>3 DEF OnlyBrokenTransfers, OnlyRetainedMarked, Activations
<1> QED
  BY <1>4, HistoryInvHolds, PTL DEF HistorySpec, PruningCleans

===============================================================================
