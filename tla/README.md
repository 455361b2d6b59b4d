# A verification of rebrickable

rebrickable keeps a local SQLite catalog of LEGO data. `rebrickable refresh`
downloads twelve archives, imports them into a new snapshot and promotes it;
meanwhile other processes open the catalog, store API-confirmed mappings in it
and record user overrides. On one catalog it answers queries: parts, sets,
bills of materials, substitutes, mappings, a full-text search. Its API client
paces and retries requests to the Rebrickable server, and a command line wraps
the whole. These modules model all of this in TLA+, check small instances with
TLC, and prove the main properties with TLAPS.

## 1. The system

| Component | Code | State | Operations | What is hard |
|---|---|---|---|---|
| Snapshot promotion | `refresh.py`, `_atomic.py` | the pointer file, the snapshot directories and their markers, the staging directory of each attempt | `refresh_catalog`, `_promote_snapshot`, `_prune_snapshots` | other refreshers, failures after an effect, crashes, failed removals, older catalogs |
| Download and reuse | `refresh.py` | archives and fingerprints in staging | `_download_one`, `_reuse_archive`, the integrity retry | a 304 for an archive that another refresh prunes; a slow refresh after a fast one; a retry of a retry |
| Workers and cancellation | `_workers.py` | a thread and the task waiting for it | `settle`, `run_in_thread`, `acquire_lock` | a cancellation between the thread's effect and the task's next step |
| Import | `catalog/importers.py`, `schema.py` | one transaction in a private file | `import_catalog`, `validate_references` | twelve files that are sound one by one and contradict each other |
| Opening, status | `catalog/database.py` | the lock while opening; the connection | `open_catalog`, `catalog_state`, `_inspect_catalog` | pruning between resolving and connecting; a database that changes between two looks at it |
| Sessions | `session.py`, `bridge/_session.py` | `_db`, `_opened_state`, `_open_lock` | `_connection`, `close`, `refresh`, queries of several awaits | a snapshot pinned next to a moving pointer; closing and reopening between the awaits of another task |
| Crosswalk enrichment | `bridge/cache.py` | cache table and search documents of the active database | `store_crosswalks` | a refresh in flight |
| User overrides | `bridge/overrides.py`, `bridge/ldraw.py` | the YAML file, a table and the search documents of each database | `record_override`, `delete_override`, `materialize_overrides` | two stores written one after the other |
| Mapping resolution | `bridge/mappings.py`, `bridge/ldraw.py` | none | the `resolve_*` queries, `translate_bom` | ranking, ambiguity, precedence of overrides |
| API client | `api/client.py` | `_next_request_at`, `_throttle_until`, the pacing lock | `_pace`, `_send`, `_iter`, `*_sequential` | a throttle answer while others sleep; retries of what was done |
| Command line | `cli.py` | `_OutputState` | `_run`, `_main` | output errors next to the command's own; stdout and stderr on one stream |
| Queries and search | `catalog/queries.py`, `search.py`, `traversal.py`, `session.py` | none | molds, substitutes, themes, colour checks, search | cycles, ties, chunks of queries, pages |
| Inventories, BOMs | `catalog/inventory.py`, `bom.py`, `exports.py` | none | expansion, reading, normalisation, difference, export | shared and nested owners, quantities along paths |
| Operation registry, DTOs | `api/operation_registry.py`, `api/models.py` | none | | a generated table |
| Configuration, types | `config.py`, `dirs.py`, `errors.py`, `types.py` | none | | |

The components of the catalog interact through files only, in one direction
each: a refresher writes pointer, directories and databases; a bridge writer
writes the active database and the YAML file, which a refresher reads; a
session reads the pointer and one database. The promotion lock, a file lock
beside the pointer, orders them where they take it. Everything else is
interleaved arbitrarily. Within a process the tasks of a session share its
connection, and interleave at every `await`.

What makes the components correct:

- promotion: the pointer always names a complete directory; the retained
  activations are the last ones and are there; nothing that should go stays;
  the pointer that a promotion replaces is the one it read;
- download: a promoted snapshot is as new as what the server offered when the
  attempt began, whatever was copied; UNCHANGED is true;
- import: an imported catalog has a target for every reference;
- mappings: what enrichment confirmed survives a refresh unless its part is gone;
- overrides: the YAML file is never ahead of the database, a new snapshot has
  what the YAML file says, and search finds a part by what is mapped to it;
- opening and sessions: a session connects to a complete snapshot, the active
  one, and its answers name the snapshot they were read from;
- all of them: the lock is given back, and an operation that runs ends;
- the API client: requests keep their distance, a throttle is honoured, what
  may not be repeated is not, and a partial failure is reported truly;
- queries: the answers are those of definitions that do not follow the code,
  and they exist on cyclic data too;
- the command line: no output is lost silently, diagnostics do not change the
  answer, each failure is told once.

`PROJECT.json` lists every component with its status and every hazard with the
line where it bites and the properties that watch it.

## 2. The modules

    CatalogDisk  <-- Promotion  <----+
         ^                           |
         +-- BridgeWriters  <-- CatalogSystem --> ActiveCatalog (refinement)
         +-- ReaderSessions <--------+   ^
                                         |
         +-----------------+-------------+--+----------------+
    PromotionHistory  CatalogArchives  CatalogDocuments  SessionTasks
         ^                 ^
     MCPromotion       MCArchives

    Orders <-- PartRelations <-- PartColors
       ^------ Search, Boms
    Inventories  Mappings  DatasetImport  CatalogStatus
         ^
         +-- CatalogQueries (INSTANCE each of them; EXTENDS CommandLine) <-- MCQueries

    ApiClient

    CatalogSystemProofs <-- CatalogDataProofs, SessionTasksProofs
    CatalogQueriesProofs <-- CatalogPartsProofs, CatalogBomsProofs
    CommandLineProofs, ApiClientProofs

| Module | Models | How it corresponds to the code |
|---|---|---|
| `CatalogDisk` | the shared files and the operators on them | `pointer` is `active.json`; `place` where a snapshot's directory is; `damaged` the directories a failed removal or move left; `marker` the generation in `.rebrickable-activation.json`; `db` a database's ids, crosswalk cache, overrides and schema version; `yaml`; `lock`; `used` the ids drawn; `home` whether the lock file's directory exists |
| `Promotion` | `_refresh_attempt`, `_promote_snapshot` | one action per step between which another process can see a difference; `pc` names the stage |
| `BridgeWriters` | `store_crosswalks`, `_persist_override`, `_delete_override` | lock and resolve, commit, write the YAML file, release |
| `ReaderSessions` | `open_catalog`, `close` | lock and resolve, connect; and the branch that takes no lock |
| `CatalogSystem` | all of them on one catalog | the properties, the inductive invariant, fairness |
| `ActiveCatalog` | the promise to users | an active snapshot, replaced whole; its mappings |
| `PromotionHistory` | the refreshers, with a history variable | `log` lists the true activations, which the pointer's own history is compared with; `managed` says whether the catalog began with a history |
| `CatalogArchives` | the download phase of `_refresh_attempt` in front of the promotion, and the server | `server` counts the versions of each data set; `archive` is what each snapshot holds; `fetch` is an archive on its way (asked, copied, fetched); `calls` and `again` are the integrity retry; `since` and `report` are history |
| `CatalogDocuments` | the search documents next to the writers and refreshers | every action that writes a mapping also does to `documents` what its transaction does, for the entities that the code takes to be affected |
| `SessionTasks` | the asyncio tasks of one `RebrickableSession` | a call is a sequence of steps, cut at its awaits; `attached`, `opened`, `queue` are `_db`, `_opened_state`, `_open_lock`; one reader of `CatalogSystem` is the connection |
| `Inventories`, `PartRelations`, `PartColors`, `Search`, `Mappings`, `Boms` | the queries | operators named after the functions; a catalog is a record of tables |
| `Orders` | what `ORDER BY` and `sorted()` return | each element stands where as many come before it. The community modules' `SortSeq` has a definition that only TLC's own code evaluates, and the proofs need one to reason from |
| `DatasetImport` | `import_catalog` | the tables with their columns, constraints and references; rows are inserted in batches, in one transaction |
| `CatalogStatus` | `_inspect_catalog`, what `_refresh_attempt` makes of it, `_copy_crosswalk`'s decision | a case is what is on disk at the instants at which a refresh looks |
| `CommandLine` | `_write_stdout`, `_write_stderr`, `_flush_stream`, `_fail_stream`, `_run`, `_main` | `output` is `_OutputState`; each write and flush may fail in any way |
| `CatalogQueries` | one question or command, and its answer | the questions are constants; the reference definitions stand beside the properties |
| `ApiClient` | `_pace`, `_send`, `_iter`, the sequential batch | tasks queue for the pacing lock, sleep, send and are answered; `gap` and `throttle` are `_next_request_at` and `_throttle_until` minus now; `applied` is what the server carried out, `owed` what a 429 asked of a task |

`CatalogArchives`, `CatalogDocuments` and `SessionTasks` refine `CatalogSystem`:
each of their steps is one of its steps or leaves its variables alone. That is
proved, and carries the invariant of `CatalogSystem` over to them.

Choices of abstraction:

- A snapshot id holds a uuid, so `used` never gives one twice. A *generation*
  (another uuid) is named by the snapshot whose promotion created it.
- The activation history is a function `order` from ids to their rank, rather
  than a list: what the code asks of the list is membership and order.
- In `Promotion` downloading and importing are one step that yields any data
  set; it works in a private directory. `CatalogArchives` puts the downloads in
  front of that step, one request and one copy at a time. The pre-checks at the
  start of an attempt change nothing; `CatalogStatus` models what they decide.
- `_prune_abandoned_staging` removes staging directories that nothing has
  touched for a day (`Stale`): what earlier attempts left, and the directory of
  a refresh that sleeps for so long. Only the refreshers in the constant
  `Sleepers` do. The removal may fail part-way, `Import`, `Materialize` and
  `CarryCrosswalk` need the directory to be there, and `WriteMarker` makes it
  again. The listed runs, and the theorems as said below, assume that no refresh
  sleeps (`Punctual`); see the observations for what one does.
- The task of a refresh may be cancelled while a thread acquires the promotion
  lock for it. The thread goes on; if it gets the lock, the task takes it from
  `settle` and gives it back (`CancelAcquire`), and otherwise it is an `Abandon`.
- `rmtree` may fail on any directory, before or after removing the marker.
  `shutil.move` is one rename, or (between file systems) a copy that can stop
  half-way (`BreakMove`).
- An exception in `_promote_snapshot` may come before or after the effect of a
  step, since `durable_replace` renames and then syncs. `Fail` is possible at
  each stage, so both are there.
- A crash drops the lock (the system's own lock on the file) and leaves files.
- A catalog may come from no release, from an older release (no history in the
  pointer), from one with another schema, from this release, or have an
  unreadable pointer: `Origin`.
- A cancelled session call finishes its thread and gives back what it holds
  before it raises (`settle`); so a task that holds the session's lock cannot
  stop there, and any other can at every await.
- Of the API client, a request is what it does to the next one: its job says
  whether it may be repeated, is a page of a list or an item of a batch. An
  answer without result (transport failure, transient status, cancellation) may
  or may not have been carried out. Times count down, so no clock is needed.
- In the queries identifiers are numbers in the order of their spellings, so
  that "least id" and "sorted" keep their meaning; a normalised identifier
  stands for its spellings. An SQL query is the set or sequence that it returns.
- A part relation has one of the six documented types (`IsTable`); rows with
  another letter, which `RelationshipType.from_upstream` reads as `UNKNOWN`, are
  not in the models.
- In the search a document has the ways in which it matches; how SQLite's FTS
  decides that is external. The filters by year, part count, theme, category and
  material are the code's.
- A row of a parts list can lack its part: a file of LDraw codes then ends with
  an `AttributeError` (`RowError`), the others with the row's own error.
- `CatalogStatus` fixes whether a snapshot's path leads out of the catalog, and
  what the pointer says, for the whole of a case. The code reads both again at
  each inspection; that the pointer moves in between is `Promotion`'s (`Resolve`),
  and that somebody replaces the directories by links while a refresh runs is
  not modelled.
- Of the uses of a part `usage_stats` is modelled (`UsedIn`), and not
  `used_in_sets`, which joins the sets and colours and so leaves out minifigs
  and colours without a row.
- In the command line a value written is buffered, passed on, or fails with an
  encoding error, a closed pipe or another error; what it says is left out.
- Hashes, timestamps, byte sizes and the wording of messages are left out.

Definitions headed *Mutant* are faulty variants of the definition after them.
Each breaks the property that the list "mutants" in `PROJECT.json` names with it,
which shows that the property depends on that part of the code.

## 3. What is checked

| Run | Instance | Shows |
|---|---|---|
| `promotion` | 2 refreshers that may crash, 4 ids, retention 2, five origins, symmetric | the retained snapshots and the pointer's history agree with the true activations; each pruning removes every orphan and transfer whose removal does not fail |
| `archives` | 2 refreshers that may crash, 3 ids, 2 data sets with versions up to 2, retention 1, symmetric | what is promoted is as new as what was served; UNCHANGED is true; one repetition, afresh; no data set goes back unless a refresh was overtaken |
| `system` | 2 refreshers, a writer, a reader, all may crash, 3 ids, a part, an external id, retention 1, symmetric | safety of the whole, and refinement of `ActiveCatalog` |
| `overrides` | 1 refresher, 1 writer that may crash, 2 ids, 2 parts, 1 external id, 1 key | the search documents agree with the mapping tables; the YAML file is never ahead of the active database |
| `sessions` | 1 refresher that may crash, 1 session with a calling and a closing task, 2 ids, a catalog of an older release | answers name what they were read from; calls and refreshes end; the lock is given back |
| `queries` | every small catalog, graph, file and data set listed in `MCQueries`, every command with every failure of its output | answers agree with reference definitions; no output is lost, failures are told once |
| `api_client` | 2 tasks, 1 retry, interval 1, longest accepted delay 2, delays 0 (unusable), 2 and 3, 2 links, batches of 2 | pacing, throttling, replays, the reported prefix, and that calls end |
| `orphan`, `stale_overrides`, `unlocked_open`, `api_throttle`, `references` | the smallest instance of each | the five disagreements below |

### Bounds

The only unbounded quantity of the catalog's model is the number of refresh
attempts, which the set `Snapshots` bounds: each attempt takes an id. Three
attempts by two refreshers contain every pair of overlapping promotions
followed or preceded by a third; four with retention 2 let an activation age
out while another attempt's orphan or transfer is there. One part with one
external id can be confirmed, replaced and dropped; in `overrides` a second
part lets a mapping move from one part to another. In `archives` two data sets
let an attempt mix a copied archive with a downloaded one, and contradict
itself; `Newest` = 2 lets the server publish a version of each during a
download. In `sessions` one refresh supersedes the snapshot that is open, and a
closing task disturbs a calling one between any two awaits. `Sleepers` is empty
in all of them.

In `queries`, `MaxTraversalDepth` is 2 (100 in the code), `ChunkSize` 2 (300)
and `BatchSize` 1 (5,000), so that the graphs of `MCQueries` are deeper than
the bound and lists longer than a chunk. Three owners contain each other in
every way and twice; molds and themes have every graph on 3 and 4 nodes, cycles
included; substitutes every graph on 4 parts whose pairs are related in at most
one of three ways, and on 5 parts with molds alone. The data set has a row or two in each of the twelve tables, and
every one cell replaced by any of seven values and every two by any of two.

`promotion` and `archives` stop when the ids run out, and in `queries` each
behaviour is one question, so these do not check for deadlock. In the other
passing runs sessions, writers or calls can always start again, and deadlock is
checked. In `api_client` one task sleeps or queues while the other is answered,
delays are accepted or refused and overlap, a list can return to either of two
pages, and a batch can fail before, at or after an item was carried out; the
counters of `applied` are bounded by the attempts.

### Fairness

`SessionSpec` assumes weak fairness of the steps of a process whose operation
is running (the scheduler runs it, its waits for threads end, and its wait for
the lock ends by the lock or by `Config.lock_timeout`, 30 s by default, always
positive) and of every task that can go on (the event loop). Starting an
operation or a call, cancelling, failing and crashing are not fair.
`RefreshEnds` and `CallsEnd` need the timeout: without it a refresher or a
session may lose every race for the lock. That the session's own lock reaches
every waiter rests on `asyncio.Lock` being first come, first served; the
`queue` is that order. `CatalogSystem!Fairness` says the same of a catalog
without sessions' tasks.

`ApiClient!FairSpec` assumes that time passes and that a task whose sleep or
turn has come goes on; a request is answered because the transport has
timeouts (`Config.read_timeout` and others). Starting and cancelling are not
fair. That an iteration ends rests on the links coming from a finite set
(`Urls`): the code stops at a repeated link, not after a number of pages.

### Disagreements with the documentation

1. **An override can miss a snapshot** (`stale_overrides`). The overrides are
   copied into the staging database before the lock is taken
   (`refresh.py:777`). One recorded after that goes to the old database and the
   YAML file and is absent from the snapshot that is activated, until the next
   refresh that is not UNCHANGED. `docs/ldraw-bridge.md:29` says the overrides
   are "materialized into each snapshot".
2. **A first orphan is never removed** (`orphan`). Without a pointer each
   attempt draws its own generation (`refresh.py:430`). If the first refresh
   dies between installing its directory and writing the pointer, no later
   pointer has its generation, and pruning skips the directory for ever.
   `docs/quickstart.md:126` says new managed orphans are removed.
   From a catalog that already has a history this cannot happen
   (`PruningCleans`, which is proved).
3. **An opening without the lock** (`unlocked_open`). A session that starts
   before the catalog's directory exists takes no lock (`database.py:845`),
   although the docstring of `open_catalog` says that all three steps hold it.
   Two quick refreshes can then prune the snapshot it resolved.
4. **A request inside the throttle** (`api_throttle`). `_pace` reads
   `_throttle_until` before it sleeps (`client.py:149`) and not after. A task
   that sleeps for its interval while another is answered 429 sends within the
   time that the answer asked for. `docs/api.md:15` says a 429 honors
   `Retry-After`. The task that received the 429 does wait
   (`OwnThrottleHonoured`).
5. **A reference to the empty id** (`references`). `validate_references` asks
   for the first dangling reference of each kind and keeps what is true
   (`importers.py:307-311`); an empty text is found and then dropped. A data
   set with an empty identifier that has no target is imported.
   `README.md:99-101` and `docs/quickstart.md:13-14` say that a snapshot is
   activated only after the cross-file references pass.

### Observations

Things the models make visible that contradict no statement of the repository,
or that properties name as their exceptions:

- `translate_bom` names the snapshot of the active pointer, not the session's:
  after a refresh elsewhere its report may name a snapshot it has not read
  (the exception `superseded` of `AnswersNamed`; without it TLC shows the
  trace). `docs/migration-1.1.md:249-250` recommends the opened state.
- A refresh whose process is suspended for a day can lose its staging directory
  to another one that begins meanwhile (`refresh.py:642`), or a part of it when
  the removal fails, whose error is ignored. When it goes on after its marker
  was written it activates what is left, since nothing looks at the directory
  again: with `Sleepers = {r1}` in the instance of `system`, TLC refutes
  `ActiveInstalled` in twelve states.
- A part-colour check gets its connection twice; if the session is closed and
  reopened in between, its answer comes from two snapshots.
- Two refreshes at once may end with the older data: the slower one promotes
  what it downloaded first (the exception of `NeverBackwards`). A report
  UNCHANGED names the snapshot that was active when the attempt began, which
  another refresh may have replaced and pruned by then.
- Once database and YAML file disagree on a key (disagreement 1, or a crash
  between the two writes), an override of that key updates the document of the
  part in the YAML file only, so the other part keeps a stale one
  (`ldraw.py:341`; the exception of `DocumentsTrue`).
- A Rebrickable colour with several overrides and exactly one cached API id
  resolves to the API id. Two inventories with the same highest version are
  both the latest one to the SQL view.
- `canonical_mold` raises at exactly `max_depth` edges; a tail that leads into a
  mold cycle may end at another part of the cycle than the cycle's own answer.
- `resolve_part` for systems other than LDraw ignores overrides, and
  `validate_bom` resolves no BrickLink references.
- `relationships(types=set())` filters nothing. A formula-like id is escaped in
  a CSV export and does not read back as itself.
- A bill of LDraw codes with a row too short for its part raises
  `AttributeError` rather than the `ValueError` with the number of the row
  (`bom.py:117`).
- A row too short for a boolean column raises `AttributeError` rather than
  `DatasetSchemaError`; a negative inventory version or an absent text fails
  later, as `CatalogImportError`.
- On a shared stream a diagnostic that fails with a disk error makes later
  output fail as an "unexpected failure" with status 1 (the exception of
  `DiagnosticsHarmless`).
- The copy of the mapping cache checks the old database's identity but not its
  pages; it relies on the verification before it.
- A DELETE that is repeated after a lost answer gets a 404.

## 4. What is proved

The theorems hold for every value of the constants that satisfies
`DiskAssumption` (retention at least 1, processes of different kinds distinct,
`None` and `Corrupt` distinct from ids), `ArchivesAssumption`,
`SessionAssumption`, `ClientAssumption` or the assumptions on the questions
below. Of the promotion, `ActiveInstalledAlways`, `WritesActiveAlways`,
`CatalogImplements`, `RecentRetainedAlways`, `HistoryIsTrueAlways`,
`PruningCleansAlways` and `DocumentsTrueAlways` assume `Punctual` besides, and
the theorems on archives have it in `ArchivesAssumption`; type correctness, the
lock, opening, lost activations and the YAML file hold with any sleepers.

`CatalogSystemProofs`:

- `InvHolds`: the inductive invariant `Inv`;
- `TypeCorrect`, `ActiveInstalledAlways`, `OpensActiveAlways`,
  `WritesActiveAlways`, `NoLostActivationAlways`: safety properties of the run
  `system`;
- `YamlFollows`: the action property of the run `overrides`;
- `CatalogImplements`: the refinement of `ActiveCatalog`.

The safety properties are not inductive alone. That no activation is lost needs
mutual exclusion, so `LockOwner` says exactly who holds the lock at each stage.
That nobody removes the active directory needs to know that the directories an
attempt installs, removes or overwrites are its own: `OwnIds` (no two attempts
share an id) and `OwnPlaces` (how far the own directory has come, and that it
is not the active one before the activation). That mappings survive needs
`OwnContents`: from carrying them to the activation the candidate's crosswalk
is what the abstract replacement prescribes for the pointer as it is now, which
holds because the lock keeps writers out. `Requests` and `OverrideWrites` say
the same of writers. Each action has a lemma that it preserves `Inv`, with a
step for each group of conjuncts it touches; lemmas on unchanged parts
(`OthersContent`, `OthersActive`) are shared. The refinement then needs one
lemma for `Activate` (a replacement), one for `StoreCrosswalks` (an
enrichment), and one each that the other steps of each kind of process stutter.

`CatalogDataProofs`, of the history: `RecentRetainedAlways`,
`HistoryIsTrueAlways`, `PruningCleansAlways`. The pointer lists exactly what the
log says, as far as it is still installed, and in that order (`OrderIsTrue`);
the log ends with the pointer and repeats nothing (`LogIsPast`); a candidate is
not in it (`CandidatesNew`); and a catalog that this release manages has one
generation (`MarkersManaged`). Pruning compares ranks in the pointer, while the
property counts activations: `RecentKept` and `KeptRecent` show by cardinalities
that the snapshots with the highest ranks are the last ones of the log.

Of the archives: `AsNewAsServedAlways`, `UnchangedIsTrueAlways`,
`RepeatedAfreshAlways`, `NeverBackwardsAlways`. Nothing is newer than the
server (`NothingNewer`); the archives of the snapshot that an attempt found
active never change again (`PriorsSettled`); so what is fetched or copied is at
least as new as at the beginning (`FetchesBounded`), and the candidate with it
(`CandidatesNewEnough`).

Of the search documents: `DocumentsTrueAlways`, `DocumentsYamlFollows`. The
invariant adds that a candidate that is prepared has current documents
(`CandidatesCurrent`); enrichment and overrides then need that the entities
whose mappings change are among those the code takes to be affected.

`SessionTasksProofs`: `SessionReads` (a session with all its tasks is one reader
of `CatalogSystem`) and `AnswersNamedAlways`. A call is known by the rest of
its steps: for each, `SoFar` says what it has read and named, `Connected` that a
connection a task still holds open is the session's, and `UpToDate` that it is
the active snapshot's until somebody supersedes it.

`CommandLineProofs`: `OutputAccountedAlways`, `DiagnosticsHarmlessAlways` and
`FailuresReportedOnceAlways`, for commands that write any number of values and
any faults. Every write and flush `Extends` the output: at most one failure is
added, unreported. The last flush of the diagnostics adds none, because after
the flush of the output nothing of stdout is pending on a shared stream, or its
failure is known (`Settled`), and every report keeps it so. The books
(`Books`) add up: what was written on a stream is delivered, held in its buffer,
or lost with a failure that the stream knows; and the status that a call ends
with follows from the failures it knows (`Statuses`).

`CatalogQueriesProofs`, about the answers, for catalogs, files and questions of
any size:

- `MappingsKeptAlways`: by cases over what a database may be at each of the
  instants at which a refresh looks (`RefreshIs`); a verification that is reused
  is true of the database under the lock because the signature is
  (`FirstVerified`);
- `OverridesDecideAlways`: the first strategy that finds anything decides
  (`FirstAnswers`), and an override is found by the first (`PartOverridden`,
  `ColorOverridden`); whatever the strategies find, they are resolved just when
  they have a target (`FoundSettled`), and so is a translated row (`WorseOf`);
- `PartColorsPerItemAlways`: every index falls into exactly one chunk
  (`ChunkOf`), and a row keeps the index of its item;
- `ImportedSoundAlways`: what a check does not find dangling has its target
  (`TargetIs`, `KeyIs`, `ColorIs`), cell by cell, given what the conversions
  leave in a column (`CellsAre`);
- `MoldsAgreeAlways`: the way up from a part (`Ways`) is a sequence without end;
  the walk of the code finds within `max_depth` queries the root of its orbit or
  the least part of an orbit without root (`WalkIs`, `MoldIs`), and parts that
  lead to each other have the same orbit (`RestOrbit`). It finds none just when
  the way is new for longer than `max_depth`, which is counted (`ShortCount`);
- `SearchPagesAlways`: an ordering by a strict total order puts each element
  where as many come before it (`PlaceTaken`, `ListIs`); a page is a piece of
  that list, and following the pages from an offset gives the rest of it
  (`IterateIs`);
- `ThemesOnceAlways`: the climb from a theme stops at a root, at a theme passed
  before or at the bound (`Climbs`), and not sooner (`Climbed`, `ClimbEnds`); the
  rows of the recursive query are the paths downwards that repeat nothing
  (`Paths`), two paths to one theme are the same (`PathsMeet`), and a theme so
  many levels below has one (`LevelsBelow`).

`CatalogPartsProofs` continues with the lists of parts:

- `QuantitiesKeptAlways`: a fold over a list is a run of partial results
  (`FoldIs`, `Sums`), so a sum can be taken apart by keys (`TotalKept`), and
  normalising leaves one item of each key;
- `ExportsReadBackAlways`: normalising a normalised list changes nothing
  (`NormalAgain`);
- `SubstitutesNearestAlways`: the search is breadth first. `Between` says what
  holds between two expansions: what has been seen are the start and the
  results, in rings of growing distance, the queue is their tail, and
  everything one relation from an expanded part has been seen. Each row that is
  considered keeps it (`RowConsidered`, `RowsConsidered`), so does each
  expansion (`PartExpanded`), and the recursion by which the model runs the
  queue is long enough, because no more parts can be expanded than the
  relations name (`FewerThanParts`). When the queue is empty all rings have
  been reached (`AllSeen`);
- `ValidationHonestAlways`: substitutes are looked for only for an item that is
  missing in its colour and has a related part that is not. The candidates are
  parts at most four relations away, none of them a print's or a pattern's, and
  all of these if there are at most 100 (`CandidatesAre`); what is proposed are
  those candidates that exist in the colour (`UsableAre`, `ProposedIs`). If at
  most 100 parts are one relation away, all of them are candidates (`AllTaken`),
  so one that fits is proposed.

`CatalogBomsProofs`, about bills of materials, for catalogs of any size and any
nesting:

- `BomFailsOnCyclesAlways`. `expand` calls itself, and a call for an owner that
  is in its own path calls no further. So each call has one owner less that is
  not in its path (`Weight`) than the one that made it. By induction over that
  number (`CallsInduct`) the recursive function is defined on every call, and
  each value is what one body of `expand` makes of the values below it
  (`ExpansionIs`), item by item (`Running`, `Smooth`). What an owner contains,
  directly or not, is the least set closed under containing (`BelowLeast`). If
  the answer is no error, the owners of the calls that ended well are such a
  set, so every one was expanded, and one that leads to itself would have been
  found in its own path (`AllGood`, `NoneCyclic`). An error comes up from a call
  that has its cause (`ErrorsCaused`), which is among what the root contains.
- `BomCountsCopiesAlways`. What a call found is its multiplier times what its
  owner has, level by level downwards (`FoundIs`). The reference counts the
  other way, the copies of each owner from the root on, and then what each of
  them has; the two agree because the sums of one level may be exchanged
  (`CopiesMakeTotals`, `SumSwap`). `usage_stats` counts the same for an owner
  that contains no other and has one latest inventory (`UsageIs`).

Two properties had to be stated anew for their proofs. `ValidationHonest` once
said that a substitution is proposed whenever a part one relation away exists in
the colour; that is false for a part with more than 100 such neighbours, since
`substitutes` stops at `max_candidates`, and no small instance could show it.
The property has that limit now, and says what the search asks for (both
directions, molds, no prints or patterns, four relations, 100 candidates) in its
own words rather than by the model's constant. `SubstitutesNearest` now also
says that nothing beyond the distance is given.

A question and its answer do not change (`Asked`), so that what is left is
about the operators. Recursion in them is written with recursive functions.
That such a function exists, and what it gives after any number of steps, is
proved by induction over sets of numbers (`Induct`, `Runs`, `Recursion`). The
assumptions on the questions (`StatusAssumption`, `MoldAssumption`,
`MappingAssumption`, `ColorAssumption`, `ImportAssumption`, `SearchAssumption`,
`ThemeAssumption`, `FileAssumption`, `SubstituteAssumption`, `BomAssumption`)
say that they are of the right shape, which TLC checks of those in `MCQueries`:
identifiers are numbers, lists are sequences, tables are finite and have the
keys of the schema, quantities of an item are positive, those of an inventory
and its version are not negative (`catalog/schema.py:167-186`), cells are
integers, texts or empty.

Sums over sets are written with the community modules' `SumFunction`, which the
provers can take apart by its recursive definition (`SumIs`); and one call of
`expand` is an operator of its own (`ExpandOwner`), whose results for the calls
it makes are a parameter, so that a lemma can speak of it.

`ApiClientProofs`: `ClientInvAlways` (the inductive invariant `ClientInv`),
`PacedApartAlways`, `OwnThrottleHonouredAlways`, `ThrottleBoundedAlways`,
`AtMostOnceAlways` and `PrefixIsTrueAlways`. The invariant says of the timers
that only the holder of the lock sleeps before a request and past every instant
that was set when it began (`Pacing`), that the next instant is an interval
after the last request (`Spaced`), and that no task is owed more than the
throttle (`Covered`); of the writes, that a call that may not be repeated is at
its first attempt and that nothing beyond its accepted items was carried out
before its last answer (`FirstAttempt`). Every answer then either leaves the
writes alone (`UntouchedKeeps`), carries one out without accepting it
(`UnansweredKeeps`), or accepts it (`SucceedKeeps`).

Model-checked only:

- the liveness properties `LockReleased`, `RefreshEnds`, `CallsEnd` and
  `CallEnd`: the prover does not treat liveness under fairness;
- the type of the pacing queue: it is filtered with `SelectSeq`, whose recursion
  over the sequence has no definition that the prover can expand.

## 5. Not modelled

- The operation registry, the DTOs and the query types of the API: a generated
  table and data classes, without state or decisions. The client's use of them
  (which operations may be repeated, are paged or batched) is in `ApiClient`.
- `close()` of the API client with calls in flight, decoding of its answers.
- Argument parsing, configuration, directories, URLs, error classes.
- Validation of an archive's bytes, sizes and headers; the bytes of manifests
  and markers; the classification of paths. Each is one outcome in the models.
- Plain lookups by key, colour lists, counts and progress events; tables for
  terminals and the layout of BrickLink XML.
- `settle`'s own loop: that a cancelled operation finishes its thread is taken
  from it, and appears in every model that can be cancelled.
- The limit of 1 MiB on the pointer file, at which the history that failed
  removals leave stops every refresh: it is documented, and a model would only
  restate the comparison.
- The scripts, which generate the registry.

What could be added: the client's `close()` beside calls; a model of `settle`'s
loop to justify the cancellation steps; larger sessions (two
callers, three snapshots) for TLC.
