# RAOfflineProxy for Leaf: a TLA+ verification development

RAOfflineProxy is a loopback proxy between an emulator and RetroAchievements.
While the device is offline it answers from a cache and queues awards in
SQLite; when the site is reachable again it replays the queue. This repository
packages the upstream program as a supervised Leaf service: it patches the
upstream files (`patches/app/*.patch`), adds a pre-cache job, a control surface
and a UI, and ships the build and qualification scripts.

Five things are hard to test here and are what this development is about: an
award the player was told is safe must never be lost or credited to another
account; a database the service cannot trust must never be replaced quietly;
the threads of the service (listener, four workers, monitor, pre-cache run)
must not trip over each other when they start, stop, cancel and fail; a game
that reads as prepared must be the right game, hashed from the right bytes, for
the right account; and a release must hand no device a package that refuses to
run there.

## 1. The system

    emulator ──HTTP──▶ listener ─permit─▶ request worker (≤ 4)
                                             │  award ▶ account guard ▶ queue_award ▶ SQLite
                                             │  /leaf/precache ▶ PrecacheJob (one thread per run)
    main thread: start, wait, drain          │  other ▶ upstream or cache
      └─ connectivity monitor ── probe ──▶ flush ── replay ──▶ RetroAchievements
    UI (C) ──CTL-1──▶ supervisor,  UI ──HTTP──▶ /leaf/precache
    /leaf/precache ──read──▶ launcher's library;  run ──▶ hash_rom ──▶ CHD reader, rc_hash
    host: make ──▶ package, check, catalog fixture, source ──▶ device: version gate ──▶ service, UI

| Component | State it keeps | Operations | Interacts with | What is hard |
|---|---|---|---|---|
| Award queue, guard, flush (`proxy_service`, `flusher`, `storage` patches) | `pending_awards`, cached login rows; `pending_award_lock`, `flush_lock` | receive, guard, insert, answer; sign-in; flush: resolve credentials, post, mark, sweep | workers and flushers share the table and the locks | guard and insertion are two critical sections; a post whose answer is lost; crash between any two steps; accounts change |
| SQLite startup (`storage` patch) | database file, images moved aside, incident record | connect, pragmas, read-back, integrity check, quarantine, schema | supervisor restarts it; the queue lives in it | every step can fail; power loss; a failed read looks like corruption |
| Listener, worker gate, start and stop (`proxy_service`, `leaf_service`) | semaphore, thread list, stop event | accept, refuse, spawn, release, shutdown, close | storage is closed after the drain | threads that cannot start; a stop racing requests |
| Connectivity monitor (`proxy_service`) | `_kick`, `stop_event`, `was_online` | look, probe, flush, sleep, kick, stop | calls the flush; main thread stops it | lost wake-ups; stop during the sleep |
| Pre-cache control and job (`leaf_control`, `leaf_precache`) | job on the server, its lock, cancel event, progress | start, cancel, snapshot; run: test, prepare, pace, finish | handlers on several workers, one thread per run | lazy creation without a lock; cancel without the lock |
| Pre-cache of one game (`leaf_precache`) | cache rows, unknown marks | hash, look, ask, classify, store five rows | upstream `rom_cache`, the site | five rows stored one after the other; failures that look alike |
| Reachability cache (`network` patch) | last verdict and its time | probe, read | workers and monitor share it | a verdict believed for an interval |
| CHD track reader (`rchash/chd_cdreader.c`) | tracks, cached hunk | open, read sector, close | `rc_hash` | pregap and padding arithmetic, cached hunk after a failed read |
| Library reader (`leaf_library`) | none; reads the launcher's database | schema check, recents and favourites, consoles, a page, a game by its id, resolve a path | control routes; the launcher writes, cards come and go | two queries see two libraries; apps with a game's id; parked rows |
| ROM hashing (`leaf_romhash`) | spill files | load, choose a member, buffer or spill, hash, unlink | `rc_hash`, the CHD reader, pre-cache run | every way a copy may end; which bytes are hashed |
| UI, CTL-1 and HTTP clients (`ui_main.c`, `ctl1_local.c`, `http_local.c`) | last fetched service state, menu | status, start, stop, restart, pre-cache | supervisor, proxy | acts on a state that has moved on |
| Version gate (`lib/leaf-version-gate.sh`) | none | parse, compare, verdict | `service-run`, `launch.sh` | missing components, suffixes, an unknown Jawaka |
| Build and packaging (`Makefile`, `scripts/*.py`) | two package directories, two archives, a catalog fixture, a source archive | pack, check, test the metadata, make the fixture, cut the source | the git tree that somebody edits | copies of one version that drift; interrupts; archives written in place |
| Shell build, fixture and device scripts | none | – | – | – |

What makes each part correct:

- **Award queue.** An acknowledged award stays until the site credited or
  disowned it. No award that names its user is sent under another account's
  token. The queue belongs to one account. The hash chain never forks. One
  flush never touches another's rows.
- **SQLite startup.** Only a sound, complete database serves; what was
  acknowledged stays on the card; the incidents on record tell of what was moved
  aside.
- **Gate and stop.** Permits are conserved, so a refusal means a full gate; the
  storage outlives every admitted request, a stop ends.
- **Monitor.** It goes on trying for as long as a reachable site has awards to get;
  stop never waits out a sleep.
- **Pre-cache.** One run at a time, a progress that adds up, no run ended by
  what an earlier cancel left, no game after a cancel that was answered, and "cached" meaning playable offline. A run is for
  who started it, most useful first.
- **Library and hashing.** What the pak lists is what the launcher lists, a page
  says whether there is more, a game is missing only if it is not there, and a
  hash is of what RetroArch would hash.
- **Release.** What passed the checks is what the lock names and what the archives
  hold; a published version is never built twice; the version gate and the catalog
  agree on every device.

## 2. Modules

| Module | Models | Main correspondence |
|---|---|---|
| `AwardLedger` | what the queue promises: tickets, credits, disowned awards | abstract, no code |
| `AwardQueue` | workers, sign-ins, flushers, crash | `CheckAccount` = `pending_award_account_mismatch`; `LockQueue`, `InsertRow`, `StoreNothing` = `queue_award` under its lock; `Resolve`/`LoginFor` = `resolve_leaf_credentials`/`load_login_credentials_for`; `Flush*`, `Send*`, `SkipStale` = the flush loop |
| `StorageStartup` | every start of the database | one action per step of `_initialize_sqlite`, `_enforce_durability_contract`, `_quarantine_and_refuse`, `_create_schema`; the rename (`MoveAside`) and the record of the incident (`RecordIncident`) are two |
| `GateParameters` | constants and assumptions `RequestGate` and `ServiceProcess` share | – |
| `RequestGate` | serving thread, workers, main thread | `TakePermit`, `Refuse`, `Spawn`, `SpawnFails` = `process_request`; `Release` = `process_request_thread`; the main thread's actions = `run_proxy_service` |
| `ConnectivityMonitor` | the monitor thread against kick and stop | one action per line of `ConnectivityMonitor.run` that another thread can come between, and one for each of the two lines that may raise (`SaveRaises`, `FlushRaises`) |
| `ServiceProcess` | `RequestGate` and `ConnectivityMonitor` (both by INSTANCE) around one storage | the main thread's steps in the order of `run_proxy_service` and its `finally`; a worker's `Handle` may queue an award; the monitor lives on until the process ends and may find the storage closed |
| `ChdReader` | the CHD reader of one disc: geometry, track table, selection, sectors through the cached hunk | `AddTrack`, `Walk`, `ReadTracks` = `raproxy_read_tracks`; `SelectTrack` = `raproxy_select_track`; `OpenTrack`, `CloseTrack`, `ReadSector` = the entry points; `CopyCached`, `ReadHunk`, `ReadHunkFails` = `raproxy_copy_sector`. `Image` and `Programme` (the last of `Frames` and `Sectors`) are the disc as it is written, the reference the reader is checked against |
| `PrecacheControl` | handlers and run threads of the job | `Lookup`/`Create` = `_job`; `Claim`, `Clear`, `Launch` = `start` under its lock; `SeeRunning`, `SetCancel` = `cancel`, which does not take it; the rest = `_run` |
| `PrecacheGame` | the rows of one game for each account, across interrupted runs | one action per request or row of `_prepare_one` |
| `LibraryReader` | what each query answers for a library as it stands | one operator per query of `leaf_library`; `OrderedBy` is any order its ORDER BY allows |
| `PrecacheRun` | a request, the library it reads, the run it starts; extends `PrecacheGame` and `LibraryReader` | `Receive` to `StartRun` = `handle_precache_request`, `_games`, `_start`, one action per query; `TakeNext`, `PrepareGame`, `EndRun` = `_run`; `NoHasher`, `Missing`, `Unsupported`, `Hashed` = the head of `_prepare_one` |
| `RomHash` | `hash_rom` on one file after another; extends `ChdReader` | `HashRom` = its early returns and choices; `Extract*`, `Spill*` = `_extract_rom`, one action per way out; `Hashed`, `Unlink` = the call and its `finally`; `ReadDisc` = a step of the reader |
| `VersionGate` | the gate's verdict, pure | `IsVersion`, `AtLeast`, `GateManifest` = the functions of `leaf-version-gate.sh` |
| `Release` | make targets over a git tree; extends `VersionGate` | each script is two to four actions, cut where it reads the tree or writes a file of the build; `Interrupt` may come at any of them |
| `*Proofs` | theorems about the module of that name (`PrecacheRunProofs` also about `PrecacheGame` and `LibraryReader`, `RomHashProofs` about `ChdReader`, `ServiceProcessProofs` about `ConnectivityMonitor`) | – |
| `MC*` | small instances for TLC | – |

The granularity follows the code: a step ends where a lock is taken or given
back, an event is set or tested, a row is committed, a request leaves the
device, or the process may die with something half done. Everything between two
such points is one action. Each file also holds, next to the definition it
alters, a few "Mutant of ..." operators: the bug a property is there to catch.
No specification uses them.

Data is abstracted to what the properties tell apart. An award is an id and an
owner; a payload hash is the id of the row it covers; a login row is the account
it names; a cache row is its presence, and for `achievementsets` whether it
names a game; a corrupt image is the value "damaged".

What is not in this repository is modelled from how it is used, and marked
external in `PROJECT.json`: `queue_award`'s body, the flush loop, the `rom_cache`
functions, `socketserver`, SQLite, the site, the launcher that writes the library,
`rc_hash`, git and make, Leaf's feed generator and Jawaka's catalog client. The
choices are the weak ones: a post may succeed, fail, or succeed with its answer
lost; a read may fail over a sound image; a thread may not start; a table write
may store nothing; `rc_hash` may open any track, read any part of it, behind a failed
read too, and give up at any point; the generator may order the versions and fill the
legacy fields as it likes, and refuses only a package whose minimum is not its entry's.

A library is a set of rows; a name is its rank in the collation, a path is how the
launcher wrote it (relative, absolute, parked), a search text the set of names that
hold it. A package is a record of the versions in its manifest and of one value for
all else that reaches it; a version is its three numbers, a `v` and a suffix or not.

Lines called "map" in `PROJECT.json` name, for each definition, the code it
translates.

## 3. What the runs check

| Run | Instance | Shows |
|---|---|---|
| `award_queue` | 2 workers, 1 flusher, 3 accounts, 2 awards, 2 rows; 1.1 M states | `AckedNotLost`: no crash, sweep, deferral or lost answer loses an acknowledged award. `ChainNeverForks`. `OwnersBoundedByWorkers`: what the guard really gives with concurrent workers. `IInv`: the inductive invariant of the proofs |
| `award_flush` | 1 worker, 2 flushers, every kind of request, a renamed account; 799 k states | `OwnTokenOnly`, `FlushOwnsItsRows`, and `ImplementsLedger`: the queue implements `AwardLedger` |
| `award_two_owners` | as `award_queue` | violation, see section 6 |
| `storage_startup` | 4 starts, 2 damaging power losses, 2 awards; 5 834 states | `AckedOnCard`, `ServesSoundSchema`; `IncidentTellsTheShelf`: what is on record and what was moved aside agree, but for a start that ended between the two |
| `storage_reset` | the same | violation, see section 6 |
| `service_process` | 3 connections, 2 permits, 1 award; 465 k states | `PermitsConserved` although threads may fail to start (so a refusal means a full gate); `DrainedBeforeClose`. `NeverSleepsThroughStop`: the order in `stop()` (event, then kick) and in the loop (clear, then test) loses no wake-up. `StopEnds`, `EveryoneHears`, and `KeepsTrying` of a monitor whose flushes are deferred or fail, under fairness |
| `precache_control` | 2 handlers, 2 runs, 2 games; 2.7 M states | `OneRunPerJob`, `ProgressAddsUp`, `RunningIsAlive`. `CancelledWasAsked`: no run is ended by what is left of a cancel. `NoGameAfterCancel`: a cancel that was answered stops its run |
| `precache_two_runs` | 2 handlers, 2 runs, 1 game | violation, see section 6 |
| `precache_game` | `PrecacheRun` with 2 libraries of 3 games and an app, 12 requests, 2 accounts, 2 cards; 2 requests, 3 visits, 2 changes; 3.8 M states | `PreparedIsKnown`, `PatchClientsHavePatch`, `MarkedWasAnswered` of the rows; `ForWhoStartedIt`, `MostUsefulFirst` of the run; `PageIsHonest` of the picker; `MissingIsAbsent` of what is reported |
| `precache_resume` | `PrecacheGame` alone, 2 accounts, a Dreamcast and another ROM, 3 visits | violation, see section 6 |
| `rom_hash` | 10 files, 81 discs, 8 frames to a hunk, 2 calls; 913 k states | `HashIsOfTheRom`, `NoSpillIsLeft` of `hash_rom`; `SoundReadsAreUserData`, `ReadsSpanTheTrack` for every sector of every track, from the first read and from one that follows a failed hunk read |
| `release` | 2 locks, 2 contents, 2 fixture minimums, 39 devices, 2 targets, 2 changes; 532 k states | `CheckedIsReleasable`, `FloorTellsTheMinimum`, `PublishedStaysFixed`, `SourceIsItsCommit` of what the checks let through; `HandedPaksRun`, `NeverRunsBelow` of the gate and the catalog together |

**Bounds and why they are enough.** Two workers and three accounts are the least that race guard
against insertion and could exceed the bound on owners; more workers are for the theorem. Two
rows make a chain, a snapshot that is out of date, and a flush that is half
done; the theorem covers longer chains. Three connections against two permits fill the
gate and leave one to refuse; the code's four permits differ only in number. Four starts are: create, damage and quarantine,
start fresh, and one more after it. Two damages let an image made after a
quarantine be damaged again. One award is queued before, during or after a look
at the queue, whichever comes first; what several do to each other is
`AwardQueue`'s. Two runs are an ended run and its successor, or two at
once. The discs have every sector type, a first track of every length modulo the
padding, each kind of pregap on each track, and a track that crosses hunks; the
arithmetic has no larger period than the padding and the hunk. Three visits are:
interrupted, resumed, and looked at again. In `PrecacheRun` a page and a list of
ids hold two games of three, so both limits are met and passed; two requests are a
run and a second one, or one that reads beside it; two changes let a card leave
and the launcher notice, or one account sign in and another after it. Two calls of
`hash_rom` show what the first leaves to the second. In `Release` two locks are a
release and the next one with a raised minimum; it begins with copies that may
have drifted and a version that may be published, so two changes reach every
disagreement of lock, manifest, floor, commit and tag; two targets are a test and
what is made of its packages. The devices have every kind of version the gate's
own test has. The bounds are constants (`MaxRows`, `MaxStarts`, `MaxDamage`,
`MaxAwards`, `MaxGames`, `MaxRuns`, `MaxVisits`, `MaxRequests`, `MaxChanges`,
`MaxHashes`, `MaxJobs`) tested in the guards of the actions they stop.

**Type invariants.** `TypeOK` of each module (`RunTypeOK`, `HashTypeOK`) is a conjunct
of its inductive invariant and is proved with it; `award_queue` (in `IInv`) and
`precache_control` also check theirs on a run.

**Symmetry** permutes workers and flushers, handlers, awards, or the contents of
a release where no expression tells them apart, and only in runs without liveness properties.

**Deadlock** is checked except in `StorageStartup`, `ServiceProcess`, `PrecacheGame`,
`PrecacheRun`, `RomHash` and `Release`, where the service really stops or the bound on
starts, visits, calls or targets is reached.

**Fairness.** `ServiceProcess.FairSpec`: the serving loop polls every half second,
a worker's socket times out after 30 s and its upstream calls are bounded, the
main thread has nothing else to do. Clients and signals are not fair: a stop may
never be asked for. The monitor runs, its 60 s
interval runs out, and an error in the look at the queue does not repeat for ever (strong
fairness of `MonitorLooks`); without the last, `KeepsTrying` is false and the code cannot
help it. Nothing is assumed of a flush: it may send all rows, some or none, and
`KeepsTrying` asks for another, not for an empty queue.
The network and the awards are free. The safety runs assume no fairness.

## 4. What is proved

Every safety property a passing run checks, invariant or action property, is also a
theorem of its specification, for every value of the constants. One proof module
per component, and one way through all of them: an inductive invariant next to the
properties in the component's module, built of named parts (TLC has checked each
of them on the run's instance), a lemma per actor or action that keeps it, and a short
theorem per property.

| Theorems of | Theorem (property) |
|---|---|
| `AwardQueueProofs` | `TypeCorrect`, `Invariance` (`IInv`), `OwnTokenSafety` (`OwnTokenOnly`), `AckedSafety` (`AckedNotLost`), `ChainSafety` (`ChainNeverForks`), `FlushSafety` (`FlushOwnsItsRows`), `OwnersSafety` (`OwnersBoundedByWorkers`), `Refinement` (`ImplementsLedger`) |
| `StorageStartupProofs` | `TypeCorrect`, `AcknowledgedStaysOnCard` (`AckedOnCard`), `OnlySoundServes` (`ServesSoundSchema`), `RecordMatchesShelf` (`IncidentTellsTheShelf`) |
| `RequestGateProofs` | `PermitsAreConserved`, `DrainsBeforeClose`, of the listener alone |
| `ServiceProcessProofs` | `PermitsAreConserved` (`PermitsConserved`), `DrainsBeforeClose` (`DrainedBeforeClose`), `StopCutsTheSleepShort` (`NeverSleepsThroughStop`), `TypeCorrect` |
| `PrecacheControlProofs` | `TypeCorrect` (`TypeOK`), `OneRunAtATime` (`OneRunPerJob`), `ProgressIsHonest` (`ProgressAddsUp`), `RunningMeansAlive` (`RunningIsAlive`), `NoCancelIsLeftOver` (`CancelledWasAsked`), `AnsweredCancelsHold` (`NoGameAfterCancel`) |
| `PrecacheRunProofs` | `Invariance`, `TypeCorrect`, `RunsAreVisits`, `PreparedMeansKnown` (`PreparedIsKnown`), `PreparedHasPatch` (`PatchClientsHavePatch`), `OnlyAnsweredAreMarked` (`MarkedWasAnswered`), `OneAccountPerRun` (`ForWhoStartedIt`), `RecentsFirst` (`MostUsefulFirst`), `TruncationIsTold` (`PageIsHonest`), `MissingMeansAbsent` (`MissingIsAbsent`) |
| `RomHashProofs` | `ReaderInvariance`, `ReaderIsSound` of the reader alone; `Invariance`, `HandedDataIsUserData` (`SoundReadsAreUserData`), `WholeTracksAreHanded` (`ReadsSpanTheTrack`), `HashesAreOfTheRom` (`HashIsOfTheRom`), `SpillsAreUnlinked` (`NoSpillIsLeft`) |
| `ReleaseProofs` | `Invariance`, `TypeCorrect`, `CheckedPackagesAreReleasable` (`CheckedIsReleasable`), `FloorAsksForTheMinimum` (`FloorTellsTheMinimum`), `PublishedIsNotRebuilt` (`PublishedStaysFixed`), `SourceHasItsLock` (`SourceIsItsCommit`), `CatalogHandsWhatRuns` (`HandedPaksRun`), `GateHolds` (`NeverRunsBelow`) |

**Assumptions.** Only those named at the head of each module: constants are drawn from
their types, absent values (`NoUser`, `Nobody`, ...) are no members of the sets they
are absent from, the sets of threads, connections, rows and archive members are
finite, bounds are natural numbers. `ChdReader` also takes a disc to have 1 to 99
tracks (`RAPROXY_MAX_TRACKS`) of distinct numbers; `Release` takes a device's
versions to be any numbers, with a `v` and a suffix or not.

**The arguments.**

- *Award queue.* `IInv` adds what the threads rely
  on: `Busy` (a busy worker handles one of the requests), `TailIsLast` (a worker
  about to insert holds the lock, and no row is newer than the tail it has read),
  `ChainOrdered` (a row chains to an older row, and to none older than its
  predecessor), `EveryRowKept` (every id given out is pending, or was sent or
  disowned), `FlushIsExclusive` (a snapshot belongs to the
  holder of `flush_lock`), `FlushOwnsItsRows`, `FlushIsOneAccounts` (past the
  credentials step the snapshot's owners are the account of the token) and
  `OwnTokenOnly`. The key facts are
  `ResolvedOwner` (credentials, if any, belong to every named owner of the
  snapshot) and, for the bound on owners, `NewOwnerOnlyWhenEmpty` (a worker
  brings a new owner past the guard only when the queue has none) with
  `AdmittedBounded`. The refinement maps `Pending` to the ledger's tickets: an
  insertion is `Promise`, a post `Credit`, a stale row `Disown`, all else a
  stutter.
- *Startup.* `ContractHolds`: a connection that was read back as weak lets go before
  it creates a table or serves, so no committed row can be taken back by a power
  loss. `SchemaOnSound`: only an image that passed its check is given a schema.
  `RecordsAMove`: a start about to record an incident has left nothing at the path.
- *Gate.* Who is inside is counted by two lemmas (`OneMoreInside`, `OneLessInside`);
  `WorkersAreListed` (a live worker is in the thread list or being joined) and
  `StopsInOrder` (how far loop, lists and storage are at each step of the main thread)
  make the drain.
- *Process.* Each of its steps is a step of `RequestGate` or leaves it alone (the lemma
  `StepIsAGateStep`), so the gate's invariant holds of the process. The monitor's
  `StopIsSeen` says that, when `stop()` has returned, a monitor still past its test of
  the event has the kick ahead of it.
- *Pre-cache control.* `start()` holds the job's lock from its look at the thread to
  the launch of the new one (`LaunchIsExclusive`), so a job's current run alone may be
  alive (`CurrentIsOwned`), alone writes its progress (`ProgressOfRun`). A cancel that is
  still on its way was meant for a run of its job (`CancelIsMeant`), and an event that is
  set was set by one meant for the current run or by one that raced its start
  (`EventIsAccounted`). The tally is a fold; what it adds up to is
  shown by induction over the subsets of the outcomes.
- *One game, a run.* `StoredIsKnown`, `PatchComesFirst`, `MarkIsAnAnswer` say what
  each step of a visit may rely on. A run takes no steps but those of visits
  (`RunsAreVisits`), so what holds of them holds of it. For the orders: a finite set
  has a sequence that an ORDER BY allows, and the prefix of it a run has done holds
  nothing that should come after what is left.
- *Hashing.* `Layout`: the counters `raproxy_read_tracks` carries from track to track
  agree, after every track, with the disc and the image as they are laid down; for any
  tracks, pregaps, lengths and types. So a sector of the open track is the frame the
  reader computes (`FrameOfSector`) and one outside it is no data of the track's
  (`OutsideTrack`). `CacheIsTrue` says that the buffer is the hunk `cached_hunk`
  names unless a failed read has torn it. Over that, `FeedIsExpected` carries from the
  choice of the bytes to the answer, through reads behind a failed one as through any
  other, and `SpillIsOurs` says which stages still have
  a spill file to unlink.
- *Release.* make forgets what it said of files it is about to write
  (`VouchersAreSafe`), nothing is known of the tree once it is changed
  (`PassedIsOfTheTree`), and a job that nobody disturbed has read one tree
  (`QuietJobReadsOneTree`). `AtLeastIsNotBelow` shows that the gate's comparison,
  component by component, is the order the catalog's minimums mean.

## 5. Model-checked only

- Liveness under fairness (`StopEnds`, `EveryoneHears`, `KeepsTrying`): no prover here
  reasons about fairness and ENABLED.
- That the constants of the code (four permits, 32 MiB, a padding of four frames ...)
  are what the modules say is read, not proved.

Induction over data is open to the provers only as a statement about a set (the least
element of a nonempty set of naturals, or a minimal subset), for they instantiate no
operator parameter. The proofs that need it state it so: `Induction` and
`Recursion` in `RomHashProofs`, `SetOfNats` in `PrecacheControlProofs`, and the
orders of `PrecacheRunProofs`. The models are written to allow it: `Walk`, `Sectors`
and `Frames` are recursive functions over the number of tracks, not folds.

## 6. Where the code and its words part

- **Two owners in the queue** (`award_two_owners`). The guard and `queue_award`
  take `pending_award_lock` one after the other. Two workers that find an empty
  queue each insert, for different accounts. The comment promises a
  single-account queue; with two owners every flush defers until rows are gone. What
  the guard does give with several workers is `OwnersBoundedByWorkers`.
- **A reset after a restart** (`storage_reset`). A quarantine renames the database
  and only that start refuses. The next finds no file, creates one and serves it
  empty. The rows are still in the image moved aside (`AckedOnCard` holds).
- **Two runs** (`precache_two_runs`). `_job` looks and assigns without a lock;
  two first requests make two jobs, and each admits a run.
- **An interrupted game** (`precache_resume`). `_already_cached` looks for the row
  stored first (for Dreamcast, for three); a run that died after it leaves
  the others missing for good.

Four properties hold only with an exception, which each names:

- **An image without an incident** (`IncidentTellsTheShelf`). The rename and the record
  are two steps. A start that dies, or whose record raises, between them leaves the
  awards in an image nothing tells of, where docs/r0-evidence.md:72-73 says that an
  incident is recorded; the next start serves a fresh database.
- **A cancel that lands on the next run** (`CancelledWasAsked`). `cancel()` has seen a run
  that then ends; the next `start()` clears the event before `cancel()` sets it. The new
  run is cancelled unasked.
- **A 404 that is not the site's** (`MarkedWasAnswered`). `_classify_failure` looks for
  "404" in the exception's text, so the not-found page of a portal or a proxy marks the
  ROM for thirty days, although the mark is for what RetroAchievements has answered
  (leaf_precache.py:334-338, 419-424).
- **A hash over missing or torn data** (`HashIsOfTheRom`). The reader gives a failed hunk
  read the short count of a track's end; nothing tells `rc_hash`, which may read on and
  return a hash.

Smaller things the models carry: an exception of `user_agent` at the head of a
run leaves the job "running" with no thread (`AgentReadFails`); a read error of
SQLite over a sound image quarantines it (`DatabaseError`); a worker thread that
never started makes `server_close` raise, and the storage is not closed
(`JoinRaises`); the monitor is a daemon nobody joins, so a stop may close the
storage under its flush, which then raises and leaves its rows pending; its loop has
no try, so that an error of the storage in a flush (`FlushRaises`) or of the file the
verdict is saved to (`SaveRaises`) ends it with the process alive, and queued awards
wait for an online session or the next start; a CHD hunk read that fails keeps the number of the hunk before it with a
buffer it may have overwritten, and the next read of that hunk hands on garbage
(`ReadHunkFails`, the second disjunct of `SoundReadsAreUserData`); a decoder's
exception leaves `hash_rom` (`ExtractRaises`) and ends the run in the middle of its
list (`RunRaises`); a run whose thread cannot start reads as "running" until the next
start (`LaunchFails`); an unlink of a spill file is taken to
succeed; `package_check` compares no archive with its directory, so an
archive closed too early passes it when it is run by itself (`Short`), and
`CheckedIsReleasable` holds of `test-package` only because make packs again first;
the catalog knows no Jawaka minimum, so `HandedPaksRun` is about Leaf's alone.

## 7. Not modelled, and why

- Reachability cache, offline login, static assets, upstream's cache reads: the
  patches change a timeout, a comparison and the order of two calls; the tracker and
  the handlers they call are upstream's and not in this repository. The verdicts are
  free choices wherever a model depends on them.
- The UI and its clients keep no state beyond what they fetched last, and what they
  send is free in the models of the routes that receive it. The supervisor they talk
  CTL-1 with is not in this repository.
- Of the library reader: the display names of consoles, which word an answer.
- Of the CHD reader: metadata that does not parse (the walk stops there), the old
  and the GD-ROM entry forms (the first has no pregap, the second a PAD that moves
  neither counter), memory that runs out, and the wrapper that hands other images to
  rcheevos' own reader.
- `config.py.patch` removes upstream readers and keeps no state. The scripts that
  fetch, compile and assemble make the contents `Release` takes as given; the fixture
  and device tests exercise the program.
- Request parsing, body limits, wording of answers: data no property is about.
- The environment and lease checks of `leaf_service.main`, which end the process
  before anything runs.
- Interpreter shutdown after the main thread's `exit` in `RequestGate`.

## 8. Plan

1. `AwardQueue` and its ledger, checked and proved (done).
2. `StorageStartup`, `RequestGate`, `ConnectivityMonitor`, `PrecacheControl`,
   `PrecacheGame`, checked (done).
3. `ServiceProcess` composes `RequestGate` and `ConnectivityMonitor`; `ChdReader`
   against a reference definition over small discs (done).
4. `PrecacheRun` composes the control routes, `LibraryReader` and `PrecacheGame` for
   two accounts; `RomHash` drives `ChdReader`; `VersionGate` and `Release` (done).
5. Proofs of every safety property of the runs (done).
6. Next: the monitor's theorems stated of `ConnectivityMonitor` alone, for a process
   that has one without the listener; a refinement of an abstract "prepared for
   offline play" by `PrecacheGame`, as `AwardLedger` is for the queue; what
   `RecentsAndFavourites` and `AllGames` return, as theorems of `LibraryReader` by
   themselves.
