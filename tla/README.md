# Assemblage in TLA+

Assemblage produces a corpus of compiled open-source software.  Scrapers find
repositories, a coordinator makes one task of every repository and every build
option, builders clone and compile them and upload what they find, and host-side
tools export the result.  The program is Python; its core is
`src/backend/assemblage/`, and paths below are relative to that directory unless
they start with `src/`.

This project models the part of the system where the order of steps matters:
threads, queues, transactions and processes that fail.  TLC checks small
instances of it, and TLAPS proves the most important safety properties for all
instances.

| module | what it is |
| --- | --- |
| `TaskDispatch` | a task from its row in the database, through queue and builder, to its result |
| `TaskLedger`, `LedgerRefinement` | what that amounts to for the table `b_status`, and the mapping under which `TaskDispatch` implements it |
| `Registration` | the handshake that gives a builder its build option and the option its dispatcher |
| `BuildMatrix` | how the rows come about: two transactions that extend the task matrix concurrently |
| `Scraper` | the crawl, its bundles and stored window, and the coordinator that stores, asks and restarts |
| `BuilderTask` | one task inside a builder: source archive and pointer, build, uploads, rows, clean-up |
| `IrStages`, `BuildTools`, `DwarfBudget`, `DwarfExtract` | the algorithms `BuilderTask` uses: IR selection and packing, build systems and commands, the extraction's time budget, the extraction itself |
| `DailyDataset` | the daily export, its ids, paths and working directories, through runs that die |
| `ServiceLifecycle` | threads, connections and messages of a process that is told to stop |
| `Blocklist` | the list of repositories never to build: its file while it is edited, its reload, the dispatchers that use it |
| `Backfill` | the migration of the artifacts bucket to compressed objects, beside builders and readers |
| `TaskDispatch_proofs`, `Services_proofs`, `BuildMatrix_proofs`, `Scraper_proofs`, `BuilderTask_proofs`, `DailyDataset_proofs`, `Blocklist_proofs`, `Backfill_proofs` | theorems about them; `TaskDispatch_proofs` has those of `LedgerRefinement`, `Services_proofs` those of `Registration` and `ServiceLifecycle` |
| `MC...` | instances of these for TLC, with one or more `.cfg` each |

The modules meet where the components do.  `TaskDispatch` takes a registration as one
step that `Registration` has in detail, takes its rows from `BuildMatrix`, and treats a
builder's task as a few phases that `BuilderTask` has in detail; the bundles
`BuildMatrix` ingests are those `Scraper` publishes, and `Starve` of `TaskDispatch`
raises the flag `Scraper` begins with; the blocked repositories, a constant set in
`TaskDispatch`, are what `Blocklist` loads, and the builders that upload in `Backfill`
are those of `BuilderTask`, reduced to the order of their uploads; `ServiceLifecycle` is
the thread every one of them runs in.  They are not multiplied into one state space: two
neighbours share only a queue or a table, and each module lets the other side do there
what it may.

`PROJECT.json` ties every definition to the source lines it models, every
property to the runs that check it, and every hazard to the properties that
would catch it.

## 1. Inventory

### The processes and what they share

Everything between processes goes through RabbitMQ queues and one PostgreSQL
database.  Nothing else is shared but object storage, which builders write and
the export tools read.

```
 scraper --scrape--> coordinator --build_opt_{id}--> builder --clone,build,binary,ir--> coordinator
    ^  `-scraper_reg->   |   ^ `-- ctrl (reply) --------^ |
    `---- ctrl ----------'   `----- builder_reg ----------'
                         |
                     PostgreSQL: projects, buildopt, b_status, binaries, ir_artifacts, scrapers
```

### Coordinator (`coordinator/`)

| part | state | operations | hard behaviour | what makes it correct |
| --- | --- | --- | --- | --- |
| `dispatch.py` DispatcherService, one thread per build option | the candidate row in hand | `dispatch_step`: depth, select, publish, mark | not atomic: anything may happen between two of the four | no row marked that was not published; bounded backlog; no task begun twice without a failure |
| `dispatch.py` DispatchManager, StarvationSignals | options started, starving options | `ensure_started`, `mark`, `take_starving` | in memory only: lost in a restart | a builder that serves a queue has a dispatcher that fills it |
| `ingest.py` | none | `handle_scrape`, `handle_clone_status`, `handle_build_status`, `handle_binary`, `handle_ir` | redelivery; two transactions for a failed build; swallowed errors | results have a cause and stay; bundles neither block nor get lost |
| `registration.py` | none | `handle_builder_registration`, `handle_scraper_registration` | reply, start and ack are three steps; unroutable replies | every acknowledged registration was answered and its dispatcher runs, unless the coordinator is shutting down |
| `scraper_requests.py` | registry of scraper queues, one pending request | `register`, `claim`, `clear`, broadcast | signals consumed and then refused; empty after a restart | a starving option gets repositories in the end |
| `app.py` | - | wires seven consumers, each a thread with its own connection | restart with queues full | - |

### Task store (`db/`)

State: `projects`, `buildopt`, `b_status` (one row per task with `clone_status`
and `build_status`), `binaries`, `ir_artifacts`, `scrapers`.  Each operation of
`CoordinatorStore` is one transaction at PostgreSQL's default READ COMMITTED.
Hard: no operation is guarded by the row's current state except the selection and
the siblings' update, so concurrent writers overwrite each other; two of them
extend the matrix at once.  Correct when every covered pair has exactly one row
and a row only goes back by a documented path.  `bootstrap.py` and Alembic set the
schema up before anything runs.

### Messaging (`mq/`)

`Publisher.publish` is confirmed and mandatory and retries when a connection
dies; `ConsumerLoop` reconnects, takes one unacknowledged delivery at a time, and
acknowledges before (builders) or after (coordinator) the handler; a handler that
raises has its delivery requeued.  Hard: lost confirms and acks duplicate
messages; a requeued delivery comes back at the head of its queue; a stop that
arrives while the connection is being opened.  Correct when nothing confirmed is
lost and nothing unacknowledged disappears.

### Runtime (`runtime/`)

`Supervisor` runs services in threads, restarts those that return or raise with
backoff, and shuts down on a signal under one deadline.  Hard: shutdown racing
reconnection, `add_and_start` racing `stop`, a handler in a long build.

### Builder (`builder/`)

State: its uuid, its option, the task it works on, the task its connection has
prefetched, a scratch directory.  Operations: `_register`, then `run_task` for
every delivery (acquire, report clone, report processing, build, extract, persist,
report result, clean up); after `_RECYCLE_AFTER_TASKS` tasks it exits and its
container starts it anew.  `report.py` publishes; `source.py` restores or clones and
archives a repository; `artifacts.py` and `ir.py` select and pack files.  Hard: the
early ack gives the task up before it is done; the handler blocks the connection's
thread, so long builds lose the connection; archive and pointer are two uploads.

### Scraper (`scraper/`)

State: crawl window, policy, bundle cache, last time sent, token cycle.
Operations: SETUP handshake, crawl, UPDATE when the window advances, flush
(continuously or on request), control messages.  Hard: two threads share the
control state; UPDATE is sent before the repositories it skips; requests and
flushes cross.  `github.py` adds retries, rate limits and page walks.

### The rest

| part | role | hard behaviour | what makes it correct |
| --- | --- | --- | --- |
| `blocklist.py` | repositories never dispatched; reloaded from a file, by its time and size | a file truncated, half written, unreadable or with the same stamp; one thread that reloads while others wait; tasks selected before the change | an edit takes effect in the end; the query leaves out what the list names; one late task at most |
| `dwarf/` | DWARF extraction, sharded over processes, in a child killed on timeout | the arithmetic of the phase budget; merging shards; innermost function of a line | the same result however it is sharded, within the budget |
| `build/` | build strategies, commands with time limits, file discovery, IR stages | a failing build that leaves products; a shared dump directory | what is taken for a product is this build's |
| `storage/` | object store client, key layout, compression | refused and raising calls; keys that overwrite each other | what is on record is stored |
| `dataset/` | daily and one-off export, host-side | dates read three times and in two zones, ids and paths, runs that die, or exit with success, between database and files | rows have files and functions; nothing is missed |
| `src/assemblage_loop.sh`, `src/midnight_recover.sh` | cron-style recovery with docker commands, and the daily run (disabled in this commit, lines 139-149) | they restart workers to have dispatchers started again | - |
| `src/backend/scripts/` | maintenance; `backfill_compress.py` migrates layouts and may be resumed | a half-migrated prefix taken for a raw one; a bad copy in front of a good raw object; deletion after a failed copy | what was stored stays readable, or its raw object is kept, or at least its bytes are in the bucket |
| `legacy/`, `src/data_refill`, `src/deephistory`, `src/assemblage_tui.py`, Alembic versions | frozen, one-shot or read-only | - | - |

`PROJECT.json` lists the same parts with their status.

## 2. The modules and the code

### TaskDispatch

One dispatcher thread per option, builders, and the coordinator's consumers of
`clone` and `build`.  They share the rows and the queues only, so each action is
one transaction, one broker operation, or one phase of a builder's task.

| state | in the program |
| --- | --- |
| `cloneStatus`, `buildStatus` | the two columns of `b_status` |
| `pace`, `candidate` | where `dispatch_step` stands, the row it selected; `"off"` when the thread does not run |
| `taskQueue`, `cloneQueue`, `buildQueue` | the ready messages of `build_opt_{id}`, `clone` and `build` |
| `linked`, `prefetched` | a builder's consumer connection and the delivery that waits on it |
| `phase`, `working` | where `run_task` stands and with which task |
| `failing` | `handle_build_status` is between its two transactions |
| `published`, `taken`, `built`, `broken`, `uncloned`, `dropped` | history, for properties only |

| action | code |
| --- | --- |
| `CheckDepth`, `Select`, `Starve`, `PublishTask`, `MarkProcessing` | the steps of `dispatch_step` and their early returns |
| `DispatcherFails` | `run` catching a `PublishError`, or the supervisor restarting the service |
| `Register` | the handshake in one step: `Registration` has it in detail |
| `Deliver`, `Disconnect`, `Reconnect` | the consumer connection with prefetch 1 |
| `Begin` | `_on_message` with `ack_early`: the ack, then the handler |
| `CloneFails`, `CloneSucceeds`, `ReportProcessing`, `FinishBuild` | the paths of `run_task` with their reports; `Release` ends the task and perhaps the builder's life (recycling) |
| `HandlerRaises`, `BuilderCrashes` | a task lost after its ack |
| `IngestClone`, `IngestBuild`, `FailSiblings`, `SiblingsRaise` | the ingest handlers under `ConsumerLoop` |
| `CoordinatorRestarts` | threads and their state are gone, queues and rows stay |

Duplicates come from `Twice` (a publish retried because its confirm was lost) and
from `AckClone`, `AckBuild` and `Begin` (an ack lost with its connection).  Each costs
one of `MaxFaults`; a lost connection during a build costs none, because it is what
a long build does.

### Registration

Builders live `MaxLives` times, each life with its own uuid and control queue
(`ctrl`; it is auto-delete and goes with its consumer).  `builder_reg` holds uuids.
`RegisterOption`, `Reply` and `StartAndAck` are the handler's three effects and the
ack; `HandlerRaises` and an unroutable reply requeue at the head.  `Boot`, `GetReply`,
`TimesOut` and `BuilderStops` are the builder; `CoordinatorStarts` is the process whose
threads `running` are.  Its end has two steps, `ShutdownBegins` (`stopping`) and
`CoordinatorExits`, or one, `CoordinatorDies`.  In between consumers still finish the
delivery they hold: `StartAndAck` then starts nothing, because
`Supervisor.add_and_start` returns at once (`runtime/supervisor.py:50-52`), and
acknowledges the registration all the same.

### BuildMatrix

`register_build_opt` is two actions: `RegisterScan` reads the repositories committed
by then, `RegisterCommit` makes the option and its rows visible.  `insert_repos` is
likewise `InsertScan` and `InsertCommit`, with `InsertDuplicate` for a known url.
Under READ COMMITTED this is all that two concurrent transactions can observe of
each other.  `handled` is the position in the bundle, which a crash or a lost ack
brings back to the start.  Coverage is the code's, with its substring tests in the
two directions they have in the two operations.

### Scraper

A crawl thread and a control consumer per scraper, which share `control` and nothing
else; on the other side the registration handler, `ScraperRequestService` and the
ingestion of bundles.  GitHub is `Results[w]`, what the search finds in window `w`.
Time runs backwards in the code; here windows are numbered in the order of the walk
and a crawl time is the number of windows behind it.

| state | in the program |
| --- | --- |
| `crawl` | where `ScraperApp._crawl` and the generator `fetch_data` stand: window, page, assumed total, results in hand |
| `control`, `cache` | `CrawlControl` with the crawl time of the search, `RepoBundler._repos` |
| `listening`, `ctrl`, `regs`, `bundles` | the private queues and those of `scraper_reg` and `scrape` |
| `rows`, `registry`, `starving`, `pending` | table `scrapers`, `ScraperRegistry`, `StarvationSignals`, `PendingRepoRequest` |
| `seen`, `published`, `lost`, `missed`, `walked`, `cut` | history of repositories and windows |

| action | code |
| --- | --- |
| `Boot`, `Announce`, `Reannounce` | `run`, the SETUP and its repetition in `_await_config` |
| `StartCrawl`, `NextWindow`, `FinishCrawl` | the loop over windows and its end, after which the supervisor starts it again |
| `RequestPage`, `LeaveWindow`, `TakeRepo`, `LeavePage` | the page walk of `fetch_data`, with requests that fail and a malformed result that takes the rest of its page along |
| `CheckForUpdate`, `Bundle`, `FlushOnRequest`, `ClearRequest`, `FlushFails` | what `_crawl` does after each repository: cache, UPDATE, bundle by policy; a failed publish ends the service |
| `OnControl`, `ControlReconnects`, `Dies` | the consumer thread, its lost connection, the end of the process |
| `OnScraperReg` | `handle_scraper_registration` with `register_scraper` / `update_scraper`, reply, registry and ack |
| `Starve`, `RequestRepos`, `RequestRefused`, `OnScrape` | the flag, one round of `ScraperRequestService.run`, the gate, `handle_scrape` |
| `CoordinatorRestarts` | `ready_scraper_table`; what was in memory is gone |

### BuilderTask

What `TaskDispatch` calls a phase is a sequence of some fifteen steps here, each
ending where another builder, the store or a failure can interfere.  A working tree
is the commit git checked out, the commits whose files linger in it, and the tasks
whose products lie in it.

| state | in the program |
| --- | --- |
| `head` | the repositories on GitHub |
| `archives`, `pointer`, `objects` | the bucket of source archives, its `latest.txt` objects, the bucket of artifacts |
| `at`, `job`, `tree`, `gccjit` | a builder in `run_task`, its locals, its clone directories, `/tmp/gccjit_dumps` |
| `todo`, `rows` | the option's queue; `b_status`, `binaries`, `ir_artifacts` per task |
| `refused`, `orphaned`, `unswept` | history: uploads the store refused, repositories whose tree stayed behind, and those of which `rmtree` failed to remove it |

| action | code |
| --- | --- |
| `ReadPointer`, `RestoreArchive`, `Clone`, `GetProjectCommit`, `UploadArchive`, `PutPointer` | `acquire_source` and what it calls; `RaiseEarly` is an exception out of it |
| `ReportProcessing`, `Build`, `DebugInfo` | the body of `run_task`; `Build` uses `BuildTools`, `DebugInfo` uses `DwarfBudget` |
| `SaveMetadata`, `SaveBinaries`, `PersistIr`, `SaveExportManifest` | `_persist_success`, with `handle_binary` and `handle_ir` applied once or twice; `PersistIr` uses `IrStages` |
| `RaiseLate`, `ReportFinished`, `CleanFolder` | an exception inside the `try`, the last report, the `finally` |
| `Crash`, `Restart` | SIGKILL, and `_sweep_stale_scratch` of the next process |
| `TakeTask`, `Duplicate`, `Push` | the queue, a task published twice, a commit pushed |

`CleanFolder` and `Restart` remove trees with `rmtree(ignore_errors=True)`, which may
leave one without a word; that is one of the faults, and `unswept` remembers it.
`DwarfBudget` counts what holds the builder: the extraction in its child, up to ten
seconds to reap a child that was killed (`dwarf/isolated.py:192`), and up to two minutes
of rustfilt per binary in the caller's loop (`build/rust.py:454`, `:718`), all of which the
generator's clock sees only at the next binary.

`DwarfExtract` is pure: `ExtractDwarfInfo` walks the compile units of a small binary,
alone or in shards, resolves names, ranges and files, and gives each line its function.
`DebugInfoIsSound` compares these over all binaries in `Programs`.  What Python does
with a comprehension or `sort` is `InOrder`, the values at a set of places in their
order.

### DailyDataset

| state | in the program |
| --- | --- |
| `day`, `utc` | the local date and the date in UTC, which move on one by one; `UtcAhead` is how far the second may be ahead of the first |
| `built` | the rows of table `binaries`, with both dates of their build |
| `wanted`, `dayFile` | the day the loop found not done, `last_pipeline_day` of `assemblage_loop.sh` |
| `asked`, `since`, `today` | the three readings of the date: the shell's argument, `daily.py`'s yesterday, `pipeline.py`'s directories |
| `raw`, `staged`, `meta`, `tree`, `dirs` | today's working directories: downloads, files and metadata by identifier, the files and directories `db_construct` builds |
| `db`, `files` | the cumulative SQLite file with its tables; the published files below each day |
| `at`, `todo`, `got`, `cur`, `tried` | the run, rows to download and to stage, the identifier in hand and those of its files that were not moved |
| `nextId`, `nextFun`, `pending` | `binary_id`, `function_id`, `binary_ds` with `function_ds` |
| `okDays`, `refused`, `missed`, `removed`, `mishaps` | history |

| action | code |
| --- | --- |
| `LoopLooks`, `Locked`, `RunDaily` | the loop reads date and day file, and starts a run that takes the lock or ends at once |
| `Yesterday`, `Start`, `NothingToDo` | `daily.py` computes the window, `run_pipeline` names the directories and asks for what is new (`QueryNewBinaries` compares a local date with UTC times) |
| `Download`, `Stage`, `GiveUp` | `_download_one`, `build_staging_entry`, and the end of a run that could stage nothing |
| `Connect` | `db_construct` opens the file and reads the last ids |
| `Add`, `Leave`, `PassOver`, `Clear` | one staged file after another: `assign_path` and the directory of the next id, made in the place of a file if one lies there (`InTheWay`, `removed`); a move that works, one that fails, a file that is none; `rm -rf` of the identifier |
| `TimeOut` | `runcmd` after 15 seconds: `exit()`, which the loop takes for success |
| `FlushBinaries`, `FlushFunctions`, `FlushRvas` | `bulk_flush`, a transaction per table, each of which may drop a row |
| `Copy`, `Finish` | publishing, and the removal of the staging directory |
| `Die`, `Midnight`, `Build` | the end of a run anywhere, with half a copy or half a removal on the disk; the clock; a new row |

`StagedNameMatches` is `staged_name_matches` with its second form, which leaves out a
number before the name (`Strip`): what was extracted here is listed as
`<binary_id>_<name>`, and a file `7_hello` passes for `hello` as well.  In this commit the
loop's call of the daily run is commented out (`src/assemblage_loop.sh:139-149`); the
functions it calls are there and are what is modelled.

### ServiceLifecycle

| state | in the program |
| --- | --- |
| `stop`, `main`, `toWake`, `listed` | `Supervisor._stop`, the main thread, the two callers of `_wake_services`, `_services` |
| `pc`, `conn`, `recorded`, `nudged` | each service's thread, its pika connection, `ConsumerLoop._connection`, a scheduled `stop_consuming` |
| `msg`, `begun`, `broker` | where a message is, which a handler was given, whether RabbitMQ is up |

`Signal`, `RequestShutdown`, `WakeServices`, `Poll`, `Stop` are `run_until_signal`,
`request_shutdown` and `stop`, instruction by instruction where a signal can come
between; `Loop`, `Connect`, `Record`, `StopConsuming`, `Notice`, `Crash`, `Backoff`
are `ConsumerLoop.run`, `factory.open` and `request_stop`; `Deliver` and `Settle` are
`_on_message` with an early or a late ack; `Recycle` and `RecycleWakes` the builder
after its last task; `Add` and `Launch` are `add_and_start`; `Dispatch` and `StepFails`
the dispatcher's loop.  `Lose`, `BrokerStops`, `BrokerStarts` are the world.

### Blocklist

| state | in the program |
| --- | --- |
| `file`, `edit`, `now` | the file on disk with its stamp (mtime and size), what an editor has still to write, the clock that dates files |
| `list`, `due`, `reader`, `seen` | `FileBlocklist._current` with `_stamp`, whether the interval has passed since `_checked_at`, the thread that holds the lock, the stamp it found |
| `at`, `hand`, `pick` | where a dispatcher or the main thread stands, the list it was given, the row it selected |
| `pending`, `queue`, `taken` | an option's tasks before, in and behind its queue |
| `stamps`, `reused`, `kept`, `late` | history |

| action | code |
| --- | --- |
| `Ask`, `Load`, `KeepList`, `Raise` | `FileBlocklist.current` and `_reload_locked`: the interval and `stat`, the text, an `OSError` that keeps the list, a `UnicodeDecodeError` that is none |
| `CheckDepth`, `NextDispatchable`, `Publish` | `dispatch_step` with the query's patterns (`Excluded`), which `Matches` is compared with |
| `Truncate`, `WriteLine`, `Replace`, `Vanish`, `Return`, `Tick`, `Elapse` | editors in place and by rename, a file that goes and comes back, the clocks |
| `Take`, `Restart` | a builder, a coordinator that starts again |

The text of an entry or a url is the sequence of its parts between slashes, so that
`Owners`, `Repos`, `SplitRepoUrl` and the three LIKE patterns are sets and
sequences of parts.

### Backfill

| state | in the program |
| --- | --- |
| `store`, `manifests` | the objects of the bucket by build, generation of their prefix and name; the prefixes with an `export.json` |
| `building` | what a builder has still to upload |
| `run`, `keepRaw`, `todo`, `objects` | `main` with its options, the prefixes to migrate, what was listed |
| `work`, `failed` | a thread in `migrate`; `_stats` |
| `corrupted`, `owed`, `unverified`, `moved` | history: was a copy corrupted; what was stored; whose last copy was not found equal; what was removed from where readers look first |

`Upload` and `SaveManifest` are a builder.  `Start` lists the bucket and takes what has
no manifest; `Take`, `HeadObject`, `Download`, `Put`, `Verify`, `Fail`, `PutManifest` and
`Delete` are `migrate`, call by call; `Finish` and `Kill` end the run.  A prefix
that a builder, or a run that was killed, has not finished has no manifest either, and its
name parses as a raw one: the script moves it on to a third generation, where no reader
looks.  `Before` is the order of a build's prefixes by name, in which `main` takes them.
`Reads` is what `download_binary` of the dataset's pipeline returns: the object under
the new key if it is there and unpacks, and the raw one only else.

### TaskLedger and LedgerRefinement

The ledger knows no queues, threads or crashes: a task is handed over, begun any number
of times, each attempt may have an outcome, and the row's result is revised only if the
task was begun twice or the result is a sibling's failure.  The mapping is `handed <-
published`, `tries <- taken`, the four outcome sets by name, and `result` is the status
of a settled row, else `"open"`.

## 3. What the runs show

| run | instance | result |
| --- | --- | --- |
| `dispatch_faults` | two sibling tasks in two options, a builder each, one of them recycling; one fault of any kind, restarts included; 3.3 million states | `TypeOK`, `PublishedBeforeMarked`, `ResultsHaveCause`, `NothingVanishes` hold, and `ImplementsLedger` |
| `dispatch_live` | two tasks of one option, a builder that recycles, one fault or restart, fairness | `SingleBuildWithoutFaults` holds, and `EveryTaskSettles` for an option that has a dispatcher and a builder in the end |
| `registration` | two builders of one option, three lives each, three faults of any kind, shutdowns and kills of the coordinator among them, fairness | `ServingHasDispatcher`, `AckedMeansServed`, `EventuallyServed` hold |
| `matrix` | three options, three repositories, two bundles, two faults, fairness | `AtMostOnePerPair`, `CompleteUnlessOverlapped`, `BundlesDrain` hold |
| `matrix_complete` | the same, without any fault | `MatrixComplete` is violated |
| `scraping` | two scrapers, one after the other, one ON_REQUEST and one CONTINUOUS; two windows, the first of two pages; one fault, fairness; 0.9 million states; no deadlock | `SeenIsKept`, `StoredIsWalked`, `WalkedIsSeen`, `OneRowEach`, `FullIsAsked` hold |
| `building` | three tasks over two repositories and two options, a C and a cg_gcc tier, two builders, one fault, of which a tree that `rmtree` leaves is one, and either a push or the second repository's task (the two repositories meet only in libgccjit's directory, whose dumps know of no commit); 0.64 million states | `PointerHasArchive`, `SourcesArePristine`, `ContentIsLabelled`, `RecordedIsStored`, `IrIsOwn`, `RowsDespiteRedelivery`, `DwarfWithinBudget`, `DebugInfoIsSound` hold |
| `dataset` | three binaries, two of one Rust build and one identifier whose names differ by a number in front, and one with a name of two digits; one death, one fault; three instances in one, see the bounds; 2.7 million states | `RowsHaveFiles`, `FunctionsBelong`, `NothingMissed`, `AppendedOnceADay` hold |
| `lifecycle` | an early and a late acknowledging consumer, a dispatcher, two messages, two signals, one fault, fairness; 0.6 million states | `ShutdownIsClean`, `ThreadsEnd` hold |
| `blocklist` | one owner, two urls, two dispatchers; one edit of any kind, one fault, one tick of the files' clock, fairness; 0.8 million states | `AtMostOneLate`, `StampTellsTheText`, `ExclusionIsExact`, `EditTakesEffect` hold |
| `blocklist_truncated` | one dispatcher, one edit, no fault | `NeverReadmitted` is violated |
| `backfill` | an old build and a new one of two objects each, two threads, two runs of the script with and without `--keep-raw` and `--limit`, two faults; 2.9 million states up to the symmetry of threads | `ReadableOrKept`, `BytesSurvive`, `ManifestVouches`, `ManifestFirst` hold |

The type invariant of each machine is proved (section 4); TLC checks one of them,
that of the largest machine.

Two runs document a disagreement between the code and what is said of it:

* **Holes in the matrix.**  `register_build_opt` back-fills a new option for every
  existing repository and `insert_repos` gives a new repository a row for every
  covering option.  When their transactions overlap neither sees the other, and the
  pair never gets a row.  `CompleteUnlessOverlapped` says that nothing else loses one.
* **A truncated blocklist.**  `blocklist.py:137-138` says that a truncated file "cannot
  quietly re-admit a repository".  Only an `OSError` keeps the loaded list
  (`blocklist.py:181`); a file that an editor has truncated and not yet written is
  an empty text, which is parsed, and a repository that both versions of the file
  block is selected.

Others are met by the properties' exceptions rather than by a run of their own:

* `src/README.md:47-48` speaks of at-most-once delivery.  The publisher repeats a publish
  whose confirm was lost (`mq/publisher.py:98`), a dispatcher that fails between
  publish and mark selects the row again, and an early ack may be lost:
  `SingleBuildWithoutFaults` claims it only while nothing fails.
* `src/INSTALL.md:236` tells the operator to restart the builders once the coordinator is
  back.  The registration of a builder that gave up meanwhile stays at the head of
  `builder_reg`: the reply to it is unroutable and the loop requeues it
  (`mq/consumer.py:141`), so that none behind it is handled.  `EventuallyServed`
  excepts `Wedged` and nothing else, and `EveryTaskSettles` asks for a builder that got
  through its handshake instead of assuming that every handshake ends.
* `blocklist.py:6-7` says that a blocked repository "is never handed to a builder"; a task
  selected or queued before the edit is built all the same (`coordinator/dispatch.py:130`).
  `AtMostOneLate` counts those a dispatcher still publishes.
* `assemblage_loop.sh:76-77` says that "the day is recorded (in DAY_FILE) only on success".
  When removing a staged directory takes more than fifteen seconds, `runcmd` calls
  `exit()` (`dataset/construct.py:102`); `except Exception` (`dataset/daily.py:146`) does
  not catch a `SystemExit`, whose exit code is 0, and the loop records the day: the rows in
  memory are gone, no file is published, and nothing retries.  `TimeOut` does this; the
  properties speak of days whose run returned (`okDays`).
* `backfill_compress.py:19-20` says that an interrupted run costs only the build it was in.
  The copies that a killed run leaves have no `export.json`, and their prefix parses as a
  raw one.  The next run has two prefixes of one build to migrate: one thread moves the
  copies on to a third prefix and deletes them while another copies the raw objects over
  them and then deletes these; TLC reaches a state where an object is under neither key
  that readers try.  `ReadableOrKept` excepts it (`moved`), `BytesSurvive` does not.
* `backfill_compress.py:18` says that a build that fails verification "keeps its v1 objects",
  and `:24-25` that readers try both layouts, "so the corpus is queryable throughout".  The
  copy stays under the new key (`:183`), and `download_binary` returns what is there if it
  unpacks (`dataset/pipeline.py:243-256`): a frame without a checksum may unpack to other
  bytes.  `ReadableOrKept` excepts such an object (`unverified`) and says that the raw one
  is still there.
* `backfill_compress.py:22` has `--keep-raw` for a first pass; a later `--apply` skips the
  builds that have a manifest by then (`:100`), and their raw objects stay.

### Where the properties make an exception

A property that holds only up to an exception names it.  These are the places where
the code does less than one may expect; each is reachable in the run.

| where | what the code does | property and its exception |
| --- | --- | --- |
| `mq/consumer.py:151` | a consumer inside `factory.open` when the event is set is missed by both rounds of nudges and parks in `start_consuming`; the process stays, though `runtime/supervisor.py:4-6` says shutdown drains every service | `ThreadsEnd`, `caught` |
| `runtime/supervisor.py:93`, `:136` | the signal handler takes locks the main thread may hold and hangs | `ThreadsEnd`, `main = "hung"` |
| `mq/publisher.py:67` | a publisher opens its connection without regard to the event: with the broker down a handler or a dispatcher holds up the shutdown until it is back | `ThreadsEnd` needs `WF(BrokerStarts)` |
| `coordinator/scraper_requests.py:102` | a restarted coordinator knows no scraper, and scrapers register only at SETUP: one that is full waits on | `FullIsAsked`, registered scrapers |
| `scraper/app.py:223` | the stored window is advanced before the bundle is out: a scraper that dies loses its cache for good, and the next one goes on behind it | `SeenIsKept`, `lost`; `StoredIsWalked`, `cut` |
| `scraper/github.py:420-421`, `:438` | a page that fails is skipped; a malformed result takes the rest of its page along | `WalkedIsSeen`, `missed` |
| `builder/source.py:65`, `:152` | a commit git cannot tell is filed as "Unknown", which any other may overwrite; a tree a failed acquire left is unpacked over | `ContentIsLabelled`, `Unknown` and `orphaned` |
| `builder/pipeline.py:282`, `builder/app.py:60` | `rmtree(ignore_errors=True)`: a tree that cannot be removed stays, with its products, and the next build of the repository starts from it | `SourcesArePristine`, `RecordedIsStored`, `IrIsOwn`, `unswept` |
| `build/rust.py:718`, `dwarf/isolated.py:192` | rustfilt and the reaping of a killed child come after a binary's share of the budget was used | `DwarfWithinBudget`, `Overrun` |
| `runtime/supervisor.py:50-52` | once a shutdown has begun, a registration starts no dispatcher and is acknowledged | `AckedMeansServed`, `ServingHasDispatcher`, `stopping` |
| `builder/pipeline.py:193` | manifest and reports list objects whose upload was refused | `RecordedIsStored`, `refused` |
| `builder/ir.py:173` | `/tmp/gccjit_dumps` is never cleared: the crate's name is all that separates two builds | `IrIsOwn`, GIMPLE |
| `db/store.py:353` | a redelivered binary report inserts a second row | `RowsDespiteRedelivery`, `faults` |
| `dwarf/extract.py:573` | the comment says "innermost", but of two ranges with one start the outer one gets the line | `DebugInfoIsSound`, ranges that start later |
| `dataset/daily.py:87`, `dataset/pipeline.py:662` | yesterday's local date is compared as 0:00 UTC: a binary is appended on two days, on three west of UTC if it was built in the evening, though `daily.py:3` says "newly-built"; east of UTC, what is built between local midnight and 0:00 UTC, after the day's run, is in no window | `AppendedOnceADay`, the days up to that after the UTC date; `NothingMissed`, built once UTC has the local date |
| `src/assemblage_loop.sh:89`, `dataset/daily.py:87`, `dataset/pipeline.py:663` | the date is read three times; a run over midnight asks for, stores below and records different days | `NothingMissed`, `AppendedOnceADay`, `RowsHaveFiles`, "astray" |
| `dataset/construct.py:250-252` | a file that lies where the directory of the next id must be is removed, with its row left in the database; it takes a file name of two digits and ids that gained two digits | `RowsHaveFiles`, `removed` |
| `dataset/construct.py:79-81` | a number before the name is left out when functions are looked up, for any file: those of `7_hello` go to `hello` of the same identifier too | `FunctionsBelong`, `Strip` in `Belongs` |
| `dataset/construct.py:84`, `:254-268` | ids of odd length lose their first digit and share paths; a clash may drop the binary without a word, and the last of the ids tried replaces the file that is there | `NothingMissed`, `missed`; `RowsHaveFiles`, "crowded" |
| `dataset/construct.py:189`, `dataset/store.py:174-182` | each table is a transaction of its own, which drops single rows; the id of a row the database refused is given away again, and what refers to it stays | `FunctionsBelong`, `refused` |
| `dataset/pipeline.py:380`, `:770-773` | the identifier has no commit and no backend; an attempt that can stage nothing removes files another has appended and not published, and counts as the day's success | `NothingMissed`, `Key`; `RowsHaveFiles`, "wiped" |
| `blocklist.py:133` | a write that leaves time and size as they were, or brings back an old date, is not noticed | `StampTellsTheText`, `EditTakesEffect`, `reused` |
| `db/store.py` `_not_blocked` | the query looks for an owner anywhere in the url, and for a name with its suffix `.git`; the list looks at the last two parts | `ExclusionIsExact`, its antecedent |
| `backfill_compress.py:258` | a prefix without a manifest is taken for a raw one, be it a new build that is not finished or what a killed run left | `ReadableOrKept`, `ManifestVouches`, `moved` |
| `backfill_compress.py:183` | a copy that failed its verification stays where readers look first; the raw object stays too | `ReadableOrKept`, `unverified` |
| `backfill_compress.py`, `migrate` | a copy stored with other bytes may be moved on by the next run while another thread replaces it, and the replacement be deleted | `BytesSurvive`, `corrupted` |

Met while modelling, and without a property: `linux.py:121` asks for a build system
detection never names; `save_export_manifest` says it never raises, and does on an
unreachable endpoint; a truncated download passes for a whole one on the day's next
attempt; an export whose table of binaries or functions is empty fails at every
attempt (`construct.py:189-190`).

### Bounds

*One fault* in the larger runs: a second one multiplies the states beyond what a run can
explore, and every safety property of the dispatch, the scraping and the shutdown is
proved for any number, and so are those of the export, the blocklist and the migration.
One fault is enough for each property to meet its hazard: the mutants in `PROJECT.json`
are found within it. *Two tasks that are siblings* in different options are the least
that make `FailSiblings` interfere with a dispatch and with a report; *two tasks of one
option* let one wait in the queue behind the one a builder holds.  *Three lives and
three faults* let a builder leave two dead registrations, and be answered in a third
life.  *Three options and repositories* cover a system that contains another's name, a
language equal up to aliases and one that is not, and an option from before the builders
asked for `"all"`.

*Two windows of two pages* let a page walk end early or late and a stored window run
ahead; *one scraper at a time* (`MaxAlive`), because what two share is the table and its
rows, and the second takes over the row of the first; *one message in a queue*
(`MaxQueued`): a second SETUP or request waits, which delays it and loses none. The
proofs have none of these bounds.  *Three tasks, two repositories and two options* let
two builders share an archive while its repository moves on, and one builder go from a
repository to another with dumps left behind.  *Two binaries, a budget of three seconds,
and binaries that are quick, that keep rustfilt past its timeout, or that are killed and
reaped late* reach a remaining budget of zero, an odd half second and the most the phase
may overrun.  `Programs` has every combination of nested, disjoint, overlapping, dropped
and shared functions over three dies, and four units for the shards.  *Three days* are
the least at which a binary can be in three windows, and in none when one goes wrong,
and the two dates of the clock take every difference a zone allows.  What happens to
files and rows within a day does not depend on windows, nor windows on what else is
built, so `Instances` of `MCDailyDataset` lets a behaviour have one of three sizes: all
three binaries on the first day with a death, the two of one build on the first day with
a death and a fault, or the third binary alone on three days with one of these.
`FirstId` and `Ten` = 2 let ids change their number of digits within the six files of
two attempts, and the clash of a file with a directory needs a file whose name is two
digits. *Two signals* let the second fall into the handler of the first. *One edit, one
tick* let a file be truncated, read and written within one time stamp or across two;
*two urls* that spell one owner in two ways tell `ILIKE` from `LIKE`; *two dispatchers*
are the least that wait for each other's reload.  *Two runs* of the migration are what
resumption takes, with `--limit` 1 cutting the first one short; *two faults* let a copy
fail in a run that is killed, or a corrupted copy be met again; one build is old and one
is written while the script lists.

### Fairness

`WF` on a dispatcher, a consumer, a builder's own progress, delivery and reconnection:
`runtime/supervisor.py` restarts every thread that returns or raises, `ConsumerLoop.run`
and `Publisher` reconnect, RabbitMQ delivers to a consumer that has none unacknowledged,
and `docker-compose.yml` restarts builders and coordinator (`unless-stopped`).  Nothing
is assumed of faults, disconnections, recycling, restarts or time-outs.
`EveryTaskSettles` asks in addition that the dispatcher runs from some point on and that
a builder is there again and again, because the code promises neither: a restarted
coordinator waits for a registration, and a builder that comes back may wait behind a
wedged one for ever.  `Register` has no fairness.  In `Registration`, `WF` on the
consumer and its handler, on a builder that boots or has its reply, and on
`CoordinatorExits`: a shutdown ends, at the latest with the container's grace period.
`MaxFaults` makes faults finite in number, so liveness is claimed for runs where
failures stop.

In `Scraper`, `WF` on the crawl and control threads, the two coordinator consumers
and on `Starve` (a dispatcher that finds no row looks again, `dispatch.py`).
`RequestRepos` has `SF`: a request goes out unless one is outstanding and younger
than `COORDINATOR_REPO_REQUEST_TIMEOUT`; as time is abstract, that the gate opens
again and again is a matter of the clock, and the service looks every few seconds.
Booting a scraper, failing and dying have none.  In `ServiceLifecycle`, `WF` on the main
thread, every service's thread and `Launch` (the scheduler), and on `BrokerStarts` (the
container is restarted); a handler ends because builds and requests have time limits.
In `Blocklist`, `WF` on the threads, on the clock (`Elapse`), on an editor who began to
write a file and on builders that take tasks; nothing makes a vanished file return.
That a blocked row never keeps a dispatcher from the others is not claimed: the lock
of `FileBlocklist` is not fair, and of two dispatchers one may get it each time.

## 4. What is proved

For every value of the constants that satisfies the named assumptions
(`DispatchAssumption`, `RegistrationAssumption`, `MatrixAssumption`,
`ScraperAssumption`, `BuilderAssumption`, `DwarfAssumption`, `DatasetAssumption`,
`LifecycleAssumption`, `BlocklistAssumption`, `BackfillAssumption`: foreign keys,
functions and numbers have their types; the blocklist's entries are finite, ids have
at least two digits); where more is assumed the theorem says so.

| theorem | inductive invariant and why it takes more than the property |
| --- | --- |
| `TaskDispatch_proofs!TypeCorrect` | `TypeOK` with `FlowOf(Tasks)`, which types all queues and builders at once, and: a dispatcher past its selection holds a row, `failing` implies a report at the head |
| `PublishedBeforeMarkedHolds` | `PublishInv`: whatever is queued, held or reported was published (`FlowOf(published)`); a mark or a report could otherwise touch any row.  The lemma `FlowStep` serves both theorems, with `Tasks` and with `published` |
| `ResultsHaveCauseHolds` | `CauseInv`: every report on `build` already has its cause in the history, and the report at the head is FAILED while its siblings are pending |
| `NothingVanishesHolds` | `VanishInv`: besides the two above, every task is in the queues of its own option (`Placed`), and a result is *owed* to every published row without one: its task is alive, or its result is on `build`.  A late PROCESSING report can take a result back, so the invariant also says that behind every such report a result is owed (`ReportsOwed`), and that the report whose siblings are to be failed is recorded (`FailedHead`) |
| `SingleBuildHolds` | `SingleInv`: until something fails, a task is in at most one place on its way from queue to builder (`Apart`), and the row a dispatcher selected is nowhere else (`Chosen`) |
| `BacklogBoundedHolds` | `BacklogBounded`, which no run checks: an option's queue exceeds the threshold by one message, what its builders may hand back, and the duplicates.  `LoadInv`: the bound holds of the queue together with what the builders hold, not of the queue alone: a lost connection moves a task from the builder to the queue and leaves the sum as it is.  A cardinality argument, so `Builders` is assumed finite |
| `LedgerImplemented` | `LedgerInv`: `PublishInv`, `CauseInv` and `Attempts`, which follows the one attempt of a task that was begun once: one builder, its reports in order, and behind a result of its own only reports of the same result.  Each action then maps to one of the ledger's or to a stutter |
| `Services_proofs!TypeCorrect`, `ServingHasDispatcherHolds`, `AckedMeansServedHolds` | `ServeInv`: an answered builder's registration is still queued or its dispatcher started, unless the coordinator is shutting down or went down since; and in step `"start"` the head was answered |
| `BuildMatrix_proofs!TypeCorrect`, `AtMostOnePerPairHolds`, `RowsWarrantedHolds`, `CompleteUnlessOverlappedHolds` | `MatrixInv`: a transaction's own row is not committed yet, has no `b_status` row, and what it read is committed; what is committed and unread overlapped.  `RowsWarranted` (a row joins a repository and an option that exist and have one language) is checked by no run |
| `Scraper_proofs!TypeCorrect`, `SeenIsKeptHolds`, `OneRowEachHolds` | `TypeInv` (a thread in a window is in one that exists; a reply to a SETUP carries a crawl time); the two safety properties are inductive with it |
| `Scraper_proofs!StoredIsWalkedHolds` | `StoredInv`: a crawl time is *backed* when all windows behind it are walked, cut or under way.  The row takes its time from a message, that from the thread, and the thread's start from a reply and so from a row: all five places must be backed at once |
| `Scraper_proofs!WalkedIsSeenHolds` | `WalkedInv`: in a window the pages behind `page` are seen, missed or in hand, and the total is an upper bound of what there is.  It assumes `Len(Results[w]) <= Cap` for every window, where `Cap` is the 999 of `github.py:411`: the code looks no further than the pages that hold these |
| `BuilderTask_proofs!PointerHasArchiveHolds`, `SourcesArePristineHolds` | `SourceInv`: the shared part (archives without products, a pointer that has its archive) and for each builder, by its place, that its tree is still free of products, and that a builder about to write the pointer has uploaded that archive |
| `BuilderTask_proofs!TypeCorrect` | `TypeInv`: `TypeOK`, and a builder that saves has a tree that is there, a label and a list of files (`NotesOf`) |
| `ContentIsLabelledHolds` | `LabelInv`: files of other commits linger only where a failed task left a tree behind or a removal failed (`orphaned`), in trees and in archives; and from the moment a source is named, the name is what is checked out |
| `RecordedIsStoredHolds` | `RecordInv`: what a builder means to list (`saved`) is stored already, it only saves after a success, and what its build left is its own, so a stage it packs has a dump of its own task, unless its tree was `unswept`.  It assumes `OnePerPair`, a repository has one task for an option (`BuildMatrix` is about that): a second task would overwrite the first one's objects |
| `IrIsOwnHolds` | `OwnInv`: a builder works for its option, and the products in its trees are of that repository and option, where every removal worked |
| `RowsDespiteRedeliveryHolds` | `CountInv`: a task's rows, the builders that may still report its binary and its copies on the queue are together one, and one more per fault.  A cardinality argument, so `Builders` is assumed finite |
| `Services_proofs!ShutdownIsCleanHolds` | `CleanInv`: without a fault a message is begun exactly when it is gone or held, a held one is at a consumer that handles it, and only an early consumer's is gone while it does; `LaunchInv`: a dispatcher listed and not yet launched has its registration under way |
| `Services_proofs!LifecycleTypes` | `LifecycleInv`: `ProcessTypeOK`, and a connection that was opened is still there, open or lost, when it is recorded |
| `BuilderTask_proofs!DwarfWithinBudgetHolds` | no invariant, and no induction: if the budget were ever exceeded, then first after some binary (the naturals are well-founded), and that one was given no more than what was left before it, after which comes at most `Overrun`, the longer of reaping and rustfilt |
| `DebugInfoIsSoundHolds` | `ExtractionSound`, three lemmas about any binaries.  The shards together hold every unit, each the same whatever their number (`MergedShards`); of finitely many intervals around a line one comes last (`LastExists`: a smallest set without a last one would lose a member and keep the want), and the listed lines correspond one to one to the entries that some interval holds (`EachLineOnce`); the two kinds of file table agree entry by entry (`TablesAgree`).  From `ProgramsAssumption`: units, dies, lists and tables are sequences, addresses unsigned |
| `DailyDataset_proofs!TypeCorrect` | `TypeInv`: `TypeOK` in parts (`Shape`, `Days`, `Phases`), and `Staging`: what each phase of a run has in hand, files of one identifier and name are one file |
| `FunctionsBelongHolds` | `IdInv`: ids of rows and of functions in the database, under way or next to be given are one's each (`Ids`, `FunIds`), and functions, in the database or pending, are of a binary of their row's identifier, as metadata lists them only there (`Functions`) |
| `RowsHaveFilesHolds` | `FileInv` on `WindowInv` (`Windows`: what a run works on and writes was built in its window): at every phase, what is in the database has its file in the tree, in half a copy of it, or among the published ones (`TodayPlaced`, `Copied`, `NoneBefore`), or its day has the mishap that explains it |
| `NothingMissedHolds` | `ProgressInv` on `WindowInv`: what was due when a run began is under way, written or on record as missed (`Covered`, `TriedMissed`, `FlushedSeen`), and nothing due is left when it ends (`RecordedSeen`) |
| `AppendedOnceADayHolds` | `AppendInv` on `WindowInv`: a binary is in memory once (`Once`), and without a death or a run astray what a run has still to write is not in the file under its day (`Fresh`), and a day that has rows is recorded or being worked on (`Closed`), so that no second run of it starts |
| `Blocklist_proofs!StampTellsTheTextHolds` | `StampInv`: the property is inductive with the types of what is written and loaded, for `Write` puts every stamp on record and `Load` notes the stamp that was seen, which is the file's or one that is reused when it comes back |
| `ExclusionIsExactHolds` | none: a lemma about all lists and urls, part by part of the url (`ExactForAll`) |
| `Blocklist_proofs!TypeCorrect` | `LockInv` (the thread that reads is the one that holds the lock) and `TaskInv` (a task is pending, queued or taken, and the one in hand is let through by the list in hand) |
| `AtMostOneLateHolds` | `LateInv`: a dispatcher that published a late task asks again before the next, and then has the list that is loaded, with which the next is not late |
| `Backfill_proofs!TypeCorrect` | `TypeInv`: `TypeOK` in parts, where a thread at work took its prefix off the list (`Working`), and no two have the same (`Apart`) |
| `ReadableOrKeptHolds`, `ManifestVouchesHolds` | `ReadInv`: raw objects are of old builds, which nobody writes any more (`Origins`), and what a thread of a raw prefix has copied and compared is good under the new prefix, unverified or moved, while what it is copying is still under the raw one (`Copies`) |
| `ManifestFirstHolds` | `FirstInv`: a thread that deletes has written the manifest (`Deleting`) |
| `BytesSurviveHolds` | `SurviveInv`: while no copy is corrupted, whatever a thread has copied, from a raw prefix or a mistaken one, is in a later generation, so that the bytes of an object only move up |

Only model-checked: `EveryTaskSettles`, `EventuallyServed`, `BundlesDrain`,
`FullIsAsked`, `ThreadsEnd` and `EditTakesEffect`: liveness under fairness is out of
the prover's reach.  Every invariant and every action property the passing runs check
is stated by a theorem.  Where a proof needs an induction over data, it takes the least
counterexample in the naturals, which `LeastNat` says there is; `DwarfExtract` selects
and sorts with `InOrder`, because the provers cannot expand `SelectSeq` and `SortSeq`.

## 5. What is left out

* Messages' texts, time stamps, log tallies, file formats, compression: data that no
  property depends on.
* The other members of `BuildStatus` and `CloneStatus`: nothing in the program
  writes them.
* The text of shell commands and what git, cargo, cmake and tar do: an outcome each,
  with what it may leave on disk.
* The database, the broker and the object store as such: a transaction is atomic, a
  confirmed message to a durable queue survives, a put replaces.  Their restarts appear as
  faults of those who use them.
* The scripts beside `backfill_compress.py` and the daily run: they export, pack and
  upload what is stored, one file after another, or start workers.
* The dataset's one-off export and its assembly harvest; the latter fails softly at
  every run (`pipeline.py:823-839`) and leaves nothing the dataset refers to.
* Token cycling and rate-limit waits of `github.py`: they end in a page or in none,
  which is what `RequestPage` has.
* The parts marked `not_modelled` in `PROJECT.json`, with the reason there: schema
  bootstrap and migrations (sequential, before anything runs), frozen legacy code,
  one-shot imports, the read-only terminal UI.
