# MineTrace: a verification project in TLA+

MineTrace is a desktop application (Tauri 2, Rust, React) that reads the logs
Minecraft leaves behind, reconstructs play sessions and keeps them in a local
SQLite archive. This directory holds TLA+ models of its core, the TLC runs that
check them, and proofs that TLAPS checks. Paths below are relative to the
repository; `S/` stands for `src-tauri/src/`.

## 1. Inventory

| Part | State | Operations | Talks to | What is hard | Correct when |
| --- | --- | --- | --- | --- | --- |
| Scan service, `S/application/scan_service.rs` | status mutex, cancellation slot, one worker thread per scan | `start`, `status`, `cancel`, `run_worker`, `finish_worker` | commands, scan storage, discovery | commands run on concurrent threads and release every lock between steps; the worker publishes to whatever status and slot there are by then | one scan at a time; the status tells of it and settles; every run ends; a cancel reaches it |
| Scan storage, `S/storage/scan_repository.rs`, `database.rs` | `scan_runs`, `scan_staged_*`, `dataset_state` | begin, phase, stage, promote, rollback, recover | scan service, bootstrap | crashes between transactions, a second process, errors that callers drop | promotion is all or nothing; settled runs leave no staging |
| Bootstrap, `S/bootstrap.rs` | none | open, migrate, recover | storage | recovery while another process scans | interrupted runs do not block or leak |
| Source generations, `scan_repository.rs` | `source_paths`, `source_revisions` | `decide`, `stage_inventory`, `promote_scan` | inventory, sessions | rotation of `latest.log`, deletion, unreadable files, parser upgrades, retries | the lineage tells replacement from append; a deferred source is retried |
| Canonical sessions, `S/storage/evidence_repository.rs` | `sessions`, `session_sources`, evidence | promote a payload, protect, reconcile | generations, reconstruction | history that rests on files no longer there | no launch is forgotten or told twice; every session is traceable; rescans are idempotent |
| Reconstruction, `S/parser/session_reconstruction.rs` | none (pure) | logs to sessions | parser, sessions | sessions across files, copied and overlapping logs, clocks set back | each launch is told once, with sound bounds and evidence of its own |
| Parser, `S/parser/minecraft_log.rs` | none (pure) | text to evidence | reconstruction | midnight, missing dates, limits within a chunk | instants are those of the lines; exactly what exceeds a limit is refused |
| Inventory and fingerprints, `S/scan/` | none | walk, hash, snapshot | parser, generations | files change, move and turn into links while they are read | what is parsed is what was hashed and lay in the approved folder |
| Budgets, `scan_service.rs` 50-500 | counters per log, instance, scan, archive | charge, refuse | scan service | a limit of one instance must not hold back another, one of the scan holds back all that follow, some of them in silence | no limit exceeded; whatever is left out is told of and retried |
| Discovery and grouping, `S/discovery/`, `discovery_service.rs`, `scan_service.rs` 1370-1550 | `scan_locations`, `instances` | discover, validate, add custom, group | scan service | rows saved outside the run, layouts that change, overlapping roots | one identity per folder; no log is lost in silence; instances keep apart |
| Migrations, `S/storage/migrations.rs` | `schema_migrations` | verify, apply | bootstrap | a crash in the middle | all or nothing, in order |
| Dashboard, `S/application/dashboard_service.rs` | none; an accumulator per load | `load` | webview, promotion by others | batches without a transaction, one pass over overlapping sessions, local midnights | each session counts once; days, months and totals agree with sessions |
| Explorer and profile, `explorer_`, `profile_service.rs` | none | queries | webview | filters and wording | sums agree with sessions |
| Webview, `src/pages`, `src/components/system`, `src/stores` | query caches, polling, update state | poll, invalidate, start, cancel, update | commands | a terminal status that no poll sees | caches catch up with the dataset |

`PROJECT.json` lists these components with their status, and every hazard met
while reading the code with the properties that cover it; a hazard without a
property says why.

## 2. Modules

| Module | Role |
| --- | --- |
| `AtomicArchive` | abstract specification: runs open, gather, and commit or are discarded |
| `ScanLifecycle`, `MCScanLifecycle`, `ScanLifecycle_proofs` | scan service, run storage, bootstrap, crash; several processes and threads |
| `SourceArchive`, `MCSourceArchive`, `SourceArchive_proofs` | files, generations, sessions and links of one instance over many scans |
| `FolderLayout` | what validation, inventory and grouping make of one folder tree |
| `LocationDiscovery`, `MCLocationDiscovery`, `LocationDiscovery_proofs` | locations and instances over scans, a user and a changing disk; extends `FolderLayout` |
| `LogSnapshot`, `MCLogSnapshot` | one log read system call by system call while others write |
| `LogParser`, `MCLogParser` | one log turned into dated evidence under limits |
| `LogReading_proofs` | theorems of both |
| `SessionReconstruction`, `MCSessionReconstruction`, `SessionReconstruction_proofs` | evidence of the logs of one instance turned into sessions |
| `ScanAdmission`, `MCScanAdmission`, `ScanAdmission_proofs` | what one scan stages, refuses and defers under the limits, and what it tells of it |
| `Dashboard`, `MCDashboard`, `Dashboard_proofs` | a dashboard loaded beside promotions |
| `DataInduction` | lemmas for the proofs: least counterexamples, recursive functions, sums over sets |

`MC...` modules hold instances for TLC, `..._proofs` modules the theorems.

How they meet. A scan discovers locations and instances (`LocationDiscovery`),
reads each log (`LogSnapshot`, `LogParser`), reconstructs the sessions of each
instance (`SessionReconstruction`), stages what the limits admit
(`ScanAdmission`) and promotes it. `ScanLifecycle` shows that at most one run
promotes, in one step, and only while it is active; `SourceArchive` takes such a
promotion as one step and follows the archive over many of them, with logs
reduced to the starts and stops that `SessionReconstruction` makes sessions of
and with every way a log may fail (a changed snapshot, a parse error, a
refusal) taken as `deferred`; `ScanAdmission` shows that what is refused is
marked so that the next scan takes it up, which `SourceArchive` relies on.
`Dashboard` reads what promotions leave.

### ScanLifecycle

One action stands for one critical section: one hold of the status mutex, one
hold of the cancellation mutex, or one immediate transaction. The code nests
none of them (edition 2024 drops the scrutinee of `if let` before its `else`, so
`cancel` does not hold the slot when it falls through to `status`).

| Variables | Code |
| --- | --- |
| `run`, `latest` | `scan_runs.state`, the row `latest_terminal_scan` finds |
| `staged` | rows of a run in `scan_staged_*` |
| `archive`, `revision` | canonical rows (by the run that wrote them), `dataset_state.revision` |
| `up`, `status`, `slot`, `cancelled` | a process, its `ScanStatus`, the `Option<Arc<AtomicBool>>`, the booleans |
| `callAt`, `callScan` | a command thread between two sections, and its local run |
| `owner`, `at`, `phase`, `verdict`, `built` | a worker thread between two sections, its phase, the outcome it will publish, all it staged |

| Actions | Code |
| --- | --- |
| `StartCheck`, `BeginScan`, `BeginFails`, `PublishQueued`, `PublishToken`, `SpawnWorker` | `ScanService::start` in its six sections |
| `SpawnFails`, `RollbackUnspawned`, `ClearUnspawnedToken`, `PublishSpawnFailure` | its error path |
| `GetStatusIdle`, `QueryLatestTerminal`, `RestoreStatus` | `ScanService::status` when nothing was scanned since launch |
| `Cancel` | `ScanService::cancel` |
| `PublishPhase`, `PersistPhase`, `StageInventory`, `StageReconstruction`, `NextPhase`, `LastCheck`, `Promote`, `PromoteRefused`, `ObserveCancel`, `WorkerFails` | `run_worker`, with `check_cancelled` where the code has it |
| `RollbackWorker`, `PublishVerdict`, `ReleaseToken` | `finish_worker` |
| `Crash`, `Boot` | the end of a process at any point; `bootstrap::initialize` |

Abstracted: what rows hold, counters, issues, messages, modes, the database
mutex (each transaction is one step anyway), and the panic of a thread.
`RollbackMayFail` says whether `rollback_scan` may return an error; its callers
drop it, so the run may then stay active.

### SourceArchive

The world of one instance: the game appends starts and stops to `latest.log`,
which is rotated to dated files; files are deleted, hidden from a scan, or fail
to parse; MineTrace is upgraded. A scan of a mode observes a set of files,
decides what happened to each path, records generations, reconstructs sessions
and promotes them.

| Variables | Code |
| --- | --- |
| `disk`, `exists`, `rotations`, `launches`, `playing` | the folder (external) |
| `parser` | `PARSER_REVISION` |
| `revisions`, `present` | `source_revisions` by path and generation, `source_paths.presence` |
| `sessions`, `links` | `sessions`, `session_sources` |
| `dataset` | `dataset_state.revision` |

| Definitions | Code |
| --- | --- |
| `Decide`, `Recorded`, `NewGeneration` | `decide`, `stage_inventory`, the insertions of `promote_scan` |
| `Starts`, `StopsOf`, `SessionAt`, `SourcesAt` | `reconstruct_sessions_with_policy`, `build_payload` |
| `Superseded`, `MayReplaceAll` | `instance_has_unreconciled_replacement_history`, `replace_all` of `run_worker` |
| `Protected`, `Rewritten`, `Kept`, `Install` | `evidence_repository.rs`: protection, candidates, deletion, insertion with reconciliation |
| `Offered`, `Observable` | `group_candidates` and the files that do not reach staging |
| `Scan` | all of it, with the presence and dataset updates of `promote_scan` |

Abstracted: a log is the sequence of its session boundaries; a session is the
pair of launches its first and last instants belong to, which is what its id
hashes; an end guessed from a modification time counts as no end; evidence rows
follow `session_sources`; a file that changes while it is parsed, a log that
does not parse and an exceeded budget are all `deferred`; a rotation is the
moved file itself (compression changes bytes, not events, and gives the path
its own generations either way). Copies of a log under two names, crash ends and
clocks that run backwards are the matter of `SessionReconstruction`.

### FolderLayout and LocationDiscovery

A folder is a tree of paths; a path is a sequence of names. `Validate` is
`validate_location` with its markers and scores, `Candidates`, `Warnings` and
`InventoryFails` the walk of `inventory_logs` with the scope each folder is
entered for, `Groups` is `group_candidates`.

| Variables | Code |
| --- | --- |
| `disk` | the folders of the machine (external) |
| `stored`, `instances` | rows of `scan_locations` and `instances` |
| `scan`, `adapters`, `saved`, `discovered` | `discover` in progress: adapters left, saved rows read, installations found |
| `locations`, `report`, `groups`, `taken`, `read` | the indexing loop of `run_worker` |
| `adding` | `add_custom` between its validation and its upsert |

| Actions | Code |
| --- | --- |
| `StartScan`, `DiscoverCandidate`, `ListSaved`, `CheckSaved`, `SaveLocations` | `DiscoveryService::discover` and the upserts that follow it |
| `TakeInventory`, `InventoryFailed`, `TakeGroup`, `FinishIndexing` | the indexing loop |
| `FailScan`, `CancelScan`, `EndScan` | the ends of a scan; locations and instances stay |
| `AddLocation`, `StoreLocation`, `ChangeDisk` | `add_custom`; the user and other programs |

### LogSnapshot

One step is one system call of the reader or one write by another program.
`pass` is `stage` (`fingerprint_log`), `copy` (`create_verified_file_snapshot`)
or `recheck` (the fingerprint that `parse_file` takes after parsing).

| Variables | Code |
| --- | --- |
| `files`, `entry`, `swapped`, `now`, `writes` | the file system: files by inode, the name, the folder (external) |
| `seen`, `handle`, `opened` | metadata at the path, the open file, its metadata |
| `bytes`, `prefix`, `comparison` | what the three hashers took in |
| `fingerprint`, `snapshot`, `outcome` | the staged fingerprint, the private copy, what became of the log |
| `stood`, `deeds` | history: what the log held, and what others did, since the pass began |

| Actions | Code |
| --- | --- |
| `Look`, `LookAgain`, `OpenFolder`, `OpenFile`, `Prove` | `fingerprint_log`, `open_log_read_only_no_follow` on Unix |
| `Begin`, `Read`, `EndOfFile`, `StageFingerprint` | `fingerprint_log` from the open file on |
| `KeepSnapshot`, `AcceptParsed`, `OpenAgain`, `Parse`, `ParseFails`, `ParseCancelled`, `Cancel` | the snapshot, `parse_file`, the cancellation checks |
| `GameAppends`, `NameIsTaken`, `RewrittenInPlace`, `Removed`, `FolderSwapped`, `Tick` | others (external) |

### LogParser

| Variables | Code |
| --- | --- |
| `source` | the log and its `LogContext` |
| `next`, `held`, `decoded` | the line, what of it is read, `byte_offset` |
| `clock` | `TimestampState` |
| `evidence`, `backwards`, `verdict` | the events, `non_monotonic_timestamps`, the result |

`ReadChunk` is one turn of `read_bounded_line`, `ParseLine` what a complete line
leads to, `Finish` the end of the stream with `Anchored`, `CancelParse` the checks
of the token. A line is the instant it was written, the form of its prefix and the
phrases in it: the model dates it from its form alone, the instant is what the
properties compare with.

### SessionReconstruction

| Variables | Code |
| --- | --- |
| `input` | the parsed logs, oldest first |
| `i`, `j` | the log and the event looked at |
| `seen`, `previous`, `copied`, `keyed` | `seen_source_hashes`, `previous_source_keys`, `duplicate_prefix`, `keyed_evidence_index` |
| `active`, `sessions` | `SessionBuilder`, the finished sessions |

One action per branch of `reconstruct_sessions_with_policy`: `SkipLog`,
`OpenLog`, `CloseLog`, `SkipCopy`, `StartUndated`, `StartAgain`, `Start`,
`Version`, `Activity`, `Disconnect`, `Stopping`, `End`, `FinishTail`. `Stored`
is what `build_payload` makes of a session.

Of some inputs it is known who wrote them: `launches`, `copies` and `by` of an input
tell when each launch began and ended, how much of the log before a log repeats, and
by which launch every other event was written. The section "Histories" says what
makes such a history possible (`Truthful`); the code reads only `logs`.

### ScanAdmission

| Variables | Code |
| --- | --- |
| `plan` | the `PreparedInstance`s |
| `at`, `log` | the two loops of the parsing phase |
| `marks`, `failed` | `parse_status` of the staged sources, the logs that failed |
| `instance`, `scan`, `budget`, `exhausted` | `InstanceParseBudget`, `ScanParseBudget`, `CanonicalArchiveBudget`, `scan_exhaustion` |
| `staged`, `archive` | staged payloads, canonical sessions |
| `messages`, `status`, `counters` | `scan_messages`, the `ScanStatus` in memory, `counters_json` |

| Actions | Code |
| --- | --- |
| `IndexIssue`, `BeginParsing` | issues of indexing; `CanonicalArchiveBudget::load` and the phase change |
| `SkipInstance`, `DeferInstance`, `RefuseLogCount`, `OpenInstance` | the head of the loop over instances |
| `RefuseByScan`, `RefuseByInstance`, `RetainLog`, `FailLog` | the loop over logs |
| `DeferFailed`, `RefuseReconstruction`, `RefuseByScanSessions`, `RefuseByInstanceArchive`, `RefuseByArchive`, `Stage` | after the logs of an instance |
| `Promote`, `Cancel`, `Fail` | the ends of the run |

### Dashboard

| Variables | Code |
| --- | --- |
| `sessions`, `revision`, `completed` | rows a dashboard reads |
| `unrevised`, `scanned` | what `archive_metadata` returned |
| `phase`, `cursor` | the statement of `load` to come, the last row of the last batch |
| `top`, `months` | results of `query_top_metrics` and `query_observed_month_count` |
| `dashboard`, `answer` | `DashboardAccumulator`, the result |
| `added`, `stable`, `undisturbed` | history: sessions added, sessions never removed meanwhile, no promotion meanwhile |

`ReadRevision` and `ReadScanned` (the two queries of `archive_metadata`),
`AnswerEmpty`, `ReadTop`, `ReadMonths`, `ReadBatch` are the statements of `load`; `Promote` is a promotion by another process. `Add` is
`DashboardAccumulator::add`, `Finish` its `finish`. The SQL expressions
(`RuntimeSeconds`, `EndDate`, `ObservedMonths`, `TopInstance`) are written apart
from the Rust ones (`Implausible`, `DayAllocations`), because the code computes
them twice and `ReadingsAgree` compares them.

## 3. Runs

| Run | Instance | States | Shows |
| --- | --- | --- | --- |
| `ScanLifecycle_concurrent` | 1 process, 2 command threads, 2 scans, rollbacks may fail, fair | 118,572 | `TypeOK`, `OneScanAtATime`, `ReportedOutcomeIsDurable`, `StatusSettles` |
| `ScanLifecycle_processes` | 2 processes with a thread each, 2 scans, 1 instance, rollbacks may fail | 1,478,162 | `SettledRunsLeaveNoStaging`, `ActiveStagingIsWhole`, `ImplementsAtomicArchive` |
| `ScanLifecycle_sequential` | 1 process, 1 thread, 2 scans, 2 instances, rollbacks succeed, fair | 191,798 | `ActiveScanIsReported`, `NoOrphanedRun`, `EveryRunEnds` |
| `SourceArchive_retain` | 2 launches, 2 rotations, 4 scans, 1 parser, standard and deep, files hide | 348,809 | `LaunchesStayArchived`, `SessionsAreTraceable` |
| `SourceArchive_catchup` | 2 launches, 2 rotations, 3 scans, 2 parsers, standard and deep, deferrals | 1,208,823 | `TypeOK`, `CompleteScanArchivesWhatItSaw`, `DeepRescanIsIdempotent` |
| `LocationDiscovery_layouts` | 3 places with 2 or 3 layouts, 2 scans, 2 changes | 90,910 | `StagedUnderKnownInstance`, `EveryInstanceVisitedOnce`, `NoLogIsLostInSilence`, `InstancesKeepApart` |
| `LogSnapshot_race` | a log of 2 bytes, 3 writes by others, reads of 1 or 2 bytes | 5,933,304 | `AcceptedLogStoodWhole`, `NothingOutsideIsRead`, `PrefixesAreOfTheLog` |
| `LogParser_parse` | logs of up to 5 lines over 4 days of 8 units, dated or not; every three phrases; lines on and over each limit | 218,200 | `ObservedTimesAreExact`, `QuietLogsRunForward`, `RefusedExactlyOverLimits` |
| `SessionReconstruction_rebuild` | 2 launches split and copied in every way; disordered events; logs with few keys | 156,416 | `SessionsHaveSoundBounds`, `EvidenceBelongsToOneSession`, `SessionsFollowOneAnother`, `EveryLaunchIsToldOnce`, `OverlapIsLongest`, `VerifiedIsObserved` |
| `ScanAdmission_limits` | 2 instances of up to 3 logs, 3 sessions each, every limit within reach | 257,622 | `ArchiveStaysWithinLimits`, `RefusedLogsAreRetried`, `WhatIsLeftOutIsTold`, `RestoredIssuesAgree` |
| `Dashboard_load` | up to 3 sessions of a pool of 17, 1 promotion, batches of 2 | 133,744 | `EverySessionCountedOnce`, `UniqueTimeIsBracketed`, `ActiveDaysAreExact`, `CalendarIsExact`, `ReadingsAgree` |
| `Dashboard_overlap` | the same | - | violates `UniqueTimeIsTheUnion` (section 5) |

Why the bounds are enough.

* `ScanLifecycle`: every hazard is between one scan and the next, or between two
  holders of the same database: two scans, two threads, two processes give every
  pair, and a third scan meets the same states (runs that are over differ from
  each other only in `latest`). One instance separates "some rows staged" from
  "all", two make the loops turn.
* `SourceArchive`: a session spans at most the files between two starts, so two
  launches and two rotations place a start and its stop in any pair of files, and
  three or four scans give: learn, miss or defer, learn again, check. Quick scans
  are in no passing run; `TypeCorrect` and `SessionsTraceable` speak of every mode,
  the other two theorems leave quick scans out.
* `LocationDiscovery`: the layouts hold every branch of validation, walk and
  grouping (a game, a launcher with and without instances, one single instance,
  an instance called "logs", a game that becomes a folder of instances, links,
  closed, deep and large entries); the second scan meets what the first saved,
  and two changes let one place change and the user step in, or one place change
  twice.
* `LogSnapshot`: a mixture needs two reads with a write between them, so two
  bytes, short reads and buffers of two; three writes allow one write in each
  pass, or two that undo each other and a third. With one tick, times can be
  equal or differ, which is all they are compared for.
* `LogParser`: half a day is four units, so steps of 1, 3, 4 and 6 units and one
  unit back lie on both sides of the threshold; four clocked lines cross up to
  two midnights. Lines of one, two and four bytes, in chunks of two and under a
  limit of three, exceed each limit on and inside a chunk.
* `SessionReconstruction`: two launches give every relation of a session to the
  next; the cut and the copy may lie before, in and after the boot. Logs of five
  events over two keys hold every border that a match can fall back to.
* `ScanAdmission`: the limits are one or two above what one log or session costs,
  so each is reached exactly, exceeded, and reached again by a second instance.
* `Dashboard`: a second is two ticks, a minute two seconds, a day eight ticks, a
  plausible session at most a day, offsets reach a day. The pool holds zero
  lengths, equal starts, missing ends and lengths, implausible ones, and clocks
  up to two days apart; three sessions make two batches, the second one short,
  full or disturbed by the promotion.

`ScanLifecycle_sequential` has one command thread. The webview is no such client: it
polls `get_scan_status` while `start_scan` runs. The run says what each path of
`start`, `run_worker` and `finish_worker` comes to by itself, and nothing of
commands that overlap; what holds when they do is in `ScanLifecycle_concurrent`, and
what does not is in section 5. Deadlock is checked for `ScanLifecycle`, which can always crash
and relaunch; the other modules describe work that ends (a log parsed, a scan
that is over) or histories bounded by constants, so it is off for them.

Each mutated form of a definition (`...As...`, `...Without...` and the like,
next to the definition and marked as a mutant) is what a plausible bug would
have made of it; the property it is paired with in `PROJECT.json` then fails.

Fairness. `FairSpec` of `ScanLifecycle` has weak fairness on the next section of
each command thread and of each worker thread: they are operating system
threads, hold one lock at a time and for a bounded time, and loop over finite
lists. Nothing makes a user issue a command, relaunch the application, or makes
anything fail. `EveryRunEnds` excuses a run whose process died: the next `Boot`
interrupts it, but nobody has to launch. The other modules state no liveness:
their loops run over finite data.

## 4. Proofs

All theorems are for any values of the constants that satisfy the assumptions
the modules make of them. The few that need more state it as a hypothesis, given
with them below.

`DataInduction` holds what several of the proofs rest on. A property of all data
is proved by its least counterexample: every nonempty set of naturals has a least
element (`LeastNatural`), so no smallest set, sequence or index violates it. The
operators proved about recur by recursive functions, which are shown to exist and
to be unique once (`RecursionExists`, `RecursionUnique`); `SumExists` gives sums over
finite sets from it, and the `Total...` lemmas say how these split, grow and regroup.

`ScanLifecycle_proofs`

* `TypeCorrect`: the type invariant.
* `InvariantHolds`, from which `SettledRunsClean` and `PromotedStagingIsWhole`
  follow. That the staging of an active run is whole is not inductive: one must
  know that staging is deleted only where the run also leaves the active states,
  and that a worker or a starter exists only for a run that is active or was
  interrupted. The conjuncts of `IInv` say so: one active run, runs without a
  row have nothing, a starter holds its run alone, a worker's run is unsettled, a
  rolling back worker has a failing verdict.
* `Refinement`: every step maps to a step of `AtomicArchive` or to a stutter. The
  promotion step is a commit because staging is whole; recovery by any process
  and every rollback are discards because at most one run is active.
* `OneScanInOneProcess`: with a single process `OneScanAtATime` holds. Added to
  `IInv`: a thread's run is active and its process is up, which only the recovery
  of another process could break.
* `TerminalStatusIsDurable`, without a hypothesis: however commands overlap, whatever
  rollbacks fail and whatever other processes recover, a terminal outcome in a status
  is one that a run of the process came to: that of the scan it names, or of another
  that settled over its status (section 5). Added: every outcome that a thread is about to
  publish is durable already (`VerdictsKept`, `StartsKept`), and a run that has ended
  stays as it is (`EndedStays`). A failed rollback makes it no less true, because
  `EndedAs` says what the run then is: active, without a thread that would end it.
* `NoRunIsOrphaned`, assuming only that rollbacks work, for any overlap of commands.

`SourceArchive_proofs`, for any bounds, modes and faults

* `TypeCorrect`: the type invariant.
* `SessionsTraceable`: each session's start and stop stand in generations it is
  linked to. The invariant adds that links lead to generations that exist:
  generations are only appended, so old links keep their meaning (`EvidenceStays`),
  and new links lead to what was just recorded (`PayloadEvidenced`). That a
  session keeps a link to every event when reconciliation drops superseded links
  is the case of a session that is built anew, whose payload links suffice.
* `CompleteScansCatchUp`, without quick scans: a scan that defers nothing archives
  every launch whose start it saw. A log left alone because nothing about it
  changed must have been covered before, by whatever scan, so the invariant
  `Covered` says of every path, still there or not, that each start in the
  generation last parsed has a session linked to that generation.
* `LaunchesAreKept`, without quick scans, with one version of the parser that parses
  whatever it reads (section 5 says what happens otherwise): a launch once archived
  stays so. A session is deleted only if it can be rebuilt or its log was replaced;
  the invariant `Carried` says that what no replacement came after still stands in
  the generation recorded last, from which it will be rebuilt.
* `DeepRescansChangeNothing`, without quick scans and while scans find every file
  there is: a deep scan over known, unchanged logs changes no session and adds no
  link. The invariant `InStep` compares the archive with what the contents recorded
  last yield (`Built`, which depends on nothing else: `SameLogs`): while every known
  log is there and parsed, all that they yield is archived and linked, and whatever
  else is archived is linked to a generation that was replaced. That nothing else
  outlives a scan is the invariant `Tended`: a session has a link by which it is
  protected for good or by which the next change rewrites it.

`LogReading_proofs`, of the snapshot for any bytes, buffers, number of writes and clock

* `AcceptedLogsStood`: what a pass accepts stood whole in the log during that
  pass. All that the open file has held since the pass began is in the history of
  what the log held, because only the file under the name is written to and the
  open file was under the name when it was opened. What has been read is the
  beginning of what the file holds, unless the file was rewritten after it was
  opened. Then its modification time moved on, and as long as the name was not
  given away the metadata at the path shows it: the closing look refuses the pass.
* `NothingOutside`: an open file is a regular file of the approved folder; the
  open refuses links, and files never change their kind.
* `PartialDigests`: the digests of the prefix and of the former size are of
  exactly that many first bytes (`FilledFirst`: cutting chunk by chunk cuts the
  whole).

and of the parser for any logs, contexts, limits, chunks and length of the day

* `ParserTypeCorrect`: the type invariant.
* `LogsAreRefusedExactlyOverLimits`: a log is refused exactly when as a whole it
  exceeds a limit, and one that is accepted lost no event. What has been decoded and
  told so far are running sums of the log (`LimitsInv`), which never decrease
  (`Running`): a chunk or line that exceeds the rest of a limit shows the whole to
  exceed it, and a log read to its end is within all (`Within`).
* `QuietEvidenceRunsForward`: times only and no reported step back give evidence that
  never runs back. While the log is read all evidence lies `Behind` the clock, whose
  position only a reported step moves back (`Forward`); at the end all that is dated
  back moves by one and the same amount (`AnchoredShift`).
* `InstantsAreExact`: the evidence of a steady and rightly placed log carries the
  instants its lines were written at. The clock stands where the last clocked line was
  written: by the calendar once a date is known, and before that by the days since the
  first clocked line (`ExactInv`). Of two instants less than half a day apart the
  time of day falls by more than half a day just when a midnight lies between
  (`Rollover`), so the clock counts every midnight and no other (`ClockReaches`);
  the same lemma places the end of the last day, which may be the day before the
  log was modified.

`Dashboard_proofs`, for any sessions, size of a batch and number of promotions

* `SessionsCountedOnce`: no session is counted twice and one that was stored
  throughout is counted. The order by descending start and id is strict and total
  (`Ordered`); what has been added is sorted by it and is all before or at the
  cursor; a batch is the beginning of what lies behind the cursor (by ranks and
  the pigeonhole principle), so a batch that is not full leaves nothing behind.

The other four rest on `AccumulationStands`: the dashboard is what the sessions added
so far make of an empty one, so each is a statement about one pass over a sequence
that is sorted by descending start, proved for the shortest pass that violates it.

* `UniqueTimeBetweenBounds`: the unique playtime loses nothing and counts nothing more
  often than there are sessions. The pass has closed intervals and one open one;
  together they cover what the sessions did (`UnionStep`).
* `ActiveDaysAreCounted`: days are closed when no later session can reach them, which
  is what the cutoff says since a plausible session is bounded and offsets are part
  of it (`CutoffIsFinal`); the open days hold the seconds of all sessions so far.
* `CalendarTellsAll`, assuming `DurationsRoundedDown`: each day and month that both the
  calendar of the load and the one of the latest local day have tells all that was
  played on it, and is missing only if nothing was. The calendar moves forward as later local days appear and drops cells; what a
  dropped or a not yet shown cell missed must not be in the final window. A session's
  playtime lies within the days up to its observed end (`PlayedWithinObserved`),
  provided that its length is not longer than what lies between its instants: so
  the hypothesis, which `finish_session` (`session_reconstruction.rs` 680) and the
  payload (`scan_service.rs` 1831-1840: both the end and the length, or neither) grant.
* `QueriesAgree`: when nothing is promoted during a load, the months, the top instance's
  playtime and the total of the SQL queries are those of the accumulator. The
  invariant `UndisturbedStands` carries what the queries saw to the end of the load;
  sums are regrouped by instance and by day (`TotalByGroups`).

`SessionReconstruction_proofs`, for any logs, however split, copied or disordered,
and any policy

* `TypeCorrect`: the type invariant; what is finished is a session, with a score from
  0 to 100.
* `BoundsAreSound`: no session ends before it starts, and its duration is what
  lies between. The invariant adds that the last instant of the session being
  built is not before its start: it never moves back (`observe_timestamp`), and an
  end before the start gives way to it.
* `EvidenceIsNotShared`: no event supports two sessions. Links of finished
  sessions and of the one being built are to events already read, and are apart; a
  step links only to the event looked at (`EventStep`).
* `VerifiedWasObserved`: a stored session is verified only with an explicit start,
  an observed end and a plausible, nonzero length.
* `SessionsAreInOrder`: evidence that runs forward gives sessions that follow one
  another. Whatever a session was told is not after anything still to be read
  (`Past`), so the next one begins later (`OrderStands`).
* `OverlapsAreLongest`: what is skipped as a copy is the longest end of one log that
  the next begins with. The table of borders has at each place the longest border
  (`BordersAreLongest`), so falling back passes over no match (`FallFinds`,
  `ScanIsLongest`), for keys of any kind and logs of any length.
* `LaunchesAreToldOnce`: of logs written by known launches each launch gives one
  session, which begins and ends as is known of it. The hypothesis is
  `HistoriesAssumption`, which TLC evaluates on the two launches of the run: every
  event is dated; launches take turns and their events run forward; a launch
  repeats its boot only in its first log, within the merge window, and the next one is
  told from it by a word of leaving, another log or a longer time; what a log repeats
  is the end of the log before, at least two events on several lines; a log does not
  go on with an event equal to the last one of the log before; and the end known of a
  launch is its first end, else its first word of stopping, else its last event (or,
  for the last launch, the modification of its files within the tail limit). Logs
  that break these may give more or fewer sessions than launches. The invariant
  `TruthStands` says what is told of the launches so far: a finished session for each
  that is over, and a builder that tells the one going on. Copies are passed over
  exactly because the longest overlap (`OverlapLongest`) is the copied part: with a
  longer one a fresh event would equal the last of the log before. An event that is
  told is the next of its launch, or opens the next launch after all of the last one (`NextTurn`).

`LocationDiscovery_proofs`, for any folders, layouts and numbers of scans and changes

* `StagesUnderKnownInstances`: what is staged refers to a saved instance of a saved
  location. Rows are written by this scan, by earlier and cancelled ones and by the
  user, and an upsert keeps the id of the row it finds; the invariant is that
  this makes no difference, since every row has the id derived from its path, and
  locations being read have been saved.
* `InstancesAreKeptApart`: the logs of one folder are in one group and those of two
  instances in two. The root of a log is a function of its folder (`RootOfFolder`,
  by the first marker in its path), and groups are the logs of a root.
* `InstancesAreVisitedOnce`: a complete scan takes every known instance of the
  locations it read exactly once. An instance of a location that was read has been
  taken or is a group still to be taken, never both (`VisitsStand`), and
  no location is read twice (`LocationsStand`).
* `NoLogIsLost`: a log where launchers put logs is in the inventory, or a warning
  tells of it or of the folder in which the walk stopped. The walk enters every folder on the
  way to it (`LaunchersFoldersAreEntered`) or stops at the first it warns of.

`ScanAdmission_proofs`, for any plan, limits and results of parsing

* `RefusedAreRetried`: a changed log counts as parsed exactly when the sessions of
  its instance are promoted. The invariant says that the instances taken are
  settled, that no payload is staged before its instance has been taken, and
  that, in the instance at hand, a log before the next one is marked as failed or
  pending only if some log of the instance has failed, so that it will not be staged.
* `LeftOutIsTold`: an instance that was to be reconstructed and is not staged has an
  error of its own, or one before it tells what ended the scan for all that follow;
  and no instance with an error is staged. Once the scan is exhausted instances
  are passed over in silence, so the invariant `BlameStands` carries the issue that
  explains them from the branch that met the limit to the end; of the instance at
  hand it says that errors were told about it exactly when a log of it failed.
* `RestartTellsTheSame`: a status restored after a restart tells the issues and counts
  of the one in memory. The status always holds the newest messages and the
  counts of all; those stored are counts it held once (`IssuesStand`).
* `PromotionStaysWithinLimits`: promotion takes neither the archive nor an instance over
  its limits. The budget is settled payload by payload before any is promoted; by
  `BudgetStands` it holds at least what the archive will hold (an incremental payload
  keeps sessions that it could have replaced) and counts at least its contexts.
* `TypeCorrect`: the type invariant, which includes that neither the scan nor the
  instance at hand is charged past a limit: a charge for a log leaves what sessions
  were charged as it is, and the other way round (`ChargesLog`, `ChargesForSessions`).

Only model checked: the liveness properties `EveryRunEnds` and `StatusSettles`
(fairness is out of the prover's reach here), and `ActiveScanIsReported`, which with
overlapping commands does not hold.
The type invariants of `SessionReconstruction`, `ScanAdmission` and `LogParser` are
proved and in no run.

## 5. Known divergences

Disagreements between the code and what its documents or its structure promise,
met while modelling. The first is a run; the others are behaviours of the models
outside the instances of the passing runs, with the constants that show them
(take a cfg of the module, change these, and state the property).

* `UniqueTimeIsTheUnion` (`Dashboard_overlap`). The accumulator of unique playtime
  keeps one interval and closes it as soon as a session ends before it starts.
  Sessions come by descending start, so one that started earlier may still reach
  into the closed interval, which then counts twice: a session from 10:00 to 18:00
  beside two from 13:00 to 14:00 and from 16:00 to 17:00 gives nine unique hours.
  `UniqueTimeIsBracketed` says what does hold: nothing is lost, and nothing counts
  more often than there are sessions.
* `RunningScanIsCancellable` (`ScanLifecycle`, one process, two scans).
  `finish_worker` sets the terminal status, then empties the cancellation slot
  whatever it holds. A scan started in between loses its token; `cancel_scan`
  then only reports status.
* `ActiveScanIsReported` with two command threads. After a relaunch `status()`
  reads the idle status, queries, and stores the old run over the status of a
  scan started meanwhile. A later phase change then relabels the old id as running.
* A verdict over another scan's status (`ScanLifecycle`, two command threads, two
  scans; `ReportedOutcomeIsDurable` with `owner[s] = p` left out). Two `start`s pass
  the status check together. The first scan runs and promotes; only now the second
  inserts its run, which the unique index no longer refuses, and publishes its id as
  queued; then `finish_worker`
  of the first writes `completed` into whatever status is there. The status says of the
  second scan that it completed although it has not run, until its worker publishes a
  phase. `ReportedOutcomeIsDurable` says what holds: the outcome told is one that a
  run of the process came to.
* A refused instance costs later ones (`ScanAdmission`, `Counted` and
  `RefuseByInstance`). The budget of the scan stays charged for the logs and sessions
  of an instance that is refused afterwards, and once it is exhausted every later
  instance is deferred. `WhatIsLeftOutIsTold` and `RefusedLogsAreRetried` say what
  holds: it is told, and a later scan takes them up.
* `OneScanAtATime` with two processes. Recovery interrupts every active run in
  the database, also that of a live process; the next run starts beside the old
  worker. Data stays whole (`ScanLifecycle_processes` and `Refinement`): the old
  run is refused.
* `LaunchesStayArchived` with `Modes = {"quick", "standard"}`. A quick scan
  reconstructs from `latest.log` alone; once it has grown, a session that began
  in a rotated file is deleted and not rebuilt. A standard scan brings it back
  only when something else has changed.
* `LaunchesStayArchived` with `MaxParser = 2`, standard scans. `decide` tests the
  parser revision before the content. After an upgrade a rotated-away
  `latest.log` is `reparse`, not `replaced`, and the sessions of its old content
  are not protected.
* `LaunchesStayArchived` with `ParsingMayFail = TRUE`, one parser, standard scans.
  `decide` also asks for a reparse of a log that failed before it looks at the
  content. A grown `latest.log` fails to parse, then is rotated away; the new one is
  `reparse`, not `replaced`. While the rotated file is hidden or gone, the session
  of the old content is neither protected nor rebuilt.
* `CalendarIsExact` with lengths rounded up (`TicksPerSecond = 4`, `TicksPerDay = 24`,
  a session from tick 41 to 47 of 2 seconds and one from 30 to 50 of 5). Such a
  length reaches a day after the observed end, which the calendar need not show yet
  and may show later. Reconstruction rounds down; nothing in `dashboard_service.rs`
  checks it.
* That a deep scan over known, unchanged logs leaves the links alone too
  (`links' = links` in `DeepRescanIsIdempotent`, with `MaxLaunches = 1`, `MaxScans = 4`
  and the other constants of `SourceArchive_catchup`). A session runs over a rotated
  file and `latest.log`. The latter is replaced in a scan that is deferred; then
  MineTrace is upgraded. The next scan reparses the rotated file, but the
  session is protected by its replaced log, and keeps its link to the old generation
  beside the new one. A deep scan sheds it.
* `OneSessionPerLaunch` with standard scans (two launches, one rotation, two
  scans). A session seen during play has another id than the finished one. If the
  log is rotated before the next scan, both stay.
* A calendar ends with the local day of the latest instant
  (`dashboard_service.rs` 778). With sessions of different offsets this need not
  be the latest local day, whose cell is then dropped; `CalendarIsExact` speaks of
  the days that are in both calendars.

## 6. Not modelled

* `LogSnapshot`: the way Windows opens a file, and special files such as pipes
  (validation of the kind precedes the open on every path modelled). Two
  disguises make metadata checks powerless and are excepted from
  `AcceptedLogStoodWhole`: a rewrite in place that restores the modification time,
  and a rewritten file that changes places with another of its size and time.
* `FolderLayout`: the case of letters in names, a location folder that is itself
  named "logs", scores and confidence as stored, the `launcher_installations`
  row, locations nested in one another (each reads the log under its own
  instance), and the candidate paths of each platform.
* `LogParser`: decoding, NULs, gzip, the byte patterns of phrases, and the
  classifier of source kinds.
* `SessionReconstruction`: the texts of versions and addresses, diagnostics, and
  the digest of a session id.
* `ScanAdmission`: clocks that run backwards between issues. The number of
  contexts of a session is a function of its id, since the id is a digest of them.
* `Dashboard`: read errors, texts, months of unequal length, metrics other than
  the top instance. No promotion happens within the process that loads, because
  `load` holds the database mutex. `session_user_state.ignored` has no writer in
  the repository, so every session is visible.
* `SourceArchive`: evidence rows and activity segments; they are written and
  removed with the sessions they belong to.
* Migrations: a straight line at startup, a transaction for each; two processes
  that start at once are listed as a hazard without a property.
* Explorer and profile: filters, sorting and wording over the same rows; their
  day slices repeat those of the dashboard.
* Webview (polling, cache invalidation, automatic scans, updates): its hazards
  are listed without a property. Modelling it needs the order in which React
  effects and query observers run, which the repository leaves to its libraries.
* API adapters, path encoding and platform paths: pure conversions.
