# Formal model of tqtk-price-streaming

TLA+ specifications of the price-streaming stack, the TLC configurations that
check them on small instances, and theorems about them that TLAPS checks for
every value of the constants. Paths below are relative to the repository root.

```
tlc -workers 2 -config feed_log.cfg MCFeedAdapter.tla   # one run
tlapm FeedAdapterProofs.tla                             # one proof module
```

## 1. The system

A synthetic feed adapter reads a calibration from Redis, generates ticks for
each calibrated symbol, and appends them to one Redis stream per symbol, with a
session identifier and a sequence number that let consumers tell duplicates and
losses apart. Everything downstream (aggregation, persistence, gateway,
historical queries) is still a stub. What the repository holds today, and is
hard to get right, is the producer, the consumer-side tracker, the calibration
keyspace with its seeder and its reader, the runtime endpoints every service
carries, the check that keeps the storage contracts additive, the fixture that
builds a table from one of them, the pipeline that decides which tests run,
and the script that makes the stack's secrets.

| Component | State it keeps | Operations | Talks to |
|---|---|---|---|
| Feed adapter (`feed_adapter_synthetic/__main__.py`, `generator.py`, `sinks.py`, `tqtk_common/session.py`) | shutdown event, readiness, session, a seq counter per symbol, each task's `published` and `last_recv_ts` | wait for Redis, load, start tasks, generate, publish, stop, exit | Redis (ping, pipelines, XADD); the OS (signals); the runtime server (marks) |
| Delivery tracker (`tqtk_common/delivery.py`) | per stream: last session and highest seq | `observe` | called by a consumer with each record |
| Calibration reader (`calibration_store.py`, `distributions.py`) | the replies of three round trips | `load` | Redis |
| Calibration seeder (`deploy/calibration/seed.sh`, `calibration.redis`) | where the script is; Redis's transaction state | ping, dry run, flush, live run | Redis through redis-cli; Compose starts it and gates the adapter on it |
| Runtime endpoints (`tqtk_common/server.py`) | connected dependencies and their lock; server thread; a thread per connection | mark, start, stop, answer `/health` `/ready` `/metrics` | probes and scrapers; the service's event loop |
| Additive-only check (`tools/ci/additive_only.py`) | none of its own; judges a tree against a base | `main` | git; CI on pull requests |
| Storage fixture (`tqtk_common/testing.py`) | none of its own; the database's table, hypertable and indexes | `load_contract`, `create_schema` | a database, on a connection that commits each statement |
| CI pipeline and affected-members selection (`.github/workflows/ci.yml`, `tools/ci/affected_members.py`) | none of its own; the diff range of a push or a pull request | detect, test the matrix, the single required check | git; the hosting service's pull requests and pushes |
| Records and wire form (`records.py`, `contracts/wire`) | none | validate, convert | all services |
| Random walk and distributions (`generator.py`, `distributions.py`) | last mid price | draw, round | the feed's tasks |
| Names, configuration, logging, metrics | none beyond process globals | parse, format | all services |
| Secrets bootstrap (`deploy/bootstrap-secrets.sh`) | the secrets' files and modes, a temporary file | per secret: keep, or draw, measure and rename | the images that read the files, through Compose; the operator |
| Deployment (`docker-compose.yml`, Redis and Postgres configuration) | declarations | - | Compose |
| Aggregation, persistence, gateway, historical query | none: stubs | none | - |

Interactions that matter:

* the adapter's main coroutine, one task per symbol, and the signal handler run
  on one event loop and interleave at every `await`; a task failure travels
  through `gather` and the `finally` clause to `asyncio.run`;
* the Redis client repeats a command whose connection broke, so an XADD can be
  applied twice, or applied though `publish` raised;
* the seeder's transaction and the reader's three pipelines meet in one database;
* the event loop writes the readiness that HTTP threads read;
* pull requests are checked one by one and merged one after the other, and a
  push to main replaces the run of the push before it;
* a fixture that failed between two statements, or built another version, has
  left its table behind for the next;
* two runs of the secrets script, a signal, a kill and a container that
  initialises its volume meet in one directory.

What would make each part correct:

* *streams*: a session's ticks are contiguous, gapless and ordered on their
  stream, a (session, seq) names one tick, and a clean exit has lost none;
* *process*: a signal ends it wherever it is, one task's failure ends it, it
  waits for Redis and no longer, and it publishes only when ready;
* *tracker*: nothing new is called a duplicate, nothing old is called new, the
  loss count is exact;
* *store*: the live keyspace is one seeding, what `load` returns can be drawn
  from, nothing sound is refused, a seeder that exits 0 has seeded;
* *endpoints*: `/ready` reports a state that existed, every request is
  answered, threads end, the event loop is never locked out;
* *contracts*: released versions are frozen, and later ones can be read (and
  written) as earlier ones;
* *fixture*: what `create_schema` returned for is there, whole, and serves earlier
  readers whatever was applied in which order;
* *pipeline*: a member whose inputs change is tested, and runs that each test a
  part add up to a healthy main;
* *secrets*: a file holds no secret or a whole one, a volume's secret is never
  replaced, and exit 0 means that all are there;
* *walk*: whatever is drawn, a quote is on the grid and one a `Tick` accepts.

## 2. Modules

```
TickLog -> TickLogProofs
TickLog <- INSTANCE - FeedAdapter      -> MCFeedAdapter
TickLog <- INSTANCE - DeliveryTracker  -> MCDeliveryTracker, DeliveryTrackerProofs
FeedAdapter, DeliveryTracker (INSTANCE) -> FeedDelivery -> MCFeedDelivery,
                                                           FeedAdapterProofs

CalibrationKeyspace <- CalibrationSeeder --+
                    <- CalibrationStore  --+-> CalibrationStack -> MCCalibrationStack
SeededStore <- INSTANCE -------------------+                    -> CalibrationStackProofs

RuntimeServer -> RuntimeServerProofs, MCRuntimeServer

StorageContract <- StorageLineage, StorageFixture     -> StorageLineageProofs
AffectedMembers <- CiPipeline                         -> CiPipelineProofs
StorageLineage, StorageFixture, CiPipeline,
SecretsBootstrap, RandomWalk <- IndependentParts      -> MCIndependentParts,
                                                         IndependentPartsProofs
StorageLineage -> MCStorageLineage     CiPipeline -> MCCiPipeline
```

**TickLog** is the abstract specification: one append-only log per symbol,
where the next entry starts a session the stream has not seen, continues the
newest one, or repeats the newest entry. It says what a consumer may rely on
and nothing about processes.

**FeedAdapter** is the process. One action is what the event loop runs between
two awaits: `PingOk`/`PingFails`/`RetryPing` are `wait_for_redis`;
`LoadOk`/`LoadRaises` the calibration, the selection of symbols and the start of
the feed; `Generate`, `PublishReturns`, `LeaveLoop` and `GenerateRaises` the body
of `_run_symbol`; `GatherReturns`, `GatherRaises` and `Exit` the way out. `phase`
is the main coroutine's position, `task[s]` that of each symbol's task, `stop`
the shutdown event, `nextSeq` the counters in `FeedSession`, `published` and
`lastRecv` the locals of `_run_symbol`. `wire[s]` and `attempt[s]` are the XADD
between client and server: `BusAppends` may happen and the reply be lost
(`ConnectionBreaks`), and the client repeats the command until its retries run
out. `Start`, `Terminate` and `Crash` are the container runtime. `stream`
survives the process. What a tick quotes is left out; its session, seq and
`recv_ts` are kept. It implements TickLog (`RefinesTickLog`), mapping `log` to
`stream`.

**DeliveryTracker** puts `DeliveryTracker.observe`, one disjunct per verdict
(IN_ORDER and GAP are one disjunct, told apart by the number missing), behind
streams that behave as TickLog says. Reading, replaying, trimming and restarting
the consumer are external: the repository has no consumer and no janitor yet.
`accepted` and `alarmed` record what a consumer would be told.

**FeedDelivery** composes the two: DeliveryTracker's consumer, with the streams
FeedAdapter writes in place of those TickLog allows. A step is one of the adapter,
which the consumer does not see, or one of the consumer.

**CalibrationKeyspace**, **CalibrationSeeder**, **CalibrationStore** and
**CalibrationStack** are the keyspace, `seed.sh`, `CalibrationStore.load`, and the
two of them over one database. A value is the script that wrote it: that is
enough to know whether it parses, and whether two values belong together. The
seeder sends a line at a time through redis-cli, and Redis queues, aborts or
executes; a script may have a command that is refused while queueing, one that
fails while EXEC runs, or one that stores a value the reader cannot use.
`load` reads a key at a time in its three pipelines, with the checks of each
trip after it.

**SeededStore** is the abstract store the seeder implements
(`ImplementsSeededStore`): a run replaces the whole contents at once by its own
script's (`Seed`), or leaves them alone and does not succeed. It knows nothing of
transactions, dry runs, queueing and replies. A run whose connection was lost
(`lossy`) is only promised to do no worse than leave, delete or write its own value
under each key (`Damage`). The mapping takes `db` to the live database, `applying`
to `script`, `lossy` to `disturbed`, and the seeder's steps to `outcome`: a run
counts as applied once the last line of its live pipeline was sent.

**RuntimeServer** is `Readiness` and `RuntimeServer`. `Set` is
`mark_connected`/`mark_disconnected` under the lock; `TakeLock`, `Copy` and
`AnswerReady` are `snapshot`, a dependency at a time; `Route` is every other path,
with the 500 that `_respond` answers when a route raises; `Close` is the idle
timeout; `Start`, `Stop` and `Stopped` the server's owner. `seen` is a history
variable: the verdicts that were true since a request came in.

**StorageContract** is what a version of a contract is and what `additive_only.py`
asks of a tree: the rules of `check_lineage` between neighbouring versions,
`check_immutability` and `check_deletion`. **StorageLineage** is that check as
the gate of pull requests, applied to the merge of a proposal with main;
`upToDate` is a setting of the hosting service, chosen in `Init`: is a pass dropped when
main moves?

**StorageFixture** is `load_contract` and `create_schema`: one action per statement
(`CreateTable`, `CreateHypertable`, `CreateIndex`), since the connection commits
each, with `StatementFails` between any two of them. `IF NOT EXISTS` is what makes
it interesting: the table that is there stays. `NewDatabase` is the container
replaced. `applied` and `built` are history variables.

**AffectedMembers** is `affected_members.py` as operators over the paths, the
directories and their owners, with `git diff --name-only` in front of it
(`ListedNames`: a rename, edited or not, shows its new name only; `Similar` says which
contents git takes for one file's). **CiPipeline** is the workflow
around it: `CheckPull` a run on the merge of a pull request, `MergePull` the push
that cancels the run before it, `GoesGreen`, `GoesRed` and `Rerun` that push's own
run. A member's tests are a function `Good` of the paths it `Reads`: both are
parameters. What the selection does not know to be a member's input (`Overlooked`:
ignored paths, and other members' that are no library) need not be disjoint from
what it reads, and of this repository is not: the adapter's tests read `deploy/`.
`trail` is a history variable: since the last full green run, were all runs green,
and did no push hide a changed input (`SeenInFull`: overlooked or renamed away)?

**SecretsBootstrap** is `bootstrap-secrets.sh`, a command per action, in as many
processes as there are `Scripts`. `Stop` is every exit the trap sees (a failing
command, a wrong length, a signal), `Kill` one it does not. A secret is a value or
a part of one (`Short`). `TakeUp` is the container that reads a file and
initialises its volume with it, `Rotate` the operator.

**RandomWalk** is `next_quote` in integers, `Grain` to one price increment, with
half-even rounding, the two floors, and what raises: a draw that is not a number, a
price the decimal context cannot hold, a quote that `Tick` refuses. A
distribution is the set of what it may draw.

**IndependentParts** puts StorageLineage, StorageFixture, CiPipeline,
SecretsBootstrap and RandomWalk side by side for one run (section 3).

## 3. Runs

| Run | Question | Bounds |
|---|---|---|
| `feed_log` | Are streams well formed, and does the adapter implement TickLog, across crashes, repeated commands, failures and a clock set back? Is nothing published unless ready? | 1 symbol, 3 sessions, 2 seqs, 1 retry, 2 clock values |
| `feed_live` | Do stop and failure end the process, does a start reach Redis, does a clean exit lose nothing when two tasks run side by side, does a bounded run publish exactly what was asked, does `recv_ts` never go back across a restart if the clock does not, and does a signalled process only wind down? | 2 symbols, 2 sessions (1 tick of one named symbol; then all symbols, endless), 2 seqs, 1 retry, 2 clock values |
| `feed_clock_set_back` (violation) | Does `recv_ts` stay monotonic when the clock is set back between two processes? No. | 1 symbol, 2 sessions |
| `tracker` | Does the tracker drop nothing, accept nothing twice and count losses exactly, with trims, restarts, repeated entries and replays inside a session? | 1 stream of at most 6 entries, 2 sessions, 4 seqs |
| `tracker_replay_across` (violation) | Behind the adapter itself, restarted once, and with a replay that goes back past the session change? It accepts a record twice. | 1 symbol, 2 sessions of 2 ticks, 1 retry |
| `calibration` | Does the seeder implement the store that is seeded at once (and so repair what it finds), is what a load alone returns one seeding, is what loads drawable, is nothing sound refused? | 2 venues, 1 quantity, 3 families, 5 scripts, 2 seeder runs, 1 lost connection |
| `calibration_mixed_load` (violation) | Does a reader never see a mix of two seedings? It can. | 2 seeder runs, no lost connection |
| `calibration_lost_seed` (violation) | Does exit 0 mean seeded? Not if the connection is lost after the ping. | 1 seeder run, 1 lost connection |
| `server` | Is `/ready` never torn, is every request answered, do threads end, is the event loop never locked out? | 2 dependencies, 2 connections, 2 requests each |
| `parts` | Five questions about five parts that share no state (below). | per part, below |
| `lineage_default_dropped` (violation) | Do an older reader's writes keep succeeding across several versions? No. | 1 column, 2 types, 3 versions, 1 author |
| `ci_moved_file` (violation) | Is a member whose inputs a push changes always tested? Not if a file was moved. | 1 service, 3 paths, 2 contents that git finds similar, pull requests of 2 files |

`parts` puts StorageLineage, StorageFixture, CiPipeline, SecretsBootstrap and
RandomWalk side by side. They share no variable. An initial state picks the part
that moves (`part`) and the others rest in one state each, so the reachable states
are the union of the five parts' own, and each property is checked on the part it
is about. `PartsBehaveAsAlone` proves that this is sound: the part that moves goes
through a behaviour of its own specification. What it asks:

* of StorageLineage (2 authors, 1 column, 2 types, 3 versions): are released
  versions frozen and readable as earlier ones, however pull requests interleave?
* of StorageFixture (every lineage of 3 versions CI accepts): is what
  `create_schema` returned for there, after any failures, and does a table built by
  versions in any order serve earlier readers?
* of CiPipeline (a library, a service, 5 paths, 2 pull requests of 1 file): are all
  changed inputs tested, and do partial runs add up?
* of SecretsBootstrap (2 secrets, 2 runs, at once or in turn, stopped or killed
  anywhere): whole or nothing, kept once taken up, nothing left behind, exit 0
  means all there?
* of RandomWalk (4 first prices, draws on, off and half-way between the grid): is
  every quote a valid one on the grid?

Why the bounds are enough:

* *Feed*: two seqs give a first tick, a next one and the step between them; three
  sessions a session between two others (which contiguity needs); one retry the
  lost reply, the lost command and running out of retries. Tasks of different
  symbols share only `stop`, the session, readiness and `gather`, and `feed_live`
  has two of them, in a second session after a bounded first one. TLC finds
  every mutant within these bounds. The theorems of section 5 need no bound:
  `MaxSessions`, `SeqBound` and `MaxClock` are arbitrary naturals there.
* *Tracker*: the tracker keeps one entry per stream and streams do not interact,
  so one stream suffices. Six entries over two sessions hold a gap, a repeated
  entry and a session change together.
* *Calibration*: `load` treats every (venue, quantity) alike; two venues give a
  store with a removed instrument. Two families of equal arity that differ in
  one parameter name, and a shorter one, are what the checks on names and on
  the leftover parameter tell apart. One quantity stands for the three of the
  code: the seeder writes and the reader reads them in the same loops. Two seeder
  runs are one seeding over another.
* *Server*: two connections are two threads competing for the lock with the event
  loop; two dependencies are what a torn view needs; the second request is what
  a kept-alive connection needs.
* *Lineage and fixture*: the rules are per column and columns do not interact;
  three versions are needed for what two neighbours cannot show, and for a version
  applied between an older and a newer one. Behaviours with and without `upToDate`
  are both in the run: `ReleasedIsFrozen` is checked of two passes on one main
  merged in turn, `ReadersKeepWorking` is claimed only where the second is dropped.
* *CI*: two pull requests are one merged while the other's pass goes stale; the
  library and its service give an owner and a dependent, the contract a global
  path, the script one that is ignored and read all the same, the manifest a member
  that comes and goes. A pull request changes one file, so renames stay with
  `ci_moved_file` and the theorems.
* *Secrets*: two runs are one overtaking another; four whole secrets are one
  more than the other run, the file and the volume can hold, so a fresh one is
  always left to draw.
* *Walk*: a step depends on the last price only, and the draws cover both sides of
  a tie, both floors and both ways to raise.

Symmetry is used only in runs without liveness: on session identifiers
(`tracker`) and on the actors of `parts` and `lineage_default_dropped` (authors,
branches and runs of the script, which go by one pair of names in `parts`, as only
one part moves). None of these is ordered by a definition. Every run checks
deadlock.

`MaxSessions`, `SeqBound`, `MaxClock` (FeedAdapter), `MaxLength` (DeliveryTracker,
FeedDelivery), `MaxSeeds`, `MaxOutages` (CalibrationSeeder), `MaxRequests` and
`Connections` (RuntimeServer) and `FilesChanged` (CiPipeline) are bounds of the
model, written in guards. `MaxTicks`, `Requested` and `Retries` are parameters of
the code.

### Findings

1. `feed_clock_set_back`: the clamp on `recv_ts` lives in the task, so it does not
   survive a restart (`generator.py:135`); the wire contract promises a
   non-decreasing `recv_ts` per (provider, symbol).
2. `tracker_replay_across`: the tracker remembers one session per stream
   (`delivery.py:88`); after a session change, records of the earlier session read
   again are taken as new. The data contract calls the second occurrence of a
   key a duplicate. The run shows it behind the adapter itself, restarted once.
3. `calibration_mixed_load`: the three pipelines of `load` are not one
   transaction (`calibration_store.py:193`), and a seeding between them goes
   unnoticed when the families agree; the calibration specification promises a
   reader never sees a mix.
4. `calibration_lost_seed`: redis-cli reports an undeliverable piped command on
   stderr, where `seed.sh:45` does not look; it exits 0 and has seeded nothing
   or part of the script.
5. `lineage_default_dropped`: `default` is only looked at when a column appears
   (`additive_only.py:117`), so a NOT NULL column may lose it one version later.
6. `ci_moved_file`: `git diff --name-only` detects renames and lists the new name
   only (`ci.yml:65`), so a file moved from a service to an ignored directory,
   edited on the way or not,
   selects nothing, and the service is not tested without it.

A seventh is visible without a run: `deploy/` is ignored as unable to affect any
member's tests (`affected_members.py:48-62`), and two test files of the adapter
read `deploy/calibration` (`test_calibration_store.py:395`,
`test_calibration_seeder.py:24`). No theorem assumes this away:
`OnlyHiddenInputsAreMissed` says that paths the selection overlooks and renames are
together the only ways to miss a changed input, and the pipeline's properties say
what holds as long as a push has neither. `parts` has such an input.

## 4. Fairness

*FeedAdapter* (`FairSpec`): the event loop runs what is ready, and every await
ends, in an error if in nothing else (socket and connect timeouts, the retry
limit). Hence weak fairness on each step of the main coroutine, on each task's
loop (`LeaveLoop \/ Generate`) and on the resolution of a publish, as a disjunction:
nothing says which way it is resolved. Start, signals, crashes and the server's
application of a command have none. That Redis answers again and again is not
justified by the code: it is the hypothesis `SF_vars(PingOk)` inside
`RedisIsReached`.

*RuntimeServer* (`FairSpec`): threads are scheduled, the serve loop polls its
shutdown flag every 0.05 s, and `timeout = 10` closes a silent connection; hence
weak fairness on `Stopped` and, per connection, on `Accept`, `Handle` and `Close`.
Nobody has to start, stop, connect or ask.

Liveness is checked in `feed_live` and `server` only, without symmetry and
without state constraints. Nothing obliges a pull request, a run of the secrets
script or a fixture to go on: the five parts have no fairness and no liveness.

## 5. Proofs

| Theorem | Says | Assumes |
|---|---|---|
| `TickLogProofs!LogWellFormed` | every behaviour of TickLog is well formed | seqs and times are naturals |
| `FeedAdapterProofs!TypeCorrect` | types | `ConstantsAssumption`, `NoTickAssumption` |
| `FeedAdapterProofs!SeqsAccountedFor` | a seq taken is stored by the time its task moves on | the same |
| `FeedAdapterProofs!CleanExitIsLossless` | a clean exit has lost nothing | the same |
| `FeedAdapterProofs!ReadyBeforePublishing` | only a ready process publishes (action property) | the same |
| `FeedAdapterProofs!BoundedRunsAreComplete` | a bounded run publishes exactly what it was asked for | the same |
| `FeedAdapterProofs!StoppingWindsDown` | every step of a signalled process brings its end nearer (action property) | the same |
| `FeedAdapterProofs!CopiesAreBounded` | at most `Retries + 1` copies of a tick are on its stream | the same |
| `FeedAdapterProofs!RecvIsMonotonic` | `recv_ts` never goes back on a stream, across restarts | the same, and `~ClockStepsBack` |
| `FeedAdapterProofs!Refinement` | FeedAdapter implements TickLog | the same |
| `FeedAdapterProofs!StreamsWellFormed` | hence its streams are well formed | the same |
| `FeedAdapterProofs!DeliveryRefinement` | FeedDelivery implements DeliveryTracker | `ConstantsAssumption`, `NoTickAssumption`, `DeliveryAssumption` |
| `FeedAdapterProofs!NoTickIsDropped` | no new tick of the adapter is called a duplicate | the same |
| `FeedAdapterProofs!LossesAreCounted` | no tick is handed on twice, and the alarms are the ticks trimmed unread | and replays stay inside a session |
| `RuntimeServerProofs!ServerTypes` | types | `ServerAssumption` |
| `RuntimeServerProofs!ReadyTellsTheTruth` | `/ready` answers something that was true while it was asked | the same |
| `RuntimeServerProofs!RequestsAnswered` | a client that stays is answered | the same |
| `RuntimeServerProofs!SnapshotsAreShort` | a snapshot keeps its lock, and what it copies, until it is complete, and each step of its thread brings that nearer (action property) | the same |
| `CalibrationStackProofs!LiveDatabaseIsWhole` | the live database is empty or all of one script, if no connection is lost | `ScriptsAssumption`, `FlawsAssumption`, `FamiliesAssumption`, `SeederAssumption`, `NotReadAssumption` |
| `CalibrationStackProofs!SeederImplementsSeededStore` | seed.sh, redis-cli and Redis implement SeededStore, kills and lost connections included | the same |
| `CalibrationStackProofs!RunsSeedAtOnce` | a run that keeps its connection changes the live database in one step, to a whole seeding (action property) | the same |
| `CalibrationStackProofs!SeederRepairs` | a seeder that exits 0 undisturbed has seeded its script | the same |
| `CalibrationStackProofs!LoadAloneReadsOneSeeding` | a load alone returns one script's seeding | the same |
| `CalibrationStackProofs!StackTypes` | types | the same |
| `CalibrationStackProofs!LoadedCanBeDrawn` | what loads is drawable, whatever was seeded meanwhile | the same |
| `CalibrationStackProofs!NothingSoundIsRefused` | a load that read one sound seeding is not refused | the same |
| `CalibrationStackProofs!SuccessIsTheWholeScript` | of any SeededStore: success of a run that kept its connection means its whole script and nothing else | none |
| `DeliveryTrackerProofs!TrackerTypes` | types | `ConsumerAssumption`, `UnseenAssumption` |
| `DeliveryTrackerProofs!NothingIsDropped` | nothing new is called a duplicate, whatever is replayed | the same |
| `DeliveryTrackerProofs!NothingIsRepeated` | nothing is accepted twice | and replays stay inside a session |
| `DeliveryTrackerProofs!LossesAreReal` | what is alarmed for had been trimmed unread | the same |
| `DeliveryTrackerProofs!AlarmCountsLosses` | the alarm is the exact number of lost records | the same |
| `StorageLineageProofs!LineageTypes` | types | `ContractAssumption` |
| `StorageLineageProofs!ReleasedStaysFrozen` | released versions never change, with or without `upToDate` | the same |
| `StorageLineageProofs!MainStaysAdditive` | under `upToDate`, main never reaches a lineage the check rejects | the same |
| `StorageLineageProofs!EarlierReadersKeepWorking` | under `upToDate`, every released version can be read as any earlier one | and `WideningsCompose` |
| `StorageLineageProofs!OnlyDroppedDefaultsFailWrites` | under `upToDate`, an earlier version's writes succeed, unless some version dropped a default | `ContractAssumption` |
| `StorageLineageProofs!FixtureTypes` | types | and `IndexedAssumption` |
| `StorageLineageProofs!FixtureBuildsTheContract` | a table built by one version alone is that contract | the same |
| `StorageLineageProofs!FixtureServesEarlierReaders` | versions in any order serve earlier readers | and `WideningsCompose` |
| `CiPipelineProofs!CiTypes` | types | `PathsAssumption`, `PipelineAssumption` |
| `CiPipelineProofs!OnlyHiddenInputsAreMissed` | a changed input that does not select its member is overlooked by the rules or was renamed away | the same |
| `CiPipelineProofs!PushIsTested` | changed inputs are tested, but for overlooked ones | and `NothingMoves` |
| `CiPipelineProofs!GreenTrailIsHealthy` | green runs since a full one, of pushes that hid nothing, add up to a healthy main | `PathsAssumption`, `PipelineAssumption` |
| `CiPipelineProofs!FreshPassIsEnough` | a fresh pass of what hides nothing keeps a healthy main healthy (action property) | the same |
| `IndependentPartsProofs!SecretsTypes` | types | `SecretsAssumption` |
| `IndependentPartsProofs!SecretsAreWhole` | a secret's file is never a part of one | the same |
| `IndependentPartsProofs!RerunsKeepSecrets` | without overlapping runs, a secret taken up stays | the same |
| `IndependentPartsProofs!TrapCleansUp` | nothing is left behind but by SIGKILL | the same |
| `IndependentPartsProofs!SuccessIsComplete` | exit 0 means every secret is there, with its mode (action property) | the same |
| `IndependentPartsProofs!RoundedIsNearest` | rounding moves a price by half an increment at most | `WalkAssumption` |
| `IndependentPartsProofs!WalkTypes` | types | the same |
| `IndependentPartsProofs!EveryQuoteIsATick` | every quote is on the grid and valid | the same |
| `IndependentPartsProofs!PartsBehaveAsAlone` | side by side, the part that moves behaves as its own specification says | those of the five parts |
| `IndependentPartsProofs!PartsTypes` | types of all five, whichever moves | the same |

**TickLog.** `TypeOK /\ WellFormed` is inductive, but none of the four parts of
`WellFormed` is so alone: that a continuing or repeated entry keeps the log ordered
and its keys unique needs that its session reaches to the end of the log
(`SessionsContiguous`), has its highest seq and stamp there (`OrderedInSession`)
and one tick per key. The lemma `NextTickIsNewest` says this of any tick that may
be published next; the four parts follow from it one by one.

**FeedAdapter.** `IInv` is `TypeOK`, `MainInv` (which tasks and which readiness a
phase allows) and, per symbol, `SessionsOpened` (no stream holds a session that
was not opened), `BetweenTicks` (between two ticks the newest entry is the last
seq taken, with the task's `last_recv_ts`), `WhilePublishing` (the tick in hand
either can be appended as the log's next entry, or is its newest already) and
`Accounted`. `WhilePublishing` is the heart: it is what makes the repeated XADD
harmless, and what the refinement step uses. There is one lemma per action;
`Refinement` then shows that `BusAppends` is TickLog's `Publish` and every other
step a stutter, and `StreamsWellFormed` cites `LogWellFormed` through it.
Three more invariants sit on top of `IInv`, each per symbol: `BoundedInv` ties
`published` to the bound through every exit of the loop, and `RecvInv` says that a
stream's newest stamp, and a task's `last_recv_ts`, are at most the clock, which is
what a task that starts from 0 needs after a restart. `CopiesInv` counts: while a
tick is published, its copies are among the newest entries of the stream, one for
each time its command was on the wire, and no older entry equals it, since its seq
is above all others of its session (`GenerateIsNew`, from the well-formed stream).

`StoppingWindsDown` is the part of `StopLeadsToExit` that needs no fairness. The
main coroutine has a rank (`PhasesLeft`), and so has each task (`TaskLeft`, where a
repetition of a command weighs more than the answer it puts off). Once the process
was signalled, every step lowers the rank of the main coroutine or that of one
task, and no other task's: no tick is begun, no ping follows a failed one, no
command is repeated for ever. What is left to fairness is that steps are taken.
`DownIsUnsignalled` is the only fact it needs beyond `IInv`.

**DeliveryTracker.** Four layers, each on the one before. `LogInv`: the log is
TickLog's, and below a seq it holds all seqs of that session. `Handled`: what lies
between start and cursor was accepted, and so was whatever can still be read at or
below the mark; that gives `NothingDropped` for every replay. `InSession`: with
replays inside a session, the mark is the highest seq of its session that was
accepted, the consumer is never before that session, and it has accepted nothing
of a later one. `Counted`: the alarm is the number of lost keys; a gap adds
exactly the seqs between two marks, and no other step changes the set.

**FeedDelivery.** DeliveryTracker assumes of its producer what TickLog says.
`Refinement` discharges that: a step of the adapter is `Produce` or leaves the
streams alone (`AdapterProduces`), so `DeliveryRefinement` holds and the tracker's
theorems carry over to the adapter's own streams, with its crashes, repeated
commands and clock.

**RuntimeServer.** `IInv` says a thread copies iff it holds the lock, the present
verdict is among those its request has seen, what it has copied agrees with the
present on every dependency copied so far (which needs the lock), and only a busy
thread owes an answer. `SnapshotsAreShort` is, in the same way, the part of
`LoopIsNotLockedOut` without fairness: nobody takes the lock from a snapshot or
marks a dependency under it, and each step of its thread copies one more
dependency or lets the lock go.

**The calibration stack.** `SeederInv` follows a run whose connection holds
through its pipeline: as long as something is left to send, what Redis has queued
is exactly what was sent after MULTI, and the transaction is aborted, and the
output marked, iff a command sent so far is refused (`Progress`). At EXEC that
gives all of the script or nothing (`ExecutedIsWhole`), and that the dry run is
marked iff the script does not run; so a live run that is begun runs, and the
live database changes in one step, from whatever it held (`RunsSeedAtOnce`). Once
the connection has been lost none of this is claimed (`disturbed`):
`calibration_lost_seed` shows why. `LoadInv` adds that a load alone has read what
the live database still holds, and that past the discovery this is not the empty
one.

`SeederImplementsSeededStore` maps every step of the three programs. The step of
a run that keeps its connection is `Seed` when Redis executes the script, and a
stutter, `Begin`, `Succeed`, `Fail` or `Stop` otherwise; that EXEC is `Seed` is
`SeederInv`. A run that lost its connection needs an invariant of its own,
`SendsOwn`: whatever redis-cli has still to send and Redis has queued are commands
of the run's own script, so what is executed, inside a transaction or outside,
damages no more than `Damage` allows (`OwnDamage`, `SendDamages`).

`TripInv` follows load's three trips. The keys still to be read are keys this
trip asks for (`Asked`), and whatever it asks for has been read or is still to be;
so at the checks everything is there. What the checks of an earlier trip read is
not read again, so they go on holding of `got` (`DiscoveryPasses`, `HeadsPass`),
and no parameter past the one that must be absent is ever asked for
(`NothingPastCounts`). `LoadedCanBeDrawn` follows from that alone: it says nothing
of the store, only of what was read. For `NothingSoundIsRefused` the lemmas
`SoundDiscovery`, `SoundHeads` and `SoundParams` say that replies of one sound
script pass each trip's checks.

Both rest on which keys a script writes (`LinesRange`) and a trip asks for
(`HeadKeysRange`, `FitKeysRange`). These are flattened lists of lists, so what
`FlattenSeq` yields is proved first: that the recursive function behind it exists
and what its range is (`FlattenExists`, `FlattenRange`), by induction over the
naturals, which `NatInductionOnSet` states for a set instead of an operator.

**StorageLineage and StorageFixture.** A pull request that has passed adds a
file: `from` is `NoFile`, since the check refuses edits and deletions. A merge
needs main's file to be `from` still, so it never touches a released version,
however stale the pass is. `CheckedInv` adds that a pass is still good for the
main of now, so main itself always passes. What holds of neighbours and composes
holds of all pairs (`FromNeighbours`): if some pair failed, take two versions as close together as
possible (`LeastNatural`, from the well-foundedness of the naturals); they are no
neighbours, and a version between them gives a contradiction. Being readable
composes as widenings do. Being fillable composes only with the rule the check
does not have (`DefaultsStay`): the theorem that assumes it of main's present
files shows that finding 5 is the only way for an older version's writes to fail.
`FixtureInv` says that the table is one of the versions applied
(`HoldsApplied`), what the statement under way has behind it (`UnderWay`), and
that what was built is complete (`BuiltInFull`).

**CiPipeline.** `CiInv` says that a fresh pass was earned on the main of now, and
that on a trail of green runs main is healthy once the run of its last push is
green, and was healthy before that push, which hid nothing, until then. The lemma
`MatrixIsEnough` carries it: where the tree before was healthy, the difference
hides no changed input (`SeenInFull`) and its matrix passes, the tree after is
healthy, since a member outside the matrix reads the same as before. The
definition of the trail is what makes a cancelled run harmless to the theorem: the
merge that cancels it ends the trail. What members read and whether files move is
arbitrary: a push that hides something ends the trail too, and the next full run
begins another. `PushIsTested` is the one theorem about pull requests that rename
nothing; `MovesInv` says that then no push does. `OnlyHiddenInputsAreMissed` needs
no invariant: it is about any two trees, and names both ways to miss a member,
renames (finding 6) and overlooked paths (`deploy/`).

**SecretsBootstrap.** `SecretsInv` ties the temporary file to the command a run is
at (`TempFollowsStep`), says that what a run has passed is whole and in place
(`PassedInPlace`, up to a rotation, which no run sees), and that a run which is
alone only makes what was missing (`AloneMakesMissing`).

**The five parts side by side.** `PartsInitially` and `PartsMove` say that the
initial state and every step are those of the part that moves, and that `part`
never changes; `PartsBehaveAsAlone` is the temporal form. With `OthersRest` (the
others stay in their state of rest) and `RestIsTyped`, the five type theorems
add up to `PartsTypes`.

**RandomWalk.** `RoundedIsNearest` is arithmetic on quotient and remainder; the
floors give the rest, and the invariant is the property with the types.

**Only model-checked**: liveness (`StopLeadsToExit`, `FailureLeadsToExit`,
`RedisIsReached`, `QuietConnectionsEnd`, `LoopIsNotLockedOut`), since TLAPS does
not reason about ENABLED. Every other property of a passing run is a theorem. The
properties the violation runs refute are no theorems as they stand; for each, a
theorem says under which hypothesis it holds: `RecvIsMonotonic`,
`NothingIsRepeated`, `LoadAloneReadsOneSeeding`, `SeederRepairs`,
`OnlyDroppedDefaultsFailWrites`, `PushIsTested`.

Induction over the naturals is done by a least counterexample throughout, because
the library's induction theorems take an operator as a parameter, which no
installed prover instantiates.

## 6. Assumptions and what is left out

* Session identifiers are uuid4 values, taken to be fresh and numbered in the
  order they are made; only TickLog and the tracker see them, and neither
  orders them.
* Redis executes what a dead connection delivered before it serves the same
  client's next connection. A crash of the Redis host (with the loss its
  append-only policy allows) and the trimming of streams while the producer
  runs are not represented.
* A duplicate or empty `symbols` argument is not represented.
* What the scratch database holds is not represented: the script deletes its own
  keyspace first and nothing else reads it. One seeder runs at a time. Compose
  starts the adapter after the seeder exited 0; the model lets it load at any
  time, since Compose restarts it on its own account.
* redis-cli connects anew for a command it could not deliver; the new
  connection has no transaction.
* RuntimeServer leaves out bodies, HEAD against GET, malformed requests, a clash
  of ports and the end of the process; a client that stops reading counts as
  one that hung up. `mark_disconnected` is represented although the adapter
  never calls it.
* A tracker lives as long as its consumer process; a new process has a new one.
* In StorageLineage a pull request changes one file of one table; prose,
  indexes and table checks are left out, and so are the ends where git cannot
  answer (exit 2, or an unresolved base). That a pass is dropped when main moves is
  a setting of the hosting service, not of the repository: `upToDate` is either, and
  what holds only with it says so. `WideningsCompose` holds of
  `SAFE_WIDENINGS` as it is.
* In StorageFixture an index covers one column; keys and checks belong to the
  statement that creates the table. The checkouts are those CI accepts.
* In CiPipeline a run is a function of what it checked out, so it happens at one
  instant; lint and the repo job may turn any run red. `Good`, `Reads` and
  `Similar` are arbitrary in the theorems, but that a member reads its own manifest
  and a content is similar to itself. Of several deleted files that could each have
  become one new file git pairs one and lists the others; the model lists none,
  which selects fewer members. git's limit on how many files it compares is left
  out: beyond it nothing is a rename. A pull request's range starts at `base.sha` (`ci.yml:44`),
  the main of the event that began the run, which the model takes for the main it
  is merged with; the two differ if main moves between event and checkout.
  `NothingMoves` (of `PushIsTested` only) excludes finding 6, edited moves included.
* In SecretsBootstrap, drawn values are fresh (24 random bytes), nobody but the
  script writes the files, and an operator rotates only while no run is going. Two
  runs at once may replace a secret a container has just taken up: the script does
  not claim otherwise, and `InitialisedStaysValid` excludes them by `overlap`.
* In RandomWalk the sum of price and draw is exact (the decimal context's
  precision is far beyond what prices need), and the conversion of a quote to
  floats keeps order and sign. Pacing and the distributions' own draws are left
  out: they are real-valued.
* Not modelled at all, with the reason, in `PROJECT.json` under `components`: names,
  configuration, logging, metrics and the stubs. Partly: records (the quote check
  alone), the distributions (what they draw is a set), the deployment files.

Hazards without a property, in `PROJECT.json` under `hazards`: readiness is never
withdrawn while Redis is down; a lineage may be merged into a state the
check rejects if passes outlive main; an unresolved base passes; a
`RedisError` inside `load` is not the `CalibrationError` its caller logs; a change
under `deploy/` alone does not run the tests that read it.

## 7. Plan

Done, in this order, the most important first: TickLog and FeedAdapter with their
proofs; DeliveryTracker with its proofs, and the two composed; the calibration
stack with its proofs and the abstract store it implements, and RuntimeServer with
its own; the storage contracts, their fixture and
their proofs; the CI pipeline, the secrets script and the random walk, each with
its proofs.

Next:

1. **Records**: the conversions of a record to its wire form and back, over
   bounded inputs: round trips, and what validation accepts. They keep no state,
   and the repository's tests already go through them field by field.
2. The services that are stubs today, as they come: aggregation first, since
   its session handling is what the tracker is for.
