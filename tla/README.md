# Verification of the Cognitive Traffic Analytics Platform

TLA+ specifications of the platform's stateful core, model-checked with TLC on small
instances and proved with TLAPS for every value of their constants. Paths below are
relative to the repository; `src/cognitive_traffic/` is abbreviated to `ct/`.

## 1. The system

Pollers publish provider payloads to Kafka raw topics. The **normalizer** turns them into
contract events or dead letters; the **archive** copies the raw topics into a Parquet lake,
which **compaction** rewrites and **replay** feeds back into the raw topics. The **serving
consumer** writes canonical traffic observations to PostgreSQL, from which a read-only API
feeds the operator's map. A reference **event-time processor** and a **Flink job** build
features from the same observations. A **notebook** trains a model and exports a candidate, a
manually triggered Airflow DAG **reviews** it, and the **inference worker** that is deployed
with it turns features into forecasts; **training** from a dataset manifest registers versions
in MLflow. Prometheus probes the operator journey; Alertmanager calls the **on-call agent**,
which authorizes at most one API restart per incident, carried out by a **recovery
executor** on the host.

| Component | State | Operations | Interacts through | What is hard |
|---|---|---|---|---|
| Serving consumer `ct/streaming/serving.py`, `ct/storage/postgres.py` | group offsets; `traffic_observations`, `traffic_current`, `roads` | poll, validate, store in one transaction, commit the offset | Kafka topic, PostgreSQL locks | redelivery, fenced members, concurrent upserts, rejected versus failed |
| Bootstrap `ct/storage/bootstrap.py`, `infra/postgres/` | schema, enabled roads | migrate and register in one transaction | table locks shared with serving | lock-order deadlock, partial registration, legacy rows |
| On-call agent `ct/operations/oncall_agent.py`, `incident_store.py`, `alert_receiver.py` | SQLite ledger | handle a firing, repeated or resolved alert | ledger, queue directory, probe | commit before publish, leases, cooldown, repetition |
| Recovery executor `ct/operations/recovery_executor.py` | request, claim and result files | claim, preflight, restart, verify, escalate, report | queue, ledger, docker | crash at any step, two executors, expiry decided twice, lock timeouts |
| Normalizer `ct/streaming/processors.py`, `producers.py` | group offsets, the producer's queue | parse, normalize, send or dead-letter, flush, commit | raw topics, canonical topics | poison payloads, undelivered records, appends of a process already dead |
| Archive, lake, compaction `processors.py`, `ct/storage/object_store.py` | objects, manifests, group offsets | archive a batch, compact a partition, write a manifest | raw topics, object store | crash between write and commit, deletion of sources, dangling manifests |
| Replay `ct/streaming/replay.py` | none | list, read, resend | lake to raw topics | runs while the archive writes what it resends |
| Event-time processor `processors.py`, `ct/forecasting/features/` | watermark, seen ids, history per road | process an observation | called by tests and replays | late and duplicate events, pruning, leakage of future data |
| Flink job `processors.py`, `infra/flink/` | watermark, timers, accumulators, checkpoint | roll the hour's frame, emit features | Kafka topics | disorder, idle partitions, recovery, features known too late |
| Notebook `notebooks/exploration.ipynb`, `ct/forecasting/evaluation.py` | a run's split, bundle, measurements | audit, purge, fold, fit, measure, export | files carried to the object store | leakage across the purge, folds over gaps |
| Training `ct/forecasting/training.py` | artifacts, tracking runs, versions, challenger alias | train from a manifest, log, register, alias | MLflow, object store | four calls to two stores, races, alias moved before a failure |
| Review `orchestration/dags/train_forecast.py` | the DAG run | check evidence and checksums, gate | object store | files replaced while it reads, NaN |
| Inference `ct/forecasting/inference.py` | bundle, group offsets, the producer's queue | forecast each feature for each horizon, flush, commit | Kafka topics, object store | crash between horizons, redeployment, start at the newest offset |
| Journey probe `ct/monitoring/journey_probe.py` | none | read three endpoints | API | partial answers |
| Ingestion, contracts, API, frontend, observability, forecast cache | none that a decision reads | | | |

What makes each of them correct:

* serving: a committed offset never skips an observation it owes; each identity has one row;
  readers see the newest operational reading of each road; no deadlock, and no payload the
  database can take, blocks a partition for good;
* recovery: one restart at most per incident; a request is always a committed and unrenewed
  authorization; requests are a cooldown apart; a resolution is never overwritten; every
  authorization is published or given up, every request answered;
* normalizer: a committed raw message has its canonical event or dead letter; observations may
  be repeated but none is skipped; no payload that can be dead-lettered blocks a topic;
* lake: what was acknowledged to Kafka can be read ever after; an object that a dataset id
  names does not change, if it has one writer; a replay that finishes has sent all of its window; messages do not stay unarchived;
* features: computed from exactly the observations of the hour that were available, each event
  once, whatever repeats, comes late or restarts;
* models: the holdout is unseen and each row is validated once; a registered version can be
  loaded, an artifact key for a bundle of its dataset; an approval stands for whole files, finite numbers and an unseen holdout;
* inference: a committed feature has all its forecasts, from one model.

## 2. Modules

| Module | Models |
|---|---|
| `TrafficStore` | what PostgreSQL serving promises: atomic accepts of conflict-free observations and the newest one per road. Abstract specification |
| `TrafficServing` | serving consumers, their transactions, and db-init |
| `MCTrafficServing` | observations and instances for TLC |
| `TrafficServingProofs` | theorems about `TrafficServing` |
| `Recovery` | on-call agent, ledger, queue, executors |
| `RestartPromise` | what bounded recovery promises: one decision per incident, a cooldown between authorizations, one restart each. Abstract specification |
| `MCRecovery` | instances for TLC |
| `RecoveryProofs` | theorems about `Recovery` |
| `ConsumerPromise` | what every consumer promises of a topic it acknowledges by hand: the effect of a message before its acknowledgement, for good. Abstract specification |
| `Lake` | archive, objects, compaction runs, manifests, replays |
| `MCLake` | instances for TLC |
| `LakeProofs` | theorems about `Lake` |
| `Observations` | the canonical topic and the contract of what is in it |
| `Normalizer` | the normalizer; writes the topic of `Observations` |
| `EventTime` | the event-time reference processor and its feature builder |
| `FeatureJob` | the Flink job, its means in Java, checkpoints and recovery |
| `Streams` | the composition of the three on one topic |
| `MCStreams` | backlogs and instances for TLC |
| `NormalizerProofs`, `EventTimeProofs`, `FeatureJobProofs` | invariants of the components |
| `StreamsProofs` | theorems about `Streams` |
| `Training` | notebook runs, walk-forward folds, trainings from a manifest, the registry |
| `Review` | uploads, evidence, the review DAG and the promotion gate; extends `Training` |
| `Inference` | deployment and the inference worker; extends `Review` |
| `Models` | their composition: the life of a model |
| `MCModels` | frames, measurements and instances for TLC |
| `ModelsProofs` | theorems about `Models` |

### TrafficServing

State: `log` (the topic's partitions), `committed` and `owner` (the consumer group), `up`
and `task` (each consumer and the place it has reached), `history`, `current`, `enabled` (the
three tables), `migrated` and `boot` (db-init), `clock`. `PROJECT.json` gives the lines of
every definition.

* `Deliver` is `poll` together with the checks made before the transaction (contract,
  provenance, timestamps against the clock). What raises `ValueError` goes straight to stage
  `ack`: the code acknowledges rejections.
* `SelectRoad`, `InsertHistory`, `CompareDuplicate`, `UpsertCurrent`, `CommitTransaction` are
  the statements of `store_observation`, one action each, because other transactions run
  between them. PostgreSQL is at READ COMMITTED: `ON CONFLICT DO NOTHING` waits for an
  uncommitted row with one of the two keys, the conditional upsert waits for a row lock and
  then evaluates its `WHERE` on the committed row (`wins`).
* `flaw` says what the database refuses of an observation the contract accepts: its `road_id`
  (a NUL character), a column (a NUL in another text or in the JSON payload), or a new entry
  of an index (an `event_id` or `source` too long for it). `StatementRefused` is the error at
  the statement concerned. It is no `ValueError`, so it ends the process with the offset
  uncommitted, and the next consumer of the partition meets the same message.
* `CommitOffset` succeeds for the owner of the partition; `CommitRefused` is the error a
  fenced member gets, which ends its process.
* `BootIndex`, `BootAlter`, `BootCommit`, `BootAbort` are the stages of db-init's one
  transaction that other transactions can notice: SHARE on `traffic_observations`, then
  ACCESS EXCLUSIVE on `roads`, then the commit. `DeadlockVictim` is PostgreSQL aborting the
  serving side of the lock cycle the two can form.
* `LoseAssignment`, `Crash` are rebalances and process failures, bounded by `MaxFaults`.

An observation is a record of what the code branches on: id, source, road, city, event time,
the latest of its three timestamps (`stamp`), mode, `flaw` and a body that stands for the rest of
the payload. Event ids are numbers because the upsert orders them.

### Recovery

State: `ledger` (row of the incident: state, reason, `requested_at`), `request`, `claim`,
`result` (the three files of an incident in the queue), `receiver` (the alert being handled),
`executor[e]` (the request in hand), `journey` (what the probe would answer), `clock`;
`restarts` counts the restart commands and nothing reads it.

* The webhook coroutine contains no `await` after the body is read, so alerts are handled one
  at a time; the interleaving is between the one receiver and the executors. A handler's
  stages are those at which an executor can see or change something: before the probe, before
  the commit, between commit and publication.
* A failed handler (`HandlerFails`) rolls its transaction back, or leaves a committed row
  without a request file; Alertmanager's repetition is `Republish` or `ExpireUnpublished`.
* `Pick` to `Report` follow `execute_pending` statement by statement. `Escalate` waits for the
  receiver's write lock; `EscalateTimesOut` is the 5 s limit of `sqlite3.connect`, which the
  receiver can exceed because it probes (up to 9 s) under the lock.
* Signature, size and format checks of a request file are taken as passed: the queue is
  written by the agent alone.

`RestartPromise` knows which incidents were decided on, when restarts were authorized, and which
were carried out; it has no ledger, queue, claims or crashes. An incident is decided on when its row
is in the ledger, and authorized at the `requested_at` of that row. `NewIncident`, the probe and
the publication are invisible to it, `RecordIncident` is `Dismiss` or `Authorize`, at a time `now` that
lies before the commit, and `Restart` is `Restart`.

### Lake

State: `topic` and `committed` (one partition of a raw topic and the archive group's offset),
`archiver` (the batch in hand), `lake` (rows of each object) with `used` (keys ever written),
`compaction[c]` (what a run has listed, read and still has to delete), `replay[r]`,
`manifests` (with the rows their objects had, which the code does not store).

* `Consume(n)` is `consume` with the grouping of `archive_batch`: a record that cannot be dated
  raises there, before anything is written. `WritePartition` is one put, under a fresh uuid;
  `CommitBatch` follows the last one; `ArchiveFails` and `Restart` may come between any two.
* A compaction run is `ListSources`, `ReadSource` for each source, `PutOutput`, `DeleteSource` for
  each source, so that the archive and other runs can act between any two requests. Reading
  an object that is gone ends the run with an error; deleting one that is gone does not. The
  listing of a compaction is one page: its prefix is one date and city.
* A replay fetches the listing of the whole dataset page by page, each page starting after
  the last key of the one before, and reads one object after the other: it sees neither a
  snapshot nor its own end, since the archive writes what it sends. `expected`, what the lake
  held for the window when the run began, is kept for `ReplayComplete` only.
* A row is the message it holds and the object it was first written to, so that two copies
  of a message differ. `event_time` is reduced to partition, "in the window" and "undated".

`ConsumerPromise` knows messages, the ones kept and the acknowledged ones. Archive and compactions
refine it (what is kept are the messages some object or batch of the lake holds) when no two runs share an output key, which is the configuration of `LakeCompaction`;
`LakeSharedOutput` is the schedule as it is shipped.

### Streams

The three components share the variable `canonical`, the topic `traffic.observation.v1`.

`Normalizer`: `raw` and `offset` (raw topics and the group), `worker` (the message in hand),
`context` and `dead` (the other canonical topics and the dead letters), `wire` (records a dead
process has produced and the broker may still append), `refused`.

* A payload is what the code branches on: whether it is a JSON object, another JSON value or
  no JSON, its key, time, record id and availability, and whether a dead letter made of it
  can be sent (`letter`). `Valid` is the outcome of the three
  `normalize_*` functions and the contracts they build; `Poison` is what no handler catches
  (`json.loads`, `dead_letter_for` on something that is not an object, `send` of an event without
  a key, of a dead letter whose `event_id` the contract has stripped to nothing, or of one with
  a lone surrogate, which UTF-8 cannot encode).
* `Poll` is everything up to `produce`. `Deliver` and `Refuse` are the two ways `flush` can
  return without complaint: there is no delivery callback, so a refused record looks like a
  delivered one. `Stop` is a crash or the `TimeoutError` of `flush`; `DeliverLate` is the
  broker appending a record afterwards.

`EventTime`: `seen`, `high` (`max_event_time`), `history`, and `outcome[n]`, what `process()` made
of observation n. A feature is the set of observations it is computed from. The weather,
event and neighbour arguments of the builder are never given by `process()`.

`FeatureJob`: `job` (rows read, watermark, rows whose timer is pending, the last time fired and
the accumulator of each road), `checkpoint`, `features`. A row waits until the watermark passes
its event time; rows of a road fire in that order, all rows of one time together; a row not
later than the last one fired is dropped; a row that leaves the frame is retracted. These are
the semantics of Flink's row-time `OVER ... RANGE` aggregation, which the SQL relies on;
`Advance` lets any partition be the one that holds the watermark back, because the others may
have been idle for five seconds. `Recover` rewinds to the last checkpoint and leaves what the
sink has written. The job is started before there is anything to read.

### Models

`Training`: `notebook[r]` (how far run r is, its dataset and frame, its measurements), `trainer[k]` (a training
from a manifest), `bundles`, `logged`, `registry`, `challenger`. A frame is a set of rows, each with
its time, the time its features were available and the horizons whose target was observed.

* `Load`, `Split` and `Export` are the notebook's cells: its assertions, the purge with the folds
  and the fit, the measurement of the holdout and the manifest (`allow_nan=False`). `Folds` is
  `WalkForwardSplitter.split` as a set expression; `Trainable` says when
  `train_quantile_bundle` returns.
* `TrainFrame`, `StoreBundle`, `LogRun`, `CreateVersion`, `SetChallenger`, `ReturnResult` are the
  calls of `train_from_manifest` that another process can see, with `TrainerDies` between any
  two. The key of a bundle holds the dataset and the second: two trainings of one dataset in one
  second write one object, which the later one overwrites. The frame stands for the dataset in it.

`Review`: `files[r]` (what lies under the keys of run r), `evidence[r]`, `review[r]`. `Upload` and
`FileEvidence` are people; they go on while `BeginReview`, `CheckFile` (twice) and `Decide` read. An
uploaded file that is whole is not replaced by another one: keys hold the id of the run.

`Review` begins with the checks of dataset and evidence; `execution_origin` is always a
notebook's, as it has to be.

`Inference`: `deployed`, `features`, `committed`, `worker` (the feature in hand and the next
horizon), `queue` and `wire` (records produced, and those of a dead process), `forecasts` as a set,
since ids are deterministic, `refused`, `skipped`. A feature is the set of runs whose bundle can
read it, that is, has a number in each column the bundle was fitted to; a null in one makes
`LightGBM` raise. `Null` is a feature the contract refuses. `Start` is `load_predictor` and the first
assignment: with nothing committed it begins at the end of the topic. `Predict` dies on a horizon
the bundle has no models for, and on a feature the bundle cannot read.

## 3. Runs

| Run | Instance | Shows |
|---|---|---|
| `ServingRaces` | 2 consumers, 1 partition, 1 road, 6 observations, 2 messages, 2 faults, 1 rerun of db-init; symmetric consumers | safety and refinement with colliding ids, equal natural keys, ties on event time, a newer pre-migration row, crashes and fencing in every statement (665 k states) |
| `ServingProgress` | 2 consumers, 1 partition, 2 roads, 6 observations (operational, replayed, wrongly located, two the database refuses), stamps up to 2, malformed messages, 1 fault, 1 rerun of db-init; fairness | what is rejected never hides or loses what is owed; every message is acknowledged but behind one the database refuses (307 k states) |
| `RecoveryLeases` | 2 incidents, 1 executor, cooldown 1, lease 2, clock to 3, 1 fault | leases, expiry and cooldown; refinement of `RestartPromise` (1.5 M states) |
| `RecoveryRaces` | 1 incident, 2 executors, 2 faults, fairness | one restart, kept resolutions, publication and answer (393 k states) |
| `RecoveryTerminal` | 2 incidents, 1 executor, no faults | **violated**: see section 6 |
| `LakeCompaction` | 2 messages, 5 keys, 2 compactions with their own output keys, 1 manifest, 1 fault; symmetric uuid keys | durability and refinement over every overlap of archive and compactions (503 k states) |
| `LakeReplay` | 3 messages in 2 partitions, 7 keys, pages of 1 key, 1 replay, 1 compaction, no crash; fairness | a listing that grows and shrinks while it is read; batches over partitions are stored whole; messages are archived (210 k states) |
| `LakeSharedOutput` | 2 messages | **violated**: see section 6 |
| `Streams` | 23 backlogs of 2 raw topics with up to 3 messages, 2 roads, 1 crash or refusal, 1 failure of the Flink job; delay 1, window 3, bound 2, frame 1; fairness of the normalizer | nothing committed is lost, no gaps, complete and single counting, exact frames, progress (449 k states) |
| `FeatureLeak` | 1 backlog of 3 observations, no faults | **violated**: see section 6 |
| `Models` | 7 frames, 5 measurements, 4 champions; 2 notebook runs, 2 trainings, 1 death, 1 review per candidate, 2 features, 3 stops, horizons {1, 2}; fairness of the worker; state constraint `Bounded` | splits, registry, review and inference (83 k states) |
| `HorizonGap` | 1 run, 1 frame, horizons {1, 2}, the worker asks for a third | **violated**: see section 6 |

Bounds. Two messages per partition are enough for a redelivery to race its own first
delivery and for an older reading to follow a newer one, and two consumers for every pairwise
lock. Two faults allow a crash of a fenced member. Two messages in two objects are what a
compaction merges, two runs what overlaps, and a third uuid key is the retry of a batch; pages
of one key stand for listings over 1000 keys. In `LakeReplay` the output key of the compaction
sorts after its sources: otherwise a compaction that puts its output before the cursor makes a
replay skip rows (TLC finds it), a limit listed among the hazards. The shipped key,
`compacted.parquet`, does sort before `part-`, so what protects a replay of the shipped layout is
that its listing fits one page of 1000 keys; section 5 has a theorem for each case. A clock that passes the lease by one
separates "within", "at" and "after" the lease, and two incidents a cooldown apart.

In `Streams` three observations of two roads give every order of early, repeated, ahead, behind
and old, each time bound is met at, below and above its limit, and all of them occur with idle
partitions and a failure; the oddities (no JSON, an array, an undated, a keyless and a
contradictory message, dead letters without a key or not encodable) occur in both kinds of topic, before and behind good ones.

In `Models` the frames are regular, with a gap over two folds, too short, without targets late,
empty, leaking, and with two rows of one time; the measurements better, equal, over the peak limit,
without peak and NaN. The registry shares no variable with the other components, so `Bounded`
explores behaviours of one or of the other. It also lets only the first run meet bad frames,
measurements and uploads, and takes them to their review only: what is deployed, and the
second run that replaces it, are ordinary. The benchmark's dataset comes with ordinary files, and
alone. Of the features at most one is not read by both bundles: it is refused by the contract or
read by one of the bundles only, and beside it there are at most two stops. The worker branches on nothing else. `ModelsProofs`
assumes none of this. The worker of `Models` is asked for the horizons its bundle has, as one
trained by `train_quantile_bundle` with its default targets would; `HorizonGap` gives it the
notebook's.

The proofs remove the bounds for the safety properties.

Every property is paired with a mutant in `PROJECT.json`: a definition of the model changed
as a plausible bug would change the code (an offset committed when the message is polled, a
`>=` in the upsert, a claim without `O_EXCL`, a timeout of `flush` that nobody looks at, a cutoff
without the purge), which the run then refutes. The mutated definitions stand next to the
originals and are marked as such.

## 4. Fairness

`TrafficServing!Fairness`: docker restarts a stopped consumer (`restart: unless-stopped`),
the group coordinator assigns free partitions, the loop of `run()` goes on, a migration that
began ends, and the deadlock detector runs. Nothing is assumed of producers, of time, or of
db-init being started. Faults and reruns are finite, as they must be for anything to finish.

`Recovery!Fairness`: a handler that began goes on; the executor polls every two seconds.
Repetition of a firing alert is strong fairness per incident, because the receiver may be busy
with another alert each time Alertmanager calls (it retries failed deliveries and repeats
every five minutes). No fairness is assumed for resolutions or for the journey.

`Lake!FairSpec`: the archive's loop goes on and docker restarts it (`restart: unless-stopped`).
Nothing is assumed of compactions, replays or producers.

`Streams!FairSpec`: weak fairness of `Normalize` as a whole: the broker answers, the loop goes on,
docker restarts the process. It says nothing of which topic is polled: that no topic starves
follows from the backlogs being finite. `EveryMessageForwarded` is conditional on there being no
poison in any topic, since one such message ends the process, and after a restart it may be
polled first again. `EveryMessageAcked` and `EveryFeatureRead` except, in the same way, what lies
behind a message that no restart gets past (`Obstructed`, `Blocking`): these are limits of the
code, not of the fairness. Nothing is claimed of the Flink job's progress: its watermark waits for
later rows.

`Models!FairSpec`: weak fairness of `Serve`: the broker answers, the worker's loop goes on, docker
restarts it. People (uploads, reviews, deployments) and trainings may stop anywhere.

## 5. Proofs

`TrafficServingProofs` proves, for every number of consumers, partitions, roads and
observations: `Invariance` (the inductive invariant `IInv`), and from it `TypeCorrect`,
`ExactlyOneRow`, `AtLeastOnce`, `LiveViewIsNewest`, `OffsetOrder` and `Refinement` (`TrafficServing`
implements `TrafficStore`).

*Why the invariants are not inductive by themselves.* That a committed offset covers its
message needs what a task at stage `ack` has established (`StageInv`), that its message is the
next one unless it was fenced (`TaskInv`), and that the log keeps the time of publication
(`LogInv`). Uniqueness needs the exclusion of uncommitted rows (`LockInv`), which in turn
needs the wait in `InsertHistory`. That the live row is the newest needs `wins` to stay true
from the statement to the commit (`StageInv`), which the row lock gives (`LockInv`), and db-init
to be alone when it purges (`BootInv`, `MigrationInv`). The refinement maps every step but
`CommitTransaction` to a stutter; `BootCommit` stutters because what it deletes was never in
the view.

`RecoveryProofs` proves, for every number of incidents and executors: `Invariance`, `TypeCorrect`,
`SingleRestart`, `AuthorizedRequests`, `Cooled`, `OneLease`, `ResolutionStays`; and `ExpiryFinal` for one
executor. `SingleRestart` rests on `ClaimInv`: no restart without a claim, and no two executors
between claim and restart of one incident. `Cooled` rests on `ReceiverInv`: while the receiver
decides, no other authorization is made and all earlier ones lie in the past. `RecoveryKeepsPromise` shows that receiver and executors
together implement `RestartPromise`: the authorization of `RecordIncident` keeps the cooldown from all
others because `Recent` was evaluated with none in between (`ReceiverInv`), and a restart is the
first one, of an authorized incident, by `ClaimInv` and `RequestsAreAuthorized`. `ExpiryFinal`
needs `ResultInv` and `ExpiryInv` (a request whose restart was issued has a result and is not
picked again) and really needs a single executor: a second one may find expired what the
first has just read as valid.

`LakeProofs` proves, for every set of keys, compactions and replays and every page and batch
size: `Invariance`, `TypeCorrect`, `Durability` (`AckedIsArchived`) and `Refinement`
(of `ConsumerPromise`), all under `DistinctOutputs`: no two compaction runs share an output key. That hypothesis is what the
shipped schedule lacks, and `LakeSharedOutput` shows it is needed. `FrozenDatasets` needs it not:
whatever keys the runs have, an object of a manifest keeps its rows if it is the archive's or the
output of one run only (`SoleWriter`). It has an invariant of its own, `FrozenInv`: a run that has
its key to itself has yet to use it, so no put meets an object a manifest names. What several runs
put under one key, as the shipped DAG does, can change behind a manifest. That an acknowledged message
is archived is not inductive: a run may be about to delete its object. `SafeInv` says that every
archived message has a copy which no run in its deleting stage lists, and is kept by
`ReadInv` (what a run has read of a source is what the source still holds) and `KeyInv` (a
run's output key is unknown to everybody until it is put, hence on nobody's list).

`ReplayComplete` is not true of every configuration, so three theorems say where it is, each over
any number of concurrent batches and replays: `ReplaysSeeMovedRows` when the outputs of compactions
sort after their sources (a property of the file names, true of no shipped one),
`ReplaysOfOnePage` when the dataset never exceeds a page, and `ReplaysBesideArchive` when nothing is
compacted. The replay has *served* a message when it has sent it, holds its row, or will still meet an
object with it: one on the page in hand or after the cursor. Objects only move backwards: `MovedInv`
says that what a run is about to delete is held by a later object nobody is deleting, `AheadInv` that
every message the replay owes is served in that sense over all pages, `PageInv` that a replay within
one page has listed everything it owes. A replay whose object is deleted between listing and read
ends with an error, which the property allows.

`StreamsProofs` proves, for every backlog of every number of raw topics, any disorder and any
number of crashes and recoveries: `Invariance`, `StreamsTypes`, `NoCommittedMessageLost`,
`CanonicalHasNoGaps`, `FeaturesSeeTheirWindow`, `ObservationsCountOnce`, `FlinkFramesExact`,
`NormalizerKeepsPromise` and `OrderedFeaturesDoNotLeak` (below). The
components have an invariant each (`NInv`, `EInv`, `JInv`), kept by their own steps, and by
another component's because the topic only grows. `NoGaps` needs that a record on the wire
stands for a message up to which everything was forwarded: a process reaches message n only
after the commit of n - 1. `HistoryComplete` needs that what pruning has removed is older than
the window of anything that becomes available later, hence its condition. `FramesExact` has
to relate three things for the job and for its checkpoint: what has been read, what is
pending, and what the accumulators hold. The accumulator of a road holds exactly the rows fired
that are within the frame of the last one, and a dropped row is one that was not within the
promised disorder.

`ModelsProofs` proves, for all frames, durations, horizons and measurements and any number of
runs, trainings, crashes and deployments: `Invariance`, `ModelsTypes`, `HoldoutStaysUnseen`,
`RowsAreValidatedOnce`, `RegistryIsComplete`, `ApprovalsAreDeserved`, `CommittedFeaturesAreForecast`,
`InferenceKeepsPromise` and `GapStopsService` (below). `HoldoutIsUnseen` is a
fact of arithmetic about `TrainOf` and `HoldoutOf`. `RowsAreValidatedOnce` has the hypothesis
`Validation = Step`: the splitter's defaults are 7 and 7 days and the notebook passes equal values, but
nothing in `WalkForwardSplitter` demands it, and with windows longer than the step rows are counted
twice. A frame is finite (`FiniteFrames`), hence has a first and a last row; division of a row's
time by the step gives the one window it can be in, multiples of the step lie a step apart, and
the window is a fold because the row itself is in it. The registry needs `TStages` (the stage of
a training says which calls are done), that a registered training keeps its frame, and that every
stored bundle was fitted to the dataset of its key, whoever wrote it last (`TStored`). An approval
is deserved because a file found whole stays whole (`RStages`) and an exported run is not
touched again (`ExportedStays`). `CommittedIsForecast` needs `WorkerInv`: the worker is right
after the last commit or after what it skipped, and the forecasts it has produced for the
feature in hand are appended, refused or still in its queue, under its own version.

*One promise for four consumers.* The archive, the normalizer, the serving group and the inference
worker each poll, do something durable, and commit by hand. `Refinement` of `LakeProofs`,
`NormalizerKeepsPromise` (for every raw topic), `ServingKeepsPromise` (for every partition) and
`InferenceKeepsPromise` show that all four implement `ConsumerPromise`; they differ in what is
`kept`. For the archive it is a message that some object holds; for the normalizer one whose event or
dead letter is in its log, or was refused by the broker; for serving one that is not owed
to the history or is covered by a row of it; for inference one that has all forecasts of one bundle,
with refused records among them, or that the group never read because it began behind it. Refused
records and features never read are losses the code accepts: they are in the statement. Each
refinement needs, besides the component's inductive invariant, that logs and tables only grow
and that a commit goes past the message in hand and no further.

*What causes the violations of section 6.* Each violated property is a theorem once its cause is
taken away. `EscalationIsTerminal`: if no step is `EscalateTimesOut`, every result `escalated` is in the
ledger. `OrderedFeaturesDoNotLeak`: while the observations of a road become available in the order of
their event times (`AvailableInOrder`), no feature of Flink looks ahead; a reading
that is published a second time, later, already breaks that order. `GapStopsService`: when a bundle
lacks horizon n of those asked for (as every bundle of this notebook does), the offset stays uncommitted for ever and only horizons before n are
forecast, whatever is deployed again, so the finding is permanent and not a lost first message.
For `LakeSharedOutput` it is `DistinctOutputs`, under which `Durability` holds.

Assumptions, all named in the modules: durations and bounds are natural numbers; the furthest
horizon is the largest; backlogs are sequences of payloads; identities of legacy rows respect the table's keys and
legacy rows are not operational (they have no mode); each road has one partition; `None`
is distinct from real values.

Only model-checked: the liveness properties (`EveryMessageAcked`, `RequestIsPublished`,
`RequestIsAnswered`, `EveryMessageArchived`, `EveryMessageForwarded`, `EveryFeatureRead`), which need
fairness and `ENABLED`, out of the prover's reach. Every safety property of a passing run, action
properties and refinements included, is stated by a theorem.

## 6. Findings

`RecoveryTerminal`. `docs/operations/api-unavailable.md` line 9 says that a failed restart or
verification persists a terminal `escalated` state in the ledger. The executor's escalation
uses a 5 s lock timeout, the receiver may hold the lock for 9 s while it probes for
another alert, and the error is swallowed: the result file then says `escalated`, which keeps
the request from being retried, and the ledger row stays `recovery_requested`.

`LakeSharedOutput`. `docs/architecture.md` line 5 calls object storage the durable history. A
compaction leaves its output key out of its sources and then overwrites it; the DAG uses a
fixed output key per partition and deletes the sources. A second run of a partition that
received objects in between destroys the output of the first. (The DAG's default layer,
`canonical/`, is written by nothing in the repository yet.)

`FeatureLeak`. `ct/forecasting/features/traffic.py` line 24 gives every registered feature the rule
`available_at <= prediction_time`, and `docs/architecture.md` line 48 repeats it for training. The
Flink job uses the availability of the current row as prediction time and its frame bounds event
times only: a row that happened earlier but was published later is in the frame. The reference
processor filters it out (`HistoryComplete` says so).

`HorizonGap`. `README.md` line 82 wants inference to run on the notebook's artifact and puts
acceptance at +15/+60. The notebook trains those two horizons; the worker asks for 240 as well, and
`predict` raises. The worker dies before `flush`, so the +15 and +60 records of the feature may
be lost with it, and since nothing is ever committed the restart begins at the end of the topic.

More was seen while modelling and is visible in the model, without a run of its own. A crash of
the archive between its writes and its commit stores a batch twice under fresh object names
(`processors.py` line 271), where requirement D07 (`docs/requirements/cognitive-traffic-mvp-v1.md`
line 107) wants retries not to duplicate results; and the archive has no dead letters, where
`docs/architecture.md` line 38 has them for any stage: a record without `event_time` stops it for
good. `EveryMessageArchived` excepts the latter (`Poisoned`). Three other consumers have such
messages, each excepted from its liveness property: an observation the contract accepts and
PostgreSQL refuses stops its partition (`ct/storage/postgres.py` lines 44 to 57, no `ValueError`);
an invalid object whose dead letter cannot be sent stops the normalizer
(`ct/streaming/producers.py` lines 30 to 36, reached from an `except`); and a feature with a null
in a column of the bundle stops the inference worker (`ct/forecasting/training.py` line 43). The
Flink job writes two nulls into every feature (`infra/flink/traffic_features.sql` lines 90 and
92), so a bundle fitted to either column reads none of them.

## 7. Plan

Done: serving with its abstract store and proofs; recovery with its promise and proofs; the lake with its
promise and proofs; the event pipeline and the life of a model with their proofs.

Left, in order of use:

1. `promote_model_version` and the champion alias, once something in the repository calls it.
2. Serving and normalizer composed through the topic, which today meet only in what
   `Streams` proves of the topic and `TrafficServing` assumes of it (repetition and disorder).

## 8. Not modelled

Ingestion pollers (stateless HTTP and field mapping), API and frontend (read-only), metrics,
tracing and logs (no decision reads them), the forecast cache (unused), token initialisation (two
steps of one process; its crash is among the hazards), the estimators (third-party numerics),
`promote_model_version` and `promotion_decision` (called by nothing). Field formats and the
validation of contracts are reduced to "valid" and what makes a message invalid in kind. Speeds,
means and quantiles are data. A Flink job that is first started behind existing rows begins at the
end of the topic and misses them; the model starts it on an empty topic. `load_predictor` does not
check the artifact's checksum; the model relies on nobody replacing a whole file under a run's key, and `ApprovalDeserved` says
nothing of a review during which somebody does.
