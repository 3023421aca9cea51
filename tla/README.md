# HotelOps AI: models and proofs

TLA+ models of the back end of HotelOps AI (`src/backend/app`), the TLC
configurations that check them on small instances, and theorems that TLAPS
proves for every instance. Paths below are relative to `src/backend/app` unless
they start with `src/`.

The back end turns camera frames into operational events of a venue and
delivers those events, with the evidence they call for, to their consumers.
What is hard about it is not any single function but the protocols between
processes that share tables, a Redis stream and an object store, and that may
crash, time out or overtake each other at any point. That is what is modelled.

## 1. The system

```
 camera/file -> FramePipeline -> detectors -> tracking -> spatial -> temporal -> rules
                                                                                  |
                  +------------- one transaction: fact, event, audit, outbox  <---+
                  v
   outbox_events -> publisher workers -> Redis stream -> ingress bridges -> inbox_messages
                                                                                  |
                         evidence request (the effect)  <-- consumer workers <----+
                                    |
                         evidence workers -> artifact, package -> retention

   requests -> configuration versions (draft .. validated .. published) -> spatial engine
   requests -> media records <-> object storage <- clean-up worker
```

| component | state it keeps | operations | what is hard | what makes it correct |
|---|---|---|---|---|
| Persistence boundary (`application/services/operational_persistence.py`, `outbox.py`) | rows of fact, event, audit, outbox | persist in one transaction | two producers insert the same keys, savepoints, waits for uncommitted keys | all rows or none, a conflict is a replay, every producer returns |
| Outbox publishers (`workers/outbox_publisher.py`, `repositories/outbox.py`) | `outbox_events`: status, attempts, lease | claim, XADD, mark, retry, dead-letter | crash between XADD and mark, clock read before a connection wait, lost replies, a batch that outlives its lease | one live owner, only it settles, terminal is final, budget respected, every row settled |
| Redis transport and ingress bridges (`transport/redis_streams.py`, `workers/inbox_ingress.py`) | the stream, group cursor, pending list | XREADGROUP, XAUTOCLAIM, insert-or-ignore, XACK | lost deliveries, crash between commit and ack, malformed entries | nothing acknowledged before it is stored |
| Inbox consumers (`workers/inbox_consumer.py`, `repositories/inbox.py`, `operational_effects.py`) | `inbox_messages`, effects | claim, handle, settle | the lease runs out while a handler runs | effect exactly with the processed status |
| Evidence workers (`workers/evidence.py`, `repositories/evidence_work.py`) | `evidence_requests`, packages, artifacts | expire, recover, promote, claim, process, finalize | one clock value per cycle, crash between upload and package, recovery of a live claim | one package per request, the state machine is followed, every request resolved |
| Configuration (`domain/configuration/service.py`, `state_machine.py`) | versions, entities, the published pointer | create, clone, edit, validate, publish | READ COMMITTED transactions that check unlocked rows | pointer, chain of replaced versions and published event agree |
| Media (`media_upload.py`, `media_lifecycle.py`, `idempotency.py`, `media_cleanup.py`) | media records, idempotency keys, stored bytes | initiate, complete, verify, abort, delete; four sweeps | no transaction spans the database and the storage | a record never claims what its bytes do not bear out, and is settled |
| Frame pipeline (`intelligence/pipeline.py`, `sources/`) | the bounded queue, two tasks | read, put, get, shutdown, cancel, reconnect | wake-ups, cancellation in any await, full queue | every frame accounted for, the outcome truthful, the run ends |
| Detectors and tracking (`intelligence/detectors`, `tracking`) | device and model, tracks told of, last frame | load, detect, update, close | frames dropped, dated by two clocks, lost by the backend | what is told of a track is one story, on the device that was selected |
| Spatial and geometry (`intelligence/spatial`, `geometry`) | previous position of a track | privacy, exclusion, zone, table, region, line crossing | the order of the passes, borders, orientation of rings | what validates evaluates, privacy is supreme, crossings balance |
| Configuration validation (`domain/configuration/validation`, `hydration.py`) | none | passes over references, geometry, cameras | what a pass lets through is used as if it had been checked | regions mean what they declare |
| Temporal machines (`intelligence/temporal`) | per-track and per-zone machines with watermarks | presence, dwell, occupancy, movement, waiting | reordered and late observations, gaps, restarts from a checkpoint | facts agree with each other |
| Rules (`intelligence/rules`) | none between calls; ids are derived | evaluate facts into events and evidence requests | identity of an event under replay | same facts, same events; no episode loses its event |
| Evidence sources, packages, retention (`domain/evidence`, `infrastructure/evidence`, `application/services/evidence_retention.py`) | objects, package, lifecycle of the row | resolve, extract, upload, package, verify, delete | late uploads, failed puts, recordings that come and go | bytes, keys, packages, provenance and deadlines stay together |
| Live sessions (`application/services/live_session.py`) | session rows | state transitions | it cannot run (section 6) | - |

`PROJECT.json` lists every component, also those without protocol state, with
what is modelled of each.

## 2. The modules

Every module is one component; an `MC*` module stands where a constant needs a
definition, and gives constants their values. A module's variables are the tables and the memory of its processes; every
database transaction (or SQL statement, where transactions overlap) and every
call to Redis or the object store is one action, because other processes can
act between any two of them.

**`Backoff`, `LeasedRows`** are shared by the tables that are worked off under a
lease: the exponential delay with jitter, which rows are due (`Due`, the WHERE
of `claim_next`), what a claim and a release write. Time is relative: a
timestamp is the time that is left, and `Tick` ages every row.

**`OutboxPublisher`**: `outbox[e]` is the row of event `e`; `pub[p]` a worker's
program counter, its incarnation (a restart gets a new worker id) and the batch
it holds in memory with the attempts it read. Persist, ClaimNext, Publish (XADD,
whose reply may be lost and which redis-py may itself repeat), MarkPublished,
ScheduleRetry, DeadLetter, DatabaseError, Crash, Stop, Start, Overrun. ClaimNext
takes a clock value up to `MaxLag` old, because `run_once` reads the clock before
it waits for a connection.

**`InboxIngress`**: the consumer group is a cursor and a pending list with idle
times. XAUTOCLAIM's reply has a shape the code does not parse; the model does
what the code does, it raises (finding `ingress_stuck`).

**`InboxConsumer`**: effect and settling UPDATE are one transaction; the run of
the handler before it is a step of its own, in which the lease can run out.
`Registered` are the types a handler is registered for.

**`ExactlyOnceEffect`, `EventDelivery`**: the abstract promise (an event's effect
happens at most once, after its commit, never after it was given up), and the
composition of persistence, publisher, bridge and consumer over one stream,
with the refinement mapping.

**`OperationalPersistence`**: the transaction of four rows, statement by
statement, with waits for uncommitted unique keys and the savepoint that turns
a conflict into a replay.

**`EvidenceWork`**: the cycle expire, recover, promote, claim, process, settle,
finalize over leases and backoff. `age` is how old the cycle's one clock value is; `works`
whether the store's guarded statements work or raise, as those of the code do.

**`ObjectStorage`, `EvidenceSources`, `EvidencePackages`, `EvidenceArtifacts`** are the
other half of the worker: what its steps do to bytes. `ObjectStorage` is the bucket as
the S3 adapter shows it, with a put that fails before, after or half way and cleans
up what has the wrong size. `EvidenceSources` resolves a request to recordings and
makes one extraction of them, with the id and the key derived from it;
`EvidencePackages` is the manifest, its verification against a rule event, and
retention. `EvidenceArtifacts` composes them: recordings are registered, break and
expire while workers resolve, extract, upload, checkpoint and finalize; then days
pass and retention deletes in two phases. A lease is over when its owner is gone
or, as a fault, at any time, because `EvidenceWork` has the leases.

**`ConfigurationLifecycle`**: every request is a READ COMMITTED transaction and a
step one statement; `Proceed` runs one on, `Contend` takes a lock when it is free.

**`Geometry`, `ConfigurationValidation`, `SpatialEngine`, `SpatialTracking`**: points
are on an integer grid of `Unit` to the image; the side of a line, the place of a point
and the clipped area of two polygons are computed exactly, as the code does with a
tolerance. `ConfigurationValidation` is the engine's passes over a content (a set of
entities of eight kinds) as sets of findings; `SpatialEngine` hydrates a content and
evaluates a point (privacy, exclusion, zones, tables, in that order), a region and a
movement over a line. `SpatialTracking` validates and publishes a content and follows
a track over it.

**`MediaLifecycle`**: `Served(r)` are the steps of a request, `Cleaned(w)` those of
the clean-up worker, whose sweeps act on records it listed in an earlier
transaction. The numbers of media are the order of their object keys, `Temporary` those whose
key is in `temporary/`, where alone the orphan sweep looks.

**`FramePipeline`**: a step is what a task does between two awaits that suspend
it; the kind of source and the full policy are chosen in `Init`. A call of the source may
also never return (`NeverReturns`).

**`Detection`, `Tracking`, `VisionPipeline`**: the registry, the device, the loading and
the translation of a detector; the adapter of the tracker. `VisionPipeline` makes them
the consumer of the frame pipeline, as `src/tests/unit/test_vertical_slice_e2e.py:347-383`
does; one `ConsumeFrame` is `detect` and `update`, which contain no await that
suspends. What the model returns and which of its tracks the backend lists are
chosen freely; `clock` is the event time of each frame, by the clock of the camera or
that of the server (`rtsp.py:298`).

**`TemporalEngines`, `TemporalFacts`**: the first holds the machines of
`intelligence/temporal` as functions from a state and an observation to a state, the
second feeds them. `Observe` is one observation of a track: `presence[k]` takes it, and
the transition it returns goes to the track's dwell and waiting machines and to
the occupancy of the zone, its displacement through movement and classification
to waiting. The back end has no code yet that does this wiring; it is taken from
the docstrings (`dwell.py:57-67`, `waiting.py:86-104`) and from
`src/tests/unit/test_vertical_slice_occupancy.py:338-361`. A machine that raises keeps its
state and does not stop the others; an observation that presence rejects as late
reaches none of them. Position (event time and frame) is one integer, as a camera
has one frame per instant; times are relative to the newest observation and
those older than `Horizon` are all the same. Machines of one track never read those of
another, so all of them are followed for the tracks of `Timed` only, and presence for
all `Tracks`, because they share the zone. `missed` is a history variable: the tracks
whose last confirmation came to the zone out of order.

**`TemporalIntervals`, `RuleEvaluators`, `RuleEngine`, `RuleEvents`**: the facts the
machines emit under their keys (an id is the tuple it is derived from); each
evaluator as an operator from a fact to a match; registry, engine, evidence request
and linkage. `RuleEvents` is a process that applies observations, evaluates all
rules on all facts, stores what matches one per id, saves checkpoints, crashes and
applies again from the last one.

**`OutboxPublisherProofs`, `OperationalPersistenceProofs`, `EventDeliveryProofs`,
`EvidenceProofs`, `ConfigurationProofs`, `MediaLifecycleProofs`, `VisionPipelineProofs`,
`TemporalProofs`** hold the theorems (section 4). `EventDeliveryProofs` takes the lemmas of
`OutboxPublisherProofs` for the publishers of the pipeline. `EvidenceProofs` is about `EvidenceWork`
and `EvidenceArtifacts`, `ConfigurationProofs` about `ConfigurationLifecycle` and
`SpatialTracking`, `TemporalProofs` about `TemporalFacts` and `RuleEvents`: two components of one
chapter of the system, whose specifications have names of their own for that (`ArtifactsSpec`,
`SpatialSpec`, `TemporalSpec`).

## 3. The runs

| run | question | bounds and why they are enough |
|---|---|---|
| `outbox` | do two publishers corrupt a row, its owner or its budget? | 2 events, 2 workers, lease 2, 2 attempts, 1 fault, clock lag 1: the smallest instance in which a lease expires in mid-batch, is taken over with a stale clock, and the old owner comes back after its budget is spent |
| `ingress_stuck` | is a stuck entry redelivered? | violated, see findings |
| `delivery` | does the pipeline implement exactly-once effect? | 1 event through every component, with a malformed and an unknown entry of others on the stream, 1 publisher, 1 bridge, 2 consumers, 1 fault anywhere |
| `persist` | do racing producers write all rows or none? | 2 events, 3 producers, 2 aborts: two wait for the key the third holds |
| `evidence` | is a request packaged once, and is it resolved in the end, or stuck for good where the store's statements raise? | both stores, 1 request, 2 workers, a cycle up to 3 units long against a lease of 2, 2 faults |
| `packages` | do bytes, keys, packages, provenance and deadlines stay together? | 2 requests, one by camera over an interval two recordings cover together, one by asset for an instant; 4 recordings (one that only touches the interval, one of another venue), 2 workers, 2 attempts, 2 faults, 1 day, which is what the default class is kept; symmetric workers |
| `configuration` | do pointer, chain and event agree when requests overlap? | 2 requests at a time, 2 versions, 1 entity |
| `spatial` | does what validates evaluate, is what is private told as nothing else, do crossings balance? | contents of a camera, a zone, two tables, a queue, an entrance and two regions in some 150 variants, sound and broken; a track of 3 positions on a grid with points inside, outside and on the borders |
| `media` | does a record ever claim what its bytes do not bear out, are bytes erased that somebody may want, is what has begun settled? | 2 media, of which 1 can be on hold and the other is in `temporary/`, 2 requests, 1 worker, 1 key, so that one record at a time is registered, 1 crash; records of different media meet only in the batches of a sweep, and `Owed` says how far these reach. `EverythingIsSettled` was also checked once where they compete (`Keys = {k1, k2}`, `Requests = {r1}`, `Held = {}`, `BatchSize = 1`, `MaxCrashes = 0`): 821,345 states, too slow to be a run |
| `frames` | is every frame accounted for, is what is told of tracks one story, does the run end, unless its source hangs? | 3 frames, a queue of 1, 1 reconnection, 2 decode errors, both sources and policies; 2 tracks (told, lost, ended, and a second meanwhile); five kinds of equipment, of which one works; two devices; a clock that is 2 frames ahead of the camera's, so that it goes back |
| `temporal` | do a track's machines and the zone agree under repeated, reordered and late observations? | 2 tracks (1 with all its machines), a reordering window of 1 in a horizon of 2, so that an observation can be reordered for one machine and late for another; confirmations of 2, all thresholds at least 1 so that each one can hold back a transition |
| `rules` | does a replay give the same events, and does every episode keep its own? | 2 tracks, 4 observations in 3 instants, 1 crash, thresholds of 1 or 0 so that a visit, a wait, an exit and a return fit; one configuration in order and one of useless values |

The properties one run checks are often conjunctions of named parts:
`PublicationsAreSerial` (`PointerIsLatest`, `ReplacementChain`, `PublishedOnce`), `RunIsTruthful`
(`ReturnTellsTruth`, `NothingLeftOpen`), `ObservationsAreSound` (`TracksAreWhole`, `DeviceIsStable`).
The type invariants (`TypeOK`, `EvTypeOK`, `CfgTypeOK`, `MediaTypeOK`, `FrameTypeOK`) are in the modules
and proved (`TypeCorrect`). `InboxIngress` and `InboxConsumer` are checked as parts of
`delivery`, whose refinement says more than their own invariants would.

Deadlock is checked in all of them but `media` (when everything is deleted
nothing is left to do), `rules`, `spatial` and `packages` (the log, the path and the
days are over).

### Fairness

* Workers: weak fairness of each worker's progress and of time. `run_forever`
  (`workers/base.py:33-49`) polls again after every exception; faults are
  bounded, so eventually none happens.
* `OperationalPersistence`, `ConfigurationLifecycle`: weak fairness for a
  statement, strong for one that waits for a lock: PostgreSQL's lock queues
  are first come, first served.
* `InboxIngress`: strong fairness of "finds nothing stuck" for new entries:
  while reclaiming fails, a cycle raises before it reads new ones; between two
  idle periods of the stuck entries it does not.
* `MediaLifecycle`: strong fairness of requests and of the worker, weak of a
  record's settling; a storage call that is repeated at every cycle eventually
  succeeds (`Stored`), and an object that is left over grows older than its grace, since
  a presigned PUT runs out (`Erased`).
* `FramePipeline`, `VisionPipeline`: weak fairness of the tasks on the event loop; `consume()`
  returns or raises. A call of the source returns or never returns, by its own choice; of
  `open()` and `aclose()` not even that is assumed.
* `TemporalFacts`, `RuleEvents`, `SpatialTracking`, `EvidenceArtifacts`: none, their
  properties are safety properties.

## 4. What is proved

Each theorem below holds for every value of the constants that satisfies the named
assumptions of its module: any number of rows, processes, attempts, frames, tracks,
and any bound. Each rests on an inductive invariant, which is stronger than what it
says of the system; what had to be added, and why, is the substance of the proof.
What a fold, a sum or a count computes takes an induction over data, which is done by
hand, on a least counterexample.

| module | theorem | states |
|---|---|---|
| `OutboxPublisherProofs` | `TypeCorrect`, `LeasesAreExclusive`, `OwnersSettle`, `TerminalRowsAreFinal`, `PublishedMeansSent`, `CommittedBeforeSent`, `BurialSpendsBudget` | `TypeOK`, `LeaseIsExclusive`, `OnlyOwnerSettles`, `TerminalIsFinal`, `PublishedWasSent`, `SentWasPersisted`, `BudgetSpentBeforeBurial` |
| `OperationalPersistenceProofs` | `TypeCorrect`, `RowsStandTogether`, `CommitsNeverCollide` | `TypeOK`, `AllOrNothing`, and that no COMMIT meets a duplicate |
| `EventDeliveryProofs` | `NothingIsLost`, `ExactlyOnce` | `PublishedIsInFlight`, `ImplementsExactlyOnce` |
| `EvidenceProofs` | `TypeCorrect`, `OnePackage`, `MovesAreRightful`, `DeletionsAreDue` | `EvTypeOK`, `OnePackagePerRequest`, `RightfulMoves`, `DeletionIsDue` |
| | `KeysDetermineBytes`, `PackagesHaveBytes`, `SuccessIsComplete`, `ProvenanceIsExact` | `KeyDeterminesBytes`, `AccessibleHasItsBytes`, `SuccessCoversRequest`, `VerifiesItsEventOnly` |
| `ConfigurationProofs` | `TypeCorrect`, `SerialPublications`, `LifecycleIsFollowed` | `CfgTypeOK`, `PublicationsAreSerial`, `FollowsLifecycle` |
| | `PrivacyComesFirst`, `CrossingsAreBalanced`, `ValidationIsSound` | `PrivacyIsSupreme`, `CrossingsBalance`, `ValidatedEvaluates` |
| `MediaLifecycleProofs` | `TypeCorrect`, `OneMedia`, `LifecycleIsFollowed`, `BytesStay` | `MediaTypeOK`, `OneMediaPerKey`, `FollowsMediaLifecycle`, `BytesAreKept` |
| `VisionPipelineProofs` | `TypeCorrect`, `FramesKeepTheirOrder`, `VisionKeepsTheirOrder`, `NothingGoesOn`, `RunTellsTheTruth`, `ObservationsStaySound` | `FrameTypeOK`, `FramesAccounted` (of either consumer), `NothingLeftOpen`, `RunIsTruthful`, `ObservationsAreSound` |
| `TemporalProofs` | `MachinesAlwaysAgree`, `CountIsRight` | `MachinesAgree`, `CountsWhoIsPresent` |
| | `EventsAreLinked`, `ReplayIsIdempotent`, `NoEpisodeIsLost`, `OpenWhenReported`, `CleanFactsAreEmitted` | `LinkedToItsRequest`, `ReplayAddsNothing`, `EpisodesKeepTheirEvents`, `ReportedWhileOpen`, `MachinesEmitCleanFacts` |

**Outbox.** Assumed: positive lease, budget and batch size, and a clock lag below the
lease (`LeaseAssumption`, `OutboxAssumption`). The type invariant alone is not inductive:
between the XADD of an item and its transaction the worker's current item must be an event
(`CurIsEvent`), so `TInv` is their conjunction. Exclusive leases follow from `TInv` and from the
claim's guard: a row is due only if its lease is over by the (late) clock, and a late
clock sees more of a lease than is left, never less. That only the owner settles rests
on the identity of incarnations: a restarted worker has an id no row carries. "Published
means sent" needs what the worker remembers: an item at `mark` is in the stream. "Burial
spends budget" needs that the attempts a worker holds in memory never exceed those of
the row.

**Persistence.** A producer inserts rows it has not committed, so "all or none" of the
committed rows needs to know what open transactions hold: `KeysAreHeld`, no two of them have
inserted the same key, and none of it is committed yet. It is what the unique indexes
enforce by making the second one wait.

**Delivery.** The refinement is proved step by step (`ExactlyOnce`): every step of the four
components is a commit, an effect, a surrender or a stutter of `ExactlyOnceEffect`. The invariant
(`DeliveryInv`) is a chain: what the publisher sent was committed (from `OutboxPublisherProofs`), every
entry of the stream that was read is stored, pending or malformed (`RelayInv`), and a consumer that
is about to settle has run its handler for the row it read (`ConsumerInv`). Assumed besides the
components' own assumptions: the value that stands for no owner is no event
(`DeliveryAssumption`).

**Evidence.** `OnePackagePerRequest` holds because a package is inserted by the transaction of the
transition to finalized, which is guarded by owner and state; what a worker has in hand
at each point of its cycle (`Hand`) makes it inductive, in a store whose statements work and in one where they raise (`works`).
`DeletionIsDue` is about `EvidenceArtifacts`: the deadline and the hold of a row do not change while a
deletion is under way (`RetentionInv`), though workers rewrite the same rows at every step;
`ArtifactsAssumption` says that an actual term has a duration and that "held" is no term.

**Packages.** A key does not name the recordings an artifact was cut from, nor the attempt. It
tells the request and, of what was resolved, the first recording and where it begins, and the
extractor opens no other; so the key tells the bytes (`KeysTellBytes`), whichever recordings have come
or gone since. `ArtifactInv` says that whatever a worker has in hand, a row names or was ever put is
such an artifact (`Contents`), that the owner of a row that is uploading holds what the row says
(`Custody`), and that the bytes of every package, and of every artifact whose owner is about to finalize
it, are in the bucket or known to be spoiled (`Kept`). Coverage is a fold over a sorted list of
recordings. Its facts (`Coverage`, `ChronicleIs`) are proved for the least length, or the least
number of recordings, at which they could fail (`LeastNatural`), since the theorems on induction cannot be used.
Assumed: there are finitely many recordings, each with its own asset and limits that are instants
(`RecordingsAssumption`), and requests carry the links that linkage made for their event
(`LinksAssumption`); a caller of the service that passes parameters of its own, with a camera the
event does not name, is outside of it.

**Configuration.** Requests are transactions of several statements that check rows they have
not locked. `Sound` says of each what no other commit can have taken away since it looked, and
`Apart` of any two what they cannot both be about to do; with them the pointer, the chain and
the announcements agree at every commit (`SerialPublications`), for both values of `ResultStored`.
`PrivacyComesFirst` follows the passes of `evaluate_spatial` over arbitrary regions and geometries: what
was seen last is what one profile makes of the last point (`SightInv`), and a pass that finds no
region has them all outside. `CrossingsAreBalanced` keeps that what is recorded of a line is its
verdict on each movement of the track in turn (`CrossingsInv`), and counts those from one side to the
other on a least counterexample (`StepsBalance`); coordinates may be any. Its hypothesis that a
change of sides passes between the ends is needed, for who walks round the end of a line does not cross
it: the line of the instance ends among the positions for that.
`ValidationIsSound` derives from the absence of errors what the engine asks again (`Sane`): references
that exist, geometries of the kind, and polygons of three points. The validator asks of a polygon only
that its area is not 0; that there are three points then (`AreaHasCorners`) holds since a closed ring
of two points goes from one to the other as often as it comes back (`StepsBalance` once more), so that
its sum, in whatever order it is taken (`SumIs`), is 0. Assumed: ids are numbers, coordinates are on the
grid, a session is in one of the two spaces, and an error is not the absence of one.

**Media.** Storage is called outside of transactions, so what an actor has seen there may be
old when it commits. Two facts make up for it: a row that a request holds keeps its state
(`Respects`), and no bytes appear any more under a key whose upload was completed (`Lawful`). What
each request and each sweep knows of its record at each step is `Requested` and `Cleaning`. The age
of records is the relation `order`, of which the invariant says that it is total.

**Frames.** The order of the frames is followed from place to place (`InOrder`): consumed, in
hand of the consumer, queued, in hand of the producer, each before all of the next; `Lossless`
adds them up. `Phases` and `Results` say what the tasks and the queue are like at each point of
`run()`, including cancellation. `RunTellsTheTruth` has the hypothesis `"closed" \notin Failures`: a consumer
that raises the queue's own error is taken for the end of the stream (section 5), and
`RunIsTruthful` is false then.

**Tracks.** As long as the consumer has not ended, those the tracker has seen, those the backend follows
and those that were told of the last frame are the same, in the class the tracker remembers, and
whoever was told to have ended has an id that is not given out again (`OneStory`). A translation that
fails leaves no such state, but it ends the consumer (`AliveBefore`). What a frame makes of the
targets is a fold over their list: `Carried` is what is known after some of them, proved for the
least number of targets at which it could fail (`LeastNatural`). `ObservationsStaySound` has the hypothesis
`AllowClassSwitch = FALSE`, the default: with the option a track may change its class.

**Temporal machines.** An invariant of one machine alone is of no use: that dwell is never
asked for a transition it does not have depends on what presence tells it. `Agrees` says of all
machines of a track how they stand to its presence and to each other's watermark, and `Tells`
what an event says of the presence before and after; each machine has a lemma of its own
(`PresenceStep`, `DwellStep`, `WaitingStep`, `ZoneStep`). Ageing, which shifts all times when a newer
observation comes, preserves it (`AgreeAged`).

**Rules.** An id is made of the rule, the track and some times, and when an interval began is not in every
id. What keeps two episodes apart is that a track has one machine of a kind at a time, which no
state says by itself: the log is a history. So the invariant (`History`) is about the past: `h[i]`, the machines after `i`
observations of the log; `M[k, t]` and `P[k, t]`, those of track `k` as of time `t` and just before. Machines of the past
are those recorded for their time (`Recorded`), each observation led to the next machines and all its events are
stored (`Led`), and a signal about an interval is the one these machines tell (`Told`). A replay runs over the same log
at another processing time, on which no id depends (`AgainTheSame`, `IdsOf`). Assumed: `None` is
no session, configuration, track or reason for a loss and not `"ended"` (`RuleEventsAssumption`), nor an error of
an input (`InputErrorAssumption`).

**Quality of facts.** Of every fact but a transition it is proved what the checks ask for (`Faultless`), from what
the machines agree on: a dwell and a wait begin no later than they were last seen (`Agrees`, `Waited`), what
closes them is newer (`Advances`), and the zone is finite (`ZoneStaysFinite`), so that its count is a number. The
hypothesis `KnowsItsZone` is that a configuration that names the contexts it knows knows the zone of the
session; under one that does not, every fact is rightly reported.

What stays with TLC:

* Liveness (`EventuallySettled`, `EventuallyDelivered`, `PersistReturns`, `ResolvedOrStuck`, `EveryRequestEnds`,
  `EverythingIsSettled`, `RunEnds`): fairness and ENABLED are out of the prover's reach.

## 5. Findings

Disagreements between the code and what the repository says of it that a run
shows:

* `ingress_stuck`: `claim_stuck` (`transport/redis_streams.py:177`) parses the flat
  XAUTOCLAIM reply as the nested one of XREADGROUP; an entry that needs
  redelivery never gets it.

Others met while modelling. Where a passing property has to make room for one of them, it
names it as an exception, and the line says which; `ResultStored` is the one constant by which
a run assumes a repaired statement:

* `repositories/evidence_work.py:369` and `405` (and `evidence_linkage.py:63-65`) call
  `values(metadata=...)`, which SQLAlchemy rejects for a column whose attribute has
  another name. No request that a worker takes up is ever resolved, against the second
  invariant of `src/tests/unit/test_evidence_worker.py`, whose fake store keeps the protocol.
  `EvidenceWork` has both stores (`works`, settled by the initial state): `ResolvedOrStuck`
  says that one resolves every request and that in the other, which is the code, a request
  stays in extracting for good.
* `domain/configuration/service.py:417` stores a validation verdict in a column the
  table does not have; the run takes `ResultStored = TRUE`.
* `operational_persistence.py:78` names constraints no migration creates, so that a
  second event of one fact raises instead of being recognised.
* `_fail_stale_upload` (`workers/media_cleanup.py:237`) deletes the object and only then tries
  the guarded transition to failed: a completion that comes in between is
  committed and its bytes are gone, which `media_lifecycle.py:475-477` says must not
  happen. It is the exception in `BytesAreKept`; the record is found again by the sweep of missing
  objects, as far as that reaches (`EverythingIsSettled`).
* An exit that reaches the zone out of order is not applied: the track stays
  counted until its next confirmation, and if that is an entry it raises.
  `occupancy.py:60-68` documents the lost entry only. `CountsWhoIsPresent` excepts such a
  track (`missed`) and shows that the error lasts no longer. A closure at the
  position of the last observation is taken for a duplicate of it.
* A checkpoint of presence that is newer than that of dwell turns the entry it
  holds into a `stay` for dwell on replay (`dwell.py:138-149`): the machines of a track must be
  checkpointed together.
* A rejected completion or verification marks the record failed and raises in
  the same transaction, which undoes the mark (`media_lifecycle.py:538-539`), likewise
  the note "record stays DELETION_PENDING" (`828-829`).
* The sweep of missing objects lists the oldest records and does not touch those it found
  healthy, so a record with a batch of healthy older ones before it is never looked at
  (`repositories/media.py:209-228`), though `media_cleanup.py:13-17` says a missing object never
  stays available. Records on hold fill the batch of the sweep of expired ones in the same way.
  `EverythingIsSettled` promises a verdict only where neither can happen (`Owed`).
* The orphan sweep looks at `temporary/` only, and at the first page of keys (`media_cleanup.py:20-23,
  357-359`): what a late PUT or a failed clean-up leaves of a recording, or of any other
  category, stays for good. `Owed` asks nothing for it.
* After its consumer failed, `FramePipeline.run` waits for a producer nobody cancels
  (`pipeline.py:110-114`; lines 92-94 say the sibling is cancelled): if the source is in a call that
  never returns, and reads and connections have no timeout (`rtsp.py:207-280`), the failure is never
  reported. `NeverReturns` is that call, and the exception in `RunEnds`. A consumer's own `QueueClosedError` is taken for the end of the stream
  (`181-183`): with `"closed"` among `Failures`, `ReturnTellsTruth` fails.
* `workers/outbox_publisher.py:169` compares the budget only after a failed
  publish, so lost leases let attempts grow past it; nothing raises
  `NonRetryableError`; `inbox_consumer.py:284` starts a consumer without the handlers of
  `operational_effects.py:67-69`.
* `workers/evidence.py:772`: an audit insert that fails inside the transaction of the
  transition is swallowed; on PostgreSQL that transaction is aborted all the same.
* Two edits of a draft delete the rows each of them saw and insert their own
  (`repositories/configuration.py:524`), so a version may end with the union; an edit looks
  at the status of an unlocked row (`service.py:277`), so it may write after a validation or a
  publication that read the old rows.
* `classification.py:293` updates its state by `model_copy`, which runs no validator.

Detection and tracking:

* The adapter takes a track that is not in the backend's output for evicted
  (`bytetrack_adapter.py:456-462`). If a backend leaves out tracks that are only lost, they
  end and come back under the same id; here what is left out is gone.
* After `close()` a fresh backend gives its ids from the start, and `track_uuid` depends on
  session and local id alone (`tracking/base.py:70`): a new object of the session may get the
  id of an old one. `TracksAreWhole` is about the frames of one run.
* `_resolve_event_time` (`rtsp.py:298`) falls back to the clock of the server frame by frame:
  the time can go back, which ends the run with a `TrackOrderError`. A per-frame
  `InferenceError`, "non-fatal" (`yolo_adapter.py:419`), ends it as well, since nothing
  between consumer and pipeline catches it.
* The policy asks a detector for its device before that has loaded (`policy.py:190-208`): the
  first frame may be looked at by another device; `DeviceIsStable` holds from then on.
* A frame that fails in the middle of its targets leaves those before as seen; no track is
  ended that was not told only because the run is over (`TracksAreWhole`).

Spatial and validation:

* A reference is looked up among the ids of all kinds (`validators.py:149`): a camera may
  "detect" a table, a zone contain an area; the engine then reports a broken reference
  (`Misused` in `ValidatedEvaluates`).
* An entrance may be a polygon for validation and must be a line for the engine.
* `_resolve_camera` (`engine.py:255`) takes the first profile that names the physical camera, of a
  list read without ORDER BY (`hydration.py:67-77`), and nothing forbids two: what one of them
  holds private is told by the other. `engine.py:52-53` says that results never depend on
  database ordering. `OrderDoesNotMatter` fails in a configuration with two profiles; the attempt to
  prove `PrivacyIsSupreme` for one found it, and that property is about what all profiles declare.
* The clipping assumes rings drawn counter-clockwise: of a clockwise one it keeps nothing,
  so two tables on each other pass (`spatial.py:107`).
* Containment looks at the vertices of the inner region only (`spatial.py:187-193`): an area may leave
  a concave zone it is said to be in. No property says that regions mean what validation says of
  them, since of clockwise and of concave ones that is false.
* That a table lies in its zone is not checked; nor is the placement of a camera. A
  version without cameras validates and is published, but cannot be hydrated.
* A movement that ends on a line and one that goes on from there are no crossing
  (`transitions.py:285`), the reason for the condition in `CrossingsBalance`.

Rules:

* A transition has no `policy_revision`, so `data_quality` reports every one of them, which
  its "all applicable checks pass: NO_MATCH" denies: `CleanFactsAreQuiet` fails where
  `MachinesEmitCleanFacts`, which excepts transitions, holds.
* Occupancy that ends and starts in one instant, and the quality of several facts of one
  instant, share an id (`EpisodesKeepTheirEvents`); a threshold event repeats with every fact
  of its interval.
* `build_operational_engine(rule_version="v2")` registers the queue rule twice; `enabled`
  and cooldowns are enforced nowhere.

Evidence:

* `delete_expired` deletes `ref.ref_uri`, the place of the request, not the artifact's key,
  and deleting what is not there succeeds: the row is deleted and the bytes stay.
  `AccessibleHasItsBytes` asks nothing of such a row, so that it also holds of a
  retention that deletes the right key.
  Nothing in `src/` calls it, and `update_ref_retention_for_actor` raises, so no class or
  hold can be set. `DeletionIsDue` is about which rows it would take.
* A put of the wrong size deletes what is at the key (`s3_adapter.py:474`), also what an
  earlier attempt had stored well (`spoiled` in `AccessibleHasItsBytes`).
  `FakeStorageAdapter` verifies before it stores, so no test can see it.
* Of several recordings only the first is opened (`object_storage_extractor.py:152`): one that
  only touches the start of the interval sorts first, gives nothing, and the request
  is retried until it is dead, though another covers it all.
* A link that does not apply does not pass (`provenance.py:390`), so a package of an event
  without camera or frames never verifies (`Complete` in `VerifiesItsEventOnly`); some
  links are compared with themselves.
* Recovery of a crashed extraction ignores the budget of attempts; a request that is
  processed before its recording is registered fails for good.

## 6. What is not modelled

Audit rows, logs and metrics; the content of messages, frames and
configurations beyond what decides control; `_main` wiring; authentication and
tenancy but for who may read or delete evidence; presigned URLs, multipart part numbers
and downloads; batches of frames, the fake detector and statistics; numeric
tolerances and the cache of prepared shapes; the temporal fields that are only
reported (`last_seen`, `missing_since`, the occlusion state, the history of
transitions) and the validation of keys and provenance; severity and wording of events; an
autoflush that reorders the statements of an evidence transaction; NULL processing
states. Numbers of attempts, faults, crashes, aborts, frames and versions are bounded
by the constants named in each module.

Live sessions are left out because they cannot run as they stand: the states they
write are not in the enumeration of migration 005 (line 211), the table of their
transitions is in no migration, and the routes read `actor.user_id`, which an actor
does not have. A model of them would have to invent the repair.

The read side, observability, the desktop application, scripts and deployment keep
no state another component depends on.

## 7. What is left

1. `TemporalFacts`: a restart from checkpoints taken at different times.
2. Two requests in one evidence batch, and two media in one sweep, on larger instances.
3. Detection in batches, and the restart of a run with a tracker that was closed.
