# Verification of the geo service

TLA+ models of the geo service, the TLC runs that check them on small instances, and TLAPS proofs for every value of the constants. Paths below are relative to the repository root, and Go files without a prefix are under `internal/`; `PROJECT.json` maps each definition to the lines it models.

## 1. Inventory

**Parts.** The service takes vessel positions from AIS receivers (NMEA over TCP/UDP, AISStream), GSM trackers (GT06), a port-community (PCS) table and a mobile app. Every position goes through `HandlePosition` (`connectors/pipeline.go`): validate, quarantine or deduplicate, store, evaluate zones, publish a signed envelope, notify live subscribers. `HandleStatic` does the same for vessel static data. Beside them stand the fence engine with ENTER/DWELL/EXIT (`fence`, `connectors/fencev2.go`) and the fence registry (`store/fences.go`, `api/geo_v2.go`), the app's outbox and distress alerts (`connectors/appreports.go`, `store/app.go`), the safety registers (`store/safety.go`, `api/safety.go`: inspections, SAR, investigations), the emissions (MRV) workflow with its calculations and outbox (`mrv`), the device registry with firmware (`devices`), the transit registry and GTFS feeds (`store/transit.go`, `gtfs`, `gtfsrt`), the live hub (`realtime`) and read-only queries.

**State.** PostgreSQL (every register above); Redis (dedup keys with a window, zone membership with a 24 h expiry); Kafka topics; process memory (tracker fixes, fence engine, cached fences, hub subscribers), lost at a restart.

**Hard behaviours.** Goroutines of several receivers handle reports of one vessel at once, in any order, with copies. A handler makes five to ten external calls without a common transaction; any can fail, or succeed and report a failure, and the process can stop between two. Redis keys expire in between. Phones resend. Two people act on one record at once, in READ COMMITTED transactions whose timestamp is their start and not the order of their locks. A slow subscriber, a shutdown and a publisher meet in the hub.

**What should hold.** Section 3 lists it run by run. The hazards behind it, each at its line, are in `PROJECT.json`.

## 2. Modules

| Module | Code | State and actions |
|---|---|---|
| `Validate` | `validate` | `StaticChecks`, `vesselKey`, `Bifurcates` as operators on contract integers; `UnreadColumns` are those with a CHECK that no rule reads, and a report's `unfit` the ones whose CHECK it fails |
| `IngestPipeline` | `connectors/pipeline.go`, `dedup`, `store/store.go`, `store/geofence.go` | `call[w]` is the running `HandlePosition` of goroutine `w`; one action per external call (`Receive`, `Quarantine`, `Dedup`, `InsertPositions`, `UpsertLatestPosition`, `ReadMembership`, `ReplaceMembership`, `CommitCrossings`, `AnnounceCrossing`, `MirrorRaw`, `PublishPosition`, `ObserveAndBroadcast`), expiry of keys, `ApproveZone`, `Restart` |
| `VesselStatic` | `HandleStatic`, `store/static.go` | the versions of one vessel; a report locks the current row, closes it, opens the next and is published |
| `PcsImporter` | `connectors/pcs_ais.go` | `cursor`, `batch`, dedup `window`; `Poll`, `HandleRow`, `Expire`, `Restart` |
| `FenceRules`, `FenceEngine` | `fence/engine.go` | the fold of one report into one (vessel, fence) state; the engine over all pairs |
| `FenceStay` | abstract | a stay: out, in, dwelt; ENTER, at most one DWELL, EXIT |
| `FenceTrack` | history | the engine with the track of reports, to say when a DWELL is earned |
| `FenceIngest` | `connectors/fencev2.go`, `store/fences.go` | cached fences, evaluation under the mutex against the ring and dwell rule of each version in use, `Announce` then `Persist` outside it, new versions, retirement, restart |
| `FenceRegistry` | `store/fences.go`, `api/geo_v2.go`, `cmd/geo-service/zoneseed.go` | rows of `geofences`; create, new version (read, then write), retire, seeding at each start; `secured` says whether the row security of 0014 applies |
| `AppReports` | `connectors/appreports.go`, `store/app.go`, `api/server.go` | requests with `Serve`, `Insert`, `Compare`, `Handle`, `Publish`; `TransitionSOSAlert`, `PublishTransition`, `Crash` |
| `Investigation` | `store/safety.go` | evidence chain, findings, recommendations, decisions as overlapping transactions; a transaction's start is its `collected_at` |
| `SafetyRegisters` | `api/safety.go`, `store/safety.go` | one inspection, SAR incident or case with its deficiencies, taskings, communications and evidence: a request passes the handler's checks, locks, checks the ladder, writes, commits, and publishes where the handler does |
| `MrvWorkflow` | `mrv/service.go`, `ops.go`, `report.go`, `server.go` | ships, plans, fuel reports, annual reports, decisions and statements; a request is a snapshot, locks, a write and the outbox row of one transaction |
| `MrvVoyages` | `mrv/voyage.go`, `voyage_emissions.go` | voyages, time-proportional allocation of fuel, summary without overlaps |
| `MrvActivity` | `mrv/activity.go`, `cii.go` | AIS fixes, the estimate with the code's unit of distance and its whole seconds and minutes, the cross-check, the rating of a year |
| `MrvOutbox` | `mrv/outbox.go` | drains with SKIP LOCKED: poll, publish, mark, commit or roll back |
| `Devices` | `devices/store.go`, `api.go`, `verify.go` | provisioning and rotation requests, four-eyes decisions, activation, status, keys by epoch with grace; the verifier's two reads |
| `Firmware` | `devices` | releases ordered by the start of their transaction; a fetch reads device, key and releases in three statements |
| `Transit` | `store/transit.go`, `transit_seed.go`, `gtfs`, `gtfsrt`, `api/feeds.go` | the seed row by row, deletions, alerts; a feed build of seven queries; the archive and the realtime feeds |
| `Hub` | `realtime/hub.go`, `api/stream.go` | per-shard fan-out, queues, drop of a slow consumer, cancel, shutdown |
| `Requests` | | the first failing check of a handler |
| `MC*` | | small instances; `MCRegisters`, `MCFleet`, `MCPollers` compose several modules |
| `*Proofs` | | theorems and their lemmas, see section 4 |

The modules that `MCRegisters`, `MCFleet` and `MCPollers` compose share no state in the code. A behaviour of these runs is about one of them, which the variable `focus` names in the initial state; the others stay as they began. So the run explores the sum of the parts and not their product. Parts that do interact are in one module: the workflow with its outbox rows, the registry with the feeds, the keys with the verifier, the seed loader with the API.

Abstractions: geometry is an input (`Inside`, the `inside` of a report, for each fence version) or a line (`Transit`, `MrvActivity`); distance in the bifurcation test is the larger coordinate difference; hashes are the sequences they commit to, so they are injective; a batch, a page or a list of pending transitions is a set whose next element is its first in the order of the code; the listing of evidence is the order of `collected_at`, which no two items share, and the verification is stated of each item and the one listed before it; a signature's verdict is an input; tracing, metrics and wording are left out.

## 3. Runs

| Run | Instance | Shows |
|---|---|---|
| `IngestRace` | 2 goroutines, a frame, its copy and a later fix; 1 failing call; expiring keys | `DeliveryOrder`, `LatestCoversPublished`, `AnnouncedCrossingIsStored`, `OneRowPerWindow` |
| `IngestFaults` | 1 goroutine; a boat in, out and in again, a distant boat under the same tracker key, a report with two findings, a clean one with a malformed IMO number; 1 failure, 1 restart | `NoSilentDrop`, `RefusedOnlyUnread` (the table refuses a report that passed the filter only for a column no rule reads), `CrossingsExplainMembership` |
| `FenceDwell` | 1 vessel, 2 fences, all tracks of 4 reports, times 0..3, known and unknown speeds | `DwellExactlyEarned`, `ImplementsStays` |
| `FenceIngest` | 2 goroutines, 2 reports, 3 deliveries each, 3 versions with different rings and dwell rules; 1 failure, 1 restart | `PersistedWasAnnounced`, `NoDuplicateTransitions`, `RowsTellMembership` |
| `Registers` | app: 2 goroutines, 3 sends, 2 lifecycle steps, 2 failures | `AcceptedIsPublished`, `OneEnvelopePerOutbox`, `LifecycleAnnouncedOnce` |
| | investigation: 2 callers, 2 contents, 5 transactions | `OneRoot`, `ChainShowsTampering`, `RecordsFrozen` |
| | safety: 2 handlers, 2 people, 5 changes | `CheckedStillHolds` (what a handler checked under the lock holds when it commits), `TopicTellsPath` (the events tell the states the row went through) |
| | transit: 2 seed documents, 2 edits, builds at 2 moments | `ServedFeedCloses`, `RealtimeIsHonest` |
| | fences: 2 ids, 2 tenants, 2 administrators, 5 calls, with and without row security | `VersionsAreALine`, `SeedingIsIdempotent` |
| | hub: 2 streams, 2 publishers, 3 events, 2 shards, queues of 1 | `StreamHasNoHole` |
| `Fleet` | workflow: 2 callers, 2 people, 5 requests, 2 plans | `ReportingIsAnnounced`, `LedgerExplainsState`, `ConfirmedTogetherOverlapped` |
| | voyages: 3 voyages over 5 ticks, 2 overlapping fuel periods | `NoFuelCountedTwice` |
| | activity: 3 fixes at fractions of a second, all windows, two years' configuration | `EstimateFollowsMethod`, `RatingCountsBoundaries` |
| | devices: 1 device, 2 administrators' calls, 2 people, a verifier, 2 epochs | `OneCurrentKey`, `AcceptedWasUsable`, `GraceIsKept` |
| | firmware: 1 device, 2 overlapping fetches, 3 releases, 2 epochs | `OfferNeverOlder` |
| | static: 2 connectors, 4 reports, 3 times, 1 failure | `HistoryHoldsApplied` |
| `Pollers` | importer: 2 stamps x 2 vessels, batches of 2; 2 failures, 1 restart | `StoredOncePerReplay`, `EventuallyStored` |
| | outbox: 2 publishers, 3 rows, batches of 2; 2 failing drains | `DuplicatesAreRollbacks`, `EventuallyPublished` |
| `IngestAbsorbed` | violation | a failed report's redelivery is absorbed, no copy is stored |
| `AppExactReplay` | violation | an exact resend is answered 409, since the compared id is minted per request |
| `EvidenceChainRace` | violation | a chain nobody touched does not verify |
| `OneConfirmedPlan` | violation | two overlapping confirmations leave two CONFIRMED plans |
| `NewZonesAreSeeded` | violation | under row security the seed loader cannot create a zone |

**Bounds.** They are the smallest at which the cases meet: two goroutines for a race, two copies and a later report for dedup and the hot row, a tie group cut by the batch, a track long enough to enter, dwell, leave and re-enter, five transactions to append twice and walk a case on, three versions to lose a version race, three releases for two to commit out of order, three deliveries and three fence versions for a report to enter, leave and enter again at one time, four static reports for a late one between two applied, two plans for a confirmation race, queues of one so that the second event drops the consumer. Bounds on failures, calls and restarts are guards in the modules (`MaxFaults`, `MaxRequests`, ...); the proofs hold for all of them. Symmetry is used over goroutines and callers, in runs whose properties are invariants or boxed actions and never treat two of them differently. Deadlock checking is off: a bounded run ends.

**Row security.** In `Registers` both schemas are explored. With the policy of 0014 the start of the service fails at the first zone to seed, so all that follows in the registry happens under the schema of 0013 (or a role that bypasses the policy); `FenceIngest` assumes that fence versions exist.

**Fairness** appears in the two loops of `Pollers` only. `PcsImporter`: weak fairness of `Poll` (a ticker loop), `HandleRow` (every external call has a deadline) and `Expire` (Redis expiry). `MrvOutbox`: weak fairness of each publisher's next drain step (`Run` calls `Drain` at every tick). Failures and arrivals are not fair. The importer's part also assumes that rows appear in cursor order (`InOrder`), that an outage is shorter than the five-minute look-back, and that no poll falls inside the dedup window (`WindowOutlivesRetry = FALSE`: defaults 30 s and 15 s, batches shorter than a tick, restarts longer than the window). With either constant flipped `StoredOncePerReplay` is violated.

## 4. Proofs

TLAPS proves 32 of the 40 properties of the passing runs for every value of the constants: any number of goroutines, callers, reports, versions and events, and any bound on failures, restarts and requests. In each case the property alone is not inductive, and what has to be added is what the code relies on. TLC also checks each inductive invariant named here on the instance of its run.

**`IngestPipelineProofs`**
- `TypeCorrect`, and `CleanUnlessUnread`: a report without findings satisfies the CHECKs of the table exactly when the columns no rule reads do.
- `PublishedIsStored`, `LatestIsFresh`, `AnnouncedIsStored`. That a report about to be published is stored is known only from how far its call has come: `Progress(call[w])` says that past the insert the report has a row, past the upsert the hot row is at least as new, at the announcement the events are committed. Rows, hot rows and crossings only grow (`Grows`), so a step of one goroutine keeps the progress of the others.
- `RefusalsAreUnread`: a call past the filter carries a report without findings, so by `CleanUnlessUnread` the insert refuses nothing else.
- `NothingIsDropped` adds `Owed(call[w])`: each finding of the report in hand is on the quarantine topic or still on the call's list.
- `StoredOncePerWindow`: rows are counted together with the calls that were admitted and are about to insert (`WithinWindow`): both are covered by the openings of the window, one for each expiry or unanswered SETNX and one while the key is set. So two goroutines between SETNX and INSERT never share an opening.

**`FenceProofs`**
- `TypeCorrect` and `EngineImplementsStays`, from `FoldIsStay`: one report takes one pair of a vessel and a fence through one step of a stay. Fences may be retired and activated at will.
- `DwellsAreEarned`: a DWELL is emitted exactly when the track earned it. `PairInv` connects the four fields the engine keeps with the track: `slowSince` is the time of a report from which on every report was inside and none above the gate; while no DWELL was emitted, every run of slow reports up to now began no earlier. `FoldObserved` reads the fold as a case table, `PairStep` carries the invariant over one report. Its hypothesis is `~Churn`: a retired fence is not looked at, so its memory cannot tell what the reports it missed said.
- `FenceVersionsAreALine`, `SeedingKeepsFences`: the rows of a fence are versions 1 to n (`IsLine`), and a version a request found stays there to follow on, so the primary key decides every race.

**`FenceIngestProofs`**
- `AnnouncedBeforePersisted`: `TransitInv` follows a transition from the engine through the list of its call to the topic and the table, with the version it cites, which the fence has had since the call read the fences (`Vetted`).
- `TransitionsAnnouncedOnce`: `OnceInv` counts the copies of a transition on the topic and in running calls together; each life of the engine emits it once at most, because afterwards it cannot emit it again (`Spent`): it has seen a later report, or the version is `Past`, or it has that version in use and agrees with the transition. A version is past when neither the table nor the copy in use holds it any more, and a reload never brings one back.
- `RowsTellWhoIsInside`: `RowsInv` says of each pair that the crossings in the table and in running calls alternate, by time and then by version, and end with the engine's view (`Agrees`). A new crossing comes after all of them, because versions in use only rise; one of the same time and version would be of the same report and ring, and change nothing. When no call runs, the crossings are the rows.
- The last two have the hypothesis `DistinctTimes`: no two reports of a vessel bear the same time. The engine takes a report as late as the last one, so two of the same time could announce one transition twice. Redelivery of a report is not excluded, nor are fences that move in between.

**`DevicesProofs`**
- `KeysFollowTheirDevice`, `VerifierReadsAreAtomic`, `RotationKeepsGrace`. The strengthening is the row lock (one transaction is past it, and what it read is still so), that requests are consumed once, and that a verifier whose second read will pass has seen the key usable.
- `OffersNeverGoBack`: releases stay and epochs only rise, so what a device was eligible for it stays eligible for. `FetchFits` says of a fetch under way that the epoch it read is not above the current one and that the newest release offered before it began is still among those it chooses from.

**`SafetyProofs`**
- `OneChain`, `ChecksAndInsertsAreOne`: a transaction past its lock holds the case row, in a state that allows the operation, and the head it read is the one to link to (`HeadIsFresh`).
- `ChainIsTamperEvident`: `ChainInv` says that every item links to the latest, by `collected_at`, of those committed before it (`LinksBack`), and that no two transactions start at once. A chain committed in the order of its starts then verifies. Conversely hashes grow along a chain that verifies, so each item that is replaced, or removed before another, breaks a link.
- `WritesMeetTheirChecks`: one handler holds the row, and what it counted or read under the lock holds until its write (`CheckHolds`).
- `TopicTellsWholePath`: requests overtake each other between commit and publication, so `PathInv` is about the events on the topic together with those that requests carry to it. Each step of the ladder adds the event that explains it.

**`DeliveryProofs`**
- `StaticHistoryHoldsApplied`: the versions tile time, and the row a transaction has locked is still the open one.
- `StreamsHaveNoHole`: per stream, what was written and what is queued is a prefix of what was offered, and all of it while the stream is listed.
- `AcceptedReportsArePublished`, `RetriesPublishOnce`, `LifecycleIsAnnouncedOnce`: a request owns the id it minted until its row is there, at most one request is about to announce a step, and none once it is announced.

**`MrvProofs`**
- `PlansConfirmedTogether`: what is CONFIRMED and was not in the snapshot of a running confirmation was confirmed during it (`SnapshotKept`).
- `LedgersExplainStates`: the lock on the report row keeps what was checked; `LedgerFits` relates report, decisions and statement.
- `ChangesAreAnnounced`: row and event are one commit, so the counts agree (`Announced`), by counting occurrences in the outbox.

**`PollersProofs`**
- `CursorPassesStoredRows`: for the copies, a row that the running or the next poll has yet to reach has at most one copy per replay (`CopiesBounded`). For the cursor, the rows that the running poll has gone by are stored (`SkipsNothing`), the rows still in the batch have free dedup keys (`KeysAreFree`), and no row can still arrive behind what the poll has read (`NoLatecomers`). The hypothesis `FeedIsOrderly` names what the importer depends on: rows in cursor order, a window that closes between polls, and one dedup key per row, that is at most one row of a vessel per second.
- `DrainsPublishOnce`: open drains hold disjoint pending rows (SKIP LOCKED), and the topic carries a row once per publication rolled back and once more while one stands.

**Assumptions** are the named `ASSUME`s on the constants, evaluated by the runs. Beside types and bounds they say that a marker is none of the values it stands beside (`None`, `Free`, and `Forever`, the NULL of `valid_to`, which lies after every time), that the transitions of a position are listed in some order, each once (`Sorted`), and what the schema says of forms (a fuel period is not empty, a plan names a grade). Type correctness is proved and not an invariant of a run. Action properties (`RecordsFrozen`, `CheckedStillHolds`, `GraceIsKept`, `SeedingIsIdempotent`) are proved from the same invariants.

**Only model-checked**, and why:
- `EventuallyStored`, `EventuallyPublished`: liveness under fairness is beyond the prover.
- What needs an induction over data, that is over sums or over filtered and joined sequences: `NoFuelCountedTwice`, `EstimateFollowsMethod`, `RatingCountsBoundaries` (sums and counts), `CrossingsExplainMembership` (alternation in a filtered log), `ServedFeedCloses`, `RealtimeIsHonest` (feeds put together from seven lists).

## 5. Statements the code does not keep

The five violation runs quote theirs in `PROJECT.json`. These definitions also state sentences of the repository, and TLC refutes each when it is put in the named configuration: `PersistedCrossingAnnounced`, `BaselineWasAdmitted`, `BifurcationWithinVessel`, `RefusedIsKept` (`IngestFaults`); `IngestionIdempotent` (`Pollers`), `AbsorbedAsItself` (`Pollers` with two ticks per second and stamps 2, 3); `DwellOnKnownSpeed` (`FenceDwell`); `NothingDropped`, `TimeOrdersCrossings` (`FenceIngest`); `SettledSosIsPublished`, `ResolvedIsAnnounced`, `SnapshotIsConsistent`, `EveryMutationIsPublished` (`Registers`); `EveryMutationEnqueues`, `LegInMilliNauticalMiles`, `LastOfferIsNewest` (`Fleet`). `TrackerFixAdmitted` needs a GSM tracker report in the instance. With two goroutines (`IngestRace`) `CrossingsExplainMembership` fails: nothing serialises reports of one vessel between `Membership` and `Replace`.

What the models follow the code in, against a comment or an expectation a reader may have:

- **Ingest.** The filter reads neither `imo`, `nav_status`, `ais_message_type`, `ship_name` nor `receiver_id`, and each has a CHECK (`db/migrations/0002_ais_positions.sql:19-25`). A report that fails one is refused by the insert at every delivery and reaches no quarantine topic, though "suspect traffic is intelligence and is never dropped" (`connectors/pipeline.go:81-82`). The importer of the port community feed does not move past such a row (`connectors/pcs_ais.go:206`).
- **MRV.** "Every mutation persists the domain row and the signed outbox envelope in one transaction" (`mrv/ops.go:1-2`), but `RegisterShip` (49), `PutMonitoringPlan` (133) and `ConfirmMonitoringPlan` (168-174) enqueue nothing, and `ReportingIsAnnounced` is about the others. `greatCircleMilliNM` returns a thousand times the milli-nautical miles of its comment (`mrv/activity.go:143-158`) and of the reported distances it is compared with (`0012_mrv_core.sql:19-20`); `mrv_test.go` expects what the code returns. Each leg is cut to whole seconds before it is added (136) and the sum to whole minutes (139), so a track of fixes less than a second apart has no time under way; `EstimateFollowsMethod` states the method with these roundings. `VoyageEmissions` never succeeds: its event type is missing from the CHECK of `mrv_outbox` (`db/migrations/0012_mrv_core.sql:283-285`), and `ResolveFactor` is called on a transaction with open rows (`mrv/voyage_emissions.go:148`), though `voyage_emissions.go:7-8` says every computation is announced. The recompilation of a DRAFT always fails, since the UPDATE never mentions its `$2` (`mrv/report.go:171-174`; `report.go:41` says "recompile replaces a DRAFT"). A replayed fuel report is answered 422 once the plan has changed, and 400 when it overlaps its original. `EstimateActivity` divides by zero for a window below a millisecond (`mrv/activity.go:107-109`). Fuel that straddles New Year belongs to no year, and fuel committed after the compilation's read is not in the totals. A failed cross-check query aborts its transaction. Two publishers may publish rows out of order.
- **Devices.** `requestRotation` does not check that the device is ACTIVE, as its comment says. A rotation between the verifier's two reads yields the "registry inconsistency" of `devices/verify.go:211`; any error of `LoadKey` is reported as an unknown epoch. "Never silently dropped" (`devices/api.go:427`) depends on a dead letter whose failure is ignored. Grace is counted from the start of the rotating transaction. A fetch that read the device before a rotation can be answered after one that read it later, so the last offer need not be the newest (`devices/manifest.go:43`).
- **Safety.** "Every mutation persists ... and publishes" (`api/safety.go:7-8`) is not so for deficiencies, tasking transitions, communications, findings and recommendations, which are answered with success and no event (`api/safety.go:406`, `449`, `655`, `693`); `TopicTellsPath` therefore speaks of the states of the row; an event whose publication fails after the commit is lost, since the retry is a 409. Events of attachments carry the row as read again later. Deficiencies can be recorded in any state, and taskings advanced after closure.
- **Fences.** The engine keeps its memory per fence and not per version, so a report delivered again after its fence has moved is announced as an EXIT at the time of its own ENTER, and under a third version as an ENTER once more. The row tells these apart by `geofence_version`, the envelope carries no version. Under 0014 every read sees nothing, every create is refused and seeding stops the start; a lost version race is answered 503 rather than 409; the key `(geofence_id, version)` spans tenants.
- **Static data.** A newer report that waited for the row lock finds no current row and fails on the unique index; unless retried it is lost. An older report with the current data is answered as applied and published again (`store/static.go:39-43`). Two publications may swap ("never republish stale state as a fresh event", `connectors/pipeline.go:299-300`).
- **Transit.** The "consistent view for one feed build" (`store/transit.go:400-401`) is seven READ COMMITTED queries. `routes.txt` of the archive omits inactive routes while `trips.txt` keeps their trips; no exclusion constraint exists where `0009_transit_registry.sql:111` names one; a seed load is not atomic; an alert is only deactivated, so "retire the alert first" (`transit.go:288`) never frees a route; a trip window looks at one service day.
- **Hub.** A stream closed by `Shutdown` tells its client SLOW_CONSUMER.

## 6. Plan

Done: the ingest path with its proofs, fences, app reports and investigations first, because the rest feeds or reads them; then the MRV workflow, calculations and outbox, devices and firmware, static data, the safety registers, the fence and transit registries with their feeds, and the hub.

Then proofs of the safety properties, component by component (section 4).

Next: `CrossingsExplainMembership`, with the log of crossings as a set of numbered entries in place of a filtered sequence.

**Not modelled.** Decoders and multi-part assembly (parsing), signatures and envelopes (cryptography, serialisation), polygon geometry, floating-point analytics (density, forecast, tracks, recommendations), read endpoints and queries, token checks, configuration, metrics and tracing, migrations and fixtures (one-shot code), `HandleCPA` and the queue observations (stateless inserts and publications), reconnect loops (their concurrency is the set of workers). The producer's retries and unknown outcomes appear as the failures of the publishing actions.
