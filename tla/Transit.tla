------------------------------- MODULE Transit -------------------------------
(***************************************************************************)
(* The transit registry and the feeds built from it: internal/store/       *)
(* transit.go and transit_seed.go, internal/gtfs, internal/gtfsrt and      *)
(* internal/api/feeds.go, for one tenant.  The registry is seven tables    *)
(* written by small transactions: the seed loader is a sequence of them,   *)
(* an operator's call is one.  A feed build loads the tables one query     *)
(* after the other in one READ COMMITTED transaction, so every query sees  *)
(* what is committed when it runs.                                         *)
(*                                                                         *)
(* The water is a line: a stop and a vessel have a coordinate on it, and   *)
(* the length of a leg is the distance of its ends.  Times are ticks, a    *)
(* speed is a distance per tick, and an agency's time zone is its offset.  *)
(***************************************************************************)
EXTENDS Integers, Sequences, FiniteSets, FiniteSetsExt, SequencesExt

CONSTANTS
  Documents,     \* seed documents: sequences of rows, in the loader's order
  Fixes,         \* what the position plane may hold of a vessel, NoFix included
  Moments,       \* times at which a feed is built
  Day,           \* ticks of a day
  StaleAfter, SnapMax, StopArrive, StopSpeed, EtaMinSpeed, PreSlack, PostSlack,  \* gtfsrt.Config
  AlertForms,    \* bodies of POST /transit/alerts: [id, route, stop, starts, ends]
  MaxEdits       \* bound: seedings and deletions

ASSUME TransitAssumption ==
  /\ Day \in Nat \ {0}
  /\ {StaleAfter, SnapMax, StopArrive, StopSpeed, EtaMinSpeed, PreSlack, PostSlack, MaxEdits} \subseteq Nat

VARIABLES
  tables,     \* the registry: table name -> set of rows
  alerts,     \* transit_alerts
  loader,     \* the rows the seed loader has still to apply
  edits,      \* seedings and deletions so far
  build       \* the feed request that is being answered

transitVars == <<tables, alerts, loader, edits, build>>

NoFix == [known |-> FALSE]
NoBuild == [kind |-> "none"]

(* The order in which LoadTransitRegistry queries. *)
TableOrder == <<"agencies", "routes", "stops", "calendars", "trips", "stopTimes", "assignments">>

TransitInit ==
  /\ tables = [n \in Range(TableOrder) |-> {}]
  /\ alerts = {}
  /\ loader = <<>> /\ edits = 0
  /\ build = NoBuild

(***************************************************************************)
(* Writing the registry.                                                   *)
(***************************************************************************)
Column(registry, name, column) == {r[column] : r \in registry[name]}

(* INSERT ... ON CONFLICT (key) DO UPDATE. *)
Upsert(name, key, row) ==
  [tables EXCEPT ![name] = {r \in @ : \E k \in key : r[k] # row[k]} \cup {row}]

UpsertTransitAgency(row) == Upsert("agencies", {"agency"}, row)
UpsertTransitRoute(row) == Upsert("routes", {"route"}, row)
UpsertTransitStop(row) == Upsert("stops", {"stop"}, row)
UpsertTransitCalendar(row) == Upsert("calendars", {"service"}, row)
UpsertTransitTrip(row) == Upsert("trips", {"trip"}, row)
AssignRouteVessel(row) == Upsert("assignments", {"route", "mmsi"}, row)

(* ReplaceTransitStopTimes deletes the trip's visits and inserts the new    *)
(* ones, numbered by the seed loader in document order.                     *)
ReplaceTransitStopTimes(row) ==
  [tables EXCEPT !["stopTimes"] =
     {r \in @ : r.trip # row.trip}
     \cup {[trip |-> row.trip, seq |-> i, stop |-> row.visits[i].stop,
            arrival |-> row.visits[i].arrival, departure |-> row.visits[i].departure] :
             i \in DOMAIN row.visits}]

Monotonic(visits) == \A i \in 1 .. Len(visits) - 1 : visits[i].arrival <= visits[i + 1].arrival

(* What the schema of 0009_transit_registry.sql and the checks before the    *)
(* statement refuse: a missing reference, an empty or decreasing schedule.   *)
Admissible(row) ==
  CASE row.table = "routes" -> row.agency \in Column(tables, "agencies", "agency")
    [] row.table = "trips" -> /\ row.route \in Column(tables, "routes", "route")
                              /\ row.service \in Column(tables, "calendars", "service")
    [] row.table = "stopTimes" -> /\ row.visits # <<>> /\ Monotonic(row.visits)
                                  /\ row.trip \in Column(tables, "trips", "trip")
                                  /\ {v.stop : v \in Range(row.visits)} \subseteq Column(tables, "stops", "stop")
    [] row.table = "assignments" -> row.route \in Column(tables, "routes", "route")
    [] OTHER -> TRUE

Loaded(row) ==
  CASE row.table = "agencies" -> UpsertTransitAgency(row)
    [] row.table = "routes" -> UpsertTransitRoute(row)
    [] row.table = "stops" -> UpsertTransitStop(row)
    [] row.table = "calendars" -> UpsertTransitCalendar(row)
    [] row.table = "trips" -> UpsertTransitTrip(row)
    [] row.table = "stopTimes" -> ReplaceTransitStopTimes(row)
    [] row.table = "assignments" -> AssignRouteVessel(row)

Edit == edits < MaxEdits /\ edits' = edits + 1

(* cmd/geo-transitseed parses a document and hands it to the loader. *)
ParseTransitSeed(document) ==
  /\ Edit
  /\ loader = <<>> /\ loader' = document
  /\ UNCHANGED <<tables, alerts, build>>

(* SeedTransitRegistry applies the next row in a transaction of its own; a   *)
(* defect aborts the load and leaves what was applied.                       *)
SeedTransitRegistry ==
  /\ loader # <<>>
  /\ IF Admissible(Head(loader))
     THEN tables' = Loaded(Head(loader)) /\ loader' = Tail(loader)
     ELSE tables' = tables /\ loader' = <<>>
  /\ UNCHANGED <<alerts, edits, build>>

(* The route with its trips, their visits and its assignments, unless an     *)
(* alert, retired or not, refers to it.                                      *)
DeleteTransitRoute(route) ==
  /\ Edit
  /\ \A a \in alerts : a.route # route
  /\ LET gone == {t.trip : t \in {t \in tables["trips"] : t.route = route}} IN
       tables' = [tables EXCEPT !["stopTimes"] = {r \in @ : r.trip \notin gone},
                                !["trips"] = {r \in @ : r.route # route},
                                !["assignments"] = {r \in @ : r.route # route},
                                !["routes"] = {r \in @ : r.route # route}]
  /\ UNCHANGED <<alerts, loader, build>>

DeleteTransitStop(stop) ==
  /\ Edit
  /\ \A a \in alerts : a.stop # stop
  /\ tables' = [tables EXCEPT !["stopTimes"] = {r \in @ : r.stop # stop},
                              !["stops"] = {r \in @ : r.stop # stop}]
  /\ UNCHANGED <<alerts, loader, build>>

(* POST /v1/geo/transit/alerts: scoped to a route or a stop ("" is neither)  *)
(* that exists, over a window that is not empty, under an id not taken.      *)
CreateTransitAlert(form) ==
  /\ form.route # "" \/ form.stop # ""
  /\ form.route \in {""} \cup Column(tables, "routes", "route")
  /\ form.stop \in {""} \cup Column(tables, "stops", "stop")
  /\ form.ends > form.starts
  /\ \A a \in alerts : a.id # form.id

createTransitAlert(form) ==
  /\ CreateTransitAlert(form)
  /\ alerts' = alerts \cup {[active |-> TRUE, id |-> form.id, route |-> form.route, stop |-> form.stop,
                             starts |-> form.starts, ends |-> form.ends]}
  /\ UNCHANGED <<tables, loader, edits, build>>

DeactivateTransitAlert(a) ==
  /\ alerts' = (alerts \ {a}) \cup {[a EXCEPT !.active = FALSE]}
  /\ UNCHANGED <<tables, loader, edits, build>>

(***************************************************************************)
(* What a build makes of the registry it loaded.                           *)
(***************************************************************************)
StopTimesByTrip(registry, trip) ==
  SetToSortSeq({r \in registry["stopTimes"] : r.trip = trip}, LAMBDA a, b : a.seq < b.seq)

(* A plausible slip: the visits are trusted to name known stops. *)
IncompleteButForStops(registry) ==
  \/ \E t \in registry["trips"] :
       \/ t.route \notin Column(registry, "routes", "route")
       \/ t.service \notin Column(registry, "calendars", "service")
       \/ StopTimesByTrip(registry, t.trip) = <<>>
  \/ \E r \in registry["routes"] : r.agency \notin Column(registry, "agencies", "agency")

(* renderFiles refuses a registry that is referentially incomplete ... *)
Incomplete(registry) ==
  \/ \E v \in registry["stopTimes"] :
       v.trip \notin Column(registry, "trips", "trip") \/ v.stop \notin Column(registry, "stops", "stop")
  \/ \E t \in registry["trips"] :
       \/ t.route \notin Column(registry, "routes", "route")
       \/ t.service \notin Column(registry, "calendars", "service")
       \/ StopTimesByTrip(registry, t.trip) = <<>>
       \/ ~Monotonic(StopTimesByTrip(registry, t.trip))
  \/ \E r \in registry["routes"] : r.agency \notin Column(registry, "agencies", "agency")

(* ... and otherwise writes its rows, of the routes only the active ones. *)
renderFiles(registry) ==
  [registry EXCEPT !["routes"] = {r \in @ : r.active}, !["assignments"] = {}]

(* buildPlans: the active routes, each with its trips whose visits are known *)
(* stops; every visit takes the stop's coordinate.                           *)
TripPlans(registry, route) ==
  LET at(stop) == (CHOOSE s \in registry["stops"] : s.stop = stop).at
      visits(trip) == StopTimesByTrip(registry, trip)
      complete(trip) == /\ visits(trip) # <<>>
                        /\ {v.stop : v \in Range(visits(trip))} \subseteq Column(registry, "stops", "stop")
  IN {[trip |-> t.trip, service |-> t.service,
       visits |-> [i \in DOMAIN visits(t.trip) |->
                     [seq |-> visits(t.trip)[i].seq, stop |-> visits(t.trip)[i].stop,
                      at |-> at(visits(t.trip)[i].stop),
                      arrival |-> visits(t.trip)[i].arrival, departure |-> visits(t.trip)[i].departure]]] :
        t \in {t \in registry["trips"] : t.route = route.route /\ complete(t.trip)}}

buildPlans(registry) ==
  {[route |-> r.route, defaultSpeed |-> r.defaultSpeed, trips |-> TripPlans(registry, r),
    offset |-> IF r.agency \in Column(registry, "agencies", "agency")
               THEN (CHOOSE a \in registry["agencies"] : a.agency = r.agency).offset ELSE 0] :
     r \in {r \in registry["routes"] : r.active}}

(* The start of the service day that contains now, in the agency's zone. *)
serviceMidnight(plan, now) == ((now + plan.offset) \div Day) * Day - plan.offset

calendarActiveOn(calendar, plan, midnight) == (midnight + plan.offset) \div Day \in calendar.days

(* The trips that run on that day, from first departure to last arrival. *)
tripWindows(registry, plan, now) ==
  LET midnight == serviceMidnight(plan, now)
      runs(t) == \E c \in registry["calendars"] : c.service = t.service /\ calendarActiveOn(c, plan, midnight)
  IN {[trip |-> t.trip, departs |-> midnight + t.visits[1].departure,
       arrives |-> midnight + t.visits[Len(t.visits)].arrival] : t \in {t \in plan.trips : runs(t)}}

(* Of the windows that cover now, slack included, the one that started last; *)
(* of two that started together, the one with the smaller trip id.           *)
MatchTrip(windows, now) ==
  LET covering == {w \in windows : now >= w.departs - PreSlack /\ now <= w.arrives + PostSlack}
  IN {w \in covering : \A v \in covering : \/ v.departs < w.departs
                                           \/ v.departs = w.departs /\ w.trip <= v.trip}

matchAssignmentTrip(registry, plan, now) ==
  {t \in plan.trips : \E w \in MatchTrip(tripWindows(registry, plan, now), now) : w.trip = t.trip}

activeAssignments(registry, now) ==
  {a \in registry["assignments"] :
     a.route \in Column(renderFiles(registry), "routes", "route") /\ a.from <= now /\ now < a.to}

(* freshPositions: a vessel without a position, or with an old one, is left out. *)
freshPositions(fix) == fix.known /\ fix.age <= StaleAfter

Distance(a, b) == IF a < b THEN b - a ELSE a - b

(* The first index at which f is least over S. *)
FirstLeast(f, S) == CHOOSE i \in S : \A j \in S : f[i] < f[j] \/ (f[i] = f[j] /\ i <= j)

(* NewRoutePath: how far along the path visit i lies. *)
Cumulative(visits, i) == MapThenSumSet(LAMBDA j : Distance(visits[j].at, visits[j + 1].at), 1 .. i - 1)

(* Snap: the nearest point of the path, on the first leg that attains it. *)
Snap(visits, at) ==
  LET point(i) == LET lo == Min({visits[i].at, visits[i + 1].at})
                      hi == Max({visits[i].at, visits[i + 1].at})
                  IN IF at < lo THEN lo ELSE IF at > hi THEN hi ELSE at
      legs == 1 .. Len(visits) - 1
      off == [i \in legs |-> Distance(at, point(i))]
      leg == FirstLeast(off, legs)
  IN IF legs = {}
     THEN [progress |-> 0, off |-> Distance(at, visits[1].at)]
     ELSE [progress |-> Cumulative(visits, leg) + Distance(visits[leg].at, point(leg)), off |-> off[leg]]

NoStop == [status |-> "none"]

(* stopAttribution: stopped at the nearest visit, in transit to the first    *)
(* one ahead, or, off the route or past its end, neither.                    *)
stopAttribution(visits, fix) ==
  LET snapped == Snap(visits, fix.at)
      away == [i \in DOMAIN visits |-> Distance(Cumulative(visits, i), snapped.progress)]
      nearer == {i \in DOMAIN visits : away[i] < Cumulative(visits, Len(visits))}
      nearest == IF nearer = {} THEN 1
                 ELSE FirstLeast(away, nearer)
      ahead == {i \in DOMAIN visits : Cumulative(visits, i) > snapped.progress}
      at(i, status) == [status |-> status, seq |-> visits[i].seq, stop |-> visits[i].stop]
  IN CASE snapped.off > SnapMax -> NoStop
       [] /\ snapped.off <= SnapMax
          /\ 0 <= fix.speed /\ fix.speed < StopSpeed
          /\ Distance(fix.at, visits[nearest].at) <= StopArrive -> at(nearest, "STOPPED_AT")
       [] OTHER -> IF ahead = {} THEN NoStop ELSE at(Min(ahead), "IN_TRANSIT_TO")

(* Twice the median of the reported speeds: for an even number of samples    *)
(* the code takes the mean of the middle two.                                *)
MedianTwice(samples) ==
  LET ordered == SortSeq(samples, <)
      middle == Len(ordered) \div 2 + 1
  IN IF Len(ordered) % 2 = 1 THEN 2 * ordered[middle] ELSE ordered[middle - 1] + ordered[middle]

(* A plausible slip: visits the vessel has passed are predicted as well. *)
ComputeETAsPassed(visits, progress, twiceSpeed, now) ==
  {[seq |-> visits[i].seq, stop |-> visits[i].stop,
    eta |-> now + (2 * (Cumulative(visits, i) - progress)) \div twiceSpeed] : i \in DOMAIN visits}

(* An arrival for every visit that is not behind the vessel. *)
ComputeETAs(visits, progress, twiceSpeed, now) ==
  {[seq |-> visits[i].seq, stop |-> visits[i].stop,
    eta |-> now + (2 * (Cumulative(visits, i) - progress)) \div twiceSpeed] :
     i \in {i \in DOMAIN visits : Cumulative(visits, i) >= progress}}

(***************************************************************************)
(* The feeds.                                                              *)
(***************************************************************************)
Pending == [status |-> "pending"]
Failed == [status |-> "failed"]

BuildStaticZip(registry) ==
  IF Incomplete(registry) THEN Failed ELSE [status |-> "ok", files |-> renderFiles(registry)]

PlanOf(registry, assignment) == CHOOSE p \in buildPlans(registry) : p.route = assignment.route

BuildVehiclePositions(registry, now, fixes) ==
  LET entity(a) ==
        LET trips == matchAssignmentTrip(registry, PlanOf(registry, a), now) IN
          [mmsi |-> a.mmsi, route |-> a.route, trips |-> {t.trip : t \in trips},
           stop |-> IF trips = {} THEN NoStop
                    ELSE stopAttribution((CHOOSE t \in trips : TRUE).visits, fixes[a.mmsi])]
  IN [status |-> "ok", entities |-> {entity(a) : a \in {a \in activeAssignments(registry, now) :
                                                       freshPositions(fixes[a.mmsi])}}]

(* A vessel off the route, or slower than the floor, gets no trip update;    *)
(* one without reported speeds is predicted at the route's default speed.    *)
BuildTripUpdates(registry, now, fixes) ==
  LET speed(a) == IF fixes[a.mmsi].samples = <<>> THEN 2 * PlanOf(registry, a).defaultSpeed
                     ELSE MedianTwice(fixes[a.mmsi].samples)
      predicted(a, t) == /\ freshPositions(fixes[a.mmsi])
                         /\ Snap(t.visits, fixes[a.mmsi].at).off <= SnapMax
                         /\ fixes[a.mmsi].samples # <<>> => speed(a) >= 2 * EtaMinSpeed
      update(a, t) == [mmsi |-> a.mmsi, route |-> a.route, trips |-> {t.trip},
                       live |-> fixes[a.mmsi].samples # <<>>,
                       etas |-> ComputeETAs(t.visits, Snap(t.visits, fixes[a.mmsi].at).progress,
                                            speed(a), now)]
  IN [status |-> "ok",
      entities |-> UNION {{update(a, t) : t \in {t \in matchAssignmentTrip(registry, PlanOf(registry, a), now) :
                                                   predicted(a, t)}} :
                            a \in activeAssignments(registry, now)}]

(* ListActiveTransitAlerts and BuildAlerts. *)
BuildAlerts(now) ==
  [status |-> "ok", entities |-> {[id |-> a.id, route |-> a.route, stop |-> a.stop] :
                                a \in {a \in alerts : a.active /\ a.starts <= now /\ now < a.ends}}]

(* A request for a feed begins. *)
serveFeed(kind, now) ==
  /\ build = NoBuild
  /\ build' = [kind |-> kind, now |-> now, loaded |-> <<>>, fixes |-> <<>>, feed |-> Pending]
  /\ UNCHANGED <<tables, alerts, loader, edits>>

serveGTFSZip(now) == serveFeed("gtfs", now)
serveRealtime(kind, now) == serveFeed(kind, now)

Building(kinds) == build # NoBuild /\ build.kind \in kinds /\ build.feed = Pending

(* LoadTransitRegistry runs its next query. *)
LoadTransitRegistry ==
  /\ Building({"gtfs", "vehiclepositions", "tripupdates"})
  /\ Len(build.loaded) < Len(TableOrder)
  /\ build' = [build EXCEPT !.loaded = Append(@, tables[TableOrder[Len(@) + 1]])]
  /\ UNCHANGED <<tables, alerts, loader, edits>>

IsLoaded(b) == Len(b.loaded) = Len(TableOrder)
Snapshot(b) == [n \in Range(TableOrder) |-> b.loaded[CHOOSE i \in DOMAIN TableOrder : TableOrder[i] = n]]

Built(feed, fixes) ==
  /\ build' = [build EXCEPT !.feed = feed, !.fixes = fixes]
  /\ UNCHANGED <<tables, alerts, loader, edits>>

BuildZip == Building({"gtfs"}) /\ IsLoaded(build) /\ Built(BuildStaticZip(Snapshot(build)), <<>>)

(* LatestPositionsByMMSI and RecentSpeedSamples read the position plane      *)
(* after the registry was loaded.                                            *)
LatestPositionsByMMSI == [Column(Snapshot(build), "assignments", "mmsi") -> Fixes]

BuildRealtime ==
  \/ /\ Building({"vehiclepositions"}) /\ IsLoaded(build)
     /\ \E fixes \in LatestPositionsByMMSI :
          Built(BuildVehiclePositions(Snapshot(build), build.now, fixes), fixes)
  \/ /\ Building({"tripupdates"}) /\ IsLoaded(build)
     /\ \E fixes \in LatestPositionsByMMSI :
          Built(BuildTripUpdates(Snapshot(build), build.now, fixes), fixes)
  \/ Building({"alerts"}) /\ Built(BuildAlerts(build.now), <<>>)

(* The answer is written: 200 or 304 with the feed, 500 without. *)
servePayload ==
  /\ build # NoBuild /\ build.feed # Pending
  /\ build' = NoBuild
  /\ UNCHANGED <<tables, alerts, loader, edits>>

TransitNext ==
  \/ \E d \in Documents : ParseTransitSeed(d)
  \/ SeedTransitRegistry
  \/ \E r \in Column(tables, "routes", "route") : DeleteTransitRoute(r)
  \/ \E s \in Column(tables, "stops", "stop") : DeleteTransitStop(s)
  \/ \E f \in AlertForms : createTransitAlert(f)
  \/ \E a \in {a \in alerts : a.active} : DeactivateTransitAlert(a)
  \/ \E now \in Moments : serveGTFSZip(now)
  \/ \E kind \in {"vehiclepositions", "tripupdates", "alerts"}, now \in Moments : serveRealtime(kind, now)
  \/ LoadTransitRegistry
  \/ BuildZip
  \/ BuildRealtime
  \/ servePayload

TransitSpec == TransitInit /\ [][TransitNext]_transitVars

(***************************************************************************)
(* Properties.                                                             *)
(***************************************************************************)
Answering == build # NoBuild /\ build.feed.status = "ok"

(* Whatever is written while a build loads the registry, an archive that is  *)
(* served closes: its visits name trips and stops of the archive, and its    *)
(* trips have a calendar and a schedule that does not go back in time.  And  *)
(* a realtime entity that names a trip names one of that route, all of whose *)
(* visits are at stops the build loaded (renderFiles, buildPlans).           *)
ServedFeedCloses ==
  /\ Answering /\ build.kind = "gtfs" =>
       LET files == build.feed.files IN
         /\ \A v \in files["stopTimes"] : /\ v.trip \in Column(files, "trips", "trip")
                                          /\ v.stop \in Column(files, "stops", "stop")
         /\ \A t \in files["trips"] : /\ t.service \in Column(files, "calendars", "service")
                                      /\ \E v \in files["stopTimes"] : v.trip = t.trip
         /\ \A v, w \in files["stopTimes"] : v.trip = w.trip /\ v.seq < w.seq => v.arrival <= w.arrival
  /\ Answering /\ build.kind \in {"vehiclepositions", "tripupdates"} =>
       \A e \in build.feed.entities : \A trip \in e.trips :
         /\ \E t \in Snapshot(build)["trips"] : t.trip = trip /\ t.route = e.route
         /\ \A v \in Snapshot(build)["stopTimes"] :
              v.trip = trip => v.stop \in Column(Snapshot(build), "stops", "stop")

(* Nothing realtime is fabricated (the doctrine of gtfsrt/feed.go): every    *)
(* entity rests on a position no older than StaleAfter; a vessel said to be  *)
(* stopped is at that stop; predictions are for the visits up to the trip's  *)
(* last, none skipped, in the order of the schedule and none in the past;    *)
(* and a vessel with reported speeds below the floor is not predicted.       *)
RealtimeIsHonest ==
  Answering /\ build.kind \in {"vehiclepositions", "tripupdates"} =>
    \A e \in build.feed.entities :
      LET fix == build.fixes[e.mmsi] IN
        /\ fix.known /\ fix.age <= StaleAfter
        /\ build.kind = "vehiclepositions" /\ e.stop.status = "STOPPED_AT" =>
             \E s \in Snapshot(build)["stops"] : s.stop = e.stop.stop /\ Distance(s.at, fix.at) <= StopArrive
        /\ build.kind = "tripupdates" =>
             /\ \A p, q \in e.etas : p.seq < q.seq => p.eta <= q.eta
             /\ \A p \in e.etas : p.eta >= build.now
             /\ \A p \in e.etas, v \in Snapshot(build)["stopTimes"] :
                  v.trip \in e.trips /\ v.seq > p.seq => \E q \in e.etas : q.seq = v.seq
             /\ e.live => \E i \in DOMAIN fix.samples : fix.samples[i] >= EtaMinSpeed

(* LoadTransitRegistry's promise, "(consistent view for one feed build)":    *)
(* the references that the schema keeps between committed rows hold between  *)
(* the rows a build loads.  The seven queries see seven moments.             *)
SnapshotIsConsistent ==
  build # NoBuild /\ IsLoaded(build) =>
    LET s == Snapshot(build) IN
      /\ Column(s, "routes", "agency") \subseteq Column(s, "agencies", "agency")
      /\ Column(s, "trips", "route") \subseteq Column(s, "routes", "route")
      /\ Column(s, "trips", "service") \subseteq Column(s, "calendars", "service")
      /\ Column(s, "stopTimes", "trip") \subseteq Column(s, "trips", "trip")
      /\ Column(s, "stopTimes", "stop") \subseteq Column(s, "stops", "stop")
      /\ Column(s, "assignments", "route") \subseteq Column(s, "routes", "route")
=============================================================================
