------------------------------ MODULE MrvVoyages ------------------------------
(***************************************************************************)
(* The voyage ledger of internal/mrv and the emissions by voyage: the fuel *)
(* of a voyage by time, and the totals of a window.                        *)
(*                                                                         *)
(* One ship.  Times are ticks; 0 is a NULL bound of a voyage.  Voyages are *)
(* only ever added, so a request that reads them is one step.              *)
(***************************************************************************)
EXTENDS Naturals, FiniteSets, FiniteSetsExt, Sequences, Requests

CONSTANTS
  Ticks,         \* the last tick
  FuelPeriods,   \* mrv_fuel_reports: [from, to, tonnes]
  MaxVoyages     \* bound: voyages recorded

ASSUME VoyagesAssumption ==
  /\ Ticks \in Nat \ {0}
  /\ \A f \in FuelPeriods : f.from < f.to     \* CHECK (period_to > period_from)

VARIABLES
  voyages,       \* mrv_voyages in the order they were recorded
  voyageEvents,  \* the event types in mrv_outbox
  voyageStatus   \* what the last request was answered

voyageVars == <<voyages, voyageEvents, voyageStatus>>

Windows == {w \in [from : 0 .. Ticks, to : 0 .. Ticks] : w.from < w.to}
minOf(a, b) == IF a < b THEN a ELSE b
maxOf(a, b) == IF a > b THEN a ELSE b

(* CHECK (event_type IN ...) of mrv_outbox. *)
OutboxTypes == {"mrv.fuel-report.v1", "mrv.voyage.v1", "mrv.verification.v1",
                "mrv.emissions-annual.v1", "mrv.soc.v1", "mrv.activity-estimate.v1"}

-----------------------------------------------------------------------------
(* The voyage ledger. *)

recordVoyage(err) == IF err = "nil" THEN 201 ELSE 400

(* RecordVoyage: a complete window is not empty; the row and its event commit together. *)
RecordVoyage(bosp, eosp) ==
  LET err == IF bosp # 0 /\ eosp # 0 /\ eosp <= bosp THEN "eospAt must be after bospAt" ELSE "nil"
  IN  /\ Len(voyages) < MaxVoyages
      /\ voyages' = IF err = "nil" THEN Append(voyages, [bosp |-> bosp, eosp |-> eosp]) ELSE voyages
      /\ voyageEvents' = IF err = "nil" THEN voyageEvents \cup {"mrv.voyage.v1"} ELSE voyageEvents
      /\ voyageStatus' = recordVoyage(err)

-----------------------------------------------------------------------------
(* Emissions by voyage. *)

(* The share of a fuel report in a window, by time. *)
allocateOverlap(f, from, to) ==
  IF maxOf(f.from, from) >= minOf(f.to, to) THEN 0
  ELSE (f.tonnes * (minOf(f.to, to) - maxOf(f.from, from))) \div (f.to - f.from)

Allocated(v) == MapThenSumSet(LAMBDA f : allocateOverlap(f, voyages[v].bosp, voyages[v].eosp), FuelPeriods)

(***************************************************************************)
(* VoyageEmissions.  The factor of a row is looked up on the connection    *)
(* whose rows are still open, which pgx refuses; and without any row the   *)
(* event type is not one the outbox table admits.                          *)
(***************************************************************************)
VoyageError(v) ==
  LET found == v \in DOMAIN voyages
      complete == found /\ voyages[v].bosp # 0 /\ voyages[v].eosp # 0
  IN  FirstError(<< <<~found, "ErrVoyageNotFound">>,
                    <<~complete, "ErrVoyageWindowIncomplete">>,
                    <<complete /\ Allocated(v) > 0, "conn busy">>,
                    <<"mrv.voyage-emissions.v1" \notin OutboxTypes, "check_violation">> >>)

voyageEmissions(err) ==
  CASE err = "nil" -> 200 [] err = "ErrVoyageNotFound" -> 404
    [] err = "ErrVoyageWindowIncomplete" -> 422 [] OTHER -> 500

VoyageEmissions(v) ==
  /\ voyageStatus' = voyageEmissions(VoyageError(v))
  /\ voyageEvents' = IF VoyageError(v) = "nil" THEN voyageEvents \cup {"mrv.voyage-emissions.v1"} ELSE voyageEvents
  /\ UNCHANGED voyages

(* The complete voyages that meet the window. *)
Listed(w) == {v \in DOMAIN voyages : /\ voyages[v].bosp # 0 /\ voyages[v].eosp # 0
                                     /\ voyages[v].bosp < w.to /\ voyages[v].eosp > w.from}

(* Mutant: only a voyage inside another counts as an overlap. *)
OverlappingInside(v, u) == voyages[v].bosp <= voyages[u].bosp /\ voyages[u].eosp <= voyages[v].eosp

Overlapping(v, u) == voyages[v].bosp < voyages[u].eosp /\ voyages[u].bosp < voyages[v].eosp

(* The voyages whose emissions are summed: those that overlap no other one. *)
Summed(w) == {v \in Listed(w) : \A u \in Listed(w) \ {v} : ~Overlapping(v, u) /\ ~Overlapping(u, v)}

voyageEmissionsSummary(err) == IF err = "nil" THEN 200 ELSE 400

(* VoyageEmissionsSummaryForShip; a voyage that fails otherwise than by its window fails the sum. *)
VoyageEmissionsSummaryForShip(w) ==
  LET failed == {v \in Summed(w) : VoyageError(v) \notin {"nil", "ErrVoyageNotFound", "ErrVoyageWindowIncomplete"}}
      err == IF failed = {} THEN "nil" ELSE "failed"
  IN  /\ voyageStatus' = voyageEmissionsSummary(err)
      /\ voyageEvents' = IF \E v \in Summed(w) : VoyageError(v) = "nil"
                      THEN voyageEvents \cup {"mrv.voyage-emissions.v1"} ELSE voyageEvents
      /\ UNCHANGED voyages

-----------------------------------------------------------------------------
VoyagesInit == voyages = <<>> /\ voyageEvents = {} /\ voyageStatus = 0

VoyagesNext ==
  \/ \E bosp, eosp \in 0 .. Ticks : RecordVoyage(bosp, eosp)
  \/ \E v \in 1 .. MaxVoyages : VoyageEmissions(v)
  \/ \E w \in Windows : VoyageEmissionsSummaryForShip(w)

VoyagesSpec == VoyagesInit /\ [][VoyagesNext]_voyageVars

-----------------------------------------------------------------------------
(* Properties. *)

(***************************************************************************)
(* The honesty guard of the summary by voyage: over the voyages it sums,   *)
(* however they were recorded and whatever the window, no fuel report is   *)
(* allocated more fuel than was reported.                                  *)
(***************************************************************************)
NoFuelCountedTwice ==
  voyages # <<>> => \A w \in Windows, f \in FuelPeriods :
    MapThenSumSet(LAMBDA v : allocateOverlap(f, voyages[v].bosp, voyages[v].eosp), Summed(w)) <= f.tonnes
=============================================================================
