------------------------------ MODULE MrvActivity ------------------------------
(***************************************************************************)
(* The AIS activity estimate of internal/mrv with its cross-check, and the *)
(* CII rating of a year.                                                   *)
(*                                                                         *)
(* One ship with an AIS link, on a one-dimensional route measured in       *)
(* metres.  Times are ticks, MsTicks to a millisecond and SecondTicks to a *)
(* second.  Positions are only ever added, so a request is one step.       *)
(***************************************************************************)
EXTENDS Naturals, FiniteSets, SequencesExt

CONSTANTS
  FixTimes,       \* times of positions
  Periods,        \* periods asked for: [from, to]
  MsTicks,        \* ticks in a millisecond
  SecondTicks,    \* ticks in a second
  MinuteSeconds,  \* seconds in a minute
  Positions,      \* positions on the route, in metres
  SegmentGap, MinCoveragePermille, TolerancePermille,   \* ActivityParams
  Amounts,        \* emissions and distances of a year
  CIIConfigs,     \* configuration documents: [cited, field, years, bounds, required]
  CapacityOf,     \* the datum of the ship by capacity field, 0 when absent
  Nano,           \* 1 in fixed-point
  MaxU64,         \* the largest unsigned integer
  MaxFixes        \* bound: positions ingested

ASSUME ActivityAssumption ==
  /\ {MsTicks, SecondTicks, MinuteSeconds, Nano, MaxU64} \subseteq Nat \ {0}
  /\ FixTimes \cup Positions \cup Amounts \subseteq Nat
  /\ \A w \in Periods : {w.from, w.to} \subseteq Nat /\ w.from < w.to

VARIABLES
  fixes,            \* ais_positions of the ship by observed_at
  ciiConfig,        \* the configuration the process loaded, {} for none
  activityEvents,   \* activity estimates announced, up to 1
  activityReply     \* what the last request was answered

activityVars == <<fixes, ciiConfig, activityEvents, activityReply>>

Apart(a, b) == IF a < b THEN b - a ELSE a - b

-----------------------------------------------------------------------------
(* The AIS activity estimate. *)

(* A position of the ship is ingested. *)
NewFix(at, pos, underway) ==
  /\ Len(fixes) < MaxFixes
  /\ \A i \in DOMAIN fixes : fixes[i].at <= at
  /\ fixes' = Append(fixes, [at |-> at, pos |-> pos, underway |-> underway])
  /\ UNCHANGED <<ciiConfig, activityEvents, activityReply>>

(* round(metres / 1.852 * 1000). *)
greatCircle(p, q) == (Apart(p, q) * 1000000 + 926) \div 1852

activityFixes(w) == SelectSeq(fixes, LAMBDA fix : w.from <= fix.at /\ fix.at < w.to)

NoEstimate == [insufficient |-> TRUE, distance |-> 0, seconds |-> 0, time |-> 0]

wholeSeconds(gap) == gap \div SecondTicks

(* Mutant: the leg over a gap counts like any other. *)
LegOverGap(est, prev, cur) ==
  IF cur.at <= prev.at \/ ~cur.underway THEN est
  ELSE [est EXCEPT !.distance = @ + greatCircle(prev.pos, cur.pos),
                   !.seconds = @ + wholeSeconds(cur.at - prev.at)]

(* One turn of the loop: the leg from fix i - 1 to fix i. *)
Leg(est, prev, cur) ==
  IF cur.at - prev.at > SegmentGap \/ cur.at <= prev.at \/ ~cur.underway THEN est
  ELSE [est EXCEPT !.distance = @ + greatCircle(prev.pos, cur.pos),
                   !.seconds = @ + wholeSeconds(cur.at - prev.at)]

(***************************************************************************)
(* EstimateActivity.  The period in whole milliseconds is a divisor and is *)
(* zero for a shorter period: the integer division panics.  Each leg is    *)
(* cut to whole seconds, their sum to whole minutes.                       *)
(***************************************************************************)
EstimateActivity(seen, w) ==
  LET millis(ticks) == ticks \div MsTicks
  IN  CASE Len(seen) < 2 -> NoEstimate
        [] Len(seen) >= 2 /\ millis(w.to - w.from) = 0 -> [panic |-> TRUE]
        [] OTHER ->
             IF (millis(Last(seen).at - Head(seen).at) * 1000) \div millis(w.to - w.from) < MinCoveragePermille
             THEN NoEstimate
             ELSE LET total == FoldLeft(LAMBDA est, i : Leg(est, seen[i - 1], seen[i]),
                                        [NoEstimate EXCEPT !.insufficient = FALSE],
                                        [i \in 1 .. Len(seen) - 1 |-> i + 1])
                  IN  [total EXCEPT !.time = total.seconds \div MinuteSeconds]

(* Crosscheck of an estimate with the reported distance and time. *)
Crosscheck(est, distance, time) ==
  LET within(reported, estimated) ==
        IF reported = 0 THEN estimated = 0
        ELSE Apart(reported, estimated) * 1000 <= reported * TolerancePermille
  IN  CASE est.insufficient -> "insufficient_coverage"
        [] ~est.insufficient /\ distance = 0 /\ time = 0 -> "no_reported_values"
        [] OTHER -> IF within(distance, est.distance) /\ within(time, est.time) THEN "match" ELSE "discrepant"

Panics(est) == "panic" \in DOMAIN est

activityEstimate(est) == IF Panics(est) THEN "aborted" ELSE IF est.insufficient THEN "insufficient" ELSE "estimate"

(* EstimateActivityForShip: the event is part of the answer; net/http ends a handler that panics. *)
EstimateActivityForShip(w) ==
  LET est == EstimateActivity(activityFixes(w), w)
  IN  /\ activityReply' = activityEstimate(est)
      /\ activityEvents' = IF Panics(est) THEN activityEvents ELSE 1
      /\ UNCHANGED <<fixes, ciiConfig>>

(* aisCrosscheck: the estimate of the year of a report against its totals. *)
aisCrosscheck(w, distance, time) ==
  /\ w.to - w.from >= MsTicks     \* a year
  /\ activityReply' = Crosscheck(EstimateActivity(activityFixes(w), w), distance, time)
  /\ UNCHANGED <<fixes, ciiConfig, activityEvents>>

-----------------------------------------------------------------------------
(* The CII rating. *)

(* Mutant: the order of the boundaries is not looked at. *)
LoadAnyBoundaries(doc) == doc.cited /\ doc.field \in {"DWT", "GT"} /\ doc.years # {} /\ Len(doc.bounds) = 4

(* LoadCIIConfig: the documents that are accepted. *)
LoadCIIConfig(doc) ==
  /\ doc.cited
  /\ doc.field \in {"DWT", "GT"}
  /\ doc.years # {}
  /\ Len(doc.bounds) = 4
  /\ \A i \in 2 .. 4 : doc.bounds[i - 1] < doc.bounds[i]

Ratings == <<"A", "B", "C", "D">>

Boundary(doc, i) == (doc.required * doc.bounds[i]) \div Nano

ciiRating(attained, doc) ==
  LET hits == {i \in 1 .. 4 : attained <= Boundary(doc, i)}
  IN  IF hits = {} THEN "E" ELSE Ratings[Min(hits)]

Attained(doc, co2, distance) == (co2 * Nano) \div (CapacityOf[doc.field] * distance)

(* ComputeCII; required stands for (1 - z) * a * capacity^-c in fixed-point. *)
ComputeCII(config, year, co2, distance) ==
  IF \E doc \in config : /\ year \in doc.years /\ CapacityOf[doc.field] # 0 /\ distance # 0 /\ doc.required > 0
                         /\ Attained(doc, co2, distance) <= MaxU64
  THEN LET doc == CHOOSE d \in config : TRUE IN ciiRating(Attained(doc, co2, distance), doc)
  ELSE "NOT_COMPUTABLE"

(* CompileAnnualReport rates the year; getCII serves what was stored. *)
RateYear(year, co2, distance) ==
  /\ activityReply' = ComputeCII(ciiConfig, year, co2, distance)
  /\ UNCHANGED <<fixes, ciiConfig, activityEvents>>

-----------------------------------------------------------------------------
ActivityInit ==
  /\ fixes = <<>> /\ activityEvents = 0 /\ activityReply = "none"
  /\ ciiConfig \in {{doc} : doc \in {d \in CIIConfigs : LoadCIIConfig(d)}} \cup {{}}

ActivityNext ==
  \/ \E at \in FixTimes, pos \in Positions, underway \in BOOLEAN : NewFix(at, pos, underway)
  \/ \E w \in Periods : \/ EstimateActivityForShip(w)
                        \/ \E distance \in {greatCircle(p, q) : p, q \in Positions}, time \in 0 .. 1 :
                             aisCrosscheck(w, distance, time)
  \/ \E year \in {1, 2}, co2, distance \in Amounts : RateYear(year, co2, distance)

ActivitySpec == ActivityInit /\ [][ActivityNext]_activityVars

-----------------------------------------------------------------------------
(* Properties. *)

(* Fixes i and j are in one segment: no gap between them exceeds SegmentGap. *)
SameSegment(seen, i, j) == \A k \in i + 1 .. j : seen[k].at - seen[k - 1].at <= SegmentGap

(* The legs of the documented method: consecutive pairs inside a segment whose later fix is under way. *)
UnderwayLegs(seen) ==
  {i \in 2 .. Len(seen) : SameSegment(seen, i - 1, i) /\ seen[i].underway /\ seen[i - 1].at < seen[i].at}

MetresUnderway(seen) == MapThenSumSet(LAMBDA i : Apart(seen[i - 1].pos, seen[i].pos), UnderwayLegs(seen))
TicksUnderway(seen) == MapThenSumSet(LAMBDA i : seen[i].at - seen[i - 1].at, UnderwayLegs(seen))

(***************************************************************************)
(* The loop of EstimateActivity against the documented method (activity.go *)
(* 10-17).  The distance is that of the legs that count, in millionths of  *)
(* a nautical mile, off by half a unit per leg at most.  The minutes never *)
(* exceed the time under way, nor that the window, and fall short of it by *)
(* less than a minute plus the second each leg may lose to truncation.     *)
(***************************************************************************)
EstimateFollowsMethod ==
  fixes # <<>> => \A w \in {x \in Periods : x.to - x.from >= MsTicks} :
    LET seen == activityFixes(w)
        est == EstimateActivity(seen, w)
        legs == Cardinality(UnderwayLegs(seen))
    IN  ~est.insufficient =>
          /\ Apart(est.distance * 1852, MetresUnderway(seen) * 1000000) <= 926 * legs
          /\ est.time * MinuteSeconds * SecondTicks <= TicksUnderway(seen)
          /\ TicksUnderway(seen) < (est.time * MinuteSeconds + MinuteSeconds + legs) * SecondTicks
          /\ TicksUnderway(seen) < w.to - w.from

(***************************************************************************)
(* A statement the code does not keep: the result of greatCircleMilliNM is *)
(* in milli-nautical miles (activity.go 143-146), as reported distances    *)
(* are (0012_mrv_core.sql 19-20).  It is a thousand times that.            *)
(***************************************************************************)
LegInMilliNauticalMiles ==
  \A p, q \in Positions : Apart(greatCircle(p, q) * 1852, Apart(p, q) * 1000) <= 926

(***************************************************************************)
(* With any configuration LoadCIIConfig accepts, the rating is one letter  *)
(* worse for every boundary the attained value exceeds.                    *)
(***************************************************************************)
RatingCountsBoundaries ==
  \A doc \in ciiConfig, co2 \in Amounts, distance \in Amounts \ {0} : CapacityOf[doc.field] # 0 =>
    LET attained == Attained(doc, co2, distance)
        exceeded == Cardinality({i \in 1 .. 4 : Boundary(doc, i) < attained})
    IN  ciiRating(attained, doc) = Append(Ratings, "E")[exceeded + 1]
=============================================================================
