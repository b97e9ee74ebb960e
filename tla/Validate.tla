------------------------------ MODULE Validate ------------------------------
(***************************************************************************)
(* The sanity filter of internal/validate: the stateless checks on one     *)
(* position report, and the comparison of two consecutive fixes.           *)
(*                                                                         *)
(* A report is a record with the fields of validate.PositionReport that    *)
(* the checks read:                                                        *)
(*   source    the source class                                            *)
(*   mmsi      "ok" (nine digits), "bad" (anything else) or "none" (empty) *)
(*   vessel    the vessel the report is about (the MMSI digits, or the     *)
(*             vessel reference when there is no MMSI)                     *)
(*   receiver  the receiver id, "" when the connector sets none            *)
(*   lat, lon  micro-degrees, speed milliknots, course millidegrees        *)
(*   at        the observation time in seconds                             *)
(* and one for the fields the checks do not read, but the table does:      *)
(*   unfit     the columns among them whose value breaks its CHECK         *)
(***************************************************************************)
EXTENDS Integers, Sequences

maxLatitudeMicros == 90000000
maxLongitudeMicros == 180000000
sentinelLatitudeMicros == 91000000
sentinelLongitudeMicros == 181000000
speedNotAvailableMilliknots == 102300
maxPlausibleSpeedMilliknots == 60000
maxCourseMillidegrees == 360000

(***************************************************************************)
(* The columns that connectors fill as they come (the IMO number of the    *)
(* port community feed; status, message type and ship name of the AIS      *)
(* stream; the receiver named in an NMEA tag) and no check looks at.       *)
(***************************************************************************)
UnreadColumns ==
  {"imo", "nav_status", "ais_message_type", "ship_name", "receiver_id"}

(* The reason codes of the quarantine records. *)
Reasons ==
  {"mmsi-format", "sentinel-latitude-91", "latitude-out-of-bounds", "sentinel-longitude-181",
   "longitude-out-of-bounds", "null-island", "speed-not-available-sentinel", "impossible-speed",
   "course-out-of-bounds", "same-mmsi-bifurcation"}

Abs(n) == IF n < 0 THEN -n ELSE n

(* One check: its reason when it hits. *)
Finding(reason, hit) == IF hit THEN <<reason>> ELSE <<>>

(* Mutant: speed and course are not checked. *)
StaticChecksPositionOnly(r) ==
  Finding("mmsi-format", r.mmsi = "bad" \/ (r.mmsi = "none" /\ r.source # "APP_REPORT"))
  \o Finding("sentinel-latitude-91", Abs(r.lat) = sentinelLatitudeMicros)
  \o Finding("null-island", r.lat = 0 /\ r.lon = 0)

(***************************************************************************)
(* StaticChecks: every reason that applies, in the order of the code.  A   *)
(* sentinel value masks the bound check of the same field (else-if).       *)
(***************************************************************************)
StaticChecks(r) ==
  Finding("mmsi-format", r.mmsi = "bad" \/ (r.mmsi = "none" /\ r.source # "APP_REPORT"))
  \o Finding("sentinel-latitude-91", Abs(r.lat) = sentinelLatitudeMicros)
  \o Finding("latitude-out-of-bounds",
       Abs(r.lat) # sentinelLatitudeMicros /\ Abs(r.lat) > maxLatitudeMicros)
  \o Finding("sentinel-longitude-181", Abs(r.lon) = sentinelLongitudeMicros)
  \o Finding("longitude-out-of-bounds",
       Abs(r.lon) # sentinelLongitudeMicros /\ Abs(r.lon) > maxLongitudeMicros)
  \o Finding("null-island", r.lat = 0 /\ r.lon = 0)
  \o Finding("speed-not-available-sentinel", r.speed = speedNotAvailableMilliknots)
  \o Finding("impossible-speed",
       r.speed # speedNotAvailableMilliknots /\ r.speed > maxPlausibleSpeedMilliknots)
  \o Finding("course-out-of-bounds", r.course > maxCourseMillidegrees)

(* The key under which the tracker remembers a vessel's previous fix. *)
vesselKey(r) ==
  IF r.mmsi # "none" THEN <<"mmsi", r.vessel>> ELSE <<"ref", r.source, r.receiver>>

(***************************************************************************)
(* The speed test of CheckConsecutive.  The great-circle distance is       *)
(* replaced by the larger coordinate difference, and 60 knots by 278       *)
(* micro-degrees per second (60 kn is 30.9 m/s, and a micro-degree of      *)
(* latitude is 0.111 m): what the checks tell apart is only whether a      *)
(* displacement fits the elapsed time.                                     *)
(***************************************************************************)
plausibleMicrosPerSecond == 278

Displacement(a, b) ==
  IF Abs(a.lat - b.lat) >= Abs(a.lon - b.lon) THEN Abs(a.lat - b.lat) ELSE Abs(a.lon - b.lon)

(* An out-of-order or equal timestamp never proves a bifurcation. *)
Bifurcates(previous, r) ==
  /\ r.at > previous.at
  /\ Displacement(previous, r) > plausibleMicrosPerSecond * (r.at - previous.at)
=============================================================================
