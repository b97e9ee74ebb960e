-------------------------- MODULE MCIngestPipeline --------------------------
(* Small instances of IngestPipeline. *)
EXTENDS IngestPipeline, SequencesExt

Report(source, mmsi, vessel, receiver, lat, at) ==
  [source |-> source, mmsi |-> mmsi, vessel |-> vessel, receiver |-> receiver,
   lat |-> lat, lon |-> 3400000, speed |-> 8000, course |-> 90000, at |-> at,
   unfit |-> {}]

(* One frame of vessel a heard by two receivers, and a later one. *)
first == Report("AIS", "ok", "a", "rx1", 6400000, 10)
firstCopy == Report("AIS", "ok", "a", "rx2", 6400000, 10)
later == Report("AIS", "ok", "a", "rx1", 6401000, 20)

(* Boat b reports from the app: near, away and back; then a boat far off. *)
near == Report("APP_REPORT", "none", "b", "", 6400000, 10)
away == Report("APP_REPORT", "none", "b", "", 6401000, 20)
back == Report("APP_REPORT", "none", "b", "", 6400000, 30)
faroff == Report("APP_REPORT", "none", "c", "", 7400000, 15)

(* An AIS report with two findings. *)
garbled == [Report("AIS", "ok", "d", "rx1", 6400000, 10) EXCEPT !.speed = 102300, !.course = 360001]

(* A row of the port community feed with an IMO number of six digits. *)
misnumbered == [Report("AIS", "ok", "e", "pcs-ais-import", 6400000, 10) EXCEPT !.unfit = {"imo"}]

RaceReports == {first, firstCopy, later}
FaultReports == {near, away, back, faroff, garbled, misnumbered}
DuplicateReports == {first, firstCopy}

(* The zones cover the place of first, near and back, not that of later and away. *)
MCInside == [r \in Reports |-> IF r.lat = 6400000 THEN Zones ELSE {}]
MCSorted == [S \in SUBSET Transitions |-> SetToSeq(S)]
MCMaker == [z \in Zones |-> "maker"]
=============================================================================
