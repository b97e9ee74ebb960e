----------------------------- MODULE FenceTrack -----------------------------
(***************************************************************************)
(* FenceEngine with a history of the accepted reports of each vessel and   *)
(* the events they caused, to state what a DWELL event says of the track.  *)
(***************************************************************************)
EXTENDS FenceEngine, Sequences

CONSTANT MaxReports   \* bound: accepted reports of one vessel

VARIABLE track

Entry(inside, speed, at) == [at |-> at, inside |-> inside, speed |-> speed, events |-> out']

TrackInit == Init /\ track = [v \in Vessels |-> <<>>]

TrackNext ==
  \E v \in Vessels, at \in Times :
    \/ Ignore(v, at) /\ UNCHANGED track
    \/ \E inside \in SUBSET Fences, speed \in Speeds, active \in ActiveSets :
         /\ Len(track[v]) < MaxReports
         /\ Observe(v, inside, speed, at, active)
         /\ track' = [track EXCEPT ![v] = Append(@, Entry(inside, speed, at))]

TrackSpec == TrackInit /\ [][TrackNext]_<<vars, track>>

-----------------------------------------------------------------------------
Slow(entry, f) == entry.speed >= 0 /\ entry.speed <= Gate[f]
NotFast(entry, f) == entry.speed <= Gate[f]

(* From report i to report j the vessel was seen only inside f, over the threshold time. *)
LongStay(v, f, i, j) ==
  /\ \A k \in i..j : f \in track[v][k].inside
  /\ track[v][j].at - track[v][i].at >= Threshold[f]

(* Report j emits a DWELL of f. *)
DwellAt(v, f, j) == j \in DOMAIN track[v] /\ "DWELL" \in track[v][j].events[f]

(* Reports i to j earn a DWELL: none above the gate, the first and last slow. *)
Earned(v, f, i, j) ==
  /\ LongStay(v, f, i, j)
  /\ Slow(track[v][i], f) /\ Slow(track[v][j], f)
  /\ \A k \in i..j : NotFast(track[v][k], f)

(* Reports i to j demand a DWELL: every one of them is known to be slow. *)
Demanded(v, f, i, j) ==
  /\ Threshold[f] > 0 /\ i <= j /\ j \in DOMAIN track[v]
  /\ LongStay(v, f, i, j)
  /\ \A k \in i..j : Slow(track[v][k], f)

(***************************************************************************)
(* A DWELL is earned, and none is missed.  Where one is emitted the        *)
(* vessel's reports over at least the threshold time were all inside the   *)
(* fence, none of them above the speed gate, the first and the last known  *)
(* to be slow.  When reports i to j were all inside, all known to be slow  *)
(* and span the threshold, a DWELL has been emitted by j, since the entry  *)
(* that began the stay.                                                    *)
(***************************************************************************)
DwellExactlyEarned ==
  \A v \in Vessels, f \in Fences, j \in 1..MaxReports :
    /\ DwellAt(v, f, j) => \E i \in 1..j : Earned(v, f, i, j)
    /\ (\E i \in 1..j : Demanded(v, f, i, j)) =>
         \E d \in 1..j : /\ DwellAt(v, f, d)
                         /\ \A k \in (d + 1)..j : "ENTER" \notin track[v][k].events[f]

-----------------------------------------------------------------------------
(* Statements of the repository that the code does not keep. *)

(***************************************************************************)
(* "Unknown speed never counts toward dwell": every report in the stretch  *)
(* that earns a DWELL has a known speed.                                   *)
(***************************************************************************)
DwellOnKnownSpeed ==
  \A v \in Vessels, f \in Fences, j \in 1..MaxReports :
    j \in DOMAIN track[v] /\ "DWELL" \in track[v][j].events[f] =>
      \E i \in 1..j : LongStay(v, f, i, j) /\ \A k \in i..j : Slow(track[v][k], f)
=============================================================================
