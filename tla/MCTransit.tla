------------------------------ MODULE MCTransit ------------------------------
(* A small instance of Transit: one route, two seed documents, six vessel tracks. *)
EXTENDS Transit

MCVisit(stop, arrival, departure) == [stop |-> stop, arrival |-> arrival, departure |-> departure]

(* A registry of one route, and a second document that adds a trip, changes the first *)
(* one and ends with a schedule that decreases.                                       *)
MCDocuments == {
  << [table |-> "agencies", agency |-> "a", offset |-> 1],
     [table |-> "routes", route |-> "r", agency |-> "a", active |-> TRUE, defaultSpeed |-> 1],
     [table |-> "stops", stop |-> "s", at |-> 0],
     [table |-> "stops", stop |-> "t", at |-> 4],
     [table |-> "calendars", service |-> "c", days |-> {0}],
     [table |-> "trips", trip |-> 1, route |-> "r", service |-> "c"],
     [table |-> "stopTimes", trip |-> 1, visits |-> <<MCVisit("s", 2, 3), MCVisit("t", 5, 5)>>],
     [table |-> "assignments", route |-> "r", mmsi |-> "v", from |-> 0, to |-> 9] >>,
  << [table |-> "stops", stop |-> "u", at |-> 2],
     [table |-> "trips", trip |-> 2, route |-> "r", service |-> "c"],
     [table |-> "stopTimes", trip |-> 1,
      visits |-> <<MCVisit("s", 2, 3), MCVisit("u", 4, 4), MCVisit("s", 6, 6)>>],
     [table |-> "stopTimes", trip |-> 2, visits |-> <<MCVisit("u", 4, 4), MCVisit("s", 3, 3)>>] >> }

MCFix(age, at, speed, samples) ==
  [known |-> TRUE, age |-> age, at |-> at, speed |-> speed, samples |-> samples]

(* No fix, a stale one, one stopped at a stop, one of unknown speed, one under way, one off the route. *)
MCFixes ==
  {NoFix, MCFix(2, 0, 0, <<>>), MCFix(1, 0, 0, <<0, 1>>), MCFix(1, 3, -1, <<>>),
   MCFix(0, 1, 2, <<3, 1, 2>>), MCFix(0, 6, 2, <<2>>)}

MCAlertForms == {[id |-> "x", route |-> "r", stop |-> "", starts |-> 0, ends |-> 4]}
=============================================================================
