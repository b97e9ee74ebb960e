--------------------------------- MODULE Hub ---------------------------------
(***************************************************************************)
(* The fan-out hub of internal/realtime behind GET /v1/geo/stream.  A      *)
(* publisher offers its event to one shard after another, each under the   *)
(* shard's lock; a subscriber whose queue is full is dropped by closing    *)
(* its channel.  Subscribe, the deferred cancel of ServeSSE and Shutdown   *)
(* take the same locks.  An event is a number, its label is LabelOf.       *)
(***************************************************************************)
EXTENDS Naturals, Sequences, FiniteSets

CONSTANTS
  Streams,           \* requests to GET /v1/geo/stream, each served once
  Publishers,        \* goroutines of the pipeline that broadcast
  Labels, LabelOf,   \* classification labels; the label of each event
  Clearances,        \* sets of labels a clearance covers
  HubShards,         \* hubShardCount
  HubQueue,          \* capacity of a subscriber's channel
  MaxEvents          \* bound: events published

ASSUME HubAssumption ==
  /\ {HubShards, HubQueue, MaxEvents} \subseteq Nat \ {0}
  /\ LabelOf \in [1 .. MaxEvents -> Labels]
  /\ Clearances \subseteq SUBSET Labels

VARIABLES
  nextID,       \* the last subscriber id given out
  stream,       \* stream[s]: what the serving goroutine and its channel are doing
  fanout,       \* fanout[p]: the event and the next shard of a Publish, event 0 for none
  events,       \* events published so far
  shutShard     \* the next shard of Shutdown, HubShards + 1 before it begins

hubVars == <<nextID, stream, fanout, events, shutShard>>

(* stage: "new", "open" (ServeSSE is in its loop), "told" (it has read that  *)
(* the channel is closed and said so), "ended"; listed: the shard holds it; *)
(* closes: calls of close on its channel; offered: cleared events its shard *)
(* fanned out since it subscribed.                                          *)
NoStream ==
  [stage |-> "new", id |-> 0, cleared |-> {}, listed |-> FALSE, closes |-> 0,
   queue |-> <<>>, written |-> <<>>, offered |-> <<>>]

HubInit ==
  /\ nextID = 0
  /\ stream = [s \in Streams |-> NoStream]
  /\ fanout = [p \in Publishers |-> [event |-> 0, shard |-> 0]]
  /\ events = 0
  /\ shutShard = HubShards + 1

Shard(id) == id % HubShards

(* Subscribe(clearedLabels), with the opening lines of ServeSSE. *)
Subscribe(s, cleared) ==
  /\ stream[s].stage = "new"
  /\ nextID' = nextID + 1
  /\ stream' = [stream EXCEPT ![s] =
       [@ EXCEPT !.stage = "open", !.id = nextID', !.cleared = cleared, !.listed = TRUE]]
  /\ UNCHANGED <<fanout, events, shutShard>>

(* BroadcastPipeline: the event has a known label and a payload that encodes. *)
BroadcastPipeline(p) ==
  /\ fanout[p].event = 0 /\ events < MaxEvents
  /\ events' = events + 1
  /\ fanout' = [fanout EXCEPT ![p] = [event |-> events', shard |-> 0]]
  /\ UNCHANGED <<nextID, stream, shutShard>>

(* Mutant: a full queue loses the event and keeps the subscriber. *)
OfferDroppingEvent(sub, e) ==
  [sub EXCEPT !.offered = Append(@, e),
              !.queue = IF Len(sub.queue) < HubQueue THEN Append(@, e) ELSE @]

(* select { case sub.events <- event: default: close and delete }. *)
Offer(sub, e) ==
  IF Len(sub.queue) < HubQueue
  THEN [sub EXCEPT !.offered = Append(@, e), !.queue = Append(@, e)]
  ELSE [sub EXCEPT !.offered = Append(@, e), !.closes = @ + 1, !.listed = FALSE]

(* Publish: one shard, under its lock. *)
Publish(p) ==
  LET e == fanout[p].event
      reached == {s \in Streams : /\ stream[s].listed
                                  /\ Shard(stream[s].id) = fanout[p].shard
                                  /\ LabelOf[e] \in stream[s].cleared}
  IN  /\ e # 0
      /\ stream' = [s \in Streams |-> IF s \in reached THEN Offer(stream[s], e) ELSE stream[s]]
      /\ fanout' = [fanout EXCEPT ![p] =
           IF @.shard + 1 < HubShards THEN [event |-> e, shard |-> @.shard + 1] ELSE [event |-> 0, shard |-> 0]]
      /\ UNCHANGED <<nextID, events, shutShard>>

(* ServeSSE takes an event from its channel and writes it. *)
WriteEvent(s) ==
  /\ stream[s].stage = "open" /\ stream[s].queue # <<>>
  /\ stream' = [stream EXCEPT ![s].queue = Tail(@), ![s].written = Append(@, Head(stream[s].queue))]
  /\ UNCHANGED <<nextID, fanout, events, shutShard>>

(* ServeSSE finds the channel closed and drained, says SLOW_CONSUMER, returns. *)
WriteStreamError(s) ==
  /\ stream[s].stage = "open" /\ stream[s].queue = <<>> /\ stream[s].closes > 0
  /\ stream' = [stream EXCEPT ![s].stage = "told"]
  /\ UNCHANGED <<nextID, fanout, events, shutShard>>

(* cancel: closes the channel only if the shard still holds the subscriber. *)
Cancel(sub) ==
  IF sub.listed
  THEN [sub EXCEPT !.closes = @ + 1, !.listed = FALSE, !.stage = "ended"]
  ELSE [sub EXCEPT !.stage = "ended"]

(* The loop is left, after the notice or because the request's context is *)
(* done, and the deferred cancel runs.                                    *)
ServeSSE(s) ==
  /\ stream[s].stage \in {"open", "told"}
  /\ stream' = [stream EXCEPT ![s] = Cancel(@)]
  /\ UNCHANGED <<nextID, fanout, events, shutShard>>

BeginShutdown ==
  /\ shutShard = HubShards + 1
  /\ shutShard' = 0
  /\ UNCHANGED <<nextID, stream, fanout, events>>

(* Shutdown: one shard, under its lock. *)
Shutdown ==
  LET held == {s \in Streams : stream[s].listed /\ Shard(stream[s].id) = shutShard}
  IN  /\ shutShard < HubShards
      /\ shutShard' = shutShard + 1
      /\ stream' = [s \in Streams |->
           IF s \in held THEN [stream[s] EXCEPT !.closes = @ + 1, !.listed = FALSE] ELSE stream[s]]
      /\ UNCHANGED <<nextID, fanout, events>>

HubNext ==
  \/ \E s \in Streams :
       \/ \E cleared \in Clearances : Subscribe(s, cleared)
       \/ WriteEvent(s) \/ WriteStreamError(s) \/ ServeSSE(s)
  \/ \E p \in Publishers : BroadcastPipeline(p) \/ Publish(p)
  \/ BeginShutdown \/ Shutdown

HubSpec == HubInit /\ [][HubNext]_hubVars

(***************************************************************************)
(* A stream has no silent hole: what the client was sent and what waits in *)
(* its channel are the first of the cleared events its shard fanned out,   *)
(* in that order, and all of them unless the channel is closed, which the  *)
(* client is told of.  However a drop, a departing client and a shutdown   *)
(* meet, no channel is closed twice or sent to once closed, which would    *)
(* panic.                                                                  *)
(***************************************************************************)
StreamHasNoHole ==
  \A s \in Streams :
    LET got == stream[s].written \o stream[s].queue IN
      /\ IF stream[s].closes > 0 THEN Len(got) <= Len(stream[s].offered) ELSE got = stream[s].offered
      /\ got = SubSeq(stream[s].offered, 1, Len(got))
      /\ \A i \in DOMAIN got : LabelOf[got[i]] \in stream[s].cleared
      /\ stream[s].closes <= 1 /\ (stream[s].listed => stream[s].closes = 0)
=============================================================================
