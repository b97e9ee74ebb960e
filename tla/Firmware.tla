------------------------------- MODULE Firmware -------------------------------
(***************************************************************************)
(* Staged firmware of internal/devices: releases are inserted by           *)
(* transactions whose created_at is their start, and a device that asks    *)
(* is offered the first release of the list it is eligible for.  A release *)
(* is the set of devices its rollout percentage reaches, which             *)
(* RolloutBucket fixes, and the least key epoch it asks for; no operation  *)
(* changes a release.                                                      *)
(*                                                                         *)
(* A fetch reads the device row, the key and the list of releases in three *)
(* statements of their own; a device may have several fetches under way,   *)
(* and rotations and releases commit in between.                           *)
(***************************************************************************)
EXTENDS Naturals, Sequences

CONSTANTS
  Fleet,                     \* the devices of one tenant and kind
  Fetches,                   \* requests for firmware that run at the same time
  MaxReleases, MaxKeyEpoch   \* bounds

ASSUME FirmwareAssumption == {MaxReleases, MaxKeyEpoch} \subseteq Nat \ {0}

VARIABLES
  started,    \* releases whose transaction has begun: created_at is 1 .. started
  releases,   \* firmware_releases in order of commit
  keyEpoch,   \* the key epoch of each device
  fetch,      \* fetch[q]: how far request q has come
  newest      \* history: created_at of the newest release each device was offered, 0 for none

firmwareVars == <<started, releases, keyEpoch, fetch, newest>>

NoFetch == [pc |-> "idle"]

FirmwareInit ==
  /\ started = 0 /\ releases = <<>>
  /\ keyEpoch = [d \in Fleet |-> 1]
  /\ fetch = [q \in Fetches |-> NoFetch]
  /\ newest = [d \in Fleet |-> 0]

BeginRelease ==
  /\ started < MaxReleases
  /\ started' = started + 1
  /\ UNCHANGED <<releases, keyEpoch, fetch, newest>>

(* CreateFirmwareRelease commits; min_epoch is at least 1. *)
CreateFirmwareRelease(created, reach, minEpoch) ==
  /\ \A i \in DOMAIN releases : releases[i].created # created
  /\ releases' = Append(releases, [created |-> created, reach |-> reach, minEpoch |-> minEpoch])
  /\ UNCHANGED <<started, keyEpoch, fetch, newest>>

(* A rotation of the device's key is approved. *)
RotateEpoch(d) ==
  /\ keyEpoch[d] < MaxKeyEpoch
  /\ keyEpoch' = [keyEpoch EXCEPT ![d] = @ + 1]
  /\ UNCHANGED <<started, releases, fetch, newest>>

(* Mutant: the list is in the order in which releases became visible. *)
ListedByCommit(i, j) == i > j

(* ListReleasesForKind: ORDER BY created_at DESC lists release i before j. *)
ListedBefore(i, j) == releases[i].created > releases[j].created

Eligible(d, epoch, i) == epoch >= releases[i].minEpoch /\ d \in releases[i].reach

(* SelectRelease returns at the first release of the list the device is eligible for. *)
SelectRelease(d, epoch, i) ==
  Eligible(d, epoch, i) /\ \A j \in DOMAIN releases : ListedBefore(j, i) => ~Eligible(d, epoch, j)

(***************************************************************************)
(* serveFirmware.  VerifyProof reads the device row, with the key epoch    *)
(* that SelectRelease will compare; what the device had been offered by    *)
(* then is remembered for the property.                                    *)
(***************************************************************************)
readDevice(q, d) ==
  /\ fetch[q].pc \in {"idle", "done"}
  /\ fetch' = [fetch EXCEPT ![q] = [pc |-> "key", device |-> d, epoch |-> keyEpoch[d], floor |-> newest[d]]]
  /\ UNCHANGED <<started, releases, keyEpoch, newest>>

(* The key of the proof is read: current, or previous and within its grace. *)
readKey(q) ==
  /\ fetch[q].pc = "key"
  /\ fetch' = [fetch EXCEPT ![q].pc = "list"]
  /\ UNCHANGED <<started, releases, keyEpoch, newest>>

(* The proof is refused, or a query fails. *)
fetchFails(q) ==
  /\ fetch[q].pc \in {"key", "list"}
  /\ fetch' = [fetch EXCEPT ![q] = NoFetch]
  /\ UNCHANGED <<started, releases, keyEpoch, newest>>

Offer(q, created) ==
  LET d == fetch[q].device
  IN  /\ fetch' = [fetch EXCEPT ![q] = [pc |-> "done", device |-> d, floor |-> fetch[q].floor, offer |-> created]]
      /\ newest' = [newest EXCEPT ![d] = IF created > newest[d] THEN created ELSE newest[d]]

(* The releases are listed and the answer follows from the list: 204, or the manifest of one. *)
serveFirmware(q) ==
  /\ fetch[q].pc = "list"
  /\ \/ /\ \A i \in DOMAIN releases : ~Eligible(fetch[q].device, fetch[q].epoch, i)
        /\ Offer(q, 0)
     \/ \E i \in DOMAIN releases :
          SelectRelease(fetch[q].device, fetch[q].epoch, i) /\ Offer(q, releases[i].created)
  /\ UNCHANGED <<started, releases, keyEpoch>>

FirmwareNext ==
  \/ BeginRelease
  \/ \E created \in 1 .. started, reach \in SUBSET Fleet, minEpoch \in 1 .. MaxKeyEpoch :
       CreateFirmwareRelease(created, reach, minEpoch)
  \/ \E d \in Fleet : RotateEpoch(d)
  \/ \E q \in Fetches :
       (\E d \in Fleet : readDevice(q, d)) \/ readKey(q) \/ fetchFails(q) \/ serveFirmware(q)

FirmwareSpec == FirmwareInit /\ [][FirmwareNext]_firmwareVars

(***************************************************************************)
(* A fetch is never answered with an older release, or with none, than the *)
(* device had been offered when the fetch began: not by the stale epoch it *)
(* read before rotations and further fetches, and not by releases that     *)
(* become visible in another order than that of their created_at.          *)
(***************************************************************************)
OfferNeverOlder == \A q \in Fetches : fetch[q].pc = "done" => fetch[q].offer >= fetch[q].floor

(***************************************************************************)
(* What overlapping fetches do not keep: a fetch that read the device      *)
(* before a rotation answers after one that read it later, and the device  *)
(* is offered the older release last ("picks the newest release the device *)
(* is eligible for", devices/manifest.go 43).                              *)
(***************************************************************************)
LastOfferIsNewest ==
  [][\A q \in Fetches : fetch[q].pc = "list" /\ fetch'[q].pc = "done"
       => fetch'[q].offer >= newest[fetch[q].device]]_firmwareVars
=============================================================================
