-------------------------------- MODULE Devices --------------------------------
(***************************************************************************)
(* The device plane of internal/devices: provisioning and key rotation     *)
(* under four eyes, device status, activation and verify-at-ingest.        *)
(*                                                                         *)
(* An administrator's request is a transaction that locks the row of the   *)
(* provisioning request, then the row of the device.  The verifier reads   *)
(* the device and the key in two statements outside any transaction.  A    *)
(* key is identified by its epoch, the index in keys[d]; the database and  *)
(* the verifier share one clock.  The audit ledger, which is written after *)
(* the fact and read by no code, is left out.                              *)
(***************************************************************************)
EXTENDS Naturals, FiniteSets, Sequences, Requests

CONSTANTS
  DeviceIds,       \* identities of devices
  Makers, Checkers,  \* administrators who request, and who decide; one may be both
  AdminCallers,    \* administrative requests that run at the same time
  Verifiers,       \* device requests that run at the same time
  Grace,           \* the rotation grace window
  MaxClock, MaxAdminRequests, MaxEpoch   \* bounds

ASSUME DevicesAssumption == Grace \in Nat /\ {MaxClock, MaxAdminRequests, MaxEpoch} \subseteq Nat \ {0}

VARIABLES
  device,      \* devices: device[d], NoDevice when there is no row
  keys,        \* device_keys by epoch
  requestsOf,  \* provisioning_requests in order of creation
  adminTx,     \* adminTx[c]: the transaction of caller c
  auth,        \* auth[v]: the device request of v
  answered,    \* the last answer of the service, NoAnswer once another request begins
  clock

registryVars == <<device, keys, requestsOf>>
deviceVars == <<registryVars, adminTx, auth, answered, clock>>

NoDevice == [status |-> "NONE", epoch |-> 0]
Statuses == {"ACTIVE", "SUSPENDED", "REVOKED", "DECOMMISSIONED"}
Terminal == {"REVOKED", "DECOMMISSIONED"}

(* An answer is the status of a checker, or where the request of a device went; usable is *)
(* history, for the properties.                                                           *)
NoAnswer == [status |-> 0, to |-> "nowhere", usable |-> FALSE]

DevicesInit ==
  /\ device = [d \in DeviceIds |-> NoDevice]
  /\ keys = [d \in DeviceIds |-> <<>>]
  /\ requestsOf = <<>>
  /\ adminTx = [c \in AdminCallers |-> [pc |-> "done"]]
  /\ auth = [v \in Verifiers |-> [pc |-> "done"]]
  /\ answered = NoAnswer
  /\ clock = 0

(* The registry dev, ks lets epoch of d authenticate now. *)
UsableIn(dev, ks, d, epoch) ==
  /\ dev[d].status = "ACTIVE" /\ epoch \in DOMAIN ks[d]
  /\ LET key == ks[d][epoch]
     IN  \/ key.status = "CURRENT"
         \/ key.status = "PREVIOUS" /\ clock - key.at <= Grace

(* History, for the properties: whether the key of a device request that is under way *)
(* has been usable at some moment since the request read the device.                  *)
Observe ==
  auth' = [v \in Verifiers |->
    IF auth[v].pc = "key"
    THEN [auth[v] EXCEPT !.usable = @ \/ UsableIn(device', keys', auth[v].device, auth[v].epoch)] ELSE auth[v]]

-----------------------------------------------------------------------------
(* Makers. *)

(* insertRequest: the row is PENDING until a checker decides. *)
insertRequest(type, d, maker) ==
  /\ Len(requestsOf) < MaxAdminRequests
  /\ requestsOf' = Append(requestsOf, [type |-> type, device |-> d, maker |-> maker, status |-> "PENDING"])
  /\ UNCHANGED <<device, keys, adminTx, auth, answered, clock>>

CreateProvisionRequest(d, maker) == insertRequest("PROVISION", d, maker)
CreateRotationRequest(d, maker) == insertRequest("ROTATE", d, maker)

(* createProvisionRequest; d stands for the identity the device will get. *)
createProvisionRequest(d, maker) ==
  /\ \A i \in DOMAIN requestsOf : requestsOf[i].type = "ROTATE" \/ requestsOf[i].device # d
  /\ CreateProvisionRequest(d, maker)

(* requestRotation: the device must exist, in any status. *)
requestRotation(d, maker) == device[d] # NoDevice /\ CreateRotationRequest(d, maker)

-----------------------------------------------------------------------------
(* Checkers.  A transaction begins, which fixes its now(); the first statement locks the request. *)

BeginDecision(c) ==
  /\ adminTx[c].pc = "done"
  /\ adminTx' = [adminTx EXCEPT ![c] = [pc |-> "request", at |-> clock]]
  /\ answered' = NoAnswer
  /\ UNCHANGED <<registryVars, auth, clock>>

RequestLocked(r) == \E c \in AdminCallers : adminTx[c].pc \in {"device", "rotate"} /\ adminTx[c].row = r

ProvisionError(r, checker) ==
  FirstError(<< <<requestsOf[r].maker = checker, "ErrMakerChecker">>,
                <<requestsOf[r].status # "PENDING", "ErrRequestNotPending">> >>)

(* The handlers: what a checker is answered. *)
approveProvisionRequest(err) ==
  CASE err = "nil" -> 200 [] err \in {"ErrMakerChecker", "ErrRequestNotPending"} -> 409 [] OTHER -> 500

rejectProvisionRequest(err) == approveProvisionRequest(err)

(* approveRotation reads the request first, in a transaction of its own. *)
approveRotation(r) == IF requestsOf[r].type = "ROTATE" THEN "nil" ELSE "not a rotation of this device"

Finish(c, status) ==
  /\ adminTx' = [adminTx EXCEPT ![c] = [pc |-> "done"]]
  /\ answered' = [NoAnswer EXCEPT !.status = status]

(* RejectRequest. *)
RejectRequest(c, r, checker) ==
  LET err == ProvisionError(r, checker)
  IN  /\ adminTx[c].pc = "request" /\ ~RequestLocked(r)
      /\ requestsOf' = IF err = "nil" THEN [requestsOf EXCEPT ![r].status = "REJECTED"] ELSE requestsOf
      /\ Finish(c, rejectProvisionRequest(err))
      /\ UNCHANGED <<device, keys, auth, clock>>

(* ApproveRequest of a provisioning: device, first key and secret in one transaction. *)
ApproveRequest(c, r, checker) ==
  LET d == requestsOf[r].device
      err == ProvisionError(r, checker)
  IN  /\ adminTx[c].pc = "request" /\ ~RequestLocked(r)
      /\ requestsOf[r].type = "PROVISION" \/ err # "nil"
      /\ IF err = "nil"
         THEN /\ device' = [device EXCEPT ![d] = [status |-> "ACTIVE", epoch |-> 1]]
              /\ keys' = [keys EXCEPT ![d] = <<[status |-> "CURRENT", at |-> adminTx[c].at]>>]
              /\ requestsOf' = [requestsOf EXCEPT ![r].status = "APPROVED"]
         ELSE UNCHANGED registryVars
      /\ Finish(c, approveProvisionRequest(err))
      /\ Observe /\ UNCHANGED clock

(* ApproveRequest of a rotation: the request row is locked and checked. *)
LockRotationRequest(c, r, checker) ==
  /\ adminTx[c].pc = "request" /\ ~RequestLocked(r)
  /\ requestsOf[r].type = "ROTATE" /\ ProvisionError(r, checker) = "nil"
  /\ adminTx' = [adminTx EXCEPT ![c] = [pc |-> "device", at |-> @.at, row |-> r]]
  /\ UNCHANGED <<registryVars, auth, answered, clock>>

(* Mutant: the rotation reads the device without FOR UPDATE. *)
NeverLocked(d) == FALSE

(* The row lock that applyRotation holds until it commits. *)
DeviceLocked(d) == \E c \in AdminCallers : adminTx[c].pc = "rotate" /\ requestsOf[adminTx[c].row].device = d

(* applyRotation: SELECT key_epoch, status ... FOR UPDATE. *)
LockForRotation(c) ==
  LET d == requestsOf[adminTx[c].row].device
  IN  /\ adminTx[c].pc = "device" /\ ~DeviceLocked(d)
      /\ IF device[d].status = "ACTIVE"
         THEN /\ adminTx' = [adminTx EXCEPT ![c] = [pc |-> "rotate", at |-> @.at, row |-> @.row, epoch |-> device[d].epoch]]
              /\ UNCHANGED answered
         ELSE Finish(c, approveProvisionRequest("not active"))
      /\ UNCHANGED <<registryVars, auth, clock>>

(* Mutant: the key that is replaced is revoked at once. *)
RotateKeyAtOnce(key, now) == [key EXCEPT !.status = "REVOKED"]

(* The two updates of applyRotation on a key: expired PREVIOUS, then CURRENT. *)
RotateKey(key, now) ==
  CASE key.status = "PREVIOUS" /\ key.at + Grace < now -> [key EXCEPT !.status = "REVOKED"]
    [] key.status = "CURRENT" -> [status |-> "PREVIOUS", at |-> now]
    [] OTHER -> key

(* applyRotation: the writes and the commit, under the primary key (device_id, epoch). *)
applyRotation(c) ==
  LET r == adminTx[c].row
      d == requestsOf[r].device
      now == adminTx[c].at
  IN  /\ adminTx[c].pc = "rotate"
      /\ IF adminTx[c].epoch + 1 > Len(keys[d])
         THEN /\ keys' = [keys EXCEPT ![d] =
                   Append([e \in DOMAIN @ |-> RotateKey(@[e], now)], [status |-> "CURRENT", at |-> now])]
              /\ device' = [device EXCEPT ![d].epoch = adminTx[c].epoch + 1]
              /\ requestsOf' = [requestsOf EXCEPT ![r].status = "APPROVED"]
              /\ Finish(c, approveProvisionRequest("nil"))
         ELSE Finish(c, approveProvisionRequest("duplicate key")) /\ UNCHANGED registryVars
      /\ Observe /\ UNCHANGED clock

(* approveRotation of a request that is no rotation of the device: 409 before any transaction. *)
RefuseRotation(c, r) ==
  /\ adminTx[c].pc = "done" /\ approveRotation(r) # "nil"
  /\ Finish(c, 409)
  /\ UNCHANGED <<registryVars, auth, clock>>

(* A statement, the commit or the connection fails. *)
AbortDecision(c) ==
  /\ adminTx[c].pc # "done"
  /\ Finish(c, 500)
  /\ UNCHANGED <<registryVars, auth, clock>>

-----------------------------------------------------------------------------
(* Device status and activation. *)

ValidateStatusTransition(from, to) == from # to /\ from \notin Terminal

(* setDeviceStatus: every refusal but an unknown device is a conflict. *)
setDeviceStatus(d, target) ==
  IF device[d] = NoDevice THEN 404
  ELSE IF ValidateStatusTransition(device[d].status, target) THEN 200 ELSE 409

(* SetDeviceStatus: a terminal status revokes every key. *)
SetDeviceStatus(d, target) ==
  /\ ~DeviceLocked(d) /\ setDeviceStatus(d, target) = 200
  /\ device' = [device EXCEPT ![d].status = target]
  /\ keys' = IF target \in Terminal
             THEN [keys EXCEPT ![d] = [e \in DOMAIN @ |-> [@[e] EXCEPT !.status = "REVOKED"]]] ELSE keys
  /\ Observe /\ UNCHANGED <<requestsOf, adminTx, answered, clock>>

(* activate. *)
activate(r) == IF requestsOf[r].status = "APPROVED" /\ requestsOf[r].type = "PROVISION" THEN 200 ELSE 409

(* ConsumeActivation: one conditional UPDATE; a rotation has no secret. *)
ConsumeActivation(r) ==
  /\ activate(r) = 200 /\ ~RequestLocked(r)
  /\ requestsOf' = [requestsOf EXCEPT ![r].status = "CONSUMED"]
  /\ UNCHANGED <<device, keys, adminTx, auth, answered, clock>>

-----------------------------------------------------------------------------
(* Device requests: telemetry envelopes, and proofs for the MQTT broker. *)

(* ingestTelemetry, forwardTelemetry and deadLetter: where the envelope goes, "nowhere" when *)
(* the device only gets an error; sent says the broker took it.                              *)
ingestTelemetry(err, supported, sent) ==
  CASE ~sent \/ err \in {"envelope_malformed", "device_unknown", "device_id_mismatch", "unavailable"} -> "nowhere"
    [] sent /\ err = "nil" /\ supported -> "events"
    [] OTHER -> "quarantine"

(* serveMQTTAuth. *)
serveMQTTAuth(err) == IF err = "nil" THEN "allow" ELSE "deny"

Accepting == {"events", "allow"}

End(v, to, usable) ==
  /\ auth' = [auth EXCEPT ![v] = [pc |-> "done"]]
  /\ answered' = [NoAnswer EXCEPT !.to = to, !.usable = usable /\ to \in Accepting]

StatusError(status) ==
  CASE status = "NONE" -> "device_unknown" [] status = "ACTIVE" -> "nil" [] status = "SUSPENDED" -> "device_suspended"
    [] status = "REVOKED" -> "device_revoked" [] OTHER -> "device_decommissioned"

(* The request ends with err before its key is read; the broker may not take a dead letter. *)
RefuseEarly(v, err) ==
  \E to \in {serveMQTTAuth(err), ingestTelemetry(err, TRUE, TRUE), ingestTelemetry(err, TRUE, FALSE)} :
    End(v, to, FALSE)

(* A request arrives that is malformed, names another device than its path does, or   *)
(* whose read of the device fails.                                                    *)
RefuseForm(v) ==
  /\ auth[v].pc = "done"
  /\ \E err \in {"envelope_malformed", "device_id_mismatch", "unavailable"} : RefuseEarly(v, err)
  /\ UNCHANGED <<registryVars, adminTx, clock>>

(* A request that names d and an epoch arrives.  authenticate: LoadDeviceForAuth. *)
LoadDevice(v, d, epoch) ==
  LET err == StatusError(device[d].status)
  IN  /\ auth[v].pc = "done"
      /\ \/ /\ err = "nil"
            /\ answered' = NoAnswer
            /\ auth' = [auth EXCEPT ![v] =
                 [pc |-> "key", device |-> d, epoch |-> epoch, current |-> device[d].epoch,
                  usable |-> UsableIn(device, keys, d, epoch)]]
         \/ err # "nil" /\ RefuseEarly(v, err)
      /\ UNCHANGED <<registryVars, adminTx, clock>>

(* Mutant: a PREVIOUS key is accepted until a rotation revokes it. *)
KeyErrorNoGrace(current, d, epoch) ==
  IF epoch \notin DOMAIN keys[d] THEN "key_epoch_unknown"
  ELSE LET key == keys[d][epoch]
       IN  CASE key.status = "CURRENT" -> IF epoch # current THEN "key_epoch_unknown" ELSE "nil"
             [] key.status = "PREVIOUS" -> "nil"
             [] OTHER -> "key_revoked"

(* authenticate: the gates on the key, against the device row read before. *)
KeyError(current, d, epoch) ==
  IF epoch \notin DOMAIN keys[d] THEN "key_epoch_unknown"
  ELSE LET key == keys[d][epoch]
       IN  CASE key.status = "CURRENT" -> IF epoch # current THEN "key_epoch_unknown" ELSE "nil"
             [] key.status = "PREVIOUS" -> IF clock - key.at > Grace THEN "key_grace_expired" ELSE "nil"
             [] OTHER -> "key_revoked"

(* LoadKey, whose query may fail, and the gates, then the signature. *)
AuthErrors(v) ==
  LET gate == KeyError(auth[v].current, auth[v].device, auth[v].epoch)
  IN  {"key_epoch_unknown"} \cup (IF gate # "nil" THEN {gate} ELSE {"nil", "signature_invalid"})

VerifyTelemetry(v) ==
  /\ auth[v].pc = "key"
  /\ \E to \in {ingestTelemetry(err, supported, sent) : err \in AuthErrors(v), supported, sent \in BOOLEAN} :
       End(v, to, auth[v].usable)
  /\ UNCHANGED <<registryVars, adminTx, clock>>

VerifyProof(v) ==
  /\ auth[v].pc = "key"
  /\ \E to \in {serveMQTTAuth(err) : err \in AuthErrors(v)} : End(v, to, auth[v].usable)
  /\ UNCHANGED <<registryVars, adminTx, clock>>

Tick ==
  /\ clock < MaxClock
  /\ clock' = clock + 1
  /\ UNCHANGED <<registryVars, adminTx, auth, answered>>

DevicesNext ==
  \/ \E d \in DeviceIds, a \in Makers : createProvisionRequest(d, a) \/ requestRotation(d, a)
  \/ \E c \in AdminCallers :
       \/ BeginDecision(c)
       \/ \E r \in DOMAIN requestsOf, a \in Checkers :
            RejectRequest(c, r, a) \/ ApproveRequest(c, r, a) \/ LockRotationRequest(c, r, a)
       \/ \E r \in DOMAIN requestsOf : RefuseRotation(c, r)
       \/ LockForRotation(c) \/ applyRotation(c) \/ AbortDecision(c)
  \/ \E d \in DeviceIds, target \in Statuses : SetDeviceStatus(d, target)
  \/ \E r \in DOMAIN requestsOf : ConsumeActivation(r)
  \/ \E v \in Verifiers :
       \/ RefuseForm(v)
       \/ \E d \in DeviceIds, epoch \in 1 .. MaxEpoch : LoadDevice(v, d, epoch)
       \/ VerifyTelemetry(v) \/ VerifyProof(v)
  \/ Tick

DevicesSpec == DevicesInit /\ [][DevicesNext]_deviceVars

-----------------------------------------------------------------------------
(* Properties. *)

(***************************************************************************)
(* However approvals and status changes overlap, a device that is not      *)
(* retired has exactly one CURRENT key, the one its row names, and a       *)
(* retired device has only REVOKED keys.                                   *)
(***************************************************************************)
OneCurrentKey ==
  \A d \in DeviceIds : device[d] # NoDevice =>
    /\ Len(keys[d]) = device[d].epoch
    /\ {e \in DOMAIN keys[d] : keys[d][e].status = "CURRENT"}
         = IF device[d].status \in Terminal THEN {} ELSE {device[d].epoch}
    /\ device[d].status \in Terminal => \A e \in DOMAIN keys[d] : keys[d][e].status = "REVOKED"

(***************************************************************************)
(* The two reads of the verifier amount to one: telemetry that is          *)
(* forwarded, and an MQTT login that is allowed, was signed with a key     *)
(* that authenticates its device at some moment between the two reads,     *)
(* whatever rotation, suspension, revocation or passing of the grace       *)
(* window comes between.                                                   *)
(***************************************************************************)
AcceptedWasUsable == answered.to \in Accepting => answered.usable

(***************************************************************************)
(* A rotation never cuts short the grace of an older key: of a device that *)
(* stays ACTIVE, a key the verifier would accept is not revoked.           *)
(***************************************************************************)
GraceIsKept ==
  [][\A d \in DeviceIds : \A e \in DOMAIN keys[d] :
       UsableIn(device, keys, d, e) /\ device'[d].status = "ACTIVE" => keys'[d][e].status # "REVOKED"]_deviceVars
=============================================================================
