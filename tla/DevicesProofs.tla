---------------------------- MODULE DevicesProofs ----------------------------
(***************************************************************************)
(* The device registry, proved for every number of devices, administrators *)
(* and verifiers, every grace window and every bound: the keys of a device *)
(* fit its row, a rotation keeps the grace of older keys, and what the     *)
(* verifier accepts was signed with a key that was usable.  And the offers *)
(* of firmware, for every fleet and every order of commits.                *)
(***************************************************************************)
EXTENDS Devices, Firmware, TLAPS

-----------------------------------------------------------------------------
(* The inductive invariant. *)

DeviceRow == [status : Statuses \cup {"NONE"}, epoch : Nat]
KeyRow == [status : {"CURRENT", "PREVIOUS", "REVOKED"}, at : Nat]
RequestRow == [type : {"PROVISION", "ROTATE"}, device : DeviceIds, maker : Makers,
               status : {"PENDING", "APPROVED", "REJECTED", "CONSUMED"}]
Decision ==
  [pc : {"done"}] \cup [pc : {"request"}, at : Nat]
    \cup [pc : {"device"}, at : Nat, row : Nat] \cup [pc : {"rotate"}, at : Nat, row : Nat, epoch : Nat]
DeviceRequest ==
  [pc : {"done"}]
    \cup [pc : {"key"}, device : DeviceIds, epoch : Nat, current : Nat, usable : BOOLEAN]

DevicesTypeOK ==
  /\ device \in [DeviceIds -> DeviceRow]
  /\ keys \in [DeviceIds -> Seq(KeyRow)]
  /\ requestsOf \in Seq(RequestRow)
  /\ adminTx \in [AdminCallers -> Decision]
  /\ auth \in [Verifiers -> DeviceRequest]
  /\ clock \in Nat

(* The keys of one device fit its row. *)
KeysFit(row, ks) ==
  IF row = NoDevice THEN ks = <<>>
  ELSE /\ row.status \in Statuses
       /\ row.epoch >= 1 /\ Len(ks) = row.epoch
       /\ \A e \in DOMAIN ks :
            /\ ks[e].status = "CURRENT" <=> e = row.epoch /\ row.status \notin Terminal
            /\ row.status \in Terminal => ks[e].status = "REVOKED"

RegistryFits == \A d \in DeviceIds : KeysFit(device[d], keys[d])

(* A device is provisioned once, and only rotated when it is there. *)
RequestsFit ==
  /\ \A i, j \in DOMAIN requestsOf :
       /\ requestsOf[i].type = "PROVISION" /\ requestsOf[j].type = "PROVISION"
       /\ requestsOf[i].device = requestsOf[j].device
       => i = j
  /\ \A i \in DOMAIN requestsOf :
       IF requestsOf[i].type = "PROVISION"
       THEN requestsOf[i].status = "PENDING" => device[requestsOf[i].device] = NoDevice
       ELSE device[requestsOf[i].device] # NoDevice
  /\ \A d \in DeviceIds : device[d] # NoDevice =>
       \E i \in DOMAIN requestsOf : requestsOf[i].type = "PROVISION" /\ requestsOf[i].device = d

(* What the locks of a transaction keep as it was read. *)
DecisionsFit ==
  /\ \A c \in AdminCallers :
       /\ adminTx[c].pc # "done" => adminTx[c].at <= clock
       /\ adminTx[c].pc \in {"device", "rotate"} =>
            /\ adminTx[c].row \in DOMAIN requestsOf
            /\ requestsOf[adminTx[c].row].type = "ROTATE"
       /\ adminTx[c].pc = "rotate" =>
            LET row == device[requestsOf[adminTx[c].row].device]
            IN  row.status = "ACTIVE" /\ row.epoch = adminTx[c].epoch
  /\ \A b, c \in AdminCallers :
       /\ adminTx[b].pc = "rotate" /\ adminTx[c].pc = "rotate"
       /\ requestsOf[adminTx[b].row].device = requestsOf[adminTx[c].row].device
       => b = c

(* The key in ks would pass the gates at the time now, whatever the device row says. *)
Passes(ks, epoch, now) ==
  /\ epoch \in DOMAIN ks
  /\ \/ ks[epoch].status = "CURRENT"
     \/ ks[epoch].status = "PREVIOUS" /\ now - ks[epoch].at <= Grace

(* A request whose key passes has seen it usable. *)
RequestFits(a, ks, now) == a.pc = "key" => (Passes(ks[a.device], a.epoch, now) => a.usable)

AuthFits == \A v \in Verifiers : RequestFits(auth[v], keys, clock)

DevicesInv ==
  /\ DevicesTypeOK
  /\ RegistryFits
  /\ RequestsFit
  /\ DecisionsFit
  /\ AuthFits
  /\ AcceptedWasUsable

-----------------------------------------------------------------------------
(* What the types say of single rows. *)

LEMMA KeyTyped ==
  ASSUME NEW ks \in Seq(KeyRow), NEW e \in DOMAIN ks
  PROVE  /\ ks[e] \in KeyRow /\ ks[e].status \in {"CURRENT", "PREVIOUS", "REVOKED"} /\ ks[e].at \in Nat
         /\ e \in 1 .. Len(ks) /\ e \in Nat
<1>1. ks[e] \in KeyRow /\ e \in 1 .. Len(ks) /\ e \in Nat
  OBVIOUS
<1> QED BY <1>1, Zenon DEF KeyRow

LEMMA RequestTyped ==
  ASSUME DevicesTypeOK, NEW r \in DOMAIN requestsOf
  PROVE  /\ requestsOf[r] \in RequestRow /\ r \in Nat /\ r \in 1 .. Len(requestsOf)
         /\ requestsOf[r].type \in {"PROVISION", "ROTATE"}
         /\ requestsOf[r].device \in DeviceIds
<1>1. requestsOf[r] \in RequestRow /\ r \in Nat /\ r \in 1 .. Len(requestsOf)
  BY DEF DevicesTypeOK
<1> QED BY <1>1, Zenon DEF RequestRow

-----------------------------------------------------------------------------
(* The initial state, and the steps that only change a transaction or a device request. *)

LEMMA DevicesInitInv == DevicesInit => DevicesInv
<1> SUFFICES ASSUME DevicesInit PROVE DevicesInv
  BY Zenon
<1>1. DevicesTypeOK
  BY DEF DevicesInit, DevicesTypeOK, NoDevice, DeviceRow, KeyRow, RequestRow, Decision, DeviceRequest
<1>2. RegistryFits /\ RequestsFit
  BY DEF DevicesInit, RegistryFits, KeysFit, RequestsFit
<1>3. DecisionsFit /\ AuthFits /\ AcceptedWasUsable
  BY Zenon DEF DevicesInit, DecisionsFit, AuthFits, RequestFits, AcceptedWasUsable, Accepting, NoAnswer
<1> QED BY <1>1, <1>2, <1>3, Zenon DEF DevicesInv

(* Device requests leave the registry and the transactions alone. *)
LEMMA AuthStep ==
  ASSUME DevicesInv, UNCHANGED <<registryVars, adminTx, clock>>,
         auth' \in [Verifiers -> DeviceRequest],
         \A v \in Verifiers : RequestFits(auth'[v], keys, clock),
         AcceptedWasUsable'
  PROVE  DevicesInv'
<1>1. DevicesTypeOK'
  BY Zenon DEF DevicesInv, DevicesTypeOK, registryVars
<1>2. RegistryFits' /\ RequestsFit' /\ DecisionsFit'
  BY Zenon DEF DevicesInv, RegistryFits, RequestsFit, DecisionsFit, registryVars
<1>3. AuthFits'
  BY Zenon DEF AuthFits, registryVars
<1> QED BY <1>1, <1>2, <1>3, Zenon DEF DevicesInv

LEMMA EndStep ==
  ASSUME DevicesInv, UNCHANGED <<registryVars, adminTx, clock>>,
         NEW v \in Verifiers, NEW to, NEW usable \in BOOLEAN, End(v, to, usable),
         to \in Accepting => usable
  PROVE  DevicesInv'
<1>1. auth' = [auth EXCEPT ![v] = [pc |-> "done"]]
  BY Zenon DEF End
<1>2. auth' \in [Verifiers -> DeviceRequest]
  BY <1>1, Zenon DEF DevicesInv, DevicesTypeOK, DeviceRequest
<1>3. \A w \in Verifiers : RequestFits(auth'[w], keys, clock)
  BY <1>1, Zenon DEF DevicesInv, DevicesTypeOK, AuthFits, RequestFits
<1>4. AcceptedWasUsable'
  BY Zenon DEF End, AcceptedWasUsable, NoAnswer
<1> QED BY <1>2, <1>3, <1>4, AuthStep, Zenon

LEMMA RefuseEarlyStep ==
  ASSUME DevicesInv, UNCHANGED <<registryVars, adminTx, clock>>,
         NEW v \in Verifiers, NEW err, err # "nil", RefuseEarly(v, err)
  PROVE  DevicesInv'
<1>1. PICK to \in {serveMQTTAuth(err), ingestTelemetry(err, TRUE, TRUE), ingestTelemetry(err, TRUE, FALSE)} :
        End(v, to, FALSE)
  BY Zenon DEF RefuseEarly
<1>2. to \notin Accepting
  BY Zenon DEF Accepting, serveMQTTAuth, ingestTelemetry
<1> QED BY <1>1, <1>2, EndStep, Zenon

LEMMA LoadDeviceStep ==
  ASSUME DevicesInv, NEW v \in Verifiers, NEW d \in DeviceIds, NEW epoch \in Nat, LoadDevice(v, d, epoch)
  PROVE  DevicesInv'
<1> DEFINE err == StatusError(device[d].status)
<1>1. UNCHANGED <<registryVars, adminTx, clock>>
  BY Zenon DEF LoadDevice
<1>2. CASE err # "nil" /\ RefuseEarly(v, err)
  BY <1>1, <1>2, RefuseEarlyStep, Zenon
<1>3. CASE err = "nil" /\ answered' = NoAnswer
           /\ auth' = [auth EXCEPT ![v] =
                [pc |-> "key", device |-> d, epoch |-> epoch, current |-> device[d].epoch,
                 usable |-> UsableIn(device, keys, d, epoch)]]
  <2> DEFINE a == [pc |-> "key", device |-> d, epoch |-> epoch, current |-> device[d].epoch,
                   usable |-> UsableIn(device, keys, d, epoch)]
  <2>1. device[d].status = "ACTIVE"
    BY <1>3, Zenon DEF StatusError, DevicesInv, DevicesTypeOK, DeviceRow, Statuses
  <2>2. UsableIn(device, keys, d, epoch) <=> Passes(keys[d], epoch, clock)
    BY <2>1, Zenon DEF UsableIn, Passes
  <2>3. UsableIn(device, keys, d, epoch) \in BOOLEAN
    BY Zenon DEF UsableIn
  <2>4. a \in DeviceRequest
    BY <2>3, Zenon DEF DeviceRequest, DevicesInv, DevicesTypeOK, DeviceRow
  <2>5. RequestFits(a, keys, clock)
    BY <2>2, Zenon DEF RequestFits
  <2> HIDE DEF a
  <2>6. auth' \in [Verifiers -> DeviceRequest]
    BY <1>3, <2>4, Zenon DEF a, DevicesInv, DevicesTypeOK
  <2>7. \A w \in Verifiers : RequestFits(auth'[w], keys, clock)
    BY <1>3, <2>5, Zenon DEF a, DevicesInv, DevicesTypeOK, AuthFits
  <2>8. AcceptedWasUsable'
    BY <1>3, Zenon DEF AcceptedWasUsable, Accepting, NoAnswer
  <2> QED BY <1>1, <2>6, <2>7, <2>8, AuthStep, Zenon
<1> QED BY <1>2, <1>3, Zenon DEF LoadDevice

(* A request that is accepted passed every gate. *)
LEMMA VerifyStep ==
  ASSUME DevicesInv, NEW v \in Verifiers, VerifyTelemetry(v) \/ VerifyProof(v)
  PROVE  DevicesInv'
<1>1. auth[v].pc = "key" /\ UNCHANGED <<registryVars, adminTx, clock>>
  BY DEF VerifyTelemetry, VerifyProof
<1>2. PICK err, to :
        /\ err \in AuthErrors(v)
        /\ to \in Accepting => err = "nil"
        /\ End(v, to, auth[v].usable)
  <2>1. CASE VerifyProof(v)
    <3>1. PICK err \in AuthErrors(v) : End(v, serveMQTTAuth(err), auth[v].usable)
      BY <2>1, Zenon DEF VerifyProof
    <3> QED BY <3>1, Zenon DEF serveMQTTAuth, Accepting
  <2>2. CASE VerifyTelemetry(v)
    <3>1. PICK err \in AuthErrors(v), supported \in BOOLEAN, sent \in BOOLEAN :
            End(v, ingestTelemetry(err, supported, sent), auth[v].usable)
      BY <2>2 DEF VerifyTelemetry
    <3>2. ingestTelemetry(err, supported, sent) \in Accepting => err = "nil"
      BY Zenon DEF ingestTelemetry, Accepting
    <3> QED BY <3>1, <3>2, Zenon
  <2> QED BY <2>1, <2>2, Zenon
<1>3. auth[v] \in [pc : {"key"}, device : DeviceIds, epoch : Nat, current : Nat, usable : BOOLEAN]
  BY <1>1, Zenon DEF DevicesInv, DevicesTypeOK, DeviceRequest
<1>4. err = "nil" => auth[v].usable
  <2> SUFFICES ASSUME err = "nil" PROVE auth[v].usable
    BY Zenon
  <2>1. KeyError(auth[v].current, auth[v].device, auth[v].epoch) = "nil"
    BY <1>2, Zenon DEF AuthErrors
  <2>2. keys[auth[v].device] \in Seq(KeyRow)
    BY <1>3, Zenon DEF DevicesInv, DevicesTypeOK
  <2> DEFINE key == keys[auth[v].device][auth[v].epoch]
  <2>3. auth[v].epoch \in DOMAIN keys[auth[v].device]
    BY <2>1, Zenon DEF KeyError
  <2>4. key.status \in {"CURRENT", "PREVIOUS", "REVOKED"} /\ key.at \in Nat
    BY <2>2, <2>3, KeyTyped, Zenon
  <2>5. key.status = "CURRENT" \/ (key.status = "PREVIOUS" /\ ~(clock - key.at > Grace))
    BY <2>1, <2>3, <2>4, Zenon DEF KeyError
  <2>6. clock \in Nat /\ Grace \in Nat
    BY DevicesAssumption, Zenon DEF DevicesInv, DevicesTypeOK
  <2>7. Passes(keys[auth[v].device], auth[v].epoch, clock)
    BY <2>3, <2>4, <2>5, <2>6 DEF Passes
  <2> QED BY <1>1, <2>7, Zenon DEF DevicesInv, AuthFits, RequestFits
<1> QED BY <1>1, <1>2, <1>3, <1>4, EndStep, Zenon

-----------------------------------------------------------------------------
(* Steps of administrators that leave the registry alone. *)

(* What may be changed of a transaction without a lock on the device: it ends, *)
(* begins, or takes the lock on a request.                                     *)
LEMMA DecisionStep ==
  ASSUME DevicesInv, UNCHANGED <<registryVars, auth, clock>>,
         NEW c \in AdminCallers, NEW t \in Decision, t.pc # "rotate",
         adminTx' = [adminTx EXCEPT ![c] = t],
         t.pc # "done" => t.at <= clock,
         t.pc = "device" => t.row \in DOMAIN requestsOf /\ requestsOf[t.row].type = "ROTATE",
         AcceptedWasUsable'
  PROVE  DevicesInv'
<1>1. DevicesTypeOK'
  BY Zenon DEF DevicesInv, DevicesTypeOK, registryVars
<1>2. RegistryFits' /\ RequestsFit' /\ AuthFits'
  BY Zenon DEF DevicesInv, RegistryFits, RequestsFit, AuthFits, registryVars
<1>3. \A b \in AdminCallers : adminTx'[b] = IF b = c THEN t ELSE adminTx[b]
  BY Zenon DEF DevicesInv, DevicesTypeOK
<1>4. DecisionsFit'
  BY <1>3 DEF DevicesInv, DecisionsFit, registryVars
<1> QED BY <1>1, <1>2, <1>4, Zenon DEF DevicesInv

LEMMA FinishStep ==
  ASSUME DevicesInv, UNCHANGED <<registryVars, auth, clock>>,
         NEW c \in AdminCallers, NEW status, Finish(c, status)
  PROVE  DevicesInv'
<1>1. AcceptedWasUsable'
  BY Zenon DEF Finish, AcceptedWasUsable, NoAnswer, Accepting
<1>2. [pc |-> "done"] \in Decision
  BY Zenon DEF Decision
<1> QED BY <1>1, <1>2, DecisionStep, Zenon DEF Finish

LEMMA BeginDecisionStep ==
  ASSUME DevicesInv, NEW c \in AdminCallers, BeginDecision(c)
  PROVE  DevicesInv'
<1>1. AcceptedWasUsable'
  BY Zenon DEF BeginDecision, AcceptedWasUsable, NoAnswer, Accepting
<1>2. [pc |-> "request", at |-> clock] \in Decision /\ clock <= clock
  BY DEF Decision, DevicesInv, DevicesTypeOK
<1> QED BY <1>1, <1>2, DecisionStep, Zenon DEF BeginDecision

LEMMA LockRotationRequestStep ==
  ASSUME DevicesInv, NEW c \in AdminCallers, NEW r \in DOMAIN requestsOf, NEW checker,
         LockRotationRequest(c, r, checker)
  PROVE  DevicesInv'
<1>1. AcceptedWasUsable'
  BY Zenon DEF LockRotationRequest, DevicesInv, AcceptedWasUsable
<1>2. adminTx[c] \in [pc : {"request"}, at : Nat] /\ adminTx[c].at <= clock
  BY Zenon DEF LockRotationRequest, DevicesInv, DevicesTypeOK, Decision, DecisionsFit
<1> DEFINE t == [pc |-> "device", at |-> adminTx[c].at, row |-> r]
<1>3. t \in Decision
  BY <1>2, RequestTyped, Zenon DEF Decision, DevicesInv
<1>4. adminTx' = [adminTx EXCEPT ![c] = t]
  BY Zenon DEF LockRotationRequest, DevicesInv, DevicesTypeOK
<1> QED BY <1>1, <1>2, <1>3, <1>4, DecisionStep, Zenon DEF LockRotationRequest

(* The row lock is free, so no other rotation is at the device. *)
LEMMA LockForRotationStep ==
  ASSUME DevicesInv, NEW c \in AdminCallers, LockForRotation(c)
  PROVE  DevicesInv'
<1> DEFINE d == requestsOf[adminTx[c].row].device
<1>1. CASE device[d].status = "ACTIVE"
  <2> DEFINE t == [pc |-> "rotate", at |-> adminTx[c].at, row |-> adminTx[c].row, epoch |-> device[d].epoch]
  <2>1. adminTx[c] \in [pc : {"device"}, at : Nat, row : Nat]
    BY Zenon DEF LockForRotation, DevicesInv, DevicesTypeOK, Decision
  <2>2. /\ adminTx[c].at <= clock /\ adminTx[c].row \in DOMAIN requestsOf
        /\ requestsOf[adminTx[c].row].type = "ROTATE"
    BY <2>1, Zenon DEF DevicesInv, DecisionsFit
  <2>3. d \in DeviceIds
    BY <2>2, RequestTyped, Zenon DEF DevicesInv
  <2>4. t \in Decision
    BY <2>1, <2>3, Zenon DEF Decision, DevicesInv, DevicesTypeOK, DeviceRow
  <2>5. adminTx' = [adminTx EXCEPT ![c] = t] /\ UNCHANGED <<registryVars, auth, clock, answered>>
    BY <1>1, Zenon DEF LockForRotation, DevicesInv, DevicesTypeOK
  <2>6. \A b \in AdminCallers : adminTx[b].pc = "rotate" => requestsOf[adminTx[b].row].device # d
    BY Zenon DEF LockForRotation, DeviceLocked
  <2>7. \A b \in AdminCallers : adminTx'[b] = IF b = c THEN t ELSE adminTx[b]
    BY <2>5, Zenon DEF DevicesInv, DevicesTypeOK
  <2>8. DevicesTypeOK'
    BY <2>4, <2>5, Zenon DEF DevicesInv, DevicesTypeOK, registryVars
  <2>9. DecisionsFit'
    <3>1. ASSUME NEW b \in AdminCallers
          PROVE  /\ adminTx'[b].pc # "done" => adminTx'[b].at <= clock
                 /\ adminTx'[b].pc \in {"device", "rotate"} =>
                      /\ adminTx'[b].row \in DOMAIN requestsOf
                      /\ requestsOf[adminTx'[b].row].type = "ROTATE"
                 /\ adminTx'[b].pc = "rotate" =>
                      /\ device[requestsOf[adminTx'[b].row].device].status = "ACTIVE"
                      /\ device[requestsOf[adminTx'[b].row].device].epoch = adminTx'[b].epoch
      BY <1>1, <2>2, <2>7 DEF DevicesInv, DecisionsFit
    <3>2. ASSUME NEW a \in AdminCallers, NEW b \in AdminCallers,
                 adminTx'[a].pc = "rotate", adminTx'[b].pc = "rotate",
                 requestsOf[adminTx'[a].row].device = requestsOf[adminTx'[b].row].device
          PROVE  a = b
      BY <3>2, <2>6, <2>7 DEF DevicesInv, DecisionsFit
    <3>3. requestsOf' = requestsOf /\ device' = device /\ clock' = clock
      BY <2>5, Zenon DEF registryVars
    <3> HIDE DEF t, d
    <3> QED BY <3>1, <3>2, <3>3, Zenon DEF DecisionsFit
  <2>10. RegistryFits' /\ RequestsFit' /\ AuthFits' /\ AcceptedWasUsable'
    BY <2>5, Zenon DEF DevicesInv, RegistryFits, RequestsFit, AuthFits, AcceptedWasUsable, registryVars
  <2> QED BY <2>8, <2>9, <2>10, Zenon DEF DevicesInv
<1>2. CASE device[d].status # "ACTIVE"
  BY <1>2, FinishStep, Zenon DEF LockForRotation
<1> QED BY <1>1, <1>2, Zenon

-----------------------------------------------------------------------------
(* Steps that change the rows of requests only. *)

(* The rows keep their type and device, and none becomes PENDING. *)
LEMMA RequestsStep ==
  ASSUME DevicesInv, UNCHANGED <<device, keys, auth, clock>>,
         NEW reqs \in Seq(RequestRow), requestsOf' = reqs,
         DOMAIN reqs = DOMAIN requestsOf,
         \A i \in DOMAIN reqs :
           /\ reqs[i].type = requestsOf[i].type /\ reqs[i].device = requestsOf[i].device
           /\ reqs[i].status = "PENDING" => requestsOf[i].status = "PENDING",
         adminTx' \in [AdminCallers -> Decision],
         \A c \in AdminCallers : adminTx'[c] = adminTx[c] \/ adminTx'[c].pc = "done",
         AcceptedWasUsable'
  PROVE  DevicesInv'
<1>1. DevicesTypeOK'
  BY Zenon DEF DevicesInv, DevicesTypeOK
<1>2. RegistryFits' /\ AuthFits'
  BY Zenon DEF DevicesInv, RegistryFits, AuthFits
<1>3. RequestsFit'
  BY DEF DevicesInv, RequestsFit
<1>4. DecisionsFit'
  <2>1. ASSUME NEW c \in AdminCallers, adminTx'[c].pc # "done"
        PROVE  /\ adminTx'[c].at <= clock
               /\ adminTx'[c].pc \in {"device", "rotate"} =>
                    /\ adminTx'[c].row \in DOMAIN reqs
                    /\ reqs[adminTx'[c].row].type = "ROTATE"
                    /\ reqs[adminTx'[c].row].device = requestsOf[adminTx[c].row].device
               /\ adminTx'[c] = adminTx[c]
               /\ adminTx'[c].pc = "rotate" =>
                    /\ device[reqs[adminTx'[c].row].device].status = "ACTIVE"
                    /\ device[reqs[adminTx'[c].row].device].epoch = adminTx'[c].epoch
    BY <2>1 DEF DevicesInv, DecisionsFit
  <2>2. ASSUME NEW b \in AdminCallers, NEW c \in AdminCallers,
               adminTx'[b].pc = "rotate", adminTx'[c].pc = "rotate",
               reqs[adminTx'[b].row].device = reqs[adminTx'[c].row].device
        PROVE  b = c
    <3>1. /\ adminTx[b].pc = "rotate" /\ adminTx[c].pc = "rotate"
          /\ requestsOf[adminTx[b].row].device = requestsOf[adminTx[c].row].device
      BY <2>1, <2>2, Zenon
    <3> QED BY <3>1, Zenon DEF DevicesInv, DecisionsFit
  <2> QED BY <2>1, <2>2, Zenon DEF DecisionsFit
<1> QED BY <1>1, <1>2, <1>3, <1>4, Zenon DEF DevicesInv

(* The update of the status of one row. *)
LEMMA StatusUpdate ==
  ASSUME DevicesTypeOK, NEW r \in DOMAIN requestsOf, NEW status \in {"APPROVED", "REJECTED", "CONSUMED"}
  PROVE  LET reqs == [requestsOf EXCEPT ![r].status = status]
         IN  /\ reqs \in Seq(RequestRow) /\ DOMAIN reqs = DOMAIN requestsOf
             /\ \A i \in DOMAIN reqs :
                  /\ reqs[i].type = requestsOf[i].type /\ reqs[i].device = requestsOf[i].device
                  /\ reqs[i].status = IF i = r THEN status ELSE requestsOf[i].status
<1> DEFINE reqs == [requestsOf EXCEPT ![r].status = status]
<1>1. requestsOf \in Seq(RequestRow) /\ requestsOf[r] \in RequestRow
  BY RequestTyped, Zenon DEF DevicesTypeOK
<1>2. [requestsOf[r] EXCEPT !.status = status] \in RequestRow
  BY <1>1, Zenon DEF RequestRow
<1>3. reqs = [requestsOf EXCEPT ![r] = [requestsOf[r] EXCEPT !.status = status]]
  BY <1>1, Zenon
<1>4. reqs \in Seq(RequestRow) /\ DOMAIN reqs = DOMAIN requestsOf
  BY <1>1, <1>2, <1>3
<1>5. \A i \in DOMAIN reqs :
        /\ reqs[i].type = requestsOf[i].type /\ reqs[i].device = requestsOf[i].device
        /\ reqs[i].status = IF i = r THEN status ELSE requestsOf[i].status
  BY <1>1, Zenon DEF RequestRow
<1> QED BY <1>4, <1>5, Zenon

LEMMA FinishTypes ==
  ASSUME DevicesInv, NEW c \in AdminCallers, NEW status, Finish(c, status)
  PROVE  /\ adminTx' \in [AdminCallers -> Decision]
         /\ \A b \in AdminCallers : adminTx'[b] = IF b = c THEN [pc |-> "done"] ELSE adminTx[b]
         /\ AcceptedWasUsable'
<1>1. adminTx' \in [AdminCallers -> Decision]
  BY Zenon DEF DevicesInv, DevicesTypeOK, Finish, Decision
<1>2. \A b \in AdminCallers : adminTx'[b] = IF b = c THEN [pc |-> "done"] ELSE adminTx[b]
  BY Zenon DEF DevicesInv, DevicesTypeOK, Finish
<1>3. AcceptedWasUsable'
  BY Zenon DEF Finish, AcceptedWasUsable, NoAnswer, Accepting
<1> QED BY <1>1, <1>2, <1>3, Zenon

LEMMA RejectRequestStep ==
  ASSUME DevicesInv, NEW c \in AdminCallers, NEW r \in DOMAIN requestsOf, NEW checker,
         RejectRequest(c, r, checker)
  PROVE  DevicesInv'
<1>1. /\ UNCHANGED <<device, keys, auth, clock>>
      /\ Finish(c, rejectProvisionRequest(ProvisionError(r, checker)))
      /\ requestsOf' = requestsOf \/ requestsOf' = [requestsOf EXCEPT ![r].status = "REJECTED"]
  BY Zenon DEF RejectRequest
<1>2. CASE requestsOf' = requestsOf
  BY <1>1, <1>2, FinishStep, Zenon DEF registryVars
<1>3. CASE requestsOf' = [requestsOf EXCEPT ![r].status = "REJECTED"]
  <2> DEFINE reqs == [requestsOf EXCEPT ![r].status = "REJECTED"]
  <2>1. /\ reqs \in Seq(RequestRow) /\ DOMAIN reqs = DOMAIN requestsOf
        /\ \A i \in DOMAIN reqs :
             /\ reqs[i].type = requestsOf[i].type /\ reqs[i].device = requestsOf[i].device
             /\ reqs[i].status = IF i = r THEN "REJECTED" ELSE requestsOf[i].status
    BY StatusUpdate, Zenon DEF DevicesInv
  <2> HIDE DEF reqs
  <2>2. requestsOf' = reqs
    BY <1>3, Zenon DEF reqs
  <2> QED BY <1>1, <2>1, <2>2, FinishTypes, RequestsStep
<1> QED BY <1>1, <1>2, <1>3, Zenon

LEMMA ConsumeActivationStep ==
  ASSUME DevicesInv, NEW r \in DOMAIN requestsOf, ConsumeActivation(r)
  PROVE  DevicesInv'
<1> DEFINE reqs == [requestsOf EXCEPT ![r].status = "CONSUMED"]
<1>1. /\ reqs \in Seq(RequestRow) /\ DOMAIN reqs = DOMAIN requestsOf
      /\ \A i \in DOMAIN reqs :
           /\ reqs[i].type = requestsOf[i].type /\ reqs[i].device = requestsOf[i].device
           /\ reqs[i].status = IF i = r THEN "CONSUMED" ELSE requestsOf[i].status
  BY StatusUpdate, Zenon DEF DevicesInv
<1> HIDE DEF reqs
<1>2. requestsOf' = reqs /\ UNCHANGED <<device, keys, adminTx, auth, answered, clock>>
  BY Zenon DEF ConsumeActivation, reqs
<1>3. adminTx' \in [AdminCallers -> Decision] /\ AcceptedWasUsable'
  BY <1>2, Zenon DEF DevicesInv, DevicesTypeOK, AcceptedWasUsable
<1> QED BY <1>1, <1>2, <1>3, RequestsStep, Zenon

(* A new request: a device is provisioned only once, and rotated only when it exists. *)
LEMMA InsertRequestStep ==
  ASSUME DevicesInv, NEW type \in {"PROVISION", "ROTATE"}, NEW d \in DeviceIds, NEW maker \in Makers,
         insertRequest(type, d, maker),
         type = "PROVISION" =>
           \A i \in DOMAIN requestsOf : requestsOf[i].type = "ROTATE" \/ requestsOf[i].device # d,
         type = "ROTATE" => device[d] # NoDevice
  PROVE  DevicesInv'
<1> DEFINE row == [type |-> type, device |-> d, maker |-> maker, status |-> "PENDING"]
<1>1. row \in RequestRow /\ row.type = type /\ row.device = d
  BY Zenon DEF RequestRow
<1> HIDE DEF row
<1>2. requestsOf' = Append(requestsOf, row) /\ UNCHANGED <<device, keys, adminTx, auth, answered, clock>>
  BY Zenon DEF insertRequest, row
<1>3. requestsOf \in Seq(RequestRow)
  BY Zenon DEF DevicesInv, DevicesTypeOK
<1>4. /\ requestsOf' \in Seq(RequestRow) /\ Len(requestsOf) \in Nat
      /\ DOMAIN requestsOf' = DOMAIN requestsOf \cup {Len(requestsOf) + 1}
      /\ \A i \in DOMAIN requestsOf : requestsOf'[i] = requestsOf[i]
      /\ requestsOf'[Len(requestsOf) + 1] = row
      /\ Len(requestsOf) + 1 \notin DOMAIN requestsOf
  BY <1>1, <1>2, <1>3
<1>5. DevicesTypeOK' /\ RegistryFits' /\ AuthFits' /\ AcceptedWasUsable'
  BY <1>2, <1>4, Zenon DEF DevicesInv, DevicesTypeOK, RegistryFits, AuthFits, AcceptedWasUsable
<1>6. RequestsFit'
  BY <1>1, <1>2, <1>4 DEF DevicesInv, RequestsFit
<1>7. DecisionsFit'
  BY <1>2, <1>4 DEF DevicesInv, DecisionsFit
<1> QED BY <1>5, <1>6, <1>7, Zenon DEF DevicesInv

-----------------------------------------------------------------------------
(* Steps that change a device and its keys. *)

(* Observe keeps AuthFits when a key that passes now passed before or is usable now. *)
LEMMA ObserveStep ==
  ASSUME DevicesInv, Observe, clock' = clock, keys' \in [DeviceIds -> Seq(KeyRow)],
         \A d \in DeviceIds, e \in Nat :
           Passes(keys'[d], e, clock) => Passes(keys[d], e, clock) \/ UsableIn(device', keys', d, e)
  PROVE  auth' \in [Verifiers -> DeviceRequest] /\ AuthFits'
<1> DEFINE seen(v) == UsableIn(device', keys', auth[v].device, auth[v].epoch)
<1>1. ASSUME NEW v \in Verifiers
      PROVE  auth'[v] \in DeviceRequest /\ RequestFits(auth'[v], keys', clock)
  <2>1. auth'[v] = IF auth[v].pc = "key" THEN [auth[v] EXCEPT !.usable = @ \/ seen(v)] ELSE auth[v]
    BY Zenon DEF Observe
  <2>2. auth[v] \in DeviceRequest /\ RequestFits(auth[v], keys, clock)
    BY Zenon DEF DevicesInv, DevicesTypeOK, AuthFits
  <2>3. CASE auth[v].pc = "key"
    <3>1. auth[v] \in [pc : {"key"}, device : DeviceIds, epoch : Nat, current : Nat, usable : BOOLEAN]
      BY <2>2, <2>3, Zenon DEF DeviceRequest
    <3>2. seen(v) \in BOOLEAN
      BY Zenon DEF UsableIn
    <3> HIDE DEF seen
    <3>3. auth'[v] = [auth[v] EXCEPT !.usable = auth[v].usable \/ seen(v)]
      BY <2>1, <2>3, <3>1, Zenon
    <3>4. /\ auth'[v] \in [pc : {"key"}, device : DeviceIds, epoch : Nat, current : Nat, usable : BOOLEAN]
          /\ auth'[v].device = auth[v].device /\ auth'[v].epoch = auth[v].epoch
          /\ auth'[v].usable <=> auth[v].usable \/ seen(v)
      BY <3>1, <3>2, <3>3, Zenon
    <3>5. Passes(keys'[auth[v].device], auth[v].epoch, clock)
            => Passes(keys[auth[v].device], auth[v].epoch, clock) \/ seen(v)
      BY <3>1, Zenon DEF seen
    <3>6. RequestFits(auth'[v], keys', clock)
      BY <2>2, <2>3, <3>4, <3>5, Zenon DEF RequestFits
    <3> QED BY <3>4, <3>6, Zenon DEF DeviceRequest
  <2>4. CASE auth[v].pc # "key"
    BY <2>1, <2>2, <2>4, Zenon DEF RequestFits
  <2> QED BY <2>3, <2>4, Zenon
<1>2. auth' = [v \in Verifiers |-> auth'[v]]
  BY Zenon DEF Observe
<1>3. auth' \in [Verifiers -> DeviceRequest]
  BY <1>1, <1>2, Zenon
<1> QED BY <1>1, <1>3, Zenon DEF AuthFits

(* The rows of d are replaced, by a transaction that is the only one at d. *)
LEMMA RegistryStep ==
  ASSUME DevicesInv, Observe, clock' = clock,
         NEW d \in DeviceIds, NEW row \in DeviceRow, NEW ks \in Seq(KeyRow),
         row # NoDevice, KeysFit(row, ks),
         device' = [device EXCEPT ![d] = row], keys' = [keys EXCEPT ![d] = ks],
         \A e \in Nat : Passes(ks, e, clock) => Passes(keys[d], e, clock) \/ row.status = "ACTIVE",
         NEW reqs \in Seq(RequestRow), requestsOf' = reqs,
         DOMAIN reqs = DOMAIN requestsOf,
         \A i \in DOMAIN reqs :
           /\ reqs[i].type = requestsOf[i].type /\ reqs[i].device = requestsOf[i].device
           /\ reqs[i].status = "PENDING" => requestsOf[i].status = "PENDING",
         \E i \in DOMAIN reqs :
           reqs[i].type = "PROVISION" /\ reqs[i].device = d /\ reqs[i].status # "PENDING",
         adminTx' \in [AdminCallers -> Decision],
         \A c \in AdminCallers :
           \/ adminTx'[c].pc = "done"
           \/ adminTx'[c] = adminTx[c] /\ ~(adminTx[c].pc = "rotate" /\ requestsOf[adminTx[c].row].device = d),
         AcceptedWasUsable'
  PROVE  DevicesInv'
<1>1. /\ device' \in [DeviceIds -> DeviceRow] /\ keys' \in [DeviceIds -> Seq(KeyRow)]
      /\ \A x \in DeviceIds : device'[x] = (IF x = d THEN row ELSE device[x])
                             /\ keys'[x] = (IF x = d THEN ks ELSE keys[x])
  BY Zenon DEF DevicesInv, DevicesTypeOK
<1>2. auth' \in [Verifiers -> DeviceRequest] /\ AuthFits'
  <2>1. ASSUME NEW x \in DeviceIds, NEW e \in Nat, Passes(keys'[x], e, clock)
        PROVE  Passes(keys[x], e, clock) \/ UsableIn(device', keys', x, e)
    <3>1. CASE x # d
      BY <3>1, <2>1, <1>1, Zenon
    <3>2. CASE x = d /\ row.status = "ACTIVE"
      BY <3>2, <2>1, <1>1, Zenon DEF Passes, UsableIn
    <3>3. CASE x = d /\ row.status # "ACTIVE"
      BY <3>3, <2>1, <1>1, Zenon
    <3> QED BY <3>1, <3>2, <3>3, Zenon
  <2> QED BY <1>1, <2>1, ObserveStep, Zenon
<1>3. DevicesTypeOK'
  BY <1>1, <1>2, Zenon DEF DevicesInv, DevicesTypeOK
<1>4. RegistryFits'
  BY <1>1, Zenon DEF DevicesInv, RegistryFits
<1>5. \A i \in DOMAIN reqs :
        reqs[i].type = "PROVISION" /\ reqs[i].device = d => reqs[i].status # "PENDING"
  BY DEF DevicesInv, RequestsFit
<1>6. RequestsFit'
  <2>1. \A i, j \in DOMAIN reqs :
          reqs[i].type = "PROVISION" /\ reqs[j].type = "PROVISION" /\ reqs[i].device = reqs[j].device => i = j
    BY DEF DevicesInv, RequestsFit
  <2>2. ASSUME NEW i \in DOMAIN reqs
        PROVE  IF reqs[i].type = "PROVISION"
               THEN reqs[i].status = "PENDING" => device'[reqs[i].device] = NoDevice
               ELSE device'[reqs[i].device] # NoDevice
    <3>1. reqs[i].device \in DeviceIds
      BY RequestTyped, Zenon DEF DevicesInv
    <3> QED BY <3>1, <1>1, <1>5 DEF DevicesInv, RequestsFit
  <2>3. ASSUME NEW x \in DeviceIds, device'[x] # NoDevice
        PROVE  \E i \in DOMAIN reqs : reqs[i].type = "PROVISION" /\ reqs[i].device = x
    <3>1. CASE x # d
      <4>1. device[x] # NoDevice
        BY <2>3, <3>1, <1>1, Zenon
      <4>2. PICK i \in DOMAIN requestsOf : requestsOf[i].type = "PROVISION" /\ requestsOf[i].device = x
        BY <4>1, Zenon DEF DevicesInv, RequestsFit
      <4> QED BY <4>2, Zenon
    <3> QED BY <3>1, Zenon
  <2> QED BY <2>1, <2>2, <2>3 DEF RequestsFit
<1>7. DecisionsFit'
  <2>1. ASSUME NEW c \in AdminCallers, adminTx'[c].pc # "done"
        PROVE  /\ adminTx'[c].at <= clock
               /\ adminTx'[c].pc \in {"device", "rotate"} =>
                    /\ adminTx'[c].row \in DOMAIN reqs
                    /\ reqs[adminTx'[c].row].type = "ROTATE"
                    /\ reqs[adminTx'[c].row].device = requestsOf[adminTx[c].row].device
               /\ adminTx'[c] = adminTx[c]
               /\ adminTx'[c].pc = "rotate" =>
                    /\ device'[reqs[adminTx'[c].row].device].status = "ACTIVE"
                    /\ device'[reqs[adminTx'[c].row].device].epoch = adminTx'[c].epoch
    <3>1. /\ adminTx'[c] = adminTx[c]
          /\ ~(adminTx[c].pc = "rotate" /\ requestsOf[adminTx[c].row].device = d)
      BY <2>1, Zenon
    <3>2. adminTx'[c].at <= clock
      BY <3>1, <2>1 DEF DevicesInv, DecisionsFit
    <3>3. CASE adminTx[c].pc \in {"device", "rotate"}
      <4>1. adminTx[c].row \in DOMAIN reqs /\ requestsOf[adminTx[c].row].type = "ROTATE"
        BY <3>3, Zenon DEF DevicesInv, DecisionsFit
      <4>2. reqs[adminTx[c].row].device = requestsOf[adminTx[c].row].device
            /\ reqs[adminTx[c].row].type = "ROTATE"
        BY <4>1, Zenon
      <4>3. requestsOf[adminTx[c].row].device \in DeviceIds
        BY <4>1, RequestTyped, Zenon DEF DevicesInv
      <4>4. adminTx[c].pc = "rotate" =>
              /\ device[requestsOf[adminTx[c].row].device].status = "ACTIVE"
              /\ device[requestsOf[adminTx[c].row].device].epoch = adminTx[c].epoch
        BY Zenon DEF DevicesInv, DecisionsFit
      <4>5. adminTx[c].pc = "rotate" =>
              device'[requestsOf[adminTx[c].row].device] = device[requestsOf[adminTx[c].row].device]
        BY <1>1, <3>1, <4>3, Zenon
      <4> QED BY <3>1, <3>2, <4>1, <4>2, <4>4, <4>5
    <3> QED BY <3>1, <3>2, <3>3, Zenon
  <2>2. ASSUME NEW b \in AdminCallers, NEW c \in AdminCallers,
               adminTx'[b].pc = "rotate", adminTx'[c].pc = "rotate",
               reqs[adminTx'[b].row].device = reqs[adminTx'[c].row].device
        PROVE  b = c
    <3>1. /\ adminTx[b].pc = "rotate" /\ adminTx[c].pc = "rotate"
          /\ requestsOf[adminTx[b].row].device = requestsOf[adminTx[c].row].device
      BY <2>1, <2>2, Zenon
    <3> QED BY <3>1, Zenon DEF DevicesInv, DecisionsFit
  <2> QED BY <2>1, <2>2 DEF DecisionsFit
<1> QED BY <1>2, <1>3, <1>4, <1>6, <1>7, Zenon DEF DevicesInv

(* FirstError of two checks answers "nil" only when neither applies. *)
LEMMA FirstErrorOfTwo ==
  ASSUME NEW a \in BOOLEAN, NEW b \in BOOLEAN, NEW x, NEW y, x # "nil", y # "nil"
  PROVE  FirstError(<< <<a, x>>, <<b, y>> >>) = "nil" => ~a /\ ~b
<1> DEFINE checks == << <<a, x>>, <<b, y>> >>
           hits == {i \in DOMAIN checks : checks[i][1]}
           m == CHOOSE i \in hits : \A j \in hits : i <= j
<1>1. /\ DOMAIN checks = 1 .. 2 /\ \A i \in 1 .. 2 : i = 1 \/ i = 2
      /\ checks[1][1] = a /\ checks[1][2] = x /\ checks[2][1] = b /\ checks[2][2] = y
  OBVIOUS
<1>2. FirstError(checks) = IF hits = {} THEN "nil" ELSE checks[m][2]
  BY Zenon DEF FirstError
<1> HIDE DEF checks
<1>3. /\ hits \subseteq 1 .. 2 /\ (1 \in hits <=> a) /\ (2 \in hits <=> b)
  <2>1. 1 \in 1 .. 2 /\ 2 \in 1 .. 2
    OBVIOUS
  <2> QED BY <1>1, <2>1, Zenon
<1> HIDE DEF hits
<1>4. hits # {} => \E i \in hits : \A j \in hits : i <= j
  <2>1. CASE 1 \in hits
    BY <1>3, <2>1
  <2>2. CASE 1 \notin hits
    <3>1. \A i \in hits : i = 2
      BY <1>3, <2>2
    <3> QED BY <3>1
  <2> QED BY <2>1, <2>2, Zenon
<1>5. hits # {} => m \in hits
  BY <1>4, Zenon
<1> HIDE DEF m
<1>6. FirstError(checks) = "nil" => hits = {}
  BY <1>1, <1>2, <1>3, <1>5, Zenon
<1> QED BY <1>3, <1>6, Zenon DEF checks

(* The checks of ApproveRequest and RejectRequest. *)
LEMMA ProvisionErrorNone ==
  ASSUME NEW r, NEW checker, ProvisionError(r, checker) = "nil"
  PROVE  requestsOf[r].status = "PENDING"
<1> DEFINE a == requestsOf[r].maker = checker
           b == requestsOf[r].status # "PENDING"
<1>1. a \in BOOLEAN /\ b \in BOOLEAN
  BY Zenon
<1>2. FirstError(<< <<a, "ErrMakerChecker">>, <<b, "ErrRequestNotPending">> >>) = "nil"
  BY Zenon DEF ProvisionError
<1> HIDE DEF a, b
<1>3. ~b
  BY <1>1, <1>2, FirstErrorOfTwo, Zenon
<1> QED BY <1>3, Zenon DEF b

(* Decisions fit the rows they have read as long as nobody writes those rows. *)
LEMMA DecisionsKept ==
  ASSUME DecisionsFit, UNCHANGED <<device, requestsOf, clock>>,
         \A b \in AdminCallers : adminTx'[b].pc = "done" \/ adminTx'[b] = adminTx[b]
  PROVE  DecisionsFit'
<1>1. \A b \in AdminCallers : adminTx'[b].pc \in {"device", "rotate"} => adminTx'[b] = adminTx[b]
  BY Zenon
<1>2. \A b \in AdminCallers : adminTx'[b].pc # "done" => adminTx'[b].at <= clock
  BY Zenon DEF DecisionsFit
<1>3. \A b \in AdminCallers : adminTx'[b].pc \in {"device", "rotate"} =>
        /\ adminTx'[b].row \in DOMAIN requestsOf
        /\ requestsOf[adminTx'[b].row].type = "ROTATE"
  BY <1>1, Zenon DEF DecisionsFit
<1>4. \A b \in AdminCallers : adminTx'[b].pc = "rotate" => adminTx'[b] = adminTx[b]
  BY <1>1, Zenon
<1>5. \A b \in AdminCallers : adminTx'[b].pc = "rotate" =>
        /\ device[requestsOf[adminTx'[b].row].device].status = "ACTIVE"
        /\ device[requestsOf[adminTx'[b].row].device].epoch = adminTx'[b].epoch
  BY <1>4, ZenonT(40) DEF DecisionsFit
<1>6. \A b, c \in AdminCallers :
        /\ adminTx'[b].pc = "rotate" /\ adminTx'[c].pc = "rotate"
        /\ requestsOf[adminTx'[b].row].device = requestsOf[adminTx'[c].row].device
        => b = c
  BY <1>4 DEF DecisionsFit
<1> QED BY <1>2, <1>3, <1>5, <1>6, Zenon DEF DecisionsFit

LEMMA ApproveRequestStep ==
  ASSUME DevicesInv, NEW c \in AdminCallers, NEW r \in DOMAIN requestsOf, NEW checker,
         ApproveRequest(c, r, checker)
  PROVE  DevicesInv'
<1> DEFINE d == requestsOf[r].device
           err == ProvisionError(r, checker)
<1>1. /\ adminTx[c].pc = "request" /\ Finish(c, approveProvisionRequest(err))
      /\ Observe /\ clock' = clock
  BY Zenon DEF ApproveRequest
<1>2. adminTx[c].at \in Nat
  BY <1>1, Zenon DEF DevicesInv, DevicesTypeOK, Decision
<1>3. /\ adminTx' \in [AdminCallers -> Decision]
      /\ \A b \in AdminCallers : adminTx'[b].pc = "done" \/ adminTx'[b] = adminTx[b]
      /\ AcceptedWasUsable'
  BY <1>1, FinishTypes
<1>4. CASE err = "nil"
  <2> DEFINE row == [status |-> "ACTIVE", epoch |-> 1]
             ks == <<[status |-> "CURRENT", at |-> adminTx[c].at]>>
             reqs == [requestsOf EXCEPT ![r].status = "APPROVED"]
  <2>1. /\ device' = [device EXCEPT ![d] = row] /\ keys' = [keys EXCEPT ![d] = ks]
        /\ requestsOf' = reqs /\ requestsOf[r].type = "PROVISION"
    BY <1>4, Zenon DEF ApproveRequest
  <2>2. requestsOf[r].status = "PENDING"
    BY <1>4, ProvisionErrorNone, Zenon
  <2>3. d \in DeviceIds
    BY RequestTyped, Zenon DEF DevicesInv
  <2>4. device[d] = NoDevice
    BY <2>1, <2>2, Zenon DEF DevicesInv, RequestsFit
  <2>5. row \in DeviceRow /\ row # NoDevice /\ row.status = "ACTIVE"
    BY Zenon DEF DeviceRow, NoDevice, Statuses
  <2>6. ks \in Seq(KeyRow)
    BY <1>2 DEF KeyRow
  <2>7. KeysFit(row, ks)
    BY <2>5 DEF KeysFit, Statuses, Terminal
  <2>8. /\ reqs \in Seq(RequestRow) /\ DOMAIN reqs = DOMAIN requestsOf
        /\ \A i \in DOMAIN reqs :
             /\ reqs[i].type = requestsOf[i].type /\ reqs[i].device = requestsOf[i].device
             /\ reqs[i].status = IF i = r THEN "APPROVED" ELSE requestsOf[i].status
    BY StatusUpdate, Zenon DEF DevicesInv
  <2> HIDE DEF row, ks, reqs
  <2>9. \E i \in DOMAIN reqs : reqs[i].type = "PROVISION" /\ reqs[i].device = d /\ reqs[i].status # "PENDING"
    BY <2>1, <2>8, Zenon
  <2>10. \A b \in AdminCallers : ~(adminTx[b].pc = "rotate" /\ requestsOf[adminTx[b].row].device = d)
    BY <2>4 DEF DevicesInv, DecisionsFit, NoDevice
  <2>11. /\ \A e \in Nat : Passes(ks, e, clock) => Passes(keys[d], e, clock) \/ row.status = "ACTIVE"
         /\ \A i \in DOMAIN reqs :
             /\ reqs[i].type = requestsOf[i].type /\ reqs[i].device = requestsOf[i].device
             /\ reqs[i].status = "PENDING" => requestsOf[i].status = "PENDING"
         /\ \A b \in AdminCallers :
              \/ adminTx'[b].pc = "done"
              \/ adminTx'[b] = adminTx[b]
                 /\ ~(adminTx[b].pc = "rotate" /\ requestsOf[adminTx[b].row].device = d)
    BY <1>3, <2>5, <2>8, <2>10, Zenon
  <2> HIDE DEF d
  <2> QED BY <1>1, <1>3, <2>1, <2>3, <2>5, <2>6, <2>7, <2>8, <2>9, <2>11, RegistryStep, ZenonT(40)
<1>5. CASE err # "nil"
  <2>1. UNCHANGED registryVars
    BY <1>5, Zenon DEF ApproveRequest
  <2>2. auth' \in [Verifiers -> DeviceRequest] /\ AuthFits'
    BY <1>1, <2>1, ObserveStep, Zenon DEF registryVars, DevicesInv, DevicesTypeOK
  <2>3. DevicesTypeOK' /\ RegistryFits' /\ RequestsFit'
    BY <1>1, <1>3, <2>1, <2>2, Zenon DEF registryVars, DevicesInv, DevicesTypeOK, RegistryFits, RequestsFit
  <2>4. DecisionsFit'
    <3>1. UNCHANGED <<device, keys, requestsOf>>
      BY <2>1, Zenon DEF registryVars
    <3> QED BY <1>1, <1>3, <3>1, DecisionsKept, Zenon DEF DevicesInv
  <2> QED BY <1>3, <2>2, <2>3, <2>4, Zenon DEF DevicesInv
<1> QED BY <1>4, <1>5, Zenon

(* The keys after a rotation: the newest is CURRENT, and no other. *)
Rotated(old, now) ==
  Append([e \in DOMAIN old |-> RotateKey(old[e], now)], [status |-> "CURRENT", at |-> now])

LEMMA RotatedKeys ==
  ASSUME NEW old \in Seq(KeyRow), NEW now \in Nat
  PROVE  /\ Rotated(old, now) \in Seq(KeyRow) /\ Len(Rotated(old, now)) = Len(old) + 1
         /\ Rotated(old, now)[Len(old) + 1].status = "CURRENT"
         /\ \A e \in DOMAIN old : Rotated(old, now)[e] = RotateKey(old[e], now)
         /\ \A e \in DOMAIN old : Rotated(old, now)[e].status # "CURRENT"
         /\ \A e \in DOMAIN Rotated(old, now) : e \in DOMAIN old \/ e = Len(old) + 1
<1> DEFINE rotated == [e \in DOMAIN old |-> RotateKey(old[e], now)]
           key == [status |-> "CURRENT", at |-> now]
<1>1. ASSUME NEW e \in DOMAIN old
      PROVE  RotateKey(old[e], now) \in KeyRow /\ RotateKey(old[e], now).status # "CURRENT"
  <2>1. old[e] \in KeyRow
    BY KeyTyped, Zenon
  <2> QED BY <2>1, Zenon DEF RotateKey, KeyRow
<1>2. rotated \in Seq(KeyRow) /\ Len(rotated) = Len(old) /\ DOMAIN rotated = DOMAIN old
  <2>1. DOMAIN old = 1 .. Len(old) /\ Len(old) \in Nat
    OBVIOUS
  <2> QED BY <1>1, <2>1
<1>3. key \in KeyRow /\ key.status = "CURRENT"
  BY Zenon DEF KeyRow
<1>4. \A e \in DOMAIN old : rotated[e] = RotateKey(old[e], now) /\ rotated[e].status # "CURRENT"
  BY <1>1, Zenon
<1> HIDE DEF rotated, key
<1>5. /\ Append(rotated, key) \in Seq(KeyRow) /\ Len(Append(rotated, key)) = Len(old) + 1
      /\ Append(rotated, key)[Len(old) + 1] = key
      /\ \A e \in DOMAIN old : Append(rotated, key)[e] = rotated[e]
      /\ \A e \in DOMAIN Append(rotated, key) : e \in DOMAIN old \/ e = Len(old) + 1
  BY <1>2, <1>3
<1>6. Rotated(old, now) = Append(rotated, key)
  BY Zenon DEF Rotated, rotated, key
<1> QED BY <1>3, <1>4, <1>5, <1>6, Zenon

LEMMA applyRotationStep ==
  ASSUME DevicesInv, NEW c \in AdminCallers, applyRotation(c)
  PROVE  DevicesInv'
<1> DEFINE r == adminTx[c].row
           d == requestsOf[r].device
           now == adminTx[c].at
<1>1. adminTx[c] \in [pc : {"rotate"}, at : Nat, row : Nat, epoch : Nat]
  BY Zenon DEF applyRotation, DevicesInv, DevicesTypeOK, Decision
<1>2. /\ r \in DOMAIN requestsOf /\ requestsOf[r].type = "ROTATE"
      /\ device[d].status = "ACTIVE" /\ device[d].epoch = adminTx[c].epoch
  BY <1>1, Zenon DEF DevicesInv, DecisionsFit
<1>3. /\ d \in DeviceIds /\ device[d] \in DeviceRow /\ keys[d] \in Seq(KeyRow)
      /\ device[d] # NoDevice /\ KeysFit(device[d], keys[d])
  BY <1>2, RequestTyped DEF DevicesInv, DevicesTypeOK, NoDevice, RegistryFits
<1>4. Len(keys[d]) = adminTx[c].epoch /\ adminTx[c].epoch >= 1
  BY <1>2, <1>3, Zenon DEF KeysFit
<1> DEFINE row == [device[d] EXCEPT !.epoch = adminTx[c].epoch + 1]
           ks == Rotated(keys[d], now)
           reqs == [requestsOf EXCEPT ![r].status = "APPROVED"]
<1>5. /\ device' = [device EXCEPT ![d].epoch = adminTx[c].epoch + 1]
      /\ keys' = [keys EXCEPT ![d] = ks] /\ requestsOf' = reqs
      /\ Finish(c, approveProvisionRequest("nil")) /\ Observe /\ clock' = clock
  <2>1. adminTx[c].epoch + 1 > Len(keys[d])
    BY <1>1, <1>4
  <2> QED BY <1>3, <2>1, Zenon DEF applyRotation, Rotated, DevicesInv, DevicesTypeOK
<1>6. device' = [device EXCEPT ![d] = row]
  BY <1>3, <1>5, Zenon DEF DevicesInv, DevicesTypeOK
<1>7. row \in DeviceRow /\ row # NoDevice /\ row.status = "ACTIVE" /\ row.epoch = adminTx[c].epoch + 1
  BY <1>1, <1>2, <1>3 DEF DeviceRow, NoDevice
<1>8. /\ ks \in Seq(KeyRow) /\ Len(ks) = Len(keys[d]) + 1
      /\ ks[Len(keys[d]) + 1].status = "CURRENT"
      /\ \A e \in DOMAIN keys[d] : ks[e].status # "CURRENT"
      /\ \A e \in DOMAIN ks : e \in DOMAIN keys[d] \/ e = Len(keys[d]) + 1
  <2>1. now \in Nat
    BY <1>1, Zenon
  <2>2. keys[d] \in Seq(KeyRow)
    BY <1>3, Zenon
  <2> HIDE DEF now, d
  <2>3. ks \in Seq(KeyRow) /\ Len(ks) = Len(keys[d]) + 1 /\ ks[Len(keys[d]) + 1].status = "CURRENT"
    BY <2>1, <2>2, RotatedKeys, Zenon
  <2>4. \A e \in DOMAIN keys[d] : ks[e].status # "CURRENT"
    BY <2>1, <2>2, RotatedKeys, Zenon
  <2>5. \A e \in DOMAIN ks : e \in DOMAIN keys[d] \/ e = Len(keys[d]) + 1
    BY <2>1, <2>2, RotatedKeys, Zenon
  <2> QED BY <2>3, <2>4, <2>5, Zenon
<1>9. /\ reqs \in Seq(RequestRow) /\ DOMAIN reqs = DOMAIN requestsOf
      /\ \A i \in DOMAIN reqs :
           /\ reqs[i].type = requestsOf[i].type /\ reqs[i].device = requestsOf[i].device
           /\ reqs[i].status = IF i = r THEN "APPROVED" ELSE requestsOf[i].status
  BY <1>2, StatusUpdate, Zenon DEF DevicesInv
<1> HIDE DEF row, ks, reqs
<1>10. KeysFit(row, ks)
  <2>1. \A e \in DOMAIN ks : ks[e].status = "CURRENT" <=> e = row.epoch
    BY <1>1, <1>3, <1>4, <1>7, <1>8, Zenon
  <2> QED BY <1>1, <1>4, <1>7, <1>8, <2>1 DEF KeysFit, Statuses, Terminal
<1>11. \E i \in DOMAIN reqs : reqs[i].type = "PROVISION" /\ reqs[i].device = d /\ reqs[i].status # "PENDING"
  <2>1. PICK i \in DOMAIN requestsOf : requestsOf[i].type = "PROVISION" /\ requestsOf[i].device = d
    BY <1>3, Zenon DEF DevicesInv, RequestsFit
  <2>2. requestsOf[i].status # "PENDING"
    BY <1>3, <2>1, Zenon DEF DevicesInv, RequestsFit
  <2> QED BY <1>2, <1>9, <2>1, <2>2, ZenonT(40)
<1>12. /\ adminTx' \in [AdminCallers -> Decision]
       /\ \A b \in AdminCallers : adminTx'[b] = IF b = c THEN [pc |-> "done"] ELSE adminTx[b]
       /\ AcceptedWasUsable'
  BY <1>5, FinishTypes, Zenon
<1>13. \A b \in AdminCallers :
         \/ adminTx'[b].pc = "done"
         \/ adminTx'[b] = adminTx[b]
            /\ ~(adminTx[b].pc = "rotate" /\ requestsOf[adminTx[b].row].device = d)
  BY <1>1, <1>12 DEF DevicesInv, DecisionsFit
<1>14. /\ \A e \in Nat : Passes(ks, e, clock) => Passes(keys[d], e, clock) \/ row.status = "ACTIVE"
       /\ \A i \in DOMAIN reqs :
            /\ reqs[i].type = requestsOf[i].type /\ reqs[i].device = requestsOf[i].device
            /\ reqs[i].status = "PENDING" => requestsOf[i].status = "PENDING"
  BY <1>7, <1>9, Zenon
<1>15. /\ d \in DeviceIds /\ row \in DeviceRow /\ ks \in Seq(KeyRow) /\ row # NoDevice
       /\ keys' = [keys EXCEPT ![d] = ks] /\ Observe /\ clock' = clock
       /\ reqs \in Seq(RequestRow) /\ DOMAIN reqs = DOMAIN requestsOf /\ requestsOf' = reqs
       /\ adminTx' \in [AdminCallers -> Decision] /\ AcceptedWasUsable'
  BY <1>3, <1>5, <1>7, <1>8, <1>9, <1>12, Zenon
<1> HIDE DEF d, r, now
<1> QED BY <1>6, <1>10, <1>11, <1>13, <1>14, <1>15, RegistryStep, ZenonT(40)

LEMMA SetDeviceStatusStep ==
  ASSUME DevicesInv, NEW d \in DeviceIds, NEW target \in Statuses, SetDeviceStatus(d, target)
  PROVE  DevicesInv'
<1>1. device[d] # NoDevice /\ device[d].status \notin Terminal
  BY DEF SetDeviceStatus, setDeviceStatus, ValidateStatusTransition
<1>2. device[d] \in DeviceRow /\ keys[d] \in Seq(KeyRow) /\ KeysFit(device[d], keys[d])
  BY Zenon DEF DevicesInv, DevicesTypeOK, RegistryFits
<1> DEFINE row == [device[d] EXCEPT !.status = target]
           ks == IF target \in Terminal
                 THEN [e \in DOMAIN keys[d] |-> [keys[d][e] EXCEPT !.status = "REVOKED"]] ELSE keys[d]
<1>3. device' = [device EXCEPT ![d] = row] /\ keys' = [keys EXCEPT ![d] = ks]
  BY <1>2, Zenon DEF SetDeviceStatus, DevicesInv, DevicesTypeOK
<1>4. Observe /\ UNCHANGED <<requestsOf, adminTx, answered, clock>>
  BY Zenon DEF SetDeviceStatus
<1>5. row \in DeviceRow /\ row # NoDevice /\ row.status = target /\ row.epoch = device[d].epoch
  BY <1>2, Zenon DEF DeviceRow, NoDevice, Statuses
<1>6. ks \in Seq(KeyRow) /\ Len(ks) = Len(keys[d])
  <2>1. CASE target \in Terminal
    <3>1. \A e \in DOMAIN keys[d] : [keys[d][e] EXCEPT !.status = "REVOKED"] \in KeyRow
      BY <1>2, KeyTyped DEF KeyRow
    <3>2. DOMAIN keys[d] = 1 .. Len(keys[d]) /\ Len(keys[d]) \in Nat
      BY <1>2
    <3> QED BY <2>1, <3>1, <3>2
  <2> QED BY <1>2, <2>1, Zenon
<1>7. \A e \in DOMAIN ks : e \in DOMAIN keys[d] /\
        ks[e].status = IF target \in Terminal THEN "REVOKED" ELSE keys[d][e].status
  BY <1>2, KeyTyped DEF KeyRow
<1>8. target \notin Terminal => ks = keys[d]
  BY Zenon
<1> HIDE DEF row, ks
<1>9. KeysFit(row, ks)
  <2>1. /\ device[d].epoch >= 1 /\ Len(keys[d]) = device[d].epoch
        /\ \A e \in DOMAIN keys[d] : keys[d][e].status = "CURRENT" <=> e = device[d].epoch
    BY <1>1, <1>2, Zenon DEF KeysFit
  <2> QED BY <1>5, <1>6, <1>7, <2>1, Zenon DEF KeysFit
<1>10. \A e \in Nat : Passes(ks, e, clock) => Passes(keys[d], e, clock) \/ row.status = "ACTIVE"
  BY <1>7, <1>8, Zenon DEF Passes
<1>11. \E i \in DOMAIN requestsOf :
         requestsOf[i].type = "PROVISION" /\ requestsOf[i].device = d /\ requestsOf[i].status # "PENDING"
  <2>1. PICK i \in DOMAIN requestsOf : requestsOf[i].type = "PROVISION" /\ requestsOf[i].device = d
    BY <1>1, Zenon DEF DevicesInv, RequestsFit
  <2>2. requestsOf[i].status # "PENDING"
    BY <1>1, <2>1, Zenon DEF DevicesInv, RequestsFit
  <2> QED BY <2>1, <2>2, Zenon
<1>12. \A b \in AdminCallers :
         adminTx'[b] = adminTx[b] /\ ~(adminTx[b].pc = "rotate" /\ requestsOf[adminTx[b].row].device = d)
  BY <1>4, Zenon DEF SetDeviceStatus, DeviceLocked
<1>13. requestsOf \in Seq(RequestRow) /\ adminTx' \in [AdminCallers -> Decision] /\ AcceptedWasUsable'
  BY <1>4, Zenon DEF DevicesInv, DevicesTypeOK, AcceptedWasUsable
<1> QED BY <1>3, <1>4, <1>5, <1>6, <1>9, <1>10, <1>11, <1>12, <1>13, RegistryStep, ZenonT(40)

LEMMA TickStep ==
  ASSUME DevicesInv, Tick
  PROVE  DevicesInv'
<1>1. clock \in Nat /\ clock' = clock + 1 /\ UNCHANGED <<registryVars, adminTx, auth, answered>>
  BY Zenon DEF Tick, DevicesInv, DevicesTypeOK
<1>2. DevicesTypeOK' /\ RegistryFits' /\ RequestsFit' /\ AcceptedWasUsable'
  <2>1. /\ device' = device /\ keys' = keys /\ requestsOf' = requestsOf
        /\ adminTx' = adminTx /\ auth' = auth /\ answered' = answered
    BY <1>1, Zenon DEF registryVars
  <2>2. clock' \in Nat
    BY <1>1
  <2>3. DevicesTypeOK'
    BY <2>1, <2>2, Zenon DEF DevicesInv, DevicesTypeOK
  <2>4. RegistryFits' /\ RequestsFit'
    BY <2>1, Zenon DEF DevicesInv, RegistryFits, RequestsFit
  <2>5. AcceptedWasUsable'
    BY <2>1, Zenon DEF DevicesInv, AcceptedWasUsable
  <2> QED BY <2>3, <2>4, <2>5, Zenon
<1>3. DecisionsFit'
  <2>1. \A c \in AdminCallers : adminTx[c].pc # "done" => adminTx[c].at <= clock + 1
    <3> SUFFICES ASSUME NEW c \in AdminCallers, adminTx[c].pc # "done"
                 PROVE  adminTx[c].at <= clock + 1
      BY Zenon
    <3>1. adminTx[c].at <= clock
      BY Zenon DEF DevicesInv, DecisionsFit
    <3>2. adminTx[c].at \in Nat
      BY Zenon DEF DevicesInv, DevicesTypeOK, Decision
    <3> QED BY <1>1, <3>1, <3>2
  <2> QED BY <1>1, <2>1, Zenon DEF DevicesInv, DecisionsFit, registryVars
<1>4. AuthFits'
  <2>1. ASSUME NEW v \in Verifiers, auth[v].pc = "key", Passes(keys[auth[v].device], auth[v].epoch, clock + 1)
        PROVE  auth[v].usable
    <3>1. auth[v].device \in DeviceIds
      BY <2>1, Zenon DEF DevicesInv, DevicesTypeOK, DeviceRequest
    <3>2. keys[auth[v].device] \in Seq(KeyRow)
      BY <3>1, Zenon DEF DevicesInv, DevicesTypeOK
    <3>3. auth[v].epoch \in DOMAIN keys[auth[v].device]
      BY <2>1, Zenon DEF Passes
    <3>4. keys[auth[v].device][auth[v].epoch].at \in Nat
      BY <3>2, <3>3, KeyTyped, Zenon
    <3>5. Passes(keys[auth[v].device], auth[v].epoch, clock)
      <4>1. ASSUME NEW at \in Nat, (clock + 1) - at <= Grace PROVE clock - at <= Grace
        BY <1>1, <4>1, DevicesAssumption
      <4> QED BY <2>1, <3>4, <4>1, Zenon DEF Passes
    <3> QED BY <2>1, <3>5, Zenon DEF DevicesInv, AuthFits, RequestFits
  <2> QED BY <1>1, <2>1, Zenon DEF AuthFits, RequestFits, registryVars
<1> QED BY <1>2, <1>3, <1>4, Zenon DEF DevicesInv

-----------------------------------------------------------------------------
(* The invariant holds. *)

LEMMA DevicesStep == DevicesInv /\ [DevicesNext]_deviceVars => DevicesInv'
<1> SUFFICES ASSUME DevicesInv, [DevicesNext]_deviceVars PROVE DevicesInv'
  BY Zenon
<1>1. CASE UNCHANGED deviceVars
  <2>1. UNCHANGED <<registryVars, adminTx, clock>> /\ auth' = auth /\ answered' = answered
    BY <1>1, Zenon DEF deviceVars
  <2>2. /\ auth' \in [Verifiers -> DeviceRequest] /\ AcceptedWasUsable'
        /\ \A v \in Verifiers : RequestFits(auth'[v], keys, clock)
    BY <2>1, Zenon DEF DevicesInv, DevicesTypeOK, AuthFits, AcceptedWasUsable
  <2> QED BY <2>1, <2>2, AuthStep, Zenon
<1>2. ASSUME NEW d \in DeviceIds, NEW a \in Makers, createProvisionRequest(d, a) \/ requestRotation(d, a)
      PROVE  DevicesInv'
  <2>1. CASE createProvisionRequest(d, a)
    BY <2>1, InsertRequestStep, Zenon DEF createProvisionRequest, CreateProvisionRequest
  <2>2. CASE requestRotation(d, a)
    BY <2>2, InsertRequestStep, Zenon DEF requestRotation, CreateRotationRequest
  <2> QED BY <1>2, <2>1, <2>2, Zenon
<1>3. ASSUME NEW c \in AdminCallers, BeginDecision(c) PROVE DevicesInv'
  BY <1>3, BeginDecisionStep, Zenon
<1>4. ASSUME NEW c \in AdminCallers, NEW r \in DOMAIN requestsOf, NEW a \in Checkers,
             RejectRequest(c, r, a) \/ ApproveRequest(c, r, a) \/ LockRotationRequest(c, r, a)
      PROVE  DevicesInv'
  BY <1>4, RejectRequestStep, ApproveRequestStep, LockRotationRequestStep, Zenon
<1>5. ASSUME NEW c \in AdminCallers, NEW r \in DOMAIN requestsOf, RefuseRotation(c, r) PROVE DevicesInv'
  BY <1>5, FinishStep, ZenonT(40) DEF RefuseRotation
<1>6. ASSUME NEW c \in AdminCallers, LockForRotation(c) \/ applyRotation(c) \/ AbortDecision(c)
      PROVE  DevicesInv'
  BY <1>6, LockForRotationStep, applyRotationStep, FinishStep, ZenonT(40) DEF AbortDecision
<1>7. ASSUME NEW d \in DeviceIds, NEW target \in Statuses, SetDeviceStatus(d, target) PROVE DevicesInv'
  BY <1>7, SetDeviceStatusStep, Zenon
<1>8. ASSUME NEW r \in DOMAIN requestsOf, ConsumeActivation(r) PROVE DevicesInv'
  BY <1>8, ConsumeActivationStep, Zenon
<1>9. ASSUME NEW v \in Verifiers, RefuseForm(v) PROVE DevicesInv'
  <2>1. UNCHANGED <<registryVars, adminTx, clock>>
    BY <1>9, Zenon DEF RefuseForm
  <2>2. PICK err \in {"envelope_malformed", "device_id_mismatch", "unavailable"} : RefuseEarly(v, err)
    BY <1>9, Zenon DEF RefuseForm
  <2>3. err # "nil"
    BY Zenon
  <2> QED BY <2>1, <2>2, <2>3, RefuseEarlyStep, Zenon
<1>10. ASSUME NEW v \in Verifiers, NEW d \in DeviceIds, NEW epoch \in 1 .. MaxEpoch, LoadDevice(v, d, epoch)
       PROVE  DevicesInv'
  <2>1. epoch \in Nat
    BY DevicesAssumption
  <2> QED BY <1>10, <2>1, LoadDeviceStep, Zenon
<1>11. ASSUME NEW v \in Verifiers, VerifyTelemetry(v) \/ VerifyProof(v) PROVE DevicesInv'
  BY <1>11, VerifyStep, Zenon
<1>12. CASE Tick
  BY <1>12, TickStep, Zenon
<1> QED BY <1>1, <1>2, <1>3, <1>4, <1>5, <1>6, <1>7, <1>8, <1>9, <1>10, <1>11, <1>12, Zenon DEF DevicesNext

LEMMA DevicesInvariant == DevicesSpec => []DevicesInv
BY DevicesInitInv, DevicesStep, PTL DEF DevicesSpec

(***************************************************************************)
(* In every behaviour of the registry a device that is not retired has     *)
(* exactly one CURRENT key, the one its row names, and a retired device    *)
(* has only REVOKED keys: the row locks of approveRotation and             *)
(* SetDeviceStatus are enough for any number of overlapping decisions.     *)
(***************************************************************************)
THEOREM KeysFollowTheirDevice == DevicesSpec => []OneCurrentKey
<1>1. DevicesInv => OneCurrentKey
  <2> SUFFICES ASSUME DevicesInv, NEW d \in DeviceIds, device[d] # NoDevice
               PROVE  /\ Len(keys[d]) = device[d].epoch
                      /\ {e \in DOMAIN keys[d] : keys[d][e].status = "CURRENT"}
                           = IF device[d].status \in Terminal THEN {} ELSE {device[d].epoch}
                      /\ device[d].status \in Terminal => \A e \in DOMAIN keys[d] : keys[d][e].status = "REVOKED"
    BY Zenon DEF OneCurrentKey
  <2>1. KeysFit(device[d], keys[d]) /\ keys[d] \in Seq(KeyRow) /\ device[d].epoch \in Nat
    BY Zenon DEF DevicesInv, RegistryFits, DevicesTypeOK, DeviceRow
  <2>2. /\ Len(keys[d]) = device[d].epoch /\ device[d].epoch >= 1
        /\ \A e \in DOMAIN keys[d] :
             /\ keys[d][e].status = "CURRENT" <=> e = device[d].epoch /\ device[d].status \notin Terminal
             /\ device[d].status \in Terminal => keys[d][e].status = "REVOKED"
    BY <2>1, Zenon DEF KeysFit
  <2>3. device[d].epoch \in DOMAIN keys[d]
    BY <2>1, <2>2
  <2> QED BY <2>2, <2>3, Zenon
<1> QED BY <1>1, DevicesInvariant, PTL

(***************************************************************************)
(* Telemetry that is forwarded and an MQTT login that is allowed were      *)
(* signed with a key that authenticated its device at some moment between  *)
(* the two reads of authenticate, whatever the administrators do meanwhile *)
(* and whatever the grace window.                                          *)
(***************************************************************************)
THEOREM VerifierReadsAreAtomic == DevicesSpec => []AcceptedWasUsable
<1>1. DevicesInv => AcceptedWasUsable
  BY Zenon DEF DevicesInv
<1> QED BY <1>1, DevicesInvariant, PTL

(* What a step may do to a key that is usable. *)
GraceStep ==
  \A d \in DeviceIds : \A e \in DOMAIN keys[d] :
    UsableIn(device, keys, d, e) /\ device'[d].status = "ACTIVE" => keys'[d][e].status # "REVOKED"

LEMMA KeysKeptGrace == keys' = keys => GraceStep
BY Zenon DEF GraceStep, UsableIn

LEMMA ApproveRequestGrace ==
  ASSUME DevicesInv, NEW c \in AdminCallers, NEW r \in DOMAIN requestsOf, NEW checker,
         ApproveRequest(c, r, checker)
  PROVE  GraceStep
<1> DEFINE d == requestsOf[r].device
           err == ProvisionError(r, checker)
<1>1. CASE err = "nil"
  <2>1. /\ keys' = [keys EXCEPT ![d] = <<[status |-> "CURRENT", at |-> adminTx[c].at]>>]
        /\ requestsOf[r].type = "PROVISION"
    BY <1>1, Zenon DEF ApproveRequest
  <2>2. requestsOf[r].status = "PENDING"
    BY <1>1, ProvisionErrorNone, Zenon
  <2>3. device[d].status # "ACTIVE"
    BY <2>1, <2>2 DEF DevicesInv, RequestsFit, NoDevice
  <2>4. \A x \in DeviceIds : x # d => keys'[x] = keys[x]
    BY <2>1, Zenon DEF DevicesInv, DevicesTypeOK
  <2> QED BY <2>3, <2>4, Zenon DEF GraceStep, UsableIn
<1>2. CASE err # "nil"
  <2>1. keys' = keys
    BY <1>2, Zenon DEF ApproveRequest, registryVars
  <2> QED BY <2>1, KeysKeptGrace, Zenon
<1> QED BY <1>1, <1>2, Zenon

LEMMA SetDeviceStatusGrace ==
  ASSUME DevicesInv, NEW d \in DeviceIds, NEW target \in Statuses, SetDeviceStatus(d, target)
  PROVE  GraceStep
<1>1. CASE target \in Terminal
  <2>1. device'[d].status = target
    BY DEF SetDeviceStatus, DevicesInv, DevicesTypeOK, DeviceRow
  <2>2. \A x \in DeviceIds : x # d => keys'[x] = keys[x]
    BY DEF SetDeviceStatus, DevicesInv, DevicesTypeOK
  <2> QED BY <1>1, <2>1, <2>2, Zenon DEF GraceStep, UsableIn, Terminal
<1>2. CASE target \notin Terminal
  BY <1>2, KeysKeptGrace, Zenon DEF SetDeviceStatus
<1> QED BY <1>1, <1>2, Zenon

(* The transaction began at or before the clock, so what it finds expired has expired. *)
LEMMA applyRotationGrace ==
  ASSUME DevicesInv, NEW c \in AdminCallers, applyRotation(c)
  PROVE  GraceStep
<1> DEFINE d == requestsOf[adminTx[c].row].device
           now == adminTx[c].at
<1>1. adminTx[c] \in [pc : {"rotate"}, at : Nat, row : Nat, epoch : Nat] /\ now <= clock
  BY Zenon DEF applyRotation, DevicesInv, DevicesTypeOK, Decision, DecisionsFit
<1>2. d \in DeviceIds
  BY <1>1, RequestTyped, Zenon DEF DevicesInv, DecisionsFit
<1>3. keys' = keys \/ keys' = [keys EXCEPT ![d] = Rotated(keys[d], now)]
  BY <1>2, Zenon DEF applyRotation, registryVars, Rotated, DevicesInv, DevicesTypeOK
<1>4. CASE keys' = [keys EXCEPT ![d] = Rotated(keys[d], now)]
  <2>1. now \in Nat /\ clock \in Nat /\ Grace \in Nat /\ keys[d] \in Seq(KeyRow)
    BY <1>1, <1>2, DevicesAssumption, Zenon DEF DevicesInv, DevicesTypeOK
  <2>2. \A x \in DeviceIds : keys'[x] = IF x = d THEN Rotated(keys[d], now) ELSE keys[x]
    BY <1>4, Zenon DEF DevicesInv, DevicesTypeOK
  <2> HIDE DEF d, now
  <2>3. \A e \in DOMAIN keys[d] : Rotated(keys[d], now)[e] = RotateKey(keys[d][e], now)
    BY <2>1, RotatedKeys, Zenon
  <2>4. ASSUME NEW e \in DOMAIN keys[d], UsableIn(device, keys, d, e)
        PROVE  RotateKey(keys[d][e], now).status # "REVOKED"
    <3>1. keys[d][e] \in KeyRow /\ keys[d][e].at \in Nat
      BY <2>1, KeyTyped, Zenon
    <3>2. keys[d][e].status = "CURRENT" \/ (keys[d][e].status = "PREVIOUS" /\ clock - keys[d][e].at <= Grace)
      BY <2>4, Zenon DEF UsableIn
    <3>3. ASSUME NEW at \in Nat, clock - at <= Grace PROVE ~(at + Grace < now)
      <4>1. now <= clock
        BY <1>1, Zenon DEF now
      <4> QED BY <2>1, <3>3, <4>1
    <3> QED BY <3>1, <3>2, <3>3, Zenon DEF RotateKey
  <2> QED BY <2>2, <2>3, <2>4 DEF GraceStep, UsableIn
<1> QED BY <1>3, <1>4, KeysKeptGrace, Zenon

(***************************************************************************)
(* No step of the registry revokes a key that the verifier would accept    *)
(* while its device stays ACTIVE: a rotation never cuts the grace of an    *)
(* older key short, however late the transaction of applyRotation commits. *)
(***************************************************************************)
THEOREM RotationKeepsGrace == DevicesSpec => GraceIsKept
<1>1. DevicesInv /\ [DevicesNext]_deviceVars => [GraceStep]_deviceVars
  <2> SUFFICES ASSUME DevicesInv, DevicesNext PROVE GraceStep
    BY Zenon DEF deviceVars
  <2>1. ASSUME NEW c \in AdminCallers, NEW r \in DOMAIN requestsOf, NEW a \in Checkers,
               ApproveRequest(c, r, a)
        PROVE  GraceStep
    BY <2>1, ApproveRequestGrace, Zenon
  <2>2. ASSUME NEW c \in AdminCallers, applyRotation(c) PROVE GraceStep
    BY <2>2, applyRotationGrace, Zenon
  <2>3. ASSUME NEW d \in DeviceIds, NEW target \in Statuses, SetDeviceStatus(d, target) PROVE GraceStep
    BY <2>3, SetDeviceStatusGrace, Zenon
  <2>4. ASSUME NEW d \in DeviceIds, NEW a \in Makers, createProvisionRequest(d, a) \/ requestRotation(d, a)
        PROVE  GraceStep
    BY <2>4, KeysKeptGrace, Zenon
       DEF createProvisionRequest, CreateProvisionRequest, requestRotation, CreateRotationRequest, insertRequest
  <2>5. ASSUME NEW c \in AdminCallers,
               BeginDecision(c) \/ LockForRotation(c) \/ AbortDecision(c)
        PROVE  GraceStep
    BY <2>5, KeysKeptGrace, Zenon DEF BeginDecision, LockForRotation, AbortDecision, registryVars
  <2>6. ASSUME NEW c \in AdminCallers, NEW r \in DOMAIN requestsOf, NEW a \in Checkers,
               RejectRequest(c, r, a) \/ LockRotationRequest(c, r, a) \/ RefuseRotation(c, r)
        PROVE  GraceStep
    BY <2>6, KeysKeptGrace, Zenon DEF RejectRequest, LockRotationRequest, RefuseRotation, registryVars
  <2>7. ASSUME NEW r \in DOMAIN requestsOf, ConsumeActivation(r) PROVE GraceStep
    BY <2>7, KeysKeptGrace, Zenon DEF ConsumeActivation
  <2>8. ASSUME NEW v \in Verifiers,
               RefuseForm(v) \/ VerifyTelemetry(v) \/ VerifyProof(v)
                 \/ \E d \in DeviceIds, epoch \in 1 .. MaxEpoch : LoadDevice(v, d, epoch)
        PROVE  GraceStep
    BY <2>8, KeysKeptGrace DEF RefuseForm, VerifyTelemetry, VerifyProof, LoadDevice, registryVars
  <2>9. ASSUME NEW c \in AdminCallers, NEW r \in DOMAIN requestsOf, RefuseRotation(c, r) PROVE GraceStep
    BY <2>9, KeysKeptGrace, Zenon DEF RefuseRotation, registryVars
  <2>10. CASE Tick
    BY <2>10, KeysKeptGrace, Zenon DEF Tick, registryVars
  <2> QED BY <2>1, <2>2, <2>3, <2>4, <2>5, <2>6, <2>7, <2>8, <2>9, <2>10, Zenon DEF DevicesNext
<1> QED BY <1>1, DevicesInvariant, PTL DEF DevicesSpec, GraceIsKept, GraceStep

-----------------------------------------------------------------------------
(* Staged firmware. *)

Release == [created : Nat, reach : SUBSET Fleet, minEpoch : Nat]

Fetch ==
  {NoFetch} \cup [pc : {"key", "list"}, device : Fleet, epoch : Nat, floor : Nat]
    \cup [pc : {"done"}, device : Fleet, floor : Nat, offer : Nat]

(* An offer of n stands: the release is there, and the device is eligible for it at the epoch. *)
OfferStands(d, epoch, n) ==
  n # 0 => \E i \in DOMAIN releases : Eligible(d, epoch, i) /\ releases[i].created = n

(* What was offered stands at the epoch of the device, and at the epoch a fetch has read. *)
FetchFits(q) ==
  fetch[q].pc \in {"key", "list"} =>
    /\ fetch[q].epoch =< keyEpoch[fetch[q].device]
    /\ OfferStands(fetch[q].device, fetch[q].epoch, fetch[q].floor)

FirmwareTypeOK ==
  /\ started \in Nat /\ releases \in Seq(Release)
  /\ keyEpoch \in [Fleet -> Nat] /\ newest \in [Fleet -> Nat] /\ fetch \in [Fetches -> Fetch]

FirmwareInv ==
  /\ FirmwareTypeOK
  /\ \A d \in Fleet : OfferStands(d, keyEpoch[d], newest[d])
  /\ \A q \in Fetches : FetchFits(q)
  /\ OfferNeverOlder

LEMMA FirmwareInitInv == FirmwareInit => FirmwareInv
<1> SUFFICES ASSUME FirmwareInit PROVE FirmwareInv
  BY Zenon
<1>1. started \in Nat /\ releases \in Seq(Release) /\ keyEpoch \in [Fleet -> Nat] /\ newest \in [Fleet -> Nat]
  BY DEF FirmwareInit
<1>2. /\ \A d \in Fleet : newest[d] = 0
      /\ fetch \in [Fetches -> Fetch] /\ \A q \in Fetches : fetch[q].pc = "idle"
  BY Zenon DEF FirmwareInit, NoFetch, Fetch
<1> QED BY <1>1, <1>2, Zenon DEF FirmwareInv, FirmwareTypeOK, OfferStands, FetchFits, OfferNeverOlder

LEMMA ReleaseTyped ==
  ASSUME FirmwareInv, NEW i \in DOMAIN releases
  PROVE  releases[i].created \in Nat /\ releases[i].minEpoch \in Nat
<1>1. releases[i] \in Release
  BY DEF FirmwareInv, FirmwareTypeOK
<1> QED BY <1>1, Zenon DEF Release

(* A fetch before its answer. *)
LEMMA FetchTyped ==
  ASSUME FirmwareInv, NEW q \in Fetches, fetch[q].pc \in {"key", "list"}
  PROVE  fetch[q] \in [pc : {"key", "list"}, device : Fleet, epoch : Nat, floor : Nat]
BY DEF FirmwareInv, FirmwareTypeOK, Fetch, NoFetch

(* Offers stand at later epochs and with further releases. *)
LEMMA OfferStandsOn ==
  ASSUME FirmwareInv, NEW d \in Fleet, NEW epoch \in Nat, NEW later \in Nat, epoch =< later, NEW n,
         OfferStands(d, epoch, n)
  PROVE  OfferStands(d, later, n)
<1>1. ASSUME NEW i \in DOMAIN releases, Eligible(d, epoch, i) PROVE Eligible(d, later, i)
  <2>1. releases[i].minEpoch \in Nat
    BY ReleaseTyped, Zenon
  <2> QED BY <1>1, <2>1 DEF Eligible
<1> QED BY <1>1, Zenon DEF OfferStands

(* Only fetch q moves; the rest of the invariant is about what it reads. *)
LEMMA FetchMoves ==
  ASSUME FirmwareInv, NEW q \in Fetches, NEW next \in Fetch, fetch' = [fetch EXCEPT ![q] = next],
         UNCHANGED <<started, releases, keyEpoch, newest>>,
         next.pc \in {"key", "list"} =>
           next.epoch =< keyEpoch[next.device] /\ OfferStands(next.device, next.epoch, next.floor),
         next.pc # "done"
  PROVE  FirmwareInv'
<1>1. fetch' \in [Fetches -> Fetch] /\ \A p \in Fetches : fetch'[p] = IF p = q THEN next ELSE fetch[p]
  BY Zenon DEF FirmwareInv, FirmwareTypeOK
<1>2. FirmwareTypeOK'
  BY <1>1, Zenon DEF FirmwareInv, FirmwareTypeOK
<1>3. \A d \in Fleet : OfferStands(d, keyEpoch[d], newest[d])'
  BY Zenon DEF FirmwareInv, OfferStands, Eligible
<1>4. ASSUME NEW p \in Fetches PROVE FetchFits(p)'
  BY <1>1, Zenon DEF FirmwareInv, FetchFits, OfferStands, Eligible
<1>5. OfferNeverOlder'
  BY <1>1, Zenon DEF FirmwareInv, OfferNeverOlder
<1> QED BY <1>2, <1>3, <1>4, <1>5, Zenon DEF FirmwareInv

(* The releases or the epochs grow; no fetch moves. *)
LEMMA RegistryGrows ==
  ASSUME FirmwareInv, started' \in Nat, releases' \in Seq(Release), UNCHANGED <<fetch, newest>>,
         keyEpoch' \in [Fleet -> Nat], \A d \in Fleet : keyEpoch[d] =< keyEpoch'[d],
         \A i \in DOMAIN releases : i \in DOMAIN releases' /\ releases'[i] = releases[i]
  PROVE  FirmwareInv'
<1>1. ASSUME NEW d, NEW epoch, NEW n, OfferStands(d, epoch, n) PROVE OfferStands(d, epoch, n)'
  BY <1>1, Zenon DEF OfferStands, Eligible
<1>2. ASSUME NEW d \in Fleet PROVE OfferStands(d, keyEpoch'[d], newest[d])
  BY <1>1, OfferStandsOn, Zenon DEF FirmwareInv, FirmwareTypeOK
<1>3. FirmwareTypeOK'
  BY Zenon DEF FirmwareInv, FirmwareTypeOK
<1>4. ASSUME NEW d \in Fleet PROVE OfferStands(d, keyEpoch[d], newest[d])'
  BY <1>2, Zenon DEF OfferStands, Eligible
<1>5. ASSUME NEW q \in Fetches PROVE FetchFits(q)'
  <2> SUFFICES ASSUME fetch[q].pc \in {"key", "list"} PROVE FetchFits(q)'
    BY Zenon DEF FetchFits
  <2>1. fetch[q].device \in Fleet /\ fetch[q].epoch \in Nat
    BY FetchTyped
  <2>2. fetch[q].epoch =< keyEpoch[fetch[q].device] /\ OfferStands(fetch[q].device, fetch[q].epoch, fetch[q].floor)
    BY Zenon DEF FirmwareInv, FetchFits
  <2>3. keyEpoch[fetch[q].device] \in Nat /\ keyEpoch'[fetch[q].device] \in Nat
    BY <2>1, Zenon DEF FirmwareInv, FirmwareTypeOK
  <2>4. fetch[q].epoch =< keyEpoch'[fetch[q].device]
    BY <2>1, <2>2, <2>3
  <2>5. OfferStands(fetch[q].device, fetch[q].epoch, fetch[q].floor)'
    BY <2>2, Zenon DEF OfferStands, Eligible
  <2> QED BY <2>4, <2>5, Zenon DEF FetchFits
<1>6. OfferNeverOlder'
  BY Zenon DEF FirmwareInv, OfferNeverOlder
<1> QED BY <1>3, <1>4, <1>5, <1>6, Zenon DEF FirmwareInv

(* The answer: the release of the floor is in the list, and the fetch is eligible for it. *)
LEMMA ServeStep ==
  ASSUME FirmwareInv, NEW q \in Fetches, serveFirmware(q)
  PROVE  FirmwareInv'
<1> DEFINE d == fetch[q].device
           e == fetch[q].epoch
           floor == fetch[q].floor
<1>1. fetch[q].pc = "list" /\ UNCHANGED <<started, releases, keyEpoch>>
  BY Zenon DEF serveFirmware
<1>2. d \in Fleet /\ e \in Nat /\ floor \in Nat
  BY <1>1, FetchTyped
<1>3. e =< keyEpoch[d] /\ OfferStands(d, e, floor) /\ keyEpoch[d] \in Nat /\ newest[d] \in Nat
  BY <1>1, <1>2, Zenon DEF FirmwareInv, FirmwareTypeOK, FetchFits
<1>4. PICK n \in Nat : Offer(q, n) /\ OfferStands(d, e, n) /\ n >= floor
  <2>1. CASE (\A i \in DOMAIN releases : ~Eligible(d, e, i)) /\ Offer(q, 0)
    <3>1. floor = 0
      BY <1>3, <2>1, Zenon DEF OfferStands
    <3>2. 0 \in Nat /\ 0 >= floor /\ OfferStands(d, e, 0)
      BY <3>1 DEF OfferStands
    <3> QED BY <2>1, <3>2, Zenon
  <2>2. ASSUME NEW i \in DOMAIN releases, SelectRelease(d, e, i), Offer(q, releases[i].created)
        PROVE  \E n \in Nat : Offer(q, n) /\ OfferStands(d, e, n) /\ n >= floor
    <3>1. releases[i].created \in Nat /\ OfferStands(d, e, releases[i].created)
      BY <2>2, ReleaseTyped, Zenon DEF SelectRelease, OfferStands
    <3>2. releases[i].created >= floor
      <4>1. CASE floor = 0
        BY <3>1, <4>1
      <4>2. CASE floor # 0
        <5>1. PICK j \in DOMAIN releases : Eligible(d, e, j) /\ releases[j].created = floor
          BY <1>3, <4>2, Zenon DEF OfferStands
        <5>2. ~(releases[j].created > releases[i].created)
          BY <2>2, <5>1, Zenon DEF SelectRelease, ListedBefore
        <5> QED BY <1>2, <3>1, <5>1, <5>2
      <4> QED BY <4>1, <4>2, Zenon
    <3> QED BY <2>2, <3>1, <3>2, Zenon
  <2> QED BY <2>1, <2>2, Zenon DEF serveFirmware
<1> DEFINE next == [pc |-> "done", device |-> d, floor |-> floor, offer |-> n]
           top == IF n > newest[d] THEN n ELSE newest[d]
<1>5. next \in Fetch /\ next.pc = "done" /\ next.floor = floor /\ next.offer = n
  BY <1>2, Zenon DEF Fetch
<1>6. fetch' = [fetch EXCEPT ![q] = next] /\ newest' = [newest EXCEPT ![d] = top]
  BY <1>4, Zenon DEF Offer
<1>7. top \in Nat /\ (top = n \/ top = newest[d])
  BY <1>3, Zenon
<1>8. OfferStands(d, keyEpoch[d], top)
  <2>1. OfferStands(d, keyEpoch[d], n)
    BY <1>2, <1>3, <1>4, OfferStandsOn, Zenon
  <2>2. OfferStands(d, keyEpoch[d], newest[d])
    BY <1>2, Zenon DEF FirmwareInv
  <2> QED BY <1>7, <2>1, <2>2, Zenon
<1> HIDE DEF next, top, d, e, floor
<1>9. /\ fetch' \in [Fetches -> Fetch] /\ \A p \in Fetches : fetch'[p] = IF p = q THEN next ELSE fetch[p]
      /\ newest' \in [Fleet -> Nat] /\ \A x \in Fleet : newest'[x] = IF x = d THEN top ELSE newest[x]
  BY <1>2, <1>5, <1>6, <1>7, Zenon DEF FirmwareInv, FirmwareTypeOK
<1>10. FirmwareTypeOK'
  BY <1>1, <1>9, Zenon DEF FirmwareInv, FirmwareTypeOK
<1>11. ASSUME NEW x \in Fleet PROVE OfferStands(x, keyEpoch[x], newest[x])'
  <2>1. OfferStands(x, keyEpoch[x], newest'[x])
    BY <1>8, <1>9, Zenon DEF FirmwareInv
  <2> QED BY <1>1, <2>1, Zenon DEF OfferStands, Eligible
<1>12. ASSUME NEW p \in Fetches PROVE FetchFits(p)'
  BY <1>1, <1>5, <1>9, Zenon DEF FirmwareInv, FetchFits, OfferStands, Eligible
<1>13. OfferNeverOlder'
  BY <1>4, <1>5, <1>9, Zenon DEF FirmwareInv, OfferNeverOlder
<1> QED BY <1>10, <1>11, <1>12, <1>13, Zenon DEF FirmwareInv

LEMMA FirmwareStep == FirmwareInv /\ [FirmwareNext]_firmwareVars => FirmwareInv'
<1> SUFFICES ASSUME FirmwareInv, [FirmwareNext]_firmwareVars PROVE FirmwareInv'
  BY Zenon
<1>0. \A d \in Fleet : keyEpoch[d] =< keyEpoch[d]
  BY DEF FirmwareInv, FirmwareTypeOK
<1>1. CASE UNCHANGED firmwareVars
  BY <1>0, <1>1, RegistryGrows, Zenon DEF firmwareVars, FirmwareInv, FirmwareTypeOK
<1>2. CASE BeginRelease
  <2>1. started' \in Nat
    BY <1>2 DEF BeginRelease, FirmwareInv, FirmwareTypeOK
  <2> QED BY <1>0, <1>2, <2>1, RegistryGrows, Zenon DEF BeginRelease, FirmwareInv, FirmwareTypeOK
<1>3. ASSUME NEW created \in 1 .. started, NEW reach \in SUBSET Fleet, NEW minEpoch \in 1 .. MaxKeyEpoch,
             CreateFirmwareRelease(created, reach, minEpoch)
      PROVE  FirmwareInv'
  <2> DEFINE new == [created |-> created, reach |-> reach, minEpoch |-> minEpoch]
  <2>1. new \in Release /\ UNCHANGED <<started, keyEpoch, fetch, newest>> /\ releases' = Append(releases, new)
    BY <1>3, FirmwareAssumption DEF CreateFirmwareRelease, Release, FirmwareInv, FirmwareTypeOK
  <2> HIDE DEF new
  <2>2. releases' \in Seq(Release) /\ \A i \in DOMAIN releases : i \in DOMAIN releases' /\ releases'[i] = releases[i]
    BY <2>1 DEF FirmwareInv, FirmwareTypeOK
  <2> QED BY <1>0, <2>1, <2>2, RegistryGrows, Zenon DEF FirmwareInv, FirmwareTypeOK
<1>4. ASSUME NEW d \in Fleet, RotateEpoch(d) PROVE FirmwareInv'
  <2>1. keyEpoch' \in [Fleet -> Nat] /\ \A x \in Fleet : keyEpoch[x] =< keyEpoch'[x]
    BY <1>4 DEF RotateEpoch, FirmwareInv, FirmwareTypeOK
  <2> QED BY <1>4, <2>1, RegistryGrows, Zenon DEF RotateEpoch, FirmwareInv, FirmwareTypeOK
<1>5. ASSUME NEW q \in Fetches, NEW d \in Fleet, readDevice(q, d) PROVE FirmwareInv'
  <2> DEFINE next == [pc |-> "key", device |-> d, epoch |-> keyEpoch[d], floor |-> newest[d]]
  <2>1. next \in Fetch /\ next.pc = "key" /\ next.device = d /\ next.epoch = keyEpoch[d] /\ next.floor = newest[d]
    BY Zenon DEF Fetch, FirmwareInv, FirmwareTypeOK
  <2>2. fetch' = [fetch EXCEPT ![q] = next] /\ UNCHANGED <<started, releases, keyEpoch, newest>>
    BY <1>5, Zenon DEF readDevice
  <2> HIDE DEF next
  <2> QED BY <1>0, <2>1, <2>2, FetchMoves, Zenon DEF FirmwareInv
<1>6. ASSUME NEW q \in Fetches, readKey(q) PROVE FirmwareInv'
  <2> DEFINE next == [fetch[q] EXCEPT !.pc = "list"]
  <2>1. fetch[q].pc = "key" /\ fetch[q] \in [pc : {"key", "list"}, device : Fleet, epoch : Nat, floor : Nat]
    BY <1>6, FetchTyped, Zenon DEF readKey
  <2>2. /\ next \in Fetch /\ next.pc = "list" /\ next.device = fetch[q].device
        /\ next.epoch = fetch[q].epoch /\ next.floor = fetch[q].floor
    BY <2>1, Zenon DEF Fetch
  <2>3. fetch' = [fetch EXCEPT ![q] = next] /\ UNCHANGED <<started, releases, keyEpoch, newest>>
    BY <1>6, Zenon DEF readKey, FirmwareInv, FirmwareTypeOK
  <2> HIDE DEF next
  <2> QED BY <2>1, <2>2, <2>3, FetchMoves, Zenon DEF FirmwareInv, FetchFits
<1>7. ASSUME NEW q \in Fetches, fetchFails(q) PROVE FirmwareInv'
  <2>1. NoFetch \in Fetch /\ NoFetch.pc = "idle"
    BY Zenon DEF Fetch, NoFetch
  <2> QED BY <1>7, <2>1, FetchMoves, Zenon DEF fetchFails
<1>8. ASSUME NEW q \in Fetches, serveFirmware(q) PROVE FirmwareInv'
  BY <1>8, ServeStep, Zenon
<1> QED BY <1>1, <1>2, <1>3, <1>4, <1>5, <1>6, <1>7, <1>8, Zenon DEF FirmwareNext

(***************************************************************************)
(* A fetch is never answered with an older release than the device had     *)
(* been offered when it began, nor with none after some (serveFirmware,    *)
(* SelectRelease), for any number of overlapping fetches, rotations and    *)
(* releases that commit in any order.                                      *)
(***************************************************************************)
THEOREM OffersNeverGoBack == FirmwareSpec => []OfferNeverOlder
<1>1. FirmwareInv => OfferNeverOlder
  BY Zenon DEF FirmwareInv
<1> QED BY <1>1, FirmwareInitInv, FirmwareStep, PTL DEF FirmwareSpec
=============================================================================
