----------------------------- MODULE FenceRegistry -----------------------------
(***************************************************************************)
(* The versioned geofences of internal/api/geo_v2.go and                   *)
(* internal/store/fences.go, and the zone seeding at startup.  A fence is  *)
(* the rows of its id; a new version retires the ACTIVE row and inserts    *)
(* the next in one READ COMMITTED transaction.  PRIMARY KEY (geofence_id,  *)
(* version) and geofences_one_active are not per tenant.  Since migration  *)
(* 0014 the table has forced row security for the tenant bound to the      *)
(* session, and these transactions, which come straight from the pool,     *)
(* bind none; Schemas says whether the policy applies: not to the schema   *)
(* of 0013, nor to a role that bypasses row security.                      *)
(***************************************************************************)
EXTENDS Naturals, FiniteSetsExt

CONSTANTS
  FenceIds, Tenants,
  Admins,               \* requests that run at the same time
  SeedZones,            \* fence ids of the seed file, for SeedTenant
  SeedTenant,
  Schemas,              \* whether the row security of 0014 applies: {TRUE}, {FALSE} or both
  MaxFenceCalls, MaxVersion    \* bounds

ASSUME RegistryAssumption ==
  /\ Schemas \subseteq BOOLEAN
  /\ SeedZones \subseteq FenceIds /\ SeedTenant \in Tenants
  /\ {MaxFenceCalls, MaxVersion} \subseteq Nat

VARIABLES
  secured,     \* row security applies to the service
  fences,      \* geofences: rows [id, version, tenant, state]
  admin,       \* admin[a]: the request it is in, or its answer
  toSeed,      \* zones the seed loader has still to look at; {} once it is done
  seedFailed,  \* the loader gave up and so did the start of the service
  fenceCalls

registryVars == <<secured, fences, admin, toSeed, seedFailed, fenceCalls>>

NoCall == [stage |-> "idle"]
Answered(code) == [stage |-> "idle", code |-> code]

RegistryInit ==
  /\ secured \in Schemas
  /\ fences = {}
  /\ admin = [a \in Admins |-> NoCall]
  /\ toSeed = SeedZones /\ seedFailed = FALSE
  /\ fenceCalls = 0

(* What a session that binds no tenant may see and insert. *)
Permitted(rows) == IF secured THEN {} ELSE rows

(* Rows a statement WHERE geofence_id = id AND tenant_id = t finds. *)
Found(id, t) == {r \in Permitted(fences) : r.id = id /\ r.tenant = t}

Latest(id, t) == Max({r.version : r \in Found(id, t)} \cup {0})

(* UPDATE ... SET state = 'RETIRED' WHERE ... AND state = 'ACTIVE'. *)
Retired(rows, id, t) ==
  {IF r \in Found(id, t) /\ r.state = "ACTIVE" THEN [r EXCEPT !.state = "RETIRED"] ELSE r : r \in rows}

(* INSERT of the next version; {} is the error of a key or of the policy. *)
Inserted(rows, row) ==
  IF \/ Permitted({row}) = {}
     \/ \E r \in rows : r.id = row.id /\ (r.version = row.version \/ r.state = "ACTIVE")
  THEN {} ELSE rows \cup {row}

NextVersion(id, t, version) ==
  Inserted(Retired(fences, id, t), [id |-> id, version |-> version, tenant |-> t, state |-> "ACTIVE"])

(* decodeFenceRequest has passed; createFence expects version 0,          *)
(* createFenceVersion the expectedVersion of the body, at least 1.        *)
BeginVersion(a, id, t, expected) ==
  /\ admin[a].stage = "idle" /\ fenceCalls < MaxFenceCalls /\ toSeed = {}
  /\ fenceCalls' = fenceCalls + 1
  /\ admin' = [admin EXCEPT ![a] = [stage |-> "begun", id |-> id, tenant |-> t, expected |-> expected]]
  /\ UNCHANGED <<secured, fences, toSeed, seedFailed>>

createFence(a, id, t) == BeginVersion(a, id, t, 0)

createFenceVersion(a, id, t, expected) == expected >= 1 /\ BeginVersion(a, id, t, expected)

(* Mutant: the expected version is taken for the latest one. *)
VersionUnchecked(a, latest) == TRUE

(* latest != expectedVersion fails closed. *)
VersionMatches(a, latest) == latest = admin[a].expected

(* CreateGeofenceVersion reads the latest version: 409 if it is not the     *)
(* expected one.                                                            *)
ReadVersion(a) ==
  LET latest == Latest(admin[a].id, admin[a].tenant) IN
    /\ admin[a].stage = "begun"
    /\ admin' = [admin EXCEPT ![a] =
         IF VersionMatches(a, latest) THEN [@ EXCEPT !.stage = "write"] ELSE Answered(409)]
    /\ UNCHANGED <<secured, fences, toSeed, seedFailed, fenceCalls>>

(* It retires the prior version, inserts the next and commits: 201, or 503  *)
(* and nothing has happened.                                                *)
CreateGeofenceVersion(a) ==
  LET rows == NextVersion(admin[a].id, admin[a].tenant, admin[a].expected + 1) IN
    /\ admin[a].stage = "write"
    /\ fences' = IF rows = {} THEN fences ELSE rows
    /\ admin' = [admin EXCEPT ![a] = Answered(IF rows = {} THEN 503 ELSE 201)]
    /\ UNCHANGED <<secured, toSeed, seedFailed, fenceCalls>>

(* retireFence over RetireGeofence: one statement; 404 if it changed no row. *)
retireFence(a, id, t) ==
  /\ admin[a].stage = "idle" /\ fenceCalls < MaxFenceCalls /\ toSeed = {}
  /\ fenceCalls' = fenceCalls + 1
  /\ fences' = Retired(fences, id, t)
  /\ admin' = [admin EXCEPT ![a] = Answered(IF fences' = fences THEN 404 ELSE 200)]
  /\ UNCHANGED <<secured, toSeed, seedFailed>>

(* Mutant: a zone that is present gets a new version on every start. *)
SeedVersion(z) == Latest(z, SeedTenant) + 1

(* CreateGeofenceVersion with expectedVersion 0, for a zone without history. *)
SeedFirst(z) == IF Found(z, SeedTenant) = {} THEN 1 ELSE 0

(* seedZonesFromGeoJSON looks at one zone: GetGeofenceHistory finds it and   *)
(* it is skipped, or version 1 is created, or the start of the service       *)
(* fails.                                                                    *)
seedZonesFromGeoJSON(z) ==
  LET version == SeedFirst(z)
      rows == NextVersion(z, SeedTenant, version)
  IN  /\ z \in toSeed /\ ~seedFailed
      /\ IF version > 0 /\ rows = {}
         THEN seedFailed' = TRUE /\ UNCHANGED <<fences, toSeed>>
         ELSE /\ fences' = IF version = 0 THEN fences ELSE rows
              /\ toSeed' = toSeed \ {z}
              /\ UNCHANGED seedFailed
      /\ UNCHANGED <<secured, admin, fenceCalls>>

(* The service starts again: requests in flight are gone. *)
Restart ==
  /\ toSeed # SeedZones /\ fenceCalls < MaxFenceCalls
  /\ fenceCalls' = fenceCalls + 1
  /\ toSeed' = SeedZones /\ seedFailed' = FALSE
  /\ admin' = [a \in Admins |-> NoCall]
  /\ UNCHANGED <<secured, fences>>

RegistryNext ==
  \/ \E a \in Admins :
       \/ \E id \in FenceIds, t \in Tenants :
            \/ createFence(a, id, t) \/ retireFence(a, id, t)
            \/ \E expected \in 1 .. MaxVersion - 1 : createFenceVersion(a, id, t, expected)
       \/ ReadVersion(a) \/ CreateGeofenceVersion(a)
  \/ \E z \in SeedZones : seedZonesFromGeoJSON(z)
  \/ Restart

RegistrySpec == RegistryInit /\ [][RegistryNext]_registryVars

(***************************************************************************)
(* The versions of a fence are 1, 2, ... without a gap, each is one row,   *)
(* all are of one tenant and only the last may be ACTIVE: concurrent       *)
(* writers that both saw the same latest version do not both succeed, and  *)
(* no history is rewritten.                                                *)
(***************************************************************************)
VersionsAreALine ==
  \A id \in FenceIds :
    LET rows == {r \in fences : r.id = id} IN
      /\ \A r \in rows : r.version >= 1 /\ \A v \in 1 .. r.version : \E q \in rows : q.version = v
      /\ \A r, q \in rows : r.version = q.version => r = q
      /\ \A r, q \in rows : r.tenant = q.tenant
      /\ \A r, q \in rows : r.state = "ACTIVE" => q.version <= r.version

(***************************************************************************)
(* Starting the service again changes no fence that exists: the seed       *)
(* loader is idempotent, even after an operator has retired or replaced    *)
(* the zone it created.                                                    *)
(***************************************************************************)
SeedingIsIdempotent ==
  [][toSeed' # toSeed => \A r \in fences : r \in fences']_registryVars

(***************************************************************************)
(* "CreateGeofenceVersion inserts version 1 of a new geofence": the seed   *)
(* loader, which runs alone, succeeds on zone ids nobody has used.         *)
(***************************************************************************)
NewZonesAreSeeded == (fences = {}) => ~seedFailed
=============================================================================
