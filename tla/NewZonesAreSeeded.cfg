\* Start-up under the row security of migration 0014: no zone is seeded.
SPECIFICATION RegistrySpec
CONSTANTS
  FenceIds = {"f", "g"}
  Tenants = {"t", "u"}
  Admins = {a, b}
  SeedZones = {"f"}
  SeedTenant = "t"
  Schemas = {TRUE}
  MaxFenceCalls = 5
  MaxVersion = 3
INVARIANTS
  NewZonesAreSeeded
CHECK_DEADLOCK FALSE
