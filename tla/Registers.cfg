\* Each register behind the API under two overlapping requests, with failures and crashes.
SPECIFICATION RegistersSpec
CONSTANTS
  Workers = {w1, w2}
  Entries <- MixedEntries
  MaxSends = 3
  MaxSteps = 2
  MaxFaults = 2
  Callers = {w1, w2}
  Contents = {x, y}
  Recs = {r}
  MaxStarts = 5
  Handlers = {w1, w2}
  Persons = {u, v}
  DeficiencyIds = {d}
  TaskingIds = {t}
  MaxChanges = 5
  Documents <- MCDocuments
  Fixes <- MCFixes
  Moments = {2, 8}
  Day = 9
  StaleAfter = 1
  SnapMax = 1
  StopArrive = 0
  StopSpeed = 1
  EtaMinSpeed = 1
  PreSlack = 1
  PostSlack = 1
  AlertForms <- MCAlertForms
  MaxEdits = 2
  FenceIds = {"f", "g"}
  Tenants = {"t", "u"}
  Admins = {w1, w2}
  SeedZones = {"f"}
  SeedTenant = "t"
  Schemas = {TRUE, FALSE}
  MaxFenceCalls = 5
  MaxVersion = 3
  Streams = {w1, w2}
  Publishers = {w1, w2}
  Labels = {"PUBLIC", "SECRET"}
  Clearances <- MCClearances
  LabelOf <- MCLabelOf
  HubShards = 2
  HubQueue = 1
  MaxEvents = 3
SYMMETRY Symmetry
INVARIANTS
  AcceptedIsPublished
  OneEnvelopePerOutbox
  LifecycleAnnouncedOnce
  OneRoot
  ChainShowsTampering
  TopicTellsPath
  ServedFeedCloses
  RealtimeIsHonest
  VersionsAreALine
  StreamHasNoHole
PROPERTIES
  RecordsFrozen
  CheckedStillHolds
  SeedingIsIdempotent
CHECK_DEADLOCK FALSE
