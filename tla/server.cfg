\* Two instances start over one database; one of them limits a client.
SPECIFICATION FairServerSpec
CONSTANTS
  Instances = {i1, i2}
  LastMigration = 3
  AdminConfigured = TRUE
  MaxCrashes = 2
  i1 = i1
  Limited = i1
  Requests = {r1, r2}
  Burst = 1
  Rate = 1
  Idle = 2
  MaxClock = 6
  NoBucket = NoBucket
INVARIANTS
  ServesWhenReady
  TwoBurstsAtMost
PROPERTIES
  ImplementsSchema
  EveryInstanceServes
CHECK_DEADLOCK FALSE
