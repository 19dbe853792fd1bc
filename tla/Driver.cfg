\* Three of: two requests, a sleep, an unloading, one access that fails;
\* adapter events at any time.
SPECIFICATION Spec
CONSTANTS
  Machines <- MCMachines
  StartEC <- MCStartEC
  ResetEC <- MCResetEC
  Values <- MCValues
  Unknown = Unknown
  MaxRequests = 2
  MaxFaults = 1
  MaxSleeps = 1
  MaxUnloads = 1
  MaxSum = 3
INVARIANTS
  DriverTypeOK
  AdapterApplied
  NoPhantomReadings
  BoostFollowsPower
  ColourShown
  CacheCoherent
  LightbarSame
  ManualWhileBound
PROPERTIES
  ImplementsSettings
CHECK_DEADLOCK TRUE
