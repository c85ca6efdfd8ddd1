SPECIFICATION Spec
CONSTANTS
  Providers = {"claude", "codex"}
  Threads <- MCThreads
  Processes <- MCProcesses
  ProcessOf <- MCProcessOf
  Offers <- MCOffers
  Headless = {"Plan", "Discuss"}
  NoThread = NoThread
  Started <- MCStarted
  MaxCrashes = 1
INVARIANTS
  UpgradeHasBackup
  HandoffOnce
  NativeNeverFallsBack
PROPERTIES
  MutationsAreSerial
  CommandsEnd
CHECK_DEADLOCK FALSE
