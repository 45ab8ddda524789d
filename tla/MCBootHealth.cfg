SPECIFICATION FairSpec
CONSTANTS
  Timeout <- MCTimeout
  MaxTime <- MCMaxTime
  MaxCrashes <- MCMaxCrashes
  BleBuilds <- MCBleBuilds
INVARIANTS
  TypeOK
  OneVerdictOwner
  ObservedReasonIsGenuine
PROPERTIES
  ConfirmedOnlyWhenHealthy
  HaltIsFinal
  ImplementsTrial
  NewImageSettles
