SPECIFICATION Spec
CONSTANTS
  Timeout <- MCTimeout
  MaxTime <- MCMaxTime
  MaxCrashes <- MCMaxCrashes
  BleBuilds <- MCBleBuilds
PROPERTY
  ConfirmedOnlyWhenConnected
