SPECIFICATION MCSpec
CONSTANTS
  None = None
  NoValue = NoValue
  Nil = Nil
  NoResult = NoResult
  Scopes <- StartScope
  Keys = {k1, k2}
  Fingerprints = {f1}
  MaxOffers = 1
  MaxItems = 1
  MaxRetired = 2
  DshKeys = {k1, k2}
  MaxDshOffers = 1
  StartTasks <- SlashTasks
  LaunchCases <- MCLaunchCases
INVARIANT ConfirmedModelRuns
CHECK_DEADLOCK FALSE
