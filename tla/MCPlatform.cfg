SPECIFICATION FairPlatformSpec
CONSTANTS
  a = a  b = b  alice = alice  bob = bob  Genesis = Genesis  None = None
  Procs = {a, b}
  Users = {alice, bob}
  PerUser = 1
  Global = 2
  MaxAttempts = 2
  Budgets <- SomeBudgets
INVARIANTS AuditChainIsUnbroken DroppedOnlyWhenBeaten SlotsAreStreams RecordsMatchChanges
PROPERTIES ShutdownEnds
CHECK_DEADLOCK FALSE
