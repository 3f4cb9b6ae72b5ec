SPECIFICATION FairSpec
CONSTANTS
  u1 = u1
  i1 = i1
  n1 = n1
  n2 = n2
  n3 = n3
  NoUser = NoUser
  NoInstance = NoInstance
  Users = {u1}
  Instances = {i1}
  Runs = {n1, n2, n3}
  Slots = 1
  RunTimeout = 1
  Grace = 1
  MaxClicks = 2
  MaxIncidents = 3
INVARIANT
  SweepSparesRuns
PROPERTIES
  PlacesInOrder
  QueuedRunsStart
  EnabledUsersRun
