CONSTANTS
  c1 = c1  c2 = c2  s1 = s1  s2 = s2  s3 = s3  t1 = t1  t2 = t2
  None = None
  Clients = {c1, c2}
  Sockets = {s1, s2}
  Configs = {"multiOffline"}
  TargetsOf <- MCTargetsOf
  Offline <- MCOffline
  Size <- MCSize
  MaxPendingClients = 1
  MaxPendingDatagrams = 2
  MaxPendingBytes = 3
  MaxFakeSessions = 1
  MaxReceived = 2
  MaxUpdates = 2
SPECIFICATION Spec
SYMMETRY Symmetry
INVARIANTS
  OneRole OneSelectionEach SessionsMatchPaths InOrder
  WithinLimits
PROPERTIES
  ActiveSessionSurvives DrainAdmitsNobody
CHECK_DEADLOCK FALSE
