CONSTANTS
  c1 = c1  tcp = tcp  udp = udp
  None = None
  Clients = {c1}
  Keys = {tcp, udp}
  UdpKeys = {udp}
  Overlaps = {}
  Taken = {}
  Names = {"java", "bedrock", "lobby"}
  Settings = {"plain", "other", "icon"}
  BadAssets = {"icon"}
  Files <- MCFiles
SPECIFICATION FairSpec
INVARIANTS
  RowsFollowClients ServedUnderCurrent AppliedIsOneFile SocketsAreOwned
PROPERTIES
  RetiredIsReleased RetriedReloadApplies
CHECK_DEADLOCK FALSE
