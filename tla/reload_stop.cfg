CONSTANTS
  a = a  b = b  r1 = r1 
  None = None
  Processes = {1, 2}
  Requesters = {r1}
  Ports = {5001, 5002}
  Addresses = {a, b}
  Listens <- MCListens
  Bad = {}
  MaxEdits = 1
  Slots = 1
SPECIFICATION Spec
INVARIANTS
  ShutdownRemovesOwn
CHECK_DEADLOCK FALSE
