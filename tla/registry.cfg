CONSTANTS
  c1 = c1  c2 = c2  c3 = c3
  Timer = timer
  Nobody = nobody
  Conns = {c1, c2}
  Redirects = {"tcp", "udp"}
  RedirectOf <- MCRedirectOf
  STATUS_LINE_CLIENT_LIMIT = 1
  MaxBytes = 2
SPECIFICATION Spec
SYMMETRY Symmetry
INVARIANTS
  TotalsComplete FilesSettle FilesAgree
PROPERTIES
  TotalsNeverDip
CHECK_DEADLOCK FALSE
