SPECIFICATION FairSpec
CONSTANTS
  Request = {r1, r2}
  NoRequest = NoRequest
  RingSize = 1
  IdxMod = 2
  PendingReq = {p1}
  MaxBios = 2
  Faults = {"resume", "grants", "dispatch", "submit", "bio"}
INVARIANTS TypeOK NoIoBehindResponse
PROPERTIES ImplementsDevice RequestsEnd
