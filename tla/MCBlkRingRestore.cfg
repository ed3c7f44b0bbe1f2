SPECIFICATION Spec
CONSTANTS
  Request = {r1, r2}
  NoRequest = NoRequest
  RingSize = 2
  IdxMod = 4
  PendingReq = {p1, p2}
  MaxBios = 1
  Faults = {"resume"}
SYMMETRY BlkSymmetry
INVARIANTS FreeListExact InFlightOnce FrontendWoken BackendWoken
PROPERTY ImplementsDevice
