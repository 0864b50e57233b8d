SPECIFICATION Spec
CONSTANTS
  Conns = {c1, c2, c3}
  Sessions = {s1, s2}
  Nobody = Nobody
INVARIANTS TypeOK NothingLeaks CloseReachesAll ClaimsAreLive
PROPERTIES ClaimKept ShutsDown LostPeersEnd
CHECK_DEADLOCK FALSE
