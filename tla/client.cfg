CONSTANTS
  p1 = p1
  p2 = p2
  Process = {p1, p2}
  Tunnels = {p1}
  LostAfter = 1
  CheckTTL = 2
  LockStale = 1
  MaxMishaps = 2
SPECIFICATION Spec
INVARIANT OneInside
PROPERTY ClaimsApart ComesBackOrEnds RefusalEnds SignalEnds ChecksGoOn
