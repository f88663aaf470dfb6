SPECIFICATION Spec
CONSTANTS
  p1 = p1
  p2 = p2
  p3 = p3
  relay = relay
  tlsname = tlsname
  domain = domain
  spaced = spaced
  Empty = Empty
  NoToken = NoToken
  Torn = Torn
  Name = {relay, tlsname, domain, spaced, Empty}
  Clean = {relay, tlsname, domain, Empty}
  TLSName = {relay, tlsname}
  Port <- Ports
  Process = {p1, p2, p3}
  Offered <- SomeTokens
  MaxWrites = 3
SYMMETRY Slots
CHECK_DEADLOCK FALSE
INVARIANTS NeverTorn LoginSurvives FreshToken GoesToIssuer
