SPECIFICATION Spec
CONSTANTS
  alice = alice
  bob = bob
  aliceToken = aliceToken
  bobToken = bobToken
  laptop = laptop
  desktop = desktop
  tablet = tablet
  bobs = bobs
  www = www
  p20000 = p20000
  NoUser = NoUser
  Heartbeats = {}
  User = {alice, bob}
  Token = {aliceToken, bobToken}
  Client = {laptop, bobs}
  Subdomain = {www}
  Port = {p20000}
  Limits = {1, 2}
  StaleAfter = 0
  KickCooldown = 1
  MaxSessions = 2
  MaxLag = 0
  MaxActs = 1
  MaxCrashes = 0
  OwnerOf <- OwnerByToken
  Credential <- TokenByClient
  Wants <- LaptopWantsBoth
  Windows <- AnyWindow
CONSTRAINTS TwoInFlight ShortRun PolicyOnly BobsLimitFixed
INVARIANTS OneHolderPerTarget
PROPERTIES NoRowLostWithoutCause ImplementsLease OpenedOnlyByOwner QuotaKept
