SPECIFICATION Spec
CONSTANTS
  alice = alice
  bob = bob
  aliceToken = aliceToken
  bobToken = bobToken
  laptop = laptop
  desktop = desktop
  tablet = tablet
  bobs = bobs
  www = www
  p20000 = p20000
  NoUser = NoUser
  Heartbeats = {laptop}
  User = {alice}
  Token = {aliceToken}
  Client = {laptop, desktop, tablet}
  Subdomain = {www}
  Port = {p20000}
  OwnerOf <- OwnerByToken
  Credential <- TokenByClient
  Wants <- TabletWantsPort
  Limits = {1}
  Windows <- OpenWindow
  StaleAfter = 1
  KickCooldown = 1
  MaxSessions = 3
  MaxLag = 0
  MaxActs = 0
  MaxCrashes = 0
CONSTRAINT OneByOne
INVARIANT ServedWithinLimit
