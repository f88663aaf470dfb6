SPECIFICATION FairSpec
CONSTANTS
  alice = alice
  bob = bob
  aliceToken = aliceToken
  bobToken = bobToken
  laptop = laptop
  desktop = desktop
  tablet = tablet
  bobs = bobs
  www = www
  p20000 = p20000
  NoUser = NoUser
  Heartbeats = {laptop}
  User = {alice}
  Token = {aliceToken}
  Client = {laptop}
  Subdomain = {}
  Port = {p20000}
  OwnerOf <- OwnerByToken
  Credential <- TokenByClient
  Wants <- AllWantPort
  Limits = {1}
  Windows <- AnyWindow
  StaleAfter = 0
  KickCooldown = 2
  MaxSessions = 1
  MaxLag = 1
  MaxActs = 3
  MaxCrashes = 1
PROPERTIES NoRowLostWithoutCause NoAdmissionPastCutOff CutOffDisconnects GoneSessionsEnd
