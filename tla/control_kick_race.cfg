SPECIFICATION Spec
CONSTANTS
  alice = alice
  bob = bob
  aliceToken = aliceToken
  bobToken = bobToken
  laptop = laptop
  desktop = desktop
  tablet = tablet
  bobs = bobs
  www = www
  p20000 = p20000
  NoUser = NoUser
  Heartbeats = {laptop}
  User = {alice}
  Token = {aliceToken}
  Client = {laptop}
  Subdomain = {www}
  Port = {}
  OwnerOf <- OwnerByToken
  Credential <- TokenByClient
  Wants <- AllWantWww
  Limits = {1}
  Windows <- NoWindow
  StaleAfter = 0
  KickCooldown = 2
  MaxSessions = 2
  MaxLag = 1
  MaxActs = 1
  MaxCrashes = 0
PROPERTY CooldownRefusesLogins
