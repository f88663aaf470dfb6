SPECIFICATION Spec
CONSTANTS
  User = {alice, bob}
  Admin = Admin
  Password = {old, new}
  NoPassword = NoPassword
  InitialHash <- BothHaveOld
  alice = alice
  bob = bob
  old = old
  new = new
  Request = {r1, r2}
  Login = {l1}
  PerPrincipal = 1
  Capacity = 2
  MaxSessions = 3
  MaxVersion = 2
SYMMETRY Slots
CONSTRAINTS OneCause TwoOverlap BobStays
CHECK_DEADLOCK FALSE
INVARIANTS SessionsAgree SessionsBounded
PROPERTIES NoSessionLostWithoutCause OldSessionsChangeNothing ResetIsNotOverwritten TemporaryIsReplaced ImplementsAccess
