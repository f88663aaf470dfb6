SPECIFICATION Spec
CONSTANTS
  Address = {i1, i2, i3}
  Name = {n1, n2}
  Slot = {s1, s2}
  NameLimit = 2
  AddressLimit = 3
  Lockout = 3
  Retention = 3
  Entries = 2
SYMMETRY Alike
INVARIANTS AttemptsBounded TablesBounded
PROPERTY LockoutsKept
