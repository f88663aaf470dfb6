SPECIFICATION Spec
CONSTANTS
  Run = {r1, r2, r3}
  MaxCert = 3
  Inode = {i1, i2, i3, i4}
  NoInode = NoInode
  Killable = TRUE
SYMMETRY Alike
INVARIANTS OneAtATime GoodIsNotLost
PROPERTIES CommittedIsServed UnchangedIsTrue RestoredUnlessCutOff
