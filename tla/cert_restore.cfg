SPECIFICATION Spec
CONSTANTS
  Run = {r1}
  MaxCert = 2
  Inode = {i1}
  NoInode = NoInode
  Killable = FALSE
PROPERTY RestoredUnlessHealthy
