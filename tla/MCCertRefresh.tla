--------------------------- MODULE MCCertRefresh ---------------------------
(* Model-checking instance of CertRefresh.                                 *)
EXTENDS CertRefresh, TLC

\* Runs and inodes are interchangeable.
Alike == Permutations(Run) \cup Permutations(Inode)
=============================================================================
