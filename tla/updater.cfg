SPECIFICATION Spec
CONSTANTS
  Process = {p1, p2}
  Release <- Releases
  NoFile = NoFile
  Torn = Torn
SYMMETRY Alike
INVARIANTS InstalledWhole Exclusive GoodIsNotLost EndsAsReported
PROPERTY GoesForward
