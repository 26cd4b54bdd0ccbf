SPECIFICATION Spec
CONSTANTS
  u1 = u1
  u2 = u2
  Unversioned = Unversioned
  Updater <- TwoUpdaters
  Release <- TwoReleases
SYMMETRY UpdaterSymmetry
INVARIANTS
  OnlyWholeExecutables
  Recoverable
  MissingForCause
PROPERTY
  NoDowngrade
