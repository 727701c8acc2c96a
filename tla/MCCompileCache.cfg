CONSTANTS
  Compilers = {c1, c2}
  None = None
  Inodes = {i1, i2, i3, i4}
  MaxEdits = 1
SPECIFICATION Spec
INVARIANT TypeOK
INVARIANT ServedOwnLowering
INVARIANT FailsOnlyWhenRaced
INVARIANT QuietCacheIsWhole
SYMMETRY Interchangeable
