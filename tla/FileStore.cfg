CONSTANTS
  p1 = p1
  p2 = p2
  v1 = v1
  v2 = v2
  i1 = i1
  i2 = i2
  i3 = i3
  i4 = i4
  w1 = w1
  Absent = Absent
  Torn = Torn
  None = None
  Path <- TwoPaths
  Value <- TwoValues
  Ino <- Inodes
  Writer <- OneWriter
SPECIFICATION Spec
SYMMETRY Symmetry
INVARIANTS
  OldOrNew
PROPERTIES
  RecordsAreAtomic
