SPECIFICATION Spec
CONSTANTS
  Request = {r1, r2, r3}
  Id = {1, 2, 3, 4, 5, 6, 7, 8}
  Named = {3}
  None = 0
  Families <- MCFamilies
  Retries = 1
SYMMETRY Symmetry
INVARIANTS
  NewestDecides
PROPERTIES
  VersionsOneByOne
  NothingIsReplaced
