\* Two calls may name the same output.  Expected: readers see a half-written file.
CONSTANTS
  p1 = p1  p2 = p2
  i1 = i1  i2 = i2  i3 = i3  i4 = i4
  o1 = o1  o2 = o2  t1 = t1  t2 = t2
  NoFile = NoFile  NoCall = NoCall  NoWriter = NoWriter
  Packers = {p1, p2}
  Outs = {o1}
  TmpOf <- SoloTmp
  Inodes = {i1, i2, i3, i4}
  Paths = {1, 2, 3}
  Sizes = {0, 1, 2}
  Inputs <- FewInputs
  MaxPending = 2
  MaxRows = 2
  SharedOut = TRUE
SYMMETRY SharedSymmetry
SPECIFICATION Spec
PROPERTIES OutChangesOnlyByRename
