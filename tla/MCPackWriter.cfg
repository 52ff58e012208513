\* Two callers of one output directory that never name the same output at once.
CONSTANTS
  p1 = p1  p2 = p2
  i1 = i1  i2 = i2  i3 = i3  i4 = i4
  o1 = o1  o2 = o2  t1 = t1  t2 = t2
  NoFile = NoFile  NoCall = NoCall  NoWriter = NoWriter
  Packers = {p1, p2}
  Outs = {o1, o2}
  TmpOf <- MCTmp
  Inodes = {i1, i2, i3, i4}
  Paths = {1, 2, 3}
  Sizes = {0, 1, 2}
  Inputs <- FewInputs
  MaxPending = 2
  MaxRows = 2
  SharedOut = FALSE
SPECIFICATION Spec
SYMMETRY MCSymmetry
INVARIANTS OutAlwaysWhole PublishedIsRequest TmpHasOwner GroupsSplitAtThreshold
PROPERTIES OutChangesOnlyByRename DropAfterFinishIsNoop AtomicOutputSpec
