SPECIFICATION Spec
CONSTANTS
  u1 = u1
  u2 = u2
  Urls = {u1, u2}
  Segments <- MCSegments
  RawPaths <- MCRawPaths
  NullPath = NullPath
  Names <- MCNames
  Lower <- MCLower
  Unset = Unset
  NoFile = NoFile
  Inputs <- MCInputs
INVARIANTS FilesFollowRows IndexIsComplete DirsAreParents DuplicateIsReal
