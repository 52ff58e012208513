\* zip, tar, rar and 7z archives with every kind of bad entry.
CONSTANTS
  Names <- MCNames
  RawNames <- MCRawNames
  Archives <- MCArchives
  Unset = Unset
SPECIFICATION Spec
INVARIANTS FirstErrorIsReturned RowsFollowEntries PackedIsWhole
