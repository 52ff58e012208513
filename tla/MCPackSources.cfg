\* Globs, directories and lists, with one change of the directory meanwhile.
CONSTANTS
  FileNames <- MCFileNames
  Wild <- MCWild
  MatchedBy <- MCMatchedBy
  Rank <- MCRank
  Disks <- MCDisks
  Calls <- MCCalls
  NoRoot = NoRoot
  MaxChanges = 1
SPECIFICATION SourcesSpec
INVARIANTS SourcesTypeOK PackedPathsAreCanonical DefaultRootHolds NothingIsLeftOut
