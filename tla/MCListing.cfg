\* Up to four files of twelve; walks, finds and globs of any of them.
CONSTANTS
  Segments <- MCSegments
  Inner <- MCInner
  Last <- MCLast
  Trees <- MCTrees
  Raws <- MCRaws
  Depths = {1, 2}
SPECIFICATION Spec
INVARIANTS ListingIsExact ListingsAgree WalkFindsTree
