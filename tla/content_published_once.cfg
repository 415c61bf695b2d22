SPECIFICATION Spec
CONSTANTS
  Stories = {s1}
  Requests = {r1, r2}
  NoStory = NoStory
  MaxRevisions = 3
  MaxCrashes = 1
INVARIANTS PublishedOnce
SYMMETRY RequestSymmetry
CHECK_DEADLOCK FALSE
