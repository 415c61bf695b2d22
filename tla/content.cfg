SPECIFICATION Spec
CONSTANTS
  Stories = {s1}
  Requests = {r1, r2}
  NoStory = NoStory
  MaxRevisions = 3
  MaxCrashes = 1
INVARIANTS TypeOK OneCardPerStory OnlyApprovedGoesOut PublishedWasSent
  DeletedStaysDeleted IdsAreFresh
SYMMETRY RequestSymmetry
CHECK_DEADLOCK FALSE
