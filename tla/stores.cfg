SPECIFICATION Spec
CONSTANTS
  Players = {1, 2}
  Teams = {11}
  Names = {1, 2, 3}
  Abbreviated = {1}
  Bios = {1, 2}
  OfficialNames <- MCOfficialNames
  Profiles <- MCProfiles
  TableSets <- MCTableSets
  Workers = {w1, w2}
  MaxCommands = 3
  Owners = {o1, o2}
  Operators = {q1, q2}
  MaxPhotos = 3
  Subjects = {s1, s2, s3}
  Renders = {r1, r2}
  FailureBudget = 2
  MaxOutages = 1
  Processes = {"old", "new", "peer"}
  Known <- MCKnown
  Destructive = {2}
  MaxStarts = 5
  Hosts = {"h1"}
  KeyTable <- MCKeyTable
  Credentials = {"kEd", "none"}
  Commands = {"finalize_match", "approve_correction", "other"}
  CommandRoles <- MCCommandRoles
  Limit = 2
  WindowLength = 3
  MaxTime = 4
  MaxRequests = 4
INVARIANTS StoresTypeOK OnePrimaryUnlessRaced TimeoutsAreBounded ServingHasSchema LimitIsExact
PROPERTIES SquadsGrowTogether BackfillIsConservative PromotionTakesEffect
SYMMETRY WorkerSymmetry
CHECK_DEADLOCK FALSE
