SPECIFICATION Spec
CONSTANTS
  g1 = g1 g2 = g2 g3 = g3 g4 = g4
  Games = {g1, g2, g3, g4}
  Players = {1, 2}
  Fixture <- MCFixture
  Boxes <- MCBoxes
  Finals <- MCFinals
  Limits = {1, 3}
  Window = 1
  Scale = 12
  HalfUp = {}
  Matches = {1, 2}
  Calendar <- MCCalendar
  Runners = {"cron", "operator"}
  Tools <- MCTools
  Published <- MCPublished
  Lookback = 0
  Lookahead = 0
  MaxRetries = 1
  MaxDay = 1
  MaxFaults = 1
  Floors <- MCFloors
  Positions <- MCPositions
  QuintetSize = 2
  Numbered = {31}
  MaxPerType = 2
  MaxPerSubject = 1
  Programme <- MCProgramme
  Sheets <- MCSheets
  Roster <- MCRoster
  TopN = 5
  Wanted = {"season_high", "match_final"}
  MaxRuns = 2
INVARIANT RecapLandsInReview
CHECK_DEADLOCK FALSE
