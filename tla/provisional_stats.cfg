SPECIFICATION ScheduledSpec
CONSTANTS
  g1 = g1 g2 = g2 g3 = g3 g4 = g4
  Games = {g1, g2, g3, g4}
  Players = {1, 2}
  Fixture <- MCFixture
  Boxes <- MCBoxes
  Finals <- MCFinals
  Limits = {1, 3}
  Window = 1
  Scale = 12
  HalfUp = {}
  Matches = {1}
  Calendar <- MCCalendar
  Runners = {"cron"}
  Tools <- MCTools
  Published <- MCPublished
  Lookback = 0
  Lookahead = 0
  MaxRetries = 1
  MaxDay = 1
  MaxFaults = 0
  Floors <- MCFloors
  Positions <- MCPositions
  QuintetSize = 2
  Numbered = {31}
  MaxPerType = 2
  MaxPerSubject = 1
  Programme <- MCProgramme
  Sheets <- MCSheets
  Roster <- MCRoster
  TopN = 5
  Wanted = {"season_high", "match_final"}
  MaxRuns = 2
PROPERTY ProvisionalStatsAreReplaced
CHECK_DEADLOCK FALSE
