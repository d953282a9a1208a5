CONSTANTS
  Plans <- MCPlans
  Paging = "token"
  Items <- MCItems
  Evidence = {e1, e2}
  Resolved = {e1}
  Absent = Absent
  Broken = Broken
  Moves = TRUE
  MaxPages = 1
  MaxTokens = 1
  MaxDay = 3
  MaxChanges = 2
  MaxCrashes = 1
SPECIFICATION FairSpec
INVARIANTS CoverageIsHonest HistoryIsKept
PROPERTIES WalkEnds
CHECK_DEADLOCK FALSE
