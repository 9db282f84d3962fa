CONSTANTS
  Trees <- MCTrees
  StartTags <- NoTags
  HandVersions <- MCHandVersions
  MaxCommits = 4
  Budgets <- TwoCuts
  Expected = {"x", "y"}
  Other = {"z"}
SPECIFICATION AutoSpec
CHECK_DEADLOCK FALSE
INVARIANT EverySeriesGoesOn
