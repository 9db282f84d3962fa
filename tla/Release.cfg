CONSTANTS
  Trees <- MCTrees
  StartTags <- MCStartTags
  HandVersions <- MCHandVersions
  MaxCommits = 4
  Budgets <- MCBudgets
  Expected = {"x", "y"}
  Other = {"z"}
SPECIFICATION AutoSpec
CHECK_DEADLOCK FALSE
INVARIANTS
  PublishedIsConsistent
  CutIsWhole
  SeriesGoesOn
  PublishedIsComplete
PROPERTIES
  CutsAdvance
  ArtifactsKept
  EdgeRecovers
  CutIsPublished
