CONSTANTS
  Sources <- MCSources
  MaxLayers = 3
  KeyName <- STRING
  Datum <- Any
  CommentName <- Nat
  Nesting = 5
SPECIFICATION Spec
CHECK_DEADLOCK FALSE
INVARIANTS
  BracketingIrrelevant
  ComposedMeaning
