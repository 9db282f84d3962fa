CONSTANTS
  Styles <- AnyStyle
  MaxNestingDepth = 3
  AbsolutePaths = {"/p"}
  MalformedVersions = {"/p"}
  UnsupportedVersions = {"2.0"}
  NotIdentifiers = {"1.0", "2.0", "/p"}
  MultilineTexts = {"import"}
  Fold <- MCFold
SPECIFICATION RoundSpec
CHECK_DEADLOCK FALSE
INVARIANTS
  DepthIsNesting
  ArraysAsSpecified
  RoundTripKeepsDocument
  KeysNamedOnce
  CommentsEmittedOnce
