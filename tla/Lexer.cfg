CONSTANTS
  Reserved <- MCReserved
  Directives <- MCDirectives
  Sources <- MCSources
  Strings <- MCStrings
  CommentTexts <- MCCommentTexts
SPECIFICATION Spec
INVARIANTS
  PositionsExact
  NumbersAsSpecified
  StringsDecode
  WrittenIsRead
  Utf8Located
