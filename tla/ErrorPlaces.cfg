CONSTANTS
  Width = 6
  Single = 2
  Double = 3
  MaxExponent = 4
  MaxDepth = 3
  MaxInteger = 31
  MaxNativeDepth = 6
  MaxFileSize = 14
  Digits <- MCDigits
  NumberOf <- MCNumberOf
  Precedes <- MCPrecedes
  Characters = {"a", "b", "c", "s"}
  Programs <- MCPrograms
  Cases <- AllCases
  Texts <- MCTexts
  Targets <- MCTargets
  NotIdentifiers <- MCNotIdentifiers
  MultilineTexts <- MCMultilineTexts
SPECIFICATION CodecSpec
CHECK_DEADLOCK FALSE
INVARIANT ErrorsNameTheNearest
