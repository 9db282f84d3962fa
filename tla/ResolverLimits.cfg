CONSTANTS
  A = A
  B = B
  C = C
  D = D
  File = {A, B, C, D}
  Missing = Missing
  Outside = Outside
  Contents <- SizedContents
  Options <- SomeOptions
  Defaults <- AmpleDefaults
  MaxImportDepth = 2
  Doc <- MCDoc
  EmptyDoc <- MCEmpty
  Merge <- MCMerge
  MergeWork <- MCMergeWork
  Materialize <- MCMaterialize
  KeyName <- STRING
  Datum <- Any
  CommentName <- Target
  Nesting = 2
SPECIFICATION PortsSpec
INVARIANTS
  LimitsHold
PROPERTIES
  KeepsContract
