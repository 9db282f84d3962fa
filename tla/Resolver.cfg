CONSTANTS
  A = A
  B = B
  C = C
  D = D
  File = {A, B, C}
  Missing = Missing
  Outside = Outside
  Contents <- AnyContents
  Options <- AmpleOptions
  Defaults <- AmpleDefaults
  MaxImportDepth = 2
  Doc <- MCDoc
  EmptyDoc <- MCEmpty
  Merge <- MCMerge
  MergeWork <- MCMergeWork
  Materialize <- MCMaterialize
  KeyName <- STRING
  Datum <- Any
  CommentName <- Target
  Nesting = 2
SPECIFICATION PortsSpec
INVARIANTS
  PortsTypeOK
  CacheIsSound
  ChainIsRoute
  PortsAgree
PROPERTIES
  PortsReadOnce
  KeepsContract
  PortsTermination
