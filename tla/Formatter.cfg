CONSTANTS
  a = a
  b = b
  l = l
  p = p
  q = q
  i1 = i1
  i2 = i2
  i3 = i3
  i4 = i4
  i5 = i5
  None = None
  Invalid = Invalid
  Path = {a, b, l}
  FileNames = {a, b}
  LinkNames = {l}
  StartLinks <- LinkToA
  Inode = {i1, i2, i3, i4, i5}
  Format <- MCFormat
  MaxChunks = 2
  Settings <- AllSettings
SPECIFICATION Spec
SYMMETRY Alike
INVARIANTS
  NothingInvented
  ExitTellsTruth
PROPERTIES
  ReplacesWhatItRead
  MetadataKept
  CanonicalOrBack
