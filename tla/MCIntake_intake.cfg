CONSTANTS
  None = None
  ana = ana
  bo = bo
  s0 = s0
  c1 = c1
  c2 = c2
  k1 = k1
  a = a
  b = b
  f1 = f1
  i1 = i1
  i2 = i2
  i3 = i3
  gone = gone
  Users <- TwoUsers
  Calls <- StagedAndTwo
  Keys <- OneKey
  Contents <- TwoContents
  Files <- OneFile
  MaxPreviews = 2
  MaxImports = 1
  ExternalIds <- FourNames
  Exports <- ExportedFiles
  MaximumMessagesPerConversation = 3
SPECIFICATION Spec
CHECK_DEADLOCK FALSE
INVARIANTS EvidenceIsWhole ImportsNeverRepeatOrFork EvidenceIsTheCurrentPath
PROPERTIES BoundUnderAuthority CallsEnd
