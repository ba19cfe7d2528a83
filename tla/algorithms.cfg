\* The pure algorithms on every small input.
SPECIFICATION Spec
CONSTANTS
  BlockSize = 2
  MaxCandidates = 2
  GoodMatch = 3
  MaxWindowSize = 3
  LenBits = 1
  Width = 5
  Half = 4
  Failed = Failed
  Refused = Refused
  Unsolved = Unsolved
  Separator = 1
  Bytes <- MCBytes
  SameLine <- MCSameLine
  Revisions <- MCRevisions
  Rangelists <- MCRangelists
  Sources <- MCSources
  Targets <- MCTargets
  Views <- MCViews
  OpLists <- MCOpLists
  ByteStrings <- MCByteStrings
  Texts <- MCTexts3
  Trees <- MCTrees
  ActionLists <- MCActionLists
  Imports <- MCImports
INVARIANTS
  RangelistAlgebra
  DeltaFaithful
  DiffFaithful
  MergeSound
  DriveLands
CHECK_DEADLOCK FALSE
