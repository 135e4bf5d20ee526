SPECIFICATION PartsSpec
CONSTANTS
  SIZE_MAX = 15
  Header = 3
  Pointers = {p1, p2, p3}
  memory_limit = 7
  instruction_limit = 3
  p1 = p1
  p2 = p2
  p3 = p3
  letter = letter
  dot = dot
  byte1 = byte1
  byte2 = byte2
  Raws <- MCRaws
  MaxFrame = 8388608
  Defaults = 300
  MaxDepth = 64
  Letters <- MCLetters
  Dot = dot
  MaxPath = 5
  Catalogs <- MCCatalogs
  Own <- MCOwn
  Bytes <- MCBytes
  MaxLength = 4
  Blocks <- MCBlocks
  MaxNesting = 1
  Operands <- MCOperands
  Wide <- MCWide
  Ext <- MCExt
  Structural = {2}
  Sends = {3}
  Forbidden = {2}
  Programs <- MCPrograms
  MaxLevels = 2
  result_limit = 24
  Objects <- MCObjects
  Leaves <- MCLeaves
  Leaf <- MCLeaf
  Key <- MCKey
  Heaps <- Graphs
INVARIANTS BudgetsExact  AccessMeans RowExact AdmittedJustly FailuresTrue NativeSafe
SYMMETRY PartsSymmetry
