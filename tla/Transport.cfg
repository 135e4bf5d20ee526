CONSTANTS
  Radix = 2
  MaxFrame = 3
  ChunkMax = 2
  PipeCapacity = 3
  Values <- AllValues
  Encode <- Texts
  Parse <- Json
  Streams <- AllStreams
SPECIFICATION FairSpec
INVARIANTS TypeOK NoReadAhead OutputContinues StopsJustly
PROPERTIES ImplementsRelay AllRelayed
