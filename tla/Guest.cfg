CONSTANTS
  LogLimit = 3
  LogLengths = {1, 2, 3}
  UsizeMax = 5
  Codes <- AllCodes
  FramePieces = 2
  Shapes = {"plain", "nulkey"}
  Incoming <- AnyFrames
SPECIFICATION Spec
INVARIANTS CallsNumbered LogsBounded 
