CONSTANTS
  Request <- RunRequest
  LogLimit = 2
  Growth = 2
  ReplyPieces = 2
  ReplyData = {"plain", "nested"}
  MayCancel = TRUE
  Incoming <- AnyFrames
SPECIFICATION FairSpec
INVARIANT EffectsInTurn
PROPERTY Returns
