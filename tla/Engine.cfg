CONSTANTS
  Request <- RunRequest
  Requests <- RunRequests
  HostMessages <- Replies
  GuestMessages <- GuestFrameSet
  ExitStatuses = {"exit_124", "exit_125", "cpu_signal", "alarm", "other"}
  PipeCapacity = 1
  HostFrames = 5
  GuestFrames = 6
  GuestShuts = {}
  MemoryProbe = FALSE
  LogLimit = 1
  Growth = 2
  ReplyPieces = 1
  ReplyData = {"plain", "nested", "buried"}
  MayCancel = FALSE
  LogLengths = {1}
  UsizeMax = 2
  Codes <- AllCodes
  Shapes = {"plain", "nulkey"}
  FramePieces = 1
  Faults = TRUE
SPECIFICATION EngineSpec
INVARIANTS EffectsExact ReturnedTrue NothingLeft
