CONSTANTS
  Request <- RunRequest
  Requests <- RunRequests
  HostMessages <- Replies
  GuestMessages <- GuestFrameSet
  ExitStatuses = {"exit_124", "exit_125", "cpu_signal", "alarm", "other"}
  PipeCapacity = 1
  HostFrames = 5
  GuestFrames = 6
  GuestShuts = {}
  MemoryProbe = TRUE
  LogLimit = 1
  Growth = 2
  ReplyPieces = 2
  ReplyData = {"plain", "nested", "buried"}
  MayCancel = TRUE
  LogLengths = {1}
  UsizeMax = 2
  Codes <- AllCodes
  Shapes = {"plain", "nulkey"}
  FramePieces = 2
  Faults = FALSE
SPECIFICATION EngineUntimedSpec
INVARIANT PeersAgree
PROPERTY FinishesUntimed
