CONSTANTS
  Requests <- AllRequests
  HostMessages <- AllHostMessages
  GuestMessages <- AllGuestMessages
  ExitStatuses <- TwoStatuses
  PipeCapacity = 1
  HostFrames = 2
  GuestFrames = 2
  GuestShuts = {"in"}
  MemoryProbe = TRUE
SPECIFICATION Spec
INVARIANTS OutputNeverOverrun ResultIsLast FateReported
PROPERTY SilentAfterKill
