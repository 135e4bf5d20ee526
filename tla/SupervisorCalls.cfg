CONSTANTS
  Requests <- RunRequests
  HostMessages <- CallHostMessages
  GuestMessages <- CallGuestMessages
  ExitStatuses <- OneStatus
  PipeCapacity = 1
  HostFrames = 3
  GuestFrames = 3
  GuestShuts = {}
  MemoryProbe = FALSE
SPECIFICATION Spec
INVARIANTS OutputFramed CallsAuthorised
PROPERTY ImplementsExecution
