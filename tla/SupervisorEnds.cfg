CONSTANTS
  Requests <- ShortRequests
  HostMessages <- FewHostMessages
  GuestMessages <- FewGuestMessages
  ExitStatuses <- OneStatus
  PipeCapacity = 1
  HostFrames = 2
  GuestFrames = 2
  GuestShuts = {"out"}
  MemoryProbe = FALSE
SPECIFICATION FairSpec
PROPERTIES Ends EofCancels DeathEnds
