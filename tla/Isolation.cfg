SPECIFICATION IsolationSpec
CONSTANTS
  Second = 3
  WallMs = 2
  CpuMs = 4
  Startup = 2
  ARCH = 62
  Foreign = {3, 40}
  Numbers <- MCNumbers
  allow <- MCAllow
  Capabilities = {"file", "network", "process", "clock"}
INVARIANTS TypeOK NeverUnguarded ProfFirst ProbeTells
PROPERTIES OrphansDie ProgramsEnd GateExact
