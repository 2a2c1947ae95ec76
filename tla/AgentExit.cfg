SPECIFICATION Spec
CONSTANTS
  agent = agent
  app = app
  Cpus <- TwoCpus
  Pids <- TwoPids
  Calls <- BpfCall
  MaxEntries = 1
  MaxEvents = 1
  MaxGen = 2
  Configs <- ThreeConfigs
  Rules <- BpfCall
  Unnamed = {}
  AgentPid = agent
INVARIANTS
  TypeOK
  AlertedOrUnderWay
  ExitIsClean
PROPERTIES
  ReportedOnce
  ExitEnds
