SPECIFICATION Spec
CONSTANTS
  agent = agent
  app = app
  Cpus <- TwoCpus
  Pids <- TwoPids
  Calls <- BpfCall
  MaxEntries = 1
  MaxEvents = 1
  MaxGen = 1
  Configs <- OnlyEverything
  Rules <- BpfCall
  Unnamed = {}
  AgentPid = agent
INVARIANTS
  HandlersUseLiveMembers
