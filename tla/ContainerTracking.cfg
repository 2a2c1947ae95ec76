CONSTANTS
  p1 = p1
  p2 = p2
  p3 = p3
  ca = ca
  host = host
  private = private
  dead = dead
  Pids <- ThreePids
  Init1 = p1
  Containers <- OneContainer
  Host = host
  Private = private
  Dead = dead
  RbSize = 2
  MaxForks = 2
SPECIFICATION FairSpec
CHECK_DEADLOCK FALSE
INVARIANTS
  TypeOK
  NeverWrongContainer
  ContainersAreForgotten
PROPERTIES
  ExitIsHandled
