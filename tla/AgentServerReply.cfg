CONSTANTS
  c1 = c1
  c2 = c2
  o1 = o1
  o2 = o2
  o3 = o3
  main = main
  none = none
  Clients <- MCClients
  Trackers <- MCTrackers
  Standalone <- MCStandalone
  Names <- MCNames
  Main = main
  None = none
  Requests <- PlainRequests
  EnabledTrackers <- NoneEnabled
  enable_container_manager = TRUE
  enable_sec_rule_detect = FALSE
  IntRange = 8
  MaxId = 4
SPECIFICATION Spec
INVARIANTS
  ReplyIsTheKey
