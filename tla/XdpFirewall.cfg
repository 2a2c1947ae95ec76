CONSTANTS
  a = a
  p = p
  m1 = m1
  m2 = m2
  Cpus <- OneCpu
  Sources <- BothSources
  Packets <- MixedPackets
  ArpPackets <- SomeArp
  Second = 2
  MaxTime = 4
  Config <- SmallConfig
  Defaults <- SmallDefaults
  ArpTable <- KnownArp
  Permanent <- OnlyP
  Temporary = {}
  U32 = 16
  MapEntries = 2
  Edits <- SomeEdits
  MaxEdits = 1
  MaxRules = 1
SPECIFICATION ControlSpec
CHECK_DEADLOCK FALSE
INVARIANTS
  ControlTypeOK
  RateBound
  PortBound
PROPERTIES
  BlockLasts
  BansArePermanent
  ArpOnlyEntered
