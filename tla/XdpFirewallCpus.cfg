CONSTANTS
  a = a
  p = p
  m1 = m1
  m2 = m2
  Cpus <- TwoCpus
  Sources <- OnlyA
  Packets <- PlainPackets
  ArpPackets = {}
  Second = 2
  MaxTime = 3
  Config <- OnePps
  Defaults <- SmallDefaults
  ArpTable <- NoArp
  Permanent = {}
  Temporary = {}
  U32 = 16
  MapEntries = 2
  Edits = {}
  MaxEdits = 0
  MaxRules = 1
SPECIFICATION ControlSpec
CHECK_DEADLOCK FALSE
INVARIANTS
  RateBound
