CONSTANTS
  t1 = t1
  t2 = t2
  Threads <- MCThreads
  Addrs <- MCAddrs
  Sizes = {1, 2}
  Stacks <- MCStacks
  MinSize = 2
  MaxEntries = 2
  Top = 1
  MaxCalls = 3
SPECIFICATION Spec
SYMMETRY Symm
INVARIANTS TypeOK RecordsAreTrue StatsExact ReportCovers
CHECK_DEADLOCK FALSE
