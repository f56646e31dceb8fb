SPECIFICATION FairSpec
CONSTANTS
  d1 = d1
  p1 = p1
  p2 = p2
  labelA = labelA
  labelB = labelB
  key1 = key1
  key2 = key2
  host1 = host1
  host2 = host2
  None = None
  Leaked = Leaked
  Disks = {d1}
  Procs = {p1}
  Slots <- TwoSlots
  Labels = {labelA, labelB}
  Keys = {key1, key2}
  FSTypes = {ext4}
  ext4 = ext4
  xfs = xfs
  Names = {host1, host2}
  Jobs <- ConvergeJobs
  OldDisks <- TidyOld
  Sectors <- MCSectors
  MaxFaults = 2
PROPERTIES
  MappingReleased
  RetryConverges
  QueryConverges
