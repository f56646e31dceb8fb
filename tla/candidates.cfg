SPECIFICATION Spec
CONSTANTS
  Disks = {1, 2}
  MaxChanges = 2
  MaxFaults = 1
INVARIANTS
  IInv
  SafeToOffer
  SortedRight
