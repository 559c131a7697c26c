SPECIFICATION Spec
CONSTANTS
  GroupSizes = {1, 2}
  DiskSlots = 4
  LBASlots = {1, 2}
  MaxBatchSlots = 3
  MaxAtomicGroupSlots = 2
  LinkDepth = 1
  MaxGroups = 3
  MaxRestarts = 2
INVARIANTS
  AcknowledgedRecovered GroupsWhole 
  BlocksAccounted  
  FormatsHold
\* A full disk and a finished call stop.
CHECK_DEADLOCK FALSE
