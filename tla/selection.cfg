SPECIFICATION QuerySpec
CONSTANTS
  Malformed = Malformed
  Database <- MCDatabase
  RuleLists <- MCRuleLists
  Queries <- MCQueries
  AsGlob <- MCAsGlob
  Joined <- MCJoined
  DiskTuple <- MCDiskTuple
  PartitionOf <- MCPartitionOf
CHECK_DEADLOCK FALSE
INVARIANTS
  SelectionCorrect
  LookupsRight
