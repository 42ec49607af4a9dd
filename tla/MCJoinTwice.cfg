CONSTANTS
  Server = server
  Left = left
  Right = right
  Node = {server, left, right}
  Tentacle <- MCTentacle
  NB_ATOMS_PER_BLOCK = 10
  MAX_NB_BLOCKS = 2
  BLOCK_DELTA_MAX = 3
  MISS_MAX_RANGE = 1
  Seq0 = 1
  NbMeta = 1
  ServerSerials = 4
  LeftSerials = 1
  RightSerials = 2
  MaxSerial <- MCMaxSerial
  MaxSeq = 3
  MaxOrder = 1
  Lossy = FALSE
  Redundant = TRUE
  Overtakes = FALSE
SPECIFICATION ComingSpec
INVARIANTS NothingMissedByComing
CHECK_DEADLOCK FALSE
