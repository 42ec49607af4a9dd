CONSTANTS
  Server = server
  Joiner = joiner
  Node = {server, joiner}
  Tentacle <- MCTentacle
  NB_ATOMS_PER_BLOCK = 10
  MAX_NB_BLOCKS = 2
  BLOCK_DELTA_MAX = 3
  MISS_MAX_RANGE = 1
  Seq0 = 1
  NbMeta = 0
  ServerSerials = 3
  JoinerSerials = 1
  MaxSerial <- MCMaxSerial
  Readers = {joiner}
  MaxSeq = 2
  MaxOrder = 2
  Lossy = FALSE
SPECIFICATION CatchUpSpec
INVARIANTS ReferenceComplete NoLateMessage BlindReadIsEmpty
PROPERTIES CaughtUp ImplementsLockstep
