CONSTANTS
  Me = me
  Org = org
  Peer = peer
  Node = {me, org, peer}
  NB_ATOMS_PER_BLOCK = 2
  MAX_NB_BLOCKS = 2
  BLOCK_DELTA_MAX = 2
  MISS_MAX_RANGE = 1
  Later = 3
  Written <- MCWritten
  LastSent = 7
  LastRead = 6
SPECIFICATION Spec
INVARIANTS BoundsExact LoopsAgree
