CONSTANTS
  n1 = n1
  n2 = n2
  c1 = c1
  c2 = c2
  c3 = c3
  Node = {n1, n2}
  NoNode = noNode
  Cursor = {c1, c2, c3}
  MAX_NB_TEAMS = 3
  MAX_NB_CURSORS = 3
  MAX_NB_NODES = 2
  room_for_armies = 100
  MaxExtra = 1
  Ask <- Commands
  Rules <- FourRules
  AfterTheEnd <- JustClassical
SPECIFICATION Spec
INVARIANTS TypeOK SanityCheck NoFault
PROPERTIES FragsConserved CommandsKillNobody RoundLeavesLed ComesBack
CHECK_DEADLOCK FALSE
