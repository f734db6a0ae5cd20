SPECIFICATION Spec
CONSTANTS
  RxSize = 4
  Room = 2
  Base = 3
  Burst = 1
  MaxFrame = 4
  MaxLength <- MCMaxLength
INVARIANTS TypeOK NoLostWakeup NotDeaf InOrder
PROPERTIES KeepsPackets StandsStill
CHECK_DEADLOCK FALSE
