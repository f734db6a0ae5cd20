\* A device of the owner, and one that another user added.
CONSTANTS
  s1 = s1
  s2 = s2
  Sensors = {s1, s2}
  Added = {s1, s2}
  Valid = {s1}
  Randoms = {r1}
  NoPwd = NoPwd
  MaxStarts = 2
  MaxReboots = 1
  MaxDrops = 1
  UdpCap = 2
  WsCap = 1
  MaxRunning = 2
  Duplicates = FALSE
  Patient = TRUE
  Prompt = FALSE
SPECIFICATION Spec
INVARIANTS TypeOK KeySecrecy OnlyMembersJoin
PROPERTIES ImplementsJoin
