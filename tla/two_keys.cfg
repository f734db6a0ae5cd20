\* Two devices of one owner, and nothing fails.
CONSTANTS
  s1 = s1
  s2 = s2
  Sensors = {s1, s2}
  Added = {s1, s2}
  Valid = {s1, s2}
  Randoms = {r1}
  NoPwd = NoPwd
  MaxStarts = 1
  MaxReboots = 0
  MaxDrops = 0
  UdpCap = 1
  WsCap = 1
  MaxRunning = 1
  Duplicates = FALSE
  Patient = TRUE
  Prompt = TRUE
SPECIFICATION Spec
INVARIANTS OneSessionKey
