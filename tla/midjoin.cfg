\* One sensor that reboots once.
CONSTANTS
  s1 = s1
  s2 = s2
  Sensors = {s1}
  Added = {s1}
  Valid = {s1}
  Randoms = {r1, r2}
  NoPwd = NoPwd
  MaxStarts = 1
  MaxReboots = 1
  MaxDrops = 0
  UdpCap = 1
  WsCap = 1
  MaxRunning = 1
  Duplicates = FALSE
  Patient = TRUE
  Prompt = TRUE
SPECIFICATION Spec
INVARIANTS DecodeOrLeave
