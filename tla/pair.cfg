\* Two devices of one owner: answers go astray between them.
CONSTANTS
  s1 = s1
  s2 = s2
  Sensors = {s1, s2}
  Added = {s1, s2}
  Valid = {s1, s2}
  Randoms = {r1}
  NoPwd = NoPwd
  MaxStarts = 1
  MaxReboots = 0
  MaxDrops = 1
  UdpCap = 2
  WsCap = 2
  MaxRunning = 2
  Duplicates = FALSE
  Patient = TRUE
  Prompt = TRUE
SPECIFICATION Spec
INVARIANTS RegistrationSound SessionBinding ReportsLand
SYMMETRY Symmetry
