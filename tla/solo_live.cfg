\* One sensor that does not reboot: does it keep out of junk, and recover?
CONSTANTS
  s1 = s1
  s2 = s2
  Sensors = {s1}
  Added = {s1}
  Valid = {s1}
  Randoms = {r1, r2}
  NoPwd = NoPwd
  MaxStarts = 3
  MaxReboots = 0
  MaxDrops = 2
  UdpCap = 1
  WsCap = 1
  MaxRunning = 1
  Duplicates = FALSE
  Patient = TRUE
  Prompt = TRUE
SPECIFICATION FairSpec
INVARIANTS SoloKeyGenuine SoloNeverRefused
PROPERTIES EventuallyJoined EventuallyReported
