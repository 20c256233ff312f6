SPECIFICATION ProbeSpec
CONSTANTS
  NServers = 3
  Families = {"A", "AAAA"}
  Deadline = 7
  QueryCap = 3
  Grace = 1
  MaxRedirects = 1
  MaxProbes = 3
  MaxTotal = 4
INVARIANTS FairShare SilentFamilyCostsGrace WithinTimeout ResultCoherent ReuseSound
PROPERTIES ProbeEnds
CHECK_DEADLOCK FALSE
