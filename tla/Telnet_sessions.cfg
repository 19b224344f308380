\* Sessions, edits, saves, light commands and power failures.
SPECIFICATION TelnetFair
CONSTANTS
  Field <- MCField
  Addr <- MCAddr
  Defaults <- MCDefaults
  OwnMac = OwnMac
  CommonMac = CommonMac
  Zero = Zero
  Blank = Blank
  Torn = Torn
  Readable = {TRUE}
  ZeroIp = 0
  CliTimeout = 2
  BufLines = 1
  MaxLines = 2
  Level <- MCLevel
  NoLevel = NoLevel
  Gamma <- MCGamma
  Freq <- MCFreq
  Reachable <- MCReachable
INVARIANTS TelnetTypeOK UniqueMac PatientIsHeard LightIsCurrent
PROPERTIES KeepsConfiguration EvictsOnlyIdle PortIsFreed
