\* Damaged units, clients that go away, power losses.
SPECIFICATION Spec
CONSTANTS
  img0 = img0
  img1 = img1
  img2 = img2
  img3 = img3
  Image <- MCImage
  SizeOf <- MCSizes
  Factory = img0
  HdrLen = 2
  CrcLen = 2
  PartSize = 4
  Page = 2
  BufSize = 2
  Junk = Junk
  Blank = Blank
  Lookup = {TRUE, FALSE}
  Eager = {FALSE}
  Leaves = {TRUE, FALSE}
  EarlyConnect = TRUE
  Damaged = {0, 1, 3, 4, 6}
  PageFramed = TRUE
  MaxSessions = 2
  MaxCrashes = 2
INVARIANTS
  TypeOK
  NeverBricked
  CcMeansStored
  RunsOneImage
PROPERTIES
  RunningSlotUntouched
  SwitchOnlyByCommit
  FailSafeUpdate
CHECK_DEADLOCK FALSE
