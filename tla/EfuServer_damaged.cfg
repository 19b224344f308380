\* An image damaged in the middle, and a power loss.
SPECIFICATION Spec
CONSTANTS
  img0 = img0
  img1 = img1
  img2 = img2
  img3 = img3
  Image <- MCImage
  SizeOf <- MCSizes
  Factory = img0
  HdrLen = 2
  CrcLen = 2
  PartSize = 4
  Page = 2
  BufSize = 2
  Junk = Junk
  Blank = Blank
  Lookup = {TRUE}
  Eager = {FALSE}
  Leaves = {FALSE}
  EarlyConnect = FALSE
  Damaged = {0, 4}
  PageFramed = TRUE
  MaxSessions = 1
  MaxCrashes = 1
INVARIANTS
  RunsWholeImage
CHECK_DEADLOCK FALSE
