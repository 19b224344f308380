\* TCP segments of any length.
SPECIFICATION Spec
CONSTANTS
  img0 = img0
  img1 = img1
  img2 = img2
  img3 = img3
  Image <- MCImage
  SizeOf <- MCSizes
  Factory = img0
  HdrLen = 2
  CrcLen = 2
  PartSize = 4
  Page = 2
  BufSize = 2
  Junk = Junk
  Blank = Blank
  Lookup = {TRUE}
  Eager = {TRUE, FALSE}
  Leaves = {TRUE, FALSE}
  EarlyConnect = FALSE
  Damaged = {0}
  PageFramed = FALSE
  MaxSessions = 1
  MaxCrashes = 0
INVARIANTS
  CcMeansStored
CHECK_DEADLOCK FALSE
