\* Fair polling, clients that stay and clients that leave.
SPECIFICATION FairSpec
CONSTANTS
  img0 = img0
  img1 = img1
  img2 = img2
  img3 = img3
  Image <- MCImage
  SizeOf <- MCSizes
  Factory = img0
  HdrLen = 2
  CrcLen = 2
  PartSize = 4
  Page = 2
  BufSize = 2
  Junk = Junk
  Blank = Blank
  Lookup = {TRUE}
  Eager = {FALSE}
  Leaves = {TRUE, FALSE}
  EarlyConnect = FALSE
  Damaged = {0, 3, 4, 6}
  PageFramed = TRUE
  MaxSessions = 2
  MaxCrashes = 0
PROPERTIES
  ListensAgain
  HonestUpdateLands
CHECK_DEADLOCK FALSE
