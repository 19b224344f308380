\* Bursts one short of the ring's size.
SPECIFICATION FairSpec
CONSTANTS
  UDP_RING_COUNT = 4
  Datagrams = 9
  Empty <- MCEmpty
  Short <- MCShort
  Backlog = 3
  ScanArrivals = 1
  EarlyDatagram = FALSE
INVARIANTS
  TypeOK
  InOrder
  NeverDeaf
PROPERTIES
  LosslessFeed
  Delivered
CHECK_DEADLOCK FALSE
