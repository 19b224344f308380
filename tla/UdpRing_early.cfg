\* A datagram between the clearing of the interrupts and the enabling of the edge.
SPECIFICATION Spec
CONSTANTS
  UDP_RING_COUNT = 4
  Datagrams = 4
  Empty <- MCEmpty
  Short <- MCShort
  Backlog = 3
  ScanArrivals = 1
  EarlyDatagram = TRUE
INVARIANTS
  NeverDeaf
CHECK_DEADLOCK FALSE
