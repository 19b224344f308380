SPECIFICATION Spec
CONSTANTS
  NUM_PIXELS = 2
  Frame <- MCFrames
  Table = 1
  period_patt = 7
  period_loop = 1
  Span = 2
  Slack = 1
  MaxLate = 14
INVARIANTS
  TypeOK
  OneTransferLatched
  ShowsOneFrame
PROPERTIES
  GoesDark
