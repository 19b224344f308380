SPECIFICATION Spec
CONSTANTS
  NUM_PIXELS = 2
  Frame <- MCFrames
  Table = 1
  Index = {0, 1}
  Zero = 1
  period_patt = 2
  period_loop = 1
  Deadline = 350
  Drain = 216
  Low = 280
  Span = 2
  Slack = 0
  MaxLate = 3
INVARIANTS TypeOK
PROPERTIES EachFrameShown DrivenGoDark
