SPECIFICATION Reporting
CONSTANTS
  Scene <- MCOne
  Pos <- MCPos
  Empty = Empty
  max_match_dist = 5
  conf_inc = 7
  conf_dec = 3
  conf_on = 24
  conf_off = 12
  stale = 15
  ConfMax = 51
  MaxGap = 1
PROPERTY StayingIsNoticed
