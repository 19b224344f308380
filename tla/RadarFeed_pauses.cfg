SPECIFICATION FeedFair
CONSTANTS
  Scene <- MCComeAndGo
  Pos <- MCPos
  Empty = Empty
  max_match_dist = 5
  conf_inc = 2
  conf_dec = 1
  conf_on = 4
  conf_off = 2
  stale = 3
  ConfMax = 5
  MaxGap = 2
  Client = {a, b}
  Nobody = Nobody
  Garbage = Garbage
  timeout = 1
  MaxQueued = 2
INVARIANTS FeedTypeOK PresenceHasTrack NoStaleTrack
PROPERTIES LeavingIsNoticed StayingIsNoticed  SilentIsForgotten
