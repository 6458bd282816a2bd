SPECIFICATION Spec
CONSTANTS
  Posts = {p1, p2}
  Me = me
  Friends = {friend}
  ContentHeights = {0, 104, 125}
  PictureCounts = {0, 1, 9}
  MaxComments = 2
INVARIANTS
  EveryRowAnswered
  OnlyBarePostsRaise
CHECK_DEADLOCK FALSE
