CONSTANTS
  p1 = p1
  PagePosts <- OnePost
  OtherPosts = {}
  PageEdits = {"update", "delete", "rewind", "clear", "compact"}
  OtherEdits = {"update", "delete", "compact"}
  MaxEdits = 1
  MaxChanges = 3
  MaxFaults = 1
SPECIFICATION Spec
INVARIANT NothingSentIsMissed
CHECK_DEADLOCK FALSE
