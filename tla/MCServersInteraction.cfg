SPECIFICATION BatchSpec
CONSTANTS
  Nobody = "nobody"
  Call <- MCCall  Updates <- MCUpdates  Repo <- MCRepo
  Commit = {"commit"}  Foreign = "foreign"  MaxMishaps = 1
  Watcher = {"w1", "w2"}  Starter = {"w2"}  User = {"u"}
  After = 2  MaxGap = 1  MaxTime = 4
  PR = {"p1", "p2", "p3", "p4"}  Batch <- MCBatch  Clash <- MCClash  Other = "other"
  Bisect = TRUE  Merge = TRUE  Breaks <- MCBreaks  MaxOutside = 1
  N = 2  MaxOthers = 2
  Id <- MCId  Checkout = {"main", "w1", "w2"}  MainCheckout = "main"  Branch <- MCBranch
  OnFirst <- MCOnFirst  ModeAt <- MCModeAt  MaxMoves = 4  MaxCommits = 3
INVARIANT
  InteractionIsOfTheWhole
CHECK_DEADLOCK FALSE
