SPECIFICATION LockAloneSpec
CONSTANTS
  a = a  b = b  c = c  t = t  k1 = k1  p1 = p1  p2 = p2
  NoOwner = NoOwner
  Proc <- MCProc
  NoPid <- MCNoPid
  Ttl = 2
  Grace = 0
  MutexStale = 1
  Stalls = FALSE
  CrashPoints <- MCQuietCrash
  LoneCrashPoints <- MCLoneCrash
  MaxNow = 2
  MaxToken = 3
  Task <- MCTask
  Deps <- MCDeps
  Steps <- MCSteps
  Review = {}
  Commit = {k1}
  NoCommit = NoCommit
  Agent <- MCAgent
  Nobody = Nobody
  Calls <- MCCalls
  MaxWrites = 3
SYMMETRY MCSymmetry
CHECK_DEADLOCK FALSE
INVARIANT
  FreshLocksRespected
