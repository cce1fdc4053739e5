SPECIFICATION LockedSpec
CONSTANTS
  Nobody = "nobody"  MaxMishaps = 1
  Proc = {"a", "b", "c"}  Owner <- MCOwner  NoPid = {"a", "b"}  MaxNaps = 1
  Caller = {"p", "n", "x"}  Parent <- MCParent  Bounded = {"x"}  MaxSignals = 1
  Run = {"r1", "r2"}  Copy <- MCCopy  Main = "main"  Pid = {"p1", "p2"}
  Bystanders <- Editor  MaxProcesses = 3
  Byte = {0, 1}  Needle <- MCNeedle  Chunk = 2  MaxSize = 5
  Gate <- MCGate  Order <- MCOrder  Deps <- MCDeps  ReadOnly <- MCReadOnly
  Resource = {"db"}  Uses <- MCUses  Concurrency = 2  FailFast = FALSE
INVARIANT
  NoCommandLeftBehind
CHECK_DEADLOCK FALSE
