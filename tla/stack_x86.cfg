SPECIFICATION DisciplinedSpec
CONSTANTS
  c1 = c1
  c2 = c2
  c3 = c3
  f1 = f1
  f2 = f2
  f3 = f3
  s1 = s1
  Ctx = {c1, c2, c3}
  NoCtx = NoCtx
  Func = {f1, f2}
  ImportSlot = {s1}
  NoLoc = NoLoc
  IsX64 = FALSE
  Reach <- X86Reach
  BridgeReach = {f1, f2}
  Ends <- X86Ends
  CodeMax = 8
  MaxAttempts = 2
  MaxFaults = 1
INVARIANT RestoredWhenReleased
INVARIANT CallReachesOriginal
PROPERTY IsHookStack
