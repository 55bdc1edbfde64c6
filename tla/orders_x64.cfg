SPECIFICATION OSpec
CONSTANTS
  c1 = c1
  c2 = c2
  c3 = c3
  f1 = f1
  f2 = f2
  f3 = f3
  s1 = s1
  Ctx = {c1, c2, c3}
  NoCtx = NoCtx
  Func = {f1, f2, f3}
  ImportSlot = {}
  NoLoc = NoLoc
  IsX64 = TRUE
  Reach <- X64Reach
  BridgeReach = {f1, f3}
  Ends <- X64Ends
  CodeMax = 16
  MaxAttempts = 2
  MaxFaults = 0
INVARIANT TypeOK
INVARIANT EntryNeverTorn
INVARIANT SlotsNeverRedirected
INVARIANT RestoredWhenReleased
INVARIANT CallReachesOriginal
