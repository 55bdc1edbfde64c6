SPECIFICATION Spec
CONSTANTS
  c1 = c1
  c2 = c2
  c3 = c3
  f1 = f1
  f2 = f2
  p1 = p1
  p2 = p2
  Ctx = {c1, c2, c3}
  NoCtx = NoCtx
  Func = {f1, f2}
  Patcher = {p1, p2}
  Caller = {t1}
  t1 = t1
  FuncOf <- Functions
  OwnerOf <- Owners
  MaxFaults = 1
INVARIANT TypeOK
INVARIANT PageStaysExecutable
INVARIANT QuietCallPerforms
INVARIANT LoneWriterNeverFaults
INVARIANT ProtectionRestored
PROPERTY EveryCallEnds
CHECK_DEADLOCK FALSE
