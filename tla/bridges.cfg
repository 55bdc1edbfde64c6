SPECIFICATION Spec
CONSTANTS
  c1 = c1
  c2 = c2
  f1 = f1
  f2 = f2
  t1 = t1
  t2 = t2
  Bridge = {1, 2}
  Ctx = {c1, c2}
  NoCtx = NoCtx
  Func = {f1, f2}
  FuncPage <- Pages
  FuncOf <- Functions
  Thread = {t1, t2}
  OwnerOf <- Owners
  Handle = 20
  ModulePages = 2
  Block = 4
  FreeBlocks <- Layouts
  Probes = 14
  ReachPages = 13
  PageSlots = 2
INVARIANT TypeOK
INVARIANT JumpsReadOwnSlot
INVARIANT FaultsExplained
INVARIANT SearchFindsReach
CHECK_DEADLOCK FALSE
