SPECIFICATION FairSpec
CONSTANTS
  a = a
  b = b
  t1 = t1
  t2 = t2
  Irq = irq
  NoCtx = null
  Ctx <- MCCtx
  Thread <- MCThread
  MaxSeq = 2
INVARIANTS
  RunUndisturbed
  NoOrphanJob
  TablesOwned
  FreedCtxUnused
PROPERTIES
  JobsFinish
  ImplementsAbs
