SPECIFICATION StoreSpec
CHECK_DEADLOCK FALSE
CONSTANTS
  c1 = c1
  c2 = c2
  c3 = c3
  l1 = l1
  l2 = l2
  l3 = l3
  dashboard = dashboard
  worker = worker
  Procs <- MCProcs
  Stable <- MCStable
  Fresh <- MCFresh
  Window = 2
  Files <- MCFiles
  Outsiders <- MCOutsiders
  MayFill = FALSE
  MayDamage = FALSE
INVARIANT NoEventTwice
