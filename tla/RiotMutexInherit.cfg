SPECIFICATION Spec
CONSTANTS
  t1 = t1
  t2 = t2
  t3 = t3
  m1 = m1
  m2 = m2
  Threads = {t1, t2, t3}
  Mutexes = {m1}
  NoThread = NoThread
  Prios = {0, 1, 2}
  Prio <- MCPrio
  Inherit = TRUE
  Cancelers = {}
INVARIANTS HolderInherits
CHECK_DEADLOCK FALSE
