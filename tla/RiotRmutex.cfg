SPECIFICATION RmutexSpec
CONSTANTS
  t1 = t1
  t2 = t2
  t3 = t3
  m1 = m1
  m2 = m2
  Threads = {t1, t2, t3}
  Mutexes = {m1, m2}
  NoThread = NoThread
  Prios = {0, 1}
  Prio <- TwoPeers
  Inherit = FALSE
  Cancelers = {t2}
  Rmutexes = {m2}
  MaxRefs = 2
INVARIANTS RmutexTypeOK MutualExclusion WaitersQueued UrgentFirst CountedByHolder
CHECK_DEADLOCK FALSE
