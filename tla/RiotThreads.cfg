SPECIFICATION FairSpec
CONSTANTS
  t1 = t1
  t2 = t2
  t3 = t3
  Threads = {t1, t2, t3}
  Prios = {0, 1, 2}
  NoThread = NoThread
  Main = t1
  MainPrio = 1
INVARIANTS TypeOK RunqueueConsistent RunningIsActive UrgentRuns FreedThreadsAreGone
PROPERTIES PeersTakeTurns
CHECK_DEADLOCK FALSE
