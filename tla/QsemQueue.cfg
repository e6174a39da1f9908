SPECIFICATION FairSpec
CONSTANTS
  t1 = t1
  t2 = t2
  t3 = t3
  m1 = m1
  m2 = m2
  Tasks = {t1, t2, t3}
  Msgs = {m1, m2}
  Invalid = Invalid
  NodeNum = 2
INVARIANTS TypeOK NodesAreClaimedOnce MessagesInOneRun WaitersAreListed PeakIsHighest
PROPERTIES ImplementsUrgentQueue WaitersAreServed
