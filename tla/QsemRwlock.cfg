SPECIFICATION RwSpec
CONSTANTS
  t1 = t1
  t2 = t2
  t3 = t3
  m1 = m1
  m2 = m2
  s1 = s1
  Tasks = {t1, t2, t3}
  Mutexes = {m1, m2}
  Counting = {s1}
  Lowest = 2
  Created <- MCCreated
  Adjusted = {t3}
  Targets = {0, 2}
  Callers <- MCCallers
  Nested = {m1}
  Deletable = {m2}
  MaxCount = 1
  MaxNest = 1
  NoTask = NoTask
  NoSem = NoSem
  Layouts <- MCLayouts
  MaxReads = 1
INVARIANTS RwTypeOK OwnersAgree AllWaitersListed UrgentFirst OwnersInherit BorrowedIsReturned ReadersXorWriter
PROPERTY WriterNotOvertaken
CHECK_DEADLOCK FALSE
