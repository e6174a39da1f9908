SPECIFICATION Spec
CONSTANTS
  p1 = p1
  p2 = p2
  c1 = c1
  c2 = c2
  Threads = {p1, p2, c1, c2}
  Producers = {p1, p2}
  Consumers = {c1, c2}
  NoThread = NoThread
  Prios = {0, 1}
  Prio <- ProducersFirst
  Size = 2
  MaxMsgs = 4
  MaxRests = 3
INVARIANTS TypeOK WaitersListed FreePlacesAreClaimed ReadersSleepOnEmpty
PROPERTIES ImplementsMailbox
CHECK_DEADLOCK FALSE
