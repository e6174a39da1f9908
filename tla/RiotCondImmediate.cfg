SPECIFICATION CondSpec
CONSTANTS
  c1 = c1
  c2 = c2
  p1 = p1
  m1 = m1
  Threads = {c1, c2, p1}
  Consumers = {c1, c2}
  Producers = {p1}
  Mutexes = {m1}
  Mutex = m1
  MaxTokens = 2
  NoThread = NoThread
  Prios = {0, 1, 2}
  Prio <- MCPrio
  Inherit = TRUE
  Cancelers = {}
INVARIANTS NoLostSignalAnywhere
