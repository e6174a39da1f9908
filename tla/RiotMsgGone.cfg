SPECIFICATION Spec
CONSTANTS
  s1 = s1
  c1 = c1
  c2 = c2
  Threads = {s1, c1, c2}
  NoThread = NoThread
  Prios = {0, 1, 2}
  Prio <- MCPrio
  QueueSize <- OnlyS1
  Receivers = {s1, c2}
  Mortal = {s1}
  Bus <- BusOf
  Isr = Isr
  IdlePrio = 2
  MaxMsgs = 2
INVARIANTS RunsWhileReady
CHECK_DEADLOCK FALSE
