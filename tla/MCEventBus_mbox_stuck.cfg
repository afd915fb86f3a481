CONSTANTS
  s1 = s1
  s2 = s2
  e1 = e1
  e2 = e2
  e3 = e3
  e4 = e4
  e5 = e5
  h1 = h1
  h2 = h2
  NoEvent = NoEvent
  Workers = {w1, w2}
  Hooks = {h1, h2}
  Events <- MCEvents
  Watched <- MCWatched
  Subscribed <- MCSubscribed
  Capacity = 1
  Sessions = {s1, s2}
  Processes <- MCProcesses
  Faulty = {e2, e4}
SPECIFICATION Spec
CHECK_DEADLOCK FALSE
PROPERTIES
  ReaderReads
