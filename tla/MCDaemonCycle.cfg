SPECIFICATION FairSpec
CONSTANTS
  Daemons = {d1}
  Users = {u1}
  Threads = {t1}
  Messages = {m1, m2}
  Promises = {p1}
  NoPromise = none
  ThreadOf <- OneThread
  Says <- AllPromise
  DueAt <- DueFirst
  Old = {m2}
  Faults = {"call", "crash", "redeliver"}
  MaxFaults = 1
  MaxOps = 2
  MaxNow = 3
  d1 = d1
  d2 = d2
  u1 = u1
  t1 = t1
  m1 = m1
  m2 = m2
  m3 = m3
  p1 = p1
  none = none
INVARIANT PromiseOnce
PROPERTIES DaemonKeepsToAutoEdges TaskForEveryMessage
