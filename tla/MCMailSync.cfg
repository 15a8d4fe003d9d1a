SPECIFICATION Spec
CONSTANTS
  Messages = {m1, m2, m3}
  Backlog = 1
  Condstore = TRUE
  Faults = {"drop", "crash", "build", "renumber"}
  MaxFaults = 2
  MaxChanges = 5
  m1 = m1
  m2 = m2
  m3 = m3
  m4 = m4
SYMMETRY Symmetry
INVARIANTS CursorIsHonest CacheIsMirror TriagedOnce NothingSkipped
