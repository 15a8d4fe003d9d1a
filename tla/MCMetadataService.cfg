SPECIFICATION Spec
CONSTANTS
  Projects = {"ours", "theirs"}
  Tokens = {1, 2}
  Roots = {"first", "second"}
  t1 = t1
  t2 = t2
  r1 = r1
  r2 = r2
  ThreadIds = {t1, t2}
  RowIds = {r1, r2}
  States = {"needs-reply", "waiting"}
  MaxMoves = 2
SYMMETRY Symmetry
INVARIANTS RowsStayListed MovesAreTheHistory
PROPERTIES Isolation
