SPECIFICATION Spec
CONSTANTS
  Tabs = {t1}
  MaxCalls = 2
  MaxBodies = 3
  MaxClicks = 2
  MaxOpens = 2
  MaxFaults = 1
  t1 = t1
INVARIANTS SentOnce LessonIsAboutTheEdit EditorShowsDraft
PROPERTY TurnsSurvive
CHECK_DEADLOCK FALSE
