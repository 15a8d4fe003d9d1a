SPECIFICATION ViewsSpec
CONSTANTS
  Thread <- MCThread
  Direction <- MCDirection
  ImportanceOf <- MCImportanceOf
  Stock <- MCStock
  StartTime = 1
  DueSoon = 0
  WindowHours = 1
  MaxCards = 2
  MaxUpsets = 1
  MaxNow = 2
INVARIANTS TodayDropsNothing LabelsFollowTheOrder BoardAgreesWithToday DigestMirrorsTheService
CHECK_DEADLOCK FALSE
