SPECIFICATION ThreadingSpec
CONSTANTS
  N = 4
  NoId = NoId
  MaxMail = 3
  MaxWild = 2
  MaxHops = 2
  BacklogSize = 2
INVARIANTS ThreadsAreConversations ReplyAnswersItsAddressee
PROPERTIES RootsSettle
