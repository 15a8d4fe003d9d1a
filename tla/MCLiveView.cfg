SPECIFICATION FairSpec
CONSTANTS
  MaxMail = 2
  Faults <- MCFaults
  MaxFaults = 1
INVARIANT PageIsCurrent
PROPERTY MailIsTaken
