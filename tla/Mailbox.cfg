SPECIFICATION SearchSpec
CONSTANTS
  Client = {a}
  a = a
  Box = {"inbox", "deleted"}
  Rule <- MCRule
  Status <- MCStatus
  MaxMail = 3
  MaxUid = 4
  MaxCommand = 2
  Start <- MCStart
  Criteria <- MCCriteria
  Word = {"v", "w"}
  Content <- MCContent
INVARIANTS TypeOK WrongHitIsExplained KeptIsExplained InboxIsCommanded SearchIsExact
CHECK_DEADLOCK FALSE
