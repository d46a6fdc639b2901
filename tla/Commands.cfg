CONSTANTS
  r1 = r1
  r2 = r2
  x1 = x1
  desk = desk
  laptop = laptop
  phone = phone
  Request = {r1, r2}
  Stray = {x1}
  CommandId = {r1, r2}
  IdOf <- SomeShared
  Target = {desk, laptop, phone}
  Choices <- AgentAndCompanion
  Companion = {phone}
  Standalone = {laptop}
  Forgetful = {desk}
  HasMac = {desk}
  StatementsFail = TRUE
SPECIFICATION FairSpec
INVARIANTS TypeOK StatusMatchesResult AnswersAreTrue OwnResultsAreKnown PendingIsExplained SuccessWasExecuted
PROPERTIES HistoryIsALog PendingHasACause
