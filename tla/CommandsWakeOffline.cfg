CONSTANTS
  r1 = r1
  r2 = r2
  x1 = x1
  desk = desk
  laptop = laptop
  phone = phone
  Request = {r1}
  Stray = {}
  CommandId = {r1, r2, x1}
  IdOf <- DistinctIds
  Target = {desk, laptop, phone}
  Choices <- OneWakeUp
  Companion = {phone}
  Standalone = {laptop}
  Forgetful = {desk}
  HasMac = {desk}
  StatementsFail = FALSE
SPECIFICATION Spec
PROPERTIES KnownPcCanBeWoken
