CONSTANTS
  office = office
  work = work
  office2 = office2
  lockOffice = lockOffice
  offWork = offWork
  lockTwo = lockTwo
  immediately = immediately
  wakeAll = wakeAll
  hello = hello
  Nobody = Nobody
  Nothing = Nothing
  f1 = f1
  Flow = {f1}
  Agent = {office, work, office2}
  Name = {office, work, office2}
  Sentence = {lockOffice, offWork, lockTwo, immediately, wakeAll, hello}
  Lists <- AllLists
  NameOf <- NamedAfterId
  Within <- Containing
  Keywords <- SpokenCommands
  Naming = {immediately}
  Named <- SpokenNames
  Alike <- SpokenAlike
SPECIFICATION Spec
INVARIANTS TypeOK SelectionStays
PROPERTIES VoiceHitsNamed
