\* Every tool, two messages with or without the same Message-ID, and other clients.
CONSTANTS
  m1 = m1  m2 = m2  x1 = x1  x2 = x2
  Names <- NameSet
  BadNames <- Bad
  NoPath = NoPath
  Msgs = {m1, m2}
  Inputs <- Everything
  Trees <- TreeChoices
  Customs <- CustomChoices
  RoleOf <- SystemRoles
  MaxOthers = 2
  NoName = NoName
  Ids = {x1, x2}
  NoId = NoId
  Headers <- HeaderChoices
SPECIFICATION LiveScenarios
CHECK_DEADLOCK FALSE
INVARIANTS TypeOK CreatedHere Confined TargetByRole NamesakesAreNewer
INVARIANTS OnlyNamed ChangedHolds Accounted ReportedAsSeen
PROPERTIES CallAnswers
