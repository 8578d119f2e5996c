\* Two messages with different Message-IDs, or one without: labels are removed.
CONSTANTS
  m1 = m1  m2 = m2  x1 = x1  x2 = x2
  Names <- NameSet
  BadNames <- Bad
  NoPath = NoPath
  Msgs = {m1, m2}
  Inputs <- LiveRemovals
  Trees <- TreeChoices
  Customs <- CustomChoices
  RoleOf <- SystemRoles
  MaxOthers = 1
  NoName = NoName
  Ids = {x1, x2}
  NoId = NoId
  Headers <- OwnHeaders
SPECIFICATION Spec
CHECK_DEADLOCK FALSE
INVARIANTS EveryMailboxRechecked
