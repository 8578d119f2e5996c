\* One message with a label and a flag; two with or without the same Message-ID; other clients.
CONSTANTS
  m1 = m1  m2 = m2  x1 = x1  x2 = x2  l1 = l1  f1 = f1
  Msgs = {m1, m2}
  Ids = {x1, x2}
  NoId = NoId
  Tools = {"move", "trash"}
  Headers <- AllHeaders
  Inputs <- Batches
  SecondLock = TRUE
  NoUid = NoUid
  Labels = {l1}
  Flags = {f1}
  NoReceipt = NoReceipt
SPECIFICATION LiveScenarios
CHECK_DEADLOCK FALSE
INVARIANTS TypeOK ChangedLeftSource FailedUnmoved Accounted LocatedIsSame ReceiptPreTrash
PROPERTIES CallAnswers
