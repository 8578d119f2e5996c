\* A genuine receipt that cannot be verified.
CONSTANTS
  m1 = m1  m2 = m2  x1 = x1  x2 = x2  l1 = l1  f1 = f1
  Msgs = {m1, m2}
  Ids = {x1, x2}
  NoId = NoId
  Tools = {"restore"}
  Headers <- HeaderChoices
  Inputs <- Batches
  SecondLock = TRUE
  NoUid = NoUid
  Labels = {l1}
  Flags = {f1}
  NoReceipt = NoReceipt
  NoJob = NoJob
  Offers <- LoneOffers
  MaxOthers = 0
SPECIFICATION SpecScenarios
CHECK_DEADLOCK FALSE
INVARIANTS CleanMeansAsIntended
