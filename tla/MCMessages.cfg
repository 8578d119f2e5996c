\* The three kinds, with the addresses, subjects, headers and sizes that matter.
CONSTANTS
  p1 = p1  c1 = c1  i1 = i1
  Procs = {p1}
  Calls = {c1}
  Owner <- One
  Ids = {i1}
  Kinds = {"send", "reply", "forward"}
  Payloads = {"hello", "two", "reordered", "moved", "many", "broken", "foreign"}
  Arguments <- ArgumentsOf
  ValidPayloads <- Acceptable
  Contents <- AllContents
  Derive <- Derived
  Versions = {"plain", "unparsed", "threadful", "spoiled", "selfNaming"}
  Message <- MessageOf
  Repliable <- ReplySources
  Forwardable <- ForwardSources
  WithAttachments <- CarryAttachments
  LiveDisabled = {}
  TTL = 1
  Margin = 0
  Skew = 0
  Pause = 0
  MaxTime = 1
  ScanLimit = 0
  LossCommands = {"DATA"}
  Inputs <- Presented
  NoReceipt = NoReceipt
  NoSource = NoSource
  Spellings = {"ann", "Ann", "padded", "bob", "cat", "me", "broken"}
  NoAddress = NoAddress
  Normalize <- WrittenAs
  AddressKey <- LowerCase
  Account = "me"
  MessageIds = {"m1", "m2", "m3", "m4", "odd"}
  NoMessageId = NoMessageId
  WellFormedIds = {"m1", "m2", "m3", "m4"}
  MaxRecipients = 3
  MaxSubject = 6
  MaxText = 1
  MaxQuoted = 2
  SourceCap = 1
  NoSize = NoSize
  MaxReferences = 2
  HeaderCap = 1
SPECIFICATION Spec
CHECK_DEADLOCK FALSE
INVARIANTS OutcomeHonest AddressedAsAsked RepliesWhereAsked ThreadContinues ForwardedWhole
PROPERTIES ImplementsOneShot
