\* One call, against a message, a resolver and a host that do what they like.
CONSTANTS
  x1 = x1  x2 = x2  d1 = d1  d2 = d2  u1 = u1  u2 = u2  u3 = u3  out1 = out1  in1 = in1
  Ids = {x1, x2}
  NoId = NoId
  Domains = {d1, d2}
  NoDomain = NoDomain
  Aligned <- SameDomain
  Urls = {u1, u2, u3}
  BadUrl = BadUrl
  SafeUrls = {u1, u2}
  Addresses = {out1, in1}
  Public = {out1}
  NoAddress = NoAddress
  Views <- MessageViews
  NoView = NoView
  Answers <- AddressLists
  MaxChunks = 1
SPECIFICATION LiveSpec
CHECK_DEADLOCK FALSE
INVARIANTS TypeOK PostJustified AnswerHonest
PROPERTIES CallEnds
