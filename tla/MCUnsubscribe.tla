--------------------------- MODULE MCUnsubscribe ---------------------------
(* Instances of Unsubscribe for TLC. *)
EXTENDS Unsubscribe, TLC

CONSTANTS x1, x2, d1, d2, u1, u2, u3, out1, in1

View(x, from, uris, post, auth) ==
  [id |-> x, from |-> from, uris |-> uris, post |-> post,
   evidence |-> auth # [dmarc |-> "absent", dkim |-> "absent", domain |-> NoDomain],
   auth |-> auth]
Uri(scheme, u) == [scheme |-> scheme, url |-> u]
Auth(dmarc, dkim, domain) == [dmarc |-> dmarc, dkim |-> dkim, domain |-> domain]
Pass == Auth("pass", "other", NoDomain)

\* The same message, with another identity, target, or verdict, one at a time.
MessageViews ==
  { View(x1, d1, <<Uri("https", u1)>>, TRUE, Pass),
    View(x2, d1, <<Uri("https", u1)>>, TRUE, Pass),
    View(NoId, d1, <<Uri("mailto", BadUrl), Uri("https", u1)>>, TRUE, Pass),
    View(x1, d1, <<Uri("https", u2)>>, TRUE, Pass),
    View(x1, d1, <<Uri("https", u3)>>, TRUE, Pass),
    View(x1, d1, <<Uri("https", u1), Uri("https", u2)>>, TRUE, Pass),
    View(x1, d1, <<Uri("https", BadUrl)>>, TRUE, Pass),
    View(x1, d1, <<Uri("https", u1)>>, FALSE, Pass),
    View(x1, d1, <<Uri("http", BadUrl), Uri("mailto", BadUrl)>>, TRUE, Pass),
    View(x1, d1, <<Uri("mailto", BadUrl)>>, FALSE, Pass),
    View(x1, d1, << >>, FALSE, Auth("absent", "absent", NoDomain)),
    View(x1, d1, <<Uri("https", u1)>>, TRUE, Auth("fail", "other", NoDomain)),
    View(x1, d1, <<Uri("https", u1)>>, TRUE, Auth("other", "pass", d1)),
    View(x1, d2, <<Uri("https", u1)>>, TRUE, Auth("other", "pass", d1)) }

SameDomain == {<<d, d>> : d \in Domains}
AddressLists == {<< >>, <<out1>>, <<in1>>, <<out1, in1>>, <<in1, out1>>}
=============================================================================
