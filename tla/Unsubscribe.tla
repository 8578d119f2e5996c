----------------------------- MODULE Unsubscribe -----------------------------
(***************************************************************************)
(* mail_unsubscribe and mail_unsubscribe_preview (src/src/unsubscribe): one *)
(* call decides from a message's headers whether it may be unsubscribed    *)
(* from, fetches the message again, and sends one HTTPS POST whose outcome *)
(* it reports.                                                             *)
(*                                                                         *)
(* Meanwhile the message behind the uid may change or vanish, the resolver *)
(* answers what it likes, and the host takes the POST or not, answers or   *)
(* not, and stops anywhere.  Every await is a step of its own, and so is   *)
(* every event of the HTTP request.                                        *)
(*                                                                         *)
(* A view is what a fetch gets to see: Message-ID, domain of From, the     *)
(* URIs of List-Unsubscribe in order, whether List-Unsubscribe-Post is the *)
(* one-click token, and the receiving server's verdict.  A URL stands for  *)
(* its host as well.                                                       *)
(***************************************************************************)
EXTENDS Naturals, Sequences, FiniteSets

CONSTANTS
  Ids, NoId,             \* Message-ID header values; a message without one
  Domains, NoDomain,     \* domains of From and of DKIM signatures
  Aligned,               \* the pairs of domains that align
  Urls, BadUrl,          \* well-formed https URLs; what does not parse as one
  SafeUrls,              \* those that pass the structural checks
  Addresses, Public,     \* IP addresses, and the public ones
  NoAddress,
  Views, NoView,         \* what messages look like; no message at that uid
  Answers,               \* the lists of addresses the resolver gives
  MaxChunks              \* chunks of a response body that is not too large

Schemes == {"https", "http", "mailto", "other"}
Tokens == {"pass", "fail", "other", "absent"}
Auths == [dmarc : Tokens, dkim : Tokens, domain : Domains \cup {NoDomain}]
AllViews == [id : Ids \cup {NoId}, from : Domains \cup {NoDomain},
             uris : Seq([scheme : Schemes, url : Urls \cup {BadUrl}]),
             post : BOOLEAN, evidence : BOOLEAN, auth : Auths]

ASSUME UnsubscribeAssumption ==
  /\ NoDomain \notin Domains /\ Aligned \subseteq Domains \X Domains
  /\ BadUrl \notin Urls /\ SafeUrls \subseteq Urls
  /\ Public \subseteq Addresses /\ NoAddress \notin Addresses
  /\ Views \subseteq AllViews /\ NoView \notin AllViews
  /\ Answers \subseteq Seq(Addresses)
  /\ MaxChunks \in Nat

VARIABLES
  message,          \* what the mailbox has at the uid
  pc, req,          \* the call: stage, arguments
  first, second,    \* what its two fetches saw
  pinned,           \* the address it has validated
  peer,             \* the address it is connected to
  posts,            \* the POSTs the host has taken, by URL and address
  reply,            \* the status the host sends, "none" before; it may stop any time
  taken,            \* whether the host has taken this connection's POST
  received,         \* chunks of the response body so far
  result            \* the answer

exchange == <<pinned, peer, posts, reply, taken, received>>
vars == <<message, pc, req, first, second, exchange, result>>
-----------------------------------------------------------------------------
Requests == [mode : {"preview", "dryRun", "live"}, confirm : BOOLEAN, acknowledge : BOOLEAN]
Stages == {"idle", "fetching", "refetching", "resolving", "connecting", "waiting", "reading",
           "done", "thrown"}
Statuses == {"2xx", "3xx", "4xx", "5xx"}
Outcomes == {"accepted", "uncertain", "rejected", "failed"}
Results == [eligible : BOOLEAN, sent : BOOLEAN, status : Statuses \cup {"none"},
            outcome : Outcomes \cup {"none"}]

Goto(stage) == pc' = stage
Finish(answer) == Goto("done") /\ result' = answer
NotAttempted(eligible) ==
  [eligible |-> eligible, sent |-> FALSE, status |-> "none", outcome |-> "none"]
Attempted(status, outcome) ==
  [eligible |-> TRUE, sent |-> TRUE, status |-> status, outcome |-> outcome]
-----------------------------------------------------------------------------
(***************************************************************************)
(* The decision (computeUnsubscribeDecision), computed from one view.      *)
(***************************************************************************)
Having(uris, scheme) == {n \in DOMAIN uris : uris[n].scheme = scheme}

\* Of several https URIs none is picked.
TargetOf(uris) ==
  IF Cardinality(Having(uris, "https")) = 1
    THEN uris[CHOOSE n \in DOMAIN uris : uris[n].scheme = "https"].url ELSE BadUrl
TargetUrl(v) == TargetOf(v.uris)

Mechanism(v) ==
  IF TargetUrl(v) # BadUrl /\ v.post THEN "one-click"
  ELSE IF Having(v.uris, "https") \cup Having(v.uris, "http") # {} THEN "not-one-click"
  ELSE IF Having(v.uris, "mailto") # {} THEN "mailto" ELSE "none"

Authentic(v) ==
  \/ v.auth.dmarc = "pass"
  \/ v.auth.dkim = "pass" /\ <<v.auth.domain, v.from>> \in Aligned

AuthenticationStatus(v) ==
  IF ~v.evidence THEN "unavailable"
  ELSE IF Authentic(v) THEN "verified"
  ELSE IF "fail" \in {v.auth.dmarc, v.auth.dkim} THEN "failed" ELSE "evidence-present"

Eligible(v) == Mechanism(v) = "one-click" /\ AuthenticationStatus(v) = "verified"

\* The domain of From is not compared: the decision is computed again instead.
HeadersIdentical(v, w) ==
  v.uris = w.uris /\ v.post = w.post /\ v.evidence = w.evidence /\ v.auth = w.auth
-----------------------------------------------------------------------------
Init ==
  /\ message \in Views \cup {NoView}
  /\ pc = "idle"
  /\ req = [mode |-> "preview", confirm |-> FALSE, acknowledge |-> FALSE]
  /\ first = NoView /\ second = NoView
  /\ pinned = NoAddress /\ peer = NoAddress
  /\ posts = << >> /\ reply = "none" /\ taken = FALSE /\ received = 0
  /\ result = NotAttempted(FALSE)

\* Consent is checked before any header is read.
Start(q) ==
  /\ pc = "idle"
  /\ req' = q
  /\ Goto(IF q.mode = "live" /\ ~(q.confirm /\ q.acknowledge) THEN "thrown" ELSE "fetching")
  /\ UNCHANGED <<message, first, second, exchange, result>>

\* The lock, the fetch or the connection fails.
Throws ==
  /\ pc \in {"fetching", "refetching"}
  /\ Goto("thrown")
  /\ UNCHANGED <<message, req, first, second, exchange, result>>

\* mail_unsubscribe_preview: one look, and what a live call would decide from it.
Preview ==
  /\ pc = "fetching" /\ req.mode = "preview"
  /\ first' = message
  /\ Finish(NotAttempted(message # NoView /\ Eligible(message)))
  /\ UNCHANGED <<message, req, second, exchange>>

Fetch ==
  /\ pc = "fetching" /\ req.mode # "preview"
  /\ first' = message
  /\ IF message = NoView THEN Finish(NotAttempted(FALSE))
     ELSE IF req.mode = "live" /\ Eligible(message) THEN Goto("refetching") /\ UNCHANGED result
     ELSE Finish(NotAttempted(Eligible(message)))
  /\ UNCHANGED <<message, req, second, exchange>>

\* Mutant: the second look need not agree with the first.
RefetchTrusting ==
  /\ pc = "refetching"
  /\ second' = message
  /\ IF message # NoView /\ Eligible(message)
       THEN IF TargetUrl(message) \in SafeUrls THEN Goto("resolving") /\ UNCHANGED result
                                               ELSE Finish(NotAttempted(TRUE))
       ELSE Finish(NotAttempted(FALSE))
  /\ UNCHANGED <<message, req, first, exchange>>

\* The message must be the same, and eligible again; then its URL is checked.
Refetch ==
  /\ pc = "refetching"
  /\ second' = message
  /\ IF message # NoView /\ message.id = first.id /\ HeadersIdentical(first, message)
          /\ Eligible(message)
       THEN IF TargetUrl(message) \in SafeUrls THEN Goto("resolving") /\ UNCHANGED result
                                               ELSE Finish(NotAttempted(TRUE))
       ELSE Finish(NotAttempted(FALSE))
  /\ UNCHANGED <<message, req, first, exchange>>

\* Mutant: one public address is enough.
ResolveAny(addresses) ==
  /\ pc = "resolving"
  /\ IF \E n \in DOMAIN addresses : addresses[n] \in Public
       THEN pinned' = addresses[1] /\ Goto("connecting") /\ UNCHANGED result
       ELSE Finish(NotAttempted(TRUE)) /\ UNCHANGED pinned
  /\ UNCHANGED <<message, req, first, second, peer, posts, reply, taken, received>>

\* Every address must be public; the first one is pinned.
Resolve(addresses) ==
  /\ pc = "resolving"
  /\ IF addresses # << >> /\ \A n \in DOMAIN addresses : addresses[n] \in Public
       THEN pinned' = addresses[1] /\ Goto("connecting") /\ UNCHANGED result
       ELSE Finish(NotAttempted(TRUE)) /\ UNCHANGED pinned
  /\ UNCHANGED <<message, req, first, second, peer, posts, reply, taken, received>>

ResolveFails ==
  /\ pc = "resolving"
  /\ Finish(NotAttempted(TRUE))
  /\ UNCHANGED <<message, req, first, second, exchange>>
-----------------------------------------------------------------------------
(***************************************************************************)
(* The POST (postOneClickUnsubscribe).  The first of the events below      *)
(* settles the answer; what the request still emits after it changes       *)
(* nothing.                                                                *)
(***************************************************************************)
\* The socket is connected to the pinned address and the request is written: on
\* this connection nothing has been taken or answered yet.
Connect ==
  /\ pc = "connecting"
  /\ peer' = pinned
  /\ taken' = FALSE /\ reply' = "none" /\ received' = 0
  /\ Goto("waiting")
  /\ UNCHANGED <<message, req, first, second, pinned, posts, result>>

ClassifyStatus(status) ==
  CASE status = "2xx" -> "accepted" [] status = "3xx" -> "uncertain"
    [] status = "4xx" -> "rejected" [] OTHER -> "failed"

ResponseHead ==
  /\ pc = "waiting" /\ reply # "none"
  /\ Goto("reading")
  /\ UNCHANGED <<message, req, first, second, exchange, result>>

\* Mutant: the body is read to its end, however long.
ResponseDataUnbounded ==
  /\ pc = "reading"
  /\ received <= MaxChunks + 1
  /\ received' = received + 1
  /\ UNCHANGED <<message, pc, req, first, second, pinned, peer, posts, reply, taken, result>>

ResponseData ==
  /\ pc = "reading"
  /\ received' = received + 1
  /\ IF received' > MaxChunks THEN Finish(Attempted(reply, "failed"))
                              ELSE UNCHANGED <<pc, result>>
  /\ UNCHANGED <<message, req, first, second, pinned, peer, posts, reply, taken>>

ResponseEnd ==
  /\ pc = "reading"
  /\ Finish(Attempted(reply, ClassifyStatus(reply)))
  /\ UNCHANGED <<message, req, first, second, exchange>>

ResponseError ==
  /\ pc = "reading"
  /\ Finish(Attempted(reply, "failed"))
  /\ UNCHANGED <<message, req, first, second, exchange>>

\* Connecting, TLS or the connection fails before there is a response.
NetworkError ==
  /\ pc \in {"connecting", "waiting"}
  /\ Finish(Attempted("none", "failed"))
  /\ UNCHANGED <<message, req, first, second, exchange>>

\* Mutant: the timeout ends with the response head.
TimeoutUntilHead ==
  /\ pc \in {"connecting", "waiting"}
  /\ Finish(Attempted("none", "failed"))
  /\ UNCHANGED <<message, req, first, second, exchange>>

\* Mutant: a request that gets no answer was not sent.
TimeoutUnsent ==
  /\ pc \in {"connecting", "waiting", "reading"}
  /\ Finish(NotAttempted(TRUE))
  /\ UNCHANGED <<message, req, first, second, exchange>>

\* The socket has been silent for REQUEST_TIMEOUT_MS.
Timeout ==
  /\ pc \in {"connecting", "waiting", "reading"}
  /\ Finish(Attempted("none", "failed"))
  /\ UNCHANGED <<message, req, first, second, exchange>>
-----------------------------------------------------------------------------
(***************************************************************************)
(* The host, and the mailbox.                                              *)
(***************************************************************************)
\* Bytes that are on their way when the call gives up may still arrive.
HostTakes ==
  /\ peer # NoAddress /\ ~taken
  /\ taken' = TRUE
  /\ posts' = Append(posts, [url |-> TargetUrl(second), address |-> peer])
  /\ UNCHANGED <<message, pc, req, first, second, pinned, peer, reply, received, result>>

HostAnswers(status) ==
  /\ pc = "waiting" /\ reply = "none"
  /\ reply' = status
  /\ UNCHANGED <<message, pc, req, first, second, pinned, peer, posts, taken, received, result>>

MailboxChanges(v) ==
  /\ pc \notin {"done", "thrown"}
  /\ v # message
  /\ message' = v
  /\ UNCHANGED <<pc, req, first, second, exchange, result>>
-----------------------------------------------------------------------------
Lookup == \/ Throws \/ Preview \/ Fetch \/ Refetch \/ ResolveFails
          \/ \E addresses \in Answers : Resolve(addresses)

Post == \/ Connect \/ ResponseHead \/ ResponseData \/ ResponseEnd \/ ResponseError
        \/ NetworkError \/ Timeout

World == \/ HostTakes
         \/ \E status \in Statuses : HostAnswers(status)
         \/ \E v \in Views \cup {NoView} : MailboxChanges(v)

Next == (\E q \in Requests : Start(q)) \/ Lookup \/ Post \/ World

Spec == Init /\ [][Next]_vars

(***************************************************************************)
(* IMAP commands and name lookups are answered or fail, and a silent       *)
(* connection times out.  Nothing is asked of the host: it may never       *)
(* answer, or stop in the middle.                                          *)
(***************************************************************************)
LiveSpec == Spec /\ WF_vars(Lookup) /\ WF_vars(Timeout)
-----------------------------------------------------------------------------
Posts == [url : Urls, address : Addresses]

TypeOK ==
  /\ message \in Views \cup {NoView}
  /\ pc \in Stages /\ req \in Requests
  /\ first \in Views \cup {NoView} /\ second \in Views \cup {NoView}
  /\ pinned \in Addresses \cup {NoAddress} /\ peer \in Addresses \cup {NoAddress}
  /\ posts \in Seq(Posts) /\ taken \in BOOLEAN
  /\ reply \in Statuses \cup {"none"}
  /\ received \in 0 .. MaxChunks + 1
  /\ result \in Results

(***************************************************************************)
(* At most one POST reaches a host, and only for a call with both          *)
(* confirmations, to the one target that both looks at the message agree   *)
(* on, both times of an eligible message with the same Message-ID, and at  *)
(* a public address: "any drift [...] aborts with zero network requests"   *)
(* (execute.ts:74-83, url-safety.ts, http-client.ts:63-67).                *)
(***************************************************************************)
PostJustified ==
  /\ Len(posts) <= 1
  /\ \A n \in DOMAIN posts :
       /\ req = [mode |-> "live", confirm |-> TRUE, acknowledge |-> TRUE]
       /\ \A v \in {first, second} :
            v # NoView /\ Eligible(v) /\ v.id = first.id /\ TargetUrl(v) = posts[n].url
       /\ posts[n].url \in SafeUrls /\ posts[n].address \in Public

(***************************************************************************)
(* The answer never misleads about the request: "not sent" means that no   *)
(* host has got or will get it, and what is reported of the response is    *)
(* what the host answered (http-client.ts:28-34).                          *)
(***************************************************************************)
AnswerHonest ==
  pc = "done" =>
    /\ ~result.sent => posts = << >> /\ peer = NoAddress
    /\ result.status # "none" => result.status = reply
    /\ result.outcome = "accepted" => reply = "2xx"
    /\ result.outcome = "rejected" => reply = "4xx"

(***************************************************************************)
(* Every call ends, whatever the host does: "a slow/hanging server" is     *)
(* timed out (SECURITY.md, Controlled unsubscribe).                        *)
(***************************************************************************)
CallEnds == pc = "fetching" ~> pc \in {"done", "thrown"}
=============================================================================
