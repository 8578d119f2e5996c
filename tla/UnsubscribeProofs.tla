-------------------------- MODULE UnsubscribeProofs --------------------------
(***************************************************************************)
(* For any messages, resolver and host: at most one POST, and only the     *)
(* one that two looks at the message justify; and an answer that does not  *)
(* mislead.  The invariant says what each stage of the call has behind it. *)
(***************************************************************************)
EXTENDS Unsubscribe, TLAPS

Consented == req = [mode |-> "live", confirm |-> TRUE, acknowledge |-> TRUE]

\* The two looks agree.
Revalidated ==
  /\ first # NoView /\ Eligible(first)
  /\ second # NoView /\ Eligible(second)
  /\ second.id = first.id
  /\ TargetUrl(second) = TargetUrl(first)
  /\ TargetUrl(first) \in SafeUrls

LookInv ==
  /\ pc = "fetching" /\ req.mode = "live" => Consented
  /\ pc = "refetching" => Consented /\ first # NoView /\ Eligible(first)
  /\ pc \in {"resolving", "connecting", "waiting", "reading"} \/ peer # NoAddress =>
       Consented /\ Revalidated

\* Until it is connected the call has left no trace with any host.
TraceInv ==
  /\ pc \notin {"waiting", "reading", "done"} => peer = NoAddress
  /\ peer = NoAddress => posts = << >> /\ ~taken
  /\ pc \in {"connecting", "waiting", "reading"} => pinned \in Public
  /\ peer # NoAddress => peer \in Public
  /\ ~taken => posts = << >>
  /\ taken => posts = << [url |-> TargetUrl(second), address |-> peer] >>

ReplyInv ==
  /\ pc = "reading" => reply # "none"
  /\ pc # "done" => result = NotAttempted(FALSE)

\* A body that is still being read is not too large yet.
BodyInv ==
  /\ pc = "waiting" => received = 0
  /\ pc = "reading" => received \in 0 .. MaxChunks

CallInv == TypeOK /\ LookInv /\ TraceInv /\ ReplyInv /\ AnswerHonest
Inv == CallInv /\ BodyInv
-----------------------------------------------------------------------------
\* Answers are answers.
LEMMA AnswerTypes ==
  /\ \A e \in BOOLEAN : NotAttempted(e) \in Results
  /\ \A s \in Statuses \cup {"none"}, o \in Outcomes : Attempted(s, o) \in Results
  /\ \A s \in Statuses : ClassifyStatus(s) \in Outcomes
BY DEF NotAttempted, Attempted, Results, Outcomes, Statuses, ClassifyStatus

\* A response starts with nothing received.
LEMMA ChunkBound == MaxChunks \in Nat /\ 0 \in 0 .. MaxChunks + 1
BY UnsubscribeAssumption

\* Eligibility is a truth value.
LEMMA EligibleType == \A v : Eligible(v) \in BOOLEAN
BY DEF Eligible

\* Identical headers name the same target.
LEMMA SameTarget ==
  ASSUME NEW v, NEW w, HeadersIdentical(v, w)
  PROVE  TargetUrl(v) = TargetUrl(w)
BY DEF HeadersIdentical, TargetUrl

\* The invariant holds before the call.
LEMMA InvInit == Init => Inv
<1> SUFFICES ASSUME Init PROVE Inv
  OBVIOUS
<1>1. TypeOK
  <2>1. result \in Results
    BY AnswerTypes DEF Init
  <2>2. received \in 0 .. MaxChunks + 1
    BY ChunkBound DEF Init
  <2>3. req \in Requests
    BY DEF Init, Requests
  <2>4. posts \in Seq(Posts)
    BY DEF Init
  <2> QED
    BY <2>1, <2>2, <2>3, <2>4 DEF Init, TypeOK, Stages
<1>2. LookInv /\ TraceInv /\ ReplyInv /\ AnswerHonest
  BY DEF Init, LookInv, TraceInv, ReplyInv, AnswerHonest
<1>3. BodyInv
  BY DEF Init, BodyInv
<1> QED
  BY <1>1, <1>2, <1>3 DEF Inv, CallInv
-----------------------------------------------------------------------------
\* Steps before the connection.
LEMMA LookStep ==
  ASSUME Inv, (\E q \in Requests : Start(q)) \/ Lookup
  PROVE  CallInv'
<1> USE DEF Inv, CallInv
<1>1. \A q \in Requests : Start(q) => CallInv'
  <2> SUFFICES ASSUME NEW q \in Requests, Start(q) PROVE CallInv'
    OBVIOUS
  <2>1. TypeOK'
    BY DEF Start, TypeOK, exchange, Goto, Stages
  <2>2. LookInv'
    BY DEF Start, LookInv, TraceInv, Consented, Requests, exchange, Goto
  <2>3. TraceInv' /\ ReplyInv' /\ AnswerHonest'
    BY DEF Start, TraceInv, ReplyInv, AnswerHonest, exchange, Goto
  <2> QED
    BY <2>1, <2>2, <2>3
<1>2. Throws => CallInv'
  <2> SUFFICES ASSUME Throws PROVE CallInv'
    OBVIOUS
  <2>1. TypeOK'
    BY DEF Throws, TypeOK, exchange, Goto, Stages
  <2>2. LookInv' /\ TraceInv' /\ ReplyInv' /\ AnswerHonest'
    BY DEF Throws, LookInv, TraceInv, ReplyInv, AnswerHonest, Consented, exchange, Goto
  <2> QED
    BY <2>1, <2>2
<1>3. Fetch \/ Preview => CallInv'
  <2> SUFFICES ASSUME Fetch \/ Preview PROVE CallInv'
    OBVIOUS
  <2>1. TypeOK'
    BY AnswerTypes, EligibleType DEF Fetch, Preview, TypeOK, exchange, Goto, Finish, Stages
  <2>2. LookInv'
    BY DEF Fetch, Preview, LookInv, TraceInv, Consented, exchange, Goto, Finish
  <2>3. TraceInv' /\ ReplyInv' /\ AnswerHonest'
    BY DEF Fetch, Preview, TraceInv, ReplyInv, AnswerHonest, exchange, Goto, Finish, NotAttempted
  <2> QED
    BY <2>1, <2>2, <2>3
<1>4. Refetch => CallInv'
  <2> SUFFICES ASSUME Refetch PROVE CallInv'
    OBVIOUS
  <2>1. TypeOK'
    BY AnswerTypes DEF Refetch, TypeOK, exchange, Goto, Finish, Stages
  <2>2. HeadersIdentical(first, message) => TargetUrl(message) = TargetUrl(first)
    BY SameTarget
  <2>3. LookInv'
    BY <2>2 DEF Refetch, LookInv, TraceInv, Consented, Revalidated, exchange, Goto, Finish
  <2>4. TraceInv' /\ ReplyInv' /\ AnswerHonest'
    BY DEF Refetch, TraceInv, ReplyInv, AnswerHonest, exchange, Goto, Finish, NotAttempted
  <2> QED
    BY <2>1, <2>3, <2>4
<1>5. ResolveFails => CallInv'
  <2> SUFFICES ASSUME ResolveFails PROVE CallInv'
    OBVIOUS
  <2>1. TypeOK'
    BY AnswerTypes DEF ResolveFails, TypeOK, exchange, Finish, Goto, Stages
  <2>2. LookInv' /\ TraceInv' /\ ReplyInv' /\ AnswerHonest'
    BY DEF ResolveFails, LookInv, TraceInv, ReplyInv, AnswerHonest, Consented, Revalidated,
           exchange, Finish, Goto, NotAttempted
  <2> QED
    BY <2>1, <2>2
<1>6. \A addresses \in Answers : Resolve(addresses) => CallInv'
  <2> SUFFICES ASSUME NEW addresses \in Answers, Resolve(addresses) PROVE CallInv'
    OBVIOUS
  <2>1. addresses # << >> => 1 \in DOMAIN addresses /\ addresses[1] \in Addresses
    BY UnsubscribeAssumption
  <2>2. pinned' \in Addresses \cup {NoAddress}
    BY <2>1 DEF Resolve, TypeOK
  <2>3. pc' = "connecting" => pinned' \in Public
    BY <2>1 DEF Resolve, Finish, Goto
  <2>4. TypeOK'
    BY <2>2, AnswerTypes DEF Resolve, TypeOK, Finish, Goto, Stages
  <2>5. LookInv'
    BY DEF Resolve, LookInv, Consented, Revalidated, Finish, Goto
  <2>6. TraceInv' /\ ReplyInv' /\ AnswerHonest'
    BY <2>3 DEF Resolve, TraceInv, ReplyInv, AnswerHonest, Finish, Goto, NotAttempted
  <2> QED
    BY <2>4, <2>5, <2>6
<1> QED
  BY <1>1, <1>2, <1>3, <1>4, <1>5, <1>6 DEF Lookup

\* Steps of the request and its response.
LEMMA PostStep == ASSUME Inv, Post PROVE CallInv'
<1> USE DEF Inv, CallInv
<1>1. Connect => CallInv'
  <2> SUFFICES ASSUME Connect PROVE CallInv'
    OBVIOUS
  <2>1. TypeOK'
    BY ChunkBound DEF Connect, TypeOK, Goto, Stages
  <2>2. LookInv' /\ ReplyInv' /\ AnswerHonest'
    BY DEF Connect, LookInv, ReplyInv, AnswerHonest, Consented, Revalidated, Goto
  <2>3. TraceInv'
    BY DEF Connect, TraceInv, Goto
  <2> QED
    BY <2>1, <2>2, <2>3
<1>2. ResponseHead => CallInv'
  <2> SUFFICES ASSUME ResponseHead PROVE CallInv'
    OBVIOUS
  <2>1. TypeOK'
    BY DEF ResponseHead, TypeOK, exchange, Goto, Stages
  <2>2. LookInv' /\ TraceInv' /\ ReplyInv' /\ AnswerHonest'
    BY DEF ResponseHead, LookInv, TraceInv, ReplyInv, AnswerHonest, Consented, Revalidated,
           exchange, Goto
  <2> QED
    BY <2>1, <2>2
<1>3. ResponseData => CallInv'
  <2> SUFFICES ASSUME ResponseData PROVE CallInv'
    OBVIOUS
  <2>1. TypeOK'
    <3>1. received' \in 0 .. MaxChunks + 1
      BY ChunkBound DEF ResponseData, TypeOK, BodyInv
    <3>2. pc' \in Stages /\ result' \in Results
      BY AnswerTypes DEF ResponseData, TypeOK, Goto, Finish, Stages, Outcomes
    <3> QED
      BY <3>1, <3>2 DEF ResponseData, TypeOK
  <2>2. LookInv' /\ TraceInv'
    BY DEF ResponseData, LookInv, TraceInv, Consented, Revalidated, Goto, Finish
  <2>3. ReplyInv'
    BY DEF ResponseData, ReplyInv, Goto, Finish
  <2>4. AnswerHonest'
    <3>1. CASE received' > MaxChunks
      BY <3>1 DEF ResponseData, AnswerHonest, Goto, Finish, Attempted
    <3>2. CASE ~(received' > MaxChunks)
      BY <3>2 DEF ResponseData, AnswerHonest
    <3> QED
      BY <3>1, <3>2
  <2> QED
    BY <2>1, <2>2, <2>3, <2>4
<1>4. ResponseEnd => CallInv'
  <2> SUFFICES ASSUME ResponseEnd PROVE CallInv'
    OBVIOUS
  <2>1. reply \in Statuses
    BY DEF ResponseEnd, ReplyInv, TypeOK
  <2>2. TypeOK'
    BY <2>1, AnswerTypes DEF ResponseEnd, TypeOK, exchange, Goto, Finish, Stages
  <2>3. LookInv' /\ TraceInv' /\ ReplyInv'
    BY DEF ResponseEnd, LookInv, TraceInv, ReplyInv, Consented, Revalidated, exchange, Goto, Finish
  <2>4. AnswerHonest'
    BY <2>1 DEF ResponseEnd, AnswerHonest, exchange, Goto, Finish, Attempted,
           ClassifyStatus, Statuses
  <2> QED
    BY <2>2, <2>3, <2>4
<1>5. ResponseError => CallInv'
  <2> SUFFICES ASSUME ResponseError PROVE CallInv'
    OBVIOUS
  <2>1. TypeOK'
    BY AnswerTypes DEF ResponseError, TypeOK, exchange, Goto, Finish, Stages, Outcomes
  <2>2. LookInv' /\ TraceInv' /\ ReplyInv' /\ AnswerHonest'
    BY DEF ResponseError, LookInv, TraceInv, ReplyInv, AnswerHonest, Consented, Revalidated,
           exchange, Goto, Finish, Attempted
  <2> QED
    BY <2>1, <2>2
<1>6. NetworkError \/ Timeout => CallInv'
  <2> SUFFICES ASSUME NetworkError \/ Timeout PROVE CallInv'
    OBVIOUS
  <2>1. TypeOK'
    BY AnswerTypes DEF NetworkError, Timeout, TypeOK, exchange, Goto, Finish, Stages, Outcomes
  <2>2. /\ pc \in {"connecting", "waiting", "reading"} /\ pc' = "done"
        /\ UNCHANGED <<req, first, second, peer, posts, taken>>
    BY DEF NetworkError, Timeout, exchange, Finish, Goto
  <2>3. result' = Attempted("none", "failed")
    BY DEF NetworkError, Timeout, Finish
  <2>4. LookInv'
    BY <2>2 DEF LookInv, Consented, Revalidated
  <2>5. TraceInv' /\ ReplyInv'
    BY <2>2 DEF TraceInv, ReplyInv
  <2>6. AnswerHonest'
    BY <2>3 DEF AnswerHonest, Attempted
  <2> QED
    BY <2>1, <2>4, <2>5, <2>6
<1> QED
  BY <1>1, <1>2, <1>3, <1>4, <1>5, <1>6 DEF Post

\* Steps of the host and of the mailbox.
LEMMA WorldStep == ASSUME Inv, World PROVE CallInv'
<1> USE DEF Inv, CallInv
<1>1. HostTakes => CallInv'
  <2> SUFFICES ASSUME HostTakes PROVE CallInv'
    OBVIOUS
  <2> DEFINE post == [url |-> TargetUrl(second), address |-> peer]
  <2>1. posts' = << post >>
    BY DEF HostTakes, TraceInv
  <2>2. post \in Posts
    BY UnsubscribeAssumption DEF HostTakes, LookInv, Revalidated, TypeOK, Posts
  <2>3. TypeOK'
    BY <2>1, <2>2 DEF HostTakes, TypeOK
  <2>4. LookInv' /\ ReplyInv' /\ AnswerHonest'
    BY DEF HostTakes, LookInv, ReplyInv, AnswerHonest, Consented, Revalidated
  <2>5. TraceInv'
    BY <2>1 DEF HostTakes, TraceInv
  <2> QED
    BY <2>3, <2>4, <2>5
<1>2. \A status \in Statuses : HostAnswers(status) => CallInv'
  <2> SUFFICES ASSUME NEW status \in Statuses, HostAnswers(status) PROVE CallInv'
    OBVIOUS
  <2>1. TypeOK'
    BY DEF HostAnswers, TypeOK
  <2>2. LookInv' /\ TraceInv' /\ ReplyInv' /\ AnswerHonest'
    BY DEF HostAnswers, LookInv, TraceInv, ReplyInv, AnswerHonest, Consented, Revalidated, Statuses
  <2> QED
    BY <2>1, <2>2
<1>3. \A v \in Views \cup {NoView} : MailboxChanges(v) => CallInv'
  <2> SUFFICES ASSUME NEW v \in Views \cup {NoView}, MailboxChanges(v) PROVE CallInv'
    OBVIOUS
  <2>1. TypeOK'
    BY DEF MailboxChanges, TypeOK, exchange
  <2>2. LookInv' /\ TraceInv' /\ ReplyInv' /\ AnswerHonest'
    BY DEF MailboxChanges, LookInv, TraceInv, ReplyInv, AnswerHonest, Consented, Revalidated,
           exchange
  <2> QED
    BY <2>1, <2>2
<1> QED
  BY <1>1, <1>2, <1>3 DEF World

\* Only data makes a body longer, and data that makes it too large ends the call.
LEMMA BodyStep == ASSUME Inv, Next \/ UNCHANGED vars PROVE BodyInv'
<1> USE DEF Inv, BodyInv
<1>1. CASE pc' \notin {"waiting", "reading"}
  BY <1>1
<1>2. CASE Connect
  BY <1>2 DEF Connect, Goto
<1>3. CASE ResponseHead
  BY <1>3, ChunkBound DEF ResponseHead, exchange, Goto
<1>4. CASE ResponseData
  <2>1. pc = "reading" /\ received' = received + 1
    BY <1>4 DEF ResponseData
  <2>2. pc' = "reading" => received' <= MaxChunks
    BY <1>4, <2>1, ChunkBound DEF ResponseData, Finish, Goto
  <2>3. pc' # "waiting"
    BY <1>4, <2>1 DEF ResponseData, Finish, Goto
  <2> QED
    BY <2>1, <2>2, <2>3, ChunkBound
<1>5. CASE pc' = pc /\ received' = received
  BY <1>5
<1>6. \/ pc' \notin {"waiting", "reading"} \/ Connect \/ ResponseHead \/ ResponseData
      \/ pc' = pc /\ received' = received
  <2>1. CASE UNCHANGED vars
    BY <2>1 DEF vars, exchange
  <2>2. CASE World
    BY <2>2 DEF World, HostTakes, HostAnswers, MailboxChanges, exchange
  <2>3. CASE \E q \in Requests : Start(q)
    BY <2>3 DEF Start, Goto
  <2>4. CASE Lookup
    BY <2>4 DEF Lookup, Throws, Preview, Fetch, Refetch, ResolveFails, Resolve, Finish, Goto
  <2>5. CASE Post
    BY <2>5 DEF Post, ResponseEnd, ResponseError, NetworkError, Timeout, Finish, Goto
  <2> QED
    BY <2>1, <2>2, <2>3, <2>4, <2>5 DEF Next
<1> QED
  BY <1>1, <1>2, <1>3, <1>4, <1>5, <1>6

\* Every step preserves the invariant.
LEMMA Invariance == Spec => []Inv
<1>1. Inv /\ [Next]_vars => Inv'
  <2>1. ASSUME Inv, UNCHANGED vars PROVE CallInv'
    BY <2>1 DEF Inv, CallInv, TypeOK, LookInv, TraceInv, ReplyInv, AnswerHonest, Consented,
                Revalidated, vars, exchange
  <2> QED
    BY <2>1, LookStep, PostStep, WorldStep, BodyStep DEF Next, Inv
<1> QED
  BY <1>1, InvInit, PTL DEF Spec
-----------------------------------------------------------------------------
(***************************************************************************)
(* Every variable of the call keeps its type, and no more chunks are read  *)
(* than the limit and the one that exceeds it (http-client.ts:108-121).    *)
(***************************************************************************)
THEOREM TypeCorrect == Spec => []TypeOK
<1>1. Inv => TypeOK
  BY DEF Inv, CallInv
<1> QED
  BY <1>1, Invariance, PTL

(***************************************************************************)
(* A POST is sent at most once, and only when two looks at the message     *)
(* agree that it may be (unsubscribe, execute.ts).                         *)
(***************************************************************************)
THEOREM PostJustifiedHolds == Spec => []PostJustified
<1>1. Inv => PostJustified
  <2> SUFFICES ASSUME Inv PROVE PostJustified
    OBVIOUS
  <2>1. CASE ~taken
    <3>1. posts = << >>
      BY <2>1 DEF Inv, CallInv, TraceInv
    <3> QED
      BY <3>1 DEF PostJustified
  <2>2. CASE taken
    <3>1. posts = << [url |-> TargetUrl(second), address |-> peer] >>
      BY <2>2 DEF Inv, CallInv, TraceInv
    <3>2. peer \in Public /\ Consented /\ Revalidated
      BY <2>2 DEF Inv, CallInv, TraceInv, LookInv
    <3>3. Len(posts) = 1 /\ DOMAIN posts = {1}
      BY <3>1
    <3> QED
      BY <3>1, <3>2, <3>3 DEF PostJustified, Consented, Revalidated
  <2> QED
    BY <2>1, <2>2 DEF Inv, CallInv, TypeOK
<1> QED
  BY <1>1, Invariance, PTL

(***************************************************************************)
(* The answer says "not sent" only when nothing was, and of the response   *)
(* only what the host answered (postOneClickUnsubscribe).                  *)
(***************************************************************************)
THEOREM AnswerHonestHolds == Spec => []AnswerHonest
<1>1. Inv => AnswerHonest
  BY DEF Inv, CallInv
<1> QED
  BY <1>1, Invariance, PTL
=============================================================================
