------------------------------ MODULE Outbound ------------------------------
(***************************************************************************)
(* Outbound mail: the preview that signs a receipt, the live call that     *)
(* checks it, the replay guard that spends it in a directory shared by     *)
(* every MCP process of the user, and the single SMTP attempt that         *)
(* follows (src/src/smtp, src/src/security, src/src/tools).                *)
(*                                                                         *)
(* A call is one run of a tool handler.  JavaScript runs it in stretches   *)
(* between awaits: the stages of OnThread are one synchronous stretch, in  *)
(* which no other call of the same process moves, while other processes,   *)
(* the clock and power failures do.                                        *)
(*                                                                         *)
(* Data is abstracted to what the checks compare.  A payload is what the   *)
(* caller supplies, its content what a kind makes of it (normalised, and   *)
(* only the fields the kind takes); a version is what a reply or forward   *)
(* sees of its source message.  OutboundMessages says which they are.  A   *)
(* receipt is named by its nonce; one that is malformed, altered or signed *)
(* by another install is NoReceipt.  Nonces are 128 random bits, so no two *)
(* receipts share one.                                                     *)
(***************************************************************************)
EXTENDS Naturals, Sequences, FiniteSets

CONSTANTS
  Procs,            \* MCP server processes sharing one replay directory
  Calls, Owner,     \* call slots, and the process each runs in
  Ids,              \* receipt nonces
  Kinds,            \* the purposes in use
  Payloads, ValidPayloads,      \* caller input, and what of it each kind accepts
  Contents, Derive,             \* what each kind makes of a payload
  Versions, Repliable, Forwardable, WithAttachments,  \* source messages
  LiveDisabled,     \* the kinds whose live feature gate is closed
  TTL, Margin,      \* receipt lifetime; cleanup margin beyond it
  Skew, Pause,      \* see ClockAssumption
  MaxTime,          \* bound on the clock
  ScanLimit,        \* markers one cleanup inspects
  LossCommands,     \* "command" of the error a connection lost in flight gives
  Inputs,           \* the requests callers make
  NoReceipt, NoSource

AllKinds == {"send", "reply", "forward"}

ASSUME OutboundAssumption ==
  /\ Owner \in [Calls -> Procs]
  /\ Kinds \subseteq AllKinds
  /\ LiveDisabled \subseteq AllKinds \ {"send"}
  /\ ValidPayloads \in [AllKinds -> SUBSET Payloads] /\ Payloads # {}
  /\ Derive \in [AllKinds -> [Payloads -> Contents]]
  /\ Repliable \subseteq Versions /\ Forwardable \subseteq Versions
  /\ TTL \in Nat /\ Margin \in Nat /\ Skew \in Nat /\ Pause \in Nat
  /\ MaxTime \in Nat /\ ScanLimit \in Nat
  /\ NoReceipt \notin Ids /\ NoSource \notin Versions

(***************************************************************************)
(* The wall clock is never set back by more than the cleanup margin, and   *)
(* the synchronous lines between reading the clock and creating the marker *)
(* never span more of it.                                                  *)
(***************************************************************************)
ASSUME ClockAssumption == Skew <= Margin /\ Pause <= Margin

VARIABLES
  clock, latest,    \* the wall clock, and the most it has ever shown
  source,           \* the source message as the mailbox now has it
  issued,           \* what each nonce was signed for
  marker, disk,     \* marker files as processes see them, and as power loss leaves them
  wire,             \* the messages handed to the SMTP server, in order
  pc, req, seen,    \* each call: stage, arguments, what it fetched
  now,              \* each call: the clock value its consumption uses
  pending, victim,  \* each call: cleanup entries to inspect, entry to unlink
  server, result    \* each call: what the server did with the message; the answer

guard == <<marker, disk>>
scan == <<pending, victim>>
vars == <<clock, latest, source, issued, marker, disk, wire,
          pc, req, seen, now, pending, victim, server, result>>
-----------------------------------------------------------------------------
Sources == Versions \cup {NoSource}
Intents == [content : Contents, src : Sources]
Messages == [kind : AllKinds, intent : Intents]
Receipts == [kind : AllKinds, intent : Intents, issuedAt : Nat]
Requests == [kind : AllKinds, payload : Payloads, receipt : Ids \cup {NoReceipt},
             dryRun : BOOLEAN, consent : BOOLEAN, ack : BOOLEAN]
MarkerStates == {"absent", "partial", "complete"}
OnThread == {"checking", "consuming", "opening", "writing", "syncing", "cleaning"}
Submitting == {"credential", "transport", "sending", "awaiting"}
Stages == {"idle", "fetching", "done"} \cup OnThread \cup Submitting
Verdicts == {"accepted", "partial", "refused", "deferred"}
Outcomes == {"accepted", "partiallyAccepted", "rejected", "uncertain", "failed",
             "dryRun", "thrown"}
Commands == {"none", "CONN", "AUTH", "MAIL FROM", "RCPT TO", "DATA"}
Results == [outcome : Outcomes, attempted : BOOLEAN]

ASSUME InputAssumption == Inputs \subseteq Requests
ASSUME NoReceiptAssumption == NoReceipt \notin Messages /\ NoReceipt \notin Receipts

NoRequest == [kind |-> "send", payload |-> CHOOSE p \in Payloads : TRUE,
              receipt |-> NoReceipt, dryRun |-> TRUE, consent |-> FALSE, ack |-> FALSE]
NotFetched == [src |-> NoSource, secret |-> FALSE]
NoResult == [outcome |-> "thrown", attempted |-> FALSE]
Answer(outcome, attempted) == [outcome |-> outcome, attempted |-> attempted]

Key(c) == req[c].receipt
ExpiresAt(i) == issued[i].issuedAt + TTL
\* A receipt so old that cleanup may forget it: its expiry and the margin passed.
Retired(i) == issued[i] # NoReceipt /\ ExpiresAt(i) + Margin <= latest
\* No other call of the same process is in a synchronous stretch.
Runs(c) == \A d \in Calls \ {c} : Owner[d] = Owner[c] => pc[d] \notin OnThread
Goto(c, stage) == pc' = [pc EXCEPT ![c] = stage]
Finish(c, answer) == /\ Goto(c, "done")
                     /\ result' = [result EXCEPT ![c] = answer]
-----------------------------------------------------------------------------
(***************************************************************************)
(* Intents: what each kind derives from the payload and its source, and    *)
(* when it is eligible.                                                    *)
(***************************************************************************)
IntentOf(kind, p, src) ==
  [content |-> Derive[kind][p], src |-> IF kind = "send" THEN NoSource ELSE src]

SendIntentValid(p) == p \in ValidPayloads["send"]
ReplyIntentValid(p, src) == p \in ValidPayloads["reply"] /\ src \in Repliable
ForwardIntentValid(p, src) == p \in ValidPayloads["forward"] /\ src \in Forwardable

(***************************************************************************)
(* Previews sign a receipt over the intent derived from the source as it   *)
(* now is.  (Without the signing secret no receipt is issued: no step.)    *)
(***************************************************************************)
Issue(i, kind, intent) ==
  /\ kind \in Kinds
  /\ issued[i] = NoReceipt
  /\ issued' = [issued EXCEPT ![i] = [kind |-> kind, intent |-> intent, issuedAt |-> clock]]
  /\ UNCHANGED <<clock, latest, source, marker, disk, wire, pc, req, seen, now,
                 pending, victim, server, result>>

PreviewSend(i, p) == Issue(i, "send", IntentOf("send", p, NoSource)) /\ SendIntentValid(p)
PreviewReply(i, p) ==
  Issue(i, "reply", IntentOf("reply", p, source)) /\ ReplyIntentValid(p, source)
PreviewForward(i, p) ==
  Issue(i, "forward", IntentOf("forward", p, source)) /\ ForwardIntentValid(p, source)
-----------------------------------------------------------------------------
(***************************************************************************)
(* Receipt validation, shared by the three kinds: the receipt is of this   *)
(* kind (schema and signing key), the secret is there, it has not expired  *)
(* (a receipt aged exactly TTL has not), and it was signed for this very   *)
(* intent and source.                                                      *)
(***************************************************************************)
IsExpired(issuedAt, t) == t > issuedAt + TTL \/ t < issuedAt

\* Mutant: the receipt's intent is not compared with what would be sent now.
ReceiptValidAnyIntent(q, s, t) ==
  /\ q.receipt # NoReceipt
  /\ issued[q.receipt].kind = q.kind
  /\ s.secret
  /\ ~IsExpired(issued[q.receipt].issuedAt, t)

ReceiptValid(q, s, t) ==
  /\ q.receipt # NoReceipt
  /\ issued[q.receipt].kind = q.kind
  /\ s.secret
  /\ ~IsExpired(issued[q.receipt].issuedAt, t)
  /\ issued[q.receipt].intent = IntentOf(q.kind, q.payload, s.src)

GateOpen(kind) == kind \notin LiveDisabled

SendPasses(q, s, t) == SendIntentValid(q.payload) /\ ReceiptValid(q, s, t)

\* Mutant: the reply gate is consulted only after the receipt is spent.
ReplyPassesGateLater(q, s, t) ==
  ReplyIntentValid(q.payload, s.src) /\ ReceiptValid(q, s, t)

ReplyPasses(q, s, t) ==
  /\ ReplyIntentValid(q.payload, s.src)
  /\ ReceiptValid(q, s, t)
  /\ GateOpen("reply")

ForwardPasses(q, s, t) ==
  /\ ForwardIntentValid(q.payload, s.src)
  /\ ReceiptValid(q, s, t)
  /\ issued[q.receipt].intent.src \in WithAttachments => q.ack
  /\ GateOpen("forward")

Passes(q, s, t) == \/ q.kind = "send" /\ SendPasses(q, s, t)
                   \/ q.kind = "reply" /\ ReplyPasses(q, s, t)
                   \/ q.kind = "forward" /\ ForwardPasses(q, s, t)
-----------------------------------------------------------------------------
(***************************************************************************)
(* The tool handler up to the replay guard.                                *)
(***************************************************************************)
Start(c, q) ==
  /\ pc[c] = "idle" /\ Runs(c)
  /\ q.kind \in Kinds
  /\ q.receipt # NoReceipt => issued[q.receipt] # NoReceipt
  /\ Goto(c, "fetching")
  /\ req' = [req EXCEPT ![c] = q]
  /\ UNCHANGED <<clock, latest, source, issued, marker, disk, wire, seen, now,
                 pending, victim, server, result>>

\* The awaits: signing secret from the Keychain and, for a reply or a forward,
\* the source message as it is now.
Fetch(c, secret) ==
  /\ pc[c] = "fetching" /\ Runs(c)
  /\ Goto(c, "checking")
  /\ seen' = [seen EXCEPT ![c] =
       [src |-> IF req[c].kind = "send" THEN NoSource ELSE source, secret |-> secret]]
  /\ UNCHANGED <<clock, latest, source, issued, marker, disk, wire, req, now,
                 pending, victim, server, result>>

\* A configuration, Keychain or IMAP failure leaves the handler by exception.
FetchFails(c) ==
  /\ pc[c] = "fetching" /\ Runs(c)
  /\ Finish(c, Answer("thrown", FALSE))
  /\ UNCHANGED <<clock, latest, source, issued, marker, disk, wire, req, seen, now,
                 pending, victim, server>>

\* Every way the call ends before it spends the receipt.
Decline(c) ==
  /\ pc[c] = "checking"
  /\ \/ ~req[c].dryRun /\ ~req[c].consent /\ Finish(c, Answer("thrown", FALSE))
     \/ req[c].dryRun /\ Finish(c, Answer("dryRun", FALSE))
     \/ /\ ~req[c].dryRun /\ req[c].consent
        /\ ~Passes(req[c], seen[c], clock)
        /\ Finish(c, Answer("rejected", FALSE))
  /\ UNCHANGED <<clock, latest, source, issued, marker, disk, wire, req, seen, now,
                 pending, victim, server>>

Authorize(c) ==
  /\ pc[c] = "checking"
  /\ ~req[c].dryRun /\ req[c].consent
  /\ Passes(req[c], seen[c], clock)
  /\ Goto(c, "consuming")
  /\ UNCHANGED <<clock, latest, source, issued, marker, disk, wire, req, seen, now,
                 pending, victim, server, result>>
-----------------------------------------------------------------------------
(***************************************************************************)
(* consumeReceiptNonce.  The clock is read a second time; then exclusive   *)
(* creation decides, the marker is written and synced, the directory is    *)
(* synced, and expired markers are cleaned up.                             *)
(***************************************************************************)
\* Mutant: off by one at the instant of expiry.
UsableAtExpiry(i, t) == t <= ExpiresAt(i)

Usable(i, t) == t < ExpiresAt(i)

ReadClock(c) ==
  /\ pc[c] = "consuming"
  /\ Usable(Key(c), clock)
  /\ Goto(c, "opening")
  /\ now' = [now EXCEPT ![c] = clock]
  /\ UNCHANGED <<clock, latest, source, issued, marker, disk, wire, req, seen,
                 pending, victim, server, result>>

ExpiryInvalid(c) ==
  /\ pc[c] = "consuming"
  /\ ~Usable(Key(c), clock)
  /\ Finish(c, Answer("thrown", FALSE))
  /\ UNCHANGED <<clock, latest, source, issued, marker, disk, wire, req, seen, now,
                 pending, victim, server>>

\* Mutant: the marker is opened without O_EXCL.
OpenMarkerShared(c) ==
  /\ pc[c] = "opening"
  /\ marker' = [marker EXCEPT ![Key(c)] = "partial"]
  /\ Goto(c, "writing")
  /\ UNCHANGED <<clock, latest, source, issued, disk, wire, req, seen, now,
                 pending, victim, server, result>>

\* O_CREAT | O_EXCL.
OpenMarker(c) ==
  /\ pc[c] = "opening"
  /\ marker[Key(c)] = "absent"
  /\ marker' = [marker EXCEPT ![Key(c)] = "partial"]
  /\ Goto(c, "writing")
  /\ UNCHANGED <<clock, latest, source, issued, disk, wire, req, seen, now,
                 pending, victim, server, result>>

AlreadyUsed(c) ==
  /\ pc[c] = "opening"
  /\ marker[Key(c)] # "absent"
  /\ Finish(c, Answer("rejected", FALSE))
  /\ UNCHANGED <<clock, latest, source, issued, marker, disk, wire, req, seen, now,
                 pending, victim, server>>

\* The file's bytes are durable; its directory entry is as durable as it was.
WriteMarker(c) ==
  /\ pc[c] = "writing"
  /\ marker' = [marker EXCEPT ![Key(c)] = "complete"]
  /\ disk' = [disk EXCEPT ![Key(c)] = IF @ = "absent" THEN "absent" ELSE "complete"]
  /\ Goto(c, "syncing")
  /\ UNCHANGED <<clock, latest, source, issued, wire, req, seen, now,
                 pending, victim, server, result>>

\* Mutant: the directory is never synced.
SyncDirSkipped(c) ==
  /\ pc[c] = "syncing"
  /\ Goto(c, "cleaning")
  /\ UNCHANGED <<clock, latest, source, issued, marker, disk, wire, req, seen, now,
                 pending, victim, server, result>>

\* A directory sync makes every entry durable, also those of other processes,
\* whose bytes may still be missing.
SyncDir(c) ==
  /\ pc[c] = "syncing"
  /\ disk' = [i \in Ids |-> IF marker[i] = "absent" THEN "absent"
                            ELSE IF i = Key(c) \/ disk[i] = "complete" THEN marker[i]
                            ELSE "partial"]
  /\ Goto(c, "cleaning")
  /\ \E entries \in SUBSET {i \in Ids : marker[i] # "absent"} :
       /\ Cardinality(entries) <= ScanLimit
       /\ pending' = [pending EXCEPT ![c] = entries]
  /\ UNCHANGED <<clock, latest, source, issued, marker, wire, req, seen, now,
                 victim, server, result>>

\* The directory is not private, or open, write or sync fails: the exception
\* leaves the handler, and whatever the marker has become stays.
GuardFails(c) ==
  /\ pc[c] \in {"opening", "writing", "syncing"}
  /\ \/ UNCHANGED marker
     \/ /\ pc[c] = "writing"
        /\ marker' = [marker EXCEPT ![Key(c)] = "complete"]
  /\ Finish(c, Answer("thrown", FALSE))
  /\ UNCHANGED <<clock, latest, source, issued, disk, wire, req, seen, now,
                 pending, victim, server>>

\* Mutant: cleanup without the margin.
RemovableAtExpiry(i, t) == marker[i] = "complete" /\ ExpiresAt(i) <= t

\* What one cleanup may remove, by the clock its consumption started with.
Removable(i, t) == marker[i] = "complete" /\ ExpiresAt(i) + Margin <= t

\* Cleanup reads one entry, and only then unlinks it by name.
Inspect(c, i) ==
  /\ pc[c] = "cleaning" /\ victim[c] = NoReceipt
  /\ i \in pending[c]
  /\ pending' = [pending EXCEPT ![c] = @ \ {i}]
  /\ victim' = [victim EXCEPT ![c] = IF Removable(i, now[c]) THEN i ELSE NoReceipt]
  /\ UNCHANGED <<clock, latest, source, issued, marker, disk, wire, pc, req, seen, now,
                 server, result>>

Unlink(c) ==
  /\ pc[c] = "cleaning" /\ victim[c] # NoReceipt
  /\ \/ marker' = [marker EXCEPT ![victim[c]] = "absent"]
     \/ UNCHANGED marker                                    \* unlink failed
  /\ victim' = [victim EXCEPT ![c] = NoReceipt]
  /\ UNCHANGED <<clock, latest, source, issued, disk, wire, pc, req, seen, now,
                 pending, server, result>>

\* Cleanup is done, or gave up by an exception that consumption ignores.
Consumed(c) ==
  /\ pc[c] = "cleaning" /\ victim[c] = NoReceipt
  /\ pending' = [pending EXCEPT ![c] = {}]
  /\ Goto(c, "credential")
  /\ UNCHANGED <<clock, latest, source, issued, marker, disk, wire, req, seen, now,
                 victim, server, result>>
-----------------------------------------------------------------------------
(***************************************************************************)
(* Outcome classification.                                                 *)
(***************************************************************************)
\* Mutant: an accepted submission is called a delivery.
ClassifySuccessDelivered(accepted, rejected) ==
  Answer(IF ~rejected THEN "delivered" ELSE IF accepted THEN "partiallyAccepted" ELSE "rejected",
         TRUE)

ClassifySuccess(accepted, rejected) ==
  Answer(IF ~rejected THEN "accepted" ELSE IF accepted THEN "partiallyAccepted" ELSE "rejected",
         TRUE)

InSubmission(command) == command \in {"MAIL FROM", "RCPT TO", "DATA"}

\* Mutant: every error without a response code is a clean failure.
ClassifyErrorCleanLoss(code, command) ==
  CASE code = "5xx" -> Answer("rejected", InSubmission(command))
    [] code = "4xx" -> Answer("uncertain", InSubmission(command))
    [] OTHER -> Answer("failed", FALSE)

ClassifyError(code, command) ==
  CASE code = "5xx" -> Answer("rejected", InSubmission(command))
    [] code = "4xx" -> Answer("uncertain", InSubmission(command))
    [] code = "none" /\ command \in {"none", "CONN", "AUTH"} -> Answer("failed", FALSE)
    [] OTHER -> Answer("uncertain", TRUE)

(***************************************************************************)
(* Credential and the one SMTP attempt.                                    *)
(***************************************************************************)
GetPassword(c) ==
  /\ pc[c] = "credential" /\ Runs(c)
  /\ \/ Goto(c, "transport") /\ UNCHANGED result
     \/ Finish(c, Answer("failed", FALSE))
  /\ UNCHANGED <<clock, latest, source, issued, marker, disk, wire, req, seen, now,
                 pending, victim, server>>

CreateTransport(c) ==
  /\ pc[c] = "transport" /\ Runs(c)
  /\ \/ Goto(c, "sending") /\ UNCHANGED result
     \/ Finish(c, Answer("failed", FALSE))
  /\ UNCHANGED <<clock, latest, source, issued, marker, disk, wire, req, seen, now,
                 pending, victim, server>>

\* Mutant: a failed session is retried.
SessionFailsRetried(c, code, command) ==
  /\ pc[c] = "sending" /\ Runs(c)
  /\ Goto(c, "transport")
  /\ UNCHANGED <<clock, latest, source, issued, marker, disk, wire, req, seen, now,
                 pending, victim, server, result>>

\* The session ends before the server has the message.
SessionFails(c, code, command) ==
  /\ pc[c] = "sending" /\ Runs(c)
  /\ Finish(c, ClassifyError(code, command))
  /\ UNCHANGED <<clock, latest, source, issued, marker, disk, wire, req, seen, now,
                 pending, victim, server>>

\* The server has the message, and decides.
HandOver(c, verdict) ==
  /\ pc[c] = "sending"
  /\ wire' = Append(wire, [id |-> Key(c),
                           message |-> [kind |-> req[c].kind,
                                        intent |-> IntentOf(req[c].kind, req[c].payload,
                                                            seen[c].src)]])
  /\ server' = [server EXCEPT ![c] = verdict]
  /\ Goto(c, "awaiting")
  /\ UNCHANGED <<clock, latest, source, issued, marker, disk, req, seen, now,
                 pending, victim, result>>

AfterAnswer(verdict) ==
  CASE verdict = "accepted" -> ClassifySuccess(TRUE, FALSE)
    [] verdict = "partial" -> ClassifySuccess(TRUE, TRUE)
    [] verdict = "refused" -> ClassifyError("5xx", "DATA")
    [] OTHER -> ClassifyError("4xx", "DATA")

AfterLoss(command) == ClassifyError("none", command)

Answered(c) ==
  /\ pc[c] = "awaiting" /\ Runs(c)
  /\ Finish(c, AfterAnswer(server[c]))
  /\ UNCHANGED <<clock, latest, source, issued, marker, disk, wire, req, seen, now,
                 pending, victim, server>>

\* Connection lost, or the socket timeout ran out, after the server had the message.
AnswerLost(c, command) ==
  /\ pc[c] = "awaiting" /\ Runs(c)
  /\ Finish(c, AfterLoss(command))
  /\ UNCHANGED <<clock, latest, source, issued, marker, disk, wire, req, seen, now,
                 pending, victim, server>>
-----------------------------------------------------------------------------
(***************************************************************************)
(* Returning, crashing, losing power.                                      *)
(***************************************************************************)
Reset(cs) ==
  LET Blank(f, value) == [c \in Calls |-> IF c \in cs THEN value ELSE f[c]] IN
  /\ pc' = Blank(pc, "idle")
  /\ req' = Blank(req, NoRequest)
  /\ seen' = Blank(seen, NotFetched)
  /\ now' = Blank(now, 0)
  /\ pending' = Blank(pending, {})
  /\ victim' = Blank(victim, NoReceipt)
  /\ server' = Blank(server, "refused")
  /\ result' = Blank(result, NoResult)

Return(c) ==
  /\ pc[c] = "done"
  /\ Reset({c})
  /\ UNCHANGED <<clock, latest, source, issued, marker, disk, wire>>

\* A process dies and is started again: files stay as they are.
Crash(p) ==
  /\ \E c \in Calls : Owner[c] = p /\ pc[c] # "idle"
  /\ Reset({c \in Calls : Owner[c] = p})
  /\ UNCHANGED <<clock, latest, source, issued, marker, disk, wire>>

\* The machine stops: directory changes not yet synced may or may not survive.
PowerLoss(kept) ==
  /\ marker' = [i \in Ids |-> IF i \in kept THEN marker[i] ELSE disk[i]]
  /\ disk' = marker'
  /\ Reset(Calls)
  /\ UNCHANGED <<clock, latest, source, issued, wire>>

(***************************************************************************)
(* The world.                                                              *)
(***************************************************************************)
Tick ==
  /\ clock < MaxTime
  /\ \A c \in Calls : pc[c] = "opening" => clock + 1 <= now[c] + Pause
  /\ clock' = clock + 1
  /\ latest' = IF clock' > latest THEN clock' ELSE latest
  /\ UNCHANGED <<source, issued, marker, disk, wire, pc, req, seen, now,
                 pending, victim, server, result>>

StepBack(t) ==
  /\ t < clock /\ latest <= t + Skew
  /\ clock' = t
  /\ UNCHANGED <<latest, source, issued, marker, disk, wire, pc, req, seen, now,
                 pending, victim, server, result>>

ChangeSource(v) ==
  /\ v # source
  /\ source' = v
  /\ UNCHANGED <<clock, latest, issued, marker, disk, wire, pc, req, seen, now,
                 pending, victim, server, result>>
-----------------------------------------------------------------------------
Init ==
  /\ clock = 0 /\ latest = 0
  /\ source \in Sources
  /\ issued = [i \in Ids |-> NoReceipt]
  /\ marker = [i \in Ids |-> "absent"]
  /\ disk = [i \in Ids |-> "absent"]
  /\ wire = << >>
  /\ pc = [c \in Calls |-> "idle"]
  /\ req = [c \in Calls |-> NoRequest]
  /\ seen = [c \in Calls |-> NotFetched]
  /\ now = [c \in Calls |-> 0]
  /\ pending = [c \in Calls |-> {}]
  /\ victim = [c \in Calls |-> NoReceipt]
  /\ server = [c \in Calls |-> "refused"]
  /\ result = [c \in Calls |-> NoResult]

Synchronous(c) ==
  \/ Decline(c) \/ Authorize(c)
  \/ ReadClock(c) \/ ExpiryInvalid(c) \/ OpenMarker(c) \/ AlreadyUsed(c)
  \/ WriteMarker(c) \/ SyncDir(c) \/ GuardFails(c)
  \/ Unlink(c) \/ Consumed(c)
  \/ \E i \in Ids : Inspect(c, i)

Submission(c) ==
  \/ CreateTransport(c) \/ Answered(c)
  \/ \E code \in {"none", "4xx", "5xx"}, command \in Commands :
       SessionFails(c, code, command)
  \/ \E verdict \in Verdicts : HandOver(c, verdict)
  \/ \E command \in LossCommands : AnswerLost(c, command)

CallStep(c) ==
  \/ \E q \in Inputs : Start(c, q)
  \/ \E secret \in BOOLEAN : Fetch(c, secret)
  \/ FetchFails(c) \/ GetPassword(c) \/ Return(c)
  \/ Synchronous(c) \/ Submission(c)

Preview == \E i \in Ids, p \in Payloads :
             PreviewSend(i, p) \/ PreviewReply(i, p) \/ PreviewForward(i, p)

World ==
  \/ Tick
  \/ \E t \in 0..MaxTime : StepBack(t)
  \/ \E v \in Sources : ChangeSource(v)
  \/ \E p \in Procs : Crash(p)
  \/ \E kept \in SUBSET Ids : PowerLoss(kept)

Next == Preview \/ World \/ \E c \in Calls : CallStep(c)

Spec == Init /\ [][Next]_vars
-----------------------------------------------------------------------------
TypeOK ==
  /\ clock \in Nat /\ latest \in Nat
  /\ source \in Sources
  /\ issued \in [Ids -> Receipts \cup {NoReceipt}]
  /\ marker \in [Ids -> MarkerStates] /\ disk \in [Ids -> MarkerStates]
  /\ wire \in Seq([id : Ids, message : Messages])
  /\ pc \in [Calls -> Stages]
  /\ req \in [Calls -> Requests]
  /\ seen \in [Calls -> [src : Sources, secret : BOOLEAN]]
  /\ now \in [Calls -> Nat]
  /\ pending \in [Calls -> SUBSET Ids]
  /\ victim \in [Calls -> Ids \cup {NoReceipt}]
  /\ server \in [Calls -> Verdicts]
  /\ result \in [Calls -> Results]

Sent(i) == \E n \in 1..Len(wire) : wire[n].id = i

(***************************************************************************)
(* At most one message per receipt reaches the SMTP server: whatever the   *)
(* interleaving of processes, their crashes, power losses, the cleanup of  *)
(* old markers and the clock (consumeReceiptNonce, sendMail).              *)
(***************************************************************************)
AtMostOnce ==
  \A m, n \in 1..Len(wire) : wire[m].id = wire[n].id => m = n

(***************************************************************************)
(* Once a call asks for the credential, and for as long as its receipt     *)
(* could be presented again, the marker is there and a power failure       *)
(* cannot take it away: "Persist directory entry before any                *)
(* credential/SMTP work" (send-intent-replay-guard.ts:166).                *)
(***************************************************************************)
SpentSurvives ==
  \A i \in Ids :
    Sent(i) \/ (\E c \in Calls : pc[c] \in Submitting /\ Key(c) = i)
      => Retired(i) \/ (marker[i] # "absent" /\ disk[i] # "absent")

(***************************************************************************)
(* The answer never misleads about delivery: a call whose message the      *)
(* server took does not report a clean failure or rejection, and a call    *)
(* that says no submission was attempted handed nothing over               *)
(* (outcome.ts:13-17).                                                     *)
(***************************************************************************)
OutcomeHonest ==
  \A c \in Calls : pc[c] = "done" =>
    /\ server[c] = "accepted" => result[c].outcome \in {"accepted", "uncertain"}
    /\ server[c] = "partial" => result[c].outcome \in {"partiallyAccepted", "uncertain"}
    /\ result[c].outcome = "accepted" => server[c] = "accepted"
    /\ server[c] \in {"accepted", "partial"} => result[c].attempted

(***************************************************************************)
(* A kind whose live gate is closed never spends a receipt: "this receipt  *)
(* was NOT consumed and remains usable" (reply-send.ts, forward-send.ts).  *)
(***************************************************************************)
GatedNeverSpends ==
  \A i \in Ids : marker[i] # "absent" => issued[i].kind \notin LiveDisabled

(***************************************************************************)
(* A durable marker outlives its receipt: no step, not even a power loss   *)
(* or another process's cleanup, removes it before the receipt's expiry    *)
(* and the margin have passed (cleanupExpiredReplayMarkers).               *)
(***************************************************************************)
SpentStaysSpent ==
  [][\A i \in Ids :
       (marker[i] # "absent" /\ disk[i] # "absent" /\ ~Retired(i)')
         => marker'[i] # "absent" /\ disk'[i] # "absent"]_vars

(***************************************************************************)
(* The abstract promise: what the SMTP server was handed is an outbox in   *)
(* which every receipt appears at most once, with the message it was       *)
(* previewed with.                                                         *)
(***************************************************************************)
Bound == [i \in Ids |-> IF issued[i] = NoReceipt THEN NoReceipt
                        ELSE [kind |-> issued[i].kind, intent |-> issued[i].intent]]

OneShot == INSTANCE OneShotOutbox
             WITH Unbound <- NoReceipt, bound <- Bound, outbox <- wire

ImplementsOneShot == OneShot!Spec

(***************************************************************************)
(* A consumption that has begun ends, and an attempt that has its          *)
(* credential is answered or dies with its process: every SMTP wait has a  *)
(* timeout, and the event loop serves every call.  (The Keychain and IMAP  *)
(* waits have no such bound, and no fairness is assumed of them.)          *)
(***************************************************************************)
LiveSpec == Spec /\ \A c \in Calls : /\ WF_vars(Synchronous(c))
                                     /\ SF_vars(Submission(c))

AttemptResolves ==
  \A c \in Calls :
    /\ pc[c] \in OnThread ~> pc[c] \in {"credential", "done", "idle"}
    /\ pc[c] \in {"transport", "sending", "awaiting"} ~> pc[c] \in {"done", "idle"}
-----------------------------------------------------------------------------
(***************************************************************************)
(* The inductive invariant behind AtMostOnce and SpentSurvives: why no     *)
(* second call can create the marker of a receipt that is in use.          *)
(***************************************************************************)
Spending == (OnThread \ {"checking"}) \cup Submitting
Holding == {"writing", "syncing", "cleaning"} \cup Submitting
Durable == {"cleaning"} \cup Submitting

Authorized(c) ==
  LET r == issued[Key(c)] IN
  /\ Key(c) \in Ids /\ r # NoReceipt
  /\ r.kind = req[c].kind
  /\ r.intent = IntentOf(req[c].kind, req[c].payload, seen[c].src)

\* No call holds receipt i and no message was sent with it.
Untouched(i) == ~Sent(i) /\ \A c \in Calls : pc[c] \in Holding => Key(c) # i

ClockInv == clock <= latest /\ latest <= clock + Skew
KeyInv == \A c \in Calls : /\ Key(c) # NoReceipt => issued[Key(c)] # NoReceipt
                           /\ pc[c] \in Spending => Authorized(c)
\* A call about to create its marker still sees a receipt that cleanup cannot have retired.
OpenInv == \A c \in Calls : pc[c] = "opening" => /\ now[c] < ExpiresAt(Key(c))
                                                /\ latest <= now[c] + Margin
NowInv == \A c \in Calls : now[c] <= latest
VictimInv == \A c \in Calls : victim[c] \in Ids => Retired(victim[c])
IssuedInv == \A i \in Ids : marker[i] # "absent" \/ disk[i] # "absent" => issued[i] # NoReceipt
\* Without its marker, a receipt is unused or retired.
MarkerInv == \A i \in Ids : marker[i] = "absent" => Retired(i) \/ Untouched(i)
DiskInv == \A i \in Ids : disk[i] = "absent" =>
             Retired(i) \/ (~Sent(i) /\ \A c \in Calls : pc[c] \in Durable => Key(c) # i)
HolderInv == \A c, d \in Calls :
               pc[c] \in Holding /\ pc[d] \in Holding /\ Key(c) = Key(d) => c = d
UnsentInv == \A c \in Calls : pc[c] \in Holding /\ pc[c] # "awaiting" => ~Sent(Key(c))
\* Whatever was handed over is what its receipt was signed for.
WireInv == \A n \in 1..Len(wire) :
             /\ issued[wire[n].id] # NoReceipt
             /\ wire[n].message = [kind |-> issued[wire[n].id].kind,
                                   intent |-> issued[wire[n].id].intent]

Inv == /\ TypeOK /\ ClockInv /\ KeyInv /\ OpenInv /\ NowInv /\ VictimInv /\ IssuedInv
       /\ MarkerInv /\ DiskInv /\ HolderInv /\ UnsentInv /\ WireInv /\ AtMostOnce
=============================================================================
