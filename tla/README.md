# proton-mail-mcp: verification project

proton-mail-mcp is an MCP server that gives an assistant controlled access to one Proton Mail
account through a local Proton Bridge: IMAP for reading and reorganising mail, SMTP for sending,
replying and forwarding. Every state-changing tool previews first, and the dangerous ones accept
only a short-lived signed *receipt* of that preview. This directory holds TLA+ models of the parts
of the server whose correctness depends on order, concurrency and failure, the TLC runs that check
them on small instances, and TLAPS proofs of the results that matter most.

All paths below are relative to the repository root; `src/smtp/...` and so on are its source tree.
`PROJECT.json` maps every definition to the lines it stands for.

## 1. Inventory

The server is a single-threaded Node.js process per MCP client. Several such processes of one user
may run at once; they share the Proton account, the Bridge, the Keychain and one directory of
replay markers. Inside a process several tool calls may be in flight, interleaving at every
`await`. Apart from the offset at which the next marker cleanup starts, nothing is kept in memory
between calls: what lasts is in the mailbox, in the marker directory, in the SMTP server's queue,
and in receipts the caller carries.

| Component (source) | State it keeps or changes | Operations | What is hard, and what makes it correct | Status |
|---|---|---|---|---|
| **Replay guard** (`security/send-intent-replay-guard.ts`) | one marker file per consumed nonce in a private directory, shared between processes and surviving restarts | `consumeReceiptNonce`, `cleanupExpiredReplayMarkers` | exclusive creation races with other processes, crash or power loss between `open`, `write`, `fsync` and directory `fsync`, cleanup with a clock that is stepped back. Correct if a receipt is spent at most once and stays spent while it could be presented | modelled |
| **Send, reply, forward handlers** (`smtp/send.ts`, `reply-send.ts`, `forward-send.ts`, `tools/*`) | none of their own | validate, fetch the source, check the receipt, gate, consume, send | source message changing between preview and send; gate consulted before or after consumption; order "consume, then credential, then SMTP" | modelled |
| **Previews and intent receipts** (`smtp/*-preview.ts`, `security/*-intent-receipt.ts`) | receipts held by the caller | sign, validate | the same intent has to be derived again later; expiry boundary | modelled |
| **SMTP transport and outcome** (`smtp/transport.ts`, `smtp/outcome.ts`) | the server's queue | one attempt, classification of answer or error | answer lost after the server accepted; an attempt must end; must never be repeated | modelled |
| **Outbound validation policy** (`smtp/policy.ts`, `intent.ts`, `reply-intent.ts`, `forward-intent.ts`, `subject-prefix.ts`, `feature-gates.ts`) | none | pure checks on sender, recipients, subject and body; recipient, subject and thread of a reply, content of a forward | one address in several spellings and fields; a Reply-To that cannot be used; a chain over its bound; intents that must be derived again. Correct if a message goes where it was asked to, and nowhere else, with the right thread and the whole text | modelled |
| **Source message reader** (`mail/source-message.ts`) | none | read headers or a bounded part of the message replied to or forwarded | sees the mailbox at one moment only; headers that repeat or are over their bound; a source of unreported size | modelled; folding and MIME parsing only by what they yield |
| **Trash and uncertain-move classification** (`mutations/trash.ts`, `uncertain-move.ts`, `transitions.ts`) | mailbox; signed restore receipts | resolve, measure labels and flags, lock, look again, move, classify, find new uids, sign | a move that throws after the server did it; other clients between two commands; wrong uid maps; Bridge dropping labels in Trash. Correct if the report agrees with the mailbox, and a receipt describes the message before Trash | modelled |
| **Restore from Trash** (`mutations/restore.ts`, `security/restore-receipt.ts`) | mailbox | validate receipts, move, compare, repair flags and labels | the move itself changes labels and flags; each repair may fail alone; label folders vanish. Correct if nothing is repaired that was not known, and a clean answer means an intact message | modelled |
| **Move, archive, spam** (`mutations/move.ts`, `archive.ts`, `spam.ts`) | mailbox | find the destination, `moveMessagesCore` | system folders found by SPECIAL-USE or by name; a thrown move may have moved. Correct if mail only goes where the tool may send it | modelled |
| **Labels and read state** (`mutations/labels.ts`, `label-membership.ts`, `read-state.ts`, `flags.ts`) | mailbox | add or remove a label, set `\Seen` | a message has one uid in its folder and another in the label mailbox, found by Message-ID, under different locks; other clients in between. Correct if only the messages named change, and every uid is answered truly | modelled |
| **Mailbox policy, batches, results** (`mutations/policy.ts`, `batch.ts`, `existence.ts`, `result.ts`, `error.ts`) | none | pure | localized system folders, custom mailboxes named like them, one name space for folders and labels | partly: all but the batch limits |
| **Folder and label creation** (`mutations/folders.ts`, `create-label.ts`) | mailbox | list, check, create | another client creates or deletes in between; a CREATE that throws. Correct if "created" is true, and nothing but a custom folder or label is ever created | modelled |
| **Permanent delete** (`mutations/permanent-delete.ts`) | mailbox | preview; the live path is closed by a gate | none while the gate is closed | partly: up to the gate; the expunge behind it is never called |
| **Unsubscribe** (`unsubscribe/*`) | a subscription at a remote host | preview; decide, look again, one HTTPS POST | message changes between two fetches; a resolver that mixes addresses; timeout, error, end and an overlong body racing to settle one answer. Correct if at most one POST goes out, only for what both looks agree on, and the answer never misleads | partly: URL and address checks are given sets, header parsing left out |
| **Bridge connection and configuration** (`bridge/client.ts`, `bridge/config.ts`, `smtp/config.ts`, `smtp/host-safety.ts`) | one IMAP connection per call | connect, run, log out; check that the SMTP host is loopback | Keychain reads have no timeout | partly: any command may fail, leaving the handler releases locks |
| **Mail reads** (`mail/messages.ts`, `search.ts`, `folders.ts`) | none | queries | none: read-only | not modelled |
| **Triage analysis** (`analysis/*`) | none | pure aggregation | none | not modelled |
| **Doctor, system status** (`operations/doctor.ts`, `tools/system-status.ts`) | none | read-only checks | none | not modelled |
| **MCP server, tool registration, error texts** (`server.ts`, `index.ts`, ...) | none | wiring, fencing of untrusted content | none | not modelled |

How they interact: a preview tool returns a receipt to the caller; the live tool gets it back with
the payload, re-derives the intent (for reply and forward from a fresh fetch of the source), has the
receipt validated, consults the live gate, and calls the replay guard; only then does it read the
SMTP credential and make one attempt, whose answer or error the outcome module classifies.
`mail_trash` returns restore receipts that `mail_restore_from_trash` takes back later. Trash,
restore and move share `resolveUids`, the lock, the second look, `messageMove`, and
`reconcileResultingUid`; trash and restore also share `classifyUncertainMove`; restore calls
`applyLabel` for each missing label. Every tool that names a mailbox reads the folder listing once
and decides by `policy.ts`.

The hazards of this code, each at its line and with the properties that cover it, are listed in
`PROJECT.json` under `hazards`.

## 2. Modules

| Module | What it is |
|---|---|
| `OneShotOutbox` | the abstract promise of outbound mail: a preview binds a fresh receipt to one message; a receipt delivers at most once, and only that message |
| `Outbound` | previews, the three live handlers, the replay guard, the SMTP attempt; processes, clock, crashes, power loss |
| `OutboundProofs` | the inductive invariant of `Outbound` and the theorems |
| `OutboundPolicy` | the checks and derivations of outbound mail as pure operators: recipients, Reply-To, thread, forwarded content |
| `OutboundMessages` | `Outbound` run on `OutboundPolicy`: what must be true of every message that reaches the SMTP server |
| `OutboundMessagesProofs` | theorems about those messages, on top of `OutboundProofs` |
| `Relocation` | what move, trash and restore share: resolve, lock, look again, move, classify a move that threw, find the new uids; other clients |
| `Trash` | `Relocation` + measuring labels and flags and signing restore receipts (`mail_trash`); also runs the plain `mail_move` |
| `Restore` | `Relocation` + baselines, comparison, repair of flags and labels, the catch-all, the answer (`mail_restore_from_trash`) |
| `RelocationProofs` | the inductive invariant of what trash and restore share, and a lemma for each action they share |
| `TrashProofs`, `RestoreProofs` | the invariants and theorems of `Trash` and `Restore`, on top of `RelocationProofs` |
| `Unsubscribe` | one `mail_unsubscribe` or preview call: decision, second look, resolution, every event of the POST; the host and the mailbox |
| `UnsubscribeProofs` | its inductive invariant and theorems |
| `MailboxPolicy` | `policy.ts` as pure operators: system folders, destinations, names, conflicts |
| `Mailboxes` | the tools that read the listing once and decide by it: creations, and the destination of every tool that moves mail |
| `Labels` | `Mailboxes` + the tools that change messages in place: labels, read state, and the permanent delete up to its gate |
| `MailboxesProofs` | what the operators of `MailboxPolicy` return, and what every step of `Mailboxes` preserves |
| `LabelsProofs` | the invariant and theorems of `Labels`, with those of `Mailboxes`, on top of `MailboxesProofs` |
| `MCOutbound`, `MCMessages`, `MCTrash`, `MCRestore`, `MCLabels`, `MCUnsubscribe` | instances for TLC |

`Outbound` knows a payload by its name, and takes from the constants `ValidPayloads`, `Derive`,
`Repliable`, `Forwardable` and `WithAttachments` which payloads and sources pass and what content a
payload has. `OutboundMessages` gives a payload its arguments and a version its message, and assumes
(`ContentAssumption`) that those constants are what `OutboundPolicy` makes of them; so the theorems
about `Outbound` hold for any policy, and those about messages for this one. `Labels` extends
`Mailboxes` extends `MailboxPolicy`; `Trash` and `Restore` extend `Relocation`.

### Outbound

A *call* is one run of a tool handler, in a slot of one process (`Owner`). Its stage `pc` walks

    idle -> fetching -> checking -> consuming -> opening -> writing -> syncing -> cleaning
         -> credential -> transport -> sending -> awaiting -> done -> idle

From `checking` to `cleaning` the code has no `await` (`OnThread`): no other call of the same
process moves there (`Runs`), but other processes, the clock, crashes and power loss do, so each
system call of the guard is a step of its own. Correspondence:

| Code | Actions |
|---|---|
| preview tools | `PreviewSend`, `PreviewReply`, `PreviewForward` (one atomic step each: `ChangeSource` may come before and after at will, so a preview that spans it adds nothing) |
| handler entry, Keychain and IMAP awaits | `Start`, `Fetch`, `FetchFails` |
| dry run, consent, validation, receipt, gate | `Decline`, `Authorize` (with `SendPasses`, `ReplyPasses`, `ForwardPasses` in the order of the code) |
| `consumeReceiptNonce` | `ReadClock`, `ExpiryInvalid`, `OpenMarker`, `AlreadyUsed`, `WriteMarker`, `SyncDir`, `GuardFails` |
| `cleanupExpiredReplayMarkers` | `Inspect`, `Unlink`, `Consumed` |
| credential, transport, `sendMail` | `GetPassword`, `CreateTransport`, `SessionFails`, `HandOver`, `Answered`, `AnswerLost` |
| `classifySmtpSuccess`, `classifySmtpError` | `ClassifySuccess`, `ClassifyError` |

Abstractions. A receipt is named by its nonce; nonces are 128 random bits, so the per-purpose
namespaces of the markers collapse into one set. A receipt that is malformed, altered or signed
elsewhere is `NoReceipt`. A `version` is whatever a reply or forward can see of its source:
fingerprint, derived headers, attachments. Each marker has two values: what processes see
(`marker`) and what a power failure leaves (`disk`). A file `fsync` makes the bytes durable, a
directory `fsync` makes every entry durable, also other processes' half-written ones; an unlink
that was not synced may be undone. Cleanup inspects *any* set of at most `ScanLimit` markers, which
covers the rotating window of the code; whether that window reaches every marker in the end is not
modelled (section 6).

Assumptions on the environment (`ClockAssumption`): the wall clock is never set back by more than
the cleanup margin (one hour), and the process is never suspended for longer than the margin between
`Date.now()` and `open` in `consumeReceiptNonce`. Outside these the guard gives no guarantee: its
marker may have been cleaned up while an old receipt looks fresh again.

### OutboundPolicy, OutboundMessages

| Code | Definitions |
|---|---|
| `validateSender`, `validateRecipients`, `validateSubject`, `validateBody` | `SenderValid`, `RecipientsValid` (with `Kept`: the positions of To and Cc that name an address first), `SubjectValid`, `BodyValid` |
| `applyPrefixOnce` | `ApplyPrefixOnce` |
| `fetchReplySourceHeaders`, `foldNamedHeaders` | `HeadersNamed`, `FirstHeader`, `UnusableReplyTo`, `UsableReferences` |
| `fetchForwardSourceContent` | `FetchedBytes`, `FetchedText`, `SourceContentComplete` |
| `deriveRecipient`, `deriveThreading`, `buildReferencesChain` | `DeriveRecipient`, `DeriveThreading`, `SourceChain`, `AddOnce`, `DistinctOf`, `Distinct`, `BuildReferencesChain` |
| `validateSendIntent`, `deriveReplyIntent`, `deriveForwardIntent` | `SendAccepts`, `ReplyAccepts` and `ReplySource`, `ForwardAccepts` and `ForwardSource` (the part that depends on the caller, and the part that depends on the source); `SendContent`, `ReplyContent`, `ForwardContent` |
| the three messages | `BuildSendMessage`, `BuildReplyMessage`, `BuildForwardMessage` |

An address is a spelling. `Normalize` (trimmed, or `NoAddress` if malformed) and `AddressKey` (lower
case) are functions of which only their types are assumed; which strings are addresses is not
modelled. A subject or text is its length, whether it holds control characters or lone surrogates,
and its prefix; a subject of blanks is one of length 0. The code sorts recipients before anything
compares them, so lists of recipients are sets. A source has the text of the whole message and the
text found in its first `SourceCap` bytes, and the forward quotes whichever it fetched; the header
block above the quotation is not modelled. The two assumptions about the source are that versions
which differ at all differ in what the receipt's fingerprint covers (`FingerprintAssumption`; folder,
UIDVALIDITY, uid and date stand behind the same fingerprint), and that a size the server does report
is right (`SizeAssumption`): without it, completeness cannot be proved by it.

### Relocation, Trash, Restore

One tool call on its own IMAP connection, every `await` a step, against other clients (other calls
of this server included) that move, delete and relabel messages between any two steps. A message
stands for its uid in the source folder and, once there, for its uid in the destination; uids are
not reused, and UIDVALIDITY does not change during a call. `place` says where a message is
(`returned`: put back into the source folder, where a search by Message-ID finds it but its old uid
does not). Labels are folders: a message has a label if that folder holds a copy with its
Message-ID, which is why two messages with one Message-ID are confused and why a message without one
has none. The uid map of `messageMove` is arbitrary: partial, swapped or wrong ("Proton Bridge has
produced inconsistent multi-message associations").

| Code | Actions |
|---|---|
| consent; folder listing; exceptions | `Start`, `List`/`ListFolders`, `Fails` |
| resolve, write lock, second look | `Resolve` (`ResolveMeasuring`), `Lock`, `Revalidate`, `RevalidateFails` |
| `messageMove`: done, refused, thrown | `MoveSucceeds`, `MoveRejected`, `MoveThrows`, `MoveThrowsPlain` (restore: `MovesWithSideEffects`) |
| `classifyUncertainMove` | `SearchSource` (in `Trash` `SearchSourceHeard`), `SourceSearched`, `SearchDest`, `SearchFails`, `Classified` |
| `reconcileResultingUid` | `VerifyMapped`, `SearchById`, `Reconciled` |
| trash: `resolveLabelMembership`, signing | `SearchLabel`, `LabelsSearched`, `Remeasure`, `Issue`, `Issued` |
| restore: `resolveBaselines` | `SearchLabel`, `ResolveBaselines` |
| restore: comparison | `Compare`, `SearchLabelAgain`, `LabelsCompared`, `CheckFlags`, `FlagsChecked` |
| restore: `repairFlag` | `LookForRepair`, `StoreFlag`, `StoreRejected`, `RepairThrows`, `FlagsRepaired` |
| restore: `applyLabel` for each label | `Relist`, `LabelGone`, `ApplyLabel`, `LookUp`, `LookedUp`, `CheckTargets`, `MoveToLabel`, `MoveToLabelFails`, `Transitioned`, `ApplyLabelThrows` |
| restore: answer, catch-all | `Finish`, `PostMoveCaught`, `PartialSuccess` |

Loops over uids, labels and flags are taken in any order, which includes the code's. The code signs
each receipt before it looks for the next new uid; the model signs them after all lookups, and
nothing that is signed changes in between. What mail_trash measures after the move is output only;
its awaits are kept (`Remeasure`).

**Locks.** The locks of one ImapFlow connection exclude each other, so a call that classifies a
thrown move, which it does while it holds its write lock, waits for itself (`Waiting`, finding 2). No
fairness obliges it to go on, and `CallAnswers` claims nothing of a call that waits for ever. With
`SecondLock = TRUE` the lock *may* be granted all the same, as the double of the repository's tests
grants it; the passing runs allow it, so that the classification itself is reached and checked, and
each behaviour of the real lock is among theirs. With `FALSE` (run `trash_lock`) it never is.

**Refused searches.** ImapFlow's `search()` does not throw when a SEARCH fails (the server refuses
it, say): it answers `false`. The code reads that as no hit: a message that has left the source folder
(`uncertain-move.ts:66-70`), a label a message does not carry (`label-membership.ts:56-57`,
`labels.ts:69-70`), a new uid that is not known. Every search of the models has a parameter `heard`
for this, and the ghosts `refused` and `unheard` (`deaf` in `Labels`) record which answers were wrong
for it, so that the properties can say exactly what such an answer may spoil. In the same way an
answer `false` of `messageMove` is taken as "nothing was moved" (`MoveRejected`): ImapFlow answers it
for any error of the command, and `FailedUnmoved` assumes that the server had then moved nothing.

In restore, `calm` records that no other client has acted since the move, and statements
about the message being intact are limited to calm runs and to messages whose Message-ID is unique
(`Unmistakable`): nobody could promise more. The restore receipt keeps its Message-ID, its labels
and flags, and whether it is genuine (signed by this install, unaltered); it has no expiry.

### MailboxPolicy, Mailboxes, Labels

A path is a space (top level, `Folders/` or `Labels/`) and names in it; where the code
compares names in lower case they are written so. A listing is a sequence, because the first
mailbox of a kind or name counts. `RoleOf` says what the account's system folders really are, which
the code can only infer from SPECIAL-USE or, when the server reports none, from names; the instances
have a listing of each kind. `RoleAssumption` says that a SPECIAL-USE is true and that system folders
are outside `Folders/` and `Labels/`. Of names it says nothing: a custom folder or a label may be
called like a system folder, and where the role is not reported the code then takes it for one.

| Code | Definitions |
|---|---|
| `resolveSpecialFolders` | `Special`, `FirstPath`, `NameFallback`, `NamedFor`, `LeafName` |
| `resolveMoveDestination`, `assertMoveDestinationAllowed`, `assertTrashSourceAllowed` | `MoveDestination`, `MoveAllowed`, `TrashSourceAllowed`, `CustomFolder` |
| `validateCustomMailboxName`, `findNameConflict`, `assertCreateFolderParentAllowed` | `ValidName`, `NameConflict`, `CreateParentAllowed` |
| `createFolder`, `createLabel` | `Start`, `ListToCreate`, `CreateAnswered`, `CreateThrows`, `ListFails` |
| `moveMessages`, `archiveMessages`, `markAsSpam`, trash, restore up to the destination | `Start`, `ListToRoute`, `ListFails` |
| `resolveMessages`, `setReadState`'s first look, `deletePermanently` up to its gate | `ListInPlace`, `Resolve` |
| `findInLabelMailbox`, before the lock and again | `Look`, `FoundIn`, `Looked` |
| write lock, second look under it | `Lock`, `Revalidate`, `RevalidateThrows` |
| `messageMove` into or out of the label, flags added or removed | `ChangeSucceeds`, `ChangeRejected`, `ChangeThrows` |
| `reconcileResultingUid` after the lock; exceptions | `Reconcile`, `Reconciled`, `Fails` |

In `Labels` a message stands for its uid in the folder of the call, and has a `labelUid` in the
label mailbox, a new one each time it is labelled. Moving it out of the label mailbox into the
folder gives it a new uid there too (`renewed`): a call cannot reach it again by the old one. `aim`
is the label uid a removal found; `shown` records what each message showed since the last look
began, which is all an answer can vouch for, and `deaf` the messages whose label that look missed,
because its search was refused. A label is not deleted and created again within one
call, so UIDVALIDITY, which the code does not compare, does not change. `mail_remove_label` can only
name a message up to its Message-ID; `OnlyNamed` says so (section 5).

### Unsubscribe

One call, its two fetches, the name lookup and every event of its HTTPS request each a step, while
the message behind the uid changes or vanishes, the resolver answers with any list of addresses, and
the host takes the POST or not, answers or not, and stops anywhere. A *view* is what a fetch sees of
a message: Message-ID, domain of From, the URIs of List-Unsubscribe, whether List-Unsubscribe-Post is
the one-click token, and the tokens of Authentication-Results. A URL stands for its host too.
`SafeUrls` and `Public` stand for the structural checks and address ranges of `url-safety.ts`.
The timeout is one of an idle socket: whatever arrives starts it anew. Interim 1xx answers, with
which a host could do so without end, are not modelled; the chunks of a body are, and are bounded.

| Code | Actions |
|---|---|
| handler entry and consent; IMAP failures | `Start`, `Throws` |
| `previewUnsubscribe` | `Preview` |
| `unsubscribe` up to the decision; second look | `Fetch`; `Refetch` (with `Eligible`, `HeadersIdentical`) |
| `resolveAndValidateHost` | `Resolve`, `ResolveFails` |
| `postOneClickUnsubscribe` | `Connect`, `ResponseHead`, `ResponseData`, `ResponseEnd`, `ResponseError`, `NetworkError`, `Timeout` |

`settle` takes the first event and ignores the rest, so that event moves the call to `done` and
later ones are no steps. The POST counts as taken when the host has it (`HostTakes`), which may be
after the call has given up: bytes already sent are not recalled. `headersIdentical` does not compare
the domain of From, on which the verdict may rest; the code computes the decision again from the
second look, and `PostJustified` shows that this is enough.

## 3. Runs

Run any of them with `tlc -config <cfg> <module>`. Each passing run explores the full state space
of its instance. `CHECK_DEADLOCK FALSE` is set throughout: a server with no call may stop, and
`mail_trash`, `mail_restore_from_trash` and `mail_unsubscribe` are modelled for one call, which ends.

| Run | Configuration | Question | States |
|---|---|---|---|
| `guard` | `MCOutboundGuard.cfg` | two processes, two receipts, clock both ways, crashes, power loss, cleanup: is a receipt spent at most once, and does it stay spent? Does all this implement the one-shot outbox? | 351,794 |
| `pipeline` | `MCMessages.cfg` | send, reply and forward, every kind of request, a source that drifts between five kinds of message: is only what was previewed sent, to the right addresses, in the right thread, whole, and is the answer honest? | 209,952 |
| `live` | `MCOutboundLive.cfg` | two calls of one process under fairness: does every consumption and attempt end? Does a closed gate spend nothing? | 17,876 |
| `trash` | `MCTrash.cfg` | one message with a label and a flag, or two with equal, different or missing Message-IDs; other clients, thrown moves, wrong uid maps: does the report agree with the mailbox, is the receipt what the message showed before Trash, does every call answer, but one that waits for its own lock? | 595,568 |
| `restore` | `MCRestore.cfg` | one message with every kind of receipt, or two with wrong uid maps; labels and flags lost, label folders deleted, failures at every command: are `statePreserved` and a clean answer true, does a repair reach the wrong message, is a move ever swallowed, does every call answer, but one that waits for its own lock? | 702,111 |
| `labels` | `MCLabels.cfg` | creations and destinations over four listings; labels and read state of two messages against other clients: does nothing go where it may not, is "created" true, are the right messages changed, is each uid answered truly, does every call answer? | 308,828 |
| `unsubscribe` | `MCUnsubscribe.cfg` | one call, fourteen kinds of message that may replace each other, mixed addresses, a host that does anything: is there at most one POST, and a justified one, an honest answer, an end? | 7,024 |
| `lost`, `trash_lock`, `trash_thrown`, `restore_clean`, `labels_recheck` | `MCOutboundLost`, `MCTrashLock`, `MCTrashThrown`, `MCRestoreClean`, `MCLabelsRecheck` | statements of the documentation the code does not keep: see *Findings* | violations |

What the properties say:

- `AtMostOnce`, `SpentSurvives`, `SpentStaysSpent` (guard): one message per receipt reaches the
  SMTP server; a call past the guard has a marker that a power failure cannot take away while the
  receipt could be presented again; no step removes a durable marker too early.
- `ImplementsOneShot`: `Outbound` refines `OneShotOutbox` (`bound` is what each receipt was signed
  for, `outbox` is what the SMTP server was handed).
- `OutcomeHonest`: an answer never calls an accepted message a clean failure, and never says
  "accepted" of another one. In `pipeline` it holds with `LossCommands = {DATA}`: there a connection
  lost in flight gives an error that names the command in flight. With others it does not (finding 1).
- `AddressedAsAsked`: a send or forward in flight goes to exactly the addresses its live call named,
  each once, in whatever spelling and field, although its receipt was signed for other arguments.
- `RepliesWhereAsked`: a reply goes to the one address of Reply-To, or to From if there is no such
  header; an unusable Reply-To never falls back to From.
- `ThreadContinues`: In-Reply-To names the source; References repeat nothing, stay within the bound,
  keep the source's order and let go of the oldest first.
- `ForwardedWhole`: what a forward quotes is the whole text of its source.
- `GatedNeverSpends`: a closed live gate leaves the receipt unspent.
- `AttemptResolves` (liveness): a consumption ends; an attempt is answered or dies with its process.
- `ChangedLeftSource`, `FailedUnmoved`, `Accounted` (trash): what is reported changed has left the
  folder, unless the move threw, the search for it there was refused and a namesake was found in the
  destination; what is reported failed was not moved; every uid is reported.
- `LocatedIsSame`: a new uid is never that of a message with another Message-ID.
- `ReceiptPreTrash`: a receipt lies between what the message always and what it ever showed while
  it was in the source folder; only a label whose search was refused may be left out.
- `PreservedIntact`, `CleanIsIntact` (restore): `statePreserved` and an answer without
  `partialSuccess` are true of the mailbox.
- `RepairKnown`: every mark stored or removed is justified by a genuine receipt of that Message-ID,
  by what Trash showed when there was no receipt, or by an extra label.
- `MoveNeverSwallowed`: a restore that throws has moved nothing.
- `CreatedHere`, `Confined`, `NamesakesAreNewer` (creation): "created" is answered exactly when the
  server made the mailbox for this call; only custom folders and labels are ever made; a custom
  mailbox of the same name came after the call's listing.
  A CREATE that throws is answered by an exception even if the mailbox was made; `CreatedHere` is
  about answers.
- `TargetByRole` (destinations): Archive, Spam and Trash are the true ones wherever the server reports
  the role, whatever custom mailboxes are called. Where it does not, a mailbox of the role's
  conventional name may be taken for it, custom folders and labels included (`ByNameOnly`), and nothing
  else may. `mail_move` and restore never reach a container, and reach a label or a blocked folder only
  under such a name of another role.
- `OnlyNamed`, `ChangedHolds` (in place): only the messages named are touched; what is reported changed
  was changed.
- `Accounted` (in place): every uid is matched or missing, not both, and a live call says of each one
  matched exactly one of skipped, changed, error. A missing uid is an error as well only where an
  exception under the write lock is blamed on every uid the call had chosen (`labels.ts:175`, `297`).
- `ReportedAsSeen` (in place): a message skipped had what was asked for since the last look began, and
  one changed lacked it, unless the search of that look was refused.
- `PostJustified` (unsubscribe): at most one POST, only with both confirmations, to the safe URL
  that both looks agree on, at a public address. `AnswerHonest`: "not sent" means that no host has
  or will get it, and a reported status is the host's. `CallEnds` (liveness): a silent host cannot
  hold a call.
- `CallAnswers` (liveness): every call ends, by an answer or an exception; in `trash` and `restore`,
  unless it waits from some point on for the lock it holds itself (`[]Waiting`, finding 2).

### Bounds, and why they are enough

- `guard`: two processes with one call each and two receipts. Two is what a race on one marker needs;
  the second receipt is what one call's cleanup needs while another holds the first. `TTL`, `Margin`,
  `Skew`, `Pause` are 1 and `MaxTime` is 2, at which a receipt is retired (`TTL + Margin`), cleaned
  up, and the clock can step back to where it looks fresh. `ScanLimit` 1 leaves entries uninspected.
  Receipts are interchangeable, and so are the two processes together with their calls (`Alike`); no
  liveness is checked under this symmetry. Previews and live requests only (`LiveInput`); the other
  requests are in `pipeline`.
- `pipeline`: one call slot, reused any number of times, and one receipt. Of the seven payloads,
  three name the same addresses in other spellings, orders and fields, one exceeds the cap (3, with
  four addresses), one is malformed and one has another sender. Of the five sources, one has a
  Message-ID that is not well formed; one a chain with such an id; one a chain that repeats an id
  and overflows, and a subject that leaves no room for `Fwd: `; one a Reply-To over its bound, two
  such headers, and an unreported size over the fetch bound; one names itself as the oldest of an
  overfull chain. Bounds on headers, text and chain are 1 or 2, so that each is exceeded. No time
  (`MaxTime` 1, no skew).
- `trash`: one message with a label and a flag that change freely; two messages, which two equal
  Message-IDs and a swapped uid map need, where one has a label, which changes if the two Message-IDs
  are equal. Calls are for the whole
  batch, in every combination of tool, dry run, consent and secret that the handler tells apart.
- `restore`: one message, since repairs treat messages alike, and `MaxOthers` 2 steps of other
  clients; or two messages with one label and one step of another client.
- `labels`: every tool with the inputs its checks tell apart; one creation against two steps of other
  clients; every tool in place on one and on two messages, two steps of other clients. The
  listings are one with SPECIAL-USE, a localized Trash and custom mailboxes named like system
  folders, one with names only, one with names only where custom mailboxes with these names come
  first, and one without Trash or labels.
- `unsubscribe`: the views differ from an eligible one in identity, target, verdict or token one at a
  time, which is what a second look has to notice; a body of two chunks is too large.
- `MaxTime`, `ScanLimit` and `MaxOthers` are the only bounds in guards of actions, and the proofs
  hold for every value of them. The batch limit of 25 is not modelled.

### Fairness

`Outbound!LiveSpec` asks weak fairness of the synchronous steps of each call (JavaScript runs a
stretch to its end) and strong fairness of its submission steps: the event loop serves every call,
and the connection, greeting and socket timeouts of `smtp/transport.ts` bound every wait; strong,
because another call's synchronous stretch disables the step for a while, again and again. Nothing
is assumed of the Keychain reads (`bridge/config.ts` runs them without a timeout), so no liveness is
claimed of `fetching` and `credential`. `Trash!LiveSpec`, `Restore!LiveSpec` and `Labels!LiveSpec`
start where the connection stands and the secret has been read, and ask that the call moves on from
there: every IMAP command is answered, or fails when ImapFlow closes a connection that has been
silent too long (the library's default, which `bridge/client.ts` leaves as it is). Excepted is the
wait for a lock the call itself holds (`Waiting`), which nobody else would release: fairness is asked
of `~Waiting /\ Handler` only. The instances add their
scenarios to the initial states and keep the same fairness (`LiveScenarios`). `Unsubscribe!LiveSpec`
asks that fetches and lookups are answered or fail, and that a connection that stays silent times
out (`REQUEST_TIMEOUT_MS`); a body that trickles is bounded by its size. Nothing is asked of the
host.

## 4. Proofs

`OutboundProofs` proves, for any number of processes, calls and receipts, any kinds, payloads and
versions, any `TTL`, `Margin`, `MaxTime` and `ScanLimit`, from `OutboundAssumption`,
`ClockAssumption`, `InputAssumption` and `NoReceiptAssumption`:

| Theorem | Statement |
|---|---|
| `TypeCorrect` | `Spec => []TypeOK` |
| `AtMostOnceHolds` | `Spec => []AtMostOnce` |
| `SpentSurvivesHolds` | `Spec => []SpentSurvives` |
| `SpentStaysSpentHolds` | `Spec => SpentStaysSpent` |
| `GatedNeverSpendsHolds` | `Spec => []GatedNeverSpends` |
| `OutcomeHonestHolds` | `Spec => [](OutcomeHonest \/ \E c \in Calls : CalledFailed(c)) /\ [][OnlyMisread]_vars`, for all commands the errors of lost connections may name |
| `ImplementsOneShotHolds` | `Spec => ImplementsOneShot` |

`AtMostOnce` is not inductive: it says nothing of the calls on their way. The inductive invariant
`Inv` (in `Outbound`) adds why no second call gets there:

- `MarkerInv`: a receipt without a marker is retired (older than expiry plus margin) or untouched:
  nobody holds it and nothing was sent with it. So exclusive creation succeeds only for those.
- `OpenInv`, with `ClockInv`: a call about to create its marker has just seen the receipt fresh, and
  the clock has never been ahead of that by more than the margin, so its receipt is not retired.
  This is where `ClockAssumption` is needed, and why cleanup keeps the margin.
- Hence at the instant of creation the receipt is untouched, which gives `HolderInv` (one holder per
  receipt) and `UnsentInv` (what is held is not yet sent), and these give `AtMostOnce`.
- `DiskInv` is `MarkerInv` for the marker a power failure leaves, from the directory sync on;
  `VictimInv` says cleanup unlinks only retired markers; `KeyInv` and `WireInv` carry what was
  authorized to what was sent, for the refinement; `IssuedInv` and `NowInv` are plumbing.

`InvStep` has one lemma per action that touches the guard or the wire, and `QuietStep` for the rest.
`GateInv` strengthens the property about gates. `OutcomeHonest` itself fails (finding 1), so the
theorem says what is true with any `LossCommands`: the only misleading answer is "failed, not
attempted" of a message the server took (`CalledFailed`), and a call comes to it only by a step that
loses the connection with no command, `CONN` or `AUTH` in the error (`LossMisread`). `HonestInv`
carries that: until its answer is awaited a call has not reached the server. The refinement
maps `Preview` steps to `Bind`, `HandOver` to `Submit`, and everything else to a stutter.

`OutboundMessagesProofs` proves, on top of those, for any addresses, spellings, arguments, source
messages and bounds, from `PolicyAssumption`, `ContentAssumption`, `FingerprintAssumption` and
`SizeAssumption`:

| Theorem | Statement |
|---|---|
| `AddressedAsAskedHolds` | `Spec => []AddressedAsAsked` |
| `RepliesWhereAskedHolds` | `Spec => []RepliesWhereAsked` |
| `ForwardedWholeHolds` | `Spec => []ForwardedWhole` |
| `ThreadContinuesHolds` | `Spec => []ThreadContinues` |
| `PrefixOnce` | a prefix put before a subject twice is the same as once |

Two invariants are added to `Inv`. `SourceInv`: a receipt was signed for a source its kind accepts.
`PassedInv`: a call that spends its receipt has arguments its kind accepts. What is on the wire is
what its receipt was issued for (`WireInv`), hence made from an accepted source; that is all replies
and quotations need (`WireSource`, `ReplyTarget`). For addresses, the call in flight has the content
its receipt was issued for (`KeyInv`), and its own arguments passed, so what is left is a fact about
`Kept`: of all positions that name an address the first is kept, and only that (`KeptOnce`, by the
well-foundedness of `<` on the naturals), so that the kept ones name exactly the addresses
asked for (`RecipientsExact`).

For the thread, chains have any length and `DistinctOf` is a recursive function over them. What such
a function computes is induction over data; it is avoided by looking at the least index at which the
claim fails (`Least`), which exists because `<` is well-founded, and needs no induction rule.
`DistinctStep` shows in this way that there is a function with the equations of `DistinctOf`, and
`DistinctInOrder` that after each prefix of a chain the ids kept are those of the prefix, in the
order of their first places. `Chained` adds the id of the source at the end, and `Continued` follows
what is cut off and what is left. This is also why `Distinct` is the last value of a function over
all prefixes, rather than a fold of the community modules.

`UnsubscribeProofs` proves, for any messages, URLs, addresses, resolver answers and `MaxChunks`, from
`UnsubscribeAssumption`:

| Theorem | Statement |
|---|---|
| `TypeCorrect` | `Spec => []TypeOK` |
| `PostJustifiedHolds` | `Spec => []PostJustified` |
| `AnswerHonestHolds` | `Spec => []AnswerHonest` |

Its `Inv` says what each stage has behind it: `LookInv` (from the second look on, or once there is a
connection, the call is consented and both looks agree), `TraceInv` (no connection, no trace; the
POST taken is the one both looks name), `ReplyInv` and `BodyInv` (the body being read is within the
limit, without which the type of `received` is not inductive).

### Trash

`TrashProofs` proves, for any messages, Message-IDs, labels, flags and requests, any map of new uids
the server answers with and any number of steps of other clients, from `RelocationAssumption`,
`InputAssumption` and `TrashAssumption`:

| Theorem | Statement |
|---|---|
| `TypeCorrect` | `Spec => []TypeOK` |
| `ChangedLeftSourceHolds` | `Spec => []ChangedLeftSource` |
| `FailedUnmovedHolds` | `Spec => []FailedUnmoved` |
| `AccountedHolds` | `Spec => []Accounted` |
| `LocatedIsSameHolds` | `Spec => []LocatedIsSame` |
| `ReceiptPreTrashHolds` | `Spec => []ReceiptPreTrash` |

None of the properties is inductive, since each is about what is reported when a loop has ended. The
invariant says what holds in the middle of every loop. `RelocationProofs` has the part that trash
and restore share, `RelocationInv`, with a lemma for each action (`SearchSourceKeeps`,
`ClassifiedKeeps`, ...), so that it is proved once for both:

- `EarlyInv`: before the move nothing has happened and nothing is reported;
- `SplitInv`: what is matched is what is reported and what the loop still has to look at, which gives
  `Accounted` and `WithinInv` (only what was matched is reported);
- `LeftInv`: what was moved has left the source folder, and so has what is reported as changed,
  unless the one message the destination showed is a namesake: the classification is sound because no
  other client puts a message back under its old uid;
- `BackInv`: a moved message that the source search saw is one that was put back, or has a
  namesake there. These are the two exceptions of `FailedUnmoved`, and the proof shows that there
  are no others;
- `LocatedInv`: a new uid was accepted only after its Message-ID was compared; `ToolInv` says which
  stages belong to which tool.

`Trash` adds four parts. `RefusedInv`: what the source search looked for and did not find, and what is
reported as changed, has left the source folder, unless that search was refused; with `LeftInv` this
is `ChangedLeftSource`. `ShownInv`: `steady` and `ever` bound what a message shows while it is in
the source folder, also when a namesake carries the label. `MeasuredInv`: what the call has measured
lies between the two, but for labels it has not searched yet and those whose search was refused, and
after the move it stays as it was when the message left. `ReceiptInv` says the same of receipts signed.

### Restore

`RestoreProofs` proves, for any messages, labels, flags, receipts and requests, any side effects of
the move and any `MaxOthers`, from `RelocationAssumption`, `InputAssumption` and
`RestoreAssumption`:

| Theorem | Statement |
|---|---|
| `TypeCorrect` | `Spec => []TypeOK` |
| `PreservedIntactHolds` | `Spec => []PreservedIntact` |
| `CleanIsIntactHolds` | `Spec => []CleanIsIntact` |
| `RepairKnownHolds` | `Spec => []RepairKnown` |
| `MoveNeverSwallowedHolds` | `Spec => []MoveNeverSwallowed` |

`PreservedIntact` speaks of the end of a call that has compared, repaired flags one by one, then
labels one by one, any of which may fail. `RepairInv` carries it through, on top of `RelocationInv`:

- `BaselineInv`: a genuine receipt is the baseline, whatever the mailbox shows;
- `VerifiedInv`, `SeenInv`: what was verified has a new uid and stays where it is, and what was seen
  of it stays true, while the mailbox is calm;
- `FlagsInv`, `LabelsInv`: a flag or label that is not as in the baseline has failed or is still among
  the jobs. This is the heart: with `JobInv` (at the end no job is left) it says that nothing is
  forgotten, and `PreservedInv` that nothing that failed is reported as preserved;
- `TargetInv`, `ReachInv`: a job reaches only messages that need it, and all of them but those that
  have failed or already have the label. `LabelsInv` is not preserved by the end of a job without it;
- `RefreshInv`: what could not be verified makes the answer ask for a refresh, so that `CleanIsIntact`
  need not speak of it.

The repairs of a message may also mark a namesake; that is why these parts are about `Unmistakable`
messages, while `RepairKnown`, which is about every message, is a conjunct of its own.

### Mailboxes and Labels

`LabelsProofs` proves, for any messages, listings, names, requests and any `MaxOthers`, from
`PolicyAssumption`, `MailboxAssumption`, `RoleAssumption` and `LabelAssumption`:

| Theorem | Statement |
|---|---|
| `TypeCorrect` | `Spec => []TypeOK` |
| `CreatedHereHolds` | `Spec => []CreatedHere` |
| `ConfinedHolds` | `Spec => []Confined` |
| `TargetByRoleHolds` | `Spec => []TargetByRole` |
| `NamesakesAreNewerHolds` | `Spec => []NamesakesAreNewer` |
| `OnlyNamedHolds` | `Spec => []OnlyNamed` |
| `ChangedIsTrue` | `Spec => []ChangedHolds` |
| `AccountedHolds` | `Spec => []Accounted` |
| `ReportedAsSeenHolds` | `Spec => []ReportedAsSeen` |

`MailboxInv` (in `MailboxesProofs`) keeps what was decided by the listing until the server answers
(`Decided`, `CreationInv`), whatever the mailbox has become by then; `Confined` and
`NamesakesAreNewer` follow from it and from what `ValidName` and `NameConflict` return. `TargetByRole`
rests on `SpecialIsTrue`: a special folder is one that is listed with its SPECIAL-USE, which
`RoleAssumption` makes the right one, or, only if none is, one of its name; and, for the destinations a
caller names, on system folders being outside `Folders/` and `Labels/` (`RouteIsTrue`).

`LabelInv` is about the tools that change messages in place: `SplitInv` (what was given is missing,
skipped or chosen, and nothing twice), `ReportInv` (only what was chosen is reported), `AimInv` (a
label uid that was found is still that of a message with the same Message-ID, or of none: label uids
are never given again), `VanishedInv` (what left the folder before the lock is not changed), and
`ShownInv`: whatever the call would see of a message now is among what it may have seen, and what it
saw is too, unless the search was refused (`deaf`).

What proving changed: an assumption on requests was missing that the handlers' schemas guarantee
(a creation has a name), the cases of `CreatedPath` overlapped, and `TargetByRole` needs the
SPECIAL-USEs of the listing to be true (`RoleAssumption`), which had not been said. The new assumptions are
evaluated by TLC on every run of their module.

### What is only model-checked

Liveness: `AttemptResolves`, `CallAnswers` and `CallEnds`, and with them the fairness they rest on.
Every safety invariant and action property of the passing runs, and the refinement, is a theorem
(`OutcomeHonest` up to the exception that run `lost` exhibits). The five statements of *Findings* are refuted by TLC and have no theorem.

## 5. Findings

1. **A lost connection may be reported as a clean failure** (`smtp/outcome.ts:166`, run `lost`). An
   error without response code and with no `command`, or `CONN`, is `failed` with
   `submissionAttempted: false`, also after the server has the message; the module says a failure
   without a definitive answer is `uncertain` (`outcome.ts:14-17`) and that any error field may be
   missing (`outcome.ts:42`).
2. **The classification of a thrown move waits for its own lock** (`mutations/trash.ts:258`,
   `restore.ts:628`, run `trash_lock`). It runs inside the `try` whose `finally` releases the write
   lock, and asks for another lock on the same connection; the comment at `move.ts:109-111` explains
   why that cannot be.
3. **A report lost after a successful move** (`mutations/trash.ts:308`, run `trash_thrown`). What
   fails after the move leaves the handler by exception; `README.md:383` promises otherwise, and
   `mail_restore_from_trash` does catch it.
4. **A clean answer with a rejected receipt** (`mutations/restore.ts:226`, run `restore_clean`).
   Receipt rejections do not make `partialSuccess` true, although nothing of the receipt was
   restored (`restore.ts:183-187`).
5. **A removal touches a message that has left the folder** (`mutations/labels.ts:269`, run
   `labels_recheck`). The second look of `mail_remove_label` is at the label mailbox only; a message
   another client has moved out of the folder since keeps its label uid, so its label is taken away
   and it is put back into the folder. `README.md:378-382` promises the second look for the source
   folder too, and that such a message is "simply never touched".

Observed while modelling, and kept in the models without a run of its own:

- when a destination search throws after an earlier one answered, messages already called moved are
  reported uncertain too (`mutations/uncertain-move.ts:112`; `Accounted` permits both);
- after a timeout `mail_unsubscribe` answers `failed` with `requestSent: true`, whether or not the
  host acts on it (`http-client.ts:139`);
- `mail_remove_label` may take the label from another message with the same Message-ID, although
  only explicit uids are said to be affected (`tools/remove-label.ts:28-29`; `OnlyNamed` holds up to
  the Message-ID);
- when the second look or the change throws, uids the second look had reported missing are reported
  as errors as well (`mutations/labels.ts:175`, `297`); `Accounted` says that only this case is so;
- where the server reports no SPECIAL-USE for a role, a custom folder or a label with the role's name
  may be taken for the system folder, and `mail_move` may so reach a label (`mutations/policy.ts:59-63`;
  run `labels` has such listings, and `TargetByRole` says exactly when);
- a SEARCH that fails is read as no hit. A message whose thrown move did nothing may so be reported as
  moved, if a namesake is in the destination (`uncertain-move.ts:66-70`, `ChangedLeftSource`); a
  restore receipt may lack a label the message had (`label-membership.ts:56-57`, `ReceiptPreTrash`);
  `mail_remove_label` may skip a message that has the label, and `mail_apply_label` report as changed
  one that had it already (`labels.ts:69-70`, `ReportedAsSeen`);
- an answer `false` of `messageMove` is reported as not moved, though ImapFlow gives it for any error
  of the command (`MoveRejected`; `FailedUnmoved` assumes that nothing was moved then);
- the source id is not always last in a References chain, as the comment at `reply-intent.ts:51-52`
  has it: a chain that already names it keeps it where it is, and may drop it when over the bound.

## 6. Plan and what is not modelled

The safety properties of every module are proved; what is left is what the modules do not say yet:

- lemmas that would make the invariants shorter: the Message-ID searches of `Relocation` and of
  `Labels` are the same idea and have two sets of facts;
- a refinement for the relocating tools: trash and restore as one step that moves each message
  matched or leaves it;
- the schemas and batch limits, as a module in front of the handlers.

Not modelled:

- the rotating offset of `cleanupExpiredReplayMarkers`: any window is inspected, which covers safety.
  Whether every expired marker is removed in the end depends on entries other processes add and
  remove between scans, and the code promises no more than "best-effort";
- `expungeExactUids` behind the gate of the permanent delete, which nothing calls;
- the batch limits (25 uids, 5 for the permanent delete), which a request either passes or not;
- the URL and address rules of `unsubscribe/url-safety.ts` and header folding in `headers.ts` beyond
  given sets; the loopback rule of `smtp/host-safety.ts`; the schemas of `config.ts`;
- Keychain and configuration reads, other than that they may fail, or never end;
- mail reads, triage analysis, doctor and system status, which change nothing; the server's
  registration code, which is wiring; MIME parsing, formatting, HMAC and canonical JSON, which are
  data the properties do not tell apart (two different intents have different canonical forms,
  which is assumed).
