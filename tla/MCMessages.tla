----------------------------- MODULE MCMessages -----------------------------
(* Instance of OutboundMessages for TLC: one process, one call, one receipt. *)
EXTENDS OutboundMessages

CONSTANTS p1, c1, i1

One == c1 :> p1

\* "Ann" is written in three ways, one with a space that is trimmed.
WrittenAs == [ann |-> "ann", Ann |-> "Ann", padded |-> "ann", bob |-> "bob", cat |-> "cat",
              me |-> "me", broken |-> NoAddress]
LowerCase == [ann |-> "ann", Ann |-> "ann", bob |-> "bob", cat |-> "cat", me |-> "me"]

Subject(length) == [length |-> length, control |-> FALSE, prefix |-> "none"]
Text(length) == [length |-> length, paired |-> TRUE]
Asks(to, cc, text) ==
  [from |-> NoAddress, to |-> to, cc |-> cc, subject |-> Subject(1), text |-> text]

Hello == Asks(<<"ann">>, << >>, Text(1))
\* "two" and "reordered" name the same addresses, in another order, spelling and
\* field; "moved" has one of them in Cc.
ArgumentsOf ==
  [hello |-> Hello,
   two |-> Asks(<<"ann", "bob">>, <<"Ann">>, Text(1)),
   reordered |-> Asks(<<"bob", "padded", "bob">>, << >>, Text(1)),
   moved |-> Asks(<<"ann">>, <<"bob">>, Text(1)),
   many |-> Asks(<<"ann", "bob">>, <<"cat", "me">>, Text(1)),
   broken |-> [Hello EXCEPT !.to = <<"ann", "broken">>,
                            !.text = [length |-> 1, paired |-> FALSE]],
   foreign |-> [Hello EXCEPT !.from = "ann"]]

Header(field, bytes, ids) == [field |-> field, bytes |-> bytes, control |-> FALSE, ids |-> ids]
\* Its Message-ID is not well formed, so that there is no thread to continue.
Plain == [from |-> "ann", replyTo |-> <<"ann">>, messageId |-> "odd", subject |-> Subject(1),
          headers |-> <<Header("references", 1, <<"m1">>)>>, size |-> 1, bytes |-> 1,
          text |-> 1, part |-> 1, attachments |-> TRUE]
\* One id of its chain is not well formed.
Unparsed == [Plain EXCEPT !.messageId = "m1",
               !.headers = <<Header("references", 1, <<"m2", "odd">>)>>]
\* A chain that repeats an id and overflows by the source; no room for "Fwd: ".
Threadful == [Plain EXCEPT !.messageId = "m4", !.subject = Subject(2),
                !.headers = <<Header("references", 1, <<"m1", "m2", "m1", "m3">>)>>]
\* Reply-To is over its bound although the server parsed one address from it; of
\* two, the first counts.  The source is over the fetch bound, its size unreported.
Spoiled == [Plain EXCEPT !.messageId = "m2", !.replyTo = <<"bob">>, !.bytes = 2, !.text = 2,
              !.size = NoSize,
              !.headers = <<Header("reply-to", 2, << >>), Header("reply-to", 1, << >>)>>]
\* Its own id is the oldest of an overfull chain; Reply-To is not From.
SelfNaming == [Plain EXCEPT !.messageId = "m3", !.replyTo = <<"bob">>, !.text = 2,
                !.attachments = FALSE,
                !.headers = <<Header("reply-to", 1, << >>),
                              Header("references", 1, <<"m3", "m1", "m2">>)>>]
MessageOf == [plain |-> Plain, unparsed |-> Unparsed, threadful |-> Threadful,
              spoiled |-> Spoiled, selfNaming |-> SelfNaming]

Live(kind, p, ack) == [kind |-> kind, payload |-> p, receipt |-> i1,
                       dryRun |-> FALSE, consent |-> TRUE, ack |-> ack]
\* Every payload sent live, and each way a request can fall short of that.
Presented ==
  {Live("send", p, FALSE) : p \in Payloads}
    \cup {Live("reply", "hello", FALSE), Live("forward", "two", TRUE),
          Live("forward", "two", FALSE),
          [Live("send", "hello", FALSE) EXCEPT !.consent = FALSE],
          [Live("reply", "hello", FALSE) EXCEPT !.dryRun = TRUE],
          [Live("forward", "hello", FALSE) EXCEPT !.receipt = NoReceipt]}
=============================================================================
