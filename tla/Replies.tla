------------------------------- MODULE Replies -------------------------------
(***************************************************************************)
(* Who an answer goes to: the headers that internal/imap hands over, the   *)
(* recipients the reply forms propose (internal/http/smtp_reply.go) and    *)
(* those that internal/smtp reads back from what the form posts.           *)
(*                                                                         *)
(* An address is [key, as, name]: the address in lower case, the way it is *)
(* written, and a display name.  A header is a sequence of them, <<>> when *)
(* it is empty, or Garbled when net/mail does not parse its text.          *)
(***************************************************************************)
EXTENDS Naturals, SequencesExt

CONSTANTS
    Garbled,
    Mailboxes,      \* addresses in lower case
    Spellings       \* ways to write them

NoName == "none"
Special == "special"    \* a display name that has to be quoted, as in "Doe, Jane"

Addresses == [key : Mailboxes, as : Spellings, name : {NoName, "plain", Special}]
Lists == Seq(Addresses) \cup {Garbled}
Headers == [replyTo : Seq(Addresses), from : Seq(Addresses),
            to : Seq(Addresses), cc : Seq(Addresses)]

RepliesAssumption == Garbled \notin Seq(Addresses)
ASSUME RepliesAssumption

\* Display names are written without quotes: one with a comma spoils the list.
formatAddresses(list) ==
    IF \E i \in DOMAIN list : list[i].name = Special THEN Garbled ELSE list

\* mail.ParseAddressList succeeds; it refuses an empty list.
Parses(value) == value # Garbled /\ value # <<>>

Bare(address) == [address EXCEPT !.name = NoName]

replyAddress(value) == IF Parses(value) THEN <<Bare(value[1])>> ELSE value

\* GetMessage keeps the first address of Reply-To only.
ReplyTo(original) ==
    IF original.replyTo = <<>> THEN <<>> ELSE formatAddresses(<<original.replyTo[1]>>)

replyRecipient(original) ==
    replyAddress(IF ReplyTo(original) # <<>> THEN ReplyTo(original)
                 ELSE formatAddresses(original.from))

Keys(list) == {list[i].key : i \in DOMAIN list}

addExcludedAddress(excluded, value) ==
    excluded \cup (IF Parses(value) THEN Keys(value) ELSE {})

appendReplyAllAddresses(acc, value) ==
    LET Append1(a, address) ==
            IF address.key \in a.excluded THEN a
            ELSE [out |-> Append(a.out, Bare(address)),
                  excluded |-> a.excluded \cup {address.key}]
    IN  IF Parses(value) THEN FoldLeft(Append1, acc, value) ELSE acc

\* A mutant: the account's own address is not excluded.
replyAllRecipientsAndSelf(original, self) ==
    LET to == replyRecipient(original)
        none == [out |-> <<>>, excluded |-> addExcludedAddress({}, to)]
        cc == appendReplyAllAddresses(
                appendReplyAllAddresses(none, formatAddresses(original.to)),
                formatAddresses(original.cc))
    IN  [to |-> to, cc |-> cc.out]

replyAllRecipients(original, self) ==
    LET to == replyRecipient(original)
        none == [out |-> <<>>,
                 excluded |-> addExcludedAddress(addExcludedAddress({}, <<self>>), to)]
        cc == appendReplyAllAddresses(
                appendReplyAllAddresses(none, formatAddresses(original.to)),
                formatAddresses(original.cc))
    IN  [to |-> to, cc |-> cc.out]

\* What handleNewReply and handleNewForwardMessage put in To and Cc.
Proposed(mode, original, self) ==
    CASE mode = "reply" -> [to |-> replyRecipient(original), cc |-> <<>>]
      [] mode = "reply-all" -> replyAllRecipients(original, self)
      [] mode = "forward" -> [to |-> <<>>, cc |-> <<>>]

\* validateMessage of internal/smtp: To is there and both lists parse.
validateMessage(message) ==
    Parses(message.to) /\ (message.cc # <<>> => Parses(message.cc))

messageRecipients(message) == message.to \o message.cc
=============================================================================
