---------------------------- MODULE MCMailClients ----------------------------
(* Instances of MailClients for TLC.                                       *)
EXTENDS MailClientsRefinement, TLC

CONSTANTS m1, m2

Address(key, as, name) == [key |-> key, as |-> as, name |-> name]
Plain(key) == Address(key, "lower", NoName)

MCMailboxes == {"self", "ann", "bob", "eve", "list"}

MCSelf == Plain("self")

Header(replyTo, from, to, cc) == [replyTo |-> replyTo, from |-> from, to |-> to, cc |-> cc]

\* Somebody on To and Cc in another case, with the account itself.
Crowd == Header(<<>>, <<Plain("ann")>>,
                <<Address("self", "upper", NoName), Plain("bob")>>,
                <<Address("bob", "upper", NoName), Plain("ann")>>)

\* A mailing list's Reply-To, and a display name that has to be quoted on To.
MailingList == Header(<<Plain("list"), Plain("ann")>>, <<Plain("ann")>>,
                      <<Address("bob", "lower", Special)>>, <<Plain("eve")>>)

Connection(security, allow, local) == [security |-> security, allow |-> allow, local |-> local]

\* A plain connection that is local, allowed or neither; STARTTLS and TLS from the start.
MCScenarios ==
    {[imap |-> Connection("imap", FALSE, TRUE), smtp |-> Connection("plain", TRUE, FALSE),
      header |-> (m1 :> Crowd @@ m2 :> MailingList)],
     [imap |-> Connection("imaps", FALSE, FALSE), smtp |-> Connection("plain", FALSE, FALSE),
      header |-> (m1 :> MailingList @@ m2 :> Crowd)],
     [imap |-> Connection("imap", FALSE, FALSE), smtp |-> Connection("smtps", FALSE, FALSE),
      header |-> (m1 :> Crowd @@ m2 :> MailingList)],
     [imap |-> Connection("imaps", FALSE, FALSE), smtp |-> Connection("starttls", FALSE, FALSE),
      header |-> (m1 :> MailingList @@ m2 :> Crowd)]}

MCTyped == {[to |-> <<Plain("eve")>>, cc |-> <<Plain("bob")>>]}
=============================================================================
