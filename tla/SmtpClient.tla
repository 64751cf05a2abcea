----------------------------- MODULE SmtpClient -----------------------------
(***************************************************************************)
(* Send of internal/smtp, command by command, against a server that may    *)
(* refuse any of them and a connection that may break at any of them.      *)
(* Send has no step that undoes another: an error return closes the        *)
(* connection, and a server drops an unfinished transaction.               *)
(***************************************************************************)
EXTENDS Replies

VARIABLES
    smtp,           \* the Send under way or just returned, or Idle
    delivered,      \* messages a server took responsibility for (history)
    smtpClear       \* a password went to another host over a plain connection (history)

smtpVars == <<smtp, delivered, smtpClear>>

Idle == [at |-> "idle"]

SmtpInit == smtp = Idle /\ delivered = {} /\ smtpClear = FALSE

\* Commands that are waiting for their reply, then what Send has returned.
SmtpCommands == {"connect", "starttls", "auth", "mail", "rcpt", "body", "taken", "quit"}
SmtpReturned == {"ok", "error"}

SmtpGoes(at) == smtp' = [smtp EXCEPT !.at = at]

\* Send: the message is validated before the server is dialled.  id is what the caller
\* sends, account its SMTP settings; named are the recipients the server has accepted, and
\* taken tells that it took the message (history).
Send(account, message, id) ==
    /\ smtp = Idle
    /\ smtp' = [at |-> IF validateMessage(message) THEN "connect" ELSE "error",
                account |-> account, message |-> message, id |-> id,
                tls |-> FALSE, named |-> <<>>, taken |-> FALSE]
    /\ UNCHANGED <<delivered, smtpClear>>

\* connect, up to the greeting; SMTPS negotiates TLS before it.
SmtpConnect ==
    /\ smtp.at = "connect"
    /\ smtp' = [smtp EXCEPT !.at = IF smtp.account.security = "starttls" THEN "starttls"
                                   ELSE "auth",
                            !.tls = smtp.account.security = "smtps"]
    /\ UNCHANGED <<delivered, smtpClear>>

\* The server advertises STARTTLS and the handshake succeeds; otherwise connect fails.
StartTLS ==
    /\ smtp.at = "starttls"
    /\ smtp' = [smtp EXCEPT !.at = "auth", !.tls = TRUE]
    /\ UNCHANGED <<delivered, smtpClear>>

\* A mutant: insecurePlainAuth for every plain connection.
smtpAuthAlways(account, tls) == account.security = "plain" \/ tls \/ account.local

\* smtpAuth: insecurePlainAuth, or smtp.PlainAuth, which starts over TLS or to localhost.
smtpAuth(account, tls) ==
    \/ account.security = "plain" /\ account.allow
    \/ tls \/ account.local

\* client.Auth: the password is sent, and then accepted or refused.
Auth ==
    /\ smtp.at = "auth"
    /\ smtpAuth(smtp.account, smtp.tls)
    /\ smtpClear' = (smtpClear \/ (~smtp.tls /\ ~smtp.account.local /\ ~smtp.account.allow))
    /\ SmtpGoes("mail") \/ SmtpGoes("error")
    /\ UNCHANGED delivered

Mail ==
    /\ smtp.at = "mail"
    /\ SmtpGoes("rcpt")
    /\ UNCHANGED <<delivered, smtpClear>>

\* Recipients are named one by one, as the message lists them.
ToName(s) == SubSeq(messageRecipients(s.message), Len(s.named) + 1,
                    Len(messageRecipients(s.message)))

Rcpt ==
    /\ smtp.at = "rcpt" /\ ToName(smtp) # <<>>
    /\ smtp' = [smtp EXCEPT !.named = Append(@, Head(ToName(smtp)))]
    /\ UNCHANGED <<delivered, smtpClear>>

Data ==
    /\ smtp.at = "rcpt" /\ ToName(smtp) = <<>>
    /\ SmtpGoes("body")
    /\ UNCHANGED <<delivered, smtpClear>>

\* The server has the final dot and takes the message; its 250 is on the way.
Take ==
    /\ smtp.at = "body"
    /\ delivered' = delivered \cup {[id |-> smtp.id, named |-> smtp.named]}
    /\ smtp' = [smtp EXCEPT !.at = "taken", !.taken = TRUE]
    /\ UNCHANGED smtpClear

Taken250 ==
    /\ smtp.at = "taken"
    /\ SmtpGoes("quit")
    /\ UNCHANGED <<delivered, smtpClear>>

Quit ==
    /\ smtp.at = "quit"
    /\ SmtpGoes("ok")
    /\ UNCHANGED <<delivered, smtpClear>>

\* A mutant: the loop over the recipients goes on after a refused one.
SmtpFailsButRcpt ==
    /\ smtp.at \in SmtpCommands
    /\ IF smtp.at = "rcpt" /\ Len(ToName(smtp)) = 1 THEN SmtpGoes("body") ELSE SmtpGoes("error")
    /\ UNCHANGED <<delivered, smtpClear>>

\* A mutant: the error of writer.Close() is not looked at.
SmtpFailsButBody ==
    /\ smtp.at \in SmtpCommands
    /\ IF smtp.at = "body" THEN SmtpGoes("quit") ELSE SmtpGoes("error")
    /\ UNCHANGED <<delivered, smtpClear>>

\* A reply that refuses the command, or a broken connection: Send returns the error.
SmtpFails ==
    /\ smtp.at \in SmtpCommands
    /\ SmtpGoes("error")
    /\ UNCHANGED <<delivered, smtpClear>>

SmtpStep ==
    \/ SmtpConnect \/ StartTLS \/ Auth \/ Mail \/ Rcpt \/ Data \/ Take \/ Taken250 \/ Quit
    \/ SmtpFails

\* The caller has the result, or the process ended: no connection is left.
SmtpReset == smtp' = Idle /\ UNCHANGED <<delivered, smtpClear>>
=============================================================================
