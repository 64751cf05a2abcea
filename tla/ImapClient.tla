----------------------------- MODULE ImapClient -----------------------------
(***************************************************************************)
(* ListMessages, GetMessage and markMessageFlag of internal/imap: one      *)
(* connection per call, opened, used and closed command by command, over   *)
(* the mailbox of MailServer.  The server may refuse a command and the     *)
(* connection may break at any of them.  go-imap (external) fills a        *)
(* channel from its reader while fetchMessages drains it, and its Close is *)
(* the CLOSE command: refused by go-imap outside a selected mailbox, an    *)
(* EXPUNGE in a mailbox selected read-write.                               *)
(***************************************************************************)
EXTENDS MailServer, SequencesExt

CONSTANTS
    ChannelCap,     \* the capacity of the channel of messages, 128 (16) in the code
    NoRow           \* a row of ListMessages without UID and envelope

VARIABLES
    imap,           \* the call under way or just returned, or NotCalled
    deleted,        \* messages that another client has marked \Deleted
    leftOpen,       \* states in which a connection was left open (history)
    imapClear       \* a password went to another host over a plain connection (history)

imapVars == <<imap, deleted, leftOpen, imapClear>>

ImapAssumption == ChannelCap \in Nat \ {0} /\ NoRow \notin Messages
ASSUME ImapAssumption

NotCalled == [at |-> "idle"]

ImapInit == imap = NotCalled /\ deleted = {} /\ leftOpen = {} /\ imapClear = FALSE

\* Commands that are waiting for their reply.
ImapCommands == {"connect", "login", "select", "fetch", "store", "stored"}

\* Mutants: the two defers swapped, and the one of Logout missing.
closeThenLogout == <<"close", "logout">>
closeOnly == <<"close">>

\* The defers of a call, last in, first out: Logout runs before Close.
deferred == <<"logout", "close">>

\* conn is what the server holds of the connection; view the messages SELECT counted;
\* result and out what the call will return; defers what has to run before that; stored
\* tells that the server did the STORE (history).
Call(server, account, op) ==
    /\ imap = NotCalled
    /\ imap' = [at |-> "connect", server |-> server, account |-> account, op |-> op,
                conn |-> "none", view |-> <<>>, todo |-> <<>>, chan |-> <<>>,
                done |-> "", out |-> <<>>, result |-> "", defers |-> <<>>, stored |-> FALSE]
    /\ UNCHANGED <<deleted, leftOpen, imapClear>>

ListMessages(server, account, limit) == Call(server, account, [name |-> "list", limit |-> limit])
GetMessageCall(server, account, uid) == Call(server, account, [name |-> "get", uid |-> uid])
markMessageFlag(server, account, uid, flag) ==
    Call(server, account, [name |-> "mark", uid |-> uid, flag |-> flag])

\* connect: the check of a plain connection, dialling, TLS and the greeting.
ImapConnect ==
    /\ imap.at = "connect"
    /\ imap.account.security = "imap" => imap.account.allow \/ imap.account.local
    /\ imap' = [imap EXCEPT !.at = "login", !.conn = "notauth"]
    /\ UNCHANGED <<mailVars, deleted, leftOpen, imapClear>>

Login ==
    /\ imap.at = "login"
    /\ imap' = [imap EXCEPT !.at = "select", !.conn = "auth", !.defers = deferred]
    /\ imapClear' = (imapClear \/ (imap.account.security = "imap"
                                     /\ ~imap.account.allow /\ ~imap.account.local))
    /\ UNCHANGED <<mailVars, deleted, leftOpen>>

\* The numbers of S, sorted.
Ascending(S) ==
    CHOOSE q \in [1..Cardinality(S) -> S] : \A i, j \in DOMAIN q : i < j => q[i] < q[j]

\* The messages of a mailbox in the order of their sequence numbers, that of their UIDs.
View(server) ==
    LET used == Ascending({uid \in Uids : At(server, uid) # {}})
    IN  [n \in DOMAIN used |-> CHOOSE m \in At(server, used[n]) : TRUE]

\* Select: read-only for reading, read-write for a flag.  Only ListMessages uses the count.
Select ==
    /\ imap.at = "select"
    /\ LET view == IF imap.op.name = "list" THEN View(imap.server) ELSE <<>>
           conn == IF imap.op.name = "mark" THEN "selected rw" ELSE "selected ro"
           next == CASE imap.op.name = "mark" -> "store"
                     [] imap.op.name = "list" /\ view = <<>> -> "return"
                     [] OTHER -> "fetch"
       IN  imap' = [imap EXCEPT !.at = next, !.conn = conn, !.view = view,
                                !.result = IF next = "return" THEN "ok" ELSE ""]
    /\ UNCHANGED <<mailVars, deleted, leftOpen, imapClear>>

\* A mutant: the window is one message short.
WindowOffByOne(count, limit) == (IF count > limit THEN count - limit ELSE 1)..count

\* The sequence numbers that ListMessages asks for.
Window(count, limit) == (IF count > limit THEN count - limit + 1 ELSE 1)..count

Present(m) == place[m] \in {imap.server} \X Uids

\* The server reads what FETCH asks for: by sequence number of the view, or by UID.
Asked ==
    IF imap.op.name = "list"
    THEN LET n == Window(Len(imap.view), imap.op.limit)
             there == Ascending({k \in n : Present(imap.view[k])})
         IN  [i \in DOMAIN there |-> imap.view[there[i]]]
    ELSE SetToSeq(GetMessage(imap.server, imap.op.uid))

Fetch ==
    /\ imap.at = "fetch"
    /\ imap' = [imap EXCEPT !.at = "fetching", !.todo = Asked]
    /\ UNCHANGED <<mailVars, deleted, leftOpen, imapClear>>

\* go-imap's reader passes on one message.  The last of ChannelCap + 1 in chan is the one
\* it still holds: it is blocked, and reads nothing more, until there is room.
Blocked == Len(imap.chan) > ChannelCap

Deliver ==
    /\ imap.at = "fetching" /\ imap.done = ""
    /\ imap.todo # <<>> /\ ~Blocked
    /\ imap' = [imap EXCEPT !.chan = Append(@, Head(imap.todo)), !.todo = Tail(@)]
    /\ UNCHANGED <<mailVars, deleted, leftOpen, imapClear>>

\* Another client changes the flags of a listed message: its unasked FETCH response,
\* without UID, is passed on like the others.
DeliverUnasked ==
    /\ imap.at = "fetching" /\ imap.done = "" /\ imap.op.name = "list"
    /\ imap.todo = <<>> /\ ~Blocked /\ NoRow \notin ToSet(imap.chan \o imap.out)
    /\ imap' = [imap EXCEPT !.chan = Append(@, NoRow)]
    /\ UNCHANGED <<mailVars, deleted, leftOpen, imapClear>>

\* client.Fetch returns: it has closed the channel, and its error is sent to done.
FetchReturns ==
    /\ imap.at = "fetching" /\ imap.done = "" /\ ~Blocked
    /\ \/ imap.todo = <<>> /\ imap' = [imap EXCEPT !.done = "ok"]
       \/ imap' = [imap EXCEPT !.done = "error"]
       \/ imap' = [imap EXCEPT !.done = "error", !.conn = "closed"]
    /\ UNCHANGED <<mailVars, deleted, leftOpen, imapClear>>

\* A mutant: fetchMessages waits for the error before it ranges over the channel.
ReceiveAfterDone ==
    /\ imap.at = "fetching" /\ imap.chan # <<>> /\ imap.done # ""
    /\ imap' = [imap EXCEPT !.out = Append(@, Head(imap.chan)), !.chan = Tail(@)]
    /\ UNCHANGED <<mailVars, deleted, leftOpen, imapClear>>

\* fetchMessages ranges over the channel.
Receive ==
    /\ imap.at = "fetching" /\ imap.chan # <<>>
    /\ imap' = [imap EXCEPT !.out = Append(@, Head(imap.chan)), !.chan = Tail(@)]
    /\ UNCHANGED <<mailVars, deleted, leftOpen, imapClear>>

\* A mutant: GetMessage takes messages[0] without looking at how many there are.
FetchedUncounted ==
    /\ imap.at = "fetching" /\ imap.chan = <<>> /\ imap.done # ""
    /\ imap' = [imap EXCEPT !.at = "return", !.result = imap.done, !.out = Reverse(@)]
    /\ UNCHANGED <<mailVars, deleted, leftOpen, imapClear>>

\* The channel is closed and empty: the error decides, and the call is about to return.
\* Without a message GetMessage returns ErrMessageNotFound; a body may not parse.  With an
\* error the caller gets nothing, whatever out is.
Fetched ==
    /\ imap.at = "fetching" /\ imap.chan = <<>> /\ imap.done # ""
    /\ \E r \in CASE imap.done = "error" -> {"error"}
                  [] imap.done = "ok" /\ imap.op.name = "list" -> {"ok"}
                  [] OTHER -> IF imap.out = <<>> THEN {"missing"} ELSE {"ok", "error"} :
          imap' = [imap EXCEPT !.at = "return", !.result = r, !.out = Reverse(@)]
    /\ UNCHANGED <<mailVars, deleted, leftOpen, imapClear>>

Store ==
    /\ imap.at = "store"
    /\ UidStore(imap.server, imap.op.uid, imap.op.flag)
    /\ imap' = [imap EXCEPT !.at = "stored", !.stored = TRUE]
    /\ UNCHANGED <<deleted, leftOpen, imapClear>>

StoreReplied ==
    /\ imap.at = "stored"
    /\ imap' = [imap EXCEPT !.at = "return", !.result = "ok"]
    /\ UNCHANGED <<mailVars, deleted, leftOpen, imapClear>>

\* The command is refused, or the connection breaks: the call is about to return the
\* error.  After a refused LOGIN it does client.Close() and nothing else.
ImapFails ==
    /\ imap.at \in ImapCommands
    /\ \E conn \in {imap.conn, "closed"} :
          imap' = [imap EXCEPT !.at = "return", !.result = "error", !.conn = conn]
    /\ UNCHANGED <<mailVars, deleted, leftOpen, imapClear>>

\* The deferred calls.  The server ends the connection after LOGOUT.
Logout ==
    /\ imap.at = "return" /\ imap.defers # <<>> /\ Head(imap.defers) = "logout"
    /\ imap' = [imap EXCEPT !.defers = Tail(@), !.conn = "closed"]
    /\ UNCHANGED <<mailVars, deleted, leftOpen, imapClear>>

\* client.Close(): CLOSE removes what is marked \Deleted from a mailbox open read-write.
Close ==
    /\ imap.at = "return" /\ imap.defers # <<>> /\ Head(imap.defers) = "close"
    /\ imap' = [imap EXCEPT !.defers = Tail(@),
                            !.conn = IF @ \in {"selected ro", "selected rw"} THEN "auth" ELSE @]
    /\ IF imap.conn = "selected rw"
       THEN /\ place' = [m \in Messages |->
                           IF Present(m) /\ m \in deleted THEN Expunged ELSE place[m]]
            /\ UNCHANGED <<uidNext, renumbered, flags>>
       ELSE UNCHANGED mailVars
    /\ UNCHANGED <<deleted, leftOpen, imapClear>>

\* The call returns.
Return ==
    /\ imap.at = "return" /\ imap.defers = <<>>
    /\ imap' = [imap EXCEPT !.at = "returned"]
    /\ leftOpen' = leftOpen \cup ({imap.conn} \ {"none", "closed"})
    /\ UNCHANGED <<mailVars, deleted, imapClear>>

ImapStep ==
    \/ ImapConnect \/ Login \/ Select \/ Fetch \/ Deliver \/ DeliverUnasked \/ FetchReturns
    \/ Receive \/ Fetched \/ Store \/ StoreReplied \/ ImapFails \/ Logout \/ Close \/ Return

\* The caller has the result, or the process ended: its connections end with it.
ImapReset == imap' = NotCalled /\ UNCHANGED <<deleted, leftOpen, imapClear>>

\* Another client marks a message as deleted, without EXPUNGE.
MarkDeleted(m) ==
    /\ place[m] \in Servers \X Uids
    /\ deleted' = deleted \cup {m}
    /\ UNCHANGED <<mailVars, imap, leftOpen, imapClear>>
=============================================================================
