------------------------------ MODULE MailFacts ------------------------------
(***************************************************************************)
(* Facts about the operators that the mail clients are built from: what    *)
(* the sequences of a reply to all and of a sorted set are, for every      *)
(* header and every set.                                                   *)
(*                                                                         *)
(* An induction over data is a choice of the least counterexample here:    *)
(* the set of numbers for which a fact fails has a least element.          *)
(***************************************************************************)
EXTENDS ImapClient, Replies, TLAPS, SequenceTheorems, FiniteSetTheorems

(* A set of natural numbers has a least element.                           *)
LEMMA LeastNumber ==
    ASSUME NEW T, T \subseteq Nat, T # {}
    PROVE  \E n \in T : \A k \in T : n <= k
  <1>1. IsWellFoundedOn(OpToRel(<, Nat), Nat)
    BY NatLessThanWellFounded
  <1>2. PICK n \in T : \A k \in T : <<k, n>> \notin OpToRel(<, Nat)
    BY <1>1, WFMin
  <1>3. \A k \in T : <<k, n>> \notin {ss \in Nat \X Nat : ss[1] < ss[2]}
    BY <1>2 DEF OpToRel
  <1>4. \A k \in T : ~(k < n)
    BY <1>3
  <1> QED
    BY <1>4

(* A set with zero, and with the successor of what it has, has every       *)
(* natural number.                                                         *)
LEMMA AllNumbers ==
    ASSUME NEW T, 0 \in T, \A n \in Nat : n \in T => n + 1 \in T
    PROVE  \A n \in Nat : n \in T
  <1> DEFINE Missing == {n \in Nat : n \notin T}
  <1> SUFFICES ASSUME Missing # {} PROVE FALSE
    OBVIOUS
  <1>1. PICK n \in Missing : \A k \in Missing : n <= k
    BY LeastNumber
  <1>2. n # 0 /\ n \in Nat
    BY <1>1
  <1>3. n - 1 \in Nat /\ n - 1 \notin Missing
    BY <1>1, <1>2
  <1>4. n - 1 + 1 = n
    BY <1>2
  <1> QED
    BY <1>1, <1>3, <1>4

(* Max is the greatest element of a set that has one.                      *)
LEMMA MaxIs ==
    ASSUME NEW S, NEW m \in S, S \subseteq Int, \A k \in S : k <= m
    PROVE  Max(S) = m
  <1>1. m \in S /\ \A k \in S : m >= k
    OBVIOUS
  <1>2. \A n \in S : (\A k \in S : n >= k) => n = m
    OBVIOUS
  <1> QED
    BY <1>1, <1>2 DEF Max
-----------------------------------------------------------------------------
(* appendReplyAllAddresses: the loop over a header.                        *)

\* One round of the loop.
Added(a, address) ==
    IF address.key \in a.excluded THEN a
    ELSE [out |-> Append(a.out, Bare(address)), excluded |-> a.excluded \cup {address.key}]

\* What FoldLeft computes over the sets of positions of a header.
Rounds(acc, value, S, r) ==
    r = [s \in SUBSET S |-> IF s = {} THEN acc
                            ELSE Added(r[s \ {Max(s)}], value[Max(s)])]

(* The rounds are defined for a header of any length.                      *)
LEMMA RoundsExist ==
    ASSUME NEW acc, NEW value, NEW n \in Nat
    PROVE  \E r : Rounds(acc, value, 1..n, r)
  <1> DEFINE T == {k \in Nat : \E r : Rounds(acc, value, 1..k, r)}
  <1>1. 0 \in T
    <2> DEFINE r == [s \in SUBSET (1..0) |-> acc]
    <2>1. 1..0 = {}
      OBVIOUS
    <2>2. Rounds(acc, value, 1..0, r)
      BY <2>1 DEF Rounds
    <2> HIDE DEF r
    <2> QED
      BY <2>2
  <1>2. ASSUME NEW k \in Nat, k \in T PROVE k + 1 \in T
    <2>1. PICK r : Rounds(acc, value, 1..k, r)
      BY <1>2
    <2> DEFINE S == 1..(k + 1)
               q == [s \in SUBSET S |-> IF k + 1 \in s THEN Added(r[s \ {k + 1}], value[k + 1])
                                        ELSE r[s]]
               e(s) == IF s = {} THEN acc ELSE Added(q[s \ {Max(s)}], value[Max(s)])
    <2>2. ASSUME NEW s \in SUBSET S PROVE q[s] = e(s)
      <3>1. CASE k + 1 \in s
        <4>1. Max(s) = k + 1
          <5>1. s \subseteq Int /\ \A i \in s : i <= k + 1
            OBVIOUS
          <5> QED
            BY <3>1, <5>1, MaxIs
        <4>2. s \ {k + 1} \in SUBSET (1..k) /\ s \ {k + 1} \in SUBSET S
          OBVIOUS
        <4>3. q[s \ {k + 1}] = r[s \ {k + 1}]
          BY <4>2
        <4> QED
          BY <3>1, <4>1, <4>3
      <3>2. CASE k + 1 \notin s
        <4>1. s \in SUBSET (1..k) /\ s \ {Max(s)} \in SUBSET (1..k)
          <5>1. \A i \in s : i \in 1..k
            BY <3>2
          <5> QED
            BY <5>1
        <4>2. q[s] = r[s] /\ q[s \ {Max(s)}] = r[s \ {Max(s)}]
          BY <3>2, <4>1
        <4>3. r[s] = IF s = {} THEN acc ELSE Added(r[s \ {Max(s)}], value[Max(s)])
          BY <2>1, <4>1 DEF Rounds
        <4> QED
          BY <4>2, <4>3
      <3> QED
        BY <3>1, <3>2
    <2>3. q = [s \in SUBSET S |-> q[s]]
      OBVIOUS
    <2> HIDE DEF q
    <2>4. q = [s \in SUBSET S |-> e(s)]
      BY <2>2, <2>3
    <2>5. Rounds(acc, value, S, q)
      BY <2>4 DEF Rounds
    <2> QED
      BY <2>5
  <1> HIDE DEF T
  <1>3. n \in T
    BY <1>1, <1>2, AllNumbers
  <1> QED
    BY <1>3 DEF T

(* The fold goes round once for each address, from the first to the last.  *)
LEMMA FoldIsRounds ==
    ASSUME NEW acc, NEW value \in Seq(Addresses), Parses(value)
    PROVE  \E f : /\ f[0] = acc
                  /\ \A k \in 1..Len(value) : f[k] = Added(f[k - 1], value[k])
                  /\ appendReplyAllAddresses(acc, value) = f[Len(value)]
  <1> DEFINE n == Len(value)
  <1>1. n \in Nat /\ DOMAIN value = 1..n
    BY LenProperties
  <1> HIDE DEF n
  <1> DEFINE r == CHOOSE r : Rounds(acc, value, 1..n, r)
  <1>2. Rounds(acc, value, 1..n, r)
    BY <1>1, RoundsExist
  <1>3. appendReplyAllAddresses(acc, value) = r[1..n]
    BY <1>1 DEF appendReplyAllAddresses, FoldLeft, MapThenFoldSet, Added, Rounds
  <1> HIDE DEF r
  <1> DEFINE f == [k \in 0..n |-> r[1..k]]
  <1>4. f[0] = acc
    <2>1. 1..0 = {} /\ 1..0 \in SUBSET (1..n) /\ 0 \in 0..n
      BY <1>1
    <2>2. r[1..0] = acc
      BY <1>2, <2>1 DEF Rounds
    <2> QED
      BY <2>1, <2>2
  <1>5. ASSUME NEW k \in 1..n PROVE f[k] = Added(f[k - 1], value[k])
    <2>1. Max(1..k) = k
      <3>1. k \in 1..k /\ 1..k \subseteq Int /\ \A i \in 1..k : i <= k
        BY <1>1
      <3> QED
        BY <3>1, MaxIs
    <2>2. (1..k) \ {k} = 1..(k - 1)
      BY <1>1
    <2>3. 1..k \in SUBSET (1..n) /\ 1..k # {} /\ k \in 0..n /\ k - 1 \in 0..n
      <3>1. k \in 1..k /\ \A i \in 1..k : i \in 1..n
        BY <1>1
      <3>2. k \in 0..n /\ k - 1 \in 0..n
        BY <1>1
      <3> QED
        BY <3>1, <3>2
    <2>4. r[1..k] = Added(r[1..(k - 1)], value[k])
      BY <1>2, <2>1, <2>2, <2>3 DEF Rounds
    <2> QED
      BY <2>3, <2>4
  <1>6. appendReplyAllAddresses(acc, value) = f[n]
    BY <1>1, <1>3
  <1> HIDE DEF f
  <1> QED
    BY <1>4, <1>5, <1>6 DEF n

\* What a loop has gathered after the keys in seen when it began with X excluded: each key
\* of seen that was not excluded, once.
Gathered(a, X, seen) ==
    /\ a.out \in Seq(Addresses)
    /\ a.excluded = X \cup Keys(a.out)
    /\ Keys(a.out) = seen \ X
    /\ \A i, j \in DOMAIN a.out : a.out[i].key = a.out[j].key => i = j

(* An address without its display name is an address with the same key.    *)
LEMMA BareAddress ==
    ASSUME NEW address \in Addresses
    PROVE  Bare(address) \in Addresses /\ Bare(address).key = address.key
  <1>1. PICK k \in Mailboxes, s \in Spellings, name \in {NoName, "plain", Special} :
           address = [key |-> k, as |-> s, name |-> name]
    BY DEF Addresses
  <1>2. Bare(address) = [key |-> k, as |-> s, name |-> NoName]
    BY <1>1 DEF Bare
  <1> QED
    BY <1>1, <1>2 DEF Addresses

(* One round.                                                              *)
LEMMA AddedGathers ==
    ASSUME NEW a, NEW X, NEW seen, Gathered(a, X, seen), NEW address \in Addresses
    PROVE  Gathered(Added(a, address), X, seen \cup {address.key})
  <1>1. CASE address.key \in a.excluded
    BY <1>1 DEF Gathered, Added
  <1>2. CASE address.key \notin a.excluded
    <2> DEFINE new == Append(a.out, Bare(address))
    <2>1. a.out \in Seq(Addresses)
      BY DEF Gathered
    <2>2. /\ new \in Seq(Addresses)
          /\ DOMAIN a.out = 1..Len(a.out) /\ Len(a.out) \in Nat
          /\ DOMAIN new = 1..(Len(a.out) + 1)
          /\ \A i \in 1..Len(a.out) : new[i] = a.out[i]
          /\ new[Len(a.out) + 1] = Bare(address)
      BY <2>1, BareAddress
    <2> HIDE DEF new
    <2>3. Keys(new) = Keys(a.out) \cup {address.key}
      BY <2>2, BareAddress DEF Keys
    <2>4. ASSUME NEW i \in DOMAIN new, NEW j \in DOMAIN new, new[i].key = new[j].key
          PROVE  i = j
      <3>1. \A l \in DOMAIN a.out : a.out[l].key # address.key
        BY <1>2 DEF Gathered, Keys
      <3>2. \A l, m \in DOMAIN a.out : a.out[l].key = a.out[m].key => l = m
        BY DEF Gathered
      <3>3. \A l \in 1..Len(a.out) : new[l].key # Bare(address).key
        BY <2>2, <3>1, BareAddress
      <3>4. CASE i \in 1..Len(a.out) /\ j \in 1..Len(a.out)
        BY <2>2, <2>4, <3>2, <3>4
      <3>5. CASE i = Len(a.out) + 1 /\ j \in 1..Len(a.out)
        BY <2>2, <2>4, <3>3, <3>5
      <3>6. CASE i \in 1..Len(a.out) /\ j = Len(a.out) + 1
        BY <2>2, <2>4, <3>3, <3>6
      <3> QED
        BY <2>2, <3>4, <3>5, <3>6
    <2>5. Added(a, address) = [out |-> new, excluded |-> a.excluded \cup {address.key}]
      BY <1>2 DEF Added, new
    <2> DEFINE b == [out |-> new, excluded |-> a.excluded \cup {address.key}]
    <2>6. b.out = new /\ b.excluded = a.excluded \cup {address.key}
      OBVIOUS
    <2> HIDE DEF b
    <2>7. Keys(new) = (seen \cup {address.key}) \ X /\ b.excluded = X \cup Keys(new)
      BY <1>2, <2>3, <2>6 DEF Gathered
    <2> QED
      BY <2>2, <2>4, <2>5, <2>6, <2>7 DEF Gathered, b
  <1> QED
    BY <1>1, <1>2

(* The loop over a header: every address on it once, except those that     *)
(* were excluded before.  An unreadable header adds nothing.               *)
LEMMA HeaderGathered ==
    ASSUME NEW acc, NEW X, NEW seen, Gathered(acc, X, seen), NEW value \in Seq(Addresses)
    PROVE  Gathered(appendReplyAllAddresses(acc, value), X, seen \cup Keys(value))
  <1>1. CASE ~Parses(value)
    <2>1. value = <<>>
      BY <1>1, RepliesAssumption DEF Parses, RepliesAssumption
    <2>2. Keys(value) = {}
      BY <2>1 DEF Keys
    <2>3. appendReplyAllAddresses(acc, value) = acc
      BY <1>1 DEF appendReplyAllAddresses
    <2>4. seen \cup Keys(value) = seen
      BY <2>2
    <2> QED
      BY <2>3, <2>4
  <1>2. CASE Parses(value)
    <2>1. PICK f : /\ f[0] = acc
                   /\ \A k \in 1..Len(value) : f[k] = Added(f[k - 1], value[k])
                   /\ appendReplyAllAddresses(acc, value) = f[Len(value)]
      BY <1>2, FoldIsRounds
    <2>2. Len(value) \in Nat /\ DOMAIN value = 1..Len(value)
          /\ \A k \in 1..Len(value) : value[k] \in Addresses
      BY LenProperties, ElementOfSeq
    <2> DEFINE Upto(k) == seen \cup {value[i].key : i \in 1..k}
               T == {k \in Nat : k <= Len(value) => Gathered(f[k], X, Upto(k))}
    <2>3. 0 \in T
      <3>1. Upto(0) = seen
        OBVIOUS
      <3> HIDE DEF Upto
      <3> QED
        BY <2>1, <3>1
    <2>4. ASSUME NEW k \in Nat, k \in T PROVE k + 1 \in T
      <3> SUFFICES ASSUME k + 1 <= Len(value) PROVE Gathered(f[k + 1], X, Upto(k + 1))
        OBVIOUS
      <3>1. Gathered(f[k], X, Upto(k))
        BY <2>2, <2>4
      <3>2. k + 1 \in 1..Len(value) /\ k + 1 - 1 = k
        BY <2>2
      <3>3. f[k + 1] = Added(f[k], value[k + 1])
        BY <2>1, <3>2
      <3>4. Upto(k + 1) = Upto(k) \cup {value[k + 1].key}
        <4>1. 1..(k + 1) = (1..k) \cup {k + 1}
          OBVIOUS
        <4> QED
          BY <4>1
      <3> HIDE DEF Upto, T
      <3> QED
        BY <2>2, <3>1, <3>2, <3>3, <3>4, AddedGathers
    <2>5. Len(value) \in T
      <3> HIDE DEF T
      <3>1. \A k \in Nat : k \in T
        BY <2>3, <2>4, AllNumbers
      <3> QED
        BY <2>2, <3>1
    <2>6. Upto(Len(value)) = seen \cup Keys(value)
      BY <2>2 DEF Keys
    <2>7. Gathered(f[Len(value)], X, Upto(Len(value)))
      BY <2>2, <2>5
    <2> HIDE DEF Upto, T
    <2> QED
      BY <2>1, <2>6, <2>7
  <1> QED
    BY <1>1, <1>2
-----------------------------------------------------------------------------
(* What the forms propose.                                                 *)

(* A list without display names that need quotes is read back as it was.   *)
LEMMA Formatted ==
    ASSUME NEW list \in Seq(Addresses)
    PROVE  /\ formatAddresses(list) \in Lists
           /\ formatAddresses(list) # Garbled =>
                 formatAddresses(list) = list /\ \A i \in DOMAIN list : list[i].name # Special
  BY DEF formatAddresses, Lists

(* A list that parses begins with an address.                              *)
LEMMA ParsedList ==
    ASSUME NEW list \in Lists, Parses(list)
    PROVE  list \in Seq(Addresses) /\ list[1] \in Addresses /\ Len(list) \in Nat \ {0}
  <1>1. list \in Seq(Addresses) /\ list # <<>>
    BY DEF Lists, Parses
  <1>2. Len(list) \in Nat /\ Len(list) # 0
    BY <1>1, EmptySeq
  <1> QED
    BY <1>1, <1>2, ElementOfSeq

(* Nothing is gathered yet.                                                *)
LEMMA NothingGathered ==
    ASSUME NEW X
    PROVE  Gathered([out |-> <<>>, excluded |-> X], X, {})
  BY DEF Gathered, Keys

(* The recipient of a reply is a list as the forms post it.                *)
LEMMA ReplyRecipientIsList ==
    ASSUME NEW original \in Headers
    PROVE  replyRecipient(original) \in Lists
  <1>1. original.replyTo \in Seq(Addresses) /\ original.from \in Seq(Addresses)
    BY DEF Headers
  <1>2. ASSUME NEW list \in Lists PROVE replyAddress(list) \in Lists
    <2>1. CASE Parses(list)
      <3>1. Bare(list[1]) \in Addresses
        BY <1>2, <2>1, ParsedList, BareAddress
      <3>2. <<Bare(list[1])>> \in Seq(Addresses)
        BY <3>1
      <3> QED
        BY <2>1, <3>2 DEF replyAddress, Lists
    <2>2. CASE ~Parses(list)
      BY <1>2, <2>2 DEF replyAddress
    <2> QED
      BY <2>1, <2>2
  <1>3. ReplyTo(original) \in Lists
    <2>1. CASE original.replyTo = <<>>
      BY <2>1 DEF ReplyTo, Lists
    <2>2. CASE original.replyTo # <<>>
      <3>1. original.replyTo[1] \in Addresses
        BY <1>1, <2>2, ElementOfSeq, EmptySeq
      <3>2. <<original.replyTo[1]>> \in Seq(Addresses)
        BY <3>1
      <3> QED
        BY <2>2, <3>2, Formatted DEF ReplyTo
    <2> QED
      BY <2>1, <2>2
  <1>4. formatAddresses(original.from) \in Lists
    BY <1>1, Formatted
  <1> QED
    BY <1>2, <1>3, <1>4 DEF replyRecipient

(* Whatever the headers hold, a form proposes lists.                       *)
LEMMA ProposedLists ==
    ASSUME NEW mode \in {"reply", "reply-all", "forward"}, NEW original \in Headers,
           NEW self \in Addresses
    PROVE  Proposed(mode, original, self).to \in Lists /\ Proposed(mode, original, self).cc \in Lists
  <1>1. replyRecipient(original) \in Lists /\ <<>> \in Lists
    BY ReplyRecipientIsList DEF Lists
  <1>2. CASE mode = "reply"
    BY <1>1, <1>2 DEF Proposed
  <1>3. CASE mode = "reply-all"
    <2> DEFINE X == addExcludedAddress(addExcludedAddress({}, <<self>>), replyRecipient(original))
               none == [out |-> <<>>, excluded |-> X]
               a == appendReplyAllAddresses(none, formatAddresses(original.to))
               b == appendReplyAllAddresses(a, formatAddresses(original.cc))
    <2>1. ASSUME NEW acc, NEW seen, Gathered(acc, X, seen), NEW list \in Seq(Addresses)
          PROVE  \E now : Gathered(appendReplyAllAddresses(acc, formatAddresses(list)), X, now)
      <3>1. CASE formatAddresses(list) = Garbled
        BY <2>1, <3>1 DEF appendReplyAllAddresses, Parses
      <3>2. CASE formatAddresses(list) # Garbled
        <4>1. formatAddresses(list) = list
          BY <3>2, Formatted
        <4> HIDE DEF X
        <4> QED
          BY <2>1, <4>1, HeaderGathered
      <3> QED
        BY <3>1, <3>2
    <2>2. original.to \in Seq(Addresses) /\ original.cc \in Seq(Addresses)
      BY DEF Headers
    <2>3. Gathered(none, X, {})
      BY NothingGathered
    <2>4. replyAllRecipients(original, self) = [to |-> replyRecipient(original), cc |-> b.out]
      BY DEF replyAllRecipients
    <2> HIDE DEF X, none
    <2>5. \E now : Gathered(a, X, now)
      BY <2>1, <2>2, <2>3
    <2> HIDE DEF a
    <2>6. \E now : Gathered(b, X, now)
      BY <2>1, <2>2, <2>5
    <2>7. b.out \in Seq(Addresses)
      BY <2>6 DEF Gathered
    <2> HIDE DEF b
    <2> QED
      BY <1>1, <1>3, <2>4, <2>7 DEF Proposed, Lists
  <1>4. CASE mode = "forward"
    BY <1>1, <1>4 DEF Proposed
  <1> QED
    BY <1>2, <1>3, <1>4

\* Who an answer is for: the first address of Reply-To, or else of From.
First(original) ==
    IF original.replyTo # <<>> THEN original.replyTo[1] ELSE original.from[1]

\* None of these headers has a display name that needs quotes.
Clear(original, fields) == \A f \in fields : formatAddresses(original[f]) # Garbled

(* A reply goes to the one address it is for.                              *)
LEMMA ReplyReaches ==
    ASSUME NEW original \in Headers, original.replyTo # <<>> \/ original.from # <<>>,
           Clear(original, {"replyTo", "from"})
    PROVE  First(original) \in Addresses /\ replyRecipient(original) = <<Bare(First(original))>>
  <1>1. original.replyTo \in Seq(Addresses) /\ original.from \in Seq(Addresses)
    BY DEF Headers
  <1>2. ASSUME NEW list \in Seq(Addresses), list # <<>>
        PROVE  list[1] \in Addresses /\ 1 \in DOMAIN list /\ Parses(list)
               /\ replyAddress(list) = <<Bare(list[1])>>
    <2>1. 1 \in DOMAIN list /\ list[1] \in Addresses
      BY <1>2, LenProperties, EmptySeq, ElementOfSeq
    <2>2. Parses(list)
      BY <1>2, RepliesAssumption DEF Parses, RepliesAssumption
    <2> QED
      BY <2>1, <2>2 DEF replyAddress
  <1>3. CASE original.replyTo # <<>>
    <2> DEFINE a == original.replyTo[1]
    <2>1. First(original) = a /\ a \in Addresses /\ 1 \in DOMAIN original.replyTo
      BY <1>1, <1>2, <1>3 DEF First
    <2>2. a.name # Special
      BY <1>1, <2>1, Formatted DEF Clear
    <2> HIDE DEF a
    <2>3. formatAddresses(<<a>>) = <<a>>
      BY <2>2 DEF formatAddresses
    <2>4. <<a>> \in Seq(Addresses) /\ <<a>> # <<>> /\ <<a>>[1] = a
      BY <2>1
    <2>5. ReplyTo(original) = <<a>>
      BY <1>3, <2>3 DEF ReplyTo, a
    <2>6. replyRecipient(original) = replyAddress(<<a>>)
      BY <2>4, <2>5 DEF replyRecipient
    <2> QED
      BY <1>2, <2>1, <2>4, <2>6
  <1>4. CASE original.replyTo = <<>>
    <2>1. First(original) = original.from[1] /\ original.from # <<>>
      BY <1>4 DEF First
    <2>2. formatAddresses(original.from) = original.from
      BY <1>1, Formatted DEF Clear
    <2>3. replyRecipient(original) = replyAddress(original.from)
      BY <1>4, <2>2 DEF replyRecipient, ReplyTo
    <2> QED
      BY <1>1, <1>2, <2>1, <2>3
  <1> QED
    BY <1>3, <1>4

(* A reply to all copies everybody on To and Cc but the account itself and *)
(* whom it is for, each once.                                              *)
LEMMA ReplyAllReaches ==
    ASSUME NEW original \in Headers, NEW self \in Addresses,
           original.replyTo # <<>> \/ original.from # <<>>,
           Clear(original, {"replyTo", "from", "to", "cc"})
    PROVE  LET r == replyAllRecipients(original, self)
           IN  /\ r.to = <<Bare(First(original))>>
               /\ r.cc \in Seq(Addresses)
               /\ Keys(r.cc) = (Keys(original.to) \cup Keys(original.cc))
                                  \ {self.key, First(original).key}
               /\ \A i, j \in DOMAIN r.cc : r.cc[i].key = r.cc[j].key => i = j
  <1> DEFINE to == replyRecipient(original)
             X == addExcludedAddress(addExcludedAddress({}, <<self>>), to)
             none == [out |-> <<>>, excluded |-> X]
             a == appendReplyAllAddresses(none, original.to)
             b == appendReplyAllAddresses(a, original.cc)
  <1>1. First(original) \in Addresses /\ to = <<Bare(First(original))>>
    BY ReplyReaches DEF Clear
  <1>2. X = {self.key, First(original).key}
    <2>1. ASSUME NEW address \in Addresses
          PROVE  Parses(<<address>>) /\ Keys(<<address>>) = {address.key}
      <3>1. <<address>> \in Seq(Addresses)
        OBVIOUS
      <3>2. <<address>> # Garbled
        BY <3>1, RepliesAssumption DEF RepliesAssumption
      <3> QED
        BY <3>2 DEF Parses, Keys
    <2>2. Bare(First(original)) \in Addresses /\ Bare(First(original)).key = First(original).key
      BY <1>1, BareAddress
    <2>3. addExcludedAddress({}, <<self>>) = {self.key}
      BY <2>1 DEF addExcludedAddress
    <2>4. X = {self.key} \cup {First(original).key}
      BY <1>1, <2>1, <2>2, <2>3 DEF addExcludedAddress
    <2> QED
      BY <2>4
  <1>3. original.to \in Seq(Addresses) /\ original.cc \in Seq(Addresses)
    BY DEF Headers
  <1>4. formatAddresses(original.to) = original.to /\ formatAddresses(original.cc) = original.cc
    BY <1>3, Formatted DEF Clear
  <1>5. replyAllRecipients(original, self) = [to |-> to, cc |-> b.out]
    BY <1>4 DEF replyAllRecipients
  <1>6. Gathered(none, X, {})
    BY NothingGathered
  <1> HIDE DEF to, X, none
  <1>7. Gathered(a, X, {} \cup Keys(original.to))
    BY <1>3, <1>6, HeaderGathered
  <1> HIDE DEF a
  <1>8. Gathered(b, X, ({} \cup Keys(original.to)) \cup Keys(original.cc))
    BY <1>3, <1>7, HeaderGathered
  <1> HIDE DEF b
  <1> QED
    BY <1>1, <1>2, <1>5, <1>8 DEF Gathered

(* Where no key comes twice there are as many keys as addresses.           *)
LEMMA DistinctKeys ==
    ASSUME NEW list \in Seq(Addresses),
           \A i, j \in DOMAIN list : list[i].key = list[j].key => i = j
    PROVE  Len(list) = Cardinality(Keys(list))
  <1> DEFINE f == [i \in 1..Len(list) |-> list[i].key]
  <1>1. Len(list) \in Nat /\ DOMAIN list = 1..Len(list)
    BY LenProperties
  <1>2. f \in Bijection(1..Len(list), Keys(list))
    BY <1>1 DEF Keys, Bijection, Injection, Surjection, IsInjective
  <1>3. IsFiniteSet(1..Len(list)) /\ Cardinality(1..Len(list)) = Len(list)
    BY <1>1, FS_Interval
  <1>4. \A S, T : IsFiniteSet(S) /\ (\E g : g \in Bijection(S, T))
                     => Cardinality(S) = Cardinality(T)
    BY FS_Bijection DEF ExistsBijection
  <1> QED
    BY <1>2, <1>3, <1>4
-----------------------------------------------------------------------------
(* Sets as sequences.                                                      *)

(* SetToSeq of what a UID FETCH finds: nothing or one message.             *)
LEMMA FewToSeq ==
    ASSUME NEW S
    PROVE  /\ S = {} => SetToSeq(S) = <<>>
           /\ \A m : S = {m} => SetToSeq(S) = <<m>>
  <1>1. ASSUME S = {} PROVE SetToSeq(S) = <<>>
    <2>1. Cardinality(S) = 0 /\ 1..0 = {}
      BY <1>1, FS_EmptySet
    <2>2. <<>> \in [1..0 -> S] /\ IsInjective(<<>>)
      BY <2>1 DEF IsInjective
    <2>3. \A f \in [1..0 -> S] : f = <<>>
      BY <2>1
    <2> QED
      BY <2>1, <2>2, <2>3 DEF SetToSeq
  <1>2. ASSUME NEW m, S = {m} PROVE SetToSeq(S) = <<m>>
    <2>1. Cardinality(S) = 1 /\ 1..1 = {1}
      BY <1>2, FS_Singleton
    <2>2. <<m>> \in [1..1 -> S] /\ IsInjective(<<m>>)
      BY <1>2, <2>1 DEF IsInjective
    <2>3. \A f \in [1..1 -> S] : f = <<m>>
      BY <1>2, <2>1
    <2> QED
      BY <2>1, <2>2, <2>3 DEF SetToSeq
  <1> QED
    BY <1>1, <1>2

\* q is S in ascending order.
Sorted(q, S) ==
    q \in [1..Cardinality(S) -> S] /\ \A i, j \in DOMAIN q : i < j => q[i] < q[j]

(* Every set of numbers up to n can be sorted.                             *)
LEMMA SortedExists ==
    ASSUME NEW n \in Nat
    PROVE  \A S \in SUBSET (1..n) : \E q : Sorted(q, S)
  <1> DEFINE T == {k \in Nat : \A S \in SUBSET (1..k) : \E q : Sorted(q, S)}
  <1>1. 0 \in T
    <2>1. ASSUME NEW S \in SUBSET (1..0) PROVE Sorted(<<>>, S)
      <3>1. S = {} /\ 1..0 = {}
        OBVIOUS
      <3>2. Cardinality(S) = 0
        BY <3>1, FS_EmptySet
      <3> QED
        BY <3>1, <3>2 DEF Sorted
    <2> QED
      BY <2>1
  <1>2. ASSUME NEW k \in Nat, k \in T PROVE k + 1 \in T
    <2> SUFFICES ASSUME NEW S \in SUBSET (1..(k + 1)) PROVE \E q : Sorted(q, S)
      OBVIOUS
    <2> DEFINE R == S \ {k + 1}
               c == Cardinality(R)
    <2>1. R \in SUBSET (1..k)
      <3>1. \A i \in R : i \in 1..k
        OBVIOUS
      <3> QED
        BY <3>1
    <2>2. PICK p : Sorted(p, R)
      BY <1>2, <2>1
    <2>3. IsFiniteSet(R) /\ c \in Nat
      <3>1. IsFiniteSet(1..k)
        BY FS_Interval
      <3> QED
        BY <2>1, <3>1, FS_Subset, FS_CardinalityType
    <2>4. CASE k + 1 \notin S
      <3>1. R = S
        BY <2>4
      <3> QED
        BY <2>2, <3>1
    <2>5. CASE k + 1 \in S
      <3> DEFINE q == [i \in 1..(c + 1) |-> IF i <= c THEN p[i] ELSE k + 1]
      <3>1. Cardinality(S) = c + 1
        <4>1. S = R \cup {k + 1} /\ k + 1 \notin R
          BY <2>5
        <4> QED
          BY <2>3, <4>1, FS_AddElement
      <3>2. p \in [1..c -> R] /\ \A i, j \in 1..c : i < j => p[i] < p[j]
        BY <2>2 DEF Sorted
      <3> HIDE DEF c
      <3>3. q \in [1..(c + 1) -> S]
        BY <2>3, <2>5, <3>2
      <3>4. ASSUME NEW i \in 1..(c + 1), NEW j \in 1..(c + 1), i < j PROVE q[i] < q[j]
        <4>1. i \in 1..c /\ p[i] \in 1..k /\ p[i] < k + 1
          <5>1. i \in 1..c
            BY <2>3, <3>4
          <5>2. p[i] \in R
            BY <3>2, <5>1
          <5>3. \A x \in R : x \in 1..k /\ x < k + 1
            BY <2>1
          <5> HIDE DEF R
          <5> QED
            BY <5>1, <5>2, <5>3
        <4>2. CASE j \in 1..c
          BY <2>3, <3>2, <3>4, <4>1, <4>2
        <4>3. CASE j \notin 1..c
          BY <2>3, <3>4, <4>1, <4>3
        <4> QED
          BY <4>2, <4>3
      <3> HIDE DEF q
      <3>5. Sorted(q, S)
        BY <3>1, <3>3, <3>4 DEF Sorted
      <3> QED
        BY <3>5
    <2> QED
      BY <2>4, <2>5
  <1> HIDE DEF T
  <1>3. n \in T
    BY <1>1, <1>2, AllNumbers
  <1> QED
    BY <1>3 DEF T

(* Ascending has every number of the set, once and in order.               *)
LEMMA AscendingSorts ==
    ASSUME NEW n \in Nat, NEW S \in SUBSET (1..n)
    PROVE  /\ Ascending(S) \in Seq(S)
           /\ \A i, j \in DOMAIN Ascending(S) : i < j => Ascending(S)[i] < Ascending(S)[j]
           /\ \A k \in S : \E i \in DOMAIN Ascending(S) : Ascending(S)[i] = k
  <1> DEFINE q == Ascending(S)
             c == Cardinality(S)
  <1>1. Sorted(q, S)
    BY SortedExists DEF Ascending, Sorted
  <1> HIDE DEF q
  <1>2. IsFiniteSet(S) /\ c \in Nat
    <2>1. IsFiniteSet(1..n)
      BY FS_Interval
    <2> QED
      BY <2>1, FS_Subset, FS_CardinalityType
  <1> HIDE DEF c
  <1>3. q \in [1..c -> S] /\ \A i, j \in 1..c : i < j => q[i] < q[j]
    BY <1>1 DEF Sorted, c
  <1>4. \A i \in 1..c : q[i] \in Int
    <2>1. \A k \in S : k \in Int
      OBVIOUS
    <2> QED
      BY <1>3, <2>1
  <1>5. \A i, j \in 1..c : q[i] = q[j] => i = j
    BY <1>2, <1>3, <1>4
  <1>6. q \in Injection(1..c, S)
    BY <1>3, <1>5 DEF Injection, IsInjective
  <1>7. Cardinality(1..c) = Cardinality(S)
    BY <1>2, FS_Interval DEF c
  <1>8. q \in Surjection(1..c, S)
    BY <1>2, <1>6, <1>7, FS_Injection
  <1>9. q \in Seq(S) /\ DOMAIN q = 1..c
    BY <1>2, <1>3
  <1> QED
    BY <1>3, <1>8, <1>9 DEF q, Surjection

(* Reverse has the same elements, from the last to the first.              *)
LEMMA ReverseIs ==
    ASSUME NEW S, NEW q \in Seq(S)
    PROVE  /\ Reverse(q) \in Seq(S) /\ Len(Reverse(q)) = Len(q)
           /\ \A i \in 1..Len(q) : Reverse(q)[i] = q[Len(q) - i + 1]
  <1>1. Len(q) \in Nat /\ \A i \in 1..Len(q) : q[i] \in S
    BY LenProperties, ElementOfSeq
  <1>2. \A i \in 1..Len(q) : Len(q) - i + 1 \in 1..Len(q)
    BY <1>1
  <1>3. Reverse(q) \in [1..Len(q) -> S]
    BY <1>1, <1>2 DEF Reverse
  <1>4. Reverse(q) \in Seq(S) /\ Len(Reverse(q)) = Len(q)
    BY <1>1, <1>3
  <1> QED
    BY <1>4 DEF Reverse

(* The head of a sequence moves to the end of another.                     *)
LEMMA HeadMoves ==
    ASSUME NEW S, NEW R, S \subseteq R, NEW q \in Seq(S), q # <<>>, NEW r \in Seq(R)
    PROVE  /\ Append(r, Head(q)) \in Seq(R) /\ Len(Append(r, Head(q))) = Len(r) + 1
           /\ Tail(q) \in Seq(S)
           /\ Head(q) \in S
           /\ Append(r, Head(q)) \o Tail(q) = r \o q
  <1>1. Head(q) \in S /\ Tail(q) \in Seq(S)
    BY HeadTailProperties
  <1>2. Append(r, Head(q)) \in Seq(R) /\ Len(Append(r, Head(q))) = Len(r) + 1
        /\ Append(r, Head(q)) = r \o <<Head(q)>>
    BY <1>1, AppendProperties, AppendIsConcat
  <1>3. <<Head(q)>> \o Tail(q) = q
    <2>1. 1 \in 1..Len(q) /\ Len(q) \in 1..Len(q)
      BY EmptySeq, LenProperties
    <2>2. SubSeq(q, 1, Len(q)) = <<q[1]>> \o SubSeq(q, 1 + 1, Len(q))
      BY <2>1, SubSeqRecursiveFirst
    <2>3. SubSeq(q, 1, Len(q)) = q /\ Tail(q) = SubSeq(q, 2, Len(q)) /\ Head(q) = q[1]
      BY <2>1, SubSeqFull, TailIsSubSeq
    <2> QED
      BY <2>2, <2>3
  <1>4. <<Head(q)>> \in Seq(R) /\ Tail(q) \in Seq(R)
    <2>1. \A t \in Seq(S) : t \in Seq(R)
      OBVIOUS
    <2> QED
      BY <1>1, <2>1
  <1>5. (r \o <<Head(q)>>) \o Tail(q) = r \o (<<Head(q)>> \o Tail(q))
    BY <1>4, ConcatAssociative
  <1> QED
    BY <1>1, <1>2, <1>3, <1>5
-----------------------------------------------------------------------------
(* What SELECT counts and what ListMessages asks for.                      *)

(* The view of a mailbox has messages that are there, each once.           *)
LEMMA ViewIs ==
    ASSUME NEW s
    PROVE  /\ View(s) \in Seq(Messages)
           /\ \A i \in DOMAIN View(s) : place[View(s)[i]] \in {s} \X Uids
           /\ \A i, j \in DOMAIN View(s) : View(s)[i] = View(s)[j] => i = j
  <1> DEFINE S == {uid \in Uids : At(s, uid) # {}}
             used == Ascending(S)
  <1>1. MaxUid \in Nat /\ S \in SUBSET (1..MaxUid)
    BY MailServerAssumption DEF MailServerAssumption, Uids
  <1>2. used \in Seq(S) /\ \A i, j \in DOMAIN used : i < j => used[i] < used[j]
    BY <1>1, AscendingSorts
  <1>3. View(s) = [n \in DOMAIN used |-> CHOOSE m \in At(s, used[n]) : TRUE]
    BY DEF View
  <1>4. \A uid \in S : uid \in Uids /\ uid \in Nat /\ At(s, uid) # {}
    BY DEF Uids
  <1> HIDE DEF S, used
  <1>5. DOMAIN used = 1..Len(used) /\ Len(used) \in Nat /\ \A i \in DOMAIN used : used[i] \in S
    BY <1>2, LenProperties, ElementOfSeq
  <1>6. ASSUME NEW i \in DOMAIN used
        PROVE  View(s)[i] \in Messages /\ place[View(s)[i]] = <<s, used[i]>>
    <2>1. At(s, used[i]) # {}
      BY <1>4, <1>5
    <2>2. View(s)[i] \in At(s, used[i])
      BY <1>3, <2>1
    <2> QED
      BY <2>2 DEF At
  <1>7. View(s) \in Seq(Messages) /\ DOMAIN View(s) = DOMAIN used
    BY <1>3, <1>5, <1>6
  <1>8. ASSUME NEW i \in DOMAIN used PROVE place[View(s)[i]] \in {s} \X Uids
    <2>1. used[i] \in Uids /\ place[View(s)[i]] = <<s, used[i]>>
      BY <1>4, <1>5, <1>6
    <2> QED
      BY <2>1
  <1>9. ASSUME NEW i \in DOMAIN used, NEW j \in DOMAIN used, View(s)[i] = View(s)[j]
        PROVE  i = j
    <2>1. used[i] = used[j] /\ used[i] \in Nat /\ i \in Nat /\ j \in Nat
      BY <1>4, <1>5, <1>6, <1>9
    <2> QED
      BY <1>2, <2>1
  <1> QED
    BY <1>7, <1>8, <1>9

(* The window has the numbers of as many messages as the limit allows,     *)
(* those with the highest numbers.                                         *)
LEMMA WindowIs ==
    ASSUME NEW count \in Nat, NEW limit \in Nat
    PROVE  \A i \in Int : i \in Window(count, limit) <=> i \in 1..count /\ count - i < limit
  BY DEF Window

(* FETCH of a list: the messages of the window that are still there, in    *)
(* the order of the view.                                                  *)
LEMMA AskedForList ==
    ASSUME imap.op.name = "list", imap.op.limit \in Nat, imap.view \in Seq(Messages)
    PROVE  LET n == Window(Len(imap.view), imap.op.limit)
           IN  /\ Asked \in Seq(Messages)
               /\ \E at \in [DOMAIN Asked -> n] :
                     /\ \A k \in DOMAIN Asked : Asked[k] = imap.view[at[k]]
                     /\ \A k, l \in DOMAIN Asked : k < l => at[k] < at[l]
                     /\ \A i \in n : Present(imap.view[i]) => \E k \in DOMAIN Asked : at[k] = i
  <1> DEFINE n == Window(Len(imap.view), imap.op.limit)
             S == {k \in n : Present(imap.view[k])}
             there == Ascending(S)
  <1>1. Len(imap.view) \in Nat /\ \A k \in 1..Len(imap.view) : imap.view[k] \in Messages
    BY LenProperties, ElementOfSeq
  <1>2. n \subseteq 1..Len(imap.view)
    BY <1>1 DEF Window
  <1>3. /\ there \in Seq(S)
        /\ \A i, j \in DOMAIN there : i < j => there[i] < there[j]
        /\ \A k \in S : \E i \in DOMAIN there : there[i] = k
    <2>1. S \in SUBSET (1..Len(imap.view))
      BY <1>2
    <2> QED
      BY <1>1, <2>1, AscendingSorts
  <1>4. Asked = [i \in DOMAIN there |-> imap.view[there[i]]]
    BY DEF Asked
  <1>5. S \subseteq n /\ \A i \in n : Present(imap.view[i]) => i \in S
    OBVIOUS
  <1> HIDE DEF n, S, there
  <1>6. DOMAIN there = 1..Len(there) /\ Len(there) \in Nat /\ \A i \in DOMAIN there : there[i] \in S
    BY <1>3, LenProperties, ElementOfSeq
  <1>7. \A i \in DOMAIN there : imap.view[there[i]] \in Messages
    BY <1>1, <1>2, <1>5, <1>6
  <1>8. Asked \in Seq(Messages) /\ DOMAIN Asked = DOMAIN there
    BY <1>4, <1>6, <1>7
  <1>9. there \in [DOMAIN Asked -> n]
    BY <1>3, <1>5, <1>6, <1>8
  <1> QED
    BY <1>3, <1>4, <1>5, <1>8, <1>9 DEF n

(* A sequence that is reversed twice is itself.                            *)
LEMMA ReverseTwice ==
    ASSUME NEW S, NEW q \in Seq(S)
    PROVE  Reverse(Reverse(q)) = q
  <1> DEFINE r == Reverse(q)
             t == Reverse(r)
  <1>1. /\ r \in Seq(S) /\ Len(r) = Len(q) /\ Len(q) \in Nat
        /\ \A i \in 1..Len(q) : r[i] = q[Len(q) - i + 1]
    BY ReverseIs, LenProperties
  <1> HIDE DEF r
  <1>2. /\ t \in Seq(S) /\ Len(t) = Len(q)
        /\ \A i \in 1..Len(q) : t[i] = r[Len(q) - i + 1]
    BY <1>1, ReverseIs
  <1> HIDE DEF t
  <1>3. ASSUME NEW i \in 1..Len(q) PROVE t[i] = q[i]
    <2>1. Len(q) - i + 1 \in 1..Len(q) /\ Len(q) - (Len(q) - i + 1) + 1 = i
      BY <1>1
    <2> QED
      BY <1>1, <1>2, <2>1
  <1>4. t = q
    BY <1>1, <1>2, <1>3, SeqEqual
  <1> QED
    BY <1>4 DEF t, r

(* A beginning of a sequence and what is left of it.                       *)
LEMMA NextOfRest ==
    ASSUME NEW S, NEW q \in Seq(S), NEW n \in 0..Len(q)
    PROVE  LET named == SubSeq(q, 1, n)
               rest == SubSeq(q, Len(named) + 1, Len(q))
           IN  /\ rest = <<>> => named = q
               /\ rest # <<>> => n + 1 \in 0..Len(q)
                                 /\ Append(named, Head(rest)) = SubSeq(q, 1, n + 1)
  <1> DEFINE named == SubSeq(q, 1, n)
             rest == SubSeq(q, Len(named) + 1, Len(q))
  <1>1. Len(q) \in Nat /\ \A i \in 1..Len(q) : q[i] \in S
    BY LenProperties, ElementOfSeq
  <1>2. named \in Seq(S) /\ Len(named) = n
    BY <1>1, SubSeqProperties
  <1>3. CASE n = Len(q)
    <2>1. named = q
      BY <1>3, SubSeqFull
    <2>2. rest = <<>>
      <3>1. Len(named) + 1 \in Int /\ Len(q) \in Int /\ Len(q) < Len(named) + 1
        BY <1>1, <1>2, <1>3
      <3> HIDE DEF named
      <3> QED
        BY <3>1, SubSeqEmpty
    <2> QED
      BY <2>1, <2>2
  <1>4. CASE n # Len(q)
    <2>1. n + 1 \in 1..Len(q) /\ n + 1 \in 0..Len(q) /\ Len(q) \in (n + 1)..Len(q)
          /\ n + 1 \in 1..(n + 1)
      BY <1>1, <1>4
    <2>2. Len(rest) > 0
      BY <1>1, <1>2, <2>1, SubSeqProperties
    <2>3. Head(rest) = q[n + 1]
      BY <1>2, <2>1, HeadTailOfSubSeq
    <2>4. SubSeq(q, 1, n + 1) = named \o <<q[n + 1]>>
      <3>1. SubSeq(q, 1, n + 1) = SubSeq(q, 1, (n + 1) - 1) \o <<q[n + 1]>>
        BY <1>1, <2>1, SubSeqRecursiveSecond
      <3>2. (n + 1) - 1 = n
        OBVIOUS
      <3> QED
        BY <3>1, <3>2
    <2>5. Append(named, q[n + 1]) = named \o <<q[n + 1]>>
      BY <1>1, <1>2, <2>1, AppendIsConcat
    <2>6. rest # <<>> /\ Append(named, Head(rest)) = SubSeq(q, 1, n + 1)
      <3>1. rest # <<>>
        BY <2>2
      <3> HIDE DEF named, rest
      <3> QED
        BY <2>3, <2>4, <2>5, <3>1
    <2> QED
      BY <2>1, <2>6
  <1> QED
    BY <1>3, <1>4
=============================================================================
