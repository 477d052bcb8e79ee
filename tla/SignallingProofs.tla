------------------------------ MODULE SignallingProofs ------------------------------
(***************************************************************************)
(* A room for every set of connections and every set of rooms: one state   *)
(* object per room, nobody missed by a client that has caught up, no       *)
(* ghosts but the crossed ones, nothing left of whoever has gone.          *)
(*                                                                         *)
(* The invariants about messages are stated for a pair: a client c and a   *)
(* connection p it may hear of.  They say which messages about p can be    *)
(* under way to c, by the classes of messages below, and never where in    *)
(* the inbox, but for one of them: what adds a card precedes "peer-left".  *)
(***************************************************************************)
EXTENDS Signalling, TLAPS

\* The messages, in the order of the actions that send them.
Msgs ==
    ({"joined", "transport", "new-producer", "produced", "closed", "left"} \X Conns)
        \union ({"peers", "list"} \X SUBSET Conns)
        \union ({"consumed", "resumed"} \X (Conns \X Calls))

\* The messages that make a card for p, and the two that offer p's producer
Adders(p) == {<<"joined", p>>} \union {m \in {"peers"} \X SUBSET Conns : p \in m[2]}
NewOf(p) == {<<"new-producer", p>>}
Lists == {"list"} \X SUBSET Conns
ListsOf(p) == {m \in Lists : p \in m[2]}
ConsumedOf(p, k) == {<<"consumed", <<p, k>>>>}
ResumedOf(p, k) == {<<"resumed", <<p, k>>>>}
LeftOf(p) == {<<"left", p>>}
ClosedOf(p) == {<<"closed", p>>}

\* One message more
Plus(q, m) == q \o <<m>>

\* q has a message of the class M; at most one; each followed by one of the class L
In(q, M) == \E i \in 1..Len(q) : q[i] \in M
Once(q, M) == \A i, j \in 1..Len(q) : q[i] \in M /\ q[j] \in M => i = j
Followed(q, M, L) == \A i \in 1..Len(q) : q[i] \in M => \E j \in 1..Len(q) : i < j /\ q[j] \in L

--------------------------------------------------------------------------------
\* The server, for a connection: what it holds, against where the connection is.
Served(c) ==
    /\ conn[c] = "off" => sendT[c] = "none" /\ recvT[c] = "none" /\ producer[c] = "none"
    /\ On(c) /\ setup[c] \in {"none", "send"} => producer[c] = "none"
    /\ conn[c] = "gone" /\ c \notin raced =>
          /\ sendT[c] \notin {"asked", "open"} /\ recvT[c] \notin {"asked", "open"}
          /\ producer[c] \notin {"asked", "open"} /\ c \notin owners

\* A registered state is named by somebody of its own room, who has come; so two rooms
\* have two of them, and one who is yet to come names none.
Registered ==
    /\ \A r \in Rooms : rooms[r] # None => room[rooms[r]] = r /\ conn[rooms[r]] # "off"
    /\ \A c \in Conns : conn[c] = "off" => peersOf[c] = {}

\* A connection that has not joined yet, or has gone, has no client.
Off(c) ==
    ~On(c) => /\ inbox[c] = <<>> /\ setup[c] = "none" /\ cards[c] = {}
              /\ \A p \in Conns : consuming[c][p] = 0
              /\ \A p \in Conns, k \in Calls :
                    /\ call[<<c, p, k>>] = "none"
                    /\ consumer[<<c, p, k>>] = "none"
                          \/ (consumer[<<c, p, k>>] = "closed" /\ conn[c] = "gone")

\* Nobody is offered to itself.
Self(c) ==
    /\ ~In(inbox[c], Adders(c)) /\ ~In(inbox[c], NewOf(c)) /\ ~In(inbox[c], ListsOf(c))
    /\ \A k \in Calls : call[<<c, c, k>>] = "none"

\* getProducers is answered once.
Listed(c) == Once(inbox[c], Lists) /\ (In(inbox[c], Lists) => setup[c] = "list")

\* What a message about p says of p, or of the call it answers.
OfGone(c, p) ==
    \/ In(inbox[c], LeftOf(p)) \/ In(inbox[c], ClosedOf(p))
    \/ \E k \in Calls : consumer[<<c, p, k>>] = "closing"
Answers(c, p, k) ==
    /\ Once(inbox[c], ConsumedOf(p, k)) /\ Once(inbox[c], ResumedOf(p, k))
    /\ In(inbox[c], ConsumedOf(p, k)) => call[<<c, p, k>>] = "acked"
    /\ In(inbox[c], ResumedOf(p, k)) => call[<<c, p, k>>] = "resuming"
Mail(c, p) ==
    /\ OfGone(c, p) => conn[p] = "gone"
    /\ Once(inbox[c], NewOf(p))
    /\ In(inbox[c], NewOf(p)) => producer[p] \notin {"none", "asked"}
    /\ \A k \in Calls : Answers(c, p, k)

\* p may still be offered to c by the new-producer event; by the list, while c is not
\* ready.  Each offer takes one call, so that no call is ever used twice.
Expected(c, p) == producer[p] \in {"none", "asked"} \/ In(inbox[c], NewOf(p))
Offers(c, p) ==
    /\ call[<<c, p, 1>>] # "none" => ~Expected(c, p) \/ setup[c] = "ready"
    /\ call[<<c, p, 2>>] # "none" =>
          call[<<c, p, 1>>] # "none" /\ ~Expected(c, p) /\ setup[c] = "ready"

\* The server's consumer follows the call it was made for.
Follows(c, p, k) ==
    On(c) =>
        /\ call[<<c, p, k>>] \in {"none", "asked", "refused"} => consumer[<<c, p, k>>] = "none"
        /\ consuming[c][p] = k => call[<<c, p, k>>] = "done"
        /\ conn[p] # "gone" =>
              /\ call[<<c, p, k>>] \in {"acked", "local"} => consumer[<<c, p, k>>] = "paused"
              /\ call[<<c, p, k>>] \in {"resuming", "done"} => consumer[<<c, p, k>>] = "live"
              /\ call[<<c, p, k>>] = "done" => consuming[c][p] # 0

\* Who hears of whom is in one room.
Subscribing == {"asked", "acked", "local", "resuming"}
Announced(c, p) == p \in cards[c] \/ In(inbox[c], Adders(p))
Near(c, p) ==
    Announced(c, p) \/ (\E k \in Calls : call[<<c, p, k>>] \in Subscribing) =>
        room[p] = room[c]

\* Nobody is missed: who is here has a card or is announced, and its producer is offered
\* or asked for.
Offered(c, p) ==
    \/ In(inbox[c], NewOf(p)) \/ In(inbox[c], ListsOf(p))
    \/ \E k \in Calls : call[<<c, p, k>>] \in Subscribing \union {"done"}
NotMissed(c, p) ==
    Together(c, p) =>
        /\ Announced(c, p)
        /\ producer[p] = "open" /\ setup[c] \in {"list", "ready"} => Offered(c, p)

\* A ghost is about to be removed, unless the departure crossed a subscription: what
\* would add its card is followed by "peer-left", and who has it gets "peer-left".
Carded(c, p) == consuming[c][p] # 0 => p \in cards[c]
Departs(c, p) ==
    On(c) /\ conn[p] = "gone" /\ <<c, p>> \notin crossed =>
        /\ \A k \in Calls : call[<<c, p, k>>] \notin Subscribing
        /\ Followed(inbox[c], Adders(p), LeftOf(p))
        /\ p \in cards[c] => In(inbox[c], LeftOf(p))

Pair(c, p) ==
    /\ Mail(c, p) /\ Offers(c, p) /\ (\A k \in Calls : Follows(c, p, k))
    /\ Near(c, p) /\ NotMissed(c, p) /\ Carded(c, p) /\ Departs(c, p)

\* The classes that matter for a pair, and a step that c's mail about p does not notice.
About(p) ==
    {Adders(p), NewOf(p), ListsOf(p), ClosedOf(p), LeftOf(p)}
        \union {ConsumedOf(p, k) : k \in Calls} \union {ResumedOf(p, k) : k \in Calls}
SameMail(c, p) ==
    /\ \A M \in About(p) :
          /\ In(inbox'[c], M) <=> In(inbox[c], M)
          /\ Once(inbox[c], M) => Once(inbox'[c], M)
    /\ Followed(inbox[c], Adders(p), LeftOf(p)) => Followed(inbox'[c], Adders(p), LeftOf(p))

TypeInv == TypeOK /\ inbox \in [Conns -> Seq(Msgs)] /\ raced \subseteq Conns
Server == OneStatePerRoom /\ Registered /\ \A c \in Conns : Served(c)
Client(c) == Off(c) /\ Self(c) /\ Listed(c) /\ \A p \in Conns : Pair(c, p)

IInv == TypeInv /\ Server /\ \A c \in Conns : Client(c)

--------------------------------------------------------------------------------
\* Sequences of messages: what is under way after some more is sent, and after the
\* first has been received.
LEMMA Sent ==
    ASSUME NEW T, NEW q \in Seq(T), NEW s \in Seq(T), NEW M
    PROVE  /\ In(q \o s, M) <=> In(q, M) \/ In(s, M)
           /\ Once(q, M) /\ Once(s, M) /\ ~(In(q, M) /\ In(s, M)) => Once(q \o s, M)
<1>1. /\ q \o s \in Seq(T) /\ Len(q \o s) = Len(q) + Len(s)
      /\ Len(q) \in Nat /\ Len(s) \in Nat
      /\ \A i \in 1..Len(q) : (q \o s)[i] = q[i]
      /\ \A i \in 1..Len(s) : (q \o s)[Len(q) + i] = s[i]
  OBVIOUS
<1>2. \A i \in 1..Len(q \o s) : i \in 1..Len(q)
          \/ (i - Len(q) \in 1..Len(s) /\ (q \o s)[i] = s[i - Len(q)])
  <2> SUFFICES ASSUME NEW i \in 1..Len(q \o s), i \notin 1..Len(q)
               PROVE  i - Len(q) \in 1..Len(s) /\ (q \o s)[i] = s[i - Len(q)]
    OBVIOUS
  <2>1. i - Len(q) \in 1..Len(s) /\ i = Len(q) + (i - Len(q))
    BY <1>1
  <2> QED BY <2>1, <1>1
<1>3. In(q \o s, M) => In(q, M) \/ In(s, M)
  BY <1>1, <1>2 DEF In
<1>4. In(q, M) => In(q \o s, M)
  BY <1>1 DEF In
<1>5. In(s, M) => In(q \o s, M)
  <2> SUFFICES ASSUME NEW i \in 1..Len(s), s[i] \in M PROVE In(q \o s, M)
    BY DEF In
  <2>1. Len(q) + i \in 1..Len(q \o s) /\ (q \o s)[Len(q) + i] \in M
    BY <1>1
  <2> QED BY <2>1 DEF In
<1>6. ASSUME Once(q, M), Once(s, M), ~(In(q, M) /\ In(s, M))
      PROVE  Once(q \o s, M)
  <2> SUFFICES ASSUME NEW i \in 1..Len(q \o s), NEW j \in 1..Len(q \o s),
                      (q \o s)[i] \in M, (q \o s)[j] \in M
               PROVE  i = j
    BY DEF Once
  <2>1. CASE i \in 1..Len(q) /\ j \in 1..Len(q)
    BY <2>1, <1>1, <1>6 DEF Once
  <2>2. CASE i \notin 1..Len(q) /\ j \notin 1..Len(q)
    <3>1. i - Len(q) = j - Len(q)
      BY <2>2, <1>2, <1>6 DEF Once
    <3> QED BY <3>1, <1>1
  <2>3. CASE i \in 1..Len(q) /\ j \notin 1..Len(q)
    BY <2>3, <1>1, <1>2, <1>6 DEF In
  <2>4. CASE i \notin 1..Len(q) /\ j \in 1..Len(q)
    BY <2>4, <1>1, <1>2, <1>6 DEF In
  <2> QED BY <2>1, <2>2, <2>3, <2>4
<1> QED BY <1>3, <1>4, <1>5, <1>6

\* What comes last follows everything before it.
LEMMA SentLast ==
    ASSUME NEW T, NEW q \in Seq(T), NEW s \in Seq(T), NEW M, NEW L
    PROVE  /\ Followed(q, M, L) /\ Followed(s, M, L) => Followed(q \o s, M, L)
           /\ In(s, L) /\ Followed(s, M, L) => Followed(q \o s, M, L)
           /\ ~In(q, M) => Followed(q, M, L)
<1>1. /\ q \o s \in Seq(T) /\ Len(q \o s) = Len(q) + Len(s)
      /\ Len(q) \in Nat /\ Len(s) \in Nat
      /\ \A i \in 1..Len(q) : (q \o s)[i] = q[i]
      /\ \A i \in 1..Len(s) : (q \o s)[Len(q) + i] = s[i]
  OBVIOUS
<1>2. ASSUME Followed(s, M, L), Followed(q, M, L) \/ In(s, L)
      PROVE  Followed(q \o s, M, L)
  <2> SUFFICES ASSUME NEW i \in 1..Len(q \o s), (q \o s)[i] \in M
               PROVE  \E j \in 1..Len(q \o s) : i < j /\ (q \o s)[j] \in L
    BY DEF Followed
  <2>1. CASE i \in 1..Len(q) /\ Followed(q, M, L)
    <3>1. PICK j \in 1..Len(q) : i < j /\ q[j] \in L
      BY <2>1, <1>1 DEF Followed
    <3> QED BY <3>1, <1>1
  <2>2. CASE i \in 1..Len(q) /\ In(s, L)
    <3>1. PICK j \in 1..Len(s) : s[j] \in L
      BY <2>2 DEF In
    <3>2. Len(q) + j \in 1..Len(q \o s) /\ i < Len(q) + j /\ (q \o s)[Len(q) + j] \in L
      BY <3>1, <2>2, <1>1
    <3> QED BY <3>2
  <2>3. CASE i \notin 1..Len(q)
    <3>1. i - Len(q) \in 1..Len(s) /\ i = Len(q) + (i - Len(q))
      BY <2>3, <1>1
    <3>2. s[i - Len(q)] \in M
      BY <3>1, <1>1
    <3>3. PICK j \in 1..Len(s) : i - Len(q) < j /\ s[j] \in L
      BY <3>1, <3>2, <1>2 DEF Followed
    <3>4. Len(q) + j \in 1..Len(q \o s) /\ i < Len(q) + j /\ (q \o s)[Len(q) + j] \in L
      BY <3>3, <3>1, <1>1
    <3> QED BY <3>4
  <2> QED BY <1>2, <2>1, <2>2, <2>3
<1>3. ~In(q, M) => Followed(q, M, L)
  BY DEF In, Followed
<1> QED BY <1>2, <1>3

LEMMA Received ==
    ASSUME NEW T, NEW q \in Seq(T), q # <<>>, NEW M
    PROVE  /\ Head(q) \in T /\ Tail(q) \in Seq(T)
           /\ In(q, M) <=> Head(q) \in M \/ In(Tail(q), M)
           /\ Once(q, M) => Once(Tail(q), M)
           /\ Once(q, M) /\ Head(q) \in M => ~In(Tail(q), M)
<1>1. /\ Len(q) \in Nat \ {0} /\ Head(q) = q[1] /\ Len(Tail(q)) = Len(q) - 1
      /\ Head(q) \in T /\ Tail(q) \in Seq(T)
      /\ \A i \in 1..Len(Tail(q)) : Tail(q)[i] = q[i + 1]
  OBVIOUS
<1>2. \A i \in 1..Len(q) : i = 1 \/ (i - 1 \in 1..Len(Tail(q)) /\ Tail(q)[i - 1] = q[i])
  BY <1>1
<1>3. In(q, M) <=> Head(q) \in M \/ In(Tail(q), M)
  <2>1. In(q, M) => Head(q) \in M \/ In(Tail(q), M)
    BY <1>1, <1>2 DEF In
  <2>2. Head(q) \in M => In(q, M)
    BY <1>1 DEF In
  <2>3. In(Tail(q), M) => In(q, M)
    BY <1>1 DEF In
  <2> QED BY <2>1, <2>2, <2>3
<1>4. Once(q, M) => Once(Tail(q), M)
  <2> SUFFICES ASSUME Once(q, M), NEW i \in 1..Len(Tail(q)), NEW j \in 1..Len(Tail(q)),
                      Tail(q)[i] \in M, Tail(q)[j] \in M
               PROVE  i = j
    BY DEF Once
  <2>1. i + 1 \in 1..Len(q) /\ j + 1 \in 1..Len(q) /\ q[i + 1] \in M /\ q[j + 1] \in M
    BY <1>1
  <2>2. i + 1 = j + 1
    BY <2>1 DEF Once
  <2> QED BY <2>2, <1>1
<1>5. Once(q, M) /\ Head(q) \in M => ~In(Tail(q), M)
  <2> SUFFICES ASSUME Once(q, M), q[1] \in M, NEW i \in 1..Len(Tail(q)), Tail(q)[i] \in M
               PROVE  FALSE
    BY <1>1 DEF In
  <2>1. i + 1 \in 1..Len(q) /\ 1 \in 1..Len(q) /\ q[i + 1] \in M /\ i + 1 # 1
    BY <1>1
  <2> QED BY <2>1 DEF Once
<1> QED BY <1>1, <1>3, <1>4, <1>5

LEMMA ReceivedFirst ==
    ASSUME NEW T, NEW q \in Seq(T), q # <<>>, NEW M, NEW L, Followed(q, M, L)
    PROVE  Followed(Tail(q), M, L) /\ (Head(q) \in M => In(Tail(q), L))
<1>1. /\ Len(q) \in Nat \ {0} /\ Head(q) = q[1] /\ Len(Tail(q)) = Len(q) - 1
      /\ Tail(q) \in Seq(T)
      /\ \A i \in 1..Len(Tail(q)) : Tail(q)[i] = q[i + 1]
  OBVIOUS
<1>2. \A i \in 1..Len(q) : i = 1 \/ (i - 1 \in 1..Len(Tail(q)) /\ Tail(q)[i - 1] = q[i])
  BY <1>1
<1>3. Followed(Tail(q), M, L)
  <2> SUFFICES ASSUME NEW i \in 1..Len(Tail(q)), Tail(q)[i] \in M
               PROVE  \E j \in 1..Len(Tail(q)) : i < j /\ Tail(q)[j] \in L
    BY DEF Followed
  <2>1. i + 1 \in 1..Len(q) /\ q[i + 1] \in M
    BY <1>1
  <2>2. PICK j \in 1..Len(q) : i + 1 < j /\ q[j] \in L
    BY <2>1 DEF Followed
  <2>3. j - 1 \in 1..Len(Tail(q)) /\ i < j - 1 /\ Tail(q)[j - 1] \in L
    BY <2>2, <1>1, <1>2
  <2> QED BY <2>3
<1>4. Head(q) \in M => In(Tail(q), L)
  <2> SUFFICES ASSUME q[1] \in M PROVE In(Tail(q), L)
    BY <1>1
  <2>1. PICK j \in 1..Len(q) : 1 < j /\ q[j] \in L
    BY <1>1 DEF Followed
  <2>2. j - 1 \in 1..Len(Tail(q)) /\ Tail(q)[j - 1] \in L
    BY <2>1, <1>1, <1>2
  <2> QED BY <2>2 DEF In
<1> QED BY <1>3, <1>4

\* One message more; the same for every connection of D.
LEMMA Appended ==
    ASSUME NEW q \in Seq(Msgs), NEW m \in Msgs, NEW M
    PROVE  /\ Plus(q, m) \in Seq(Msgs) /\ Plus(q, m) # <<>>
           /\ In(Plus(q, m), M) <=> In(q, M) \/ m \in M
           /\ Once(q, M) /\ ~(In(q, M) /\ m \in M) => Once(Plus(q, m), M)
<1>1. /\ <<m>> \in Seq(Msgs) /\ Once(<<m>>, M)
      /\ In(<<m>>, M) <=> m \in M
  BY DEF In, Once
<1>2. Plus(q, m) \in Seq(Msgs) /\ Plus(q, m) # <<>>
  BY DEF Plus
<1> QED BY <1>1, <1>2, Sent DEF Plus

LEMMA Beside ==
    ASSUME NEW q \in Seq(Msgs), NEW m \in Msgs, NEW M, m \notin M
    PROVE  (In(Plus(q, m), M) <=> In(q, M)) /\ (Once(q, M) => Once(Plus(q, m), M))
BY Appended

LEMMA AppendedLast ==
    ASSUME NEW q \in Seq(Msgs), NEW m \in Msgs, NEW M, NEW L, m \notin M,
           Followed(q, M, L) \/ m \in L
    PROVE  Followed(Plus(q, m), M, L)
<1>1. /\ <<m>> \in Seq(Msgs) /\ Followed(<<m>>, M, L)
      /\ In(<<m>>, L) <=> m \in L
  BY DEF In, Followed
<1> QED BY <1>1, SentLast DEF Plus

LEMMA Telling ==
    ASSUME NEW box \in [Conns -> Seq(Msgs)], NEW D, NEW s \in Seq(Msgs)
    PROVE  /\ Tell(box, D, s) \in [Conns -> Seq(Msgs)]
           /\ \A d \in Conns : Tell(box, D, s)[d] = IF d \in D THEN box[d] \o s ELSE box[d]
BY DEF Tell

\* The message that is handled, by its type
LEMMA Opening ==
    ASSUME TypeInv, NEW c \in Conns, NEW type, Gets(c, type)
    PROVE  /\ inbox[c] \in Seq(Msgs) /\ inbox[c] # <<>> /\ Tail(inbox[c]) \in Seq(Msgs)
           /\ Rest(c) \in [Conns -> Seq(Msgs)] /\ Rest(c)[c] = Tail(inbox[c])
           /\ \A d \in Conns \ {c} : Rest(c)[d] = inbox[d]
           /\ Head(inbox[c]) = <<type, Payload(c)>>
           /\ type \in {"joined", "transport", "new-producer", "produced", "closed", "left"} =>
                  Payload(c) \in Conns
           /\ type \in {"peers", "list"} => Payload(c) \in SUBSET Conns
           /\ type \in {"consumed", "resumed"} =>
                  /\ Payload(c) \in Conns \X Calls
                  /\ Payload(c) = <<Payload(c)[1], Payload(c)[2]>>
<1>1. inbox \in [Conns -> Seq(Msgs)] /\ inbox[c] \in Seq(Msgs) /\ inbox[c] # <<>>
  BY DEF TypeInv, Gets
<1>2. Head(inbox[c]) \in Msgs /\ Tail(inbox[c]) \in Seq(Msgs)
  BY <1>1, Received
<1>3. Head(inbox[c])[1] = type
  BY DEF Gets
<1> DEFINE m == Head(inbox[c])
<1> HIDE DEF m
<1>4. m \in Msgs /\ m[1] = type
  BY <1>2, <1>3 DEF m
<1>5. /\ m = <<type, m[2]>>
      /\ type \in {"joined", "transport", "new-producer", "produced", "closed", "left"} =>
             m[2] \in Conns
      /\ type \in {"peers", "list"} => m[2] \in SUBSET Conns
      /\ type \in {"consumed", "resumed"} =>
             m[2] \in Conns \X Calls /\ m[2] = <<m[2][1], m[2][2]>>
  BY <1>4 DEF Msgs
<1>6. Payload(c) = m[2]
  BY DEF Payload, m
<1>7. /\ Rest(c) \in [Conns -> Seq(Msgs)] /\ Rest(c)[c] = Tail(inbox[c])
      /\ \A d \in Conns \ {c} : Rest(c)[d] = inbox[d]
  BY <1>1, <1>2 DEF Rest
<1> QED BY <1>1, <1>2, <1>5, <1>6, <1>7 DEF m

\* A message that is not about p, sent or received
LEMMA Unrelated ==
    ASSUME NEW c \in Conns, NEW p \in Conns, inbox[c] \in Seq(Msgs),
           NEW m \in Msgs, \A M \in About(p) : m \notin M,
           \/ inbox'[c] = Plus(inbox[c], m)
           \/ inbox[c] # <<>> /\ m = Head(inbox[c]) /\ inbox'[c] = Tail(inbox[c])
    PROVE  SameMail(c, p)
<1>1. Adders(p) \in About(p)
  BY DEF About
<1>2. CASE inbox'[c] = Plus(inbox[c], m)
  <2>1. \A M \in About(p) :
           /\ In(inbox'[c], M) <=> In(inbox[c], M)
           /\ Once(inbox[c], M) => Once(inbox'[c], M)
    BY <1>2, Appended
  <2>2. Followed(inbox[c], Adders(p), LeftOf(p)) => Followed(inbox'[c], Adders(p), LeftOf(p))
    BY <1>2, <1>1, AppendedLast
  <2> QED BY <2>1, <2>2 DEF SameMail
<1>3. CASE inbox[c] # <<>> /\ m = Head(inbox[c]) /\ inbox'[c] = Tail(inbox[c])
  <2>1. \A M \in About(p) :
           /\ In(inbox'[c], M) <=> In(inbox[c], M)
           /\ Once(inbox[c], M) => Once(inbox'[c], M)
    BY <1>3, Received
  <2>2. Followed(inbox[c], Adders(p), LeftOf(p)) => Followed(inbox'[c], Adders(p), LeftOf(p))
    BY <1>3, <1>1, ReceivedFirst
  <2> QED BY <2>1, <2>2 DEF SameMail
<1> QED BY <1>2, <1>3

LEMMA SameInbox ==
    ASSUME NEW c \in Conns, NEW p \in Conns, inbox'[c] = inbox[c]
    PROVE  SameMail(c, p)
BY DEF SameMail

LEMMA SameClasses ==
    ASSUME NEW c \in Conns, NEW p \in Conns, SameMail(c, p)
    PROVE  /\ \A M \in {Adders(p), NewOf(p), ListsOf(p), ClosedOf(p), LeftOf(p)} :
                  /\ In(inbox'[c], M) <=> In(inbox[c], M)
                  /\ Once(inbox[c], M) => Once(inbox'[c], M)
           /\ \A k \in Calls :
                 /\ In(inbox'[c], ConsumedOf(p, k)) <=> In(inbox[c], ConsumedOf(p, k))
                 /\ In(inbox'[c], ResumedOf(p, k)) <=> In(inbox[c], ResumedOf(p, k))
                 /\ Once(inbox[c], ConsumedOf(p, k)) => Once(inbox'[c], ConsumedOf(p, k))
                 /\ Once(inbox[c], ResumedOf(p, k)) => Once(inbox'[c], ResumedOf(p, k))
           /\ Followed(inbox[c], Adders(p), LeftOf(p)) =>
                  Followed(inbox'[c], Adders(p), LeftOf(p))
<1>1. \A M \in About(p) :
         /\ In(inbox'[c], M) <=> In(inbox[c], M)
         /\ Once(inbox[c], M) => Once(inbox'[c], M)
  BY DEF SameMail
<1>2. {Adders(p), NewOf(p), ListsOf(p), ClosedOf(p), LeftOf(p)} \subseteq About(p)
  BY DEF About
<1>3. \A k \in Calls : ConsumedOf(p, k) \in About(p) /\ ResumedOf(p, k) \in About(p)
  BY DEF About
<1>4. Followed(inbox[c], Adders(p), LeftOf(p)) => Followed(inbox'[c], Adders(p), LeftOf(p))
  BY DEF SameMail
<1> QED BY <1>1, <1>2, <1>3, <1>4

\* What a step leaves alone of a pair keeps what holds for it, also while p's producer is
\* not there yet, and while c's set-up has not come to the list.  The same for a client
\* and what it has of itself, and for a client and everybody.
LEMMA Bystander ==
    ASSUME NEW c \in Conns, NEW p \in Conns, Pair(c, p), SameMail(c, p),
           conn'[c] = conn[c], conn'[p] = conn[p], room' = room,
           <<c, p>> \in crossed' <=> <<c, p>> \in crossed,
           p \in cards'[c] <=> p \in cards[c], consuming'[c][p] = consuming[c][p],
           \A k \in Calls : /\ call'[<<c, p, k>>] = call[<<c, p, k>>]
                            /\ consumer'[<<c, p, k>>] = consumer[<<c, p, k>>],
           \/ setup'[c] = setup[c]
           \/ setup[c] \notin {"list", "ready"} /\ setup'[c] \notin {"list", "ready"}
           \/ setup[c] = "list" /\ setup'[c] = "ready",
           \/ producer'[p] = producer[p]
           \/ producer[p] \in {"none", "asked"} /\ (producer'[p] # "open" \/ ~Together(c, p))
    PROVE  Pair(c, p)'
<1>1. /\ \A M \in {Adders(p), NewOf(p), ListsOf(p), ClosedOf(p), LeftOf(p)} :
             In(inbox'[c], M) <=> In(inbox[c], M)
      /\ Once(inbox[c], NewOf(p)) => Once(inbox'[c], NewOf(p))
      /\ \A k \in Calls :
            /\ In(inbox'[c], ConsumedOf(p, k)) <=> In(inbox[c], ConsumedOf(p, k))
            /\ In(inbox'[c], ResumedOf(p, k)) <=> In(inbox[c], ResumedOf(p, k))
            /\ Once(inbox[c], ConsumedOf(p, k)) => Once(inbox'[c], ConsumedOf(p, k))
            /\ Once(inbox[c], ResumedOf(p, k)) => Once(inbox'[c], ResumedOf(p, k))
      /\ Followed(inbox[c], Adders(p), LeftOf(p)) => Followed(inbox'[c], Adders(p), LeftOf(p))
  BY SameClasses
<1>2. Mail(c, p)'
  <2>1. OfGone(c, p)' => conn'[p] = "gone"
    BY <1>1 DEF Pair, Mail, OfGone
  <2>2. \A k \in Calls : Answers(c, p, k)'
    BY <1>1 DEF Pair, Mail, Answers
  <2>3. Once(inbox'[c], NewOf(p)) /\ (In(inbox'[c], NewOf(p)) => producer'[p] \notin {"none", "asked"})
    BY <1>1 DEF Pair, Mail
  <2> QED BY <2>1, <2>2, <2>3 DEF Mail
<1>3. Offers(c, p)'
  BY <1>1 DEF Pair, Mail, Offers, Expected, Calls
<1>4. \A k \in Calls : Follows(c, p, k)'
  BY DEF Pair, Follows, On
<1>5. Near(c, p)' /\ Carded(c, p)'
  BY <1>1 DEF Pair, Near, Announced, Carded
<1>6. NotMissed(c, p)'
  BY <1>1 DEF Pair, NotMissed, Announced, Offered, Together, On
<1>7. Departs(c, p)'
  BY <1>1 DEF Pair, Departs, On
<1> QED BY <1>2, <1>3, <1>4, <1>5, <1>6, <1>7 DEF Pair

LEMMA Alone ==
    ASSUME NEW c \in Conns, Client(c), SameMail(c, c),
           In(inbox'[c], Lists) <=> In(inbox[c], Lists),
           Once(inbox[c], Lists) => Once(inbox'[c], Lists),
           conn'[c] = conn[c], cards'[c] = cards[c], consuming'[c] = consuming[c],
           \A p \in Conns, k \in Calls : /\ call'[<<c, p, k>>] = call[<<c, p, k>>]
                                         /\ consumer'[<<c, p, k>>] = consumer[<<c, p, k>>],
           On(c) \/ (inbox'[c] = inbox[c] /\ setup'[c] = setup[c]),
           \/ setup'[c] = setup[c]
           \/ setup[c] \notin {"list", "ready"} /\ setup'[c] \notin {"list", "ready"}
    PROVE  Off(c)' /\ Self(c)' /\ Listed(c)'
<1>1. Off(c)'
  BY DEF Client, Off, On
<1>2. Self(c)'
  BY SameClasses DEF Client, Self
<1>3. Listed(c)'
  BY DEF Client, Listed
<1> QED BY <1>1, <1>2, <1>3

LEMMA Untouched ==
    ASSUME NEW c \in Conns, Client(c), \A p \in Conns : SameMail(c, p),
           In(inbox'[c], Lists) <=> In(inbox[c], Lists),
           Once(inbox[c], Lists) => Once(inbox'[c], Lists),
           UNCHANGED <<conn, room, crossed>>, cards'[c] = cards[c], consuming'[c] = consuming[c],
           \A p \in Conns, k \in Calls : /\ call'[<<c, p, k>>] = call[<<c, p, k>>]
                                         /\ consumer'[<<c, p, k>>] = consumer[<<c, p, k>>],
           On(c) \/ (inbox'[c] = inbox[c] /\ setup'[c] = setup[c]),
           \/ setup'[c] = setup[c]
           \/ setup[c] \notin {"list", "ready"} /\ setup'[c] \notin {"list", "ready"},
           \A p \in Conns : \/ producer'[p] = producer[p]
                            \/ producer[p] \in {"none", "asked"} /\ producer'[p] # "open"
    PROVE  Client(c)'
<1>1. Off(c)' /\ Self(c)' /\ Listed(c)'
  BY Alone
<1>2. \A p \in Conns : Pair(c, p)'
  BY Bystander DEF Client
<1> QED BY <1>1, <1>2 DEF Client

\* Messages that are about nobody, about somebody else, or no list
LEMMA AboutNobody ==
    ASSUME NEW p \in Conns, NEW x \in Conns, NEW M \in About(p) \union {Lists}
    PROVE  <<"transport", x>> \notin M /\ <<"produced", x>> \notin M
BY DEF About, Adders, NewOf, Lists, ListsOf, ConsumedOf, ResumedOf, ClosedOf, LeftOf

LEMMA AboutOthers ==
    ASSUME NEW p \in Conns, NEW x \in Conns \ {p}, NEW S \in SUBSET Conns, p \notin S,
           NEW j \in Calls, NEW M \in About(p)
    PROVE  \A m \in {<<"joined", x>>, <<"peers", S>>, <<"new-producer", x>>, <<"list", S>>,
                     <<"consumed", <<x, j>>>>, <<"resumed", <<x, j>>>>, <<"closed", x>>,
                     <<"left", x>>} : m \notin M
BY DEF About, Adders, NewOf, Lists, ListsOf, ConsumedOf, ResumedOf, ClosedOf, LeftOf

--------------------------------------------------------------------------------
LEMMA InitInv == Init => IInv
<1> SUFFICES ASSUME Init PROVE IInv
  OBVIOUS
<1> USE SignallingAssumption
<1>1. TypeInv
  BY DEF Init, TypeInv, TypeOK, Calls
<1>2. Server
  BY DEF Init, Server, OneStatePerRoom, Registered, Served, On
<1>3. \A c \in Conns : inbox[c] = <<>>
  BY DEF Init
<1>4. \A M : ~In(<<>>, M) /\ Once(<<>>, M)
  BY DEF In, Once
<1>5. ASSUME NEW c \in Conns PROVE Client(c)
  <2>1. Off(c)
    BY <1>3 DEF Init, Off
  <2>2. Self(c) /\ Listed(c)
    BY <1>3, <1>4 DEF Init, Self, Listed
  <2>3. ASSUME NEW p \in Conns PROVE Pair(c, p)
    <3>1. ~On(c) /\ p \notin cards[c] /\ consuming[c][p] = 0
      BY DEF Init, On
    <3>2. \A k \in Calls : call[<<c, p, k>>] = "none" /\ consumer[<<c, p, k>>] = "none"
      BY DEF Init
    <3>3. Mail(c, p)
      BY <1>3, <1>4, <3>2 DEF Mail, OfGone, Answers
    <3>4. Offers(c, p)
      BY <3>2 DEF Offers, Calls
    <3>5. Near(c, p) /\ Carded(c, p)
      BY <1>3, <1>4, <3>1, <3>2 DEF Near, Carded, Announced, Subscribing
    <3>6. (\A k \in Calls : Follows(c, p, k)) /\ NotMissed(c, p) /\ Departs(c, p)
      BY <3>1 DEF Follows, NotMissed, Departs, Together
    <3> QED BY <3>3, <3>4, <3>5, <3>6 DEF Pair
  <2> QED BY <2>1, <2>2, <2>3 DEF Client
<1> QED BY <1>1, <1>2, <1>5 DEF IInv

--------------------------------------------------------------------------------
\* Who is here finds itself and the others in the state of its room, which it captured.
LEMMA Here ==
    ASSUME TypeInv, OneStatePerRoom, NEW c \in Conns, On(c)
    PROVE  /\ room[c] \in Rooms /\ stateOf[c] = rooms[room[c]] /\ stateOf[c] \in Conns
           /\ peersOf[stateOf[c]] = {d \in Conns : On(d) /\ room[d] = room[c]}
<1>1. room[c] \in Rooms /\ rooms[room[c]] \in Conns \union {None}
  BY DEF TypeInv, TypeOK
<1> DEFINE here == {d \in Conns : On(d) /\ room[d] = room[c]}
<1>2. c \in here
  OBVIOUS
<1>3. /\ \A d \in here : stateOf[d] = rooms[room[c]]
      /\ IF rooms[room[c]] = None THEN here = {} ELSE here # {} /\ peersOf[rooms[room[c]]] = here
  BY <1>1 DEF OneStatePerRoom
<1>4. rooms[room[c]] # None
  BY <1>2, <1>3
<1> QED BY <1>1, <1>2, <1>3, <1>4

\* Whoever receives something, or has a call under way, is here.
LEMMA Present ==
    ASSUME IInv, NEW c \in Conns
    PROVE  /\ inbox[c] # <<>> => On(c)
           /\ \A type : Gets(c, type) => On(c)
           /\ \A p \in Conns, k \in Calls : call[<<c, p, k>>] # "none" => On(c)
           /\ \A p \in Conns, k \in Calls :
                 consumer[<<c, p, k>>] \notin {"none", "closed"} => On(c)
BY DEF IInv, Client, Off, Gets

--------------------------------------------------------------------------------
\* The types.  A step changes the inboxes and some of the functions that TypeOK bounds;
\* that nobody has a card of itself, or hears itself, is because it is never offered to
\* itself.
Placed ==
    /\ conn \in [Conns -> {"off", "on", "gone"}]
    /\ room \in [Conns -> Rooms]
    /\ rooms \in [Rooms -> Conns \union {None}]
    /\ stateOf \in [Conns -> Conns \union {None}]
    /\ peersOf \in [Conns -> SUBSET Conns]
Kept ==
    /\ sendT \in [Conns -> {"none", "asked", "open", "closed"}]
    /\ recvT \in [Conns -> {"none", "asked", "open", "closed"}]
    /\ producer \in [Conns -> {"none", "asked", "open", "closed"}]
    /\ owners \subseteq Conns /\ raced \subseteq Conns
Called ==
    /\ consumer \in [Conns \X Conns \X Calls -> {"none", "paused", "live", "closing", "closed"}]
    /\ call \in [Conns \X Conns \X Calls ->
                    {"none", "asked", "refused", "acked", "local", "resuming", "done"}]
Shown ==
    /\ setup \in [Conns -> {"none", "send", "produce", "recv", "list", "ready"}]
    /\ consuming \in [Conns -> [Conns -> {0} \union Calls]]
    /\ cards \in [Conns -> SUBSET Conns]
    /\ \A c \in Conns : c \notin cards[c] /\ consuming[c][c] = 0

LEMMA Parts ==
    TypeInv <=> Placed /\ Kept /\ Called /\ Shown /\ inbox \in [Conns -> Seq(Msgs)]
<1>1. ASSUME TypeInv PROVE Placed /\ Kept /\ Called /\ Shown /\ inbox \in [Conns -> Seq(Msgs)]
  BY <1>1 DEF TypeInv, TypeOK, Placed, Kept, Called, Shown
<1>2. ASSUME Placed, Kept, Called, Shown, inbox \in [Conns -> Seq(Msgs)] PROVE TypeInv
  BY <1>2 DEF TypeInv, TypeOK, Placed, Kept, Called, Shown
<1> QED BY <1>1, <1>2

LEMMA ConnectType ==
    ASSUME TypeInv, NEW c \in Conns, Connect(c)
    PROVE  TypeInv'
<1>0. Placed /\ Kept /\ Called /\ Shown /\ inbox \in [Conns -> Seq(Msgs)]
  BY Parts
<1> DEFINE r == room[c]
           s == IF rooms[r] = None THEN c ELSE rooms[r]
<1>1. r \in Rooms /\ s \in Conns /\ PeersFor(c, s) \in SUBSET Conns
  BY <1>0 DEF Placed, PeersFor
<1>3. <<<<"peers", PeersFor(c, s)>>>> \in Seq(Msgs) /\ <<<<"joined", c>>>> \in Seq(Msgs)
  BY <1>1 DEF Msgs
<1>4. Tell(inbox, RoomMates(c), <<<<"joined", c>>>>) \in [Conns -> Seq(Msgs)]
  BY <1>0, <1>3, Telling
<1>5. inbox' \in [Conns -> Seq(Msgs)]
  BY <1>3, <1>4 DEF Connect
<1>6. Placed'
  BY <1>0, <1>1 DEF Connect, Placed
<1>7. Kept' /\ Called' /\ Shown'
  BY <1>0 DEF Connect, clientVars, Kept, Called, Shown
<1> QED BY <1>5, <1>6, <1>7 DEF TypeInv, TypeOK, Placed, Kept, Called, Shown

LEMMA SetupType ==
    ASSUME TypeInv, OneStatePerRoom, NEW c \in Conns, Off(c),
           \/ AskSendTransport(c) \/ SendTransportCreated(c) \/ RecvTransportCreated(c)
           \/ AskProduce(c) \/ Produced(c) \/ ProduceFailsForDeparted(c)
           \/ AskRecvTransport(c) \/ AskProducers(c)
    PROVE  TypeInv'
<1>0. Placed /\ Kept /\ Called /\ Shown /\ inbox \in [Conns -> Seq(Msgs)]
  BY Parts
<1>m. /\ \A m \in {<<"transport", c>>, <<"new-producer", c>>, <<"produced", c>>} :
             <<m>> \in Seq(Msgs)
      /\ \A S \in SUBSET Conns : <<<<"list", S>>>> \in Seq(Msgs)
  BY DEF Msgs
<1>1. inbox' \in [Conns -> Seq(Msgs)]
  <2>1. CASE AskSendTransport(c) \/ ProduceFailsForDeparted(c)
    BY <1>0, <2>1 DEF AskSendTransport, ProduceFailsForDeparted
  <2>2. CASE SendTransportCreated(c) \/ RecvTransportCreated(c)
    <3>1. Tell(inbox, {c}, <<<<"transport", c>>>>) \in [Conns -> Seq(Msgs)]
      BY <1>0, <1>m, Telling
    <3> QED BY <1>0, <2>2, <3>1 DEF SendTransportCreated, RecvTransportCreated
  <2>3. CASE AskProduce(c) \/ AskRecvTransport(c)
    BY <2>3, Opening DEF AskProduce, AskRecvTransport
  <2>4. CASE Produced(c)
    <3>1. Tell(inbox, RoomMates(c), <<<<"new-producer", c>>>>) \in [Conns -> Seq(Msgs)]
      BY <1>0, <1>m, Telling
    <3> QED BY <2>4, <3>1, <1>m, Telling DEF Produced
  <2>5. CASE AskProducers(c)
    <3>1. Gets(c, "transport")
      BY <2>5 DEF AskProducers
    <3>2. Rest(c) \in [Conns -> Seq(Msgs)] /\ On(c)
      BY <3>1, Opening DEF Gets, Off
    <3>3. peersOf[stateOf[c]] \subseteq Conns
      BY <3>2, Here
    <3> DEFINE listed == {d \in peersOf[stateOf[c]] \ {c} : producer[d] = "open"}
    <3>4. <<<<"list", listed>>>> \in Seq(Msgs)
      BY <3>3, <1>m
    <3>5. inbox' = Tell(Rest(c), {c}, <<<<"list", listed>>>>)
      BY <2>5 DEF AskProducers
    <3> HIDE DEF listed
    <3> QED BY <3>2, <3>4, <3>5, Telling
  <2> QED BY <2>1, <2>2, <2>3, <2>4, <2>5
<1>2. Placed' /\ Called'
  BY <1>0 DEF Placed, Called, AskSendTransport, SendTransportCreated, RecvTransportCreated,
       AskProduce, Produced, ProduceFailsForDeparted, AskRecvTransport, AskProducers,
       serverVars, clientVars
<1>3. Kept'
  BY <1>0 DEF Kept, AskSendTransport, SendTransportCreated, RecvTransportCreated,
       AskProduce, Produced, ProduceFailsForDeparted, AskRecvTransport, AskProducers,
       serverVars
<1>4. Shown'
  BY <1>0 DEF Shown, AskSendTransport, SendTransportCreated, RecvTransportCreated,
       AskProduce, Produced, ProduceFailsForDeparted, AskRecvTransport, AskProducers,
       clientVars
<1> QED BY <1>1, <1>2, <1>3, <1>4 DEF TypeInv, TypeOK, Placed, Kept, Called, Shown

\* The calls after consumeProducer was called for the producers of P.
LEMMA Consuming ==
    ASSUME Called, NEW c \in Conns, NEW P \in SUBSET Conns, Consume(c, P)
    PROVE  /\ call' \in [Conns \X Conns \X Calls ->
                  {"none", "asked", "refused", "acked", "local", "resuming", "done"}]
           /\ \A d, p \in Conns, k \in Calls :
                 call'[<<d, p, k>>] =
                     IF d = c /\ p \in Wanted(c, P) /\ k = FreeCall(c, p)
                     THEN IF p \in Refused(c, P) THEN "refused" ELSE "asked"
                     ELSE call[<<d, p, k>>]
<1>1. DOMAIN call = Conns \X Conns \X Calls
  BY DEF Called
<1>2. \A d, p \in Conns, k \in Calls :
         call'[<<d, p, k>>] =
             IF d = c /\ p \in Wanted(c, P) /\ k = FreeCall(c, p)
             THEN IF p \in Refused(c, P) THEN "refused" ELSE "asked"
             ELSE call[<<d, p, k>>]
  BY <1>1 DEF Consume
<1>3. call' \in [Conns \X Conns \X Calls ->
             {"none", "asked", "refused", "acked", "local", "resuming", "done"}]
  BY <1>1 DEF Consume, Called
<1> QED BY <1>2, <1>3

LEMMA CallType ==
    ASSUME TypeInv, NEW c \in Conns, Client(c),
           \/ OnNewProducer(c) \/ OnProducers(c) \/ OnConsumed(c) \/ OnResumed(c)
           \/ \E p \in Conns, k \in Calls : Consumed(c, p, k) \/ LocalConsumed(c, p, k)
    PROVE  TypeInv'
<1>0. Placed /\ Kept /\ Called /\ Shown /\ inbox \in [Conns -> Seq(Msgs)]
  BY Parts
<1>1. CASE OnNewProducer(c)
  <2>1. Rest(c) \in [Conns -> Seq(Msgs)] /\ {Payload(c)} \in SUBSET Conns
    BY <1>1, Opening DEF OnNewProducer
  <2>2. Called'
    BY <1>0, <1>1, <2>1, Consuming DEF OnNewProducer, Called
  <2>3. Placed' /\ Kept' /\ Shown'
    BY <1>0, <1>1 DEF OnNewProducer, serverVars, Placed, Kept, Shown
  <2> QED BY <1>1, <2>1, <2>2, <2>3
          DEF OnNewProducer, TypeInv, TypeOK, Placed, Kept, Called, Shown
<1>2. CASE OnProducers(c)
  <2>1. Rest(c) \in [Conns -> Seq(Msgs)] /\ Payload(c) \in SUBSET Conns
    BY <1>2, Opening DEF OnProducers
  <2>2. Called'
    BY <1>0, <1>2, <2>1, Consuming DEF OnProducers, Called
  <2>3. Placed' /\ Kept' /\ Shown'
    BY <1>0, <1>2 DEF OnProducers, serverVars, Placed, Kept, Shown
  <2> QED BY <1>2, <2>1, <2>2, <2>3
          DEF OnProducers, TypeInv, TypeOK, Placed, Kept, Called, Shown
<1>3. CASE OnConsumed(c)
  <2>1. Rest(c) \in [Conns -> Seq(Msgs)]
    BY <1>3, Opening DEF OnConsumed
  <2>2. Placed' /\ Kept' /\ Called' /\ Shown'
    BY <1>0, <1>3 DEF OnConsumed, serverVars, Placed, Kept, Called, Shown
  <2> QED BY <1>3, <2>1, <2>2
          DEF OnConsumed, TypeInv, TypeOK, Placed, Kept, Called, Shown
<1>4. CASE OnResumed(c)
  <2> DEFINE p == Payload(c)[1]
             k == Payload(c)[2]
  <2>1. /\ Rest(c) \in [Conns -> Seq(Msgs)] /\ p \in Conns /\ k \in Calls
        /\ Payload(c) = <<p, k>>
    BY <1>4, Opening DEF OnResumed
  <2>2. p # c
    <3>1. Head(inbox[c]) = <<"resumed", <<p, k>>>> /\ inbox[c] \in Seq(Msgs) /\ inbox[c] # <<>>
      BY <1>4, <2>1, Opening DEF OnResumed
    <3>2. In(inbox[c], ResumedOf(p, k))
      BY <3>1, <2>1, Received DEF ResumedOf
    <3> QED BY <3>2, <2>1 DEF Client, Self, Pair, Mail, Answers
  <2>3. Placed' /\ Kept' /\ Called'
    BY <1>0, <1>4 DEF OnResumed, serverVars, Placed, Kept, Called
  <2>4. cards' = [cards EXCEPT ![c] = @ \union {p}]
        /\ consuming' = [consuming EXCEPT ![c][p] = k] /\ setup' = setup
    BY <1>4 DEF OnResumed
  <2> HIDE DEF p, k
  <2>5. Shown'
    <3>1. consuming' \in [Conns -> [Conns -> {0} \union Calls]]
      BY <1>0, <2>1, <2>4 DEF Shown
    <3>2. cards' \in [Conns -> SUBSET Conns]
      BY <1>0, <2>1, <2>4 DEF Shown
    <3>3. \A d \in Conns : d \notin cards'[d] /\ consuming'[d][d] = 0
      BY <1>0, <2>1, <2>2, <2>4 DEF Shown
    <3> QED BY <1>0, <2>4, <3>1, <3>2, <3>3 DEF Shown
  <2> QED BY <1>4, <2>1, <2>3, <2>5
          DEF OnResumed, TypeInv, TypeOK, Placed, Kept, Called, Shown
<1>5. ASSUME NEW p \in Conns, NEW k \in Calls, Consumed(c, p, k) \/ LocalConsumed(c, p, k)
      PROVE  TypeInv'
  <2> DEFINE consumed == <<<<"consumed", <<p, k>>>>>>
             resumed == <<<<"resumed", <<p, k>>>>>>
  <2>1. consumed \in Seq(Msgs) /\ resumed \in Seq(Msgs)
    BY DEF Msgs
  <2>2. inbox' \in [Conns -> Seq(Msgs)]
    <3>1. inbox' \in {inbox, Tell(inbox, {c}, consumed), Tell(inbox, {c}, resumed)}
      BY <1>5 DEF Consumed, LocalConsumed
    <3> HIDE DEF consumed, resumed
    <3> QED BY <1>0, <2>1, <3>1, Telling
  <2>3. Placed' /\ Kept' /\ Shown'
    BY <1>0, <1>5 DEF Consumed, LocalConsumed, serverVars, Placed, Kept, Shown
  <2>4. Called'
    <3>1. consumer'[<<c, p, k>>] \in {"none", "paused", "live", "closing", "closed"}
          /\ (consumer' = consumer \/
              consumer' = [consumer EXCEPT ![<<c, p, k>>] = consumer'[<<c, p, k>>]])
      BY <1>0, <1>5 DEF Consumed, LocalConsumed, Called
    <3>2. \E v \in {"refused", "acked", "resuming"} : call' = [call EXCEPT ![<<c, p, k>>] = v]
      BY <1>5 DEF Consumed, LocalConsumed
    <3> QED BY <1>0, <3>1, <3>2 DEF Called
  <2> QED BY <2>2, <2>3, <2>4 DEF TypeInv, TypeOK, Placed, Kept, Called, Shown
<1> QED BY <1>1, <1>2, <1>3, <1>4, <1>5

LEMMA CardType ==
    ASSUME TypeInv, NEW c \in Conns, Client(c),
           \/ OnPeers(c) \/ OnPeerJoined(c) \/ OnProducerClosed(c) \/ OnPeerLeft(c)
           \/ \E p \in Conns, k \in Calls : ConsumerProducerClose(c, p, k)
    PROVE  TypeInv'
<1>0. Placed /\ Kept /\ Called /\ Shown /\ inbox \in [Conns -> Seq(Msgs)]
  BY Parts
<1>1. CASE OnPeers(c)
  <2>1. /\ Rest(c) \in [Conns -> Seq(Msgs)] /\ Payload(c) \in SUBSET Conns
        /\ Head(inbox[c]) = <<"peers", Payload(c)>>
        /\ inbox[c] \in Seq(Msgs) /\ inbox[c] # <<>>
    BY <1>1, Opening DEF OnPeers
  <2>2. c \notin Payload(c)
    <3>1. c \in Payload(c) => <<"peers", Payload(c)>> \in Adders(c)
      BY <2>1 DEF Adders
    <3>2. <<"peers", Payload(c)>> \in Adders(c) => In(inbox[c], Adders(c))
      BY <2>1, Received
    <3> QED BY <3>1, <3>2 DEF Client, Self
  <2>3. Placed' /\ Kept' /\ Called' /\ Shown'
    BY <1>0, <1>1, <2>1, <2>2 DEF OnPeers, serverVars, Placed, Kept, Called, Shown
  <2> QED BY <1>1, <2>1, <2>3 DEF OnPeers, TypeInv, TypeOK, Placed, Kept, Called, Shown
<1>2. CASE OnPeerJoined(c)
  <2>1. /\ Rest(c) \in [Conns -> Seq(Msgs)] /\ Payload(c) \in Conns
        /\ Head(inbox[c]) = <<"joined", Payload(c)>>
        /\ inbox[c] \in Seq(Msgs) /\ inbox[c] # <<>>
    BY <1>2, Opening DEF OnPeerJoined
  <2>2. c # Payload(c)
    <3>1. c = Payload(c) => <<"joined", Payload(c)>> \in Adders(c)
      BY <2>1 DEF Adders
    <3>2. <<"joined", Payload(c)>> \in Adders(c) => In(inbox[c], Adders(c))
      BY <2>1, Received
    <3> QED BY <3>1, <3>2 DEF Client, Self
  <2>3. Placed' /\ Kept' /\ Called' /\ Shown'
    BY <1>0, <1>2, <2>1, <2>2 DEF OnPeerJoined, serverVars, Placed, Kept, Called, Shown
  <2> QED BY <1>2, <2>1, <2>3 DEF OnPeerJoined, TypeInv, TypeOK, Placed, Kept, Called, Shown
<1>3. CASE OnProducerClosed(c) \/ OnPeerLeft(c)
  <2>1. Rest(c) \in [Conns -> Seq(Msgs)] /\ Payload(c) \in Conns
    BY <1>3, Opening DEF OnProducerClosed, OnPeerLeft
  <2>2. /\ inbox' = Rest(c)
        /\ consumer' \in {consumer, ServerClose(c, Payload(c))}
        /\ consuming' \in {consuming, [consuming EXCEPT ![c][Payload(c)] = 0]}
        /\ cards' \in {cards, [cards EXCEPT ![c] = @ \ {Payload(c)}]}
        /\ UNCHANGED <<serverVars, setup, call>>
    BY <1>3 DEF OnProducerClosed, OnPeerLeft
  <2>3. Placed' /\ Kept'
    BY <1>0, <2>2 DEF serverVars, Placed, Kept
  <2>4. Shown'
    <3>1. /\ consuming \in [Conns -> [Conns -> {0} \union Calls]]
          /\ cards \in [Conns -> SUBSET Conns]
          /\ \A d \in Conns : d \notin cards[d] /\ consuming[d][d] = 0
      BY <1>0 DEF Shown
    <3>2. /\ consuming' \in [Conns -> [Conns -> {0} \union Calls]]
          /\ \A d \in Conns : consuming'[d][d] = 0
      <4>1. CASE consuming' = consuming
        BY <3>1, <4>1
      <4>2. CASE consuming' = [consuming EXCEPT ![c][Payload(c)] = 0]
        BY <3>1, <4>2, <2>1
      <4> QED BY <2>2, <4>1, <4>2
    <3>3. /\ cards' \in [Conns -> SUBSET Conns]
          /\ \A d \in Conns : d \notin cards'[d]
      <4>1. CASE cards' = cards
        BY <3>1, <4>1
      <4>2. CASE cards' = [cards EXCEPT ![c] = @ \ {Payload(c)}]
        BY <3>1, <4>2
      <4> QED BY <2>2, <4>1, <4>2
    <3> QED BY <1>0, <2>2, <3>2, <3>3 DEF Shown
  <2>5. Called'
    BY <1>0, <2>1, <2>2 DEF Called, ServerClose
  <2> QED BY <2>1, <2>2, <2>3, <2>4, <2>5 DEF TypeInv, TypeOK, Placed, Kept, Called, Shown
<1>4. ASSUME NEW p \in Conns, NEW k \in Calls, ConsumerProducerClose(c, p, k)
      PROVE  TypeInv'
  <2>1. <<<<"closed", p>>>> \in Seq(Msgs)
    BY DEF Msgs
  <2>2. inbox' \in [Conns -> Seq(Msgs)]
    BY <1>0, <1>4, <2>1, Telling DEF ConsumerProducerClose
  <2>3. Placed' /\ Kept' /\ Called' /\ Shown'
    BY <1>0, <1>4
       DEF ConsumerProducerClose, serverVars, clientVars, Placed, Kept, Called, Shown
  <2> QED BY <2>2, <2>3 DEF TypeInv, TypeOK, Placed, Kept, Called, Shown
<1> QED BY <1>1, <1>2, <1>3, <1>4

LEMMA DisconnectType ==
    ASSUME TypeInv, OneStatePerRoom, NEW c \in Conns, Disconnect(c)
    PROVE  TypeInv'
<1>0. Placed /\ Kept /\ Called /\ Shown /\ inbox \in [Conns -> Seq(Msgs)]
  BY Parts
<1>1. Placed'
  BY <1>0 DEF Disconnect, Placed, RoomAfter
<1>2. Kept'
  <2>1. \A t \in {sendT, recvT, producer} :
           [t EXCEPT ![c] = IF @ = "open" THEN "closed" ELSE @]
               \in [Conns -> {"none", "asked", "open", "closed"}]
    BY <1>0 DEF Kept
  <2> QED BY <1>0, <2>1 DEF Disconnect, Kept, OwnersAfter
<1>3. Called'
  BY <1>0 DEF Disconnect, Called
<1>4. Shown'
  BY <1>0 DEF Disconnect, Shown
<1>5. inbox' \in [Conns -> Seq(Msgs)]
  <2> DEFINE note == IF producer[c] = "open" THEN <<<<"closed", c>>>> ELSE <<>>
             notice == note \o <<<<"left", c>>>>
  <2>1. notice \in Seq(Msgs)
    <3>1. note \in Seq(Msgs) /\ <<<<"left", c>>>> \in Seq(Msgs)
      BY DEF Msgs
    <3> HIDE DEF note
    <3> QED BY <3>1
  <2>2. inbox' = [Tell(inbox, RoomMates(c), notice) EXCEPT ![c] = <<>>]
    BY DEF Disconnect
  <2> HIDE DEF notice
  <2>3. Tell(inbox, RoomMates(c), notice) \in [Conns -> Seq(Msgs)]
    BY <1>0, <2>1, Telling
  <2> QED BY <2>2, <2>3
<1> QED BY <1>1, <1>2, <1>3, <1>4, <1>5 DEF TypeInv, TypeOK, Placed, Kept, Called, Shown

LEMMA TypeNext ==
    ASSUME IInv, Next
    PROVE  TypeInv'
<1>0. TypeInv /\ OneStatePerRoom /\ \A c \in Conns : Off(c) /\ Client(c)
  BY DEF IInv, Server, Client
<1>1. PICK c \in Conns : Connect(c) \/ ServerStep(c) \/ ClientStep(c) \/ Disconnect(c)
  BY DEF Next
<1>2. CASE Connect(c)
  BY <1>0, <1>2, ConnectType
<1>3. CASE ServerStep(c)
  BY <1>0, <1>3, SetupType, CallType, CardType DEF ServerStep
<1>4. CASE ClientStep(c)
  BY <1>0, <1>4, SetupType, CallType, CardType DEF ClientStep, Receive
<1>5. CASE Disconnect(c)
  BY <1>0, <1>5, DisconnectType
<1> QED BY <1>1, <1>2, <1>3, <1>4, <1>5

--------------------------------------------------------------------------------
\* The server's side.  Only who comes and who leaves changes the registry.
LEMMA SameRegistry ==
    ASSUME OneStatePerRoom, Registered, UNCHANGED <<conn, room, rooms, stateOf, peersOf>>
    PROVE  OneStatePerRoom' /\ Registered'
BY DEF OneStatePerRoom, Registered, On

LEMMA ConnectServer ==
    ASSUME IInv, NEW c \in Conns, Connect(c)
    PROVE  Server'
<1> DEFINE r == room[c]
           s == IF rooms[r] = None THEN c ELSE rooms[r]
<1>1. /\ room \in [Conns -> Rooms] /\ rooms \in [Rooms -> Conns \union {None}]
      /\ conn \in [Conns -> {"off", "on", "gone"}] /\ stateOf \in [Conns -> Conns \union {None}]
      /\ peersOf \in [Conns -> SUBSET Conns]
  BY DEF IInv, TypeInv, TypeOK
<1>2. OneStatePerRoom /\ Registered
  BY DEF IInv, Server
<1>3. /\ conn[c] = "off" /\ conn' = [conn EXCEPT ![c] = "on"] /\ room' = room
      /\ rooms' = [rooms EXCEPT ![r] = s] /\ stateOf' = [stateOf EXCEPT ![c] = s]
      /\ peersOf' = [peersOf EXCEPT ![s] = @ \union {c}]
  BY DEF Connect
<1>4. r \in Rooms /\ s \in Conns /\ s # None
  BY <1>1, SignallingAssumption
<1>5. room[s] = r /\ (s = c \/ s = rooms[r])
  BY <1>2, <1>4 DEF Registered
<1>6. ASSUME NEW q \in Rooms, q # r, rooms[q] # None
      PROVE  rooms[q] # s /\ rooms[q] \in Conns
  BY <1>1, <1>2, <1>5, <1>6 DEF Registered
<1> HIDE DEF r, s
<1> DEFINE Staying(q) == {d \in Conns : On(d) /\ room[d] = q}
<1>7. ASSUME NEW q \in Rooms, q # r
      PROVE  /\ {d \in Conns : On(d) /\ room[d] = q}' = Staying(q)
             /\ rooms'[q] = rooms[q]
             /\ rooms[q] # None => peersOf'[rooms[q]] = peersOf[rooms[q]]
  BY <1>1, <1>3, <1>4, <1>6, <1>7 DEF On, r
<1>8. ASSUME NEW q \in Rooms, q = r
      PROVE  {d \in Conns : On(d) /\ room[d] = q}' = Staying(q) \union {c}
  BY <1>1, <1>3, <1>8 DEF On, r
<1>9. IF rooms[r] = None THEN Staying(r) = {} /\ peersOf[s] = {} ELSE peersOf[s] = Staying(r)
  <2>1. CASE rooms[r] = None
    <3>1. s = c
      BY <2>1 DEF s
    <3> QED BY <2>1, <3>1, <1>2, <1>3, <1>4 DEF OneStatePerRoom, Registered
  <2>2. CASE rooms[r] # None
    <3>1. s = rooms[r]
      BY <2>2 DEF s
    <3> QED BY <2>2, <3>1, <1>2, <1>4 DEF OneStatePerRoom
  <2> QED BY <2>1, <2>2
<1>10. peersOf'[s] = Staying(r) \union {c} /\ rooms'[r] = s
  BY <1>1, <1>3, <1>4, <1>9
<1>11. OneStatePerRoom'
  <2> SUFFICES ASSUME NEW q \in Rooms
               PROVE  LET here == {d \in Conns : On(d) /\ room[d] = q}'
                      IN  /\ \A d \in here : stateOf'[d] = rooms'[q]
                          /\ IF rooms'[q] = None THEN here = {}
                             ELSE here # {} /\ peersOf'[rooms'[q]] = here
    BY DEF OneStatePerRoom
  <2>1. CASE q = r
    <3>1. \A d \in Staying(q) \union {c} : stateOf'[d] = s
      <4>1. stateOf'[c] = s
        BY <1>1, <1>3
      <4>2. ASSUME NEW d \in Staying(q) PROVE stateOf'[d] = s
        <5>1. d # c /\ rooms[r] # None /\ stateOf[d] = rooms[r]
          BY <2>1, <1>2, <1>3, <1>4 DEF OneStatePerRoom, On
        <5> QED BY <1>1, <1>3, <5>1 DEF s
      <4> QED BY <4>1, <4>2
    <3>2. rooms'[q] = s /\ peersOf'[s] = Staying(q) \union {c}
      BY <2>1, <1>10
    <3> HIDE DEF Staying
    <3> QED BY <2>1, <3>1, <3>2, <1>4, <1>8
  <2>2. CASE q # r
    <3>1. \A d \in Staying(q) : d # c /\ stateOf[d] = rooms[q]
      BY <1>2, <1>3 DEF OneStatePerRoom, On
    <3>2. \A d \in Staying(q) : stateOf'[d] = rooms'[q]
      BY <3>1, <2>2, <1>1, <1>3, <1>7
    <3>3. IF rooms[q] = None THEN Staying(q) = {}
          ELSE Staying(q) # {} /\ peersOf[rooms[q]] = Staying(q)
      BY <1>2 DEF OneStatePerRoom
    <3> HIDE DEF Staying
    <3> QED BY <2>2, <3>2, <3>3, <1>7
  <2> QED BY <2>1, <2>2
<1>12. Registered'
  <2>1. ASSUME NEW q \in Rooms, rooms'[q] # None
        PROVE  room'[rooms'[q]] = q /\ conn'[rooms'[q]] # "off"
    <3>1. CASE q = r
      BY <3>1, <1>1, <1>2, <1>3, <1>4, <1>5, <1>10 DEF Registered
    <3>2. CASE q # r
      BY <3>2, <2>1, <1>1, <1>2, <1>3, <1>6, <1>7 DEF Registered
    <3> QED BY <3>1, <3>2
  <2>2. ASSUME NEW d \in Conns, conn'[d] = "off" PROVE peersOf'[d] = {}
    <3>1. d # c /\ conn[d] = "off" /\ peersOf[d] = {}
      BY <2>2, <1>1, <1>2, <1>3 DEF Registered
    <3>2. d # s
      BY <3>1, <1>2, <1>4, <1>5 DEF Registered
    <3> QED BY <3>1, <3>2, <1>1, <1>3
  <2> QED BY <2>1, <2>2 DEF Registered
<1>13. \A d \in Conns : Served(d)'
  BY <1>1, <1>3 DEF Connect, IInv, Server, Served, On, clientVars
<1> QED BY <1>11, <1>12, <1>13 DEF Server

LEMMA DisconnectServer ==
    ASSUME IInv, NEW c \in Conns, Disconnect(c)
    PROVE  Server'
<1> DEFINE r == room[c]
           s == stateOf[c]
<1>1. /\ room \in [Conns -> Rooms] /\ rooms \in [Rooms -> Conns \union {None}]
      /\ conn \in [Conns -> {"off", "on", "gone"}] /\ stateOf \in [Conns -> Conns \union {None}]
      /\ peersOf \in [Conns -> SUBSET Conns]
  BY DEF IInv, TypeInv, TypeOK
<1>2. OneStatePerRoom /\ Registered
  BY DEF IInv, Server
<1>3. /\ On(c) /\ conn' = [conn EXCEPT ![c] = "gone"] /\ UNCHANGED <<room, stateOf>>
      /\ rooms' = IF peersOf[s] = {c} THEN [rooms EXCEPT ![r] = None] ELSE rooms
      /\ peersOf' = [peersOf EXCEPT ![s] = @ \ {c}]
  BY DEF Disconnect, RoomAfter
<1> DEFINE Staying(q) == {d \in Conns : On(d) /\ room[d] = q}
<1>4. r \in Rooms /\ s \in Conns /\ s = rooms[r] /\ peersOf[s] = Staying(r)
  BY <1>2, <1>3, Here DEF IInv
<1>5. room[s] = r /\ s # None
  BY <1>2, <1>4, SignallingAssumption DEF Registered
<1>6. ASSUME NEW q \in Rooms, q # r, rooms[q] # None
      PROVE  rooms[q] # s /\ rooms[q] \in Conns
  BY <1>1, <1>2, <1>5, <1>6 DEF Registered
<1> HIDE DEF r, s
<1>7. ASSUME NEW q \in Rooms, q # r
      PROVE  /\ {d \in Conns : On(d) /\ room[d] = q}' = Staying(q)
             /\ rooms'[q] = rooms[q]
             /\ rooms[q] # None => peersOf'[rooms[q]] = peersOf[rooms[q]]
  BY <1>1, <1>3, <1>4, <1>6, <1>7 DEF On, r
<1>8. ASSUME NEW q \in Rooms, q = r
      PROVE  {d \in Conns : On(d) /\ room[d] = q}' = Staying(q) \ {c}
  BY <1>1, <1>3, <1>8 DEF On, r
<1>9. peersOf'[s] = Staying(r) \ {c} /\ c \in Staying(r)
  BY <1>1, <1>3, <1>4 DEF r
<1>10. rooms'[r] = IF Staying(r) = {c} THEN None ELSE s
  BY <1>1, <1>3, <1>4
<1>11. OneStatePerRoom'
  <2> SUFFICES ASSUME NEW q \in Rooms
               PROVE  LET here == {d \in Conns : On(d) /\ room[d] = q}'
                      IN  /\ \A d \in here : stateOf'[d] = rooms'[q]
                          /\ IF rooms'[q] = None THEN here = {}
                             ELSE here # {} /\ peersOf'[rooms'[q]] = here
    BY DEF OneStatePerRoom
  <2>0. \A d \in Staying(q) : stateOf[d] = rooms[q]
    BY <1>2 DEF OneStatePerRoom
  <2>1. CASE q = r
    <3>1. /\ rooms'[q] = IF Staying(q) = {c} THEN None ELSE s
          /\ peersOf'[s] = Staying(q) \ {c} /\ c \in Staying(q)
          /\ \A d \in Staying(q) : stateOf'[d] = s
      BY <2>0, <2>1, <1>3, <1>4, <1>9, <1>10
    <3> HIDE DEF Staying
    <3>2. CASE Staying(q) = {c}
      BY <2>1, <3>1, <3>2, <1>8
    <3>3. CASE Staying(q) # {c}
      BY <2>1, <3>1, <3>3, <1>5, <1>8
    <3> QED BY <3>2, <3>3
  <2>2. CASE q # r
    <3>3. IF rooms[q] = None THEN Staying(q) = {}
          ELSE Staying(q) # {} /\ peersOf[rooms[q]] = Staying(q)
      BY <1>2 DEF OneStatePerRoom
    <3> HIDE DEF Staying
    <3> QED BY <2>0, <2>2, <3>3, <1>3, <1>7
  <2> QED BY <2>1, <2>2
<1>12. Registered'
  <2>1. ASSUME NEW q \in Rooms, rooms'[q] # None
        PROVE  room'[rooms'[q]] = q /\ conn'[rooms'[q]] # "off"
    <3>1. rooms[q] # None /\ rooms'[q] = rooms[q]
      BY <2>1, <1>1, <1>3, <1>4
    <3>2. room[rooms[q]] = q /\ conn[rooms[q]] # "off" /\ rooms[q] \in Conns
      BY <3>1, <1>1, <1>2 DEF Registered
    <3> QED BY <3>1, <3>2, <1>1, <1>3
  <2>2. ASSUME NEW d \in Conns, conn'[d] = "off" PROVE peersOf'[d] = {}
    <3>1. d # c /\ conn[d] = "off" /\ peersOf[d] = {}
      BY <2>2, <1>1, <1>2, <1>3 DEF Registered
    <3> QED BY <3>1, <1>1, <1>3
  <2> QED BY <2>1, <2>2 DEF Registered
<1>13. ASSUME NEW d \in Conns PROVE Served(d)'
  <2>0. Served(d) /\ sendT \in [Conns -> {"none", "asked", "open", "closed"}]
        /\ recvT \in [Conns -> {"none", "asked", "open", "closed"}]
        /\ producer \in [Conns -> {"none", "asked", "open", "closed"}]
    BY DEF IInv, Server, TypeInv, TypeOK
  <2>1. CASE d = c
    <3>1. conn'[c] = "gone"
      BY <1>1, <1>3
    <3>2. /\ sendT'[c] = (IF sendT[c] = "open" THEN "closed" ELSE sendT[c])
          /\ recvT'[c] = (IF recvT[c] = "open" THEN "closed" ELSE recvT[c])
          /\ producer'[c] = (IF producer[c] = "open" THEN "closed" ELSE producer[c])
      BY <2>0 DEF Disconnect
    <3>3. c \notin raced' => "asked" \notin {sendT[c], recvT[c], producer[c]}
      BY DEF Disconnect
    <3>4. c \notin owners'
      BY DEF Disconnect, OwnersAfter
    <3> QED BY <2>1, <3>1, <3>2, <3>3, <3>4 DEF Served, On
  <2>2. CASE d # c
    <3>1. /\ conn'[d] = conn[d] /\ setup'[d] = setup[d]
          /\ sendT'[d] = sendT[d] /\ recvT'[d] = recvT[d] /\ producer'[d] = producer[d]
          /\ raced \subseteq raced' /\ owners' \subseteq owners
      BY <2>0, <2>2, <1>1 DEF Disconnect, OwnersAfter, IInv, TypeInv, TypeOK
    <3> QED BY <2>0, <3>1 DEF Served, On
  <2> QED BY <2>1, <2>2
<1> QED BY <1>11, <1>12, <1>13 DEF Server

--------------------------------------------------------------------------------
\* The steps of the set-up that say nothing about anybody
LEMMA SetupServer ==
    ASSUME IInv, NEW c \in Conns,
           \/ AskSendTransport(c) \/ SendTransportCreated(c) \/ RecvTransportCreated(c)
           \/ AskProduce(c) \/ Produced(c) \/ ProduceFailsForDeparted(c)
           \/ AskRecvTransport(c) \/ AskProducers(c)
    PROVE  Server'
<1>0. /\ OneStatePerRoom /\ Registered /\ \A d \in Conns : Served(d) /\ Off(d)
      /\ conn \in [Conns -> {"off", "on", "gone"}]
      /\ sendT \in [Conns -> {"none", "asked", "open", "closed"}]
      /\ recvT \in [Conns -> {"none", "asked", "open", "closed"}]
      /\ producer \in [Conns -> {"none", "asked", "open", "closed"}]
      /\ setup \in [Conns -> {"none", "send", "produce", "recv", "list", "ready"}]
  BY DEF IInv, Server, Client, TypeInv, TypeOK
<1>1. OneStatePerRoom' /\ Registered'
  BY <1>0, SameRegistry DEF AskSendTransport, SendTransportCreated, RecvTransportCreated,
     AskProduce, Produced, ProduceFailsForDeparted, AskRecvTransport, AskProducers, serverVars
<1>2. ASSUME NEW d \in Conns PROVE Served(d)'
  <2>0. Served(d) /\ Served(c) /\ (setup[c] # "none" => On(c))
    BY <1>0 DEF Off
  <2>1. CASE AskSendTransport(c)
    BY <1>0, <2>0, <2>1 DEF AskSendTransport, Served, On
  <2>2. CASE SendTransportCreated(c)
    BY <1>0, <2>0, <2>2 DEF SendTransportCreated, Served, On, clientVars
  <2>3. CASE RecvTransportCreated(c)
    BY <1>0, <2>0, <2>3 DEF RecvTransportCreated, Served, On, clientVars
  <2>4. CASE AskProduce(c)
    BY <1>0, <2>0, <2>4 DEF AskProduce, Served, On
  <2>5. CASE Produced(c)
    BY <1>0, <2>0, <2>5 DEF Produced, Served, On, clientVars
  <2>6. CASE ProduceFailsForDeparted(c)
    BY <1>0, <2>0, <2>6 DEF ProduceFailsForDeparted, Served, On, clientVars
  <2>7. CASE AskRecvTransport(c)
    BY <1>0, <2>0, <2>7 DEF AskRecvTransport, Served, On
  <2>8. CASE AskProducers(c)
    BY <1>0, <2>0, <2>8 DEF AskProducers, Served, On, serverVars
  <2> QED BY <2>1, <2>2, <2>3, <2>4, <2>5, <2>6, <2>7, <2>8
<1> QED BY <1>1, <1>2 DEF Server

LEMMA SetupClient ==
    ASSUME IInv, NEW c \in Conns, NEW d \in Conns,
           \/ AskSendTransport(c) \/ SendTransportCreated(c) \/ RecvTransportCreated(c)
           \/ AskProduce(c) \/ ProduceFailsForDeparted(c) \/ AskRecvTransport(c)
    PROVE  Client(d)'
<1>0. /\ Client(d) /\ Client(c) /\ TypeInv /\ Served(c)
      /\ inbox \in [Conns -> Seq(Msgs)] /\ inbox[c] \in Seq(Msgs)
      /\ producer \in [Conns -> {"none", "asked", "open", "closed"}]
      /\ setup \in [Conns -> {"none", "send", "produce", "recv", "list", "ready"}]
  BY DEF IInv, Server, TypeInv, TypeOK
<1>1. \/ inbox'[d] = inbox[d]
      \/ /\ d = c /\ On(c)
         /\ \E m \in {"transport", "produced"} \X Conns :
               \/ inbox'[c] = Plus(inbox[c], m)
               \/ inbox[c] # <<>> /\ m = Head(inbox[c]) /\ inbox'[c] = Tail(inbox[c])
  <2>1. CASE AskSendTransport(c) \/ ProduceFailsForDeparted(c)
    BY <2>1 DEF AskSendTransport, ProduceFailsForDeparted
  <2>2. CASE SendTransportCreated(c) \/ RecvTransportCreated(c)
    BY <2>2, <1>0 DEF SendTransportCreated, RecvTransportCreated, Tell, Plus
  <2>3. CASE AskProduce(c) \/ AskRecvTransport(c)
    <3>1. PICK type \in {"transport", "produced"} : Gets(c, type)
      BY <2>3 DEF AskProduce, AskRecvTransport
    <3>2. /\ Head(inbox[c]) = <<type, Payload(c)>> /\ Payload(c) \in Conns
          /\ inbox[c] # <<>> /\ On(c)
          /\ Rest(c)[c] = Tail(inbox[c]) /\ \A e \in Conns \ {c} : Rest(c)[e] = inbox[e]
      BY <1>0, <3>1, Opening, Present
    <3>3. Head(inbox[c]) \in {"transport", "produced"} \X Conns
      <4>1. <<type, Payload(c)>> \in {"transport", "produced"} \X Conns
        BY <3>1, <3>2
      <4> QED BY <3>2, <4>1
    <3>4. inbox' = Rest(c)
      BY <2>3 DEF AskProduce, AskRecvTransport
    <3> QED BY <3>2, <3>3, <3>4
  <2> QED BY <2>1, <2>2, <2>3
<1>2. /\ \A p \in Conns : SameMail(d, p)
      /\ In(inbox'[d], Lists) <=> In(inbox[d], Lists)
      /\ Once(inbox[d], Lists) => Once(inbox'[d], Lists)
  <2>1. CASE inbox'[d] = inbox[d]
    BY <2>1, SameInbox
  <2>2. CASE inbox'[d] # inbox[d]
    <3>1. PICK m \in {"transport", "produced"} \X Conns :
              \/ inbox'[c] = Plus(inbox[c], m)
              \/ inbox[c] # <<>> /\ m = Head(inbox[c]) /\ inbox'[c] = Tail(inbox[c])
      BY <1>1, <2>2
    <3>2. d = c /\ m \in Msgs
      BY <1>1, <2>2 DEF Msgs
    <3>3. \A p \in Conns : \A M \in About(p) \union {Lists} : m \notin M
      <4>1. /\ m[2] \in Conns
            /\ m = <<"transport", m[2]>> \/ m = <<"produced", m[2]>>
        OBVIOUS
      <4> SUFFICES ASSUME NEW p \in Conns, NEW M \in About(p) \union {Lists}
                   PROVE  m \notin M
        OBVIOUS
      <4>2. <<"transport", m[2]>> \notin M /\ <<"produced", m[2]>> \notin M
        BY <4>1, AboutNobody
      <4> QED BY <4>1, <4>2
    <3>4. \A p \in Conns : SameMail(d, p)
      BY <1>0, <3>1, <3>2, <3>3, Unrelated
    <3>5. /\ In(inbox'[d], Lists) <=> In(inbox[d], Lists)
          /\ Once(inbox[d], Lists) => Once(inbox'[d], Lists)
      <4>1. CASE inbox'[c] = Plus(inbox[c], m)
        <5>1. m \in Msgs /\ m \notin Lists /\ inbox[c] \in Seq(Msgs)
          BY <1>0, <3>2, <3>3
        <5> QED BY <3>2, <4>1, <5>1, Beside
      <4>2. CASE inbox[c] # <<>> /\ m = Head(inbox[c]) /\ inbox'[c] = Tail(inbox[c])
        BY <1>0, <3>2, <3>3, <4>2, Received
      <4> QED BY <3>1, <4>1, <4>2
    <3> QED BY <3>4, <3>5
  <2> QED BY <2>1, <2>2
<1>3. /\ UNCHANGED <<conn, room, crossed, cards, consuming, call, consumer>>
      /\ d # c \/ ~On(c) => setup'[d] = setup[d]
      /\ \/ setup'[d] = setup[d]
         \/ setup[d] \notin {"list", "ready"} /\ setup'[d] \notin {"list", "ready"}
      /\ \A p \in Conns : \/ producer'[p] = producer[p]
                          \/ producer[p] \in {"none", "asked"} /\ producer'[p] # "open"
  <2>0. setup[c] # "none" => On(c)
    BY <1>0 DEF Client, Off
  <2>1. CASE AskSendTransport(c)
    BY <1>0, <2>1 DEF AskSendTransport
  <2>2. CASE SendTransportCreated(c) \/ RecvTransportCreated(c)
    BY <2>2 DEF SendTransportCreated, RecvTransportCreated, clientVars
  <2>3. CASE AskProduce(c)
    BY <1>0, <2>0, <2>3 DEF AskProduce, Served
  <2>4. CASE ProduceFailsForDeparted(c)
    BY <1>0, <2>4 DEF ProduceFailsForDeparted, clientVars
  <2>5. CASE AskRecvTransport(c)
    BY <1>0, <2>0, <2>5 DEF AskRecvTransport
  <2> QED BY <2>1, <2>2, <2>3, <2>4, <2>5
<1>4. On(d) \/ (inbox'[d] = inbox[d] /\ setup'[d] = setup[d])
  BY <1>1, <1>3
<1> QED BY <1>0, <1>2, <1>3, <1>4, Untouched

\* The producer is there: c, who is in the room with p, is told.
LEMMA NewProducerTold ==
    ASSUME NEW c \in Conns, NEW p \in Conns, Pair(c, p), inbox[c] \in Seq(Msgs),
           inbox'[c] = Plus(inbox[c], <<"new-producer", p>>),
           producer[p] = "asked", producer'[p] = "open",
           UNCHANGED <<conn, room, crossed, consumer, setup, call, consuming, cards>>
    PROVE  Pair(c, p)'
<1> DEFINE m == <<"new-producer", p>>
<1>1. /\ m \in Msgs /\ m \in NewOf(p) /\ m \notin Adders(p) /\ m \notin ListsOf(p)
      /\ m \notin ClosedOf(p) /\ m \notin LeftOf(p)
      /\ \A k \in Calls : m \notin ConsumedOf(p, k) /\ m \notin ResumedOf(p, k)
  BY DEF Msgs, Adders, NewOf, Lists, ListsOf, ConsumedOf, ResumedOf, ClosedOf, LeftOf
<1> HIDE DEF m
<1>2. inbox'[c] = Plus(inbox[c], m)
  BY DEF m
<1>3. /\ In(inbox'[c], NewOf(p)) /\ ~In(inbox[c], NewOf(p)) /\ Once(inbox'[c], NewOf(p))
      /\ In(inbox'[c], Adders(p)) <=> In(inbox[c], Adders(p))
      /\ In(inbox'[c], ListsOf(p)) <=> In(inbox[c], ListsOf(p))
      /\ In(inbox'[c], ClosedOf(p)) <=> In(inbox[c], ClosedOf(p))
      /\ In(inbox'[c], LeftOf(p)) <=> In(inbox[c], LeftOf(p))
  BY <1>1, <1>2, Appended DEF Pair, Mail
<1>4. \A k \in Calls :
         /\ In(inbox'[c], ConsumedOf(p, k)) <=> In(inbox[c], ConsumedOf(p, k))
         /\ In(inbox'[c], ResumedOf(p, k)) <=> In(inbox[c], ResumedOf(p, k))
         /\ Once(inbox[c], ConsumedOf(p, k)) => Once(inbox'[c], ConsumedOf(p, k))
         /\ Once(inbox[c], ResumedOf(p, k)) => Once(inbox'[c], ResumedOf(p, k))
  BY <1>1, <1>2, Appended
<1>5. Followed(inbox[c], Adders(p), LeftOf(p)) => Followed(inbox'[c], Adders(p), LeftOf(p))
  BY <1>1, <1>2, AppendedLast
<1>6. Mail(c, p)'
  BY <1>3, <1>4 DEF Pair, Mail, OfGone, Answers
<1>7. Offers(c, p)'
  BY <1>3 DEF Pair, Offers, Expected
<1>8. (\A k \in Calls : Follows(c, p, k)') /\ Near(c, p)' /\ Carded(c, p)'
  BY <1>3 DEF Pair, Follows, Near, Carded, Announced, On
<1>9. NotMissed(c, p)'
  BY <1>3 DEF Pair, NotMissed, Announced, Offered, Together, On
<1>10. Departs(c, p)'
  BY <1>3, <1>5 DEF Pair, Departs, On
<1> QED BY <1>6, <1>7, <1>8, <1>9, <1>10 DEF Pair

LEMMA ProducedClient ==
    ASSUME IInv, NEW p \in Conns, NEW c \in Conns, Produced(p)
    PROVE  Client(c)'
<1>0. /\ Client(c) /\ inbox \in [Conns -> Seq(Msgs)] /\ inbox[c] \in Seq(Msgs)
      /\ producer \in [Conns -> {"none", "asked", "open", "closed"}]
      /\ \A q \in Conns : Pair(c, q)
  BY DEF IInv, Client, TypeInv, TypeOK
<1>1. /\ producer[p] = "asked" /\ producer'[p] = "open"
      /\ \A q \in Conns \ {p} : producer'[q] = producer[q]
      /\ UNCHANGED <<conn, room, crossed, consumer, setup, call, consuming, cards>>
  BY <1>0 DEF Produced, clientVars
<1>2. CASE c \in RoomMates(p)
  <2>1. c # p /\ On(c)
    BY <1>2 DEF RoomMates
  <2> DEFINE m == <<"new-producer", p>>
  <2>2. inbox'[c] = Plus(inbox[c], m)
    BY <1>0, <1>2, <2>1 DEF Produced, Plus, Tell
  <2>3. m \in Msgs /\ m \notin Lists
    BY DEF Msgs, Lists
  <2>a. \A q \in Conns \ {p} : \A M \in About(q) : m \notin M
    <3> SUFFICES ASSUME NEW q \in Conns \ {p}, NEW M \in About(q) PROVE m \notin M
      OBVIOUS
    <3>1. p \in Conns \ {q} /\ 1 \in Calls /\ q \notin {} /\ {} \in SUBSET Conns
      BY DEF Calls
    <3> QED BY <3>1, AboutOthers
  <2>8. Pair(c, p)'
    BY <1>0, <1>1, <2>2, NewProducerTold
  <2> HIDE DEF m
  <2>4. /\ In(inbox'[c], Lists) <=> In(inbox[c], Lists)
        /\ Once(inbox[c], Lists) => Once(inbox'[c], Lists)
    BY <1>0, <2>2, <2>3, Appended
  <2>5. \A q \in Conns \ {p} : SameMail(c, q)
    BY <1>0, <2>2, <2>3, <2>a, Unrelated
  <2>6. Off(c)' /\ Self(c)' /\ Listed(c)'
    BY <1>0, <1>1, <2>1, <2>4, <2>5, Alone
  <2>7. \A q \in Conns \ {p} : Pair(c, q)'
    BY <1>0, <1>1, <2>5, Bystander
  <2> QED BY <2>6, <2>7, <2>8 DEF Client
<1>3. CASE c \notin RoomMates(p)
  <2>1. ~Together(c, p)
    BY <1>3 DEF Together, RoomMates
  <2> DEFINE m == <<"produced", p>>
  <2>2. \/ inbox'[c] = inbox[c]
        \/ c = p /\ On(c) /\ inbox'[c] = Plus(inbox[c], m)
    BY <1>0, <1>3 DEF Produced, Plus, Tell, RoomMates
  <2>3. m \in Msgs /\ \A q \in Conns : \A M \in About(q) \union {Lists} : m \notin M
    BY AboutNobody DEF Msgs
  <2> HIDE DEF m
  <2>4. \A q \in Conns : SameMail(c, q)
    BY <1>0, <2>2, <2>3, SameInbox, Unrelated
  <2>5. /\ In(inbox'[c], Lists) <=> In(inbox[c], Lists)
        /\ Once(inbox[c], Lists) => Once(inbox'[c], Lists)
    BY <1>0, <2>2, <2>3, Appended
  <2>6. Off(c)' /\ Self(c)' /\ Listed(c)'
    BY <1>0, <1>1, <2>2, <2>4, <2>5, Alone
  <2>7. \A q \in Conns : Pair(c, q)'
    BY <1>0, <1>1, <2>1, <2>4, Bystander
  <2> QED BY <2>6, <2>7 DEF Client
<1> QED BY <1>2, <1>3

\* A message is handled, and answered at once.
LEMMA Answered ==
    ASSUME NEW q \in Seq(Msgs), q # <<>>, NEW m \in Msgs, NEW M, Head(q) \notin M
    PROVE  /\ In(Plus(Tail(q), m), M) <=> In(q, M) \/ m \in M
           /\ Once(q, M) /\ ~(In(q, M) /\ m \in M) => Once(Plus(Tail(q), m), M)
<1>1. /\ Tail(q) \in Seq(Msgs)
      /\ In(q, M) <=> In(Tail(q), M)
      /\ Once(q, M) => Once(Tail(q), M)
  BY Received
<1> QED BY <1>1, Appended

\* getProducers: the answer is what the room holds now.
LEMMA ListPair ==
    ASSUME NEW c \in Conns, NEW p \in Conns, Pair(c, p), inbox[c] \in Seq(Msgs),
           NEW S \in SUBSET Conns, inbox'[c] = Plus(Tail(inbox[c]), <<"list", S>>),
           Gets(c, "transport"), TypeInv,
           Together(c, p) /\ producer[p] = "open" => p \in S,
           setup[c] = "recv", setup'[c] = "list",
           UNCHANGED <<conn, room, crossed, producer, consumer, call, consuming, cards>>
    PROVE  Pair(c, p)'
<1> DEFINE m == <<"list", S>>
           n == Head(inbox[c])
           rest == Tail(inbox[c])
<1>1. /\ m \in Msgs /\ m \notin NewOf(p) /\ m \notin Adders(p)
      /\ m \notin ClosedOf(p) /\ m \notin LeftOf(p)
      /\ \A k \in Calls : m \notin ConsumedOf(p, k) /\ m \notin ResumedOf(p, k)
      /\ p \in S => m \in ListsOf(p)
  BY DEF Msgs, Adders, NewOf, Lists, ListsOf, ConsumedOf, ResumedOf, ClosedOf, LeftOf
<1>2. /\ n = <<"transport", Payload(c)>> /\ Payload(c) \in Conns
      /\ inbox[c] # <<>> /\ rest \in Seq(Msgs)
  BY Opening
<1>3. /\ n \notin NewOf(p) /\ n \notin Adders(p) /\ n \notin ListsOf(p)
      /\ n \notin ClosedOf(p) /\ n \notin LeftOf(p)
      /\ \A k \in Calls : n \notin ConsumedOf(p, k) /\ n \notin ResumedOf(p, k)
  BY <1>2 DEF Adders, NewOf, Lists, ListsOf, ConsumedOf, ResumedOf, ClosedOf, LeftOf
<1> HIDE DEF m
<1>4. inbox'[c] = Plus(rest, m)
  BY DEF m
<1>7. /\ In(inbox'[c], NewOf(p)) <=> In(inbox[c], NewOf(p))
      /\ In(inbox'[c], Adders(p)) <=> In(inbox[c], Adders(p))
      /\ In(inbox[c], ListsOf(p)) \/ p \in S => In(inbox'[c], ListsOf(p))
      /\ In(inbox'[c], ClosedOf(p)) <=> In(inbox[c], ClosedOf(p))
      /\ In(inbox'[c], LeftOf(p)) <=> In(inbox[c], LeftOf(p))
      /\ Once(inbox[c], NewOf(p)) => Once(inbox'[c], NewOf(p))
  BY <1>1, <1>2, <1>3, <1>4, Answered
<1>8. \A k \in Calls :
         /\ In(inbox'[c], ConsumedOf(p, k)) <=> In(inbox[c], ConsumedOf(p, k))
         /\ In(inbox'[c], ResumedOf(p, k)) <=> In(inbox[c], ResumedOf(p, k))
         /\ Once(inbox[c], ConsumedOf(p, k)) => Once(inbox'[c], ConsumedOf(p, k))
         /\ Once(inbox[c], ResumedOf(p, k)) => Once(inbox'[c], ResumedOf(p, k))
  BY <1>1, <1>2, <1>3, <1>4, Answered
<1>9. Followed(inbox[c], Adders(p), LeftOf(p)) => Followed(inbox'[c], Adders(p), LeftOf(p))
  <2>1. Followed(inbox[c], Adders(p), LeftOf(p)) => Followed(rest, Adders(p), LeftOf(p))
    BY <1>2, ReceivedFirst
  <2> QED BY <2>1, <1>1, <1>2, <1>4, AppendedLast
<1>10. Mail(c, p)'
  BY <1>7, <1>8 DEF Pair, Mail, OfGone, Answers
<1>11. Offers(c, p)'
  BY <1>7 DEF Pair, Offers, Expected
<1>12. (\A k \in Calls : Follows(c, p, k)') /\ Near(c, p)' /\ Carded(c, p)'
  BY <1>7 DEF Pair, Follows, Near, Carded, Announced, On
<1>13. NotMissed(c, p)'
  BY <1>7 DEF Pair, NotMissed, Announced, Offered, Together, On
<1>14. Departs(c, p)'
  BY <1>7, <1>9 DEF Pair, Departs, On
<1> QED BY <1>10, <1>11, <1>12, <1>13, <1>14 DEF Pair

LEMMA AskProducersClient ==
    ASSUME IInv, NEW c \in Conns, NEW d \in Conns, AskProducers(c)
    PROVE  Client(d)'
<1> DEFINE listed == {e \in peersOf[stateOf[c]] \ {c} : producer[e] = "open"}
<1>0. /\ Client(d) /\ TypeInv /\ OneStatePerRoom
      /\ inbox \in [Conns -> Seq(Msgs)] /\ inbox[d] \in Seq(Msgs)
      /\ setup \in [Conns -> {"none", "send", "produce", "recv", "list", "ready"}]
      /\ \A p \in Conns : Pair(d, p)
  BY DEF IInv, Client, Server, TypeInv, TypeOK
<1>1. /\ setup[c] = "recv" /\ Gets(c, "transport") /\ On(c)
      /\ setup' = [setup EXCEPT ![c] = "list"]
      /\ inbox' = Tell(Rest(c), {c}, <<<<"list", listed>>>>)
      /\ UNCHANGED <<conn, room, crossed, producer, consumer, call, consuming, cards>>
  BY Present DEF AskProducers, serverVars
<1>2. listed = {e \in Conns \ {c} : On(e) /\ room[e] = room[c] /\ producer[e] = "open"}
  BY <1>0, <1>1, Here
<1>3. listed \in SUBSET Conns /\ c \notin listed
  BY <1>2
<1>4. \A p \in Conns : Together(c, p) /\ producer[p] = "open" => p \in listed
  BY <1>2 DEF Together
<1> HIDE DEF listed
<1>5. /\ Rest(c)[c] = Tail(inbox[c]) /\ \A e \in Conns \ {c} : Rest(c)[e] = inbox[e]
      /\ inbox[c] # <<>> /\ Tail(inbox[c]) \in Seq(Msgs)
      /\ Head(inbox[c]) = <<"transport", Payload(c)>> /\ Payload(c) \in Conns
  BY <1>0, <1>1, Opening
<1>6. CASE d # c
  <2>1. inbox'[d] = inbox[d] /\ setup'[d] = setup[d]
    BY <1>0, <1>1, <1>5, <1>6 DEF Tell
  <2> QED BY <1>0, <1>1, <2>1, SameInbox, Untouched
<1>7. CASE d = c
  <2>1. inbox'[c] = Plus(Tail(inbox[c]), <<"list", listed>>) /\ setup'[c] = "list"
    BY <1>0, <1>1, <1>5, <1>7 DEF Tell, Plus
  <2>2. \A p \in Conns : Pair(c, p)'
    BY <1>0, <1>1, <1>3, <1>4, <1>7, <2>1, ListPair
  <2> DEFINE m == <<"list", listed>>
  <2>3. m \in Msgs
    BY <1>3 DEF Msgs
  <2>4. \A M \in {Adders(c), NewOf(c), ListsOf(c)} : m \notin M /\ Head(inbox[c]) \notin M
    BY <1>3, <1>5 DEF Adders, NewOf, Lists, ListsOf
  <2>a. Head(inbox[c]) \notin Lists
    BY <1>5 DEF Lists
  <2> HIDE DEF m
  <2>b. inbox'[c] = Plus(Tail(inbox[c]), m)
    BY <2>1 DEF m
  <2>6. Off(c)'
    BY <1>1 DEF Off, On
  <2>7. Self(c)'
    BY <1>0, <1>1, <1>5, <1>7, <2>3, <2>b, <2>4, Answered DEF Client, Self
  <2>8. Listed(c)'
    <3>1. ~In(inbox[c], Lists) /\ Once(inbox[c], Lists)
      BY <1>0, <1>1, <1>7 DEF Client, Listed
    <3>2. Once(inbox'[c], Lists)
      BY <1>0, <1>5, <1>7, <2>3, <2>a, <2>b, <3>1, Answered
    <3> QED BY <2>1, <3>2 DEF Listed
  <2> QED BY <1>7, <2>2, <2>6, <2>7, <2>8 DEF Client
<1> QED BY <1>6, <1>7

--------------------------------------------------------------------------------
\* A step of one client that the server takes no notice of: the others stay as they are.
LEMMA OthersStay ==
    ASSUME IInv, NEW c \in Conns, NEW d \in Conns \ {c}, UNCHANGED serverVars,
           inbox'[d] = inbox[d], setup'[d] = setup[d], cards'[d] = cards[d],
           consuming'[d] = consuming[d],
           \A p \in Conns, k \in Calls : /\ call'[<<d, p, k>>] = call[<<d, p, k>>]
                                         /\ consumer'[<<d, p, k>>] = consumer[<<d, p, k>>]
    PROVE  Client(d)'
<1>1. Client(d)
  BY DEF IInv
<1>2. \A p \in Conns : SameMail(d, p)
  BY SameInbox
<1> QED BY <1>1, <1>2, Untouched DEF serverVars

LEMMA ServerStays ==
    ASSUME IInv, UNCHANGED serverVars,
           \A d \in Conns : setup'[d] = setup[d] \/ setup'[d] \notin {"none", "send"}
    PROVE  Server'
<1>1. OneStatePerRoom' /\ Registered'
  BY SameRegistry DEF IInv, Server, serverVars
<1>2. \A d \in Conns : Served(d)'
  BY DEF IInv, Server, Served, On, serverVars
<1> QED BY <1>1, <1>2 DEF Server

\* One message is handled: what is left of the classes it is not in, and of the others.
LEMMA Handled ==
    ASSUME NEW c \in Conns, inbox[c] \in Seq(Msgs), inbox[c] # <<>>, inbox'[c] = Tail(inbox[c])
    PROVE  /\ \A M : In(inbox[c], M) <=> Head(inbox[c]) \in M \/ In(inbox'[c], M)
           /\ \A M : Once(inbox[c], M) => Once(inbox'[c], M)
           /\ \A M : Once(inbox[c], M) /\ Head(inbox[c]) \in M => ~In(inbox'[c], M)
           /\ \A M, L : Followed(inbox[c], M, L) =>
                  Followed(inbox'[c], M, L) /\ (Head(inbox[c]) \in M => In(inbox'[c], L))
<1>1. ASSUME NEW M
      PROVE  /\ In(inbox[c], M) <=> Head(inbox[c]) \in M \/ In(inbox'[c], M)
             /\ Once(inbox[c], M) => Once(inbox'[c], M)
             /\ Once(inbox[c], M) /\ Head(inbox[c]) \in M => ~In(inbox'[c], M)
  BY Received
<1>2. ASSUME NEW M, NEW L, Followed(inbox[c], M, L)
      PROVE  Followed(inbox'[c], M, L) /\ (Head(inbox[c]) \in M => In(inbox'[c], L))
  BY <1>2, ReceivedFirst
<1> QED BY <1>1, <1>2

\* What c has of itself after a message: it is still not offered to itself.
LEMMA HandledAlone ==
    ASSUME NEW c \in Conns, Client(c), On(c), conn' = conn,
           inbox[c] \in Seq(Msgs), inbox[c] # <<>>, inbox'[c] = Tail(inbox[c]),
           \A k \in Calls : call'[<<c, c, k>>] = call[<<c, c, k>>],
           setup'[c] = setup[c] \/ Head(inbox[c]) \in Lists
    PROVE  Off(c)' /\ Self(c)' /\ Listed(c)'
<1>1. Off(c)'
  BY DEF Off, On
<1>2. Self(c)'
  BY Handled DEF Client, Self
<1>3. Listed(c)'
  BY Handled DEF Client, Listed
<1> QED BY <1>1, <1>2, <1>3

\* "peers" or "peer-joined", for one that it makes a card for
LEMMA CardPair ==
    ASSUME NEW c \in Conns, NEW p \in Conns, Pair(c, p),
           inbox[c] \in Seq(Msgs), inbox[c] # <<>>, inbox'[c] = Tail(inbox[c]),
           Head(inbox[c]) \in Adders(p), p \in cards'[c],
           UNCHANGED <<conn, room, crossed, producer, consumer, setup, call, consuming>>
    PROVE  Pair(c, p)'
<1> DEFINE m == Head(inbox[c])
<1>1. /\ m \notin NewOf(p) /\ m \notin ListsOf(p)
      /\ m \notin ClosedOf(p) /\ m \notin LeftOf(p)
      /\ \A k \in Calls : m \notin ConsumedOf(p, k) /\ m \notin ResumedOf(p, k)
  BY DEF Adders, NewOf, Lists, ListsOf, ConsumedOf, ResumedOf, ClosedOf, LeftOf
<1>2. Mail(c, p)'
  BY <1>1, Handled DEF Pair, Mail, OfGone, Answers
<1>3. Offers(c, p)'
  BY <1>1, Handled DEF Pair, Offers, Expected
<1>4. (\A k \in Calls : Follows(c, p, k)') /\ Carded(c, p)'
  BY DEF Pair, Follows, Carded, On
<1>5. Near(c, p)'
  BY Handled DEF Pair, Near, Announced
<1>6. NotMissed(c, p)'
  BY <1>1, Handled DEF Pair, NotMissed, Announced, Offered, Together, On
<1>7. Departs(c, p)'
  BY Handled DEF Pair, Departs, On
<1> QED BY <1>2, <1>3, <1>4, <1>5, <1>6, <1>7 DEF Pair

\* producer-closed and peer-left, of the one they are about
LEMMA ClosedPair ==
    ASSUME NEW c \in Conns, NEW p \in Conns, Pair(c, p), On(c), TypeInv,
           inbox[c] \in Seq(Msgs), inbox[c] # <<>>, inbox'[c] = Tail(inbox[c]),
           \/ Head(inbox[c]) = <<"closed", p>> /\ cards'[c] = cards[c]
           \/ Head(inbox[c]) = <<"left", p>> /\ p \notin cards'[c],
           \/ consumer' = ServerClose(c, p) /\ consuming'[c][p] = 0
           \/ p \notin cards[c] /\ consumer' = consumer /\ consuming'[c][p] = consuming[c][p],
           UNCHANGED <<conn, room, crossed, producer, setup, call>>
    PROVE  Pair(c, p)'
<1> DEFINE m == Head(inbox[c])
<1>1. /\ m \notin Adders(p) /\ m \notin NewOf(p) /\ m \notin ListsOf(p)
      /\ \A k \in Calls : m \notin ConsumedOf(p, k) /\ m \notin ResumedOf(p, k)
      /\ m \in ClosedOf(p) \/ m \in LeftOf(p)
      /\ m \in LeftOf(p) => p \notin cards'[c]
  <2>1. \A x \in {<<"closed", p>>, <<"left", p>>} :
           /\ x \notin Adders(p) /\ x \notin NewOf(p) /\ x \notin ListsOf(p)
           /\ \A k \in Calls : x \notin ConsumedOf(p, k) /\ x \notin ResumedOf(p, k)
    BY DEF Adders, NewOf, Lists, ListsOf, ConsumedOf, ResumedOf
  <2>2. /\ <<"closed", p>> \in ClosedOf(p) /\ <<"closed", p>> \notin LeftOf(p)
        /\ <<"left", p>> \in LeftOf(p)
    BY DEF ClosedOf, LeftOf
  <2> HIDE DEF m
  <2>3. \/ m = <<"closed", p>> /\ cards'[c] = cards[c]
        \/ m = <<"left", p>> /\ p \notin cards'[c]
    BY DEF m
  <2> QED BY <2>1, <2>2, <2>3
<1>2. conn[p] = "gone" /\ conn'[p] = "gone" /\ ~Together(c, p)'
  BY <1>1, Handled DEF Pair, Mail, OfGone, Together, On
<1>3. /\ consuming'[c][p] = 0
      /\ \A k \in Calls : \/ consumer'[<<c, p, k>>] = consumer[<<c, p, k>>]
                          \/ consumer'[<<c, p, k>>] = "closed" /\ k = consuming[c][p]
  <2>1. /\ consumer \in [Conns \X Conns \X Calls ->
                             {"none", "paused", "live", "closing", "closed"}]
        /\ consuming[c][p] \in {0} \union Calls
    BY DEF TypeInv, TypeOK
  <2>2. CASE consumer' = ServerClose(c, p) /\ consuming'[c][p] = 0
    BY <2>1, <2>2 DEF ServerClose
  <2>3. CASE p \notin cards[c] /\ consumer' = consumer /\ consuming'[c][p] = consuming[c][p]
    BY <2>3 DEF Pair, Carded
  <2> QED BY <2>2, <2>3
<1>4. Mail(c, p)'
  BY <1>1, <1>2, Handled DEF Pair, Mail, OfGone, Answers
<1>5. Offers(c, p)'
  BY <1>1, Handled DEF Pair, Offers, Expected
<1>6. ASSUME NEW k \in Calls PROVE Follows(c, p, k)'
  <2>1. k # 0
    BY DEF Calls
  <2>2. Follows(c, p, k)
    BY DEF Pair
  <2>3. ASSUME call[<<c, p, k>>] \in {"none", "asked", "refused"}
        PROVE  consumer'[<<c, p, k>>] = "none"
    <3>1. consumer[<<c, p, k>>] = "none" /\ consuming[c][p] # k
      BY <2>2, <2>3 DEF Follows
    <3> QED BY <1>3, <3>1
  <2>4. consuming'[c][p] # k /\ call'[<<c, p, k>>] = call[<<c, p, k>>] /\ conn'[p] = "gone"
    BY <1>2, <1>3, <2>1
  <2> QED BY <2>3, <2>4 DEF Follows
<1>7. Near(c, p)' /\ Carded(c, p)' /\ NotMissed(c, p)'
  BY <1>1, <1>2, <1>3, Handled DEF Pair, Near, Announced, Carded, NotMissed
<1>8. Departs(c, p)'
  <2>1. p \in cards'[c] => p \in cards[c] /\ m \notin LeftOf(p)
    BY <1>1
  <2> QED BY <1>1, <2>1, Handled DEF Pair, Departs, On
<1> QED BY <1>4, <1>5, <1>6, <1>7, <1>8 DEF Pair

LEMMA CardsStep ==
    ASSUME IInv, NEW c \in Conns, OnPeers(c) \/ OnPeerJoined(c)
    PROVE  Server' /\ \A d \in Conns : Client(d)'
<1>0. /\ TypeInv /\ Client(c) /\ \A p \in Conns : Pair(c, p)
      /\ cards \in [Conns -> SUBSET Conns]
  BY DEF IInv, TypeInv, TypeOK, Client
<1> DEFINE m == Head(inbox[c])
<1>1. PICK S \in SUBSET Conns :
          /\ m = <<"peers", S>> \/ (\E x \in S : S = {x} /\ m = <<"joined", x>>)
          /\ cards' = [cards EXCEPT ![c] = @ \union S]
  <2>1. CASE OnPeers(c)
    BY <1>0, <2>1, Opening DEF OnPeers
  <2>2. CASE OnPeerJoined(c)
    <3>1. m = <<"joined", Payload(c)>> /\ {Payload(c)} \in SUBSET Conns
      BY <1>0, <2>2, Opening DEF OnPeerJoined
    <3> QED BY <2>2, <3>1 DEF OnPeerJoined
  <2> QED BY <2>1, <2>2
<1>2. /\ inbox[c] \in Seq(Msgs) /\ inbox[c] # <<>> /\ inbox'[c] = Tail(inbox[c]) /\ On(c)
      /\ \A d \in Conns \ {c} : inbox'[d] = inbox[d]
      /\ UNCHANGED <<serverVars, consumer, setup, call, consuming>>
  <2>1. PICK type : Gets(c, type) /\ inbox' = Rest(c)
    BY DEF OnPeers, OnPeerJoined
  <2>2. UNCHANGED <<serverVars, consumer, setup, call, consuming>>
    BY DEF OnPeers, OnPeerJoined
  <2> QED BY <1>0, <2>1, <2>2, Opening, Present
<1>3. m \in Msgs
  BY <1>2, Received
<1>4. \A p \in S : m \in Adders(p)
  BY <1>1 DEF Adders
<1>5. \A p \in Conns \ S : \A M \in About(p) : m \notin M
  <2> SUFFICES ASSUME NEW p \in Conns \ S, NEW M \in About(p) PROVE m \notin M
    OBVIOUS
  <2>1. 1 \in Calls /\ p \notin S /\ \A x \in S : p \in Conns /\ x \in Conns \ {p}
    BY DEF Calls
  <2>2. <<"peers", S>> \notin M
    BY <2>1 DEF About, Adders, NewOf, Lists, ListsOf, ConsumedOf, ResumedOf, ClosedOf, LeftOf
  <2>3. \A x \in S : <<"joined", x>> \notin M
    BY <2>1 DEF About, Adders, NewOf, Lists, ListsOf, ConsumedOf, ResumedOf, ClosedOf, LeftOf
  <2> HIDE DEF m
  <2> QED BY <1>1, <2>2, <2>3
<1> HIDE DEF m
<1>6. \A p \in Conns \ S : SameMail(c, p)
  BY <1>2, <1>3, <1>5, Unrelated DEF m
<1>7. /\ cards'[c] = cards[c] \union S
      /\ \A d \in Conns \ {c} : cards'[d] = cards[d]
  BY <1>0, <1>1
<1>8. UNCHANGED <<conn, room, crossed, producer>>
  BY <1>2 DEF serverVars
<1>9. \A p \in Conns \ S : Pair(c, p)'
  BY <1>0, <1>2, <1>6, <1>7, <1>8, Bystander
<1>10. \A p \in S : Pair(c, p)'
  BY <1>0, <1>2, <1>4, <1>7, <1>8, CardPair DEF m
<1>11. Off(c)' /\ Self(c)' /\ Listed(c)'
  BY <1>0, <1>2, <1>8, HandledAlone
<1>12. Client(c)'
  BY <1>9, <1>10, <1>11 DEF Client
<1>13. \A d \in Conns \ {c} : Client(d)'
  BY <1>2, <1>7, OthersStay
<1>14. Server'
  BY <1>2, ServerStays
<1> QED BY <1>12, <1>13, <1>14

LEMMA ClosedStep ==
    ASSUME IInv, NEW c \in Conns, OnProducerClosed(c) \/ OnPeerLeft(c)
    PROVE  Server' /\ \A d \in Conns : Client(d)'
<1>0. /\ TypeInv /\ Client(c) /\ \A p \in Conns : Pair(c, p)
      /\ cards \in [Conns -> SUBSET Conns] /\ consuming \in [Conns -> [Conns -> {0} \union Calls]]
      /\ consumer \in [Conns \X Conns \X Calls ->
                             {"none", "paused", "live", "closing", "closed"}]
  BY DEF IInv, TypeInv, TypeOK, Client
<1>1. PICK type \in {"closed", "left"} : Gets(c, type) /\ inbox' = Rest(c)
  BY DEF OnProducerClosed, OnPeerLeft
<1>a. PICK x \in Conns : x = Payload(c)
  BY <1>0, <1>1, Opening
<1>2. /\ inbox[c] \in Seq(Msgs) /\ inbox[c] # <<>> /\ inbox'[c] = Tail(inbox[c]) /\ On(c)
      /\ \A d \in Conns \ {c} : inbox'[d] = inbox[d]
      /\ Head(inbox[c]) = <<type, x>> /\ x \in Conns
  BY <1>0, <1>1, <1>a, Opening, Present
<1>3. UNCHANGED <<serverVars, setup, call>>
  BY DEF OnProducerClosed, OnPeerLeft
<1>4. /\ \/ Head(inbox[c]) = <<"closed", x>> /\ cards' = cards
         \/ Head(inbox[c]) = <<"left", x>> /\ cards' = [cards EXCEPT ![c] = @ \ {x}]
      /\ \/ consumer' = ServerClose(c, x) /\ consuming' = [consuming EXCEPT ![c][x] = 0]
         \/ x \notin cards[c] /\ consumer' = consumer /\ consuming' = consuming
  <2>1. CASE OnProducerClosed(c)
    BY <1>0, <1>a, <2>1, Opening DEF OnProducerClosed
  <2>2. CASE OnPeerLeft(c)
    BY <1>0, <1>a, <2>2, Opening DEF OnPeerLeft
  <2> QED BY <2>1, <2>2
<1>5. \A d, p \in Conns :
         <<d, p>> # <<c, x>> =>
             /\ p \in cards'[d] <=> p \in cards[d]
             /\ consuming'[d][p] = consuming[d][p]
             /\ \A k \in Calls : consumer'[<<d, p, k>>] = consumer[<<d, p, k>>]
  BY <1>0, <1>2, <1>4 DEF ServerClose
<1>6. \A d \in Conns \ {c} : cards'[d] = cards[d] /\ consuming'[d] = consuming[d]
  BY <1>0, <1>2, <1>4
<1>7. UNCHANGED <<conn, room, crossed, producer>>
  BY <1>3 DEF serverVars
<1>8. Pair(c, x)'
  <2>1. \/ Head(inbox[c]) = <<"closed", x>> /\ cards'[c] = cards[c]
        \/ Head(inbox[c]) = <<"left", x>> /\ x \notin cards'[c]
    BY <1>0, <1>4
  <2>2. \/ consumer' = ServerClose(c, x) /\ consuming'[c][x] = 0
        \/ x \notin cards[c] /\ consumer' = consumer /\ consuming'[c][x] = consuming[c][x]
    BY <1>0, <1>2, <1>4
  <2>3. UNCHANGED <<conn, room, crossed, producer, setup, call>>
    BY <1>3, <1>7
  <2> QED BY <1>0, <1>2, <2>1, <2>2, <2>3, ClosedPair
<1>9. \A p \in Conns \ {x} : SameMail(c, p)
  <2> SUFFICES ASSUME NEW p \in Conns \ {x} PROVE SameMail(c, p)
    OBVIOUS
  <2>1. x \in Conns \ {p} /\ 1 \in Calls /\ {} \in SUBSET Conns /\ p \notin {}
    BY <1>2 DEF Calls
  <2>2. \A M \in About(p) : <<"closed", x>> \notin M /\ <<"left", x>> \notin M
    BY <2>1, AboutOthers
  <2> DEFINE m == Head(inbox[c])
  <2>3. m \in Msgs
    BY <1>2, Received
  <2>4. \A M \in About(p) : m \notin M
    BY <1>4, <2>2
  <2> QED BY <1>2, <2>3, <2>4, Unrelated
<1>10. \A p \in Conns \ {x} : Pair(c, p)'
  BY <1>0, <1>2, <1>3, <1>5, <1>7, <1>9, Bystander
<1>11. Off(c)' /\ Self(c)' /\ Listed(c)'
  BY <1>0, <1>2, <1>3, <1>7, HandledAlone
<1>12. Client(c)'
  BY <1>8, <1>10, <1>11 DEF Client
<1>13. \A d \in Conns \ {c} : Client(d)'
  BY <1>2, <1>3, <1>5, <1>6, OthersStay
<1>14. Server'
  BY <1>3, ServerStays
<1> QED BY <1>12, <1>13, <1>14

--------------------------------------------------------------------------------
\* One call moves on: whatever its answer is, nothing else of the pair is disturbed, and
\* the two are in one room because the call is under way.
LEMMA CallMoves ==
    ASSUME NEW c \in Conns, NEW p \in Conns, NEW k \in Calls, Pair(c, p), On(c),
           inbox[c] \in Seq(Msgs), NEW m \in Msgs,
           m \in {<<"consumed", <<p, k>>>>, <<"resumed", <<p, k>>>>},
           \/ inbox'[c] = inbox[c]
           \/ inbox'[c] = Plus(inbox[c], m)
           \/ inbox[c] # <<>> /\ m = Head(inbox[c]) /\ inbox'[c] = Tail(inbox[c]),
           UNCHANGED <<conn, room, crossed, producer, setup>>,
           call[<<c, p, k>>] \in Subscribing,
           \/ call'[<<c, p, k>>] \in Subscribing \union {"done"}
           \/ call'[<<c, p, k>>] = "refused" /\ producer[p] # "open",
           Answers(c, p, k)', Follows(c, p, k)',
           consumer'[<<c, p, k>>] = "closing" => consumer[<<c, p, k>>] = "closing",
           \A j \in Calls \ {k} : /\ call'[<<c, p, j>>] = call[<<c, p, j>>]
                                  /\ consumer'[<<c, p, j>>] = consumer[<<c, p, j>>],
           p \in cards[c] => p \in cards'[c],
           \/ consuming'[c][p] = consuming[c][p]
           \/ consuming'[c][p] = k /\ p \in cards'[c]
    PROVE  Pair(c, p)'
<1>1. /\ \A M \in {Adders(p), NewOf(p), ListsOf(p), ClosedOf(p), LeftOf(p)} : m \notin M
      /\ \A j \in Calls \ {k} : m \notin ConsumedOf(p, j) /\ m \notin ResumedOf(p, j)
  BY DEF Adders, NewOf, Lists, ListsOf, ConsumedOf, ResumedOf, ClosedOf, LeftOf
<1>2. ASSUME NEW M, m \notin M
      PROVE  /\ In(inbox'[c], M) <=> In(inbox[c], M)
             /\ Once(inbox[c], M) => Once(inbox'[c], M)
  <2>1. CASE inbox'[c] = Plus(inbox[c], m)
    BY <1>2, <2>1, Appended
  <2>2. CASE inbox[c] # <<>> /\ m = Head(inbox[c]) /\ inbox'[c] = Tail(inbox[c])
    BY <1>2, <2>2, Received
  <2> QED BY <2>1, <2>2
<1>3. Followed(inbox[c], Adders(p), LeftOf(p)) => Followed(inbox'[c], Adders(p), LeftOf(p))
  <2>1. CASE inbox'[c] = Plus(inbox[c], m)
    BY <1>1, <2>1, AppendedLast
  <2>2. CASE inbox[c] # <<>> /\ m = Head(inbox[c]) /\ inbox'[c] = Tail(inbox[c])
    BY <2>2, ReceivedFirst
  <2> QED BY <2>1, <2>2
<1>4. /\ \A M \in {Adders(p), NewOf(p), ListsOf(p), ClosedOf(p), LeftOf(p)} :
             In(inbox'[c], M) <=> In(inbox[c], M)
      /\ Once(inbox[c], NewOf(p)) => Once(inbox'[c], NewOf(p))
      /\ \A j \in Calls \ {k} :
            /\ In(inbox'[c], ConsumedOf(p, j)) <=> In(inbox[c], ConsumedOf(p, j))
            /\ In(inbox'[c], ResumedOf(p, j)) <=> In(inbox[c], ResumedOf(p, j))
            /\ Once(inbox[c], ConsumedOf(p, j)) => Once(inbox'[c], ConsumedOf(p, j))
            /\ Once(inbox[c], ResumedOf(p, j)) => Once(inbox'[c], ResumedOf(p, j))
  BY <1>1, <1>2
<1>5. Mail(c, p)'
  <2>1. OfGone(c, p)' => conn'[p] = "gone"
    BY <1>4 DEF Pair, Mail, OfGone
  <2>2. \A j \in Calls \ {k} : Answers(c, p, j)'
    BY <1>4 DEF Pair, Mail, Answers
  <2> QED BY <1>4, <2>1, <2>2 DEF Pair, Mail
<1>6. Offers(c, p)'
  <2>1. \A j \in Calls : call'[<<c, p, j>>] # "none" <=> call[<<c, p, j>>] # "none"
    BY DEF Subscribing
  <2>2. Expected(c, p)' <=> Expected(c, p)
    BY <1>4 DEF Expected
  <2>3. 1 \in Calls /\ 2 \in Calls
    BY DEF Calls
  <2> QED BY <2>1, <2>2, <2>3 DEF Pair, Offers
<1>7. \A j \in Calls : Follows(c, p, j)'
  <2> SUFFICES ASSUME NEW j \in Calls \ {k} PROVE Follows(c, p, j)'
    OBVIOUS
  <2>1. k # 0
    BY DEF Calls
  <2> QED BY <2>1 DEF Pair, Follows, On
<1>8. Near(c, p)' /\ Carded(c, p)'
  BY DEF Pair, Near, Carded
<1>9. NotMissed(c, p)'
  <2>1. Announced(c, p) => Announced(c, p)'
    BY <1>4 DEF Announced
  <2>2. producer'[p] = "open" => \E j \in Calls : call'[<<c, p, j>>] \in Subscribing \union {"done"}
    OBVIOUS
  <2> QED BY <2>1, <2>2 DEF Pair, NotMissed, Offered, Together, On
<1>10. Departs(c, p)'
  BY DEF Pair, Departs, On
<1> QED BY <1>5, <1>6, <1>7, <1>8, <1>9, <1>10 DEF Pair


\* One call moves on: the other calls, the other pairs and the other clients stay.
LEMMA CallStep ==
    ASSUME IInv, NEW c \in Conns, NEW p \in Conns \ {c}, NEW k \in Calls, On(c), NEW m,
           m \in {<<"consumed", <<p, k>>>>, <<"resumed", <<p, k>>>>},
           \/ inbox'[c] = inbox[c]
           \/ inbox'[c] = Plus(inbox[c], m)
           \/ inbox[c] # <<>> /\ m = Head(inbox[c]) /\ inbox'[c] = Tail(inbox[c]),
           UNCHANGED <<serverVars, setup>>,
           \A d \in Conns \ {c} : /\ inbox'[d] = inbox[d] /\ cards'[d] = cards[d]
                                  /\ consuming'[d] = consuming[d],
           \A q \in Conns \ {p} : /\ q \in cards'[c] <=> q \in cards[c]
                                  /\ consuming'[c][q] = consuming[c][q],
           \A d, q \in Conns, j \in Calls :
              <<d, q, j>> # <<c, p, k>> => /\ call'[<<d, q, j>>] = call[<<d, q, j>>]
                                           /\ consumer'[<<d, q, j>>] = consumer[<<d, q, j>>],
           Pair(c, p)'
    PROVE  Server' /\ \A d \in Conns : Client(d)'
<1>0. Client(c) /\ (\A q \in Conns : Pair(c, q)) /\ inbox[c] \in Seq(Msgs)
  BY DEF IInv, TypeInv, Client
<1>1. UNCHANGED <<conn, room, crossed, producer>>
  BY DEF serverVars
<1>2. m \in Msgs /\ m \notin Lists
  BY DEF Msgs, Lists
<1>3. ASSUME NEW q \in Conns \ {p}, NEW M \in About(q) PROVE m \notin M
  <2>1. p \in Conns \ {q} /\ {} \in SUBSET Conns /\ q \notin {}
    OBVIOUS
  <2>2. <<"consumed", <<p, k>>>> \notin M /\ <<"resumed", <<p, k>>>> \notin M
    BY <2>1, AboutOthers
  <2> QED BY <2>2
<1>4. \A q \in Conns \ {p} : SameMail(c, q)
  BY <1>0, <1>2, <1>3, SameInbox, Unrelated
<1>5. \A q \in Conns \ {p} : Pair(c, q)'
  BY <1>0, <1>1, <1>4, Bystander
<1>6. /\ In(inbox'[c], Lists) <=> In(inbox[c], Lists)
      /\ Once(inbox[c], Lists) => Once(inbox'[c], Lists)
  <2>1. CASE inbox'[c] = Plus(inbox[c], m)
    BY <1>0, <1>2, <2>1, Appended
  <2>2. CASE inbox[c] # <<>> /\ m = Head(inbox[c]) /\ inbox'[c] = Tail(inbox[c])
    BY <1>0, <1>2, <2>2, Received
  <2> QED BY <2>1, <2>2
<1>7. Off(c)'
  BY <1>1 DEF Off, On
<1>8. Self(c)'
  BY <1>0, <1>4, SameClasses DEF Client, Self
<1>9. Listed(c)'
  BY <1>0, <1>6 DEF Client, Listed
<1>10. Client(c)'
  BY <1>5, <1>7, <1>8, <1>9 DEF Client
<1>11. \A d \in Conns \ {c} : Client(d)'
  BY OthersStay
<1> QED BY <1>10, <1>11, ServerStays

\* What is known of a call under way
LEMMA UnderWay ==
    ASSUME IInv, NEW c \in Conns, NEW p \in Conns, NEW k \in Calls,
           call[<<c, p, k>>] # "none"
    PROVE  /\ On(c) /\ p # c /\ Answers(c, p, k) /\ Follows(c, p, k) /\ Pair(c, p) /\ TypeInv
           /\ inbox \in [Conns -> Seq(Msgs)] /\ inbox[c] \in Seq(Msgs)
           /\ call \in [Conns \X Conns \X Calls ->
                    {"none", "asked", "refused", "acked", "local", "resuming", "done"}]
           /\ consumer \in [Conns \X Conns \X Calls ->
                             {"none", "paused", "live", "closing", "closed"}]
           /\ consuming \in [Conns -> [Conns -> {0} \union Calls]]
           /\ cards \in [Conns -> SUBSET Conns]
BY Present DEF IInv, TypeInv, TypeOK, Client, Self, Pair, Mail

\* The server's consumer is there, or the producer is not any more.
LEMMA ConsumedStep ==
    ASSUME IInv, NEW c \in Conns, NEW p \in Conns, NEW k \in Calls, Consumed(c, p, k)
    PROVE  Server' /\ \A d \in Conns : Client(d)'
<1> DEFINE m == <<"consumed", <<p, k>>>>
<1>1. call[<<c, p, k>>] = "asked"
  BY DEF Consumed
<1>2. /\ On(c) /\ p # c /\ Pair(c, p) /\ TypeInv
      /\ inbox \in [Conns -> Seq(Msgs)] /\ inbox[c] \in Seq(Msgs)
      /\ consumer[<<c, p, k>>] = "none"
      /\ ~In(inbox[c], ConsumedOf(p, k)) /\ ~In(inbox[c], ResumedOf(p, k))
      /\ Once(inbox[c], ConsumedOf(p, k)) /\ Once(inbox[c], ResumedOf(p, k))
  BY <1>1, UnderWay DEF Answers, Follows
<1>3. UNCHANGED <<serverVars, setup, consuming, cards>>
  BY DEF Consumed
<1>4. \/ /\ producer[p] = "open" /\ call'[<<c, p, k>>] = "acked"
         /\ consumer'[<<c, p, k>>] = "paused" /\ inbox'[c] = Plus(inbox[c], m)
      \/ /\ producer[p] # "open" /\ call'[<<c, p, k>>] = "refused"
         /\ consumer'[<<c, p, k>>] = "none" /\ inbox'[c] = inbox[c]
  <2>1. /\ call \in [Conns \X Conns \X Calls ->
                      {"none", "asked", "refused", "acked", "local", "resuming", "done"}]
        /\ consumer \in [Conns \X Conns \X Calls ->
                             {"none", "paused", "live", "closing", "closed"}]
    BY <1>1, UnderWay
  <2>2. CASE producer[p] = "open"
    BY <1>2, <2>1, <2>2 DEF Consumed, Tell, Plus
  <2>3. CASE producer[p] # "open"
    BY <1>2, <2>1, <2>3 DEF Consumed
  <2> QED BY <2>2, <2>3
<1>5. /\ \A d \in Conns \ {c} : inbox'[d] = inbox[d]
      /\ \A d, q \in Conns, j \in Calls :
            <<d, q, j>> # <<c, p, k>> => /\ call'[<<d, q, j>>] = call[<<d, q, j>>]
                                         /\ consumer'[<<d, q, j>>] = consumer[<<d, q, j>>]
  BY <1>1, UnderWay DEF Consumed, Tell
<1>6. /\ m \in Msgs /\ m \in ConsumedOf(p, k) /\ m \notin ResumedOf(p, k)
      /\ m \in {<<"consumed", <<p, k>>>>, <<"resumed", <<p, k>>>>}
  BY DEF Msgs, ConsumedOf, ResumedOf
<1> HIDE DEF m
<1>7. UNCHANGED <<conn, room, crossed, producer, setup>>
  BY <1>3 DEF serverVars
<1>8. Answers(c, p, k)'
  <2>0. inbox'[c] = inbox[c] \/ inbox'[c] = Plus(inbox[c], m)
    BY <1>4
  <2>1. Once(inbox'[c], ConsumedOf(p, k))
    <3>1. /\ inbox[c] \in Seq(Msgs) /\ m \in Msgs /\ ~In(inbox[c], ConsumedOf(p, k))
          /\ Once(inbox[c], ConsumedOf(p, k))
      BY <1>2, <1>6
    <3> QED BY <2>0, <3>1, Appended
  <2>2. Once(inbox'[c], ResumedOf(p, k)) /\ ~In(inbox'[c], ResumedOf(p, k))
    <3>1. /\ inbox[c] \in Seq(Msgs) /\ m \in Msgs /\ m \notin ResumedOf(p, k)
          /\ ~In(inbox[c], ResumedOf(p, k)) /\ Once(inbox[c], ResumedOf(p, k))
      BY <1>2, <1>6
    <3> QED BY <2>0, <3>1, Beside
  <2>3. In(inbox'[c], ConsumedOf(p, k)) => call'[<<c, p, k>>] = "acked"
    BY <1>2, <1>4
  <2> QED BY <2>1, <2>2, <2>3 DEF Answers
<1>9. Follows(c, p, k)'
  BY <1>1, <1>2, <1>3, <1>4, <1>7, UnderWay DEF Follows, On
<1>10. /\ \/ inbox'[c] = inbox[c]
          \/ inbox'[c] = Plus(inbox[c], m)
          \/ inbox[c] # <<>> /\ m = Head(inbox[c]) /\ inbox'[c] = Tail(inbox[c])
       /\ call[<<c, p, k>>] \in Subscribing
       /\ consumer'[<<c, p, k>>] = "closing" => consumer[<<c, p, k>>] = "closing"
       /\ \/ call'[<<c, p, k>>] \in Subscribing \union {"done"}
          \/ call'[<<c, p, k>>] = "refused" /\ producer[p] # "open"
       /\ \A j \in Calls \ {k} : /\ call'[<<c, p, j>>] = call[<<c, p, j>>]
                                 /\ consumer'[<<c, p, j>>] = consumer[<<c, p, j>>]
  BY <1>1, <1>4, <1>5 DEF Subscribing
<1>11. Pair(c, p)'
  BY <1>2, <1>3, <1>6, <1>7, <1>8, <1>9, <1>10, CallMoves
<1> QED BY <1>2, <1>3, <1>5, <1>6, <1>10, <1>11, CallStep

\* The acknowledgement
LEMMA OnConsumedStep ==
    ASSUME IInv, NEW c \in Conns, OnConsumed(c)
    PROVE  Server' /\ \A d \in Conns : Client(d)'
<1>0. TypeInv /\ Gets(c, "consumed") /\ \A q \in Conns : Pair(c, q)
  BY DEF OnConsumed, IInv, Client
<1>1. PICK p \in Conns, k \in Calls : Payload(c) = <<p, k>>
  BY <1>0, Opening
<1> DEFINE m == <<"consumed", <<p, k>>>>
<1>2. /\ m = Head(inbox[c]) /\ inbox[c] # <<>> /\ inbox[c] \in Seq(Msgs)
      /\ Rest(c)[c] = Tail(inbox[c]) /\ \A d \in Conns \ {c} : Rest(c)[d] = inbox[d]
  BY <1>0, <1>1, Opening
<1>3. /\ inbox' = Rest(c) /\ call' = [call EXCEPT ![<<c, p, k>>] = "local"]
      /\ UNCHANGED <<serverVars, consumer, setup, consuming, cards>>
  BY <1>1 DEF OnConsumed
<1>6. /\ m \in Msgs /\ m \in ConsumedOf(p, k) /\ m \notin ResumedOf(p, k)
      /\ m \in {<<"consumed", <<p, k>>>>, <<"resumed", <<p, k>>>>}
  BY DEF Msgs, ConsumedOf, ResumedOf
<1> HIDE DEF m
<1>4. /\ call[<<c, p, k>>] = "acked" /\ Answers(c, p, k)
      /\ ~In(Tail(inbox[c]), ConsumedOf(p, k)) /\ ~In(inbox[c], ResumedOf(p, k))
  <2>1. Answers(c, p, k) /\ In(inbox[c], ConsumedOf(p, k))
    BY <1>0, <1>2, <1>6, Received DEF Pair, Mail
  <2>2. call[<<c, p, k>>] = "acked" /\ ~In(inbox[c], ResumedOf(p, k))
    BY <2>1 DEF Answers
  <2>3. ~In(Tail(inbox[c]), ConsumedOf(p, k))
    BY <2>1, <1>2, <1>6, Received DEF Answers
  <2> QED BY <2>1, <2>2, <2>3
<1>5. On(c) /\ p # c /\ Pair(c, p) /\ call'[<<c, p, k>>] = "local"
  BY <1>3, <1>4, UnderWay
<1>7. UNCHANGED <<conn, room, crossed, producer, setup>>
  BY <1>3 DEF serverVars
<1>8. Answers(c, p, k)'
  BY <1>2, <1>3, <1>4, Received DEF Answers
<1>9. Follows(c, p, k)'
  BY <1>3, <1>4, <1>5, <1>7, UnderWay DEF Follows, On
<1>10. /\ inbox[c] # <<>> /\ m = Head(inbox[c]) /\ inbox'[c] = Tail(inbox[c])
       /\ call[<<c, p, k>>] \in Subscribing
       /\ consumer'[<<c, p, k>>] = "closing" => consumer[<<c, p, k>>] = "closing"
       /\ call'[<<c, p, k>>] \in Subscribing
       /\ \A d, q \in Conns, j \in Calls :
             <<d, q, j>> # <<c, p, k>> => /\ call'[<<d, q, j>>] = call[<<d, q, j>>]
                                          /\ consumer'[<<d, q, j>>] = consumer[<<d, q, j>>]
  BY <1>2, <1>3, <1>4, <1>5, UnderWay DEF Subscribing
<1>11. Pair(c, p)'
  <2>1. \A j \in Calls \ {k} : /\ call'[<<c, p, j>>] = call[<<c, p, j>>]
                               /\ consumer'[<<c, p, j>>] = consumer[<<c, p, j>>]
    BY <1>10
  <2> QED BY <1>2, <1>3, <1>5, <1>6, <1>7, <1>8, <1>9, <1>10, <2>1, CallMoves
<1> QED BY <1>2, <1>3, <1>5, <1>6, <1>10, <1>11, CallStep

\* resumeConsumer: the server's consumer is resumed, and answered.
LEMMA LocalStep ==
    ASSUME IInv, NEW c \in Conns, NEW p \in Conns, NEW k \in Calls, LocalConsumed(c, p, k)
    PROVE  Server' /\ \A d \in Conns : Client(d)'
<1> DEFINE m == <<"resumed", <<p, k>>>>
<1>1. call[<<c, p, k>>] = "local"
  BY DEF LocalConsumed
<1>2. /\ On(c) /\ p # c /\ Pair(c, p) /\ TypeInv
      /\ inbox \in [Conns -> Seq(Msgs)] /\ inbox[c] \in Seq(Msgs)
      /\ ~In(inbox[c], ConsumedOf(p, k)) /\ ~In(inbox[c], ResumedOf(p, k))
      /\ Once(inbox[c], ConsumedOf(p, k)) /\ Once(inbox[c], ResumedOf(p, k))
  BY <1>1, UnderWay DEF Answers
<1>3. UNCHANGED <<serverVars, setup, consuming, cards>>
  BY DEF LocalConsumed
<1>4. /\ call'[<<c, p, k>>] = "resuming" /\ inbox'[c] = Plus(inbox[c], m)
      /\ consumer'[<<c, p, k>>] =
             IF consumer[<<c, p, k>>] = "paused" THEN "live" ELSE consumer[<<c, p, k>>]
  BY <1>1, <1>2, UnderWay DEF LocalConsumed, Tell, Plus
<1>5. /\ \A d \in Conns \ {c} : inbox'[d] = inbox[d]
      /\ \A d, q \in Conns, j \in Calls :
            <<d, q, j>> # <<c, p, k>> => /\ call'[<<d, q, j>>] = call[<<d, q, j>>]
                                         /\ consumer'[<<d, q, j>>] = consumer[<<d, q, j>>]
  BY <1>1, UnderWay DEF LocalConsumed, Tell
<1>6. /\ m \in Msgs /\ m \in ResumedOf(p, k) /\ m \notin ConsumedOf(p, k)
      /\ m \in {<<"consumed", <<p, k>>>>, <<"resumed", <<p, k>>>>}
  BY DEF Msgs, ConsumedOf, ResumedOf
<1> HIDE DEF m
<1>7. UNCHANGED <<conn, room, crossed, producer, setup>>
  BY <1>3 DEF serverVars
<1>8. Answers(c, p, k)'
  <2>1. Once(inbox'[c], ConsumedOf(p, k)) /\ Once(inbox'[c], ResumedOf(p, k))
    BY <1>2, <1>4, <1>6, Appended
  <2>2. ~In(inbox'[c], ConsumedOf(p, k))
    BY <1>2, <1>4, <1>6, Appended
  <2> QED BY <1>4, <2>1, <2>2 DEF Answers
<1>9. Follows(c, p, k)'
  BY <1>1, <1>2, <1>3, <1>4, <1>7, UnderWay DEF Follows, On
<1>10. /\ call[<<c, p, k>>] \in Subscribing /\ call'[<<c, p, k>>] \in Subscribing
       /\ consumer'[<<c, p, k>>] = "closing" => consumer[<<c, p, k>>] = "closing"
       /\ \A j \in Calls \ {k} : /\ call'[<<c, p, j>>] = call[<<c, p, j>>]
                                 /\ consumer'[<<c, p, j>>] = consumer[<<c, p, j>>]
  BY <1>1, <1>4, <1>5 DEF Subscribing
<1>11. Pair(c, p)'
  BY <1>2, <1>3, <1>4, <1>6, <1>7, <1>8, <1>9, <1>10, CallMoves
<1> QED BY <1>2, <1>3, <1>4, <1>5, <1>6, <1>11, CallStep

\* consuming.set and attachPeerAudio
LEMMA OnResumedStep ==
    ASSUME IInv, NEW c \in Conns, OnResumed(c)
    PROVE  Server' /\ \A d \in Conns : Client(d)'
<1>0. TypeInv /\ Gets(c, "resumed") /\ \A q \in Conns : Pair(c, q)
  BY DEF OnResumed, IInv, Client
<1>1. PICK p \in Conns, k \in Calls : Payload(c) = <<p, k>>
  BY <1>0, Opening
<1> DEFINE m == <<"resumed", <<p, k>>>>
<1>2. /\ m = Head(inbox[c]) /\ inbox[c] # <<>> /\ inbox[c] \in Seq(Msgs)
      /\ Rest(c)[c] = Tail(inbox[c]) /\ \A d \in Conns \ {c} : Rest(c)[d] = inbox[d]
  BY <1>0, <1>1, Opening
<1>3. /\ inbox' = Rest(c) /\ call' = [call EXCEPT ![<<c, p, k>>] = "done"]
      /\ consuming' = [consuming EXCEPT ![c][p] = k]
      /\ cards' = [cards EXCEPT ![c] = @ \union {p}]
      /\ UNCHANGED <<serverVars, consumer, setup>>
  BY <1>1 DEF OnResumed
<1>6. /\ m \in Msgs /\ m \in ResumedOf(p, k)
      /\ m \in {<<"consumed", <<p, k>>>>, <<"resumed", <<p, k>>>>}
  BY DEF Msgs, ResumedOf
<1> HIDE DEF m
<1>4. /\ call[<<c, p, k>>] = "resuming" /\ Answers(c, p, k)
      /\ ~In(Tail(inbox[c]), ResumedOf(p, k)) /\ ~In(inbox[c], ConsumedOf(p, k))
  <2>1. Answers(c, p, k) /\ In(inbox[c], ResumedOf(p, k))
    BY <1>0, <1>2, <1>6, Received DEF Pair, Mail
  <2>2. call[<<c, p, k>>] = "resuming" /\ ~In(inbox[c], ConsumedOf(p, k))
    BY <2>1 DEF Answers
  <2>3. ~In(Tail(inbox[c]), ResumedOf(p, k))
    BY <2>1, <1>2, <1>6, Received DEF Answers
  <2> QED BY <2>1, <2>2, <2>3
<1>5. /\ On(c) /\ p # c /\ Pair(c, p) /\ call'[<<c, p, k>>] = "done"
      /\ consuming'[c][p] = k /\ p \in cards'[c] /\ k # 0
      /\ \A d \in Conns \ {c} : cards'[d] = cards[d] /\ consuming'[d] = consuming[d]
      /\ \A q \in Conns \ {p} : /\ q \in cards'[c] <=> q \in cards[c]
                                /\ consuming'[c][q] = consuming[c][q]
  <2>1. /\ On(c) /\ p # c /\ Pair(c, p)
        /\ call \in [Conns \X Conns \X Calls ->
                      {"none", "asked", "refused", "acked", "local", "resuming", "done"}]
        /\ consuming \in [Conns -> [Conns -> {0} \union Calls]]
        /\ cards \in [Conns -> SUBSET Conns]
    BY <1>0, <1>4, UnderWay DEF TypeInv, TypeOK
  <2>2. call'[<<c, p, k>>] = "done"
    BY <2>1, <1>3
  <2>3. /\ consuming'[c][p] = k
        /\ \A q \in Conns \ {p} : consuming'[c][q] = consuming[c][q]
        /\ \A d \in Conns \ {c} : consuming'[d] = consuming[d]
    BY <2>1, <1>3
  <2>4. /\ p \in cards'[c] /\ \A d \in Conns \ {c} : cards'[d] = cards[d]
        /\ \A q \in Conns \ {p} : q \in cards'[c] <=> q \in cards[c]
    BY <2>1, <1>3
  <2>5. k # 0
    BY DEF Calls
  <2> QED BY <2>1, <2>2, <2>3, <2>4, <2>5
<1>7. UNCHANGED <<conn, room, crossed, producer, setup>>
  BY <1>3 DEF serverVars
<1>8. Answers(c, p, k)'
  BY <1>2, <1>3, <1>4, Received DEF Answers
<1>9. Follows(c, p, k)'
  BY <1>3, <1>4, <1>5, <1>7, UnderWay DEF Follows, On
<1>10. /\ inbox[c] # <<>> /\ m = Head(inbox[c]) /\ inbox'[c] = Tail(inbox[c])
       /\ call[<<c, p, k>>] \in Subscribing
       /\ consumer'[<<c, p, k>>] = "closing" => consumer[<<c, p, k>>] = "closing"
       /\ call'[<<c, p, k>>] \in Subscribing \union {"done"}
       /\ \A d, q \in Conns, j \in Calls :
             <<d, q, j>> # <<c, p, k>> => /\ call'[<<d, q, j>>] = call[<<d, q, j>>]
                                          /\ consumer'[<<d, q, j>>] = consumer[<<d, q, j>>]
  BY <1>2, <1>3, <1>4, <1>5, UnderWay DEF Subscribing
<1>11. Pair(c, p)'
  <2>1. \A j \in Calls \ {k} : /\ call'[<<c, p, j>>] = call[<<c, p, j>>]
                               /\ consumer'[<<c, p, j>>] = consumer[<<c, p, j>>]
    BY <1>10
  <2> QED BY <1>2, <1>3, <1>5, <1>6, <1>7, <1>8, <1>9, <1>10, <2>1, CallMoves
<1>12. \A d \in Conns \ {c} : inbox'[d] = inbox[d]
  BY <1>2, <1>3
<1> QED BY <1>3, <1>5, <1>6, <1>10, <1>11, <1>12, CallStep

\* The server's consumer hears that its producer is closed.
LEMMA CloseStep ==
    ASSUME IInv, NEW c \in Conns, NEW p \in Conns, NEW k \in Calls, ConsumerProducerClose(c, p, k)
    PROVE  Server' /\ \A d \in Conns : Client(d)'
<1> DEFINE m == <<"closed", p>>
<1>0. /\ TypeInv /\ Client(c) /\ Pair(c, p) /\ \A q \in Conns : Pair(c, q)
      /\ inbox \in [Conns -> Seq(Msgs)] /\ inbox[c] \in Seq(Msgs)
      /\ consumer \in [Conns \X Conns \X Calls ->
                             {"none", "paused", "live", "closing", "closed"}]
  BY DEF IInv, TypeInv, TypeOK, Client
<1>1. consumer[<<c, p, k>>] = "closing" /\ On(c) /\ conn[p] = "gone"
  <2>1. consumer[<<c, p, k>>] = "closing"
    BY DEF ConsumerProducerClose
  <2> QED BY <1>0, <2>1, Present DEF Pair, Mail, OfGone
<1>2. UNCHANGED <<serverVars, setup, call, consuming, cards>>
  BY DEF ConsumerProducerClose, clientVars
<1>3. /\ inbox'[c] = Plus(inbox[c], m) /\ consumer'[<<c, p, k>>] = "closed"
      /\ \A d \in Conns \ {c} : inbox'[d] = inbox[d]
      /\ \A d, q \in Conns, j \in Calls :
            <<d, q, j>> # <<c, p, k>> => consumer'[<<d, q, j>>] = consumer[<<d, q, j>>]
  BY <1>0 DEF ConsumerProducerClose, Tell, Plus
<1>4. /\ m \in Msgs /\ m \notin Lists
      /\ m \notin Adders(p) /\ m \notin NewOf(p) /\ m \notin ListsOf(p) /\ m \notin LeftOf(p)
      /\ \A j \in Calls : m \notin ConsumedOf(p, j) /\ m \notin ResumedOf(p, j)
  BY DEF Msgs, Adders, NewOf, Lists, ListsOf, ConsumedOf, ResumedOf, LeftOf
<1>5. ASSUME NEW q \in Conns \ {p}, NEW M \in About(q) PROVE m \notin M
  <2>1. p \in Conns \ {q} /\ {} \in SUBSET Conns /\ q \notin {}
    OBVIOUS
  <2> QED BY <2>1, AboutOthers
<1> HIDE DEF m
<1>6. UNCHANGED <<conn, room, crossed, producer>>
  BY <1>2 DEF serverVars
<1>7. /\ \A M \in {Adders(p), NewOf(p), ListsOf(p), LeftOf(p), Lists} :
            /\ In(inbox'[c], M) <=> In(inbox[c], M)
            /\ Once(inbox[c], M) => Once(inbox'[c], M)
      /\ \A j \in Calls :
            /\ In(inbox'[c], ConsumedOf(p, j)) <=> In(inbox[c], ConsumedOf(p, j))
            /\ In(inbox'[c], ResumedOf(p, j)) <=> In(inbox[c], ResumedOf(p, j))
            /\ Once(inbox[c], ConsumedOf(p, j)) => Once(inbox'[c], ConsumedOf(p, j))
            /\ Once(inbox[c], ResumedOf(p, j)) => Once(inbox'[c], ResumedOf(p, j))
      /\ Followed(inbox[c], Adders(p), LeftOf(p)) => Followed(inbox'[c], Adders(p), LeftOf(p))
  <2>1. ASSUME NEW M \in {Adders(p), NewOf(p), ListsOf(p), LeftOf(p), Lists}
        PROVE  /\ In(inbox'[c], M) <=> In(inbox[c], M)
               /\ Once(inbox[c], M) => Once(inbox'[c], M)
    <3>1. m \notin M /\ m \in Msgs /\ inbox'[c] = Plus(inbox[c], m) /\ inbox[c] \in Seq(Msgs)
      BY <1>0, <1>3, <1>4
    <3> QED BY <3>1, Beside
  <2>2. ASSUME NEW j \in Calls
        PROVE  /\ In(inbox'[c], ConsumedOf(p, j)) <=> In(inbox[c], ConsumedOf(p, j))
               /\ In(inbox'[c], ResumedOf(p, j)) <=> In(inbox[c], ResumedOf(p, j))
               /\ Once(inbox[c], ConsumedOf(p, j)) => Once(inbox'[c], ConsumedOf(p, j))
               /\ Once(inbox[c], ResumedOf(p, j)) => Once(inbox'[c], ResumedOf(p, j))
    <3>1. /\ m \notin ConsumedOf(p, j) /\ m \notin ResumedOf(p, j)
          /\ m \in Msgs /\ inbox'[c] = Plus(inbox[c], m) /\ inbox[c] \in Seq(Msgs)
      BY <1>0, <1>3, <1>4
    <3> QED BY <3>1, Beside
  <2>3. Followed(inbox[c], Adders(p), LeftOf(p)) => Followed(inbox'[c], Adders(p), LeftOf(p))
    BY <1>0, <1>3, <1>4, AppendedLast
  <2> QED BY <2>1, <2>2, <2>3
<1>8. Pair(c, p)'
  <2>1. Mail(c, p)'
    BY <1>0, <1>1, <1>2, <1>6, <1>7 DEF Pair, Mail, Answers
  <2>2. Offers(c, p)'
    BY <1>0, <1>2, <1>6, <1>7 DEF Pair, Offers, Expected
  <2>3. ASSUME NEW j \in Calls PROVE Follows(c, p, j)'
    <3>1. j = k \/ consumer'[<<c, p, j>>] = consumer[<<c, p, j>>]
      BY <1>3
    <3> QED BY <1>0, <1>1, <1>2, <1>6, <3>1 DEF Pair, Follows, On
  <2>4. Near(c, p)' /\ Carded(c, p)' /\ NotMissed(c, p)'
    BY <1>0, <1>1, <1>2, <1>6, <1>7 DEF Pair, Near, Announced, Carded, NotMissed, Together, On
  <2>5. Departs(c, p)'
    BY <1>0, <1>2, <1>6, <1>7 DEF Pair, Departs, On
  <2> QED BY <2>1, <2>2, <2>3, <2>4, <2>5 DEF Pair
<1>9. \A q \in Conns \ {p} : SameMail(c, q)
  BY <1>0, <1>3, <1>4, <1>5, Unrelated
<1>10. \A q \in Conns \ {p} : Pair(c, q)'
  BY <1>0, <1>2, <1>3, <1>6, <1>9, Bystander
<1>11. Off(c)'
  BY <1>1, <1>6 DEF Off, On
<1>12. Self(c)'
  <2>1. \A M \in {Adders(c), NewOf(c), ListsOf(c)} : m \notin M
    BY <1>4 DEF Adders, NewOf, Lists, ListsOf, m
  <2> QED BY <1>0, <1>2, <1>3, <1>4, <2>1, Appended DEF Client, Self
<1>13. Listed(c)'
  BY <1>0, <1>2, <1>7 DEF Client, Listed
<1>14. Client(c)'
  BY <1>8, <1>10, <1>11, <1>12, <1>13 DEF Client
<1>15. \A d \in Conns \ {c} : Client(d)'
  BY <1>2, <1>3, OthersStay
<1> QED BY <1>2, <1>14, <1>15, ServerStays

\* consumeProducer(p), for the producer that was offered: a call nobody used, refused
\* if p is not of the room any more.
LEMMA OfferPair ==
    ASSUME IInv, NEW c \in Conns, NEW p \in Conns \ {c}, NEW P \in SUBSET Conns, p \in P,
           Consume(c, P), inbox[c] # <<>>, inbox'[c] = Tail(inbox[c]),
           \/ Head(inbox[c]) \in NewOf(p) /\ setup'[c] = setup[c]
           \/ Head(inbox[c]) \in ListsOf(p) /\ setup'[c] = "ready",
           UNCHANGED <<serverVars, consumer, consuming, cards>>
    PROVE  Pair(c, p)'
<1> DEFINE k == FreeCall(c, p)
<1>1. /\ On(c) /\ TypeInv /\ Pair(c, p) /\ Listed(c) /\ inbox[c] \in Seq(Msgs)
      /\ Called /\ OneStatePerRoom
  BY Present, Parts DEF IInv, TypeInv, Client, Server
<1>2. /\ \A M : In(inbox[c], M) <=> Head(inbox[c]) \in M \/ In(inbox'[c], M)
      /\ \A M : Once(inbox[c], M) => Once(inbox'[c], M)
      /\ \A M : Once(inbox[c], M) /\ Head(inbox[c]) \in M => ~In(inbox'[c], M)
      /\ \A M, L : Followed(inbox[c], M, L) => Followed(inbox'[c], M, L)
  BY <1>1, Handled
<1>3. UNCHANGED <<conn, room, crossed, producer, peersOf, stateOf, consumer, consuming, cards>>
  BY DEF serverVars
<1>4. Head(inbox[c]) \notin LeftOf(p) /\ Head(inbox[c]) \notin Adders(p)
  BY DEF NewOf, ListsOf, Lists, LeftOf, Adders
<1>5. k \in Calls /\ call[<<c, p, k>>] = "none"
      /\ (k = 2 => call[<<c, p, 1>>] # "none")
      /\ (k = 1 => call[<<c, p, 1>>] = "none")
      /\ call[<<c, p, 2>>] = "none"
  <2>1. call[<<c, p, 2>>] = "none"
    <3>1. CASE Head(inbox[c]) \in NewOf(p)
      BY <1>1, <1>2, <3>1 DEF Pair, Offers, Expected
    <3>2. CASE Head(inbox[c]) \in ListsOf(p)
      <4>1. setup[c] = "list"
        BY <1>1, <1>2, <3>2 DEF Listed, ListsOf
      <4> QED BY <1>1, <4>1 DEF Pair, Offers
    <3> QED BY <3>1, <3>2
  <2> QED BY <2>1 DEF FreeCall, Calls
<1>6. /\ consumer[<<c, p, k>>] = "none" /\ consuming[c][p] # k
  BY <1>1, <1>5 DEF Pair, Follows
<1>7. \A j \in Calls \ {k} : call'[<<c, p, j>>] = call[<<c, p, j>>]
  BY <1>1, Consuming
<1>8. \/ call'[<<c, p, k>>] = "none" /\ p \notin Wanted(c, P)
      \/ call'[<<c, p, k>>] = "refused" /\ p \in Refused(c, P)
      \/ /\ call'[<<c, p, k>>] = "asked" /\ p \in Wanted(c, P) /\ p \notin Refused(c, P)
         /\ On(p) /\ room[p] = room[c]
  <2>1. call'[<<c, p, k>>] = IF p \in Wanted(c, P)
                             THEN IF p \in Refused(c, P) THEN "refused" ELSE "asked"
                             ELSE "none"
    BY <1>1, <1>5, Consuming
  <2>2. p \in Wanted(c, P) /\ p \notin Refused(c, P) => On(p) /\ room[p] = room[c]
    BY <1>1, Here DEF Refused
  <2> QED BY <2>1, <2>2
<1>9. p \in Wanted(c, P) <=> setup[c] \in {"list", "ready"} /\ consuming[c][p] = 0
  BY DEF Wanted
<1> HIDE DEF k
<1>10. Mail(c, p)'
  <2>1. ASSUME NEW j \in Calls PROVE Answers(c, p, j)'
    <3>1. Answers(c, p, j)
      BY <1>1 DEF Pair, Mail
    <3>2. call[<<c, p, j>>] \in {"acked", "resuming"} => call'[<<c, p, j>>] = call[<<c, p, j>>]
      BY <1>5, <1>7
    <3> QED BY <1>2, <3>1, <3>2 DEF Answers
  <2>2. OfGone(c, p)' => OfGone(c, p)
    BY <1>2, <1>3 DEF OfGone
  <2> QED BY <1>1, <1>2, <1>3, <2>1, <2>2 DEF Pair, Mail
<1>11. Offers(c, p)'
  <2>1. CASE Head(inbox[c]) \in NewOf(p) /\ setup'[c] = setup[c]
    <3>1. ~Expected(c, p)' /\ Expected(c, p)
      BY <1>1, <1>2, <1>3, <2>1 DEF Pair, Mail, Expected
    <3>2. call'[<<c, p, 2>>] # "none" => call'[<<c, p, 1>>] # "none" /\ setup'[c] = "ready"
      <4> SUFFICES ASSUME call'[<<c, p, 2>>] # "none"
                   PROVE  call'[<<c, p, 1>>] # "none" /\ setup'[c] = "ready"
        OBVIOUS
      <4>1. k = 2
        BY <1>5, <1>7 DEF Calls
      <4> QED BY <1>1, <1>5, <1>7, <2>1, <3>1, <4>1 DEF Pair, Offers, Calls
    <3> QED BY <3>1, <3>2 DEF Offers
  <2>2. CASE Head(inbox[c]) \in ListsOf(p) /\ setup'[c] = "ready"
    <3>1. setup[c] = "list"
      BY <1>1, <1>2, <2>2 DEF Listed, ListsOf
    <3>2. Expected(c, p)' => Expected(c, p)
      BY <1>2, <1>3 DEF Expected
    <3>3. call'[<<c, p, 2>>] # "none" => call'[<<c, p, 1>>] # "none" /\ ~Expected(c, p)
      <4> SUFFICES ASSUME call'[<<c, p, 2>>] # "none"
                   PROVE  call'[<<c, p, 1>>] # "none" /\ ~Expected(c, p)
        OBVIOUS
      <4>1. k = 2
        BY <1>5, <1>7 DEF Calls
      <4> QED BY <1>1, <1>5, <1>7, <3>1, <4>1 DEF Pair, Offers, Calls
    <3> QED BY <2>2, <3>2, <3>3 DEF Offers
  <2> QED BY <2>1, <2>2
<1>12. ASSUME NEW j \in Calls PROVE Follows(c, p, j)'
  <2>1. CASE j = k
    BY <1>3, <1>6, <1>8, <2>1 DEF Follows
  <2>2. CASE j # k
    BY <1>1, <1>3, <1>7, <2>2 DEF Pair, Follows, On
  <2> QED BY <2>1, <2>2
<1>13. Near(c, p)'
  <2>1. Announced(c, p)' => Announced(c, p)
    BY <1>2, <1>3 DEF Announced
  <2>2. ASSUME NEW j \in Calls, call'[<<c, p, j>>] \in Subscribing PROVE room[p] = room[c]
    BY <1>1, <1>7, <1>8, <2>2 DEF Pair, Near, Subscribing
  <2> QED BY <1>1, <1>3, <2>1, <2>2 DEF Pair, Near
<1>14. NotMissed(c, p)'
  <2>1. Announced(c, p) => Announced(c, p)'
    BY <1>2, <1>3, <1>4 DEF Announced
  <2>2. ASSUME Together(c, p)', producer'[p] = "open", setup'[c] \in {"list", "ready"}
        PROVE  Offered(c, p)'
    <3>1. setup[c] \in {"list", "ready"}
      BY <1>1, <1>2, <2>2 DEF Listed, ListsOf
    <3>2. CASE consuming[c][p] = 0
      <4>1. p \in Wanted(c, P) /\ p \notin Refused(c, P)
        BY <1>1, <1>3, <1>9, <2>2, <3>1, <3>2, Here DEF Refused, Together, On
      <4> QED BY <1>5, <1>8, <4>1 DEF Offered, Subscribing
    <3>3. CASE consuming[c][p] # 0
      <4>1. consuming[c][p] \in Calls
        BY <1>1, <3>3 DEF TypeInv, TypeOK
      <4>2. call[<<c, p, consuming[c][p]>>] = "done"
        BY <1>1, <4>1 DEF Pair, Follows
      <4> QED BY <1>6, <1>7, <4>1, <4>2 DEF Offered
    <3> QED BY <3>2, <3>3
  <2>3. Together(c, p)' => Together(c, p)
    BY <1>3 DEF Together, On
  <2> QED BY <1>1, <2>1, <2>2, <2>3 DEF Pair, NotMissed
<1>15. Carded(c, p)'
  BY <1>1, <1>3 DEF Pair, Carded
<1>16. Departs(c, p)'
  <2> SUFFICES ASSUME conn[p] = "gone", <<c, p>> \notin crossed PROVE Departs(c, p)'
    BY <1>3 DEF Departs
  <2>1. /\ \A j \in Calls : call[<<c, p, j>>] \notin Subscribing
        /\ Followed(inbox[c], Adders(p), LeftOf(p))
        /\ p \in cards[c] => In(inbox[c], LeftOf(p))
    BY <1>1 DEF Pair, Departs
  <2>2. \A j \in Calls : call'[<<c, p, j>>] \notin Subscribing
    BY <1>7, <1>8, <2>1 DEF On, Subscribing
  <2> QED BY <1>2, <1>3, <1>4, <2>1, <2>2 DEF Departs
<1> QED BY <1>10, <1>11, <1>12, <1>13, <1>14, <1>15, <1>16 DEF Pair

\* "new-producer", and the answer to getProducers
LEMMA OfferStep ==
    ASSUME IInv, NEW c \in Conns, OnNewProducer(c) \/ OnProducers(c)
    PROVE  Server' /\ \A d \in Conns : Client(d)'
<1>0. /\ TypeInv /\ Client(c) /\ Self(c) /\ Listed(c) /\ \A p \in Conns : Pair(c, p)
      /\ Called /\ setup \in [Conns -> {"none", "send", "produce", "recv", "list", "ready"}]
  BY Parts DEF IInv, TypeInv, TypeOK, Client
<1> DEFINE m == Head(inbox[c])
<1>1. PICK S \in SUBSET Conns :
          /\ \/ (\E x \in S : S = {x} /\ m = <<"new-producer", x>>) /\ setup' = setup
             \/ m = <<"list", S>> /\ setup' = [setup EXCEPT ![c] = "ready"]
          /\ Consume(c, S)
  <2>1. CASE OnNewProducer(c)
    <3>1. m = <<"new-producer", Payload(c)>> /\ {Payload(c)} \in SUBSET Conns
      BY <1>0, <2>1, Opening DEF OnNewProducer
    <3> QED BY <2>1, <3>1 DEF OnNewProducer
  <2>2. CASE OnProducers(c)
    BY <1>0, <2>2, Opening DEF OnProducers
  <2> QED BY <2>1, <2>2
<1>2. /\ inbox[c] \in Seq(Msgs) /\ inbox[c] # <<>> /\ inbox'[c] = Tail(inbox[c]) /\ On(c)
      /\ \A d \in Conns \ {c} : inbox'[d] = inbox[d]
      /\ UNCHANGED <<serverVars, consumer, consuming, cards>>
  <2>1. PICK type : Gets(c, type) /\ inbox' = Rest(c)
    BY DEF OnNewProducer, OnProducers
  <2>2. UNCHANGED <<serverVars, consumer, consuming, cards>>
    BY DEF OnNewProducer, OnProducers
  <2> QED BY <1>0, <2>1, <2>2, Opening, Present
<1>3. m \in Msgs
  BY <1>2, Received
<1>4. /\ \A p \in S : \/ m \in NewOf(p) /\ setup'[c] = setup[c]
                      \/ m \in ListsOf(p) /\ setup'[c] = "ready"
      /\ setup'[c] = setup[c] \/ (m \in Lists /\ setup'[c] = "ready")
  BY <1>0, <1>1 DEF NewOf, Lists, ListsOf
<1>5. \A p \in Conns \ S : \A M \in About(p) : m \notin M
  <2> SUFFICES ASSUME NEW p \in Conns \ S, NEW M \in About(p) PROVE m \notin M
    OBVIOUS
  <2>1. p \notin S /\ \A x \in S : p \in Conns /\ x \in Conns \ {p}
    OBVIOUS
  <2>2. <<"list", S>> \notin M
    BY <2>1 DEF About, Adders, NewOf, Lists, ListsOf, ConsumedOf, ResumedOf, ClosedOf, LeftOf
  <2>3. \A x \in S : <<"new-producer", x>> \notin M
    BY <2>1 DEF About, Adders, NewOf, Lists, ListsOf, ConsumedOf, ResumedOf, ClosedOf, LeftOf
  <2> HIDE DEF m
  <2> QED BY <1>1, <2>2, <2>3
<1>6. /\ setup[c] = setup'[c] \/ (setup[c] = "list" /\ setup'[c] = "ready" /\ m \in Lists)
      /\ \A d \in Conns \ {c} : setup'[d] = setup[d]
  <2>1. m \in Lists => setup[c] = "list"
    BY <1>0, <1>2, Received DEF Listed
  <2> QED BY <1>0, <1>1, <1>4, <2>1
<1>7. c \notin S
  <2>1. ~In(inbox[c], NewOf(c)) /\ ~In(inbox[c], ListsOf(c))
    BY <1>0 DEF Self
  <2>2. m \notin NewOf(c) /\ m \notin ListsOf(c)
    BY <1>2, <2>1, Received
  <2> QED BY <1>4, <2>2
<1> HIDE DEF m
<1>8. \A d, q \in Conns, k \in Calls :
          d # c \/ q \notin S => call'[<<d, q, k>>] = call[<<d, q, k>>]
  <2>1. Wanted(c, S) \subseteq S
    BY DEF Wanted
  <2> QED BY <1>0, <1>1, <2>1, Consuming
<1>9. \A p \in S : Pair(c, p)'
  BY <1>1, <1>2, <1>4, <1>7, OfferPair DEF m
<1>10. \A p \in Conns \ S : SameMail(c, p)
  BY <1>2, <1>3, <1>5, Unrelated DEF m
<1>11. UNCHANGED <<conn, room, crossed, producer>>
  BY <1>2 DEF serverVars
<1>12. \A p \in Conns \ S : Pair(c, p)'
  BY <1>0, <1>2, <1>6, <1>8, <1>10, <1>11, Bystander
<1>13. Off(c)' /\ Self(c)' /\ Listed(c)'
  BY <1>0, <1>2, <1>6, <1>7, <1>8, <1>11, HandledAlone DEF m
<1>14. Client(c)'
  BY <1>9, <1>12, <1>13 DEF Client
<1>15. \A d \in Conns \ {c} : Client(d)'
  BY <1>2, <1>6, <1>8, OthersStay
<1>16. Server'
  BY <1>2, <1>6, ServerStays
<1> QED BY <1>14, <1>15, <1>16

\* A connection without a client: it has not come, or it has gone.
LEMMA Blank ==
    ASSUME NEW c \in Conns, ~On(c)', inbox'[c] = <<>>, setup'[c] = "none", cards'[c] = {},
           \A p \in Conns : consuming'[c][p] = 0,
           \A p \in Conns, k \in Calls :
               /\ call'[<<c, p, k>>] = "none"
               /\ \/ consumer'[<<c, p, k>>] = "none"
                  \/ consumer'[<<c, p, k>>] = "closed" /\ conn'[c] = "gone"
    PROVE  Client(c)'
<1>1. \A M : ~In(inbox'[c], M) /\ Once(inbox'[c], M)
  BY DEF In, Once
<1>2. Off(c)' /\ Self(c)' /\ Listed(c)'
  BY <1>1 DEF Off, Self, Listed
<1>3. ASSUME NEW p \in Conns PROVE Pair(c, p)'
  <2>1. Mail(c, p)'
    BY <1>1 DEF Mail, OfGone, Answers
  <2>2. Offers(c, p)' /\ Carded(c, p)'
    BY DEF Offers, Carded, Calls
  <2>3. \A k \in Calls : Follows(c, p, k)'
    BY DEF Follows
  <2>4. Near(c, p)'
    BY <1>1 DEF Near, Announced, Subscribing
  <2>5. NotMissed(c, p)' /\ Departs(c, p)'
    BY DEF NotMissed, Together, Departs, On
  <2> QED BY <2>1, <2>2, <2>3, <2>4, <2>5 DEF Pair
<1> QED BY <1>2, <1>3 DEF Client

\* An inbox of one message
LEMMA Single ==
    ASSUME NEW m \in Msgs, NEW M, NEW L
    PROVE  /\ In(<<m>>, M) <=> m \in M
           /\ Once(<<m>>, M)
           /\ m \notin M => Followed(<<m>>, M, L)
<1>1. Len(<<m>>) = 1 /\ <<m>>[1] = m
  OBVIOUS
<1>2. In(<<m>>, M) <=> m \in M
  BY <1>1 DEF In
<1>3. Once(<<m>>, M)
  BY <1>1 DEF Once
<1>4. m \notin M => Followed(<<m>>, M, L)
  BY <1>1 DEF Followed
<1> QED BY <1>2, <1>3, <1>4

\* The client of the connection that joins: it is told of everybody who is there.
LEMMA Newcomer ==
    ASSUME IInv, NEW c \in Conns, Connect(c)
    PROVE  Client(c)'
<1> DEFINE r == room[c]
           s == IF rooms[r] = None THEN c ELSE rooms[r]
           S == peersOf[s]
           m == <<"peers", S>>
<1>0. /\ conn[c] = "off" /\ conn' = [conn EXCEPT ![c] = "on"] /\ inbox'[c] = <<m>>
      /\ UNCHANGED <<room, producer, crossed, consumer, setup, call, consuming, cards>>
  <2>1. inbox' = [Tell(inbox, RoomMates(c), <<<<"joined", c>>>>) EXCEPT ![c] = <<m>>]
    BY DEF Connect, PeersFor
  <2>2. DOMAIN Tell(inbox, RoomMates(c), <<<<"joined", c>>>>) = Conns
    BY DEF Tell
  <2> QED BY <2>1, <2>2 DEF Connect, clientVars
<1>1. /\ Off(c) /\ r \in Rooms /\ TypeInv /\ OneStatePerRoom /\ Registered
      /\ conn \in [Conns -> {"off", "on", "gone"}] /\ room \in [Conns -> Rooms]
      /\ rooms \in [Rooms -> Conns \union {None}] /\ peersOf \in [Conns -> SUBSET Conns]
  BY DEF IInv, TypeInv, TypeOK, Server, Client
<1>2. S \in SUBSET Conns /\ S = {d \in Conns : On(d) /\ room[d] = r}
  <2>1. CASE rooms[r] = None
    <3>1. s = c /\ peersOf[c] = {}
      BY <1>0, <1>1, <2>1 DEF Registered
    <3>2. {d \in Conns : On(d) /\ room[d] = r} = {}
      BY <1>1, <2>1 DEF OneStatePerRoom
    <3> QED BY <3>1, <3>2
  <2>2. CASE rooms[r] # None
    <3>1. s = rooms[r] /\ s \in Conns
      BY <1>1, <2>2
    <3>2. peersOf[rooms[r]] = {d \in Conns : On(d) /\ room[d] = r}
      BY <1>1, <2>2 DEF OneStatePerRoom
    <3> QED BY <3>1, <3>2
  <2> QED BY <2>1, <2>2
<1>3. /\ setup[c] = "none" /\ cards[c] = {} /\ \A p \in Conns : consuming[c][p] = 0
      /\ \A p \in Conns, k \in Calls :
            call[<<c, p, k>>] = "none" /\ consumer[<<c, p, k>>] = "none"
  BY <1>0, <1>1 DEF Off, On
<1>4. /\ m \in Msgs /\ m \notin Lists
      /\ \A p \in Conns :
            /\ m \in Adders(p) <=> p \in S
            /\ m \notin NewOf(p) /\ m \notin ListsOf(p)
            /\ m \notin LeftOf(p) /\ m \notin ClosedOf(p)
            /\ \A k \in Calls : m \notin ConsumedOf(p, k) /\ m \notin ResumedOf(p, k)
  BY <1>2 DEF Msgs, Adders, NewOf, Lists, ListsOf, LeftOf, ClosedOf, ConsumedOf, ResumedOf
<1>5. /\ \A d \in Conns : On(d)' <=> On(d) \/ d = c
      /\ c \notin S /\ \A p \in S : p # c /\ room[p] = room[c] /\ conn'[p] = "on"
      /\ \A p \in Conns \ S : ~Together(c, p)'
  BY <1>0, <1>1, <1>2 DEF On, Together
<1> HIDE DEF m, S
<1>6. /\ \A M : In(inbox'[c], M) <=> m \in M
      /\ \A M : Once(inbox'[c], M)
      /\ \A M, L : m \notin M => Followed(inbox'[c], M, L)
  BY <1>0, <1>4, Single
<1>7. ASSUME NEW p \in Conns PROVE Pair(c, p)'
  <2>1. Mail(c, p)'
    BY <1>0, <1>3, <1>4, <1>6 DEF Mail, OfGone, Answers
  <2>2. Offers(c, p)' /\ Carded(c, p)'
    BY <1>0, <1>3 DEF Offers, Carded, Calls
  <2>3. ASSUME NEW k \in Calls PROVE Follows(c, p, k)'
    <3>1. k # 0
      BY DEF Calls
    <3>2. call'[<<c, p, k>>] = "none" /\ consumer'[<<c, p, k>>] = "none" /\ consuming'[c][p] = 0
      BY <1>0, <1>3
    <3> QED BY <3>1, <3>2 DEF Follows
  <2>4. Near(c, p)'
    BY <1>0, <1>3, <1>4, <1>5, <1>6 DEF Near, Announced, Subscribing
  <2>5. NotMissed(c, p)'
    BY <1>0, <1>3, <1>4, <1>5, <1>6 DEF NotMissed, Announced
  <2>6. Departs(c, p)'
    BY <1>0, <1>3, <1>4, <1>5, <1>6 DEF Departs, Subscribing
  <2> QED BY <2>1, <2>2, <2>3, <2>4, <2>5, <2>6 DEF Pair
<1>8. Off(c)' /\ Self(c)' /\ Listed(c)'
  BY <1>0, <1>3, <1>4, <1>5, <1>6 DEF Off, Self, Listed
<1> QED BY <1>7, <1>8 DEF Client

\* "peer-joined" is sent: the newcomer x is announced to whoever is in its room.
LEMMA JoinedPair ==
    ASSUME NEW c \in Conns, NEW x \in Conns \ {c}, Pair(c, x), inbox[c] \in Seq(Msgs),
           On(c), conn[x] = "off", producer[x] = "none", conn'[x] = "on", conn'[c] = conn[c],
           \/ inbox'[c] = Plus(inbox[c], <<"joined", x>>) /\ room[c] = room[x]
           \/ inbox'[c] = inbox[c] /\ room[c] # room[x],
           UNCHANGED <<room, crossed, producer, consumer, setup, call, consuming, cards>>
    PROVE  Pair(c, x)'
<1> DEFINE m == <<"joined", x>>
<1>1. /\ m \in Msgs /\ m \in Adders(x) /\ m \notin NewOf(x) /\ m \notin ListsOf(x)
      /\ m \notin ClosedOf(x) /\ m \notin LeftOf(x)
      /\ \A k \in Calls : m \notin ConsumedOf(x, k) /\ m \notin ResumedOf(x, k)
  BY DEF Msgs, Adders, NewOf, Lists, ListsOf, ConsumedOf, ResumedOf, ClosedOf, LeftOf
<1> HIDE DEF m
<1>2. \/ inbox'[c] = Plus(inbox[c], m) /\ room[c] = room[x]
      \/ inbox'[c] = inbox[c] /\ room[c] # room[x]
  BY DEF m
<1>3. /\ In(inbox'[c], NewOf(x)) <=> In(inbox[c], NewOf(x))
      /\ Once(inbox[c], NewOf(x)) => Once(inbox'[c], NewOf(x))
      /\ In(inbox'[c], ClosedOf(x)) <=> In(inbox[c], ClosedOf(x))
      /\ In(inbox'[c], LeftOf(x)) <=> In(inbox[c], LeftOf(x))
      /\ In(inbox'[c], Adders(x)) <=> In(inbox[c], Adders(x)) \/ room[c] = room[x]
  <2>1. CASE inbox'[c] = Plus(inbox[c], m) /\ room[c] = room[x]
    BY <1>1, <2>1, Appended
  <2>2. CASE inbox'[c] = inbox[c] /\ room[c] # room[x]
    BY <2>2
  <2> QED BY <1>2, <2>1, <2>2
<1>4. ASSUME NEW k \in Calls
      PROVE  /\ In(inbox'[c], ConsumedOf(x, k)) <=> In(inbox[c], ConsumedOf(x, k))
             /\ In(inbox'[c], ResumedOf(x, k)) <=> In(inbox[c], ResumedOf(x, k))
             /\ Once(inbox[c], ConsumedOf(x, k)) => Once(inbox'[c], ConsumedOf(x, k))
             /\ Once(inbox[c], ResumedOf(x, k)) => Once(inbox'[c], ResumedOf(x, k))
  <2>1. m \notin ConsumedOf(x, k) /\ m \notin ResumedOf(x, k)
    BY <1>1
  <2> QED BY <1>1, <1>2, <2>1, Appended
<1>5. Mail(c, x)'
  BY <1>3, <1>4 DEF Pair, Mail, OfGone, Answers
<1>6. Offers(c, x)' /\ Carded(c, x)'
  BY <1>3 DEF Pair, Offers, Expected, Carded
<1>7. ASSUME NEW k \in Calls PROVE Follows(c, x, k)'
  BY DEF Pair, Follows, On
<1>8. Near(c, x)'
  BY <1>2, <1>3 DEF Pair, Near, Announced
<1>9. NotMissed(c, x)'
  BY <1>2, <1>3 DEF NotMissed, Announced, Together
<1>10. Departs(c, x)'
  BY DEF Departs
<1> QED BY <1>5, <1>6, <1>7, <1>8, <1>9, <1>10 DEF Pair

\* The other clients, when somebody joins.
LEMMA ConnectClient ==
    ASSUME IInv, NEW x \in Conns, NEW c \in Conns \ {x}, Connect(x)
    PROVE  Client(c)'
<1> DEFINE m == <<"joined", x>>
<1>0. /\ Client(c) /\ Off(c) /\ inbox \in [Conns -> Seq(Msgs)] /\ inbox[c] \in Seq(Msgs)
      /\ \A q \in Conns : Pair(c, q)
      /\ conn \in [Conns -> {"off", "on", "gone"}] /\ Served(x)
  BY DEF IInv, Client, TypeInv, TypeOK, Server
<1>1. /\ conn[x] = "off" /\ conn'[x] = "on" /\ \A q \in Conns \ {x} : conn'[q] = conn[q]
      /\ producer[x] = "none"
      /\ UNCHANGED <<room, crossed, producer, consumer, setup, call, consuming, cards>>
  BY <1>0 DEF Connect, clientVars, Served
<1>2. inbox'[c] = IF c \in RoomMates(x) THEN Plus(inbox[c], m) ELSE inbox[c]
  BY <1>0 DEF Connect, Tell, Plus
<1>3. CASE ~On(c)
  <2>1. inbox'[c] = inbox[c] /\ ~On(c)'
    BY <1>1, <1>2, <1>3 DEF RoomMates, On
  <2> QED BY <1>0, <1>1, <1>3, <2>1, Blank DEF Off
<1>4. CASE On(c)
  <2>1. /\ m \in Msgs /\ m \notin Lists
        /\ \A q \in Conns \ {x} : \A M \in About(q) : m \notin M
    <3>1. m \in Msgs /\ m \notin Lists
      BY DEF Msgs, Lists
    <3>2. ASSUME NEW q \in Conns \ {x}, NEW M \in About(q) PROVE m \notin M
      <4>1. x \in Conns \ {q} /\ 1 \in Calls /\ q \notin {} /\ {} \in SUBSET Conns
        BY DEF Calls
      <4> QED BY <4>1, AboutOthers
    <3> QED BY <3>1, <3>2
  <2>2. \/ inbox'[c] = Plus(inbox[c], m) /\ room[c] = room[x]
        \/ inbox'[c] = inbox[c] /\ room[c] # room[x]
    BY <1>2, <1>4 DEF RoomMates
  <2>3. Pair(c, x)'
    BY <1>0, <1>1, <1>4, <2>2, JoinedPair
  <2> HIDE DEF m
  <2>4. /\ In(inbox'[c], Lists) <=> In(inbox[c], Lists)
        /\ Once(inbox[c], Lists) => Once(inbox'[c], Lists)
    BY <1>0, <2>1, <2>2, Appended
  <2>5. \A q \in Conns \ {x} : SameMail(c, q)
    BY <1>0, <2>1, <2>2, SameInbox, Unrelated
  <2>6. Off(c)' /\ Self(c)' /\ Listed(c)'
    BY <1>0, <1>1, <1>4, <2>4, <2>5, Alone
  <2>7. \A q \in Conns \ {x} : Pair(c, q)'
    BY <1>0, <1>1, <2>5, Bystander
  <2> QED BY <2>3, <2>6, <2>7 DEF Client
<1> QED BY <1>3, <1>4

\* What a departure adds to an inbox: "producer-closed" if there was a producer, then
\* "peer-left".
LEMMA Leaving ==
    ASSUME NEW q \in Seq(Msgs), NEW x \in Conns, NEW r \in Seq(Msgs), NEW t \in Seq(Msgs),
           r = q \/ r = Plus(q, <<"closed", x>>), t = Plus(r, <<"left", x>>),
           NEW M, <<"closed", x>> \notin M, <<"left", x>> \notin M, NEW L
    PROVE  /\ In(t, M) <=> In(q, M)
           /\ Once(q, M) => Once(t, M)
           /\ <<"left", x>> \in L => In(t, L) /\ Followed(t, M, L)
           /\ Followed(q, M, L) => Followed(t, M, L)
<1> DEFINE a == <<"closed", x>>
           b == <<"left", x>>
<1>1. /\ a \in Msgs /\ b \in Msgs /\ a \notin M /\ b \notin M
      /\ r = q \/ r = Plus(q, a)
      /\ t = Plus(r, b)
      /\ b \in L <=> <<"left", x>> \in L
  BY DEF Msgs
<1> HIDE DEF a, b
<1>2. (In(r, M) <=> In(q, M)) /\ (Once(q, M) => Once(r, M))
  <2>1. CASE r = q
    BY <2>1
  <2>2. CASE r = Plus(q, a)
    <3>1. a \in Msgs /\ a \notin M
      BY <1>1
    <3> QED BY <2>2, <3>1, Appended
  <2> QED BY <1>1, <2>1, <2>2
<1>3. /\ In(t, M) <=> In(q, M)
      /\ Once(q, M) => Once(t, M)
      /\ b \in L => In(t, L)
  <2>1. b \in Msgs /\ b \notin M /\ t = Plus(r, b)
    BY <1>1
  <2>2. (In(Plus(r, b), M) <=> In(r, M)) /\ (Once(r, M) => Once(Plus(r, b), M))
    <3>1. b \in Msgs /\ b \notin M
      BY <2>1
    <3> QED BY <3>1, Appended
  <2>3. b \in L => In(Plus(r, b), L)
    BY <2>1, Appended
  <2> QED BY <1>2, <2>1, <2>2, <2>3
<1>4. b \in L => Followed(t, M, L)
  BY <1>1, AppendedLast
<1>5. ASSUME Followed(q, M, L) PROVE Followed(t, M, L)
  <2>1. Followed(r, M, L)
    BY <1>1, <1>5, AppendedLast
  <2> QED BY <1>1, <2>1, AppendedLast
<1> QED BY <1>1, <1>3, <1>4, <1>5

\* "peer-left" is sent: whoever is in the room of x is told, and nobody else has to be.
LEMMA LeftPair ==
    ASSUME NEW c \in Conns, NEW x \in Conns \ {c}, Pair(c, x), inbox[c] \in Seq(Msgs),
           NEW r \in Seq(Msgs), On(c), conn'[x] = "gone", conn'[c] = conn[c],
           r = inbox[c] \/ r = Plus(inbox[c], <<"closed", x>>),
           \/ inbox'[c] = Plus(r, <<"left", x>>)
           \/ inbox'[c] = inbox[c] /\ room[c] # room[x],
           producer'[x] \in {"none", "asked"} <=> producer[x] \in {"none", "asked"},
           \A k \in Calls : /\ consumer[<<c, x, k>>] = "none" => consumer'[<<c, x, k>>] = "none"
                            /\ call'[<<c, x, k>>] = call[<<c, x, k>>],
           <<c, x>> \notin crossed' => \A k \in Calls : call[<<c, x, k>>] \notin Subscribing,
           setup'[c] = setup[c], cards'[c] = cards[c], consuming'[c] = consuming[c],
           UNCHANGED room
    PROVE  Pair(c, x)'
<1> DEFINE a == <<"closed", x>>
           b == <<"left", x>>
<1>1. /\ \A M \in {Adders(x), NewOf(x), ListsOf(x)} : a \notin M /\ b \notin M
      /\ \A k \in Calls : /\ a \notin ConsumedOf(x, k) /\ a \notin ResumedOf(x, k)
                          /\ b \notin ConsumedOf(x, k) /\ b \notin ResumedOf(x, k)
      /\ b \in LeftOf(x) /\ b \in Msgs /\ a \in Msgs
  BY DEF Msgs, Adders, NewOf, Lists, ListsOf, ConsumedOf, ResumedOf, LeftOf
<1>2. ASSUME NEW M \in {Adders(x), NewOf(x), ListsOf(x)}
      PROVE  (In(inbox'[c], M) <=> In(inbox[c], M)) /\ (Once(inbox[c], M) => Once(inbox'[c], M))
  <2>1. a \notin M /\ b \notin M
    BY <1>1
  <2>2. CASE inbox'[c] = Plus(r, b)
    <3>1. inbox'[c] \in Seq(Msgs)
      BY <1>1, <2>2, Appended
    <3> QED BY <2>1, <2>2, <3>1, Leaving
  <2> QED BY <2>2
<1>3. ASSUME NEW k \in Calls
      PROVE  /\ In(inbox'[c], ConsumedOf(x, k)) <=> In(inbox[c], ConsumedOf(x, k))
             /\ In(inbox'[c], ResumedOf(x, k)) <=> In(inbox[c], ResumedOf(x, k))
             /\ Once(inbox[c], ConsumedOf(x, k)) => Once(inbox'[c], ConsumedOf(x, k))
             /\ Once(inbox[c], ResumedOf(x, k)) => Once(inbox'[c], ResumedOf(x, k))
  <2>1. /\ a \notin ConsumedOf(x, k) /\ a \notin ResumedOf(x, k)
        /\ b \notin ConsumedOf(x, k) /\ b \notin ResumedOf(x, k)
    BY <1>1
  <2>2. CASE inbox'[c] = Plus(r, b)
    <3>1. inbox'[c] \in Seq(Msgs)
      BY <1>1, <2>2, Appended
    <3>2. /\ In(inbox'[c], ConsumedOf(x, k)) <=> In(inbox[c], ConsumedOf(x, k))
          /\ Once(inbox[c], ConsumedOf(x, k)) => Once(inbox'[c], ConsumedOf(x, k))
      BY <2>1, <2>2, <3>1, Leaving
    <3>3. /\ In(inbox'[c], ResumedOf(x, k)) <=> In(inbox[c], ResumedOf(x, k))
          /\ Once(inbox[c], ResumedOf(x, k)) => Once(inbox'[c], ResumedOf(x, k))
      BY <2>1, <2>2, <3>1, Leaving
    <3> QED BY <3>2, <3>3
  <2> QED BY <2>2
<1>4. \/ In(inbox'[c], LeftOf(x)) /\ Followed(inbox'[c], Adders(x), LeftOf(x))
      \/ inbox'[c] = inbox[c] /\ room[c] # room[x]
  <2>1. CASE inbox'[c] = Plus(r, b)
    <3>1. inbox'[c] \in Seq(Msgs) /\ a \notin Adders(x) /\ b \notin Adders(x)
      BY <1>1, <2>1, Appended
    <3>2. <<"left", x>> \in LeftOf(x)
      BY <1>1
    <3> QED BY <2>1, <3>1, <3>2, Leaving
  <2> QED BY <2>1
<1> HIDE DEF a, b
<1>5. Mail(c, x)'
  <2>1. ASSUME NEW k \in Calls PROVE Answers(c, x, k)'
    BY <1>3 DEF Pair, Mail, Answers
  <2> QED BY <1>2, <2>1 DEF Pair, Mail
<1>6. Offers(c, x)'
  BY <1>2 DEF Pair, Offers, Expected, Calls
<1>7. ASSUME NEW k \in Calls PROVE Follows(c, x, k)'
  BY DEF Pair, Follows, On
<1>8. Near(c, x)'
  BY <1>2 DEF Pair, Near, Announced
<1>9. NotMissed(c, x)' /\ Carded(c, x)'
  BY DEF Pair, NotMissed, Together, Carded, On
<1>10. Departs(c, x)'
  <2> SUFFICES ASSUME <<c, x>> \notin crossed' PROVE Departs(c, x)'
    BY DEF Departs
  <2>1. \A k \in Calls : call'[<<c, x, k>>] \notin Subscribing
    OBVIOUS
  <2>2. CASE In(inbox'[c], LeftOf(x)) /\ Followed(inbox'[c], Adders(x), LeftOf(x))
    BY <2>1, <2>2 DEF Departs
  <2>3. CASE inbox'[c] = inbox[c] /\ room[c] # room[x]
    <3>1. ~Announced(c, x)
      BY <2>3 DEF Pair, Near
    <3>2. ~In(inbox'[c], Adders(x)) /\ x \notin cards'[c]
      BY <2>3, <3>1 DEF Announced
    <3>3. Followed(inbox'[c], Adders(x), LeftOf(x))
      BY <3>2 DEF Followed, In
    <3> QED BY <2>1, <3>2, <3>3 DEF Departs
  <2> QED BY <1>4, <2>2, <2>3
<1> QED BY <1>5, <1>6, <1>7, <1>8, <1>9, <1>10 DEF Pair

\* disconnecting
LEMMA DisconnectClient ==
    ASSUME IInv, NEW x \in Conns, NEW c \in Conns, Disconnect(x)
    PROVE  Client(c)'
<1> DEFINE b == <<"left", x>>
           r == IF producer[x] = "open" THEN Plus(inbox[c], <<"closed", x>>) ELSE inbox[c]
<1>0. /\ Client(c) /\ Off(c) /\ Self(c) /\ Listed(c) /\ TypeInv
      /\ inbox \in [Conns -> Seq(Msgs)] /\ inbox[c] \in Seq(Msgs)
      /\ \A q \in Conns : Pair(c, q)
      /\ conn \in [Conns -> {"off", "on", "gone"}] /\ Kept /\ Called /\ Shown
  BY Parts DEF IInv, Client, TypeInv, TypeOK
<1>1. /\ On(x) /\ conn'[x] = "gone" /\ \A q \in Conns \ {x} : conn'[q] = conn[q]
      /\ UNCHANGED room
  BY <1>0 DEF Disconnect
<1>2. \A q \in Conns, k \in Calls :
          call'[<<c, q, k>>] = IF c = x THEN "none" ELSE call[<<c, q, k>>]
  BY <1>0 DEF Disconnect, Called
<1>3. ASSUME NEW q \in Conns, NEW k \in Calls
      PROVE  /\ consumer[<<c, q, k>>] \in {"none", "closed"} =>
                   consumer'[<<c, q, k>>] = consumer[<<c, q, k>>]
             /\ c = x => consumer'[<<c, q, k>>] \in {"none", "closed"}
             /\ c # x /\ q # x => consumer'[<<c, q, k>>] = consumer[<<c, q, k>>]
  <2> DEFINE z == <<c, q, k>>
  <2>1. z \in DOMAIN consumer /\ z[1] = c /\ z[2] = q
    BY <1>0 DEF Called
  <2>2. consumer' = [y \in DOMAIN consumer |->
                IF consumer[y] \in {"none", "closed"} THEN consumer[y]
                ELSE IF y[1] = x THEN "closed"
                ELSE IF y[2] = x THEN "closing" ELSE consumer[y]]
    BY DEF Disconnect
  <2>3. consumer'[z] = IF consumer[z] \in {"none", "closed"} THEN consumer[z]
                     ELSE IF c = x THEN "closed"
                     ELSE IF q = x THEN "closing" ELSE consumer[z]
    BY <2>1, <2>2
  <2> HIDE DEF z
  <2>4. consumer[z] \in {"none", "closed"} => consumer'[z] = consumer[z]
    BY <2>3
  <2>5. consumer[z] \notin {"none", "closed"} /\ c = x => consumer'[z] = "closed"
    BY <2>3
  <2>6. consumer[z] \notin {"none", "closed"} /\ c # x /\ q # x => consumer'[z] = consumer[z]
    BY <2>3
  <2> QED BY <2>4, <2>5, <2>6 DEF z
<1>4. /\ (crossed' = crossed \union {<<d, x>> : d \in
                 {e \in Conns : \E k \in Calls : call[<<e, x, k>>] \in Subscribing}})
      /\ \A q \in Conns \ {x} : <<c, q>> \in crossed' <=> <<c, q>> \in crossed
      /\ <<c, x>> \notin crossed' => \A k \in Calls : call[<<c, x, k>>] \notin Subscribing
  <2>1. crossed' = crossed \union {<<d, x>> : d \in
            {e \in Conns : \E k \in Calls : call[<<e, x, k>>] \in Subscribing}}
    BY DEF Disconnect, Subscribing
  <2> QED BY <2>1
<1>5. CASE c = x
  <2>1. /\ inbox'[c] = <<>> /\ setup'[c] = "none" /\ cards'[c] = {}
        /\ \A p \in Conns : consuming'[c][p] = 0
    <3>1. inbox'[c] = <<>>
      <4> DEFINE note == IF producer[x] = "open" THEN <<<<"closed", x>>>> ELSE <<>>
                 box == Tell(inbox, RoomMates(x), note \o <<b>>)
      <4>1. inbox' = [box EXCEPT ![x] = <<>>] /\ DOMAIN box = Conns
        BY DEF Disconnect, Tell
      <4> HIDE DEF box
      <4> QED BY <1>5, <4>1
    <3>2. setup'[c] = "none" /\ cards'[c] = {} /\ \A p \in Conns : consuming'[c][p] = 0
      BY <1>0, <1>5 DEF Disconnect, Shown
    <3> QED BY <3>1, <3>2
  <2>2. ~On(c)' /\ conn'[c] = "gone"
    BY <1>1, <1>5 DEF On
  <2> QED BY <1>2, <1>3, <1>5, <2>1, <2>2, Blank
<1>6. CASE c # x
  <2>1. /\ setup'[c] = setup[c] /\ cards'[c] = cards[c] /\ consuming'[c] = consuming[c]
        /\ \A q \in Conns \ {x} : producer'[q] = producer[q]
        /\ producer'[x] = IF producer[x] = "open" THEN "closed" ELSE producer[x]
    BY <1>0, <1>6 DEF Disconnect, Shown, Kept
  <2>2. inbox'[c] = IF c \in RoomMates(x) THEN Plus(r, b) ELSE inbox[c]
    <3> DEFINE note == IF producer[x] = "open" THEN <<<<"closed", x>>>> ELSE <<>>
               box == Tell(inbox, RoomMates(x), note \o <<b>>)
    <3>1. inbox' = [box EXCEPT ![x] = <<>>] /\ DOMAIN box = Conns
      BY DEF Disconnect, Tell
    <3>2. inbox'[c] = IF c \in RoomMates(x) THEN inbox[c] \o (note \o <<b>>) ELSE inbox[c]
      BY <1>6, <3>1 DEF Tell
    <3>3. inbox[c] \o (note \o <<b>>) = Plus(r, b)
      <4>1. inbox[c] \in Seq(Msgs) /\ <<"closed", x>> \in Msgs /\ b \in Msgs
        BY <1>0 DEF Msgs
      <4> HIDE DEF b
      <4>2. CASE producer[x] = "open"
        BY <4>1, <4>2 DEF Plus
      <4>3. CASE producer[x] # "open"
        BY <4>1, <4>3 DEF Plus
      <4> QED BY <4>2, <4>3
    <3> QED BY <3>2, <3>3
  <2>3. CASE ~On(c)
    <3>1. inbox'[c] = inbox[c] /\ ~On(c)' /\ conn'[c] = conn[c]
      BY <1>1, <1>6, <2>2, <2>3 DEF RoomMates, On
    <3>2. /\ inbox[c] = <<>> /\ setup[c] = "none" /\ cards[c] = {}
          /\ \A p \in Conns : consuming[c][p] = 0
          /\ \A p \in Conns, k \in Calls :
                /\ call[<<c, p, k>>] = "none"
                /\ \/ consumer[<<c, p, k>>] = "none"
                   \/ consumer[<<c, p, k>>] = "closed" /\ conn[c] = "gone"
      BY <1>0, <2>3 DEF Off
    <3> QED BY <1>2, <1>3, <1>6, <2>1, <3>1, <3>2, Blank
  <2>4. CASE On(c)
    <3>1. /\ r \in Seq(Msgs) /\ (r = inbox[c] \/ r = Plus(inbox[c], <<"closed", x>>))
          /\ b \in Msgs /\ Plus(r, b) \in Seq(Msgs)
      <4>1. <<"closed", x>> \in Msgs /\ b \in Msgs
        BY DEF Msgs
      <4>2. r \in Seq(Msgs)
        BY <1>0, <4>1, Appended
      <4> QED BY <4>1, <4>2, Appended
    <3>2. \/ inbox'[c] = Plus(r, b)
          \/ inbox'[c] = inbox[c] /\ room[c] # room[x]
      BY <1>6, <2>2, <2>4 DEF RoomMates
    <3> HIDE DEF r
    <3>3. Pair(c, x)'
      <4>1. producer'[x] \in {"none", "asked"} <=> producer[x] \in {"none", "asked"}
        BY <2>1
      <4>2. \A k \in Calls :
               /\ consumer[<<c, x, k>>] = "none" => consumer'[<<c, x, k>>] = "none"
               /\ call'[<<c, x, k>>] = call[<<c, x, k>>]
        BY <1>2, <1>3, <1>6
      <4>3. Pair(c, x) /\ inbox[c] \in Seq(Msgs) /\ conn'[c] = conn[c] /\ x \in Conns \ {c}
        BY <1>0, <1>1, <1>6
      <4> QED BY <1>1, <1>4, <2>1, <2>4, <3>1, <3>2, <4>1, <4>2, <4>3, LeftPair
    <3>4. ASSUME NEW M, <<"closed", x>> \notin M, b \notin M, NEW L
          PROVE  /\ In(inbox'[c], M) <=> In(inbox[c], M)
                 /\ Once(inbox[c], M) => Once(inbox'[c], M)
                 /\ Followed(inbox[c], M, L) => Followed(inbox'[c], M, L)
      <4>1. CASE inbox'[c] = Plus(r, b)
        <5>1. inbox'[c] \in Seq(Msgs) /\ inbox[c] \in Seq(Msgs)
          BY <1>0, <3>1, <4>1
        <5> QED BY <3>1, <3>4, <4>1, <5>1, Leaving
      <4> QED BY <3>2, <4>1
    <3>5. ASSUME NEW q \in Conns \ {x} PROVE SameMail(c, q)
      <4>1. ASSUME NEW M \in About(q) PROVE <<"closed", x>> \notin M /\ b \notin M
        <5>1. x \in Conns \ {q} /\ 1 \in Calls /\ q \notin {} /\ {} \in SUBSET Conns
          BY DEF Calls
        <5> QED BY <5>1, AboutOthers
      <4>2. Adders(q) \in About(q)
        BY DEF About
      <4> QED BY <3>4, <4>1, <4>2 DEF SameMail
    <3>6. ASSUME NEW q \in Conns \ {x} PROVE Pair(c, q)'
      BY <1>0, <1>1, <1>2, <1>3, <1>4, <1>6, <2>1, <3>5, Bystander
    <3>7. Off(c)'
      BY <1>1, <1>6, <2>4 DEF Off, On
    <3>8. Self(c)'
      <4>1. SameMail(c, c)
        BY <1>6, <3>5
      <4> QED BY <1>0, <1>2, <1>6, <4>1, SameClasses DEF Self
    <3>9. Listed(c)'
      <4>1. <<"closed", x>> \notin Lists /\ b \notin Lists
        BY DEF Lists
      <4> QED BY <1>0, <2>1, <3>4, <4>1 DEF Listed
    <3> QED BY <3>3, <3>6, <3>7, <3>8, <3>9 DEF Client
  <2> QED BY <2>3, <2>4
<1> QED BY <1>5, <1>6

--------------------------------------------------------------------------------
LEMMA NextInv == IInv /\ [Next]_vars => IInv'
<1> SUFFICES ASSUME IInv, [Next]_vars PROVE IInv'
  OBVIOUS
<1>1. CASE UNCHANGED vars
  <2>1. UNCHANGED serverVars /\ UNCHANGED <<consumer, inbox, setup, call, consuming, cards>>
    BY <1>1 DEF vars, clientVars
  <2>2. TypeInv'
    BY <2>1 DEF IInv, TypeInv, TypeOK, serverVars
  <2>3. Server'
    BY <2>1, ServerStays
  <2>4. ASSUME NEW c \in Conns PROVE Client(c)'
    <3>1. \A p \in Conns : SameMail(c, p)
      BY <2>1, SameInbox
    <3>2. Client(c) /\ UNCHANGED <<conn, room, crossed, producer>>
      BY <2>1 DEF IInv, serverVars
    <3> QED BY <2>1, <3>1, <3>2, Untouched
  <2> QED BY <2>2, <2>3, <2>4 DEF IInv
<1>2. CASE Next
  <2>1. TypeInv'
    BY <1>2, TypeNext
  <2>2. PICK c \in Conns : Connect(c) \/ ServerStep(c) \/ ClientStep(c) \/ Disconnect(c)
    BY <1>2 DEF Next
  <2>3. CASE Connect(c)
    BY <2>1, <2>3, ConnectServer, Newcomer, ConnectClient DEF IInv
  <2>4. CASE Disconnect(c)
    BY <2>1, <2>4, DisconnectServer, DisconnectClient DEF IInv
  <2>5. CASE ServerStep(c)
    <3>1. CASE SendTransportCreated(c) \/ RecvTransportCreated(c)
               \/ Produced(c) \/ ProduceFailsForDeparted(c)
      BY <2>1, <3>1, SetupServer, SetupClient, ProducedClient DEF IInv
    <3>2. CASE \E p \in Conns, k \in Calls : Consumed(c, p, k) \/ ConsumerProducerClose(c, p, k)
      BY <2>1, <3>2, ConsumedStep, CloseStep DEF IInv
    <3> QED BY <2>5, <3>1, <3>2 DEF ServerStep
  <2>6. CASE ClientStep(c)
    <3>1. CASE AskSendTransport(c) \/ AskProduce(c) \/ AskRecvTransport(c)
      BY <2>1, <3>1, SetupServer, SetupClient DEF IInv
    <3>2. CASE AskProducers(c)
      BY <2>1, <3>2, SetupServer, AskProducersClient DEF IInv
    <3>3. CASE Receive(c)
      BY <2>1, <3>3, OfferStep, OnConsumedStep, OnResumedStep, CardsStep, ClosedStep
         DEF Receive, IInv
    <3>4. CASE \E p \in Conns, k \in Calls : LocalConsumed(c, p, k)
      BY <2>1, <3>4, LocalStep DEF IInv
    <3> QED BY <2>6, <3>1, <3>2, <3>3, <3>4 DEF ClientStep
  <2> QED BY <2>2, <2>3, <2>4, <2>5, <2>6
<1> QED BY <1>1, <1>2

LEMMA InvHolds == Spec => []IInv
BY InitInv, NextInv, PTL DEF Spec

\* Every variable of the room keeps its range; no client has a card for itself, or a
\* consumer of its own producer.
THEOREM TypeCorrect == Spec => []TypeOK
<1>1. IInv => TypeOK
  BY DEF IInv, TypeInv
<1> QED BY <1>1, InvHolds, PTL

\* getOrCreateRoom and the deletion of an empty room: however people come and go, those
\* who are in one room hold the one state object that is registered for it, which lists
\* them and nobody else; an empty room has none.
THEOREM OneStateForARoom == Spec => []OneStatePerRoom
<1>1. IInv => OneStatePerRoom
  BY DEF IInv, Server
<1> QED BY <1>1, InvHolds, PTL

\* getProducers and the new-producer event together miss nobody: a client that has
\* handled everything sent to it has a card for everybody in its room, and a resumed
\* consumer for every producer there.
THEOREM NobodyIsMissed == Spec => []RoomIsWhole
<1>1. IInv => RoomIsWhole
  <2> SUFFICES ASSUME IInv, NEW c \in Conns, NEW p \in Conns, Quiet(c), Together(c, p)
               PROVE  /\ p \in cards[c]
                      /\ producer[p] = "open" =>
                            /\ consuming[c][p] # 0
                            /\ consumer[<<c, p, consuming[c][p]>>] = "live"
    BY DEF RoomIsWhole
  <2>1. /\ Pair(c, p) /\ On(c) /\ conn[p] # "gone" /\ consuming[c][p] \in {0} \union Calls
        /\ \A M : ~In(inbox[c], M)
    BY DEF IInv, TypeInv, TypeOK, Client, Together, On, Quiet, In
  <2>2. p \in cards[c]
    BY <2>1 DEF Pair, NotMissed, Announced
  <2>3. ASSUME producer[p] = "open"
        PROVE  consuming[c][p] # 0 /\ consumer[<<c, p, consuming[c][p]>>] = "live"
    <3>1. PICK k \in Calls : call[<<c, p, k>>] = "done"
      BY <2>1, <2>3 DEF Pair, NotMissed, Offered, Quiet, Subscribing
    <3>2. consuming[c][p] # 0
      BY <2>1, <3>1 DEF Pair, Follows
    <3> QED BY <2>1, <3>2 DEF Pair, Follows
  <2> QED BY <2>2, <2>3
<1> QED BY <1>1, InvHolds, PTL

\* peer-left and producer-closed: a client that has handled everything sent to it shows
\* or hears somebody who has gone only if the departure crossed its own subscription.
THEOREM GhostsHaveCrossed == Spec => []GhostsOnlyWhenCrossed
<1>1. IInv => GhostsOnlyWhenCrossed
  <2> SUFFICES ASSUME IInv, NEW c \in Conns, NEW p \in Conns, Quiet(c), conn[p] = "gone",
                      consuming[c][p] # 0 \/ p \in cards[c], <<c, p>> \notin crossed
               PROVE  FALSE
    BY DEF GhostsOnlyWhenCrossed
  <2>1. Pair(c, p) /\ On(c) /\ ~In(inbox[c], LeftOf(p))
    BY DEF IInv, Client, Off, Quiet, In
  <2> QED BY <2>1 DEF Pair, Carded, Departs
<1> QED BY <1>1, InvHolds, PTL

\* "disconnecting": of a connection that is gone the server keeps no transport, producer,
\* owner entry or consumer, unless it was creating one of them at that moment.
THEOREM NothingIsLeft == Spec => []NothingLeft
<1>1. IInv => NothingLeft
  <2> SUFFICES ASSUME IInv, NEW c \in Conns \ raced, conn[c] = "gone"
               PROVE  /\ "open" \notin {sendT[c], recvT[c], producer[c]}
                      /\ c \notin owners
                      /\ \A p \in Conns, k \in Calls :
                            consumer[<<c, p, k>>] \in {"none", "closed"}
    BY DEF NothingLeft
  <2>1. Served(c) /\ Off(c) /\ ~On(c)
    BY DEF IInv, Server, Client, On
  <2> QED BY <2>1 DEF Served, Off
<1> QED BY <1>1, InvHolds, PTL
================================================================================
