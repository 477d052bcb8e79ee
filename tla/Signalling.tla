------------------------------- MODULE Signalling -------------------------------
(***************************************************************************)
(* A room: the connection handlers of src/server.js and the part of the    *)
(* browser (src/public/index.html) that publishes its microphone and       *)
(* subscribes to everybody else's.                                         *)
(*                                                                         *)
(* A connection is one Socket.IO socket; a client that reconnects comes    *)
(* back as another one and rebuilds its media from nothing.  A producer is *)
(* named by the connection it belongs to.  The server's messages to one    *)
(* connection, acknowledgements included, arrive in order; the server      *)
(* handles a request in the step that sends it, up to its first await.     *)
(***************************************************************************)
EXTENDS Naturals, Sequences, FiniteSets

CONSTANTS Conns,   \* connections
          Rooms,   \* config.rooms
          None

ASSUME SignallingAssumption == None \notin Conns

\* A producer is offered to a client at most twice: by getProducers and by the
\* new-producer event.
Calls == 1..2

VARIABLES
    conn,      \* "off", "on" or "gone"
    room,      \* the room of each connection
    rooms,     \* the registry: per room its state object, named by who created it
    stateOf,   \* the state object each connection captured
    peersOf,   \* state.peers of each state object
    sendT,     \* server: the send transport, "none", "asked", "open" or "closed"
    recvT,     \* server: the receive transport
    producer,  \* server: the producer
    owners,    \* server: keys of producerOwners
    consumer,  \* server: "none", "paused", "live", "closing" or "closed"
    inbox,     \* messages under way to each connection
    setup,     \* client: how far establishMedia is
    call,      \* client: where each consumeProducer call is
    consuming, \* client: the call whose consumer `consuming` holds for a producer, or 0
    cards,     \* client: peerCards
    raced,     \* history: connections lost while the server worked for them
    crossed    \* history: <<c, p>>, p left while c was subscribing to it

serverVars == <<conn, room, rooms, stateOf, peersOf, sendT, recvT, producer, owners,
                raced, crossed>>
clientVars == <<setup, call, consuming, cards>>
vars == <<serverVars, consumer, inbox, clientVars>>

--------------------------------------------------------------------------------
On(c) == conn[c] = "on"

\* Whom socket.to(room) reaches.
RoomMates(c) == {d \in Conns \ {c} : On(d) /\ room[d] = room[c]}

\* inbox with messages appended for every connection in D
Tell(box, D, msgs) == [d \in Conns |-> IF d \in D THEN box[d] \o msgs ELSE box[d]]

\* The next message of c is of this type.
Gets(c, type) == inbox[c] # <<>> /\ Head(inbox[c])[1] = type
Payload(c) == Head(inbox[c])[2]
Rest(c) == [inbox EXCEPT ![c] = Tail(@)]

\* closeConsumer(p) of a client whose consumer for p came from call k: drop it and
\* have the server close it.
ServerClose(c, p) ==
    IF consuming[c][p] = 0 THEN consumer
    ELSE [consumer EXCEPT ![<<c, p, consuming[c][p]>>] = "closed"]

\* What "peers" lists to a connection that joins s; the mutant lists everybody.
PeersWithSelf(c, s) == peersOf[s] \union {c}
PeersFor(c, s) == peersOf[s]

--------------------------------------------------------------------------------
Init ==
    /\ conn = [c \in Conns |-> "off"]
    /\ room \in [Conns -> Rooms]
    /\ rooms = [r \in Rooms |-> None]
    /\ stateOf = [c \in Conns |-> None]
    /\ peersOf = [c \in Conns |-> {}]
    /\ sendT = [c \in Conns |-> "none"]
    /\ recvT = [c \in Conns |-> "none"]
    /\ producer = [c \in Conns |-> "none"]
    /\ owners = {}
    /\ consumer = [x \in Conns \X Conns \X Calls |-> "none"]
    /\ inbox = [c \in Conns |-> <<>>]
    /\ setup = [c \in Conns |-> "none"]
    /\ call = [x \in Conns \X Conns \X Calls |-> "none"]
    /\ consuming = [c \in Conns |-> [p \in Conns |-> 0]]
    /\ cards = [c \in Conns |-> {}]
    /\ raced = {}
    /\ crossed = {}

\* io.on("connection"): join the room, find or create its state, register the peer,
\* send it the others and announce it to them.
Connect(c) ==
    LET r == room[c]
        s == IF rooms[r] = None THEN c ELSE rooms[r]
    IN  /\ conn[c] = "off"
        /\ conn' = [conn EXCEPT ![c] = "on"]
        /\ rooms' = [rooms EXCEPT ![r] = s]
        /\ stateOf' = [stateOf EXCEPT ![c] = s]
        /\ peersOf' = [peersOf EXCEPT ![s] = @ \union {c}]
        /\ inbox' = [Tell(inbox, RoomMates(c), <<<<"joined", c>>>>)
                        EXCEPT ![c] = <<<<"peers", PeersFor(c, s)>>>>]
        /\ UNCHANGED <<room, sendT, recvT, producer, owners, raced, crossed, consumer, clientVars>>

\* establishMedia, once capabilities and microphone are there: createTransport.
AskSendTransport(c) ==
    /\ On(c) /\ setup[c] = "none"
    /\ setup' = [setup EXCEPT ![c] = "send"]
    /\ sendT' = [sendT EXCEPT ![c] = "asked"]
    /\ UNCHANGED <<conn, room, rooms, stateOf, peersOf, recvT, producer, owners, raced, crossed,
                   consumer, inbox, call, consuming, cards>>

\* createWebRtcTransport resolves: the transport is kept with the peer, if the peer
\* is still there, and exists in any case.
SendTransportCreated(c) ==
    /\ sendT[c] = "asked"
    /\ sendT' = [sendT EXCEPT ![c] = "open"]
    /\ inbox' = IF On(c) THEN Tell(inbox, {c}, <<<<"transport", c>>>>) ELSE inbox
    /\ UNCHANGED <<conn, room, rooms, stateOf, peersOf, recvT, producer, owners, raced, crossed,
                   consumer, clientVars>>

RecvTransportCreated(c) ==
    /\ recvT[c] = "asked"
    /\ recvT' = [recvT EXCEPT ![c] = "open"]
    /\ inbox' = IF On(c) THEN Tell(inbox, {c}, <<<<"transport", c>>>>) ELSE inbox
    /\ UNCHANGED <<conn, room, rooms, stateOf, peersOf, sendT, producer, owners, raced, crossed,
                   consumer, clientVars>>

\* The client has its send transport and produces on it.
AskProduce(c) ==
    /\ setup[c] = "send" /\ Gets(c, "transport")
    /\ inbox' = Rest(c)
    /\ setup' = [setup EXCEPT ![c] = "produce"]
    /\ producer' = [producer EXCEPT ![c] = "asked"]
    /\ UNCHANGED <<conn, room, rooms, stateOf, peersOf, sendT, recvT, owners, raced, crossed,
                   consumer, call, consuming, cards>>

\* transport.produce resolves: record the producer, announce it.  For a peer that
\* has left it may still resolve, and nothing looks.  The mutant does not answer.
ProducedUnanswered(c) ==
    /\ producer[c] = "asked"
    /\ producer' = [producer EXCEPT ![c] = "open"]
    /\ owners' = owners \union {c}
    /\ inbox' = Tell(inbox, RoomMates(c), <<<<"new-producer", c>>>>)
    /\ UNCHANGED <<conn, room, rooms, stateOf, peersOf, sendT, recvT, raced, crossed, consumer, clientVars>>
Produced(c) ==
    /\ producer[c] = "asked"
    /\ producer' = [producer EXCEPT ![c] = "open"]
    /\ owners' = owners \union {c}
    /\ inbox' = Tell(Tell(inbox, RoomMates(c), <<<<"new-producer", c>>>>),
                     {c} \cap {d \in Conns : On(d)}, <<<<"produced", c>>>>)
    /\ UNCHANGED <<conn, room, rooms, stateOf, peersOf, sendT, recvT, raced, crossed, consumer, clientVars>>

ProduceFailsForDeparted(c) ==
    /\ producer[c] = "asked" /\ ~On(c)
    /\ producer' = [producer EXCEPT ![c] = "closed"]
    /\ UNCHANGED <<conn, room, rooms, stateOf, peersOf, sendT, recvT, owners, raced, crossed,
                   consumer, inbox, clientVars>>

AskRecvTransport(c) ==
    /\ setup[c] = "produce" /\ Gets(c, "produced")
    /\ inbox' = Rest(c)
    /\ setup' = [setup EXCEPT ![c] = "recv"]
    /\ recvT' = [recvT EXCEPT ![c] = "asked"]
    /\ UNCHANGED <<conn, room, rooms, stateOf, peersOf, sendT, producer, owners, raced, crossed,
                   consumer, call, consuming, cards>>

\* The client has its receive transport and asks for the producers; the server's
\* answer is what state.peers holds now.
AskProducers(c) ==
    LET listed == {d \in peersOf[stateOf[c]] \ {c} : producer[d] = "open"}
    IN  /\ setup[c] = "recv" /\ Gets(c, "transport")
        /\ setup' = [setup EXCEPT ![c] = "list"]
        /\ inbox' = Tell(Rest(c), {c}, <<<<"list", listed>>>>)
        /\ UNCHANGED <<serverVars, consumer, call, consuming, cards>>

--------------------------------------------------------------------------------
\* consumeProducer(p) up to the client's first await, for each p of P: nothing
\* without a receive transport or for a producer already consumed; the server
\* refuses a producer that is not of the room.
Wanted(c, P) ==
    IF setup[c] \in {"list", "ready"} THEN {p \in P : consuming[c][p] = 0} ELSE {}
FreeCall(c, p) == IF call[<<c, p, 1>>] = "none" THEN 1 ELSE 2
Refused(c, P) == {p \in Wanted(c, P) : p \notin peersOf[stateOf[c]] \/ producer[p] # "open"}
Consume(c, P) ==
    call' = [x \in DOMAIN call |->
                IF x[1] = c /\ x[2] \in Wanted(c, P) /\ x[3] = FreeCall(c, x[2])
                THEN IF x[2] \in Refused(c, P) THEN "refused" ELSE "asked"
                ELSE call[x]]

OnNewProducer(c) ==
    /\ Gets(c, "new-producer")
    /\ inbox' = Rest(c)
    /\ Consume(c, {Payload(c)})
    /\ UNCHANGED <<serverVars, consumer, setup, consuming, cards>>

\* The getProducers answer; the rest of establishMedia opens the user interface.
OnProducers(c) ==
    /\ Gets(c, "list")
    /\ inbox' = Rest(c)
    /\ setup' = [setup EXCEPT ![c] = "ready"]
    /\ Consume(c, Payload(c))
    /\ UNCHANGED <<serverVars, consumer, consuming, cards>>

\* transport.consume resolves while the producer is open, else it rejects.
Consumed(c, p, k) ==
    /\ call[<<c, p, k>>] = "asked"
    /\ IF producer[p] = "open"
       THEN /\ consumer' = [consumer EXCEPT ![<<c, p, k>>] = "paused"]
            /\ call' = [call EXCEPT ![<<c, p, k>>] = "acked"]
            /\ inbox' = Tell(inbox, {c}, <<<<"consumed", <<p, k>>>>>>)
       ELSE /\ call' = [call EXCEPT ![<<c, p, k>>] = "refused"]
            /\ UNCHANGED <<consumer, inbox>>
    /\ UNCHANGED <<serverVars, setup, consuming, cards>>

\* The acknowledgement: recvTransport.consume begins in the browser.
OnConsumed(c) ==
    /\ Gets(c, "consumed")
    /\ inbox' = Rest(c)
    /\ call' = [call EXCEPT ![<<c, Payload(c)[1], Payload(c)[2]>>] = "local"]
    /\ UNCHANGED <<serverVars, consumer, setup, consuming, cards>>

\* recvTransport.consume is done: resumeConsumer, which the server answers whether
\* or not it still has the consumer.  The mutant does not resume.
LocalWithoutResume(c, p, k) ==
    /\ call[<<c, p, k>>] = "local"
    /\ call' = [call EXCEPT ![<<c, p, k>>] = "resuming"]
    /\ inbox' = Tell(inbox, {c}, <<<<"resumed", <<p, k>>>>>>)
    /\ UNCHANGED <<serverVars, consumer, setup, consuming, cards>>
LocalConsumed(c, p, k) ==
    /\ call[<<c, p, k>>] = "local"
    /\ call' = [call EXCEPT ![<<c, p, k>>] = "resuming"]
    /\ consumer' = [consumer EXCEPT ![<<c, p, k>>] = IF @ = "paused" THEN "live" ELSE @]
    /\ inbox' = Tell(inbox, {c}, <<<<"resumed", <<p, k>>>>>>)
    /\ UNCHANGED <<serverVars, setup, consuming, cards>>

\* consuming.set, then attachPeerAudio makes sure that the owner has a card.
OnResumed(c) ==
    LET p == Payload(c)[1]
        k == Payload(c)[2]
    IN  /\ Gets(c, "resumed")
        /\ inbox' = Rest(c)
        /\ call' = [call EXCEPT ![<<c, p, k>>] = "done"]
        /\ consuming' = [consuming EXCEPT ![c][p] = k]
        /\ cards' = [cards EXCEPT ![c] = @ \union {p}]
        /\ UNCHANGED <<serverVars, consumer, setup>>

--------------------------------------------------------------------------------
\* "peers" and "peer-joined"
OnPeers(c) ==
    /\ Gets(c, "peers")
    /\ inbox' = Rest(c)
    /\ cards' = [cards EXCEPT ![c] = @ \union Payload(c)]
    /\ UNCHANGED <<serverVars, consumer, setup, call, consuming>>

OnPeerJoined(c) ==
    /\ Gets(c, "joined")
    /\ inbox' = Rest(c)
    /\ cards' = [cards EXCEPT ![c] = @ \union {Payload(c)}]
    /\ UNCHANGED <<serverVars, consumer, setup, call, consuming>>

\* "producer-closed": closeConsumer
OnProducerClosed(c) ==
    /\ Gets(c, "closed")
    /\ inbox' = Rest(c)
    /\ consumer' = ServerClose(c, Payload(c))
    /\ consuming' = [consuming EXCEPT ![c][Payload(c)] = 0]
    /\ UNCHANGED <<serverVars, setup, call, cards>>

\* "peer-left": removePeerCard, which closes the consumer the card had.  The mutant
\* returns early without a subscription, forgetting that producer-closed came first.
OnPeerLeftSubscribed(c) ==
    /\ Gets(c, "left")
    /\ inbox' = Rest(c)
    /\ LET left == {p \in {Payload(c)} : consuming[c][p] # 0}
       IN  cards' = [cards EXCEPT ![c] = @ \ left]
    /\ consumer' = ServerClose(c, Payload(c))
    /\ consuming' = [consuming EXCEPT ![c][Payload(c)] = 0]
    /\ UNCHANGED <<serverVars, setup, call>>
OnPeerLeft(c) ==
    /\ Gets(c, "left")
    /\ inbox' = Rest(c)
    /\ cards' = [cards EXCEPT ![c] = @ \ {Payload(c)}]
    /\ IF Payload(c) \in cards[c]
       THEN /\ consumer' = ServerClose(c, Payload(c))
            /\ consuming' = [consuming EXCEPT ![c][Payload(c)] = 0]
       ELSE UNCHANGED <<consumer, consuming>>
    /\ UNCHANGED <<serverVars, setup, call>>

\* A consumer's "producerclose" on the server, after its producer was closed.
ConsumerProducerClose(c, p, k) ==
    /\ consumer[<<c, p, k>>] = "closing"
    /\ consumer' = [consumer EXCEPT ![<<c, p, k>>] = "closed"]
    /\ inbox' = Tell(inbox, {c}, <<<<"closed", p>>>>)
    /\ UNCHANGED <<serverVars, clientVars>>

--------------------------------------------------------------------------------
\* An empty room leaves the registry; the mutant drops the room with any peer.
RoomAfterAny(c) == [rooms EXCEPT ![room[c]] = None]
RoomAfter(c) ==
    IF peersOf[stateOf[c]] = {c} THEN [rooms EXCEPT ![room[c]] = None] ELSE rooms

\* producerOwners after c has left; the mutant keeps the entry.
OwnersKept(c) == owners
OwnersAfter(c) == owners \ {c}

\* "disconnecting", with what the browser loses: the client takes no further step.
Disconnect(c) ==
    LET closedNote == IF producer[c] = "open" THEN <<<<"closed", c>>>> ELSE <<>>
        subscribing == {"asked", "acked", "local", "resuming"}
        working == "asked" \in {sendT[c], recvT[c], producer[c]}
        Closed(t) == [t EXCEPT ![c] = IF @ = "open" THEN "closed" ELSE @]
    IN  /\ On(c)
        /\ conn' = [conn EXCEPT ![c] = "gone"]
        /\ owners' = OwnersAfter(c)
        /\ sendT' = Closed(sendT)
        /\ recvT' = Closed(recvT)
        /\ producer' = Closed(producer)
        /\ consumer' = [x \in DOMAIN consumer |->
                IF consumer[x] \in {"none", "closed"} THEN consumer[x]
                ELSE IF x[1] = c THEN "closed"
                ELSE IF x[2] = c THEN "closing" ELSE consumer[x]]
        /\ rooms' = RoomAfter(c)
        /\ peersOf' = [peersOf EXCEPT ![stateOf[c]] = @ \ {c}]
        /\ inbox' = [Tell(inbox, RoomMates(c), closedNote \o <<<<"left", c>>>>)
                        EXCEPT ![c] = <<>>]
        /\ raced' = IF working THEN raced \union {c} ELSE raced
        /\ crossed' = crossed \union
                {<<d, c>> : d \in {e \in Conns : \E k \in Calls : call[<<e, c, k>>] \in subscribing}}
        /\ setup' = [setup EXCEPT ![c] = "none"]
        /\ call' = [x \in DOMAIN call |-> IF x[1] = c THEN "none" ELSE call[x]]
        /\ consuming' = [consuming EXCEPT ![c] = [p \in Conns |-> 0]]
        /\ cards' = [cards EXCEPT ![c] = {}]
        /\ UNCHANGED <<room, stateOf>>

--------------------------------------------------------------------------------
\* What the server does for c, and what the browser of c does
ServerStep(c) ==
    \/ SendTransportCreated(c) \/ RecvTransportCreated(c)
    \/ Produced(c) \/ ProduceFailsForDeparted(c)
    \/ \E p \in Conns, k \in Calls : Consumed(c, p, k) \/ ConsumerProducerClose(c, p, k)

Receive(c) ==
    \/ OnNewProducer(c) \/ OnProducers(c) \/ OnConsumed(c) \/ OnResumed(c)
    \/ OnPeers(c) \/ OnPeerJoined(c) \/ OnProducerClosed(c) \/ OnPeerLeft(c)

ClientStep(c) ==
    \/ AskSendTransport(c) \/ AskProduce(c) \/ AskRecvTransport(c) \/ AskProducers(c)
    \/ Receive(c)
    \/ \E p \in Conns, k \in Calls : LocalConsumed(c, p, k)

Next == \E c \in Conns : Connect(c) \/ ServerStep(c) \/ ClientStep(c) \/ Disconnect(c)

\* The server answers and the browser goes on; nobody has to come or to leave.
Fairness == \A c \in Conns : WF_vars(ServerStep(c)) /\ WF_vars(ClientStep(c))

Spec == Init /\ [][Next]_vars

FairSpec == Spec /\ Fairness

--------------------------------------------------------------------------------
TypeOK ==
    /\ conn \in [Conns -> {"off", "on", "gone"}]
    /\ room \in [Conns -> Rooms]
    /\ rooms \in [Rooms -> Conns \union {None}]
    /\ stateOf \in [Conns -> Conns \union {None}]
    /\ peersOf \in [Conns -> SUBSET Conns]
    /\ \A t \in {sendT, recvT, producer} : t \in [Conns -> {"none", "asked", "open", "closed"}]
    /\ owners \subseteq Conns
    /\ consumer \in [Conns \X Conns \X Calls -> {"none", "paused", "live", "closing", "closed"}]
    /\ setup \in [Conns -> {"none", "send", "produce", "recv", "list", "ready"}]
    /\ call \in [Conns \X Conns \X Calls ->
                    {"none", "asked", "refused", "acked", "local", "resuming", "done"}]
    /\ consuming \in [Conns -> [Conns -> {0} \union Calls]]
    /\ cards \in [Conns -> SUBSET Conns]
    /\ \A c \in Conns : c \notin cards[c] /\ consuming[c][c] = 0

\* The state a connection captured when it joined stays the registered state of its
\* room for as long as it is connected, and lists exactly the room's connections: a
\* room deleted and recreated never splits its people over two objects.
OneStatePerRoom ==
    \A r \in Rooms :
        LET here == {c \in Conns : On(c) /\ room[c] = r}
        IN  /\ \A c \in here : stateOf[c] = rooms[r]
            /\ IF rooms[r] = None THEN here = {} ELSE here # {} /\ peersOf[rooms[r]] = here

\* The browser of c has handled everything under way to it.
Quiet(c) ==
    /\ setup[c] = "ready" /\ inbox[c] = <<>>
    /\ \A p \in Conns, k \in Calls : call[<<c, p, k>>] \in {"none", "refused", "done"}

\* Two connections that are in one room.
Together(c, d) == c # d /\ On(c) /\ On(d) /\ room[c] = room[d]

\* Whatever the order of joining, producing and asking for the lists, a client that has
\* caught up sees everybody who is in its room and hears every microphone there, on a
\* consumer that is resumed: getProducers and new-producer between them miss nobody.
RoomIsWhole ==
    \A c, p \in Conns : Quiet(c) /\ Together(c, p) =>
        /\ p \in cards[c]
        /\ producer[p] = "open" =>
            /\ consuming[c][p] # 0
            /\ consumer[<<c, p, consuming[c][p]>>] = "live"

\* A departed speaker is still subscribed to, or still has a card, only where the
\* departure crossed a subscription.
GhostsOnlyWhenCrossed ==
    \A c, p \in Conns :
        (Quiet(c) /\ conn[p] = "gone" /\ (consuming[c][p] # 0 \/ p \in cards[c])) =>
            <<c, p>> \in crossed

\* What is left on the server of a connection that is gone: nothing, unless it was
\* lost while the server was creating something for it.
NothingLeft ==
    \A c \in Conns \ raced :
        conn[c] = "gone" =>
            /\ "open" \notin {sendT[c], recvT[c], producer[c]}
            /\ c \notin owners
            /\ \A p \in Conns, k \in Calls : consumer[<<c, p, k>>] \in {"none", "closed"}

\* Joining is never stuck: a connection that stays gets through establishMedia.
JoinCompletes == \A c \in Conns : On(c) ~> (setup[c] = "ready" \/ conn[c] = "gone")
=================================================================================
