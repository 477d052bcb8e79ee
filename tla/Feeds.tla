---------------------------------- MODULE Feeds ----------------------------------
(***************************************************************************)
(* One hardware feed as one browser page listens to it: renderFeeds,       *)
(* startFeed, stopFeed, the buttons, and what a lost connection does to    *)
(* them (src/public/index.html).                                           *)
(*                                                                         *)
(* A start is one call of startFeed, with the consumer it makes.  It waits *)
(* for the answer to "consume", for recvTransport.consume (create), for    *)
(* the answer to "resumeConsumer" (resume) and for audio.play().  An       *)
(* answer that is under way when the connection breaks never comes: such a *)
(* start stands still for ever and its slot is free.  The page's other     *)
(* feeds are there as presses of the stage button.                         *)
(***************************************************************************)
CONSTANTS Starts,  \* bound: starts in progress or consumers at a time
          None

ASSUME FeedsAssumption == None \notin Starts

VARIABLES
    conn,      \* "down"; "up"; "ready": with recvTransport; "joined": establishMedia is done
    available, \* row.available, and row.producerId is set
    wants,     \* row.wantsAudio
    listening, \* row.listening
    disabled,  \* row.toggle.disabled
    failed,    \* the chip says "Failed"
    consuming, \* the consumer of the feed in the map of that name
    src,       \* the consumer whose track is row.audio.srcObject
    open,      \* consumers that exist on the current transport
    pc,        \* where each start is
    crossed,   \* history: the last stop met a start in progress
    doubled    \* history: two starts consumed the feed on this connection

row == <<available, wants, listening, disabled, failed>>
media == <<consuming, src, open>>
history == <<crossed, doubled>>
vars == <<conn, row, media, pc, history>>

\* Starts that a stop would meet: what they do next shows
InProgress == {k \in Starts : pc[k] \notin {"idle", "doomed"}}

Connected == conn \in {"ready", "joined"}

Init ==
    /\ conn = "down"
    /\ available = FALSE /\ wants = FALSE /\ listening = FALSE
    /\ disabled = TRUE /\ failed = FALSE
    /\ consuming = None /\ src = None /\ open = {}
    /\ pc = [k \in Starts |-> "idle"]
    /\ crossed = FALSE /\ doubled = FALSE

--------------------------------------------------------------------------------
\* stopFeed: the consumer of the map is closed.  The mutants only hide the feed, and
\* forget the consumer without closing it.
Stopped(keepIntent) ==
    /\ src' = None
    /\ listening' = FALSE
    /\ wants' = (wants /\ keepIntent)
    /\ crossed' = (InProgress # {})
HideFeed(keepIntent) == Stopped(keepIntent) /\ UNCHANGED <<consuming, open>>
LoseFeed(keepIntent) == Stopped(keepIntent) /\ consuming' = None /\ UNCHANGED open
StopFeed(keepIntent) ==
    /\ Stopped(keepIntent)
    /\ consuming' = None
    /\ open' = open \ {consuming}

\* startFeed on a connection, in slot k: consumeProducer asks the server, or hands out
\* the consumer that the map has already.
Consumes(k) ==
    /\ pc[k] = "idle" /\ k \notin open
    /\ pc' = [pc EXCEPT ![k] = IF consuming = None THEN "consume" ELSE "play"]
    /\ src' = IF consuming = None THEN src ELSE consuming
    /\ disabled' = TRUE /\ failed' = FALSE
    /\ doubled' = (doubled \/ (consuming = None /\
           \E j \in Starts : pc[j] \in {"consume", "create", "resume"}))
    /\ UNCHANGED <<consuming, open>>

\* startFeed.  Without a receive transport consumeProducer has nothing to offer.
StartFeed(k) ==
    /\ ~listening /\ available
    /\ wants' = TRUE
    /\ IF Connected
       THEN Consumes(k)
       ELSE failed' = TRUE /\ disabled' = FALSE /\ UNCHANGED <<media, pc, doubled>>
    /\ UNCHANGED <<conn, available, listening, crossed>>

\* renderFeeds, of the "feeds" event of a new connection: the feed may have gone.
Connect(there) ==
    /\ conn = "down"
    /\ conn' = "up"
    /\ available' = there
    /\ disabled' = ~there
    /\ IF ~there /\ listening THEN StopFeed(TRUE)
       ELSE UNCHANGED <<wants, listening, media, crossed>>
    /\ UNCHANGED <<failed, pc, doubled>>

\* establishMedia has the receive transport, ...
Ready ==
    /\ conn = "up"
    /\ conn' = "ready"
    /\ UNCHANGED <<row, media, pc, history>>

\* ... then renders the answer to getFeeds, which enables the button whatever is in
\* progress, and resumes what the user was listening to.  The mutant does not.
JoinedOnly ==
    /\ conn = "ready"
    /\ conn' = "joined"
    /\ disabled' = ~available
    /\ UNCHANGED <<available, wants, listening, failed, media, pc, history>>
Joined ==
    /\ conn = "ready"
    /\ conn' = "joined"
    /\ IF wants /\ ~listening /\ available
       THEN \E k \in Starts : Consumes(k)
       ELSE disabled' = ~available /\ UNCHANGED <<failed, media, pc, doubled>>
    /\ UNCHANGED <<available, wants, listening, crossed>>

\* teardownMedia: stopFeed for every row, and every consumer closes with its transport.
\* The mutant leaves the row as it was.
TornUnseen(keepIntent) ==
    /\ conn' = "down"
    /\ consuming' = None /\ src' = None /\ open' = {}
    /\ UNCHANGED listening
    /\ wants' = (wants /\ keepIntent)
    /\ doubled' = FALSE
Torn(keepIntent) ==
    /\ conn' = "down"
    /\ consuming' = None /\ src' = None /\ open' = {}
    /\ listening' = FALSE
    /\ wants' = (wants /\ keepIntent)
    /\ doubled' = FALSE

\* A lost connection keeps the intent.
Drop ==
    /\ conn # "down"
    /\ Torn(TRUE)
    /\ pc' = [k \in Starts |-> CASE pc[k] \in {"create", "doomed"} -> "doomed"
                                 [] pc[k] = "play" -> "play"
                                 [] OTHER -> "idle"]
    /\ crossed' = (\E k \in Starts : pc[k] = "play")
    /\ UNCHANGED <<available, disabled, failed>>

\* leaveRoom: the row goes; what is in progress works on a row nobody sees.
Leave ==
    /\ Torn(FALSE)
    /\ pc' = [k \in Starts |-> "idle"]
    /\ available' = FALSE /\ disabled' = TRUE /\ failed' = FALSE
    /\ crossed' = FALSE

--------------------------------------------------------------------------------
\* The row's button
Listen(k) ==
    /\ ~disabled
    /\ StartFeed(k)

Unlisten ==
    /\ ~disabled /\ listening
    /\ StopFeed(FALSE)
    /\ UNCHANGED <<conn, available, disabled, failed, pc, doubled>>

\* The stage button starts every feed when none plays, and otherwise stops every feed,
\* also one that is just starting because another one plays.
StageStart(k) == StartFeed(k)

StageStop ==
    /\ StopFeed(FALSE)
    /\ UNCHANGED <<conn, available, disabled, failed, pc, doubled>>

--------------------------------------------------------------------------------
\* A start goes on to its next wait.
GoesTo(k, step) ==
    /\ pc' = [pc EXCEPT ![k] = step]
    /\ UNCHANGED <<conn, row, history>>

\* "consume" is answered.
GotConsume(k) ==
    /\ pc[k] = "consume"
    /\ GoesTo(k, "create")
    /\ UNCHANGED media

\* The consumer is made, on the transport of this connection
Created(k) ==
    /\ pc[k] = "create"
    /\ GoesTo(k, "resume")
    /\ open' = open \union {k}
    /\ UNCHANGED <<consuming, src>>

\* "resumeConsumer" is answered, whatever it says: the map and the element get it.
Resumed(k) ==
    /\ pc[k] = "resume"
    /\ GoesTo(k, "play")
    /\ consuming' = k
    /\ src' = k
    /\ UNCHANGED open

\* play() settles, because it plays or because its source was taken away.
Played(k) ==
    /\ pc[k] = "play"
    /\ pc' = [pc EXCEPT ![k] = "idle"]
    /\ listening' = TRUE
    /\ disabled' = FALSE /\ failed' = FALSE
    /\ UNCHANGED <<conn, available, wants, media, history>>

\* The server declines, or the transport has closed.
Fails(k) ==
    /\ pc[k] \in {"consume", "create", "doomed"}
    /\ pc' = [pc EXCEPT ![k] = "idle"]
    /\ failed' = TRUE /\ disabled' = FALSE
    /\ UNCHANGED <<conn, available, wants, listening, media, history>>

--------------------------------------------------------------------------------
Step(k) == GotConsume(k) \/ Created(k) \/ Resumed(k) \/ Played(k) \/ Fails(k)

Next ==
    \/ \E there \in BOOLEAN : Connect(there)
    \/ Ready \/ Joined \/ Drop \/ Leave
    \/ Unlisten \/ StageStop
    \/ \E k \in Starts : Listen(k) \/ StageStart(k) \/ Step(k)

\* Answers come while the connection lasts, and an element that has a track plays.
Fairness == \A k \in Starts : WF_vars(Step(k))

Spec == Init /\ [][Next]_vars

FairSpec == Spec /\ Fairness

--------------------------------------------------------------------------------
TypeOK ==
    /\ conn \in {"down", "up", "ready", "joined"}
    /\ {available, wants, listening, disabled, failed, crossed, doubled} \subseteq BOOLEAN
    /\ {consuming, src} \subseteq Starts \union {None}
    /\ open \subseteq Starts
    /\ pc \in [Starts -> {"idle", "consume", "create", "doomed", "resume", "play"}]

\* The button says "Listening" only of a feed that plays, unless the last stop came
\* upon a start: that start then shows a feed whose consumer is closed.
ListeningIsHeard == listening /\ ~crossed => src \in open /\ src = consuming

\* A feed the user turned off is neither shown nor received, with the same exception,
\* and but for what a start that met another one has left behind.
OffIsOff == ~wants /\ ~crossed => ~listening /\ src = None /\ (doubled \/ open = {})

\* A page that did not start the feed twice receives it once, and can stop it.
ReceivedOnce ==
    ~doubled => open \subseteq {consuming} \union {k \in Starts : pc[k] = "resume"}

\* "so it can be resumed automatically" (index.html:1963-1964): after each reconnection
\* a feed the user wants plays again, or the button says that it failed.
WantedPlays ==
    conn = "joined" /\ wants /\ available ~> listening \/ failed \/ ~wants \/ conn # "joined"
================================================================================
