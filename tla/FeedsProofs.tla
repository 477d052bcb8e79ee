------------------------------- MODULE FeedsProofs -------------------------------
(***************************************************************************)
(* Feeds for every number of starts at a time: what the buttons show, what *)
(* the page receives, and what a stop leaves behind.                       *)
(***************************************************************************)
EXTENDS Feeds, TLAPS

\* From the request until the map has the consumer: another start cannot see this one.
Unseen == {"consume", "create", "resume"}

\* A start's consumer exists exactly from its creation on, and the map and the element
\* have the same one.
ConsumerInv ==
    /\ consuming # None => consuming \in open
    /\ src # None => src = consuming
    /\ \A k \in Starts : pc[k] = "resume" => k \in open /\ k # consuming
    /\ \A k \in Starts : pc[k] \in {"consume", "create", "doomed"} => k \notin open

\* Without a second start of the feed there is one request at most, and none besides a
\* consumer.
SingleInv ==
    ~doubled => \A k \in Starts : pc[k] \in Unseen =>
        consuming = None /\ \A j \in Starts : pc[j] \in Unseen => j = k

PlayInv ==
    ~crossed => /\ listening => src # None
                /\ \A k \in Starts : pc[k] = "play" => src # None

OffInv == ~wants /\ ~crossed => InProgress = {}

IInv ==
    TypeOK /\ ConsumerInv /\ SingleInv /\ PlayInv /\ OffInv /\ OffIsOff /\ ReceivedOnce

LEMMA InitInv == Init => IInv
BY FeedsAssumption
   DEF Init, IInv, TypeOK, ConsumerInv, SingleInv, PlayInv, OffInv, OffIsOff,
       ReceivedOnce, InProgress, Unseen

\* Nothing is in progress and nothing received: a lost connection, or leaving.
LEMMA TornInv ==
    ASSUME IInv, consuming' = None, src' = None, open' = {}, listening' = FALSE,
           doubled' = FALSE, wants' \in BOOLEAN, crossed' \in BOOLEAN,
           conn' \in {"down", "up", "ready", "joined"},
           {available', disabled', failed'} \subseteq BOOLEAN,
           pc' \in [Starts -> {"idle", "doomed", "play"}],
           \A k \in Starts : pc'[k] = "play" => crossed'
    PROVE  IInv'
BY FeedsAssumption
   DEF IInv, TypeOK, ConsumerInv, SingleInv, PlayInv, OffInv, OffIsOff,
       ReceivedOnce, InProgress, Unseen

\* stopFeed, by the button, by the stage or because the feed has gone.
LEMMA StopInv ==
    ASSUME IInv, NEW keepIntent \in BOOLEAN, StopFeed(keepIntent),
           conn' \in {"down", "up", "ready", "joined"},
           {available', disabled', failed'} \subseteq BOOLEAN, UNCHANGED <<pc, doubled>>
    PROVE  IInv'
<1> USE FeedsAssumption DEF StopFeed, Stopped
<1>1. TypeOK'
  BY DEF IInv, TypeOK
<1>2. ConsumerInv'
  BY DEF IInv, TypeOK, ConsumerInv
<1>3. SingleInv'
  BY DEF IInv, SingleInv, Unseen
<1>4. PlayInv' /\ OffInv'
  BY DEF IInv, PlayInv, OffInv, InProgress
<1>5. ReceivedOnce'
  BY DEF IInv, ReceivedOnce
<1>6. OffIsOff'
  <2> SUFFICES ASSUME InProgress = {}, ~doubled PROVE open' = {}
    BY DEF OffIsOff
  <2>1. {k \in Starts : pc[k] = "resume"} = {}
    BY DEF InProgress
  <2> QED
    BY <2>1 DEF IInv, ReceivedOnce
<1> QED
  BY <1>1, <1>2, <1>3, <1>4, <1>5, <1>6 DEF IInv

\* A step that touches neither the starts nor what they made.
LEMMA FrameInv ==
    ASSUME IInv, TypeOK', wants' = TRUE \/ wants' = wants,
           UNCHANGED <<consuming, src, open, pc, listening, crossed, doubled>>
    PROVE  IInv'
BY DEF IInv, ConsumerInv, SingleInv, PlayInv, OffInv, OffIsOff, ReceivedOnce, InProgress

\* startFeed on a connection.
LEMMA ConsumesInv ==
    ASSUME IInv, NEW k \in Starts, Consumes(k), wants' = TRUE,
           conn' \in {"down", "up", "ready", "joined"},
           UNCHANGED <<available, listening, crossed>>
    PROVE  IInv'
<1> USE FeedsAssumption DEF Consumes
<1>1. TypeOK'
  BY DEF IInv, TypeOK
<1>2. ConsumerInv'
  BY DEF IInv, TypeOK, ConsumerInv
<1>3. SingleInv'
  <2>1. CASE consuming = None
    BY <2>1 DEF IInv, TypeOK, SingleInv, Unseen
  <2>2. CASE consuming # None
    BY <2>2 DEF IInv, TypeOK, SingleInv, Unseen
  <2> QED
    BY <2>1, <2>2
<1>4. PlayInv'
  BY DEF IInv, TypeOK, PlayInv
<1>5. ReceivedOnce'
  BY DEF IInv, TypeOK, ReceivedOnce
<1>6. OffInv' /\ OffIsOff'
  BY DEF OffInv, OffIsOff
<1> QED
  BY <1>1, <1>2, <1>3, <1>4, <1>5, <1>6 DEF IInv

LEMMA StartInv ==
    ASSUME IInv, NEW k \in Starts, StartFeed(k)
    PROVE  IInv'
<1>1. CASE Connected
  BY <1>1, ConsumesInv DEF StartFeed, IInv, TypeOK
<1>2. CASE ~Connected
  <2>1. TypeOK'
    BY <1>2 DEF StartFeed, media, IInv, TypeOK
  <2> QED
    BY <1>2, <2>1, FrameInv DEF StartFeed, media
<1> QED
  BY <1>1, <1>2

\* The connection, and what goes with it.
LEMMA ConnectionInv ==
    ASSUME IInv, (\E there \in BOOLEAN : Connect(there)) \/ Ready \/ Joined \/ Drop \/ Leave
    PROVE  IInv'
<1>1. ASSUME NEW there \in BOOLEAN, Connect(there) PROVE IInv'
  <2>1. CASE ~there /\ listening
    BY <1>1, <2>1, StopInv DEF Connect, IInv, TypeOK
  <2>2. CASE ~(~there /\ listening)
    <3>1. TypeOK'
      BY <1>1, <2>2 DEF Connect, media, IInv, TypeOK
    <3> QED
      BY <1>1, <2>2, <3>1, FrameInv DEF Connect, media
  <2> QED
    BY <2>1, <2>2
<1>2. CASE Ready
  BY <1>2, FrameInv DEF Ready, row, media, history, IInv, TypeOK
<1>3. CASE Joined
  <2>1. CASE wants /\ ~listening /\ available
    BY <1>3, <2>1, ConsumesInv DEF Joined
  <2>2. CASE ~(wants /\ ~listening /\ available)
    <3>1. TypeOK'
      BY <1>3, <2>2 DEF Joined, media, IInv, TypeOK
    <3> QED
      BY <1>3, <2>2, <3>1, FrameInv DEF Joined, media
  <2> QED
    BY <2>1, <2>2
<1>4. CASE Drop
  <2>1. /\ consuming' = None /\ src' = None /\ open' = {} /\ listening' = FALSE
        /\ doubled' = FALSE /\ wants' \in BOOLEAN /\ conn' = "down"
        /\ {available', disabled', failed'} \subseteq BOOLEAN
    BY <1>4 DEF Drop, Torn, IInv, TypeOK
  <2>2. crossed' \in BOOLEAN /\ (crossed' <=> \E k \in Starts : pc[k] = "play")
    BY <1>4 DEF Drop
  <2>3. /\ pc' \in [Starts -> {"idle", "doomed", "play"}]
        /\ \A k \in Starts : pc'[k] = "play" => pc[k] = "play"
    BY <1>4 DEF Drop
  <2> QED
    BY <2>1, <2>2, <2>3, TornInv
<1>5. CASE Leave
  BY <1>5, TornInv DEF Leave, Torn, IInv, TypeOK
<1> QED
  BY <1>1, <1>2, <1>3, <1>4, <1>5

LEMMA StepInv ==
    ASSUME IInv, NEW k \in Starts, Step(k)
    PROVE  IInv'
<1> USE FeedsAssumption
<1>1. CASE GotConsume(k)
  BY <1>1 DEF GotConsume, GoesTo, row, media, history, IInv, TypeOK, ConsumerInv,
         SingleInv, PlayInv, OffInv, OffIsOff, ReceivedOnce, InProgress, Unseen
<1>2. CASE Created(k)
  BY <1>2 DEF Created, GoesTo, row, history, IInv, TypeOK, ConsumerInv,
         SingleInv, PlayInv, OffInv, OffIsOff, ReceivedOnce, InProgress, Unseen
<1>3. CASE Resumed(k)
  BY <1>3 DEF Resumed, GoesTo, row, history, IInv, TypeOK, ConsumerInv,
         SingleInv, PlayInv, OffInv, OffIsOff, ReceivedOnce, InProgress, Unseen
<1>4. CASE Played(k)
  BY <1>4 DEF Played, media, history, IInv, TypeOK, ConsumerInv,
         SingleInv, PlayInv, OffInv, OffIsOff, ReceivedOnce, InProgress, Unseen
<1>5. CASE Fails(k)
  <2>1. TypeOK'
    BY <1>5 DEF Fails, media, history, IInv, TypeOK
  <2>2. ConsumerInv' /\ SingleInv' /\ ReceivedOnce'
    BY <1>5 DEF Fails, media, history, IInv, TypeOK, ConsumerInv, SingleInv, ReceivedOnce, Unseen
  <2>3. PlayInv' /\ OffInv' /\ OffIsOff'
    BY <1>5 DEF Fails, media, history, IInv, TypeOK, PlayInv, OffInv, OffIsOff, InProgress
  <2> QED
    BY <2>1, <2>2, <2>3 DEF IInv
<1> QED
  BY <1>1, <1>2, <1>3, <1>4, <1>5 DEF Step

\* Every step preserves the invariant.
LEMMA NextInv == IInv /\ [Next]_vars => IInv'
<1> SUFFICES ASSUME IInv, [Next]_vars PROVE IInv'
  OBVIOUS
<1>1. CASE Unlisten \/ StageStop
  BY <1>1, StopInv DEF Unlisten, StageStop, IInv, TypeOK
<1>2. ASSUME NEW k \in Starts, Listen(k) \/ StageStart(k) PROVE IInv'
  BY <1>2, StartInv DEF Listen, StageStart
<1>3. CASE UNCHANGED vars
  BY <1>3, FrameInv DEF vars, row, media, history, IInv, TypeOK
<1> QED
  BY <1>1, <1>2, <1>3, ConnectionInv, StepInv DEF Next

LEMMA InvHolds == Spec => []IInv
BY InitInv, NextInv, PTL DEF Spec

\* The variables of one feed in one page stay in their ranges.
THEOREM TypeCorrect == Spec => []TypeOK
<1>1. IInv => TypeOK
  BY DEF IInv
<1> QED
  BY <1>1, InvHolds, PTL

\* A feed shown as "Listening" is consumed and played, but for a start that a stop or a
\* lost connection came upon (index.html:1890-1981).
THEOREM ShownIsHeard == Spec => []ListeningIsHeard
<1>1. IInv => ListeningIsHeard
  BY DEF IInv, PlayInv, ConsumerInv, ListeningIsHeard
<1> QED
  BY <1>1, InvHolds, PTL

\* A feed the user turned off is neither shown nor received, with the same exception
\* (index.html:1948-1981).
THEOREM OffStaysOff == Spec => []OffIsOff
<1>1. IInv => OffIsOff
  BY DEF IInv
<1> QED
  BY <1>1, InvHolds, PTL

\* Without two starts of a feed on one connection the page receives it once, and has in
\* its map what it receives (index.html:2650-2693).
THEOREM NoSecondConsumer == Spec => []ReceivedOnce
<1>1. IInv => ReceivedOnce
  BY DEF IInv
<1> QED
  BY <1>1, InvHolds, PTL
================================================================================
