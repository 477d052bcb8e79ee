-------------------------------- MODULE MicProofs --------------------------------
(***************************************************************************)
(* Mic for every number of switches: no latched press, the right track on  *)
(* the producer, no microphone left open, and a button that is obeyed.     *)
(***************************************************************************)
EXTENDS Mic, TLAPS

\* A press that no headset key made is the finger's.
PressInv ==
    /\ headsetPressActive => key
    /\ pushToTalkActive /\ ~headsetPressActive => finger

\* The part of TypeOK that the other invariants need
Types ==
    /\ link \in {"on", "producing", "down", "out"}
    /\ local \in Streams \union {None}
    /\ outbound \in Tracks \union {None}
    /\ pc \in [Switches -> {"idle", "asked", "replace", "done"}]
    /\ old \in [Switches -> Streams \union {None}]
    /\ queue \in Seq(Requests)
    /\ \A i \in 1..Len(queue) :
           /\ pc[queue[i].switch] = "replace"
           /\ \A j \in 1..Len(queue) : queue[i].switch = queue[j].switch => i = j

\* ... and the rest of it
Ranges ==
    /\ onAir \in Tracks \union {None} /\ carried \in Tracks \union {None}
    /\ open \subseteq Tracks /\ enabled \subseteq Tracks
    /\ micMuted \in BOOLEAN /\ pushToTalkActive \in BOOLEAN /\ headsetPressActive \in BOOLEAN
    /\ finger \in BOOLEAN /\ key \in BOOLEAN /\ crossed \in BOOLEAN /\ late \in BOOLEAN

\* A lost connection voids every replaceTrack there is; the last one of this connection
\* brings the current track; without one the producer has it already.
CarryInv ==
    /\ link # "out" => outbound # None
    /\ onAir # None <=> link = "on"
    /\ link = "producing" => carried # None
    /\ \A i \in 1..Len(queue) :
           queue[i].track # None =>
               link = "on" /\ queue[Len(queue)].track = outbound /\ outbound # None
    /\ link \in {"on", "producing"} /\ ~crossed =>
           \/ queue # <<>> /\ queue[Len(queue)].track # None
           \/ (IF link = "on" THEN onAir ELSE carried) = outbound

\* A microphone that is open is the current one, or one that a switch under way stops.
OpenInv ==
    ~late => \A s \in Streams : Raw(s) \in open =>
        \/ local = s /\ link # "out"
        \/ \E i \in 1..Len(queue) : old[queue[i].switch] = s

\* Every grant brings a stream of its own: no track and no switch knows the stream of a
\* switch that has none yet.
Fresh ==
    \A w \in Switches : pc[w] \in {"idle", "asked"} =>
        /\ local # w
        /\ onAir # None => onAir[2] # w
        /\ carried # None => carried[2] # w
        /\ \A v \in Switches : old[v] # w

\* A replaceTrack under way brings its switch's own track, which is not on the air yet.
NotYetOnAir ==
    \A i \in 1..Len(queue) : queue[i].track # None =>
        /\ queue[i].track[2] = queue[i].switch
        /\ onAir # None => onAir[2] # queue[i].switch

\* What is sent, was sent or is on its way of the current stream is its outgoing track.
OneOutbound ==
    /\ outbound # None => local # None /\ outbound \in {Raw(local), Gate(local)}
    /\ onAir # None /\ onAir[2] = local => onAir = outbound
    /\ carried # None /\ carried[2] = local => carried = outbound
    /\ \A i \in 1..Len(queue) :
           queue[i].track # None /\ queue[i].track[2] = local => queue[i].track = outbound

\* No switch stops the current stream; under a gate its microphone stays open and on,
\* and what a connection sends is open.
CurrentLives ==
    /\ \A v \in Switches : old[v] # None => old[v] # local
    /\ outbound # None /\ outbound = Gate(local) => Raw(local) \in open \intersect enabled
    /\ link \in {"on", "producing"} => outbound \in open

LiveInv == Fresh /\ NotYetOnAir /\ OneOutbound /\ CurrentLives

--------------------------------------------------------------------------------
LEMMA PressHolds == Spec => []PressInv
<1>1. Init => PressInv
  BY DEF Init, PressInv
<1>2. PressInv /\ [Next]_vars => PressInv'
  <2> SUFFICES ASSUME PressInv, [Next]_vars PROVE PressInv'
    OBVIOUS
  <2> USE DEF PressInv
  <2>1. CASE Buttons
    <3>1. CASE ToggleMute
      BY <3>1 DEF ToggleMute
    <3>2. CASE FingerDown
      BY <3>2 DEF FingerDown, SetPress
    <3>6. CASE FingerUp
      BY <3>6 DEF FingerUp, SetPress
    <3>3. CASE KeyDown
      BY <3>3 DEF KeyDown, SetPress
    <3>4. CASE KeyUp
      BY <3>4 DEF KeyUp, SetPress
    <3>5. CASE Blur
      BY <3>5 DEF Blur, SetPress
    <3> QED
      BY <2>1, <3>1, <3>2, <3>3, <3>4, <3>5, <3>6 DEF Buttons
  <2>2. CASE Leave
    BY <2>2 DEF Leave
  <2>3. CASE UNCHANGED buttonVars
    BY <2>3 DEF buttonVars
  <2> QED
    BY <2>1, <2>2, <2>3
       DEF Next, Drop, Produce, Produced, Replaced, Switch, Refused, Granted, vars
<1> QED
  BY <1>1, <1>2, PTL DEF Spec

\* Whatever the order of finger, key, mute, focus and the room, nobody talks by
\* push-to-talk without holding something (index.html:2239-2335).
THEOREM PressNeverLatches == Spec => []NoLatch
<1>1. PressInv => NoLatch
  BY DEF PressInv, NoLatch
<1> QED
  BY <1>1, PressHolds, PTL

--------------------------------------------------------------------------------
LEMMA TrackFacts ==
    /\ None \notin Streams /\ None \notin Tracks
    /\ \A s \in Streams : Raw(s) \in Tracks /\ Gate(s) \in Tracks
    /\ \A s, t \in Streams : Raw(s) # Gate(t) /\ (Raw(s) = Raw(t) => s = t)
    /\ Switches \subseteq Streams
BY MicAssumption DEF Streams, Switches, Tracks, Raw, Gate

IInv == Types /\ CarryInv /\ OpenInv

LEMMA InitInv == Init => IInv
<1> SUFFICES ASSUME Init PROVE IInv
  OBVIOUS
<1>1. 0 \in Streams
  BY MicAssumption DEF Streams
<1>2. outbound \in Tracks /\ outbound # None
  BY <1>1, TrackFacts DEF Init
<1>3. queue \in Seq(Requests) /\ Len(queue) = 0
  BY DEF Init
<1>4. Types
  BY <1>1, <1>2, <1>3 DEF Init, Types
<1>5. CarryInv
  BY <1>2, <1>3 DEF Init, CarryInv
<1>6. OpenInv
  BY <1>1, TrackFacts DEF Init, OpenInv
<1> QED
  BY <1>4, <1>5, <1>6 DEF IInv

\* A step that leaves the switches and the streams alone.
LEMMA FrameInv ==
    ASSUME IInv, link' \in {"on", "producing", "down"}, link # "out",
           UNCHANGED <<switchVars, local, outbound, late>>, open' \subseteq open, CarryInv'
    PROVE  IInv'
BY DEF IInv, Types, OpenInv, switchVars

\* A request of the queue
LEMMA QueueType ==
    ASSUME Types, NEW i \in 1..Len(queue)
    PROVE  /\ queue[i] \in Requests /\ queue[i].switch \in Switches
           /\ pc[queue[i].switch] = "replace"
<1>1. queue[i] \in Requests
  BY DEF Types
<1> QED
  BY <1>1 DEF Requests, Types

\* What a lost connection leaves of the queue.
LEMMA LostQueue ==
    ASSUME Types
    PROVE  /\ Lost \in Seq(Requests) /\ Len(Lost) = Len(queue)
           /\ \A i \in 1..Len(queue) : Lost[i].track = None /\ Lost[i].switch = queue[i].switch
<1> DEFINE r(i) == [queue[i] EXCEPT !.track = None]
<1>1. ASSUME NEW i \in 1..Len(queue)
      PROVE  r(i) \in Requests /\ r(i).track = None /\ r(i).switch = queue[i].switch
  <2>1. queue[i] \in Requests
    BY QueueType
  <2> QED
    BY <2>1 DEF Requests
<1>2. Len(queue) \in Nat /\ Lost = [i \in 1..Len(queue) |-> r(i)]
  BY DEF Lost, Types
<1> HIDE DEF r
<1>3. Lost \in [1..Len(queue) -> Requests]
  BY <1>1, <1>2
<1>4. Lost \in Seq(Requests) /\ Len(Lost) = Len(queue)
  BY <1>2, <1>3
<1> QED
  BY <1>1, <1>2, <1>4

LEMMA ConnectionInv ==
    ASSUME IInv, Drop \/ Produce \/ Produced \/ Leave
    PROVE  IInv'
<1>1. CASE Drop
  <2>1. /\ link' = "down" /\ onAir' = None /\ queue' = Lost /\ open' \subseteq open
        /\ link # "out" /\ UNCHANGED <<local, outbound, pc, old, late>>
    BY <1>1 DEF Drop
  <2>2. Types'
    BY <2>1, LostQueue DEF IInv, Types
  <2>3. CarryInv'
    BY <2>1, LostQueue DEF IInv, CarryInv
  <2>4. OpenInv'
    BY <2>1, LostQueue DEF IInv, OpenInv
  <2> QED
    BY <2>2, <2>3, <2>4 DEF IInv
<1>2. CASE Produce
  <2>1. CarryInv'
    BY <1>2 DEF Produce, IInv, CarryInv, OwnTrack, switchVars
  <2> QED
    BY <1>2, <2>1, FrameInv DEF Produce
<1>3. CASE Produced
  <2>1. CarryInv'
    BY <1>3 DEF Produced, IInv, CarryInv, switchVars
  <2> QED
    BY <1>3, <2>1, FrameInv DEF Produced
<1>4. CASE Leave
  <2>1. /\ link' = "out" /\ onAir' = None /\ queue' = Lost /\ local' = None
        /\ outbound' = None /\ open' \subseteq open \ {Raw(local)} /\ UNCHANGED <<pc, old, late>>
    BY <1>4 DEF Leave
  <2>2. Types'
    BY <2>1, LostQueue DEF IInv, Types
  <2>3. CarryInv'
    BY <2>1, LostQueue DEF IInv, CarryInv
  <2>4. OpenInv'
    BY <2>1, LostQueue DEF IInv, OpenInv
  <2> QED
    BY <2>2, <2>3, <2>4 DEF IInv
<1> QED
  BY <1>1, <1>2, <1>3, <1>4

LEMMA SwitchInv ==
    ASSUME IInv, NEW w \in Switches, NEW t \in {Raw(w), Gate(w)},
           Switch(w) \/ Refused(w) \/ Granted(w, t)
    PROVE  IInv'
<1>1. CASE Switch(w) \/ Refused(w)
  <2>1. /\ pc[w] # "replace" /\ UNCHANGED <<link, trackVars, old, queue, crossed, late>>
        /\ pc' \in [Switches -> {"idle", "asked", "replace", "done"}]
        /\ \A v \in Switches \ {w} : pc'[v] = pc[v]
    <3>1. CASE Switch(w)
      <4>1. pc[w] = "idle"
        <5>1. w \in Nat
          BY MicAssumption DEF Switches
        <5> QED
          BY <3>1, <5>1 DEF Switch
      <4> QED
        BY <3>1, <4>1 DEF Switch, IInv, Types
    <3>2. CASE Refused(w)
      BY <3>2 DEF Refused, IInv, Types
    <3> QED
      BY <1>1, <3>1, <3>2
  <2>2. \A i \in 1..Len(queue) : pc'[queue[i].switch] = "replace"
    BY <2>1, QueueType DEF IInv
  <2>3. Types'
    BY <2>1, <2>2 DEF IInv, Types, trackVars
  <2>4. CarryInv' /\ OpenInv'
    BY <2>1 DEF IInv, CarryInv, OpenInv, trackVars
  <2> QED
    BY <2>3, <2>4 DEF IInv
<1>2. CASE Granted(w, t)
  <2>1. /\ w \in Streams /\ t \in Tracks /\ t # None
        /\ pc[w] = "asked" /\ local' = w /\ outbound' = t
        /\ old' = [old EXCEPT ![w] = local]
        /\ crossed' = (crossed \/ link = "producing") /\ late' = (late \/ link = "out")
        /\ UNCHANGED <<link, onAir, carried>>
    BY <1>2, TrackFacts DEF Granted
  <2>2. \A i \in 1..Len(queue) :
            /\ queue[i] \in Requests /\ queue[i].switch \in Switches
            /\ queue[i].switch # w
            /\ old'[queue[i].switch] = old[queue[i].switch]
    BY <2>1, QueueType DEF IInv, Types
  <2>3. CASE onAir = None
    <3>1. /\ queue' = queue /\ pc' = [pc EXCEPT ![w] = "done"]
          /\ open' \subseteq (open \union {Raw(w), t}) \ StoppedOld(local)
      BY <1>2, <2>3 DEF Granted
    <3>2. Types'
      BY <2>1, <2>2, <3>1 DEF IInv, Types
    <3>3. CarryInv'
      BY <2>1, <2>3, <3>1 DEF IInv, CarryInv
    <3>4. OpenInv'
      <4> SUFFICES ASSUME ~late', NEW s \in Streams, Raw(s) \in open', s # w
                   PROVE  \E i \in 1..Len(queue) : old[queue[i].switch] = s
        BY <2>1, <2>2, <3>1 DEF OpenInv
      <4>1. Raw(s) # Raw(w) /\ Raw(s) # t
        BY <2>1, TrackFacts
      <4>2. Raw(s) \in open /\ Raw(s) \notin StoppedOld(local)
        BY <3>1, <4>1
      <4>3. s # local
        BY <4>2, TrackFacts DEF StoppedOld
      <4> QED
        BY <2>1, <4>2, <4>3 DEF IInv, OpenInv
    <3> QED
      BY <3>2, <3>3, <3>4 DEF IInv
  <2>4. CASE onAir # None
    <3> DEFINE r == [switch |-> w, track |-> t]
    <3>1. /\ queue' = Append(queue, r) /\ pc' = [pc EXCEPT ![w] = "replace"]
          /\ open' \subseteq open \union {Raw(w), t}
      BY <1>2, <2>4 DEF Granted, Sent
    <3>2. r \in Requests /\ r.switch = w /\ r.track = t
      BY <2>1 DEF Requests
    <3> HIDE DEF r
    <3>3. /\ queue' \in Seq(Requests) /\ Len(queue') = Len(queue) + 1
          /\ Len(queue) \in Nat /\ queue'[Len(queue) + 1] = r
          /\ \A i \in 1..Len(queue) : queue'[i] = queue[i]
      BY <3>1, <3>2 DEF IInv, Types
    <3>4. Types'
      BY <2>1, <2>2, <3>1, <3>2, <3>3 DEF IInv, Types
    <3>5. CarryInv'
      BY <2>1, <2>4, <3>1, <3>2, <3>3 DEF IInv, CarryInv
    <3>6. OpenInv'
      <4> SUFFICES ASSUME ~late', NEW s \in Streams, Raw(s) \in open', s # w
                   PROVE  \E i \in 1..Len(queue') : old'[queue'[i].switch] = s
        BY <2>1 DEF OpenInv
      <4>1. Raw(s) # Raw(w) /\ Raw(s) # t
        BY <2>1, TrackFacts
      <4>2. Raw(s) \in open
        BY <3>1, <4>1
      <4>3. CASE local = s
        BY <2>1, <3>2, <3>3, <4>3 DEF IInv, Types
      <4>4. CASE \E i \in 1..Len(queue) : old[queue[i].switch] = s
        BY <2>2, <3>3, <4>4
      <4> QED
        BY <2>1, <4>2, <4>3, <4>4 DEF IInv, OpenInv
    <3> QED
      BY <3>4, <3>5, <3>6 DEF IInv
  <2> QED
    BY <2>3, <2>4
<1> QED
  BY <1>1, <1>2

LEMMA ReplacedInv ==
    ASSUME IInv, Replaced
    PROVE  IInv'
<1> DEFINE w == Head(queue).switch
           t == Head(queue).track
<1>1. /\ queue # <<>> /\ queue' = Tail(queue) /\ Len(queue) \in Nat \ {0}
      /\ queue' \in Seq(Requests) /\ Len(queue') = Len(queue) - 1
      /\ \A i \in 1..Len(queue') : queue'[i] = queue[i + 1]
      /\ t = queue[1].track /\ w = queue[1].switch /\ 1 \in 1..Len(queue)
  BY DEF Replaced, IInv, Types
<1>2. w \in Switches /\ pc[w] = "replace"
  BY <1>1, QueueType DEF IInv
<1>3. /\ pc' = [pc EXCEPT ![w] = "done"] /\ UNCHANGED <<link, local, outbound, carried, old, late>>
      /\ open' \subseteq open \ StoppedOld(old[w])
      /\ IF t = None THEN UNCHANGED <<onAir, crossed>> ELSE onAir' = t
  BY DEF Replaced
<1> HIDE DEF w, t
<1>4. Types'
  <2>1. \A i \in 1..Len(queue') : i + 1 \in 1..Len(queue) /\ queue'[i].switch # w
    BY <1>1 DEF IInv, Types
  <2>2. \A i \in 1..Len(queue') : pc'[queue'[i].switch] = "replace"
    BY <1>1, <1>3, <2>1, QueueType DEF IInv, Types
  <2>3. \A i, j \in 1..Len(queue') : queue'[i].switch = queue'[j].switch => i = j
    BY <1>1, <2>1 DEF IInv, Types
  <2>4. pc' \in [Switches -> {"idle", "asked", "replace", "done"}]
    BY <1>3 DEF IInv, Types
  <2> QED
    BY <1>1, <1>3, <2>2, <2>3, <2>4 DEF IInv, Types
<1>5. CarryInv'
  <2>1. CASE Len(queue) = 1
    <3>1. queue' = <<>> /\ Len(queue') = 0
      BY <1>1, <2>1
    <3>2. t # None => link = "on" /\ t = outbound /\ outbound # None
      BY <1>1, <2>1 DEF IInv, CarryInv
    <3>3. CASE t = None
      <4>1. ~(queue # <<>> /\ queue[Len(queue)].track # None)
        BY <1>1, <2>1, <3>3
      <4> QED
        BY <1>3, <3>1, <3>3, <4>1 DEF IInv, CarryInv
    <3>4. CASE t # None
      BY <1>3, <3>1, <3>2, <3>4 DEF IInv, CarryInv
    <3> QED
      BY <3>3, <3>4
  <2>2. CASE Len(queue) > 1
    <3>1. /\ queue' # <<>> /\ Len(queue') \in 1..Len(queue')
          /\ queue'[Len(queue')] = queue[Len(queue)]
      <4>1. Len(queue') \in 1..Len(queue') /\ Len(queue') + 1 = Len(queue)
        BY <1>1, <2>2
      <4>2. queue' # <<>>
        BY <4>1
      <4> QED
        BY <1>1, <4>1, <4>2
    <3>2. \A i \in 1..Len(queue') : queue'[i].track # None =>
              link = "on" /\ queue'[Len(queue')].track = outbound /\ outbound # None
      BY <1>1, <3>1 DEF IInv, CarryInv
    <3>3. onAir' # None <=> link = "on"
      BY <1>1, <1>3 DEF IInv, CarryInv
    <3>4. t # None => queue[Len(queue)].track = outbound /\ outbound # None
      BY <1>1 DEF IInv, CarryInv
    <3> QED
      BY <1>1, <1>3, <3>1, <3>2, <3>3, <3>4 DEF IInv, CarryInv
  <2> QED
    BY <1>1, <2>1, <2>2
<1>6. OpenInv'
  <2> SUFFICES ASSUME ~late', NEW s \in Streams, Raw(s) \in open', ~(local = s /\ link # "out")
               PROVE  \E i \in 1..Len(queue') : old[queue'[i].switch] = s
    BY <1>3 DEF OpenInv
  <2>1. Raw(s) \in open /\ Raw(s) \notin StoppedOld(old[w])
    BY <1>3
  <2>2. s # old[w]
    BY <2>1, TrackFacts DEF StoppedOld
  <2>3. PICK i \in 1..Len(queue) : old[queue[i].switch] = s
    BY <1>3, <2>1 DEF IInv, OpenInv
  <2>4. i # 1
    BY <1>1, <2>2, <2>3
  <2>5. i - 1 \in 1..Len(queue') /\ queue'[i - 1] = queue[i]
    BY <1>1, <2>4
  <2> QED
    BY <2>3, <2>5
<1> QED
  BY <1>4, <1>5, <1>6 DEF IInv

\* Every step preserves the invariant.
LEMMA NextInv == IInv /\ [Next]_vars => IInv'
<1> SUFFICES ASSUME IInv, [Next]_vars PROVE IInv'
  OBVIOUS
<1>1. CASE \E w \in Switches : Switch(w) \/ Refused(w) \/ Granted(w, Raw(w)) \/ Granted(w, Gate(w))
  BY <1>1, SwitchInv
<1>2. ASSUME UNCHANGED <<link, local, outbound, onAir, carried, open, switchVars, crossed, late>>
      PROVE  IInv'
  BY <1>2 DEF IInv, Types, CarryInv, OpenInv, switchVars
<1>3. CASE Buttons
  BY <1>2, <1>3 DEF Buttons, ToggleMute, FingerDown, FingerUp, KeyDown, KeyUp, Blur, SetPress
<1>4. CASE UNCHANGED vars
  BY <1>2, <1>4 DEF vars, trackVars
<1> QED
  BY <1>1, <1>3, <1>4, ConnectionInv, ReplacedInv DEF Next

LEMMA InvHolds == Spec => []IInv
BY InitInv, NextInv, PTL DEF Spec

LEMMA RangesStep == IInv /\ Ranges /\ [Next]_vars => Ranges'
<1> SUFFICES ASSUME IInv, Ranges, [Next]_vars PROVE Ranges'
  OBVIOUS
<1> USE TrackFacts DEF Ranges
<1>1. OwnTrack \in Tracks \union {None}
  BY DEF OwnTrack, IInv, Types
<1>2. \A t \in Tracks \union {None} : \A talk : Apply(enabled, t, talk) \subseteq Tracks
  BY DEF Apply
<1>3. CASE Drop
  BY <1>3 DEF Drop, buttonVars
<1>4. CASE Produce
  BY <1>1, <1>4 DEF Produce, buttonVars
<1>5. CASE Produced
  BY <1>1, <1>2, <1>5 DEF Produced, buttonVars
<1>6. CASE Leave
  BY <1>6 DEF Leave
<1>7. CASE Replaced
  <2>1. Head(queue).track \in Tracks \union {None}
    <3>1. 1 \in 1..Len(queue) /\ Head(queue) = queue[1]
      BY <1>7 DEF Replaced, IInv, Types
    <3>2. queue[1] \in Requests
      BY <3>1, QueueType DEF IInv
    <3> QED
      BY <3>1, <3>2 DEF Requests
  <2> QED
    BY <1>7, <2>1 DEF Replaced, buttonVars
<1>8. CASE Buttons
  BY <1>1, <1>2, <1>8
     DEF Buttons, ToggleMute, FingerDown, FingerUp, KeyDown, KeyUp, Blur, SetPress, Reachable
<1>9. ASSUME NEW w \in Switches, NEW t \in {Raw(w), Gate(w)},
             Switch(w) \/ Refused(w) \/ Granted(w, t)
      PROVE  Ranges'
  <2>1. CASE Switch(w) \/ Refused(w)
    BY <2>1 DEF Switch, Refused, trackVars, buttonVars
  <2>2. CASE Granted(w, t)
    <3>1. Raw(w) \in Tracks /\ t \in Tracks
      OBVIOUS
    <3>2. enabled' \subseteq Tracks /\ open' \subseteq Tracks
      BY <2>2, <3>1 DEF Granted, Apply
    <3>3. crossed' \in BOOLEAN /\ late' \in BOOLEAN
      BY <2>2 DEF Granted
    <3> QED
      BY <2>2, <3>2, <3>3 DEF Granted, buttonVars
  <2> QED
    BY <1>9, <2>1, <2>2
<1>10. CASE UNCHANGED vars
  BY <1>10 DEF vars, trackVars, buttonVars
<1> QED
  BY <1>3, <1>4, <1>5, <1>6, <1>7, <1>8, <1>9, <1>10 DEF Next

LEMMA InitRanges == Init => Ranges
<1> SUFFICES ASSUME Init PROVE Ranges
  OBVIOUS
<1>1. 0 \in Streams
  BY MicAssumption DEF Streams
<1> QED
  BY <1>1, TrackFacts DEF Init, Ranges

LEMMA RangesHold == Spec => []Ranges
BY InitRanges, RangesStep, InvHolds, PTL DEF Spec

\* The variables of the buttons, the tracks and the switches stay in their ranges; a
\* switch waits for one replaceTrack at most.
THEOREM TypeCorrect == Spec => []TypeOK
<1>1. IInv /\ Ranges => TypeOK
  BY DEF IInv, Types, Ranges, TypeOK
<1> QED
  BY <1>1, InvHolds, RangesHold, PTL

\* At rest the producer carries the current stream's outbound track, but for a switch
\* that took effect while a reconnection was producing (index.html:2489-2516, 2889-2912).
THEOREM CurrentTrackOnAir == Spec => []CarriesOutbound
<1>1. IInv => CarriesOutbound
  BY DEF IInv, CarryInv, CarriesOutbound, OwnTrack
<1> QED
  BY <1>1, InvHolds, PTL

\* At rest the only open microphone is the current one, but for a switch that was
\* granted after leaving (index.html:2489-2516, 3009-3053).
THEOREM NoOpenMicBehind == Spec => []OneMicOpen
<1>1. ASSUME IInv, queue = <<>> PROVE 1..Len(queue) = {}
  BY <1>1
<1>2. IInv => OneMicOpen
  BY <1>1 DEF IInv, OpenInv, OneMicOpen
<1> QED
  BY <1>2, InvHolds, PTL

--------------------------------------------------------------------------------
LEMMA StreamOf ==
    /\ \A s \in Streams : Raw(s)[2] = s /\ Gate(s)[2] = s
    /\ \A t \in Tracks : t[2] \in Streams
BY DEF Raw, Gate, Tracks

LEMMA InitLive == Init => LiveInv
<1> SUFFICES ASSUME Init PROVE LiveInv
  OBVIOUS
<1>1. 0 \in Streams /\ \A w \in Switches : w # 0 /\ w # None
  BY MicAssumption DEF Streams, Switches
<1>2. /\ outbound \in {Raw(0), Gate(0)} /\ onAir = outbound /\ carried = outbound /\ local = 0
      /\ outbound[2] = 0 /\ open = {Raw(0), outbound} /\ enabled = {Raw(0)} \ {outbound}
      /\ \A v \in Switches : old[v] = None
  BY <1>1, StreamOf DEF Init
<1>3. Raw(0) # Gate(0) /\ 1..Len(queue) = {}
  BY <1>1, TrackFacts DEF Init
<1>4. Fresh
  BY <1>1, <1>2 DEF Fresh
<1>5. NotYetOnAir
  BY <1>3 DEF NotYetOnAir
<1>6. local # None /\ outbound \in {Raw(local), Gate(local)}
  BY <1>1, <1>2, TrackFacts
<1>7. OneOutbound
  BY <1>2, <1>3, <1>6 DEF OneOutbound
<1>8. CurrentLives
  BY <1>2, <1>3 DEF CurrentLives
<1> QED
  BY <1>4, <1>5, <1>7, <1>8 DEF LiveInv

\* What the buttons and produce do to the outgoing track leaves the microphone on.
LEMMA SwitchedOutbound ==
    ASSUME IInv, LiveInv, outbound # None, outbound = Gate(local), NEW talk
    PROVE  /\ OwnTrack = outbound
           /\ Raw(local) \in Apply(enabled, OwnTrack, talk)
<1>1. local \in Streams /\ Raw(local) \in enabled
  BY DEF LiveInv, OneOutbound, CurrentLives, IInv, Types
<1>2. Raw(local) # outbound
  BY <1>1, TrackFacts
<1> QED
  BY <1>1, <1>2 DEF OwnTrack, Apply

LEMMA ConnectionLive ==
    ASSUME IInv, Ranges, LiveInv, Drop \/ Produce \/ Produced \/ Leave
    PROVE  LiveInv'
<1>1. CASE Drop
  <2>1. /\ link' = "down" /\ onAir' = None /\ queue' = Lost
        /\ UNCHANGED <<local, outbound, carried, enabled, pc, old>>
        /\ \/ open' = open
           \/ open' = open \ ({onAir} \ {None})
           \/ open' = open \ ({carried} \ {None})
    BY <1>1 DEF Drop, ClosedWith
  <2>2. /\ Len(Lost) = Len(queue) /\ \A i \in 1..Len(queue) : Lost[i].track = None
    BY LostQueue DEF IInv
  <2>3. Fresh' /\ NotYetOnAir' /\ OneOutbound'
    BY <2>1, <2>2 DEF LiveInv, Fresh, NotYetOnAir, OneOutbound
  <2>4. ASSUME outbound # None, outbound = Gate(local) PROVE Raw(local) \in open'
    <3>1. local \in Streams /\ Raw(local) \in open
      BY <2>4 DEF LiveInv, OneOutbound, CurrentLives, IInv, Types
    <3>2. Raw(local)[2] = local /\ Raw(local) # outbound
      BY <2>4, <3>1, StreamOf, TrackFacts
    <3>3. ~(onAir # None /\ Raw(local) = onAir) /\ ~(carried # None /\ Raw(local) = carried)
      BY <3>2 DEF LiveInv, OneOutbound
    <3> QED
      BY <2>1, <3>1, <3>3
  <2>5. CurrentLives'
    BY <2>1, <2>4 DEF LiveInv, CurrentLives
  <2> QED
    BY <2>3, <2>5 DEF LiveInv
<1>2. CASE Produce
  <2>1. /\ link = "down" /\ link' = "producing" /\ OwnTrack \in open /\ carried' = OwnTrack
        /\ UNCHANGED <<local, outbound, onAir, open, enabled, pc, old, queue>>
    BY <1>2 DEF Produce, switchVars
  <2>2. outbound # None /\ OwnTrack = outbound /\ local \in Streams /\ outbound[2] = local
    BY <2>1, StreamOf DEF OwnTrack, IInv, Types, CarryInv, LiveInv, OneOutbound
  <2> QED
    BY <2>1, <2>2 DEF LiveInv, Fresh, NotYetOnAir, OneOutbound, CurrentLives
<1>3. CASE Produced
  <2>1. /\ link = "producing" /\ link' = "on" /\ onAir' = carried
        /\ enabled' = Apply(enabled, OwnTrack, Talking(micMuted, pushToTalkActive))
        /\ UNCHANGED <<local, outbound, carried, open, pc, old, queue>>
    BY <1>3 DEF Produced, switchVars
  <2>2. \A i \in 1..Len(queue) : queue[i].track = None
    BY <2>1 DEF IInv, CarryInv
  <2>3. Fresh' /\ NotYetOnAir' /\ OneOutbound'
    BY <2>1, <2>2 DEF LiveInv, Fresh, NotYetOnAir, OneOutbound
  <2>4. CurrentLives'
    BY <2>1, SwitchedOutbound DEF LiveInv, CurrentLives
  <2> QED
    BY <2>3, <2>4 DEF LiveInv
<1>4. CASE Leave
  <2>1. /\ link' = "out" /\ onAir' = None /\ queue' = Lost /\ local' = None
        /\ outbound' = None /\ UNCHANGED <<carried, pc, old>>
    BY <1>4 DEF Leave
  <2>2. /\ Len(Lost) = Len(queue) /\ \A i \in 1..Len(queue) : Lost[i].track = None
    BY LostQueue DEF IInv
  <2>3. carried # None => carried[2] # None
    BY StreamOf, TrackFacts DEF Ranges
  <2>4. \A w \in Switches : w # None
    BY TrackFacts
  <2>5. Fresh' /\ NotYetOnAir'
    BY <2>1, <2>2, <2>4 DEF LiveInv, Fresh, NotYetOnAir
  <2>6. OneOutbound' /\ CurrentLives'
    BY <2>1, <2>2, <2>3 DEF OneOutbound, CurrentLives
  <2> QED
    BY <2>5, <2>6 DEF LiveInv
<1> QED
  BY <1>1, <1>2, <1>3, <1>4

LEMMA GrantedLive ==
    ASSUME IInv, Ranges, LiveInv, NEW w \in Switches, NEW t \in {Raw(w), Gate(w)}, Granted(w, t)
    PROVE  LiveInv'
<1>1. /\ pc[w] = "asked" /\ local' = w /\ outbound' = t /\ old' = [old EXCEPT ![w] = local]
      /\ enabled' = Apply(enabled \union {Raw(w), t}, t, Talking(micMuted, pushToTalkActive))
      /\ UNCHANGED <<link, onAir, carried>>
  BY DEF Granted
<1>2. /\ w \in Streams /\ w # None /\ t # None /\ t[2] = w /\ Raw(w)[2] = w
      /\ t = Gate(w) => t # Raw(w)
  BY TrackFacts, StreamOf
<1>3. /\ local # w /\ (onAir # None => onAir[2] # w) /\ (carried # None => carried[2] # w)
      /\ \A v \in Switches : old[v] # w
  BY <1>1 DEF LiveInv, Fresh
<1>4. \A v \in Switches : old'[v] = IF v = w THEN local ELSE old[v]
  BY <1>1 DEF IInv, Types
<1>5. \A v \in Switches : pc'[v] \in {"idle", "asked"} => v # w /\ pc[v] \in {"idle", "asked"}
  <2>1. \E p \in {"done", "replace"} : pc' = [pc EXCEPT ![w] = p]
    BY DEF Granted
  <2> QED
    BY <2>1 DEF IInv, Types
<1>6. Fresh'
  BY <1>1, <1>4, <1>5 DEF LiveInv, Fresh
<1>7. \A s \in Streams : Gate(s) # Raw(w) /\ (Gate(s) = t => s = w)
  BY <1>2, StreamOf, TrackFacts
<1>8. Raw(w) \in open' /\ t \in open'
  <2>1. Raw(w) \notin StoppedOld(local) /\ t \notin StoppedOld(local)
    <3>1. CASE local = None
      BY <3>1 DEF StoppedOld
    <3>2. CASE local # None
      <4>1. local \in Streams /\ Raw(local)[2] = local
        BY <3>2, StreamOf DEF IInv, Types
      <4> QED
        BY <1>2, <1>3, <3>2, <4>1 DEF StoppedOld
    <3> QED
      BY <3>1, <3>2
  <2> QED
    BY <2>1 DEF Granted
<1>9. t = Gate(w) => Raw(w) \in enabled'
  BY <1>1, <1>2 DEF Apply
<1>10. CurrentLives'
  BY <1>1, <1>3, <1>4, <1>8, <1>9 DEF CurrentLives
<1>11. \A i \in 1..Len(queue) : queue[i].switch # w
  <2> SUFFICES ASSUME NEW i \in 1..Len(queue) PROVE pc[queue[i].switch] # pc[w]
    OBVIOUS
  <2> QED
    BY <1>1, QueueType DEF IInv
<1>12. \A i \in 1..Len(queue) : queue[i].track # None => queue[i].track[2] # w
  BY <1>11 DEF LiveInv, NotYetOnAir
<1>13. CASE onAir = None
  <2>1. queue' = queue
    BY <1>13 DEF Granted
  <2>2. NotYetOnAir'
    BY <1>1, <2>1 DEF LiveInv, NotYetOnAir
  <2>3. OneOutbound'
    BY <1>1, <1>2, <1>3, <1>12, <2>1 DEF OneOutbound
  <2> QED
    BY <1>6, <1>10, <2>2, <2>3 DEF LiveInv
<1>14. CASE onAir # None
  <2> DEFINE r == [switch |-> w, track |-> t]
  <2>1. queue' = Append(queue, r) /\ r.switch = w /\ r.track = t /\ r \in Requests
    BY <1>2, <1>14, TrackFacts DEF Granted, Sent, Requests
  <2> HIDE DEF r
  <2>2. /\ Len(queue') = Len(queue) + 1 /\ Len(queue) \in Nat /\ queue'[Len(queue) + 1] = r
        /\ \A i \in 1..Len(queue) : queue'[i] = queue[i]
    BY <2>1 DEF IInv, Types
  <2>3. \A i \in 1..Len(queue') : i \in 1..Len(queue) \/ queue'[i] = r
    BY <2>2
  <2>4. NotYetOnAir'
    BY <1>1, <1>2, <1>3, <2>1, <2>2, <2>3 DEF LiveInv, NotYetOnAir
  <2>5. OneOutbound'
    BY <1>1, <1>2, <1>3, <1>12, <2>1, <2>2, <2>3 DEF OneOutbound
  <2> QED
    BY <1>6, <1>10, <2>4, <2>5 DEF LiveInv
<1> QED
  BY <1>13, <1>14

LEMMA ReplacedLive ==
    ASSUME IInv, Ranges, LiveInv, Replaced
    PROVE  LiveInv'
<1> DEFINE w == Head(queue).switch
           t == Head(queue).track
<1>1. /\ queue' = Tail(queue) /\ Len(queue) \in Nat \ {0} /\ Len(queue') = Len(queue) - 1
      /\ \A i \in 1..Len(queue') : queue'[i] = queue[i + 1] /\ i + 1 \in 1..Len(queue) /\ i + 1 # 1
      /\ t = queue[1].track /\ w = queue[1].switch /\ 1 \in 1..Len(queue)
  BY DEF Replaced, IInv, Types
<1>2. w \in Switches /\ pc[w] = "replace"
  BY <1>1, QueueType DEF IInv
<1>3. /\ pc' = [pc EXCEPT ![w] = "done"] /\ UNCHANGED <<link, local, outbound, carried, old>>
      /\ t = None => open' = open \ StoppedOld(old[w]) /\ UNCHANGED <<onAir, enabled>>
      /\ t # None =>
             /\ onAir' = t /\ enabled \ {t} \subseteq enabled'
             /\ \/ open' = open \ StoppedOld(old[w])
                \/ open' = open \ (({onAir} \ {None}) \union StoppedOld(old[w]))
  BY DEF Replaced, ClosedWith
<1> HIDE DEF w, t
<1>4. t # None =>
          /\ t[2] = w /\ link = "on" /\ onAir # None /\ onAir[2] # w
          /\ queue[Len(queue)].track = outbound /\ outbound # None
  BY <1>1 DEF LiveInv, NotYetOnAir, IInv, CarryInv
<1>5. \A i \in 1..Len(queue') : queue'[i].switch # w
  BY <1>1 DEF IInv, Types
<1>6. \A v \in Switches : pc'[v] \in {"idle", "asked"} => pc[v] \in {"idle", "asked"} /\ v # w
  BY <1>2, <1>3 DEF IInv, Types
<1>7. Fresh'
  BY <1>3, <1>4, <1>6 DEF LiveInv, Fresh
<1>8. NotYetOnAir'
  BY <1>1, <1>3, <1>4, <1>5 DEF LiveInv, NotYetOnAir
<1>9. t # None /\ t[2] = local => t = outbound
  BY <1>1 DEF LiveInv, OneOutbound
<1>10. OneOutbound'
  BY <1>1, <1>3, <1>9 DEF LiveInv, OneOutbound
\* The call that is last brings the outgoing track; the one on the air is another stream's.
<1>11. t # None => onAir[2] # local
  <2> SUFFICES ASSUME t # None PROVE onAir[2] # local
    OBVIOUS
  <2>1. Len(queue) \in 1..Len(queue)
    BY <1>1
  <2>2. /\ queue[Len(queue)].track = outbound /\ outbound # None /\ onAir # None
        /\ outbound[2] = queue[Len(queue)].switch /\ onAir[2] # queue[Len(queue)].switch
    BY <1>4, <2>1 DEF LiveInv, NotYetOnAir
  <2>3. local \in Streams /\ outbound[2] = local
    BY <2>2, StreamOf DEF LiveInv, OneOutbound, IInv, Types
  <2> QED
    BY <2>2, <2>3
<1>12. ASSUME local # None, NEW x, x \in open, x[2] = local PROVE x \in open'
  <2>1. x \notin StoppedOld(old[w])
    <3>1. CASE old[w] = None
      BY <3>1 DEF StoppedOld
    <3>2. CASE old[w] # None
      <4>1. old[w] # local /\ old[w] \in Streams /\ Raw(old[w])[2] = old[w]
        BY <1>2, <3>2, StreamOf DEF LiveInv, CurrentLives, IInv, Types
      <4> QED
        BY <1>12, <3>2, <4>1 DEF StoppedOld
    <3> QED
      BY <3>1, <3>2
  <2>2. t # None => x # onAir
    BY <1>11, <1>12
  <2> QED
    BY <1>3, <1>12, <2>1, <2>2
<1>13. ASSUME outbound # None
       PROVE  /\ outbound = Gate(local) => Raw(local) \in open' \intersect enabled'
              /\ link \in {"on", "producing"} => outbound \in open'
  <2>1. local # None /\ local \in Streams /\ outbound[2] = local /\ Raw(local)[2] = local
    BY <1>13, StreamOf DEF LiveInv, OneOutbound, IInv, Types
  <2>2. link \in {"on", "producing"} => outbound \in open'
    BY <1>12, <2>1 DEF LiveInv, CurrentLives
  <2>3. ASSUME outbound = Gate(local) PROVE Raw(local) \in open' \intersect enabled'
    <3>1. Raw(local) \in open /\ Raw(local) \in enabled
      BY <1>13, <2>3 DEF LiveInv, CurrentLives
    <3>2. Raw(local) # outbound
      BY <2>1, <2>3, TrackFacts
    <3>3. t # None => t # Raw(local)
      BY <1>9, <2>1, <3>2
    <3> QED
      BY <1>3, <1>12, <2>1, <3>1, <3>3
  <2> QED
    BY <2>2, <2>3
<1>14. link \in {"on", "producing"} => outbound # None
  BY DEF IInv, CarryInv
<1>15. CurrentLives'
  BY <1>3, <1>13, <1>14 DEF LiveInv, CurrentLives
<1> QED
  BY <1>7, <1>8, <1>10, <1>15 DEF LiveInv

\* The current stream stays alive and its track is the only one of it that is sent.
LEMMA LiveStep == IInv /\ Ranges /\ LiveInv /\ [Next]_vars => LiveInv'
<1> SUFFICES ASSUME IInv, Ranges, LiveInv, [Next]_vars PROVE LiveInv'
  OBVIOUS
<1>1. ASSUME UNCHANGED <<link, local, outbound, onAir, carried, open, old, queue>>,
             \A v \in Switches : pc'[v] \in {"idle", "asked"} => pc[v] \in {"idle", "asked"},
             \/ enabled' = enabled
             \/ \E talk : enabled' = Apply(enabled, OwnTrack, talk)
      PROVE  LiveInv'
  <2>1. Fresh' /\ NotYetOnAir' /\ OneOutbound'
    BY <1>1 DEF LiveInv, Fresh, NotYetOnAir, OneOutbound
  <2>2. CurrentLives'
    BY <1>1, SwitchedOutbound DEF LiveInv, CurrentLives
  <2> QED
    BY <2>1, <2>2 DEF LiveInv
<1>2. CASE Buttons
  BY <1>1, <1>2
     DEF Buttons, ToggleMute, FingerDown, FingerUp, KeyDown, KeyUp, Blur, SetPress, switchVars
<1>3. ASSUME NEW w \in Switches, Switch(w) \/ Refused(w) PROVE LiveInv'
  <2>1. /\ UNCHANGED <<trackVars, link, old, queue>>
        /\ pc[w] \in {"idle", "asked"}
        /\ \A v \in Switches \ {w} : pc'[v] = pc[v]
    <3>1. CASE Switch(w)
      <4>1. pc[w] = "idle"
        <5>1. w \in Nat
          BY MicAssumption DEF Switches
        <5> QED
          BY <3>1, <5>1 DEF Switch
      <4> QED
        BY <3>1, <4>1 DEF Switch, IInv, Types
    <3>2. CASE Refused(w)
      BY <3>2 DEF Refused, IInv, Types
    <3> QED
      BY <1>3, <3>1, <3>2
  <2> QED
    BY <1>1, <2>1 DEF trackVars
<1>4. CASE UNCHANGED vars
  BY <1>1, <1>4 DEF vars, trackVars, switchVars
<1>5. ASSUME NEW w \in Switches, Granted(w, Raw(w)) \/ Granted(w, Gate(w)) PROVE LiveInv'
  BY <1>5, GrantedLive
<1> QED
  BY <1>2, <1>3, <1>4, <1>5, ConnectionLive, ReplacedLive DEF Next

LEMMA LiveHolds == Spec => []LiveInv
BY InitLive, LiveStep, InvHolds, RangesHold, PTL DEF Spec

\* At rest a press of mute makes the room hear exactly what the button says
\* (index.html:2209-2217), whatever switches and connections did before.
THEOREM PressIsHeard == Spec => PressTells
<1>1. ASSUME IInv, LiveInv, ToggleMute, link = "on", queue = <<>>, ~crossed
      PROVE  Heard' <=> Talking(micMuted', pushToTalkActive')
  <2>1. onAir # None /\ onAir = outbound /\ OwnTrack = outbound
    BY <1>1 DEF IInv, CarryInv, OwnTrack
  <2>2. local \in Streams /\ outbound \in {Raw(local), Gate(local)} /\ outbound[2] = local
    BY <2>1, <1>1, StreamOf DEF LiveInv, OneOutbound, IInv, Types
  <2>3. outbound \in open /\ Raw(local) \in open
    BY <1>1, <2>1, <2>2 DEF LiveInv, CurrentLives
  <2>4. UNCHANGED <<onAir, open>>
    BY <1>1 DEF ToggleMute
  <2>5. Heard' <=> outbound \in enabled' /\ Raw(local) \in enabled'
    BY <2>1, <2>2, <2>3, <2>4 DEF Heard
  <2>6. enabled' = IF Talking(micMuted', pushToTalkActive') THEN enabled \union {outbound}
                   ELSE enabled \ {outbound}
    BY <1>1, <2>1 DEF ToggleMute, Apply
  <2>7. Raw(local) = outbound \/ Raw(local) \in enabled
    BY <1>1, <2>1, <2>2 DEF LiveInv, CurrentLives
  <2> QED
    BY <2>5, <2>6, <2>7
<1>2. IInv /\ LiveInv =>
          [ToggleMute /\ link = "on" /\ queue = <<>> /\ ~crossed =>
               (Heard' <=> Talking(micMuted', pushToTalkActive'))]_vars
  BY <1>1
<1> QED
  BY <1>2, InvHolds, LiveHolds, PTL DEF PressTells
================================================================================
