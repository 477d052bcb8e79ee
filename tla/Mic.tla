----------------------------------- MODULE Mic -----------------------------------
(***************************************************************************)
(* The microphone of a page that is in a room: mute, push-to-talk by       *)
(* finger and by headset key, and switching the input device, around lost  *)
(* connections and leaving (src/public/index.html).  How the page gets its *)
(* first microphone and its media is in ClientSession.                     *)
(*                                                                         *)
(* A switch is one call of switchInputDevice; it waits for getUserMedia    *)
(* and then for replaceTrack.  The worklet it waits for in between was     *)
(* loaded when the page joined, so nothing can happen in that wait.  A     *)
(* track is named by its kind and its stream: stream 0 is the first, w     *)
(* that of switch w.  What mediasoup-client does to tracks it no longer    *)
(* sends, or to `enabled` of those it starts to send, is left open.        *)
(***************************************************************************)
EXTENDS Naturals, Sequences

CONSTANTS MaxSwitches, \* bound: switches of the input device
          None

ASSUME MicAssumption ==
    MaxSwitches \in Nat /\ None \notin Nat /\ None \notin {"raw", "gate"} \X Nat

Switches == 1..MaxSwitches
Streams == 0..MaxSwitches
Raw(s) == <<"raw", s>>
Gate(s) == <<"gate", s>>
Tracks == {"raw", "gate"} \X Streams

VARIABLES
    link,      \* "on": in activeProducers; "producing": in sendTransport.produce;
               \* "down": reconnecting; "out" of the room
    local,     \* localStream
    outbound,  \* the track of outboundStream
    onAir,     \* the track of the producer in activeProducers
    carried,   \* the track given to produce
    open,      \* tracks that exist and were not stopped
    enabled,   \* tracks with enabled = true
    pc,        \* where each switch is
    old,       \* oldStream of each switch
    queue,     \* the switches that wait for replaceTrack, with their track
    micMuted, pushToTalkActive, headsetPressActive,
    finger,    \* a finger is on the push-to-talk button
    key,       \* the headset key is down
    crossed,   \* history: a switch took effect during produce
    late       \* history: a switch got its stream out of the room

trackVars == <<local, outbound, onAir, carried, open, enabled>>
switchVars == <<pc, old, queue>>
buttonVars == <<micMuted, pushToTalkActive, headsetPressActive, finger, key>>
vars == <<link, trackVars, switchVars, buttonVars, crossed, late>>

--------------------------------------------------------------------------------
Talking(muted, ptt) == ~muted \/ ptt

\* (outboundStream || localStream), the stream that mute acts on
OwnTrack == IF outbound # None THEN outbound ELSE IF local # None THEN Raw(local) ELSE None

\* applyLocalTrackState
Apply(en, t, talk) == IF t = None THEN en ELSE IF talk THEN en \union {t} ELSE en \ {t}

\* A gated outbound track ends with stopMicChain.
StoppedGate == {outbound} \cap {Gate(s) : s \in Streams}

\* What mediasoup-client may do to a track that it no longer sends
ClosedWith(t) == {{}, {t} \ {None}}

Init ==
    /\ link = "on"
    /\ local = 0
    /\ outbound \in {Raw(0), Gate(0)}
    /\ onAir = outbound /\ carried = outbound
    /\ open = {Raw(0), outbound} /\ enabled = {Raw(0)} \ {outbound}
    /\ pc = [w \in Switches |-> "idle"]
    /\ old = [w \in Switches |-> None]
    /\ queue = <<>>
    /\ micMuted = TRUE /\ pushToTalkActive = FALSE /\ headsetPressActive = FALSE
    /\ finger = FALSE /\ key = FALSE
    /\ crossed = FALSE /\ late = FALSE

--------------------------------------------------------------------------------
\* The producers are closed: the replaceTrack calls on them reject.
Lost == [i \in 1..Len(queue) |-> [queue[i] EXCEPT !.track = None]]

\* enterReconnecting keeps the microphone.
Drop ==
    /\ link \in {"on", "producing"}
    /\ link' = "down"
    /\ onAir' = None
    /\ \E t \in ClosedWith(IF link = "on" THEN onAir ELSE carried) : open' = open \ t
    /\ queue' = Lost
    /\ crossed' = FALSE
    /\ UNCHANGED <<local, outbound, carried, enabled, pc, old, buttonVars, late>>

\* establishMedia of the next connection comes to produce, which wants a live track.
Produce ==
    /\ link = "down" /\ OwnTrack \in open
    /\ link' = "producing"
    /\ carried' = OwnTrack
    /\ UNCHANGED <<local, outbound, onAir, open, enabled, switchVars, buttonVars, crossed, late>>

Produced ==
    /\ link = "producing"
    /\ link' = "on"
    /\ onAir' = carried
    /\ enabled' = Apply(enabled, OwnTrack, Talking(micMuted, pushToTalkActive))
    /\ UNCHANGED <<local, outbound, carried, open, switchVars, buttonVars, crossed, late>>

\* leaveRoom, for whatever reason
Leave ==
    /\ link # "out"
    /\ link' = "out"
    /\ onAir' = None
    /\ \E t \in ClosedWith(onAir) : open' = open \ (t \union StoppedGate \union {Raw(local)})
    /\ local' = None /\ outbound' = None
    /\ queue' = Lost
    /\ micMuted' = TRUE
    /\ pushToTalkActive' = FALSE /\ headsetPressActive' = FALSE
    /\ crossed' = FALSE
    /\ UNCHANGED <<carried, enabled, pc, old, finger, key, late>>

--------------------------------------------------------------------------------
\* The user picks a device; the list is there in a room, also while reconnecting.
Switch(w) ==
    /\ link # "out"
    /\ \A v \in Switches : pc[v] = "idle" <=> w <= v
    /\ pc' = [pc EXCEPT ![w] = "asked"]
    /\ UNCHANGED <<link, trackVars, old, queue, buttonVars, crossed, late>>

Refused(w) ==
    /\ pc[w] = "asked"
    /\ pc' = [pc EXCEPT ![w] = "done"]
    /\ UNCHANGED <<link, trackVars, old, queue, buttonVars, crossed, late>>

\* The last step of a switch stops the stream it replaced; the mutant stops the one
\* that was there first.
StoppedFirst(s) == {Raw(0)}
StoppedOld(s) == IF s = None THEN {} ELSE {Raw(s)}

\* getUserMedia resolves: the new stream takes over, with a chain of its own that may
\* have no gate, and its track is on its way to the producer, if there is one.  The
\* mutant sends the raw one.
SentRaw(w, t) == Raw(w)
Sent(w, t) == t

Granted(w, t) ==
    /\ pc[w] = "asked"
    /\ local' = w
    /\ outbound' = t
    /\ enabled' = Apply(enabled \union {Raw(w), t}, t, Talking(micMuted, pushToTalkActive))
    /\ old' = [old EXCEPT ![w] = local]
    /\ IF onAir = None
       THEN /\ pc' = [pc EXCEPT ![w] = "done"]
            /\ open' = ((open \ StoppedGate) \union {Raw(w), t}) \ StoppedOld(local)
            /\ UNCHANGED queue
       ELSE /\ pc' = [pc EXCEPT ![w] = "replace"]
            /\ open' = (open \ StoppedGate) \union {Raw(w), t}
            /\ queue' = Append(queue, [switch |-> w, track |-> Sent(w, t)])
    /\ crossed' = (crossed \/ link = "producing")
    /\ late' = (late \/ link = "out")
    /\ UNCHANGED <<link, onAir, carried, buttonVars>>

\* replaceTrack settles; these calls settle in their order.
Replaced ==
    /\ queue # <<>>
    /\ queue' = Tail(queue)
    /\ LET w == Head(queue).switch
           t == Head(queue).track
       IN  /\ pc' = [pc EXCEPT ![w] = "done"]
           /\ IF t = None
              THEN /\ open' = open \ StoppedOld(old[w])
                   /\ UNCHANGED <<onAir, enabled, crossed>>
              ELSE /\ onAir' = t
                   /\ crossed' = FALSE
                   /\ \E ended \in ClosedWith(onAir) : open' = open \ (ended \union StoppedOld(old[w]))
                   /\ enabled' \in {enabled, enabled \union {t}, enabled \ {t}}
    /\ UNCHANGED <<link, local, outbound, carried, old, buttonVars, late>>

--------------------------------------------------------------------------------
\* startPushToTalk and stopPushToTalk act on a change only.
SetPress(ptt) ==
    /\ pushToTalkActive' = ptt
    /\ enabled' = IF ptt = pushToTalkActive THEN enabled
                  ELSE Apply(enabled, OwnTrack, Talking(micMuted, ptt))
    /\ UNCHANGED <<link, local, outbound, onAir, carried, open, switchVars, micMuted, crossed, late>>

\* Unmuting ends a press.  The mutant only turns the button.
ToggleUnheard ==
    /\ link # "out" /\ local # None
    /\ micMuted' = ~micMuted
    /\ pushToTalkActive' = (pushToTalkActive /\ ~micMuted)
    /\ UNCHANGED <<link, trackVars, switchVars, crossed, late, headsetPressActive, finger, key>>
ToggleMute ==
    /\ link # "out" /\ local # None
    /\ micMuted' = ~micMuted
    /\ pushToTalkActive' = (pushToTalkActive /\ ~micMuted)
    /\ enabled' = Apply(enabled, OwnTrack, Talking(micMuted', pushToTalkActive'))
    /\ UNCHANGED <<link, local, outbound, onAir, carried, open, switchVars, crossed, late,
                   headsetPressActive, finger, key>>

\* The push-to-talk button is enabled.
Reachable == local # None /\ micMuted

FingerDown ==
    /\ ~finger
    /\ finger' = TRUE
    /\ SetPress(pushToTalkActive \/ Reachable)
    /\ UNCHANGED <<headsetPressActive, key>>

FingerUp ==
    /\ finger
    /\ finger' = FALSE
    /\ SetPress(FALSE)
    /\ UNCHANGED <<headsetPressActive, key>>

KeyDown ==
    /\ ~key
    /\ key' = TRUE
    /\ headsetPressActive' = (headsetPressActive \/ Reachable)
    /\ SetPress(pushToTalkActive \/ Reachable)
    /\ UNCHANGED finger

KeyUp ==
    /\ key
    /\ key' = FALSE
    /\ headsetPressActive' = FALSE
    /\ SetPress(pushToTalkActive /\ ~headsetPressActive)
    /\ UNCHANGED finger

\* The window loses the focus, and perhaps the releases with it.  The mutant ends
\* presses of the key only.
BlurOfKey ==
    /\ finger' \in {finger, FALSE} /\ key' \in {key, FALSE}
    /\ headsetPressActive' = FALSE
    /\ SetPress(pushToTalkActive /\ ~headsetPressActive)
Blur ==
    /\ finger' \in {finger, FALSE} /\ key' \in {key, FALSE}
    /\ headsetPressActive' = FALSE
    /\ SetPress(FALSE)

--------------------------------------------------------------------------------
Buttons == ToggleMute \/ FingerDown \/ FingerUp \/ KeyDown \/ KeyUp \/ Blur

Next ==
    \/ Drop \/ Produce \/ Produced \/ Leave \/ Replaced
    \/ Buttons
    \/ \E w \in Switches : Switch(w) \/ Refused(w) \/ Granted(w, Raw(w)) \/ Granted(w, Gate(w))

Spec == Init /\ [][Next]_vars

--------------------------------------------------------------------------------
\* A replaceTrack that was called and has not settled; None: its producer is closed
Requests == [switch : Switches, track : Tracks \union {None}]

TypeOK ==
    /\ link \in {"on", "producing", "down", "out"}
    /\ local \in Streams \union {None}
    /\ {outbound, onAir, carried} \subseteq Tracks \union {None}
    /\ open \subseteq Tracks
    /\ enabled \subseteq Tracks
    /\ pc \in [Switches -> {"idle", "asked", "replace", "done"}]
    /\ old \in [Switches -> Streams \union {None}]
    /\ queue \in Seq(Requests)
    /\ \A i \in 1..Len(queue) :
           /\ pc[queue[i].switch] = "replace"
           /\ \A j \in 1..Len(queue) : queue[i].switch = queue[j].switch => i = j
    /\ {micMuted, pushToTalkActive, headsetPressActive, finger, key, crossed, late} \subseteq BOOLEAN

\* "Momentary, with no latch" (index.html:2289-2291): whatever the order in which
\* finger, key, mute, focus and the room come and go, nobody talks by push-to-talk
\* without holding something.
NoLatch == pushToTalkActive => finger \/ key

\* "that, not the raw one, is what the producers must carry" (index.html:2500-2501):
\* at rest the room gets the current stream.  A switch that takes effect while produce
\* is under way is lost: the producer is not in activeProducers yet.
CarriesOutbound == link = "on" /\ queue = <<>> /\ ~crossed => onAir = OwnTrack

\* At rest no microphone but the current one is open, and none out of the room, unless
\* a switch got its stream after the page had left.
OneMicOpen ==
    queue = <<>> /\ ~late => \A s \in Streams : Raw(s) \in open => local = s /\ link # "out"

\* The room hears what the producer carries.
Heard == {onAir, Raw(onAir[2])} \subseteq open \intersect enabled

\* "red for the room cannot hear you, green for it can" (index.html:2223-2224): a press
\* of mute always brings this about, whatever switches and connections did before.
PressTells ==
    [][ToggleMute /\ link = "on" /\ queue = <<>> /\ ~crossed =>
           (Heard' <=> Talking(micMuted', pushToTalkActive'))]_vars
================================================================================
