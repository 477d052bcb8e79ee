----------------------------- MODULE ClientSession -----------------------------
(***************************************************************************)
(* One browser page of src/public/index.html: joining and leaving a room,  *)
(* losing and regaining the connection, and setting up its media.          *)
(*                                                                         *)
(* A setup is one call of establishMedia, made by each "connect" event;    *)
(* its generation is current until a teardown, so that stale() of setup s  *)
(* is current # s (leaveRoom tears down as well).  Every await is a value  *)
(* of pc.  An acknowledgement that is under way when the connection breaks *)
(* never comes.  A track is named by its kind and the setup whose          *)
(* microphone it carries: the raw one and the gated one made from it.      *)
(***************************************************************************)
EXTENDS Naturals, FiniteSets

CONSTANTS MaxSetups,   \* bound: connections the page gets
          None

ASSUME ClientSessionAssumption ==
    MaxSetups \in Nat /\ None \notin Nat /\ None \notin {"raw", "gate"} \X Nat

Setups == 1..MaxSetups

Raw(s) == <<"raw", s>>
Gate(s) == <<"gate", s>>
Tracks == {"raw", "gate"} \X Setups

VARIABLES
    inRoom,      \* socket and currentRoom are set
    current,     \* the setup whose generation is mediaGeneration, if connected
    pc,          \* where each setup is
    asked,       \* the connection on which each setup made its last request
    guard,       \* the 30 s watchdog of each setup
    prompt,      \* the getUserMedia call of each setup
    mic,         \* localStream: the setup that asked for it
    chain,       \* the setup whose startMicChain has the latest sequence
    outbound,    \* the track of outboundStream
    carried,     \* the track each setup produces
    open,        \* tracks that exist and were not stopped
    enabled,     \* tracks with enabled = true
    sendT,       \* sendTransport: the setup that created it
    recvT,       \* recvTransport
    onAir,       \* the track of the producer in activeProducers
    micMuted, pushToTalkActive,
    controls,    \* enableMicControls
    ejected,     \* history: the setup that put the user out, and `current` then
    abandonedAt  \* history: where each setup was when the page gave it up

flowVars == <<inRoom, current, ejected, abandonedAt>>
micVars == <<mic, chain, outbound, open, enabled>>
buttonVars == <<micMuted, pushToTalkActive, controls>>
mediaVars == <<sendT, recvT, onAir>>
vars == <<flowVars, pc, asked, guard, prompt, carried, micVars, buttonVars, mediaVars>>

--------------------------------------------------------------------------------
Settled == {"idle", "done", "dropped", "failed"}

\* The setup s must give up at its next check.
Stale(s) == current # s

\* The answer to the last request of s can still come.
Answered(s) == asked[s] # None /\ asked[s] = current

\* talking(), from the values of micMuted and pushToTalkActive
Talking(muted, ptt) == ~muted \/ ptt

\* (outboundStream || localStream), the stream that mute acts on and setups produce
OwnTrack(out, m) == IF out # None THEN out ELSE IF m # None THEN Raw(m) ELSE None

\* applyLocalTrackState()
Apply(en, t, talk) ==
    IF t = None THEN en ELSE IF talk THEN en \union {t} ELSE en \ {t}

\* A gated outbound track ends with stopMicChain().
StoppedGate == {outbound} \cap {Gate(s) : s \in Setups}

\* producer.close() may stop the track that the producer carries.
ClosedWith(t) == {{}, {t} \ {None}}

\* establishMedia of s returns or rejects: withTimeout clears the timer.
GuardCleared(s) == [guard EXCEPT ![s] = IF @ = "armed" THEN "cleared" ELSE @]

\* History: the current setup is given up where it is, unless it had settled.
Abandons ==
    abandonedAt' = [s \in Setups |->
        IF s = current /\ pc[s] \notin Settled THEN pc[s] ELSE abandonedAt[s]]

\* teardownMedia({keepMic: false}): stop the chain and the microphone; the mutant
\* keeps them.
MicKept ==
    /\ \E t \in ClosedWith(onAir) : open' = open \ t
    /\ UNCHANGED <<mic, chain, outbound>>
MicReleased ==
    /\ \E t \in ClosedWith(onAir) :
           open' = open \ (t \union StoppedGate \union {Raw(s) : s \in {mic} \ {None}})
    /\ mic' = None
    /\ chain' = None
    /\ outbound' = None

DropMedia == current' = None /\ sendT' = None /\ recvT' = None /\ onAir' = None

\* leaveRoom()
LeaveRoom ==
    /\ inRoom' = FALSE
    /\ DropMedia
    /\ Abandons
    /\ MicReleased
    /\ micMuted' = TRUE
    /\ pushToTalkActive' = FALSE
    /\ controls' = FALSE
    /\ UNCHANGED enabled

\* The catch of establishMedia: a fatal banner and leaveRoom, whichever connection
\* the page has by now.
PutOut(s) ==
    /\ LeaveRoom
    /\ ejected' = IF inRoom THEN <<s, current>> ELSE ejected

--------------------------------------------------------------------------------
Init ==
    /\ inRoom = FALSE
    /\ current = None
    /\ pc = [s \in Setups |-> "idle"]
    /\ asked = [s \in Setups |-> None]
    /\ guard = [s \in Setups |-> "none"]
    /\ prompt = [s \in Setups |-> "none"]
    /\ mic = None /\ chain = None /\ outbound = None
    /\ carried = [s \in Setups |-> None]
    /\ open = {} /\ enabled = {}
    /\ sendT = None /\ recvT = None /\ onAir = None
    /\ micMuted = TRUE /\ pushToTalkActive = FALSE /\ controls = FALSE
    /\ ejected = None
    /\ abandonedAt = [s \in Setups |-> "none"]

JoinRoom ==
    /\ ~inRoom
    /\ inRoom' = TRUE
    /\ UNCHANGED <<current, ejected, abandonedAt, pc, asked, guard, prompt, carried, micVars,
                   buttonVars, mediaVars>>

\* "connect", of the first connection or of a later one: establishMedia up to its
\* first request, under the watchdog
Connect(s) ==
    /\ inRoom /\ current = None
    /\ \A t \in Setups : pc[t] = "idle" <=> s <= t
    /\ current' = s
    /\ pc' = [pc EXCEPT ![s] = "caps"]
    /\ asked' = [asked EXCEPT ![s] = s]
    /\ guard' = [guard EXCEPT ![s] = "armed"]
    /\ UNCHANGED <<inRoom, ejected, abandonedAt, prompt, carried, micVars, buttonVars, mediaVars>>

\* "disconnect": enterReconnecting tears the media down and keeps the microphone.
Drop ==
    /\ inRoom /\ current # None
    /\ DropMedia
    /\ Abandons
    /\ \E t \in ClosedWith(onAir) : open' = open \ t
    /\ UNCHANGED <<inRoom, ejected, pc, asked, guard, prompt, carried, mic, chain, outbound,
                   enabled, buttonVars>>

\* The Leave button, a logout, pagehide, "kicked" and "error"
Leave ==
    /\ inRoom
    /\ LeaveRoom
    /\ UNCHANGED <<ejected, pc, asked, guard, prompt, carried>>

\* The watchdog expires; the setup itself goes on.  The mutant guards the
\* permission prompt alone.
WatchdogOfPrompt(s) ==
    /\ guard[s] = "armed" /\ pc[s] = "prompt"
    /\ guard' = [guard EXCEPT ![s] = "fired"]
    /\ PutOut(s)
    /\ UNCHANGED <<pc, asked, prompt, carried>>
WatchdogFires(s) ==
    /\ guard[s] = "armed"
    /\ guard' = [guard EXCEPT ![s] = "fired"]
    /\ PutOut(s)
    /\ UNCHANGED <<pc, asked, prompt, carried>>

--------------------------------------------------------------------------------
\* establishMedia notices that it is stale and returns.
GivesUp(s) ==
    /\ pc' = [pc EXCEPT ![s] = "dropped"]
    /\ guard' = GuardCleared(s)

\* establishMedia goes on to a step that is not a request.
GoesTo(s, step) == pc' = [pc EXCEPT ![s] = step] /\ UNCHANGED <<asked, guard>>

\* ... or to one that begins with request()
Asks(s, step) ==
    /\ pc' = [pc EXCEPT ![s] = step]
    /\ asked' = [asked EXCEPT ![s] = current]

\* An await of establishMedia rejects: an error answer, device.load, the permission
\* refused or not given in 20 s, produce
Rejects(s) ==
    /\ pc' = [pc EXCEPT ![s] = "failed"]
    /\ guard' = GuardCleared(s)
    /\ IF guard[s] = "armed"
       THEN PutOut(s)
       ELSE UNCHANGED <<flowVars, micVars, buttonVars, mediaVars>>

Fails(s) ==
    /\ \/ pc[s] \in {"load", "prompt", "produce"}
       \/ pc[s] \in {"send", "recv"} /\ Answered(s)
    /\ Rejects(s)
    /\ UNCHANGED <<asked, prompt, carried>>

GotCapabilities(s) ==
    /\ pc[s] = "caps" /\ Answered(s)
    /\ GoesTo(s, "load")
    /\ UNCHANGED <<flowVars, prompt, carried, micVars, buttonVars, mediaVars>>

\* device.load is done: prompt for the microphone unless there is one already.
Loaded(s) ==
    /\ pc[s] = "load"
    /\ IF Stale(s)
       THEN GivesUp(s) /\ UNCHANGED <<asked, prompt, controls>>
       ELSE IF mic = None
       THEN /\ GoesTo(s, "prompt")
            /\ prompt' = [prompt EXCEPT ![s] = "pending"]
            /\ UNCHANGED controls
       ELSE /\ Asks(s, "send")
            /\ controls' = TRUE
            /\ UNCHANGED <<guard, prompt>>
    /\ UNCHANGED <<flowVars, carried, micVars, micMuted, pushToTalkActive, mediaVars>>

\* getUserMedia resolves.  establishMedia takes the stream before it looks whether
\* it is stale; a stream that comes after the 20 s timeout is nobody's.
Granted(s) ==
    /\ prompt[s] = "pending"
    /\ prompt' = [prompt EXCEPT ![s] = "granted"]
    /\ enabled' = enabled \union {Raw(s)}
    /\ IF pc[s] = "prompt" THEN mic' = s ELSE UNCHANGED mic
    /\ IF pc[s] = "prompt" /\ ~Stale(s)
       THEN /\ GoesTo(s, "chain")
            /\ chain' = s
            /\ outbound' = None
            /\ open' = (open \ StoppedGate) \union {Raw(s)}
       ELSE /\ open' = open \union {Raw(s)}
            /\ IF pc[s] = "prompt" THEN GivesUp(s) ELSE UNCHANGED <<pc, guard>>
            /\ UNCHANGED <<asked, chain, outbound>>
    /\ UNCHANGED <<flowVars, carried, buttonVars, mediaVars>>

\* startMicChain is done, with a gate or without; then setMicMuted(true) and the
\* request for the send transport.  The mutants ignore the sequence and stale().
Built(s, t, latest, stale) ==
    /\ pc[s] = "chain"
    /\ IF latest
       THEN /\ outbound' = t
            /\ open' = open \union {t}
            /\ chain' = None
       ELSE UNCHANGED <<outbound, open, chain>>
    /\ IF stale
       THEN /\ GivesUp(s)
            /\ enabled' = enabled \union {t}
            /\ UNCHANGED <<asked, buttonVars>>
       ELSE /\ Asks(s, "send")
            /\ micMuted' = TRUE
            /\ enabled' = Apply(enabled \union {t}, t, Talking(TRUE, pushToTalkActive))
            /\ controls' = TRUE
            /\ UNCHANGED <<guard, pushToTalkActive>>
    /\ UNCHANGED <<flowVars, prompt, carried, mic, mediaVars>>
ChainBuiltAnyway(s, t) == Built(s, t, TRUE, Stale(s))
ChainBuiltUnchecked(s, t) == Built(s, t, chain = s, FALSE)
ChainBuilt(s, t) == Built(s, t, chain = s, Stale(s))

\* createTransport is answered: produce on the new send transport.  produce rejects
\* a track that has ended.
GotSendTransport(s) ==
    LET track == OwnTrack(outbound, mic)
    IN  /\ pc[s] = "send" /\ Answered(s)
        /\ IF track \in open
           THEN /\ GoesTo(s, "produce")
                /\ carried' = [carried EXCEPT ![s] = track]
                /\ sendT' = s
                /\ UNCHANGED <<flowVars, micVars, buttonVars, recvT, onAir>>
           ELSE Rejects(s) /\ UNCHANGED <<asked, carried>>
        /\ UNCHANGED prompt

\* produce resolves: the mute state is applied once more.
Produced(s) ==
    /\ pc[s] = "produce"
    /\ IF Stale(s)
       THEN /\ GivesUp(s)
            /\ \E t \in ClosedWith(carried[s]) : open' = open \ t
            /\ UNCHANGED <<asked, enabled, onAir>>
       ELSE /\ Asks(s, "recv")
            /\ onAir' = carried[s]
            /\ enabled' = Apply(enabled, OwnTrack(outbound, mic), Talking(micMuted, pushToTalkActive))
            /\ UNCHANGED <<guard, open>>
    /\ UNCHANGED <<flowVars, prompt, carried, mic, chain, outbound, buttonVars, sendT, recvT>>

GotRecvTransport(s) ==
    /\ pc[s] = "recv" /\ Answered(s)
    /\ Asks(s, "list")
    /\ recvT' = s
    /\ UNCHANGED <<flowVars, guard, prompt, carried, micVars, buttonVars, sendT, onAir>>

\* getProducers is answered; then getFeeds.
GotProducers(s) ==
    /\ pc[s] = "list" /\ Answered(s)
    /\ Asks(s, "feeds")
    /\ UNCHANGED <<flowVars, guard, prompt, carried, micVars, buttonVars, mediaVars>>

\* getFeeds is answered: the page shows the room.
GotFeeds(s) ==
    /\ pc[s] = "feeds" /\ Answered(s)
    /\ pc' = [pc EXCEPT ![s] = "done"]
    /\ guard' = GuardCleared(s)
    /\ UNCHANGED <<flowVars, asked, prompt, carried, micVars, buttonVars, mediaVars>>

--------------------------------------------------------------------------------
\* The buttons set micMuted and pushToTalkActive, and the track follows.  The
\* mutant acts on the microphone itself instead of the gated track.
SetTalkOnMic(muted, ptt) ==
    /\ controls /\ mic # None
    /\ micMuted' = muted
    /\ pushToTalkActive' = ptt
    /\ enabled' = Apply(enabled, Raw(mic), Talking(muted, ptt))
    /\ UNCHANGED <<flowVars, pc, asked, guard, prompt, carried, mic, chain, outbound, open,
                   controls, mediaVars>>
SetTalk(muted, ptt) ==
    /\ controls /\ mic # None
    /\ micMuted' = muted
    /\ pushToTalkActive' = ptt
    /\ enabled' = Apply(enabled, OwnTrack(outbound, mic), Talking(muted, ptt))
    /\ UNCHANGED <<flowVars, pc, asked, guard, prompt, carried, mic, chain, outbound, open,
                   controls, mediaVars>>

\* Unmuting ends a press.
ToggleMute == SetTalk(~micMuted, pushToTalkActive /\ ~micMuted)
StartPushToTalk == micMuted /\ ~pushToTalkActive /\ SetTalk(micMuted, TRUE)
StopPushToTalk == pushToTalkActive /\ SetTalk(micMuted, FALSE)

--------------------------------------------------------------------------------
Step(s) ==
    \/ GotCapabilities(s) \/ Loaded(s) \/ Granted(s) \/ Fails(s)
    \/ \E t \in {Raw(s), Gate(s)} : ChainBuilt(s, t)
    \/ GotSendTransport(s) \/ Produced(s) \/ GotRecvTransport(s)
    \/ GotProducers(s) \/ GotFeeds(s)

Next ==
    \/ JoinRoom \/ Drop \/ Leave
    \/ ToggleMute \/ StartPushToTalk \/ StopPushToTalk
    \/ \E s \in Setups : Connect(s) \/ WatchdogFires(s) \/ Step(s)

\* Only that timers fire: any await may take for ever.
Fairness == \A s \in Setups : WF_vars(WatchdogFires(s))

Spec == Init /\ [][Next]_vars

FairSpec == Spec /\ Fairness

--------------------------------------------------------------------------------
TypeOK ==
    /\ inRoom \in BOOLEAN
    /\ current \in Setups \union {None}
    /\ pc \in [Setups -> Settled \union {"caps", "load", "prompt", "chain", "send", "produce",
                                        "recv", "list", "feeds"}]
    /\ asked \in [Setups -> Setups \union {None}]
    /\ guard \in [Setups -> {"none", "armed", "cleared", "fired"}]
    /\ \A s \in Setups : guard[s] = "none" <=> pc[s] = "idle"
    /\ prompt \in [Setups -> {"none", "pending", "granted"}]
    /\ mic \in Setups \union {None}
    /\ chain \in Setups \union {None}
    /\ {outbound, onAir} \subseteq Tracks \union {None}
    /\ carried \in [Setups -> Tracks \union {None}]
    /\ open \subseteq Tracks
    /\ enabled \subseteq Tracks
    /\ {sendT, recvT} \subseteq Setups \union {None}
    /\ micMuted \in BOOLEAN
    /\ controls \in BOOLEAN
    /\ pushToTalkActive \in BOOLEAN
    /\ pushToTalkActive => micMuted
    /\ ejected \in {None} \union (Setups \X (Setups \union {None}))

\* Work started for a dead connection "cannot attach itself to the new one"
\* (index.html:1219-1221): transports and producer belong to the current setup.
OnlyCurrentAttaches ==
    /\ {sendT, recvT} \subseteq {None, current}
    /\ onAir # None => current # None /\ onAir = carried[current]

\* The room hears the microphone exactly when its button says so, as long as no
\* connection or visit ended while the page was acquiring a microphone, and unless
\* the track has ended.
Audible == {onAir, Raw(onAir[2])} \subseteq enabled
OnAirAsShown ==
    onAir \in open /\ (\A s \in Setups : abandonedAt[s] \notin {"prompt", "chain"}) =>
        (Audible <=> Talking(micMuted, pushToTalkActive))

\* Out of a room no microphone stays open, as long as the page gave up no setup
\* while its prompt was unanswered: a stream that comes later takes the place of
\* another in localStream, or is left open itself.
MicOffOutside ==
    ~inRoom /\ (\A s \in Setups : abandonedAt[s] # "prompt") =>
        \A s \in Setups : Raw(s) \notin open

\* "Full exit" (index.html:3008): nothing that was still under way brings back
\* media, an outgoing stream or an open microphone button after the page left.
IdleIsClean ==
    ~inRoom =>
        /\ {current, sendT, recvT, onAir, outbound} = {None}
        /\ ~controls /\ ~Talking(micMuted, pushToTalkActive)

\* "A dropped connection does not eject you" (README.md:256): a user whose
\* connection is back is never put out by the setup of one that was lost.  The
\* watchdog of such a setup still runs, because the answer it waits for never comes.
DropDoesNotEject == ejected # None => ejected[2] \in {None, ejected[1]}

\* "Joining cannot hang forever" (README.md:261): a connection gets its media, or is
\* lost, or the user has the room picker back.
JoiningEnds == \A s \in Setups : (current = s) ~> (pc[s] = "done" \/ current # s)
================================================================================
