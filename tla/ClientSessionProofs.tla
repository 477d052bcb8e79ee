-------------------------- MODULE ClientSessionProofs --------------------------
(***************************************************************************)
(* ClientSession for every number of setups: what late work of a dead      *)
(* connection may attach to, what the room hears of the microphone, and    *)
(* what stays when the page has left.                                      *)
(***************************************************************************)
EXTENDS ClientSession, TLAPS

\* A setup asks on its own connection only.
AskedInv == \A s \in Setups : asked[s] \in {None, s}

\* The producer of a connection comes with the end of produce.
ProducerInv ==
    current # None /\ pc[current] \in {"caps", "load", "prompt", "chain", "send", "produce"} =>
        onAir = None

\* Out of a room no chain is being built: one that gets ready is dropped.
ChainInv == ~inRoom => chain = None

\* The watchdog of the current setup is armed until the setup has settled.
GuardInv ==
    \A s \in Setups :
        /\ guard[s] = "fired" => current # s
        /\ guard[s] = "cleared" => pc[s] \in Settled

\* A setup that was given up is not taken up again.
GivenUpInv ==
    \A s \in Setups :
        abandonedAt[s] # "none" => pc[s] # "idle" /\ current # s

\* As long as no setup was given up during its prompt, every microphone that is open is
\* the page's, which has none while it prompts for one.
MicInv ==
    (\A s \in Setups : abandonedAt[s] # "prompt") =>
        /\ \A s \in Setups : prompt[s] = "pending" =>
               pc[s] = "prompt" /\ current = s /\ mic = None
        /\ \A s \in Setups : Raw(s) \in open => mic = s
        /\ chain \in {None, mic}
        /\ ~inRoom => mic = None

\* The setup that the page has a connection for is under way or done.
LiveInv == current # None => pc[current] \notin {"idle", "dropped", "failed"}

\* The page acquires a microphone for its current setup only, and its button is closed
\* until it has one.
ChainOfCurrent ==
    /\ \A s \in Setups : pc[s] = "chain" => current = s /\ chain = s
    /\ chain # None => pc[chain] = "chain" /\ outbound = None /\ ~controls /\ Raw(chain) \in enabled
    /\ mic = None => ~controls

\* The outgoing track is made from the page's microphone and is switched as the button
\* says; the microphone under a gate stays on.
OutboundAsShown ==
    /\ mic # None /\ chain = None => outbound # None
    /\ outbound # None =>
           /\ mic # None /\ outbound \in {Raw(mic), Gate(mic)}
           /\ outbound \in enabled <=> Talking(micMuted, pushToTalkActive)
           /\ outbound = Gate(mic) => Raw(mic) \in enabled

\* What the current setup produces is the outgoing track.
CarriesOutbound ==
    current # None =>
        /\ pc[current] \in {"send", "produce", "recv", "list", "feeds", "done"} => outbound # None
        /\ pc[current] \in {"produce", "recv", "list", "feeds", "done"} => carried[current] = outbound

\* No setup was given up while it acquired a microphone.
Undisturbed == \A s \in Setups : abandonedAt[s] \notin {"prompt", "chain"}

TypeInv == TypeOK /\ AskedInv
AttachInv == OnlyCurrentAttaches /\ ProducerInv
IdleInv == IdleIsClean /\ ChainInv
OpenInv == GuardInv /\ GivenUpInv /\ MicInv
AirInv ==
    /\ LiveInv
    /\ Undisturbed => ChainOfCurrent /\ OutboundAsShown /\ CarriesOutbound

--------------------------------------------------------------------------------
LEMMA SetupFacts ==
    /\ None \notin Setups /\ None \notin Tracks
    /\ \A s \in Setups : s <= s
    /\ \A s \in Setups : Raw(s) \in Tracks /\ Gate(s) \in Tracks
    /\ \A s, t \in Setups : Raw(s) # Gate(t) /\ (Raw(s) = Raw(t) => s = t)
<1>1. Setups \subseteq Nat
  BY ClientSessionAssumption DEF Setups
<1>2. None \notin Setups
  BY <1>1, ClientSessionAssumption
<1>6. \A s \in Setups : s <= s
  BY <1>1
<1>3. None \notin Tracks
  BY <1>1, ClientSessionAssumption DEF Tracks
<1>4. \A s \in Setups : Raw(s) \in Tracks /\ Gate(s) \in Tracks
  BY DEF Tracks, Raw, Gate
<1>5. \A s, t \in Setups : Raw(s) # Gate(t) /\ (Raw(s) = Raw(t) => s = t)
  BY DEF Raw, Gate
<1> QED
  BY <1>2, <1>3, <1>4, <1>5, <1>6

\* What leaving writes is typed, whichever setup puts the user out.
LEMMA PutOutTyped ==
    ASSUME TypeInv, NEW s \in Setups, PutOut(s)
    PROVE  /\ inRoom' = FALSE /\ micMuted' = TRUE /\ pushToTalkActive' = FALSE /\ controls' = FALSE
           /\ current' = None /\ mic' = None /\ chain' = None /\ outbound' = None
           /\ onAir' = None /\ sendT' = None /\ recvT' = None
           /\ open' \subseteq Tracks /\ enabled' = enabled
           /\ ejected' \in {None} \union (Setups \X (Setups \union {None}))
<1> USE DEF PutOut, LeaveRoom, DropMedia, MicReleased
<1>1. inRoom' = FALSE /\ micMuted' = TRUE /\ pushToTalkActive' = FALSE /\ controls' = FALSE
  OBVIOUS
<1>2. /\ current' = None /\ mic' = None /\ chain' = None /\ outbound' = None
      /\ onAir' = None /\ sendT' = None /\ recvT' = None
  OBVIOUS
<1>3. open' \subseteq Tracks /\ enabled' = enabled
  BY DEF TypeInv, TypeOK
<1>4. ejected' \in {None} \union (Setups \X (Setups \union {None}))
  <2>1. <<s, current>> \in Setups \X (Setups \union {None})
    BY DEF TypeInv, TypeOK
  <2>2. ejected' = <<s, current>> \/ ejected' = ejected
    OBVIOUS
  <2> QED
    BY <2>1, <2>2 DEF TypeInv, TypeOK
<1> QED
  BY <1>1, <1>2, <1>3, <1>4

\* Every callback keeps the types.
LEMMA TypeStep == TypeInv /\ [Next]_vars => TypeInv'
<1> SUFFICES ASSUME TypeInv, [Next]_vars PROVE TypeInv'
  OBVIOUS
<1> USE SetupFacts
    DEF TypeInv, TypeOK, AskedInv, Settled, flowVars, micVars, buttonVars, mediaVars
<1>1. CASE JoinRoom
  BY <1>1 DEF JoinRoom
<1>2. ASSUME NEW s \in Setups, Connect(s) PROVE TypeInv'
  BY <1>2 DEF Connect
<1>3. CASE Drop
  BY <1>3 DEF Drop, DropMedia, Abandons, ClosedWith
<1>4. CASE Leave
  BY <1>4 DEF Leave, LeaveRoom, DropMedia, Abandons, MicReleased, StoppedGate, ClosedWith
<1>5. ASSUME NEW s \in Setups, WatchdogFires(s) PROVE TypeInv'
  BY <1>5, PutOutTyped DEF WatchdogFires
<1>6. ASSUME NEW s \in Setups, Fails(s) PROVE TypeInv'
  <2>1. CASE guard[s] = "armed"
    BY <1>6, <2>1, PutOutTyped DEF Fails, Rejects, GuardCleared
  <2>2. CASE guard[s] # "armed"
    BY <1>6, <2>2 DEF Fails, Rejects, GuardCleared
  <2> QED
    BY <2>1, <2>2
<1>7. ASSUME NEW s \in Setups, GotCapabilities(s) PROVE TypeInv'
  BY <1>7 DEF GotCapabilities, GoesTo
<1>8. ASSUME NEW s \in Setups, Loaded(s) PROVE TypeInv'
  <2>1. CASE Stale(s)
    BY <1>8, <2>1 DEF Loaded, GivesUp, GuardCleared
  <2>2. CASE ~Stale(s) /\ mic = None
    BY <1>8, <2>2 DEF Loaded, GoesTo
  <2>3. CASE ~Stale(s) /\ mic # None
    BY <1>8, <2>3 DEF Loaded, Stale, Asks
  <2> QED
    BY <2>1, <2>2, <2>3
<1>9. ASSUME NEW s \in Setups, Granted(s) PROVE TypeInv'
  BY <1>9 DEF Granted, Stale, GivesUp, GuardCleared, GoesTo, StoppedGate
<1>10. ASSUME NEW s \in Setups, NEW t \in {Raw(s), Gate(s)}, ChainBuilt(s, t)
      PROVE  TypeInv'
  <2>1. CASE Stale(s)
    BY <1>10, <2>1 DEF ChainBuilt, Built, GivesUp, GuardCleared
  <2>2. CASE ~Stale(s)
    BY <1>10, <2>2 DEF ChainBuilt, Built, Stale, Asks, Apply, Talking
  <2> QED
    BY <2>1, <2>2
<1>11. ASSUME NEW s \in Setups, GotSendTransport(s) PROVE TypeInv'
  <2>1. CASE OwnTrack(outbound, mic) \in open
    BY <1>11, <2>1 DEF GotSendTransport, GoesTo, Answered
  <2>2. CASE OwnTrack(outbound, mic) \notin open /\ guard[s] = "armed"
    <3>1. PutOut(s) /\ UNCHANGED <<asked, carried, prompt>>
      BY <1>11, <2>2 DEF GotSendTransport, Rejects
    <3>2. /\ pc' = [pc EXCEPT ![s] = "failed"] /\ guard' = GuardCleared(s)
          /\ pc[s] = "send"
      BY <1>11, <2>2 DEF GotSendTransport, Rejects
    <3> QED
      BY <3>1, <3>2, PutOutTyped DEF GuardCleared
  <2>3. CASE OwnTrack(outbound, mic) \notin open /\ guard[s] # "armed"
    BY <1>11, <2>3 DEF GotSendTransport, Rejects, GuardCleared
  <2> QED
    BY <2>1, <2>2, <2>3
<1>12. ASSUME NEW s \in Setups, Produced(s) PROVE TypeInv'
  BY <1>12
     DEF Produced, Stale, GivesUp, GuardCleared, Asks, Apply, OwnTrack, Talking, ClosedWith
<1>13. ASSUME NEW s \in Setups, GotRecvTransport(s) PROVE TypeInv'
  BY <1>13 DEF GotRecvTransport, Answered, Asks
<1>14. ASSUME NEW s \in Setups, GotProducers(s) PROVE TypeInv'
  BY <1>14 DEF GotProducers, Answered, Asks
<1>15. ASSUME NEW s \in Setups, GotFeeds(s) PROVE TypeInv'
  BY <1>15 DEF GotFeeds, Answered, GuardCleared
<1>16. CASE ToggleMute \/ StartPushToTalk \/ StopPushToTalk
  <2>1. PICK muted, ptt \in BOOLEAN : SetTalk(muted, ptt) /\ (ptt => muted)
    BY <1>16 DEF ToggleMute, StartPushToTalk, StopPushToTalk, SetTalk
  <2>2. micMuted' \in BOOLEAN /\ pushToTalkActive' \in BOOLEAN /\ (pushToTalkActive' => micMuted')
    BY <2>1 DEF SetTalk
  <2>3. OwnTrack(outbound, mic) \in Tracks \union {None}
    BY DEF OwnTrack
  <2>4. enabled' \subseteq Tracks
    BY <2>1, <2>3 DEF SetTalk, Apply
  <2> QED
    BY <2>1, <2>2, <2>4 DEF SetTalk
<1>17. CASE UNCHANGED vars
  BY <1>17 DEF vars
<1> QED
  BY <1>1, <1>2, <1>3, <1>4, <1>5, <1>6, <1>7, <1>8, <1>9, <1>10, <1>11, <1>12, <1>13, <1>14,
     <1>15, <1>16, <1>17
     DEF Next, Step

\* A teardown lets go of everything, and late work looks whether it is stale.
LEMMA AttachStep == TypeInv /\ AttachInv /\ [Next]_vars => AttachInv'
<1> SUFFICES ASSUME TypeInv /\ AttachInv, [Next]_vars PROVE AttachInv'
  OBVIOUS
<1> USE SetupFacts
    DEF TypeInv, TypeOK, AskedInv, AttachInv, OnlyCurrentAttaches, ProducerInv, flowVars,
       micVars, buttonVars, mediaVars
<1>1. ASSUME NEW s \in Setups, Connect(s) PROVE AttachInv'
  BY <1>1 DEF Connect
<1>2. CASE Drop
  BY <1>2 DEF Drop, DropMedia, Abandons, ClosedWith
<1>3. CASE Leave
  BY <1>3 DEF Leave, LeaveRoom, DropMedia, Abandons, MicReleased, StoppedGate, ClosedWith
<1>4. ASSUME NEW s \in Setups, WatchdogFires(s) PROVE AttachInv'
  BY <1>4
     DEF WatchdogFires, PutOut, LeaveRoom, DropMedia, Abandons, MicReleased, StoppedGate,
         ClosedWith
<1>5. ASSUME NEW s \in Setups, Fails(s) PROVE AttachInv'
  BY <1>5
     DEF Fails, Rejects, GuardCleared, Answered, PutOut, LeaveRoom, DropMedia, Abandons,
         MicReleased, StoppedGate, ClosedWith
<1>6. ASSUME NEW s \in Setups, GotCapabilities(s) PROVE AttachInv'
  BY <1>6 DEF GotCapabilities, GoesTo
<1>7. ASSUME NEW s \in Setups, Loaded(s) PROVE AttachInv'
  BY <1>7 DEF Loaded, Stale, GivesUp, GuardCleared, GoesTo, Asks
<1>8. ASSUME NEW s \in Setups, Granted(s) PROVE AttachInv'
  BY <1>8 DEF Granted, Stale, GivesUp, GuardCleared, GoesTo, StoppedGate
<1>9. ASSUME NEW s \in Setups, NEW t \in {Raw(s), Gate(s)}, ChainBuilt(s, t)
      PROVE  AttachInv'
  BY <1>9 DEF ChainBuilt, Built, Stale, GivesUp, GuardCleared, Asks, Apply, Talking
<1>10. ASSUME NEW s \in Setups, GotSendTransport(s) PROVE AttachInv'
  BY <1>10
     DEF GotSendTransport, Answered, GoesTo, OwnTrack, Rejects, GuardCleared, PutOut,
         LeaveRoom, DropMedia, Abandons, MicReleased, StoppedGate, ClosedWith
<1>11. ASSUME NEW s \in Setups, Produced(s) PROVE AttachInv'
  BY <1>11
     DEF Produced, Stale, GivesUp, GuardCleared, Asks, Apply, OwnTrack, Talking, ClosedWith
<1>12. ASSUME NEW s \in Setups, GotRecvTransport(s) PROVE AttachInv'
  BY <1>12 DEF GotRecvTransport, Answered, Asks
<1>13. ASSUME NEW s \in Setups, GotProducers(s) PROVE AttachInv'
  BY <1>13 DEF GotProducers, Answered, Asks
<1>14. ASSUME NEW s \in Setups, GotFeeds(s) PROVE AttachInv'
  BY <1>14 DEF GotFeeds, Answered, GuardCleared
<1>15. CASE JoinRoom \/ ToggleMute \/ StartPushToTalk \/ StopPushToTalk \/ UNCHANGED vars
  <2> SUFFICES ASSUME UNCHANGED <<current, pc, carried, mediaVars>> PROVE AttachInv'
    BY <1>15 DEF JoinRoom, ToggleMute, StartPushToTalk, StopPushToTalk, SetTalk, vars
  <2> QED
    OBVIOUS
<1> QED
  BY <1>1, <1>2, <1>3, <1>4, <1>5, <1>6, <1>7, <1>8, <1>9, <1>10, <1>11, <1>12, <1>13, <1>14,
     <1>15
     DEF Next, Step

\* Leaving lets go of everything.
LEMMA LeftClean == LeaveRoom => IdleInv'
BY DEF LeaveRoom, DropMedia, MicReleased, IdleInv, IdleIsClean, ChainInv, Talking

\* Out of a room every setup is stale.
LEMMA LateIsStale ==
    ASSUME IdleInv, ~inRoom, NEW s \in Setups
    PROVE  Stale(s)
<1>1. current \in {None}
  BY DEF IdleInv, IdleIsClean
<1> QED
  BY <1>1, SetupFacts DEF Stale

\* What is late finds no chain to publish.
LEMMA IdleStep == IdleInv /\ [Next]_vars => IdleInv'
<1> SUFFICES ASSUME IdleInv, [Next]_vars PROVE IdleInv'
  OBVIOUS
<1>1. ASSUME UNCHANGED <<inRoom, current, chain, outbound, buttonVars, mediaVars>>
      PROVE  IdleInv'
  BY <1>1 DEF IdleInv, IdleIsClean, ChainInv, Talking, buttonVars, mediaVars
<1>2. inRoom' => IdleInv'
  BY DEF IdleInv, IdleIsClean, ChainInv
<1>3. CASE JoinRoom
  BY <1>2, <1>3 DEF JoinRoom
<1>4. ASSUME NEW s \in Setups, Connect(s) PROVE IdleInv'
  BY <1>2, <1>4 DEF Connect
<1>5. CASE Drop
  BY <1>2, <1>5 DEF Drop
<1>6. CASE Leave
  BY <1>6, LeftClean DEF Leave
<1>7. ASSUME NEW s \in Setups, WatchdogFires(s) PROVE IdleInv'
  BY <1>7, LeftClean DEF WatchdogFires, PutOut
<1>8. ASSUME NEW s \in Setups, Rejects(s), UNCHANGED <<asked, carried, prompt>>
      PROVE  IdleInv'
  <2>1. CASE guard[s] = "armed"
    BY <1>8, <2>1, LeftClean DEF Rejects, PutOut
  <2>2. CASE guard[s] # "armed"
    BY <1>1, <1>8, <2>2 DEF Rejects, flowVars, micVars
  <2> QED
    BY <2>1, <2>2
<1>9. ASSUME NEW s \in Setups, Fails(s) PROVE IdleInv'
  BY <1>8, <1>9 DEF Fails
<1>10. ASSUME NEW s \in Setups, Loaded(s) PROVE IdleInv'
  <2>1. CASE inRoom
    BY <1>2, <1>10, <2>1 DEF Loaded, flowVars
  <2>2. CASE ~inRoom
    BY <1>1, <1>10, <2>2, LateIsStale DEF Loaded, flowVars, micVars, buttonVars
  <2> QED
    BY <2>1, <2>2
<1>11. ASSUME NEW s \in Setups, Granted(s) PROVE IdleInv'
  <2>1. CASE inRoom
    BY <1>2, <1>11, <2>1 DEF Granted, flowVars
  <2>2. CASE ~inRoom
    BY <1>1, <1>11, <2>2, LateIsStale DEF Granted, flowVars
  <2> QED
    BY <2>1, <2>2
<1>12. ASSUME NEW s \in Setups, NEW t \in {Raw(s), Gate(s)}, ChainBuilt(s, t)
      PROVE  IdleInv'
  <2>1. CASE inRoom
    BY <1>2, <1>12, <2>1 DEF ChainBuilt, Built, flowVars
  <2>2. CASE ~inRoom
    <3>1. Stale(s) /\ chain # s
      BY <2>2, LateIsStale, SetupFacts DEF IdleInv, ChainInv
    <3> QED
      BY <1>1, <1>12, <3>1 DEF ChainBuilt, Built, flowVars
  <2> QED
    BY <2>1, <2>2
<1>13. ASSUME NEW s \in Setups, GotSendTransport(s) PROVE IdleInv'
  <2>1. CASE OwnTrack(outbound, mic) \in open
    <3>1. asked[s] # None /\ asked[s] = current
      BY <1>13 DEF GotSendTransport, Answered
    <3>2. inRoom
      <4>1. ~inRoom => current \in {None}
        BY DEF IdleInv, IdleIsClean
      <4> QED
        BY <3>1, <4>1
    <3> QED
      BY <1>2, <1>13, <2>1, <3>2 DEF GotSendTransport, flowVars
  <2>2. CASE OwnTrack(outbound, mic) \notin open
    BY <1>8, <1>13, <2>2 DEF GotSendTransport
  <2> QED
    BY <2>1, <2>2
<1>14. ASSUME NEW s \in Setups, Produced(s) PROVE IdleInv'
  <2>1. CASE inRoom
    BY <1>2, <1>14, <2>1 DEF Produced, flowVars
  <2>2. CASE ~inRoom
    BY <1>1, <1>14, <2>2, LateIsStale DEF Produced, flowVars, mediaVars
  <2> QED
    BY <2>1, <2>2
<1>15. ASSUME NEW s \in Setups, GotRecvTransport(s) PROVE IdleInv'
  <2>1. asked[s] # None /\ asked[s] = current
    BY <1>15 DEF GotRecvTransport, Answered
  <2>2. ~inRoom => current \in {None}
    BY DEF IdleInv, IdleIsClean
  <2> QED
    BY <1>2, <1>15, <2>1, <2>2 DEF GotRecvTransport, flowVars
<1>16. ASSUME NEW s \in Setups, GotCapabilities(s) \/ GotProducers(s) \/ GotFeeds(s)
       PROVE  IdleInv'
  BY <1>1, <1>16 DEF GotCapabilities, GotProducers, GotFeeds, flowVars, micVars
<1>17. CASE ToggleMute \/ StartPushToTalk \/ StopPushToTalk
  <2>1. controls /\ UNCHANGED inRoom
    BY <1>17 DEF ToggleMute, StartPushToTalk, StopPushToTalk, SetTalk, flowVars
  <2>2. inRoom
    BY <2>1 DEF IdleInv, IdleIsClean
  <2> QED
    BY <1>2, <2>1, <2>2
<1>18. CASE UNCHANGED vars
  BY <1>1, <1>18 DEF vars, flowVars, micVars
<1> QED
  BY <1>3, <1>4, <1>5, <1>6, <1>7, <1>9, <1>10, <1>11, <1>12, <1>13, <1>14, <1>15, <1>16,
     <1>17, <1>18
     DEF Next, Step

\* A microphone that is granted is taken, and leaving stops it.
LEMMA OpenStep == TypeInv /\ IdleInv /\ OpenInv /\ [Next]_vars => OpenInv'
<1> SUFFICES ASSUME TypeInv /\ IdleInv /\ OpenInv, [Next]_vars PROVE OpenInv'
  OBVIOUS
<1> USE SetupFacts
    DEF TypeInv, TypeOK, AskedInv, IdleInv, IdleIsClean, ChainInv, OpenInv, GuardInv,
       GivenUpInv, MicInv, Settled, flowVars, micVars, buttonVars, mediaVars
<1>1. CASE JoinRoom
  BY <1>1 DEF JoinRoom
<1>2. ASSUME NEW s \in Setups, Connect(s) PROVE OpenInv'
  BY <1>2 DEF Connect
<1>3. CASE Drop
  BY <1>3 DEF Drop, DropMedia, Abandons, ClosedWith
<1>4. CASE Leave
  BY <1>4 DEF Leave, LeaveRoom, DropMedia, Abandons, MicReleased, StoppedGate, ClosedWith
<1>5. ASSUME NEW s \in Setups, WatchdogFires(s) PROVE OpenInv'
  BY <1>5
     DEF WatchdogFires, PutOut, LeaveRoom, DropMedia, Abandons, MicReleased, StoppedGate,
         ClosedWith
<1>6. ASSUME NEW s \in Setups, Fails(s) PROVE OpenInv'
  BY <1>6
     DEF Fails, Rejects, GuardCleared, Answered, PutOut, LeaveRoom, DropMedia, Abandons,
         MicReleased, StoppedGate, ClosedWith
<1>7. ASSUME NEW s \in Setups, GotCapabilities(s) PROVE OpenInv'
  BY <1>7 DEF GotCapabilities, GoesTo
<1>8. ASSUME NEW s \in Setups, Loaded(s) PROVE OpenInv'
  BY <1>8 DEF Loaded, Stale, GivesUp, GuardCleared, GoesTo, Asks
<1>9. ASSUME NEW s \in Setups, Granted(s) PROVE OpenInv'
  BY <1>9 DEF Granted, Stale, GivesUp, GuardCleared, GoesTo, StoppedGate
<1>10. ASSUME NEW s \in Setups, NEW t \in {Raw(s), Gate(s)}, ChainBuilt(s, t)
      PROVE  OpenInv'
  BY <1>10 DEF ChainBuilt, Built, Stale, GivesUp, GuardCleared, Asks, Apply, Talking
<1>11. ASSUME NEW s \in Setups, GotSendTransport(s) PROVE OpenInv'
  BY <1>11
     DEF GotSendTransport, Answered, GoesTo, OwnTrack, Rejects, GuardCleared, PutOut,
         LeaveRoom, DropMedia, Abandons, MicReleased, StoppedGate, ClosedWith
<1>12. ASSUME NEW s \in Setups, Produced(s) PROVE OpenInv'
  BY <1>12
     DEF Produced, Stale, GivesUp, GuardCleared, Asks, Apply, OwnTrack, Talking, ClosedWith
<1>13. ASSUME NEW s \in Setups, GotRecvTransport(s) PROVE OpenInv'
  BY <1>13 DEF GotRecvTransport, Answered, Asks
<1>14. ASSUME NEW s \in Setups, GotProducers(s) PROVE OpenInv'
  BY <1>14 DEF GotProducers, Answered, Asks
<1>15. ASSUME NEW s \in Setups, GotFeeds(s) PROVE OpenInv'
  BY <1>15 DEF GotFeeds, Answered, GuardCleared
<1>16. CASE ToggleMute \/ StartPushToTalk \/ StopPushToTalk \/ UNCHANGED vars
  <2> SUFFICES ASSUME UNCHANGED <<flowVars, pc, guard, prompt, mic, chain, open>>
              PROVE  OpenInv'
    BY <1>16 DEF ToggleMute, StartPushToTalk, StopPushToTalk, SetTalk, vars
  <2> QED
    OBVIOUS
<1> QED
  BY <1>1, <1>2, <1>3, <1>4, <1>5, <1>6, <1>7, <1>8, <1>9, <1>10, <1>11, <1>12, <1>13, <1>14,
     <1>15, <1>16
     DEF Next, Step

\* Giving the page up undisturbed means that no microphone was being acquired.
LEMMA GivenUpUndisturbed ==
    ASSUME TypeInv, OpenInv, Abandons, Undisturbed'
    PROVE  Undisturbed /\ (current # None => pc[current] \notin {"prompt", "chain"})
<1>1. \A s \in Setups :
          abandonedAt'[s] = IF s = current /\ pc[s] \notin Settled THEN pc[s] ELSE abandonedAt[s]
  BY DEF Abandons
<1>2. ASSUME NEW s \in Setups PROVE abandonedAt[s] \notin {"prompt", "chain"}
  BY <1>1 DEF Undisturbed, OpenInv, GivenUpInv
<1>3. current # None => pc[current] \notin {"prompt", "chain"}
  BY <1>1 DEF Undisturbed, TypeInv, TypeOK, Settled
<1> QED
  BY <1>2, <1>3 DEF Undisturbed

\* Leaving undisturbed leaves no chain, no track and a closed button.
LEMMA LeftQuiet ==
    ASSUME TypeInv, OpenInv, AirInv, LeaveRoom,
           \A s \in Setups : pc'[s] = "chain" => pc[s] = "chain"
    PROVE  AirInv'
<1>1. current' = None /\ chain' = None /\ outbound' = None /\ mic' = None /\ controls' = FALSE
  BY DEF LeaveRoom, DropMedia, MicReleased
<1>2. ASSUME Undisturbed', NEW s \in Setups PROVE pc'[s] # "chain"
  <2>1. Undisturbed /\ (current # None => pc[current] \notin {"prompt", "chain"})
    BY <1>2, GivenUpUndisturbed DEF LeaveRoom
  <2> QED
    BY <2>1, SetupFacts DEF AirInv, ChainOfCurrent
<1> QED
  BY <1>1, <1>2 DEF AirInv, LiveInv, ChainOfCurrent, OutboundAsShown, CarriesOutbound

\* The outgoing track follows the button, and the producer the outgoing track.
LEMMA AirStep == TypeInv /\ OpenInv /\ AirInv /\ [Next]_vars => AirInv'
<1> SUFFICES ASSUME TypeInv, OpenInv, AirInv, [Next]_vars PROVE AirInv'
  OBVIOUS
<1> USE SetupFacts DEF flowVars, micVars, buttonVars, mediaVars
<1>t. /\ current \in Setups \union {None} /\ mic \in Setups \union {None}
      /\ chain \in Setups \union {None}
      /\ pc \in [Setups -> Settled \union {"caps", "load", "prompt", "chain", "send", "produce",
                                        "recv", "list", "feeds"}]
      /\ carried \in [Setups -> Tracks \union {None}]
      /\ \A s \in Setups : asked[s] \in {None, s}
      /\ micMuted \in BOOLEAN /\ pushToTalkActive \in BOOLEAN /\ controls \in BOOLEAN
  BY DEF TypeInv, TypeOK, AskedInv
<1>a. CASE ~Undisturbed /\ UNCHANGED abandonedAt /\ LiveInv'
  BY <1>a DEF AirInv, Undisturbed
<1>1. ASSUME UNCHANGED <<current, pc, carried, mic, chain, outbound, enabled, abandonedAt,
                         micMuted, pushToTalkActive, controls>>
      PROVE  AirInv'
  BY <1>1 DEF AirInv, LiveInv, Undisturbed, ChainOfCurrent, OutboundAsShown, CarriesOutbound
<1>2. CASE JoinRoom \/ UNCHANGED vars
  BY <1>1, <1>2 DEF JoinRoom, vars
<1>3. ASSUME NEW s \in Setups, Connect(s) PROVE AirInv'
  <2>1. pc[s] = "idle" /\ current' = s /\ pc' = [pc EXCEPT ![s] = "caps"]
    BY <1>3 DEF Connect
  <2>2. UNCHANGED <<abandonedAt, carried, mic, chain, outbound, enabled, micMuted,
                    pushToTalkActive, controls>> /\ current = None
    BY <1>3 DEF Connect
  <2> QED
    BY <1>t, <2>1, <2>2
       DEF AirInv, LiveInv, Undisturbed, ChainOfCurrent, OutboundAsShown, CarriesOutbound
<1>4. CASE Drop
  <2>1. /\ current' = None /\ Abandons
        /\ UNCHANGED <<pc, carried, mic, chain, outbound, enabled, micMuted, pushToTalkActive,
                       controls>>
    BY <1>4 DEF Drop, DropMedia
  <2>2. ASSUME Undisturbed'
        PROVE  Undisturbed /\ chain = None /\ (\A s \in Setups : pc[s] # "chain")
    <3>1. Undisturbed /\ (current # None => pc[current] \notin {"prompt", "chain"})
      BY <2>1, <2>2, GivenUpUndisturbed
    <3>2. \A s \in Setups : pc[s] # "chain"
      BY <3>1 DEF AirInv, ChainOfCurrent
    <3> QED
      BY <1>t, <3>1, <3>2 DEF AirInv, ChainOfCurrent
  <2> QED
    BY <2>1, <2>2
       DEF AirInv, LiveInv, ChainOfCurrent, OutboundAsShown, CarriesOutbound
<1>5. CASE Leave
  BY <1>5, LeftQuiet DEF Leave
<1>6. ASSUME NEW s \in Setups, WatchdogFires(s) PROVE AirInv'
  BY <1>6, LeftQuiet DEF WatchdogFires, PutOut
<1>7. ASSUME NEW s \in Setups, Rejects(s), pc[s] \notin Settled, UNCHANGED carried,
             Undisturbed => pc[s] # "chain"
      PROVE  AirInv'
  <2>1. pc' = [pc EXCEPT ![s] = "failed"]
    BY <1>7 DEF Rejects
  <2>2. CASE guard[s] = "armed"
    BY <1>t, <1>7, <2>1, <2>2, LeftQuiet DEF Rejects, PutOut
  <2>3. CASE guard[s] # "armed"
    <3>1. current # s
      BY <1>7, <2>3 DEF OpenInv, GuardInv, TypeInv, TypeOK, Settled
    <3>2. UNCHANGED <<current, carried, mic, chain, outbound, enabled, abandonedAt, micMuted,
                      pushToTalkActive, controls>>
      BY <1>7, <2>3 DEF Rejects
    <3> QED
      BY <1>t, <1>7, <2>1, <3>1, <3>2
         DEF AirInv, LiveInv, Undisturbed, ChainOfCurrent, OutboundAsShown, CarriesOutbound
  <2> QED
    BY <2>2, <2>3
<1>8. ASSUME NEW s \in Setups, Fails(s) PROVE AirInv'
  BY <1>7, <1>8 DEF Fails, Settled
\* Steps that only move a setup on, past the chain once it has its track.
<1>9. ASSUME NEW s \in Setups, NEW step, pc' = [pc EXCEPT ![s] = step],
             pc[s] # "chain", step \notin {"idle", "chain"},
             UNCHANGED <<current, carried, mic, chain, outbound, enabled, abandonedAt, micMuted,
                         pushToTalkActive>>,
             controls' = controls \/ (mic # None /\ chain = None /\ controls' = TRUE),
             step \in {"dropped", "failed"} => current # s,
             step \in {"send", "produce", "recv", "list", "feeds", "done"} /\ Undisturbed =>
                 \/ mic # None /\ chain = None
                 \/ pc[s] \in {"send", "produce", "recv", "list", "feeds", "done"},
             step \in {"produce", "recv", "list", "feeds", "done"} =>
                 pc[s] \in {"produce", "recv", "list", "feeds", "done"}
      PROVE  AirInv'
  <2>1. LiveInv'
    BY <1>t, <1>9 DEF AirInv, LiveInv
  <2>2. ASSUME Undisturbed PROVE ChainOfCurrent' /\ OutboundAsShown' /\ CarriesOutbound'
    <3> USE <1>t, <1>9, <2>2 DEF AirInv
    <3>1. ChainOfCurrent'
      BY DEF ChainOfCurrent
    <3>2. OutboundAsShown'
      BY DEF OutboundAsShown
    <3>3. CarriesOutbound'
      BY DEF CarriesOutbound, OutboundAsShown
    <3> QED
      BY <3>1, <3>2, <3>3
  <2> QED
    BY <1>9, <2>1, <2>2 DEF AirInv, Undisturbed
<1>10. ASSUME NEW s \in Setups, GotCapabilities(s) PROVE AirInv'
  <2>1. /\ pc[s] = "caps" /\ pc' = [pc EXCEPT ![s] = "load"]
        /\ UNCHANGED <<current, carried, mic, chain, outbound, enabled, abandonedAt, micMuted,
                       pushToTalkActive, controls>>
    BY <1>10 DEF GotCapabilities, GoesTo
  <2>2. "load" \notin {"idle", "chain", "dropped", "failed", "send", "produce", "recv", "list",
                       "feeds", "done"}
    OBVIOUS
  <2> QED
    BY <1>9, <2>1, <2>2
<1>11. ASSUME NEW s \in Setups, Loaded(s) PROVE AirInv'
  <2>1. CASE Stale(s)
    BY <1>9, <1>11, <2>1 DEF Loaded, GivesUp, Stale
  <2>2. CASE ~Stale(s) /\ mic = None
    BY <1>9, <1>11, <2>2 DEF Loaded, GoesTo
  <2>3. CASE ~Stale(s) /\ mic # None
    <3>1. Undisturbed => chain = None
      BY <1>t, <1>11, <2>3 DEF Loaded, Stale, AirInv, ChainOfCurrent
    <3>2. /\ pc[s] = "load" /\ current = s /\ pc' = [pc EXCEPT ![s] = "send"] /\ controls' = TRUE
          /\ UNCHANGED <<current, carried, mic, chain, outbound, enabled, abandonedAt, micMuted,
                         pushToTalkActive>>
      BY <1>11, <2>3 DEF Loaded, Stale, Asks
    <3>3. CASE Undisturbed
      BY <1>9, <2>3, <3>1, <3>2, <3>3
    <3>4. CASE ~Undisturbed
      BY <1>a, <1>t, <3>2, <3>4 DEF LiveInv
    <3> QED
      BY <3>3, <3>4
  <2> QED
    BY <2>1, <2>2, <2>3
<1>12. ASSUME NEW s \in Setups, Granted(s) PROVE AirInv'
  <2>1. /\ UNCHANGED <<current, carried, abandonedAt, micMuted, pushToTalkActive, controls>>
        /\ enabled' = enabled \union {Raw(s)} /\ prompt[s] = "pending"
    BY <1>12 DEF Granted
  <2>2. CASE Undisturbed
    <3>1. pc[s] = "prompt" /\ current = s /\ mic = None
      BY <2>1, <2>2 DEF Undisturbed, OpenInv, MicInv
    <3>2. /\ mic' = s /\ chain' = s /\ outbound' = None /\ pc' = [pc EXCEPT ![s] = "chain"]
      BY <1>12, <3>1 DEF Granted, Stale, GoesTo
    <3>3. \A r \in Setups : pc[r] # "chain"
      BY <1>t, <2>2, <3>1 DEF AirInv, ChainOfCurrent
    <3>4. ~controls
      BY <2>2, <3>1 DEF AirInv, ChainOfCurrent
    <3>5. LiveInv'
      BY <1>t, <2>1, <3>1, <3>2 DEF LiveInv
    <3>6. ChainOfCurrent'
      BY <1>t, <2>1, <3>1, <3>2, <3>3, <3>4 DEF ChainOfCurrent
    <3>7. OutboundAsShown' /\ CarriesOutbound'
      BY <1>t, <2>1, <3>1, <3>2 DEF OutboundAsShown, CarriesOutbound
    <3> QED
      BY <3>5, <3>6, <3>7 DEF AirInv
  <2>3. CASE ~Undisturbed
    <3>1. LiveInv'
      BY <1>t, <1>12, <2>1 DEF Granted, Stale, GivesUp, GoesTo, AirInv, LiveInv
    <3> QED
      BY <1>a, <2>1, <2>3, <3>1
  <2> QED
    BY <2>2, <2>3
<1>13. ASSUME NEW s \in Setups, NEW t \in {Raw(s), Gate(s)}, ChainBuilt(s, t) PROVE AirInv'
  <2>1. pc[s] = "chain" /\ UNCHANGED <<current, carried, abandonedAt, mic>>
    BY <1>13 DEF ChainBuilt, Built
  <2>2. CASE Undisturbed
    <3>1. current = s /\ chain = s /\ mic = s /\ Raw(s) \in enabled
      BY <2>1, <2>2 DEF AirInv, ChainOfCurrent, OpenInv, MicInv, Undisturbed
    <3>2. /\ outbound' = t /\ chain' = None /\ pc' = [pc EXCEPT ![s] = "send"]
          /\ micMuted' = TRUE /\ controls' = TRUE /\ UNCHANGED pushToTalkActive
          /\ enabled' = Apply(enabled \union {t}, t, Talking(TRUE, pushToTalkActive))
      BY <1>13, <3>1 DEF ChainBuilt, Built, Stale, Asks
    <3>3. \A r \in Setups : pc'[r] # "chain"
      BY <1>t, <2>1, <2>2, <3>1, <3>2 DEF AirInv, ChainOfCurrent
    <3>4. t # None /\ t \in {Raw(mic), Gate(mic)}
      BY <3>1
    <3>5. /\ t \in enabled' <=> Talking(micMuted', pushToTalkActive')
          /\ t = Gate(s) => Raw(s) \in enabled'
      BY <3>1, <3>2, <3>4 DEF Apply
    <3>6. LiveInv' /\ ChainOfCurrent'
      BY <1>t, <2>1, <3>1, <3>2, <3>3 DEF LiveInv, ChainOfCurrent
    <3>7. OutboundAsShown'
      BY <2>1, <3>1, <3>2, <3>4, <3>5 DEF OutboundAsShown
    <3>8. CarriesOutbound'
      BY <1>t, <2>1, <3>1, <3>2, <3>4 DEF CarriesOutbound
    <3> QED
      BY <3>6, <3>7, <3>8 DEF AirInv
  <2>3. CASE ~Undisturbed
    <3>1. \/ current # s /\ pc' = [pc EXCEPT ![s] = "dropped"]
          \/ pc' = [pc EXCEPT ![s] = "send"]
      BY <1>13 DEF ChainBuilt, Built, Stale, GivesUp, Asks
    <3>2. LiveInv'
      BY <1>t, <2>1, <3>1 DEF AirInv, LiveInv
    <3> QED
      BY <1>a, <2>1, <2>3, <3>2
  <2> QED
    BY <2>2, <2>3
<1>14. ASSUME NEW s \in Setups, GotSendTransport(s) PROVE AirInv'
  <2>1. pc[s] = "send" /\ current = s
    BY <1>t, <1>14 DEF GotSendTransport, Answered
  <2>2. CASE OwnTrack(outbound, mic) \in open
    <3>1. /\ pc' = [pc EXCEPT ![s] = "produce"]
          /\ carried' = [carried EXCEPT ![s] = OwnTrack(outbound, mic)]
          /\ UNCHANGED <<current, abandonedAt, mic, chain, outbound, enabled, micMuted,
                         pushToTalkActive, controls>>
      BY <1>14, <2>2 DEF GotSendTransport, GoesTo
    <3>2. LiveInv'
      BY <1>t, <2>1, <3>1 DEF LiveInv
    <3>3. ASSUME Undisturbed PROVE ChainOfCurrent' /\ OutboundAsShown' /\ CarriesOutbound'
      <4>1. outbound # None
        BY <2>1, <3>3 DEF AirInv, CarriesOutbound
      <4>2. ChainOfCurrent'
        BY <1>t, <2>1, <3>1, <3>3 DEF AirInv, ChainOfCurrent
      <4>3. OutboundAsShown'
        BY <3>1, <3>3 DEF AirInv, OutboundAsShown
      <4>4. CarriesOutbound'
        BY <1>t, <2>1, <3>1, <4>1 DEF CarriesOutbound, OwnTrack
      <4> QED
        BY <4>2, <4>3, <4>4
    <3> QED
      BY <3>1, <3>2, <3>3 DEF AirInv, Undisturbed
  <2>3. CASE OwnTrack(outbound, mic) \notin open
    BY <1>7, <1>14, <2>1, <2>3 DEF GotSendTransport, Settled
  <2> QED
    BY <2>2, <2>3
<1>15. ASSUME NEW s \in Setups, Produced(s) PROVE AirInv'
  <2>1. CASE Stale(s)
    BY <1>9, <1>15, <2>1 DEF Produced, Stale, GivesUp
  <2>2. CASE ~Stale(s)
    <3>1. /\ pc[s] = "produce" /\ current = s /\ pc' = [pc EXCEPT ![s] = "recv"]
          /\ enabled' = Apply(enabled, OwnTrack(outbound, mic), Talking(micMuted, pushToTalkActive))
          /\ UNCHANGED <<current, carried, abandonedAt, mic, chain, outbound, micMuted,
                         pushToTalkActive, controls>>
      BY <1>15, <2>2 DEF Produced, Stale, Asks
    <3>2. LiveInv'
      BY <1>t, <3>1 DEF LiveInv
    <3>3. ASSUME Undisturbed PROVE ChainOfCurrent' /\ OutboundAsShown' /\ CarriesOutbound'
      <4>1. outbound # None /\ chain = None
        BY <1>t, <3>1, <3>3 DEF AirInv, CarriesOutbound, ChainOfCurrent
      <4>2. ChainOfCurrent'
        BY <1>t, <3>1, <3>3, <4>1 DEF AirInv, ChainOfCurrent
      <4>3. OutboundAsShown'
        BY <1>t, <3>1, <3>3, <4>1 DEF AirInv, OutboundAsShown, OwnTrack, Apply
      <4>4. CarriesOutbound'
        BY <1>t, <3>1, <3>3 DEF AirInv, CarriesOutbound
      <4> QED
        BY <4>2, <4>3, <4>4
    <3> QED
      BY <3>1, <3>2, <3>3 DEF AirInv, Undisturbed
  <2> QED
    BY <2>1, <2>2
<1>16. ASSUME NEW s \in Setups, GotRecvTransport(s) \/ GotProducers(s) \/ GotFeeds(s)
       PROVE  AirInv'
  <2>1. UNCHANGED <<current, carried, mic, chain, outbound, enabled, abandonedAt, micMuted,
                    pushToTalkActive, controls>>
    BY <1>16 DEF GotRecvTransport, GotProducers, GotFeeds
  <2>2. PICK step \in {"list", "feeds", "done"} :
            pc' = [pc EXCEPT ![s] = step] /\ pc[s] \in {"recv", "list", "feeds"}
    BY <1>16 DEF GotRecvTransport, GotProducers, GotFeeds, Asks
  <2> QED
    BY <1>9, <2>1, <2>2
<1>17. ASSUME NEW muted \in BOOLEAN, NEW ptt \in BOOLEAN, SetTalk(muted, ptt) PROVE AirInv'
  <2>1. /\ controls /\ mic # None /\ micMuted' = muted /\ pushToTalkActive' = ptt
        /\ enabled' = Apply(enabled, OwnTrack(outbound, mic), Talking(muted, ptt))
        /\ UNCHANGED <<current, pc, carried, abandonedAt, mic, chain, outbound, controls>>
    BY <1>17 DEF SetTalk
  <2>2. LiveInv'
    BY <2>1 DEF AirInv, LiveInv
  <2>3. ASSUME Undisturbed PROVE ChainOfCurrent' /\ OutboundAsShown' /\ CarriesOutbound'
    <3>1. chain = None /\ outbound # None
      BY <2>1, <2>3 DEF AirInv, ChainOfCurrent, OutboundAsShown
    <3>2. ChainOfCurrent' /\ CarriesOutbound'
      BY <2>1, <2>3, <3>1 DEF AirInv, ChainOfCurrent, CarriesOutbound
    <3>3. OutboundAsShown'
      BY <1>t, <2>1, <2>3, <3>1 DEF AirInv, OutboundAsShown, OwnTrack, Apply
    <3> QED
      BY <3>2, <3>3
  <2> QED
    BY <2>1, <2>2, <2>3 DEF AirInv, Undisturbed
<1>18. CASE ToggleMute \/ StartPushToTalk \/ StopPushToTalk
  <2>1. /\ (~micMuted) \in BOOLEAN /\ (pushToTalkActive /\ ~micMuted) \in BOOLEAN
        /\ TRUE \in BOOLEAN /\ FALSE \in BOOLEAN
    BY <1>t
  <2> QED
    BY <1>t, <1>17, <1>18, <2>1 DEF ToggleMute, StartPushToTalk, StopPushToTalk
<1> QED
  BY <1>2, <1>3, <1>4, <1>5, <1>6, <1>8, <1>10, <1>11, <1>12, <1>13, <1>14, <1>15, <1>16, <1>18
     DEF Next, Step

LEMMA InitInv == Init => TypeInv /\ AttachInv /\ IdleInv /\ OpenInv /\ AirInv
<1> SUFFICES ASSUME Init PROVE TypeInv /\ AttachInv /\ IdleInv /\ OpenInv /\ AirInv
  OBVIOUS
<1> USE SetupFacts DEF Init
<1>1. TypeInv
  BY DEF TypeInv, TypeOK, AskedInv, Settled
<1>2. AttachInv /\ IdleInv
  BY DEF AttachInv, OnlyCurrentAttaches, ProducerInv, IdleInv, IdleIsClean, ChainInv, Talking
<1>3. OpenInv
  BY DEF OpenInv, GuardInv, GivenUpInv, MicInv
<1>4. AirInv
  BY DEF AirInv, LiveInv, ChainOfCurrent, OutboundAsShown, CarriesOutbound
<1> QED
  BY <1>1, <1>2, <1>3, <1>4

LEMMA Invariance == Spec => [](TypeInv /\ AttachInv /\ IdleInv /\ OpenInv /\ AirInv)
BY InitInv, TypeStep, AttachStep, IdleStep, OpenStep, AirStep, PTL DEF Spec

\* The variables of the page stay in their ranges; a press is never on when unmuted.
THEOREM TypeCorrect == Spec => []TypeOK
BY Invariance, PTL DEF TypeInv

\* Transports and producer belong to the setup of the current connection
\* (index.html:2845-2851), however many setups are still at work.
THEOREM LateWorkAttachesNothing == Spec => []OnlyCurrentAttaches
BY Invariance, PTL DEF AttachInv

\* After leaving, nothing under way brings back media or a live button
\* (index.html:3009-3053).
THEOREM LeavingIsFinal == Spec => []IdleIsClean
BY Invariance, PTL DEF IdleInv

\* Out of a room no microphone is open, unless a setup was given up during its prompt
\* (index.html:2862-2864).
THEOREM LeavingTurnsMicOff == Spec => []MicOffOutside
<1>1. TypeInv /\ OpenInv => MicOffOutside
  BY SetupFacts DEF TypeInv, TypeOK, OpenInv, MicInv, MicOffOutside
<1> QED
  BY <1>1, Invariance, PTL

\* The room hears the microphone exactly when the button says so
\* (index.html:2209-2217, 2904-2914), unless a setup was given up while it acquired one.
THEOREM HeardAsShown == Spec => []OnAirAsShown
<1>1. TypeInv /\ AttachInv /\ AirInv => OnAirAsShown
  <2> SUFFICES ASSUME TypeInv, AttachInv, AirInv, onAir \in open, Undisturbed
               PROVE  Audible <=> Talking(micMuted, pushToTalkActive)
    BY DEF OnAirAsShown, Undisturbed
  <2>1. onAir # None /\ current # None /\ current \in Setups /\ mic \in Setups \union {None}
    BY SetupFacts DEF TypeInv, TypeOK, AttachInv, OnlyCurrentAttaches
  <2>2. pc[current] \in {"recv", "list", "feeds", "done"}
    BY <2>1 DEF TypeInv, TypeOK, Settled, AttachInv, ProducerInv, AirInv, LiveInv
  <2>3. onAir = outbound /\ outbound # None
    BY <2>1, <2>2 DEF AttachInv, OnlyCurrentAttaches, AirInv, CarriesOutbound
  <2>4. /\ mic # None /\ outbound \in {Raw(mic), Gate(mic)}
        /\ outbound \in enabled <=> Talking(micMuted, pushToTalkActive)
        /\ outbound = Gate(mic) => Raw(mic) \in enabled
    BY <2>3 DEF AirInv, OutboundAsShown
  <2>5. onAir[2] = mic
    BY <2>3, <2>4 DEF Raw, Gate
  <2>6. CASE outbound = Raw(mic)
    BY <2>3, <2>4, <2>5, <2>6 DEF Audible
  <2>7. CASE outbound = Gate(mic)
    BY <2>3, <2>4, <2>5, <2>7 DEF Audible
  <2> QED
    BY <2>4, <2>6, <2>7
<1> QED
  BY <1>1, Invariance, PTL
================================================================================
