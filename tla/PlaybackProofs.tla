----------------------------- MODULE PlaybackProofs -----------------------------
(***************************************************************************)
(* Playback for every number of admins, starts and devices: what a start   *)
(* and a stop leave behind, who is on the air, and who owns the speakers.  *)
(***************************************************************************)
EXTENDS Playback, TLAPS

\* What start() has not come to yet is not there, and a stop concerns a start that
\* has spawned its ffmpeg.
EarlyInv ==
    \A a \in Attempts :
        /\ pc[a] # "idle" => sock[a] \in Sockets
        /\ pc[a] \in {"idle", "transport"} => transport[a] = "none"
        /\ pc[a] \in {"idle", "transport", "consume"} => consumer[a] = "none"
        /\ pc[a] \in {"idle", "transport", "consume", "port"} =>
               proc[a] = "none" /\ stopPc[a] = "none"
        /\ pc[a] \in {"waitPort", "connect", "resume", "started"} => proc[a] # "none"

\* A stop closes what its start had opened before it waits.
StopInv ==
    \A a \in Attempts :
        stopPc[a] # "none" => transport[a] # "open" /\ consumer[a] # "open"

\* An open consumer is that of an admin who is there: a disconnect closes it.
MediaInv ==
    \A a \in Attempts : consumer[a] = "open" => sock[a] \in connected

\* Calls that do not overlap: one is under way at most, and no other start has the session.
AloneInv ==
    /\ ~overlapped =>
           \A a \in Attempts : Pending(a) =>
               /\ session \in {None, a}
               /\ \A b \in Attempts : Pending(b) => a = b
    /\ NoOrphan /\ StreamsToDevice

TypeInv == TypeOK /\ EarlyInv
LeftInv == StopInv /\ NothingLeft
AirInv == MediaInv /\ DepartedOffAir

--------------------------------------------------------------------------------
LEMMA AttemptFacts ==
    /\ None \notin Attempts /\ None \notin Sockets
    /\ \A a \in Attempts : a <= a
    /\ Default \in Devices /\ MaxSwitches \in Nat
BY PlaybackAssumption DEF Attempts

\* Every callback keeps the types.
LEMMA TypeStep == TypeInv /\ [Next]_vars => TypeInv'
<1> SUFFICES ASSUME TypeInv, [Next]_vars PROVE TypeInv'
  OBVIOUS
<1> USE AttemptFacts
    DEF TypeInv, TypeOK, EarlyInv, Waits, Rollbacks, selection, mediaVars, procVars
<1>1. ASSUME NEW a \in Attempts, NEW s \in Sockets, StartCall(a, s) PROVE TypeInv'
  BY <1>1 DEF StartCall, MayStart
<1>2. ASSUME NEW a \in Attempts, TransportReady(a) PROVE TypeInv'
  BY <1>2 DEF TransportReady, Answer
<1>3. ASSUME NEW a \in Attempts, ConsumeReady(a) PROVE TypeInv'
  BY <1>3 DEF ConsumeReady
<1>4. ASSUME NEW a \in Attempts, PortReserved(a) PROVE TypeInv'
  BY <1>4 DEF PortReserved
<1>5. ASSUME NEW a \in Attempts, PortTaken(a) PROVE TypeInv'
  BY <1>5 DEF PortTaken
<1>6. ASSUME NEW a \in Attempts, Connected(a) PROVE TypeInv'
  BY <1>6 DEF Connected
<1>7. ASSUME NEW a \in Attempts, Resumed(a) PROVE TypeInv'
  BY <1>7 DEF Resumed, Answer
<1>8. ASSUME NEW a \in Attempts, RollBack(a) PROVE TypeInv'
  BY <1>8 DEF RollBack, MayFail, AskToEnd, Kill, Live
<1>9. ASSUME NEW a \in Attempts, RollBackEscalates(a) PROVE TypeInv'
  BY <1>9 DEF RollBackEscalates, Kill, Live
<1>10. ASSUME NEW a \in Attempts, RollBackReturns(a) PROVE TypeInv'
  BY <1>10 DEF RollBackReturns, Resolved, CloseMedia, Answer, Live
<1>11. ASSUME NEW a \in Attempts, StopEscalates(a) PROVE TypeInv'
  BY <1>11 DEF StopEscalates, Kill, Live
<1>12. ASSUME NEW a \in Attempts, StopReturns(a) PROVE TypeInv'
  BY <1>12 DEF StopReturns, Resolved, Answer, Live
<1>13. ASSUME NEW a \in Attempts, Bind(a) PROVE TypeInv'
  BY <1>13 DEF Bind, Live
<1>14. ASSUME NEW a \in Attempts, Wedge(a) PROVE TypeInv'
  BY <1>14 DEF Wedge, Live
<1>15. ASSUME NEW a \in Attempts, ProcessExit(a) PROVE TypeInv'
  BY <1>15 DEF ProcessExit, CloseMedia, Live
<1>16. ASSUME NEW s \in Sockets, AdminOff(s) PROVE TypeInv'
  BY <1>16 DEF AdminOff, Owns, Take, CloseMedia, AskToEnd, Kill, Live
<1>17. ASSUME NEW s \in Sockets, Disconnect(s) PROVE TypeInv'
  BY <1>17 DEF Disconnect, Owns, CloseConsumersOf, AskToEnd, Kill, Live
<1>18. ASSUME NEW d \in Devices, SetDevice(d) PROVE TypeInv'
  BY <1>18 DEF SetDevice, Take, CloseMedia, AskToEnd, Kill, Live
<1>19. CASE UNCHANGED vars
  BY <1>19 DEF vars
<1> QED
  BY <1>1, <1>2, <1>3, <1>4, <1>5, <1>6, <1>7, <1>8, <1>9, <1>10, <1>11, <1>12, <1>13,
     <1>14, <1>15, <1>16, <1>17, <1>18, <1>19
     DEF Next, StartProgress, StopProgress

\* Whatever ends a start or a stop closes what it had opened.
LEMMA LeftStep == TypeInv /\ LeftInv /\ [Next]_vars => LeftInv'
<1> SUFFICES ASSUME TypeInv /\ LeftInv, [Next]_vars PROVE LeftInv'
  OBVIOUS
<1> USE AttemptFacts
    DEF TypeInv, TypeOK, EarlyInv, LeftInv, StopInv, NothingLeft, Live, Rollbacks, Waits,
        selection, mediaVars, procVars
<1>1. ASSUME NEW a \in Attempts, NEW s \in Sockets, StartCall(a, s) PROVE LeftInv'
  BY <1>1 DEF StartCall, MayStart
<1>2. ASSUME NEW a \in Attempts, TransportReady(a) PROVE LeftInv'
  BY <1>2 DEF TransportReady
<1>3. ASSUME NEW a \in Attempts, ConsumeReady(a) PROVE LeftInv'
  BY <1>3 DEF ConsumeReady
<1>4. ASSUME NEW a \in Attempts, PortReserved(a) PROVE LeftInv'
  BY <1>4 DEF PortReserved
<1>5. ASSUME NEW a \in Attempts, Resumed(a) PROVE LeftInv'
  BY <1>5 DEF Resumed
<1>6. ASSUME NEW a \in Attempts, RollBack(a) PROVE LeftInv'
  BY <1>6 DEF RollBack, MayFail, AskToEnd, Kill
<1>7. ASSUME NEW a \in Attempts, RollBackEscalates(a) PROVE LeftInv'
  BY <1>7 DEF RollBackEscalates, Kill
<1>8. ASSUME NEW a \in Attempts, RollBackReturns(a) PROVE LeftInv'
  BY <1>8 DEF RollBackReturns, Resolved, CloseMedia
<1>9. ASSUME NEW a \in Attempts, StopEscalates(a) PROVE LeftInv'
  BY <1>9 DEF StopEscalates, Kill
<1>10. ASSUME NEW a \in Attempts, StopReturns(a) PROVE LeftInv'
  BY <1>10 DEF StopReturns, Resolved
<1>11. ASSUME NEW a \in Attempts, Wedge(a) PROVE LeftInv'
  BY <1>11 DEF Wedge
<1>12. ASSUME NEW a \in Attempts, ProcessExit(a) PROVE LeftInv'
  BY <1>12 DEF ProcessExit, CloseMedia
<1>13. ASSUME NEW s \in Sockets, AdminOff(s) PROVE LeftInv'
  BY <1>13 DEF AdminOff, Owns, Take, CloseMedia, AskToEnd, Kill
<1>14. ASSUME NEW s \in Sockets, Disconnect(s) PROVE LeftInv'
  BY <1>14 DEF Disconnect, Owns, CloseConsumersOf, AskToEnd, Kill
<1>15. ASSUME NEW d \in Devices, SetDevice(d) PROVE LeftInv'
  BY <1>15 DEF SetDevice, Take, CloseMedia, AskToEnd, Kill
<1>16. CASE UNCHANGED <<pc, transport, consumer, proc, wedged, stopPc>>
  BY <1>16
<1> QED
  BY <1>1, <1>2, <1>3, <1>4, <1>5, <1>6, <1>7, <1>8, <1>9, <1>10, <1>11, <1>12, <1>13,
     <1>14, <1>15, <1>16
     DEF Next, StartProgress, StopProgress, vars, PortTaken, Connected, Bind

\* A disconnect closes the consumer of its start, so that resume() fails.
LEMMA AirStep == TypeInv /\ AirInv /\ [Next]_vars => AirInv'
<1> SUFFICES ASSUME TypeInv /\ AirInv, [Next]_vars PROVE AirInv'
  OBVIOUS
<1> USE AttemptFacts
    DEF TypeInv, TypeOK, EarlyInv, AirInv, MediaInv, DepartedOffAir, Waits, Rollbacks,
        selection, mediaVars, procVars
<1>1. ASSUME NEW a \in Attempts, NEW s \in Sockets, StartCall(a, s) PROVE AirInv'
  BY <1>1 DEF StartCall, MayStart
<1>2. ASSUME NEW a \in Attempts, TransportReady(a) PROVE AirInv'
  BY <1>2 DEF TransportReady
<1>3. ASSUME NEW a \in Attempts, ConsumeReady(a) PROVE AirInv'
  BY <1>3 DEF ConsumeReady
<1>4. ASSUME NEW a \in Attempts, PortReserved(a) PROVE AirInv'
  BY <1>4 DEF PortReserved
<1>5. ASSUME NEW a \in Attempts, PortTaken(a) PROVE AirInv'
  BY <1>5 DEF PortTaken
<1>6. ASSUME NEW a \in Attempts, Connected(a) PROVE AirInv'
  BY <1>6 DEF Connected
<1>7. ASSUME NEW a \in Attempts, Resumed(a) PROVE AirInv'
  BY <1>7 DEF Resumed
<1>8. ASSUME NEW a \in Attempts, RollBack(a) PROVE AirInv'
  BY <1>8 DEF RollBack, MayFail, AskToEnd, Kill
<1>9. ASSUME NEW a \in Attempts, RollBackReturns(a) PROVE AirInv'
  BY <1>9 DEF RollBackReturns, Resolved, CloseMedia
<1>10. ASSUME NEW a \in Attempts, ProcessExit(a) PROVE AirInv'
  BY <1>10 DEF ProcessExit, CloseMedia
<1>11. ASSUME NEW s \in Sockets, AdminOff(s) PROVE AirInv'
  BY <1>11 DEF AdminOff, Owns, Take, CloseMedia, AskToEnd, Kill
<1>12. ASSUME NEW s \in Sockets, Disconnect(s) PROVE AirInv'
  BY <1>12 DEF Disconnect, Owns, CloseConsumersOf, AskToEnd, Kill
<1>13. ASSUME NEW d \in Devices, SetDevice(d) PROVE AirInv'
  BY <1>13 DEF SetDevice, Take, CloseMedia, AskToEnd, Kill
<1>14. CASE UNCHANGED <<connected, session, pc, sock, consumer>>
  BY <1>14
<1> QED
  BY <1>1, <1>2, <1>3, <1>4, <1>5, <1>6, <1>7, <1>8, <1>9, <1>10, <1>11, <1>12, <1>13,
     <1>14
     DEF Next, StartProgress, StopProgress, vars, RollBackEscalates, StopEscalates,
         StopReturns, Bind, Wedge

\* Without overlapping calls no ffmpeg but that of the session is left alone.
LEMMA AloneStep == TypeInv /\ AloneInv /\ [Next]_vars => AloneInv'
<1> SUFFICES ASSUME TypeInv /\ AloneInv, [Next]_vars PROVE AloneInv'
  OBVIOUS
<1> USE AttemptFacts
    DEF TypeInv, TypeOK, EarlyInv, AloneInv, NoOrphan, StreamsToDevice, Pending, Ending,
        Live, Waits, Rollbacks, selection, mediaVars, procVars
<1>1. ASSUME NEW a \in Attempts, NEW s \in Sockets, StartCall(a, s) PROVE AloneInv'
  <2>1. session = None /\ UNCHANGED <<session, device, proc, procDevice, signal>>
    BY <1>1 DEF StartCall, MayStart
  <2>2. /\ pc' = [pc EXCEPT ![a] = "transport"]
        /\ overlapped' = (overlapped \/ \E b \in Attempts : Pending(b))
    BY <1>1 DEF StartCall
  <2>3. ~overlapped' => ~overlapped /\ ~\E b \in Attempts : Pending(b)
    BY <2>2, Zenon
  <2>4. ~overlapped' => \A b \in Attempts : Pending(b)' => b = a
    BY <2>2, <2>3
  <2> QED
    BY <2>1, <2>2, <2>3, <2>4
<1>2. ASSUME NEW a \in Attempts, TransportReady(a) PROVE AloneInv'
  BY <1>2 DEF TransportReady
<1>3. ASSUME NEW a \in Attempts, ConsumeReady(a) PROVE AloneInv'
  BY <1>3 DEF ConsumeReady
<1>4. ASSUME NEW a \in Attempts, PortReserved(a) PROVE AloneInv'
  BY <1>4 DEF PortReserved
<1>5. ASSUME NEW a \in Attempts, PortTaken(a) PROVE AloneInv'
  BY <1>5 DEF PortTaken
<1>6. ASSUME NEW a \in Attempts, Connected(a) PROVE AloneInv'
  BY <1>6 DEF Connected
<1>7. ASSUME NEW a \in Attempts, Resumed(a) PROVE AloneInv'
  BY <1>7 DEF Resumed
<1>8. ASSUME NEW a \in Attempts, RollBack(a) PROVE AloneInv'
  BY <1>8 DEF RollBack, MayFail, AskToEnd, Kill
<1>9. ASSUME NEW a \in Attempts, RollBackEscalates(a) PROVE AloneInv'
  BY <1>9 DEF RollBackEscalates, Kill
<1>10. ASSUME NEW a \in Attempts, RollBackReturns(a) PROVE AloneInv'
  BY <1>10 DEF RollBackReturns, Resolved, CloseMedia
<1>11. ASSUME NEW a \in Attempts, StopEscalates(a) PROVE AloneInv'
  BY <1>11 DEF StopEscalates, Kill
<1>12. ASSUME NEW a \in Attempts, ProcessExit(a) PROVE AloneInv'
  BY <1>12 DEF ProcessExit, CloseMedia
<1>13. ASSUME NEW s \in Sockets, AdminOff(s) PROVE AloneInv'
  BY <1>13 DEF AdminOff, Owns, Take, CloseMedia, AskToEnd, Kill
<1>14. ASSUME NEW s \in Sockets, Disconnect(s) PROVE AloneInv'
  BY <1>14 DEF Disconnect, Owns, CloseConsumersOf, AskToEnd, Kill
<1>15. ASSUME NEW d \in Devices, SetDevice(d) PROVE AloneInv'
  BY <1>15 DEF SetDevice, Take, CloseMedia, AskToEnd, Kill
<1>16. CASE UNCHANGED <<device, session, pc, overlapped, proc, procDevice, signal>>
  BY <1>16
<1> QED
  BY <1>1, <1>2, <1>3, <1>4, <1>5, <1>6, <1>7, <1>8, <1>9, <1>10, <1>11, <1>12, <1>13,
     <1>14, <1>15, <1>16
     DEF Next, StartProgress, StopProgress, vars, StopReturns, Bind, Wedge

--------------------------------------------------------------------------------
LEMMA InitInv == Init => TypeInv /\ LeftInv /\ AirInv /\ AloneInv
<1> SUFFICES ASSUME Init PROVE TypeInv /\ LeftInv /\ AirInv /\ AloneInv
  OBVIOUS
<1> USE AttemptFacts DEF Init
<1>1. TypeInv
  <2>1. EarlyInv
    BY DEF EarlyInv
  <2>2. /\ connected \subseteq Sockets /\ wedged \subseteq Attempts /\ bound \subseteq Attempts
        /\ device \in Devices /\ switches \in 0..MaxSwitches /\ session = None
    OBVIOUS
  <2>3. overlapped \in BOOLEAN
    OBVIOUS
  <2>4. pc \in [Attempts -> {"idle", "started", "failed"} \union Waits \union Rollbacks]
    OBVIOUS
  <2>5. TypeOK
    BY <2>2, <2>3, <2>4 DEF TypeOK
  <2> QED
    BY <2>1, <2>5 DEF TypeInv
<1>2. LeftInv
  BY DEF LeftInv, StopInv, NothingLeft
<1>3. AirInv
  BY DEF AirInv, MediaInv, DepartedOffAir
<1>4. AloneInv
  BY DEF AloneInv, NoOrphan, StreamsToDevice, Pending, Waits, Rollbacks, Live
<1> QED
  BY <1>1, <1>2, <1>3, <1>4

LEMMA Invariance == Spec => [](TypeInv /\ LeftInv /\ AirInv /\ AloneInv)
BY InitInv, TypeStep, LeftStep, AirStep, AloneStep, PTL DEF Spec

\* The variables of the output stay in their ranges; a session has an ffmpeg, and no stop.
THEOREM TypeCorrect == Spec => []TypeOK
BY Invariance, PTL DEF TypeInv

\* A start that failed and a stop that returned leave nothing but a wedged process
\* (audio.js:584-646), whatever overlaps.
THEOREM NothingStays == Spec => []NothingLeft
BY Invariance, PTL DEF LeftInv

\* An admin who has left is never on the air (server.js:742-760), whatever overlaps.
THEOREM NobodyDepartedOnAir == Spec => []DepartedOffAir
BY Invariance, PTL DEF AirInv

\* Without overlapping calls of start() every ffmpeg is the session's or is ending.
THEOREM NoneOrphaned == Spec => []NoOrphan
BY Invariance, PTL DEF AloneInv

\* ... and the one that streams is on the selected device (audio.js:461-470).
THEOREM StreamsWhereSelected == Spec => []StreamsToDevice
BY Invariance, PTL DEF AloneInv

--------------------------------------------------------------------------------
LEMMA OwnerInit == Init => Output!Init
BY DEF Init, Output!Init, Owner

\* Only the spawn of a start takes the speakers, and it finds them free.
LEMMA OwnerStep ==
    TypeInv /\ AloneInv /\ [Next]_vars => [~overlapped' => Output!Next]_Owner
<1> SUFFICES ASSUME TypeInv, AloneInv, [Next]_vars, Owner' # Owner, ~overlapped'
             PROVE  Output!Next
  OBVIOUS
<1> USE AttemptFacts DEF TypeInv, TypeOK, EarlyInv, AloneInv, Pending, Waits, Rollbacks, Owner
<1>1. session # None => Owner \in Sockets
  BY DEF EarlyInv
<1>2. Owner' = None /\ session # None => Output!Next
  BY <1>1 DEF Output!Next, Output!Release
<1>3. ASSUME NEW a \in Attempts, NEW s \in Sockets, StartCall(a, s) PROVE FALSE
  BY <1>3 DEF StartCall
<1>4. ASSUME NEW a \in Attempts, PortReserved(a) PROVE Output!Next
  <2>1. session' = a /\ sock' = sock /\ overlapped' = overlapped /\ sock[a] \in Sockets
    BY <1>4 DEF PortReserved
  <2>2. session = None
    BY <1>4, <2>1 DEF PortReserved
  <2> QED
    BY <2>1, <2>2 DEF Output!Next, Output!Acquire
<1>5. CASE session' = None /\ UNCHANGED sock
  BY <1>2, <1>5
<1>6. CASE UNCHANGED <<session, sock>>
  BY <1>6
<1>7. ASSUME NEW a \in Attempts, RollBack(a) PROVE Output!Next
  BY <1>5, <1>7 DEF RollBack
<1>8. ASSUME NEW a \in Attempts, ProcessExit(a) PROVE Output!Next
  BY <1>5, <1>6, <1>8 DEF ProcessExit
<1>9. ASSUME NEW s \in Sockets, AdminOff(s) \/ Disconnect(s) PROVE Output!Next
  BY <1>5, <1>6, <1>9 DEF AdminOff, Take, Disconnect
<1>10. ASSUME NEW d \in Devices, SetDevice(d) PROVE Output!Next
  BY <1>5, <1>6, <1>10 DEF SetDevice, Take
<1>11. ASSUME NEW a \in Attempts, StopProgress(a) \/ Bind(a) \/ Wedge(a) PROVE Output!Next
  BY <1>6, <1>11 DEF StopProgress, StopEscalates, StopReturns, Bind, Wedge
<1>12. ASSUME NEW a \in Attempts, StartProgress(a), ~PortReserved(a), ~RollBack(a)
       PROVE  Output!Next
  BY <1>6, <1>12
     DEF StartProgress, TransportReady, ConsumeReady, PortTaken, Connected, Resumed,
         RollBackEscalates, RollBackReturns
<1>13. CASE UNCHANGED vars
  BY <1>6, <1>13 DEF vars
<1> QED
  BY <1>3, <1>4, <1>7, <1>8, <1>9, <1>10, <1>11, <1>12, <1>13 DEF Next

\* Playback implements Speaker while calls of start() do not overlap.
THEOREM HandoverThroughFree == Spec => OwnerHandover
BY OwnerInit, OwnerStep, Invariance, PTL DEF Spec, OwnerHandover
=================================================================================
