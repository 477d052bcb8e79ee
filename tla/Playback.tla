-------------------------------- MODULE Playback --------------------------------
(***************************************************************************)
(* AudioPlayback of src/audio.js with its callers in src/server.js: an     *)
(* admin's microphone is streamed to the building's speakers through a     *)
(* PlainTransport, a consumer and one ffmpeg that reads an SDP file.       *)
(*                                                                         *)
(* An attempt is one call of start() with everything it creates: transport,*)
(* consumer, SDP contents and ffmpeg.  Every await of start() and stop()   *)
(* is a value of pc or stopPc, and anything may happen in between.  The    *)
(* exit of a process and the delivery of its "exit" event are one step;    *)
(* ffmpeg is assumed to be executable.                                     *)
(***************************************************************************)
EXTENDS Naturals, FiniteSets

CONSTANTS Sockets,    \* connections of admins, each with an open microphone
          MaxStarts,  \* bound: calls of start() that pass its checks
          MaxSwitches, \* bound: changes of the output device
          Devices,    \* the output devices of the machine
          Default,    \* the device selected at boot
          None

ASSUME PlaybackAssumption ==
    /\ MaxStarts \in Nat /\ MaxSwitches \in Nat
    /\ Default \in Devices
    /\ None \notin Sockets /\ None \notin Nat

\* Calls of start(), numbered in the order they are made
Attempts == 1..MaxStarts

VARIABLES
    connected,  \* the sockets whose peer, and so whose producer, still exists
    awaiting,   \* the attempt whose start or stop a client is waiting for
    device,     \* this.settings.device
    switches,   \* how often it was changed
    session,    \* this.session: the attempt it holds
    pc,         \* where each start() is
    sock,       \* socketId of each attempt
    transport,  \* "none", "open" or "closed"
    consumer,   \* "none", "open" or "closed"
    proc,       \* "none", "up" or "gone" (exitCode or signalCode is set)
    procDevice, \* the device in the ffmpeg arguments of each attempt
    signal,     \* the strongest signal sent to each ffmpeg
    wedged,     \* processes stuck in uninterruptible IO
    bound,      \* the attempts whose ffmpeg has bound its listenPort
    sdp,        \* the attempt whose SDP is in the file of a socket
    stopPc,     \* where the one stop() that took an attempt is
    overlapped  \* history: two calls of start() have been under way at once

selection == <<device, switches>>
mediaVars == <<transport, consumer>>
procVars == <<proc, procDevice, signal, wedged, bound>>
vars == <<connected, awaiting, selection, session, pc, sock, mediaVars, procVars,
          sdp, stopPc, overlapped>>

--------------------------------------------------------------------------------
Waits == {"transport", "consume", "port", "waitPort", "connect", "resume"}
Rollbacks == {"rollback", "rollbackKilled"}

\* start() has not returned yet.
Pending(a) == pc[a] \in Waits \union Rollbacks

Live(a) == proc[a] = "up"

\* ffmpeg has been told to end.
Ending(a) == signal[a] # "none"

\* child.kill; the mutant signals nothing.
NoSignal(a, s) == UNCHANGED signal
Kill(a, s) == signal' = [signal EXCEPT ![a] = IF @ = "kill" THEN @ ELSE s]

\* terminateChild(child) up to its await: a process that is there gets a SIGTERM.
AskToEnd(a) == IF Live(a) THEN Kill(a, "term") ELSE UNCHANGED signal

\* terminateChild has resolved, `killed` telling whether its SIGKILL was sent.
\* The mutant does not wait for the process.
ResolvedAtOnce(a, killed) == TRUE
Resolved(a, killed) == ~Live(a) \/ (killed /\ a \in wedged)

\* consumer.close() and transport.close()
CloseMedia(a) ==
    /\ consumer' = [consumer EXCEPT ![a] = IF @ = "open" THEN "closed" ELSE @]
    /\ transport' = [transport EXCEPT ![a] = "closed"]

\* The part of stop() before its await, for the attempt the session holds.
Take(a) ==
    /\ session' = None
    /\ CloseMedia(a)
    /\ AskToEnd(a)
    /\ stopPc' = [stopPc EXCEPT ![a] = "grace"]

\* stop(s) does nothing unless s owns the session.
Owns(s) == session # None /\ sock[session] = s

\* The session check at the head of start(); the mutant drops it.
AnySession(s) == TRUE
MayStart(s) == session = None

\* The answer of start() reaches the client that waits for it.
Answer(a) == awaiting' = [s \in Sockets |-> IF awaiting[s] = a THEN None ELSE awaiting[s]]

--------------------------------------------------------------------------------
Init ==
    /\ connected = Sockets
    /\ awaiting = [s \in Sockets |-> None]
    /\ device = Default /\ switches = 0
    /\ session = None
    /\ pc = [a \in Attempts |-> "idle"]
    /\ sock = [a \in Attempts |-> None]
    /\ transport = [a \in Attempts |-> "none"]
    /\ consumer = [a \in Attempts |-> "none"]
    /\ proc = [a \in Attempts |-> "none"]
    /\ procDevice = [a \in Attempts |-> Default]
    /\ signal = [a \in Attempts |-> "none"]
    /\ wedged = {}
    /\ bound = {}
    /\ sdp = [s \in Sockets |-> None]
    /\ stopPc = [a \in Attempts |-> "none"]
    /\ overlapped = FALSE

\* setPlayback {enabled: true}, whose client awaits one answer at a time, up to
\* createPlainTransport.  A refused call changes nothing.
StartCall(a, s) ==
    /\ \A b \in Attempts : pc[b] = "idle" <=> a <= b
    /\ s \in connected /\ awaiting[s] = None
    /\ MayStart(s)
    /\ pc' = [pc EXCEPT ![a] = "transport"]
    /\ sock' = [sock EXCEPT ![a] = s]
    /\ awaiting' = [awaiting EXCEPT ![s] = a]
    /\ overlapped' = (overlapped \/ \E b \in Attempts : Pending(b))
    /\ UNCHANGED <<connected, selection, session, mediaVars, procVars, sdp, stopPc>>

\* createPlainTransport() resolves, or rejects outside the try block.
TransportReady(a) ==
    /\ pc[a] = "transport"
    /\ \/ /\ pc' = [pc EXCEPT ![a] = "consume"]
          /\ transport' = [transport EXCEPT ![a] = "open"]
          /\ UNCHANGED awaiting
       \/ /\ pc' = [pc EXCEPT ![a] = "failed"]
          /\ Answer(a)
          /\ UNCHANGED transport
    /\ UNCHANGED <<connected, selection, session, sock, consumer, procVars, sdp, stopPc, overlapped>>

\* transport.consume() resolves while the producer is open.
ConsumeReady(a) ==
    /\ pc[a] = "consume"
    /\ sock[a] \in connected
    /\ pc' = [pc EXCEPT ![a] = "port"]
    /\ consumer' = [consumer EXCEPT ![a] = "open"]
    /\ UNCHANGED <<connected, awaiting, selection, session, sock, transport, procVars, sdp, stopPc, overlapped>>

\* reserveUdpPort() resolves: write the SDP, spawn ffmpeg, set the session and
\* begin #waitForPort, without looking at the session again.
PortReserved(a) ==
    /\ pc[a] = "port"
    /\ pc' = [pc EXCEPT ![a] = "waitPort"]
    /\ sdp' = [sdp EXCEPT ![sock[a]] = a]
    /\ proc' = [proc EXCEPT ![a] = "up"]
    /\ procDevice' = [procDevice EXCEPT ![a] = device]
    /\ session' = a
    /\ UNCHANGED <<connected, awaiting, selection, sock, mediaVars, signal, wedged, bound, stopPc, overlapped>>

\* #waitForPort: a probe of the port finds it taken.
PortTaken(a) ==
    /\ pc[a] = "waitPort"
    /\ a \in bound
    /\ pc' = [pc EXCEPT ![a] = "connect"]
    /\ UNCHANGED <<connected, awaiting, selection, session, sock, mediaVars, procVars, sdp, stopPc, overlapped>>

\* transport.connect() resolves on an open transport.
Connected(a) ==
    /\ pc[a] = "connect"
    /\ transport[a] = "open"
    /\ pc' = [pc EXCEPT ![a] = "resume"]
    /\ UNCHANGED <<connected, awaiting, selection, session, sock, mediaVars, procVars, sdp, stopPc, overlapped>>

\* consumer.resume() resolves on an open consumer; the handlers are attached only
\* now, and start() returns.  The mutant ignores a failed resume.
ResumedUnchecked(a) ==
    /\ pc[a] = "resume"
    /\ pc' = [pc EXCEPT ![a] = "started"]
    /\ Answer(a)
    /\ UNCHANGED <<connected, selection, session, sock, mediaVars, procVars, sdp, stopPc, overlapped>>
Resumed(a) ==
    /\ pc[a] = "resume"
    /\ consumer[a] = "open"
    /\ pc' = [pc EXCEPT ![a] = "started"]
    /\ Answer(a)
    /\ UNCHANGED <<connected, selection, session, sock, mediaVars, procVars, sdp, stopPc, overlapped>>

\* An await inside the try block fails: any request to the worker or the file
\* system may, a request about a closed object does, #waitForPort does when
\* ffmpeg has exited or after five seconds.  The mutant polls without a deadline.
MayFail(a) == pc[a] \in Waits \ {"transport"}
MustFailNoDeadline(a) ==
    \/ pc[a] = "consume" /\ sock[a] \notin connected
    \/ pc[a] = "waitPort" /\ proc[a] = "gone"
    \/ pc[a] = "connect" /\ transport[a] # "open"
    \/ pc[a] = "resume" /\ consumer[a] # "open"
MustFail(a) ==
    \/ pc[a] = "consume" /\ sock[a] \notin connected
    \/ pc[a] = "waitPort" /\ a \notin bound
    \/ pc[a] = "connect" /\ transport[a] # "open"
    \/ pc[a] = "resume" /\ consumer[a] # "open"

\* The catch block up to its await: the session is reset, whoever holds it.
RollBack(a) ==
    /\ MayFail(a)
    /\ pc' = [pc EXCEPT ![a] = "rollback"]
    /\ session' = None
    /\ AskToEnd(a)
    /\ UNCHANGED <<connected, awaiting, selection, sock, mediaVars, proc, procDevice, wedged, bound, sdp, stopPc, overlapped>>

RollBackEscalates(a) ==
    /\ pc[a] = "rollback" /\ Live(a)
    /\ pc' = [pc EXCEPT ![a] = "rollbackKilled"]
    /\ Kill(a, "kill")
    /\ UNCHANGED <<connected, awaiting, selection, session, sock, mediaVars, proc, procDevice, wedged, bound, sdp, stopPc, overlapped>>

\* The rest of the catch block: remove the SDP file if one was written, close.
RollBackReturns(a) ==
    /\ pc[a] \in Rollbacks
    /\ Resolved(a, pc[a] = "rollbackKilled")
    /\ pc' = [pc EXCEPT ![a] = "failed"]
    /\ CloseMedia(a)
    /\ sdp' = IF proc[a] = "none" THEN sdp ELSE [sdp EXCEPT ![sock[a]] = None]
    /\ Answer(a)
    /\ UNCHANGED <<connected, selection, session, sock, procVars, stopPc, overlapped>>

--------------------------------------------------------------------------------
\* setPlayback {enabled: false} by the owner, whose client waits for the answer
AdminOff(s) ==
    /\ s \in connected /\ awaiting[s] = None
    /\ Owns(s)
    /\ awaiting' = [awaiting EXCEPT ![s] = session]
    /\ Take(session)
    /\ UNCHANGED <<connected, selection, pc, sock, proc, procDevice, wedged, bound, sdp, overlapped>>

\* Closing a peer's transports closes its producer and every consumer of it.
CloseConsumersOf(s) ==
    consumer' = [a \in Attempts |->
                    IF sock[a] = s /\ consumer[a] = "open" THEN "closed" ELSE consumer[a]]

\* "disconnecting": stop(s) is not awaited, then the peer's transports are closed;
\* the producerclose handlers call stop(s) again and find nothing to take.
Disconnect(s) ==
    /\ s \in connected
    /\ connected' = connected \ {s}
    /\ awaiting' = [awaiting EXCEPT ![s] = None]
    /\ CloseConsumersOf(s)
    /\ IF Owns(s)
       THEN /\ session' = None
            /\ transport' = [transport EXCEPT ![session] = "closed"]
            /\ AskToEnd(session)
            /\ stopPc' = [stopPc EXCEPT ![session] = "grace"]
       ELSE UNCHANGED <<session, transport, signal, stopPc>>
    /\ UNCHANGED <<selection, pc, sock, proc, procDevice, wedged, bound, sdp, overlapped>>

\* setDevice(d) of an HTTP request: stop(null) takes the session of anyone.  The
\* mutant only repoints the next stream.
RepointOnly(d) ==
    /\ d # device /\ switches < MaxSwitches
    /\ device' = d
    /\ switches' = switches + 1
    /\ UNCHANGED <<connected, awaiting, session, pc, sock, mediaVars, procVars, sdp, stopPc, overlapped>>
SetDevice(d) ==
    /\ d # device /\ switches < MaxSwitches
    /\ device' = d
    /\ switches' = switches + 1
    /\ IF session # None
       THEN Take(session)
       ELSE UNCHANGED <<session, mediaVars, signal, stopPc>>
    /\ UNCHANGED <<connected, awaiting, pc, sock, proc, procDevice, wedged, bound, sdp, overlapped>>

\* The escalate timer of the terminateChild of stop()
StopEscalates(a) ==
    /\ stopPc[a] = "grace" /\ Live(a)
    /\ stopPc' = [stopPc EXCEPT ![a] = "killed"]
    /\ Kill(a, "kill")
    /\ UNCHANGED <<connected, awaiting, selection, session, pc, sock, mediaVars, proc, procDevice, wedged, bound, sdp, overlapped>>

\* The rest of stop(): remove the socket's SDP file, answer a waiting setPlayback.
StopReturns(a) ==
    /\ stopPc[a] \in {"grace", "killed"}
    /\ Resolved(a, stopPc[a] = "killed")
    /\ stopPc' = [stopPc EXCEPT ![a] = "done"]
    /\ sdp' = [sdp EXCEPT ![sock[a]] = None]
    /\ IF pc[a] = "started" THEN Answer(a) ELSE UNCHANGED awaiting
    /\ UNCHANGED <<connected, selection, session, pc, sock, mediaVars, procVars, overlapped>>

--------------------------------------------------------------------------------
\* ffmpeg reads the SDP file of its socket and binds the port it names.  Without
\* the file it can only end.
Bind(a) ==
    /\ Live(a) /\ a \notin bound
    /\ sdp[sock[a]] = a
    /\ bound' = bound \union {a}
    /\ UNCHANGED <<connected, awaiting, selection, session, pc, sock, mediaVars, proc, procDevice, signal, wedged, sdp, stopPc, overlapped>>

\* The process sticks in the driver once it streams.
Wedge(a) ==
    /\ Live(a) /\ pc[a] = "started" /\ a \notin wedged
    /\ wedged' = wedged \union {a}
    /\ UNCHANGED <<connected, awaiting, selection, session, pc, sock, mediaVars, proc, procDevice, signal, bound, sdp, stopPc, overlapped>>

\* The process ends and "exit" is delivered: start() attaches its handler when it
\* returns, and the handler stops the session if it is still this one.
ProcessExit(a) ==
    /\ Live(a) /\ a \notin wedged
    /\ proc' = [proc EXCEPT ![a] = "gone"]
    /\ signal' = [signal EXCEPT ![a] = "none"]
    /\ bound' = bound \ {a}
    /\ IF pc[a] = "started" /\ session = a
       THEN /\ session' = None
            /\ CloseMedia(a)
            /\ stopPc' = [stopPc EXCEPT ![a] = "grace"]
       ELSE UNCHANGED <<session, mediaVars, stopPc>>
    /\ UNCHANGED <<connected, awaiting, selection, pc, sock, procDevice, wedged, sdp, overlapped>>

--------------------------------------------------------------------------------
\* The next callback of start(); a failure that need not happen is RollBack alone.
StartProgress(a) ==
    \/ TransportReady(a) \/ ConsumeReady(a) \/ PortReserved(a) \/ PortTaken(a)
    \/ Connected(a) \/ Resumed(a)
    \/ MustFail(a) /\ RollBack(a)
    \/ RollBackEscalates(a) \/ RollBackReturns(a)

StopProgress(a) == StopEscalates(a) \/ StopReturns(a)

Next ==
    \/ \E a \in Attempts, s \in Sockets : StartCall(a, s)
    \/ \E a \in Attempts : StartProgress(a) \/ RollBack(a) \/ StopProgress(a)
    \/ \E a \in Attempts : Bind(a) \/ Wedge(a) \/ ProcessExit(a)
    \/ \E s \in Sockets : AdminOff(s) \/ Disconnect(s)
    \/ \E d \in Devices : SetDevice(d)

\* Every await settles and every timer fires; a signalled process that is not
\* wedged ends.  Nothing is assumed of the admins or of a healthy ffmpeg.
Fairness ==
    \A a \in Attempts :
        /\ WF_vars(StartProgress(a))
        /\ WF_vars(StopProgress(a))
        /\ WF_vars(Ending(a) /\ ProcessExit(a))

Spec == Init /\ [][Next]_vars

FairSpec == Spec /\ Fairness

--------------------------------------------------------------------------------
TypeOK ==
    /\ connected \subseteq Sockets
    /\ awaiting \in [Sockets -> Attempts \union {None}]
    /\ device \in Devices /\ switches \in 0..MaxSwitches
    /\ session \in Attempts \union {None}
    /\ pc \in [Attempts -> {"idle", "started", "failed"} \union Waits \union Rollbacks]
    /\ sock \in [Attempts -> Sockets \union {None}]
    /\ transport \in [Attempts -> {"none", "open", "closed"}]
    /\ consumer \in [Attempts -> {"none", "open", "closed"}]
    /\ proc \in [Attempts -> {"none", "up", "gone"}]
    /\ procDevice \in [Attempts -> Devices]
    /\ signal \in [Attempts -> {"none", "term", "kill"}]
    /\ wedged \subseteq Attempts
    /\ bound \subseteq Attempts
    /\ sdp \in [Sockets -> Attempts \union {None}]
    /\ stopPc \in [Attempts -> {"none", "grace", "killed", "done"}]
    /\ session # None => proc[session] # "none" /\ stopPc[session] = "none"
    /\ overlapped \in BOOLEAN

\* As long as calls of start() do not overlap, every ffmpeg is the session's or has
\* been told to end: none holds the card with nobody answering for it.
NoOrphan ==
    ~overlapped => \A a \in Attempts : Live(a) /\ ~Ending(a) => session = a

\* ... and the one that streams writes to the selected device.
StreamsToDevice ==
    ~overlapped => \A a \in Attempts : Live(a) /\ ~Ending(a) => procDevice[a] = device

\* A start that failed and a stop that returned leave no transport, consumer or
\* process behind, unless the process is wedged; overlapping calls included.
NothingLeft ==
    \A a \in Attempts :
        pc[a] = "failed" \/ stopPc[a] = "done" =>
            /\ transport[a] # "open" /\ consumer[a] # "open"
            /\ Live(a) => a \in wedged

\* An admin who has left is not on the air, even when the start was still under
\* way at the disconnect; overlapping calls included.
DepartedOffAir ==
    session # None /\ pc[session] = "started" => sock[session] \in connected

\* Every start is answered and every stop returns: nothing in them waits for ever, even
\* when ffmpeg never binds its port, ignores SIGTERM or is wedged.
CallsSettle ==
    \A a \in Attempts :
        /\ Pending(a) ~> pc[a] \in {"started", "failed"}
        /\ stopPc[a] = "grace" ~> stopPc[a] = "done"

\* The admin on the speakers, as server.js reports it in playback-state.
Owner == IF session = None THEN None ELSE sock[session]

Output == INSTANCE Speaker WITH owner <- Owner

\* As long as calls of start() do not overlap, the speakers pass from one admin to
\* another only through being free, as Speaker requires.
OwnerHandover == Output!Init /\ [][~overlapped' => Output!Next]_Owner
================================================================================
