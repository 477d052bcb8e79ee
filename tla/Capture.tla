-------------------------------- MODULE Capture --------------------------------
(***************************************************************************)
(* AudioCapture of src/audio.js: one ffmpeg reads the capture card and is  *)
(* respawned after every exit, with a retry timer; setDevice() repoints it *)
(* and stop() shuts it down for good.                                      *)
(*                                                                         *)
(* An action is one callback of the event loop, run to completion.  The    *)
(* "spawn" and "error" events of child_process.spawn are process.nextTick  *)
(* callbacks: they run before any other callback, so every other action    *)
(* waits for Settled.  A process leaves the table when its exit event is   *)
(* delivered, which is never before the kernel released the card.          *)
(***************************************************************************)
EXTENDS Naturals, FiniteSets

CONSTANTS Procs,             \* identities an operating-system process may have
          Devices,           \* the capture devices of the machine
          CaptureEnabled,    \* AUDIO_CAPTURE_ENABLED, with at least one channel
          RestartDelayMs,    \* settings.restartDelayMs
          RestartDelayMaxMs, \* settings.restartDelayMaxMs
          None

ASSUME CaptureAssumption ==
    /\ None \notin Procs
    /\ CaptureEnabled \in BOOLEAN
    /\ RestartDelayMs \in Nat
    /\ RestartDelayMaxMs \in Nat

VARIABLES
    proc,           \* status of each process; "gone" also means never spawned
    procDevice,     \* the device in the ffmpeg arguments of each process
    signal,         \* the strongest signal sent to each process
    wedged,         \* processes stuck in uninterruptible IO: no signal ends them
    child,          \* this.child
    device,         \* this.settings.device
    feeds,          \* this.feeds is not empty
    running,        \* this.running
    stopping,       \* this.stopping
    restartTimer,   \* this.restartTimer is armed
    restartDelayMs, \* this.restartDelayMs
    stopPc,         \* where the one call of stop() is
    dying           \* the local `child` of stop()

procVars == <<proc, procDevice, signal, wedged, child>>
timerVars == <<restartTimer, restartDelayMs>>
stopVars == <<stopping, stopPc, dying>>
vars == <<procVars, device, feeds, running, timerVars, stopVars>>

--------------------------------------------------------------------------------
\* The retry delay after one more failure.
Doubled(ms) == IF ms * 2 < RestartDelayMaxMs THEN ms * 2 ELSE RestartDelayMaxMs

\* No "spawn" or "error" event of a child_process.spawn is still to be delivered.
Settled == \A p \in Procs : proc[p] \notin {"spawned", "failed"}

\* The child exists and its exitCode and signalCode are still null.
Alive(p) == p # None /\ proc[p] # "gone"

\* The operating system has a process: it holds the card or may be about to.
Live(p) == proc[p] \in {"spawned", "up", "open"}

\* HTTP requests and signals are served only once the boot's start() returned.
Booted == feeds \/ ~CaptureEnabled \/ stopPc # "idle"

\* child_process.spawn with the arguments for device d; when ffmpeg cannot be
\* executed the child object exists all the same and only emits "error".
Launch(d) ==
    /\ \E p \in Procs, outcome \in {"spawned", "failed"} :
           /\ proc[p] = "gone"
           /\ proc' = [proc EXCEPT ![p] = outcome]
           /\ procDevice' = [procDevice EXCEPT ![p] = d]
           /\ signal' = [signal EXCEPT ![p] = "none"]
           /\ child' = p
    /\ UNCHANGED wedged

\* #spawnCapture(): nothing is spawned any more once stop() was called.  The
\* mutant spawns unconditionally.
SpawnUnguarded(d) == Launch(d)
SpawnCapture(d) == IF stopping THEN UNCHANGED procVars ELSE Launch(d)

\* #scheduleRestart(): at most one timer, and none once stop() was called.  The
\* mutant does not retry a process that was signalled.
ScheduleUnlessSignalled ==
    IF stopping \/ restartTimer \/ signal[child] # "none"
    THEN UNCHANGED timerVars
    ELSE restartTimer' = TRUE /\ restartDelayMs' = Doubled(restartDelayMs)
ScheduleRestart ==
    IF stopping \/ restartTimer
    THEN UNCHANGED timerVars
    ELSE restartTimer' = TRUE /\ restartDelayMs' = Doubled(restartDelayMs)

\* clearTimeout(this.restartTimer); the mutant leaves the retry armed.
KeepRetry == UNCHANGED restartTimer
DropRetry == restartTimer' = FALSE

\* this.running = false; the mutant forgets it.
StillRunning == UNCHANGED running
NotRunning == running' = FALSE

\* child.kill(s); SIGKILL is not weakened by a later SIGTERM.  The mutant signals
\* a child object that is no longer the process.
SignalLost(p, s) == UNCHANGED signal
Kill(p, s) == signal' = [signal EXCEPT ![p] = IF @ = "kill" THEN @ ELSE s]

\* terminateChild has resolved: the process is gone, or the giveUp timer found it
\* wedged after the SIGKILL.  One mutant does not wait, the other never gives up.
ResolvedAtOnce == stopPc \in {"grace", "killed"}
ResolvedOnExit == stopPc \in {"grace", "killed"} /\ ~Alive(dying)
Resolved ==
    \/ stopPc \in {"grace", "killed"} /\ ~Alive(dying)
    \/ stopPc = "killed" /\ dying \in wedged

--------------------------------------------------------------------------------
Init ==
    /\ proc = [p \in Procs |-> "gone"]
    /\ signal = [p \in Procs |-> "none"]
    /\ wedged = {}
    /\ child = None
    /\ device \in Devices
    /\ procDevice = [p \in Procs |-> device]
    /\ feeds = FALSE
    /\ running = FALSE
    /\ stopping = FALSE
    /\ restartTimer = FALSE
    /\ restartDelayMs = RestartDelayMs
    /\ stopPc = "idle"
    /\ dying = None

\* start(), awaited by the boot before the server listens: createFeeds, then spawn.
Start ==
    /\ CaptureEnabled
    /\ ~feeds /\ stopPc = "idle" /\ child = None
    /\ feeds' = TRUE
    /\ SpawnCapture(device)
    /\ UNCHANGED <<device, running, timerVars, stopVars>>

\* child.on("spawn")
OnSpawn(p) ==
    /\ proc[p] = "spawned"
    /\ proc' = [proc EXCEPT ![p] = "up"]
    /\ running' = TRUE
    /\ restartDelayMs' = RestartDelayMs
    /\ UNCHANGED <<procDevice, signal, wedged, child, device, feeds, restartTimer, stopVars>>

\* child.on("error") of a child that could not be executed
OnError(p) ==
    /\ proc[p] = "failed"
    /\ proc' = [proc EXCEPT ![p] = "gone"]
    /\ NotRunning
    /\ ScheduleRestart
    /\ UNCHANGED <<procDevice, signal, wedged, child, device, feeds, stopVars>>

\* ffmpeg opens the card, which admits one process at a time.
OpenCard(p) ==
    /\ Settled
    /\ proc[p] = "up"
    /\ \A q \in Procs : proc[q] = "open" => procDevice[q] # procDevice[p]
    /\ proc' = [proc EXCEPT ![p] = "open"]
    /\ UNCHANGED <<procDevice, signal, wedged, child, device, feeds, running, timerVars, stopVars>>

\* The process sticks in the driver: it cannot end, not even by SIGKILL.
Wedge(p) ==
    /\ Settled
    /\ proc[p] = "open"
    /\ wedged' = wedged \union {p}
    /\ UNCHANGED <<proc, procDevice, signal, child, device, feeds, running, timerVars, stopVars>>

\* child.on("exit"): card missing, busy or unplugged, a crash, or a signal obeyed
OnExit(p) ==
    /\ Settled
    /\ proc[p] \in {"up", "open"}
    /\ p \notin wedged
    /\ proc' = [proc EXCEPT ![p] = "gone"]
    /\ NotRunning
    /\ IF stopping THEN UNCHANGED timerVars ELSE ScheduleRestart
    /\ UNCHANGED <<procDevice, signal, wedged, child, device, feeds, stopVars>>

\* The callback of restartTimer
TimerFires ==
    /\ Settled
    /\ restartTimer
    /\ restartTimer' = FALSE
    /\ SpawnCapture(device)
    /\ UNCHANGED <<device, feeds, running, restartDelayMs, stopVars>>

\* setDevice(d), reached through HTTP and so only after the boot's start()
SetDevice(d) ==
    /\ Settled /\ Booted
    /\ d # device
    /\ device' = d
    /\ DropRetry
    /\ restartDelayMs' = RestartDelayMs
    /\ IF Alive(child)
       THEN Kill(child, "term") /\ UNCHANGED <<proc, procDevice, wedged, child>>
       ELSE IF CaptureEnabled /\ feeds
            THEN SpawnCapture(d)
            ELSE UNCHANGED procVars
    /\ UNCHANGED <<feeds, running, stopVars>>

--------------------------------------------------------------------------------
\* stop() up to its await; shutdown() calls it once.  terminateChild asks with
\* SIGTERM and is done at once when there is no live child.
Stop ==
    /\ Settled /\ Booted
    /\ stopPc = "idle"
    /\ stopPc' = "grace"
    /\ stopping' = TRUE
    /\ DropRetry
    /\ dying' = child
    /\ child' = None
    /\ IF Alive(child) THEN Kill(child, "term") ELSE UNCHANGED signal
    /\ UNCHANGED <<proc, procDevice, wedged, device, feeds, running, restartDelayMs>>

\* terminateChild's escalate timer, graceMs after the SIGTERM
Escalate ==
    /\ Settled
    /\ stopPc = "grace" /\ Alive(dying)
    /\ stopPc' = "killed"
    /\ Kill(dying, "kill")
    /\ UNCHANGED <<proc, procDevice, wedged, child, device, feeds, running, timerVars, stopping, dying>>

\* The rest of stop(), once terminateChild resolved
StopReturns ==
    /\ Settled
    /\ Resolved
    /\ stopPc' = "done"
    /\ feeds' = FALSE
    /\ NotRunning
    /\ UNCHANGED <<procVars, device, timerVars, stopping, dying>>

--------------------------------------------------------------------------------
Next ==
    \/ Start
    \/ \E p \in Procs :
           OnSpawn(p) \/ OnError(p) \/ OpenCard(p) \/ Wedge(p) \/ OnExit(p)
    \/ TimerFires
    \/ \E d \in Devices : SetDevice(d)
    \/ Stop
    \/ Escalate
    \/ StopReturns

\* Node delivers every event and timer; a signalled process that is not wedged ends.
Fairness ==
    /\ WF_vars(Start)
    /\ \A p \in Procs : WF_vars(OnSpawn(p)) /\ WF_vars(OnError(p))
    /\ \A p \in Procs : WF_vars(signal[p] # "none" /\ OnExit(p))
    /\ WF_vars(TimerFires)
    /\ WF_vars(Escalate)
    /\ WF_vars(StopReturns)

Spec == Init /\ [][Next]_vars

FairSpec == Spec /\ Fairness

--------------------------------------------------------------------------------
TypeOK ==
    /\ proc \in [Procs -> {"gone", "spawned", "failed", "up", "open"}]
    /\ procDevice \in [Procs -> Devices]
    /\ signal \in [Procs -> {"none", "term", "kill"}]
    /\ wedged \subseteq Procs
    /\ child \in Procs \union {None}
    /\ device \in Devices
    /\ feeds \in BOOLEAN
    /\ running \in BOOLEAN
    /\ stopping \in BOOLEAN
    /\ restartTimer \in BOOLEAN
    /\ restartDelayMs \in Nat
    /\ restartDelayMs = RestartDelayMs \/ restartDelayMs <= RestartDelayMaxMs
    /\ stopPc \in {"idle", "grace", "killed", "done"}
    /\ dying \in Procs \union {None}

\* At no time do two capture processes exist: a hardware device admits one, and a
\* device change, a crash and a retry must never spawn one each (audio.js:200-206).
SingleCapture == \A p, q \in Procs : Live(p) /\ Live(q) => p = q

\* While capture is in service there is either a process or an armed retry, never
\* both and never neither, whatever mix of crashes and device changes came before.
Supervised ==
    feeds /\ ~stopping =>
        (restartTimer <=> \A p \in Procs : proc[p] = "gone")

\* A process that reads another card than the selected one has been told to end:
\* no interleaving of retries and device changes leaves the old card on the air.
StaleDeviceIsDying ==
    \A p \in Procs :
        Live(p) /\ procDevice[p] # device => signal[p] # "none" \/ stopping

\* `running`, which /api/health reports, never claims a process that is not there.
RunningIsTruthful ==
    running => \E p \in Procs : Live(p) /\ proc[p] # "spawned"

\* When stop() returns the card is free, unless the process is wedged (audio.js:70-73).
StopReleasesCard ==
    stopPc = "done" => \A p \in Procs : Live(p) => p \in wedged

\* stop() always returns, so a shutdown never waits for ever on the capture card.
StopCompletes == (stopPc = "grace") ~> (stopPc = "done")

\* A change of device is carried out: the process on the old card gives way.
SwitchTakesEffect ==
    \A p \in Procs, d \in Devices :
        (Live(p) /\ procDevice[p] = d /\ device # d)
            ~> (~Live(p) \/ p \in wedged)

\* Capture as the service of Supervisor: live while a process exists.
Service == INSTANCE Supervisor WITH
    service <- IF \E p \in Procs : Live(p) THEN "live" ELSE "down",
    halted <- stopping

\* Capture behaves as a supervised service: nothing brings it back after stop().
ServiceSpec == Service!Spec
================================================================================
