------------------------------- MODULE Lifecycle -------------------------------
(***************************************************************************)
(* The server process from boot to exit, life after life: the device       *)
(* selection an admin posts, the file that keeps it, the ordered shutdown  *)
(* of src/server.js with its forced exit, and crashes at any point.        *)
(*                                                                         *)
(* The two audio services are reduced to their ffmpeg and to whether it    *)
(* was told to end; Capture and Playback have them in full.  A start of    *)
(* the output waits here until the previous ffmpeg has gone.               *)
(***************************************************************************)
EXTENDS Naturals

CONSTANTS Requests,  \* POSTs to /api/audio/devices
          Devices,
          Env,       \* the device the .env file names
          MaxLives,  \* bound: lives in which devices are chosen; one more boot follows
          None, Torn

ASSUME LifecycleAssumption ==
    /\ Env \in Devices
    /\ MaxLives \in Nat
    /\ None \notin Devices
    /\ \A x \in {None, Torn} : x \notin [{"input", "output"} -> Devices]

Kinds == {"input", "output"}

VARIABLES
    phase,    \* "down", "up", or the await of shutdown(): "drain", "output", "input", "close"
    lives,    \* boots so far
    ended,    \* how the last life ended: "never", "orderly", "forced" or "crash"
    sel,      \* config.audio.*.device; when down, what it was
    file,     \* the settings file: None if absent, Torn by a crash, or a selection
    req,      \* where each request is
    want,     \* the devices it names
    ff,       \* the ffmpeg of each kind: "none", "live", "told" or "killed"
    wedged,   \* kinds whose ffmpeg no signal ends
    output,   \* AudioPlayback: "idle", "starting" or "on" (there is a session)
    unwritten \* history: the selection changed since the file was last written whole

audioVars == <<ff, wedged, output>>
requestVars == <<req, want>>
vars == <<phase, lives, ended, sel, file, requestVars, audioVars, unwritten>>

--------------------------------------------------------------------------------
Alive == phase # "down"

\* this.stopping of AudioCapture
Stopping == phase \in {"input", "close"}

\* loadDeviceSelection(), and what the boot makes of it: an absent or unreadable
\* file means "never chosen".
Loaded(k) == IF file \in {None, Torn} THEN Env ELSE file[k]

\* child.kill("SIGTERM") if there is a process that has not been signalled
Told(f, k) == [f EXCEPT ![k] = IF @ = "live" THEN "told" ELSE @]

\* The selection that a request saves: config as it is now.  The mutant saves what
\* the request asked for.
SavedAsWanted(q) == [k \in Kinds |-> IF want[q][k] = None THEN sel[k] ELSE want[q][k]]
Saved(q) == sel

\* capture.setDevice of a new device: the process is told to end, or one is spawned
\* when there is none.  The mutant spawns after stop() as well.
RepointedAlways == [ff EXCEPT !["input"] = IF @ = "none" THEN "live" ELSE "told"]
Repointed ==
    IF ff["input"] # "none" THEN Told(ff, "input")
    ELSE IF Stopping THEN ff ELSE [ff EXCEPT !["input"] = "live"]

\* terminateChild has nothing left to wait for.
Gone(k) == ff[k] = "none" \/ (ff[k] = "killed" /\ k \in wedged)

\* The request is answered, its body forgotten.
Nothing == [k \in Kinds |-> None]
Answered(q) ==
    /\ req' = [req EXCEPT ![q] = "answered"]
    /\ want' = [want EXCEPT ![q] = Nothing]

--------------------------------------------------------------------------------
Init ==
    /\ phase = "down" /\ lives = 0 /\ ended = "never"
    /\ sel = [k \in Kinds |-> Env]
    /\ file = None
    /\ req = [q \in Requests |-> "none"]
    /\ want = [q \in Requests |-> Nothing]
    /\ ff = [k \in Kinds |-> "none"]
    /\ wedged = {}
    /\ output = "idle"
    /\ unwritten = FALSE

\* The boot: the saved selection wins over .env and is applied before capture starts.
Boot ==
    /\ ~Alive /\ lives <= MaxLives
    /\ phase' = "up" /\ lives' = lives + 1
    /\ sel' = [k \in Kinds |-> Loaded(k)]
    /\ ff' = [ff EXCEPT !["input"] = "live", !["output"] = "none"]
    /\ wedged' = {}
    /\ output' = "idle"
    /\ unwritten' = FALSE
    /\ UNCHANGED <<ended, file, requestVars>>

\* POST /api/audio/devices: describeAudioDevices is awaited.
Post(q, w) ==
    /\ phase = "up" /\ lives <= MaxLives /\ req[q] = "none"
    /\ req' = [req EXCEPT ![q] = "listing"]
    /\ want' = [want EXCEPT ![q] = w]
    /\ UNCHANGED <<phase, lives, ended, sel, file, audioVars, unwritten>>

\* A device that is not listed: 400, and nothing has changed.
Reject(q) ==
    /\ Alive /\ req[q] = "listing"
    /\ Answered(q)
    /\ UNCHANGED <<phase, lives, ended, sel, file, audioVars, unwritten>>

\* capture.setDevice, then playback.setDevice, which stops a stream and waits for it
Apply(q) ==
    LET new == [k \in Kinds |-> IF want[q][k] = None THEN sel[k] ELSE want[q][k]]
        repointed == IF new["input"] # sel["input"] THEN Repointed ELSE ff
        interrupts == new["output"] # sel["output"] /\ output = "on"
    IN  /\ Alive /\ req[q] = "listing"
        /\ sel' = new
        /\ IF interrupts
           THEN /\ ff' = Told(repointed, "output")
                /\ output' = "idle"
                /\ req' = [req EXCEPT ![q] = "switching"]
           ELSE /\ ff' = repointed
                /\ req' = [req EXCEPT ![q] = "saving"]
                /\ UNCHANGED output
        /\ unwritten' = (unwritten \/ new # sel)
        /\ UNCHANGED <<phase, lives, ended, file, want, wedged>>

\* saveDeviceSelection and the answer.  Without a stream to stop no other callback
\* comes between Apply and this; the model lets them.
Save(q) ==
    /\ Alive /\ req[q] = "saving"
    /\ Answered(q)
    /\ file' = Saved(q)
    /\ unwritten' = FALSE
    /\ UNCHANGED <<phase, lives, ended, sel, audioVars>>

\* It throws, before or after the file was truncated: 400, but the change is there.
SaveFails(q) ==
    /\ Alive /\ req[q] = "saving"
    /\ Answered(q)
    /\ file' \in {file, Torn}
    /\ unwritten' = (unwritten \/ file' = Torn)
    /\ UNCHANGED <<phase, lives, ended, sel, audioVars>>

--------------------------------------------------------------------------------
\* AudioPlayback.start up to its ffmpeg, which goes on whatever happens meanwhile
StartOutput ==
    /\ phase = "up" /\ output = "idle" /\ ff["output"] = "none"
    /\ output' = "starting"
    /\ UNCHANGED <<phase, lives, ended, sel, file, requestVars, ff, wedged, unwritten>>

OutputSpawned ==
    /\ output = "starting" /\ Alive
    /\ output' = "on"
    /\ ff' = [ff EXCEPT !["output"] = "live"]
    /\ UNCHANGED <<phase, lives, ended, sel, file, requestVars, wedged, unwritten>>

\* The admin stops or leaves, or the start rolls back; nobody waits.
StopOutput ==
    /\ output = "on" /\ Alive
    /\ output' = "idle"
    /\ ff' = Told(ff, "output")
    /\ UNCHANGED <<phase, lives, ended, sel, file, requestVars, wedged, unwritten>>

\* An ffmpeg ends; the playback handler gives the session up, and who waits in
\* setDevice goes on.
Released == [q \in Requests |-> IF req[q] = "switching" THEN "saving" ELSE req[q]]
Exit(k) ==
    /\ Alive /\ ff[k] # "none" /\ k \notin wedged
    /\ ff' = [ff EXCEPT ![k] = "none"]
    /\ IF k = "output"
       THEN req' = Released /\ output' = IF output = "on" THEN "idle" ELSE output
       ELSE UNCHANGED <<req, output>>
    /\ UNCHANGED <<phase, lives, ended, sel, file, want, wedged, unwritten>>

\* Capture's retry timer
Retry ==
    /\ Alive /\ ~Stopping /\ ff["input"] = "none"
    /\ ff' = [ff EXCEPT !["input"] = "live"]
    /\ UNCHANGED <<phase, lives, ended, sel, file, requestVars, wedged, output, unwritten>>

\* A process that has been told to end sticks in the driver.
Wedge(k) ==
    /\ Alive /\ ff[k] = "told" /\ k \notin wedged
    /\ wedged' = wedged \union {k}
    /\ UNCHANGED <<phase, lives, ended, sel, file, requestVars, ff, output, unwritten>>

\* terminateChild's escalate timer; a device change of capture has none.
Escalate(k) ==
    /\ Alive /\ ff[k] = "told" /\ (k = "input" => phase = "input")
    /\ ff' = [ff EXCEPT ![k] = "killed"]
    /\ UNCHANGED <<phase, lives, ended, sel, file, requestVars, wedged, output, unwritten>>

\* ... and its giveUp timer, for the requests that wait
GiveUp ==
    /\ Alive /\ Gone("output") /\ Released # req
    /\ req' = Released
    /\ UNCHANGED <<phase, lives, ended, sel, file, want, audioVars, unwritten>>

--------------------------------------------------------------------------------
\* shutdown(): io.close() disconnects every socket, so that the "disconnecting"
\* handler of the admin on air stops the stream, and server.close() is awaited.
Shutdown ==
    /\ phase = "up"
    /\ phase' = "drain"
    /\ IF output = "on"
       THEN output' = "idle" /\ ff' = Told(ff, "output")
       ELSE UNCHANGED <<output, ff>>
    /\ UNCHANGED <<lives, ended, sel, file, requestVars, wedged, unwritten>>

\* The last connection has ended, maybe by a client that did not wait for its
\* answer; playback.stop(null) waits only for a session that it takes.
Drained ==
    /\ phase = "drain"
    /\ phase' = "output"
    /\ IF output = "on"
       THEN output' = "idle" /\ ff' = Told(ff, "output")
       ELSE UNCHANGED <<output, ff>>
    /\ UNCHANGED <<lives, ended, sel, file, requestVars, wedged, unwritten>>

\* capture.stop() up to its await
OutputStopped ==
    /\ phase = "output"
    /\ phase' = "input"
    /\ ff' = Told(ff, "input")
    /\ UNCHANGED <<lives, ended, sel, file, requestVars, wedged, output, unwritten>>

CaptureStopped ==
    /\ phase = "input" /\ Gone("input")
    /\ phase' = "close"
    /\ UNCHANGED <<lives, ended, sel, file, requestVars, audioVars, unwritten>>

\* The process is gone.  What still exists of ff are orphans.
Dies(how) ==
    /\ phase' = "down" /\ ended' = how
    /\ req' = [q \in Requests |-> IF req[q] = "none" THEN "none" ELSE "answered"]
    /\ want' = [q \in Requests |-> Nothing]
    /\ UNCHANGED <<lives, sel, audioVars>>

\* worker.close, closeDatabase, process.exit
ExitOrderly == phase = "close" /\ Dies("orderly") /\ UNCHANGED <<file, unwritten>>

\* forceExit, ten seconds after shutdown began; the mutant arms it once the last
\* connection has ended.
ForceExitLate ==
    /\ phase \in {"output", "input", "close"}
    /\ Dies("forced") /\ UNCHANGED <<file, unwritten>>
ForceExit ==
    /\ phase \in {"drain", "output", "input", "close"}
    /\ Dies("forced") /\ UNCHANGED <<file, unwritten>>

\* SIGKILL or power loss, possibly in the middle of writeFileSync
Crash ==
    /\ Alive
    /\ Dies("crash")
    /\ file' \in {file} \union {x \in {Torn} : \E q \in Requests : req[q] = "saving"}
    /\ unwritten' = (unwritten \/ file' # file)

--------------------------------------------------------------------------------
Next ==
    \/ Boot
    \/ \E q \in Requests, w \in [Kinds -> Devices \union {None}] : Post(q, w)
    \/ \E q \in Requests : Reject(q) \/ Apply(q) \/ Save(q) \/ SaveFails(q)
    \/ StartOutput \/ OutputSpawned \/ StopOutput
    \/ \E k \in Kinds : Exit(k) \/ Wedge(k) \/ Escalate(k)
    \/ Retry \/ GiveUp
    \/ Shutdown \/ Drained \/ OutputStopped \/ CaptureStopped
    \/ ExitOrderly \/ ForceExit \/ Crash

\* Timers fire, the device lists come back (execFile has a timeout of its own) and a
\* signalled process that is not wedged ends.  Nothing makes a connection end.
Fairness ==
    /\ \A q \in Requests : WF_vars(Reject(q) \/ Apply(q)) /\ WF_vars(Save(q) \/ SaveFails(q))
    /\ WF_vars(Escalate("output")) /\ WF_vars(GiveUp)
    /\ WF_vars(ff["output"] # "live" /\ Exit("output"))
    /\ WF_vars(ForceExit)

Spec == Init /\ [][Next]_vars

FairSpec == Spec /\ Fairness

--------------------------------------------------------------------------------
TypeOK ==
    /\ phase \in {"down", "up", "drain", "output", "input", "close"}
    /\ lives \in 0..(MaxLives + 1)
    /\ ended \in {"never", "orderly", "forced", "crash"}
    /\ sel \in [Kinds -> Devices]
    /\ file \in {None, Torn} \union [Kinds -> Devices]
    /\ req \in [Requests -> {"none", "listing", "switching", "saving", "answered"}]
    /\ want \in [Requests -> [Kinds -> Devices \union {None}]]
    /\ ff \in [Kinds -> {"none", "live", "told", "killed"}]
    /\ wedged \subseteq Kinds
    /\ output \in {"idle", "starting", "on"}
    /\ Alive => (output = "on" <=> ff["output"] = "live")
    /\ unwritten \in BOOLEAN

\* "The selection has to outlive a restart" (devices.js:190): whatever requests
\* overlapped and however the last life ended, the next one uses the devices the
\* last one ended with, unless the last change was never written to the file.
OutlivesRestart == [][Boot /\ ~unwritten => sel' = sel]_vars

\* "ffmpeg releases the sound card" (server.js:789): once an orderly shutdown is done
\* with capture no capture process exists but a wedged one, whichever device request
\* is still at work.
CaptureFreed ==
    phase = "close" \/ (phase = "down" /\ ended = "orderly") =>
        ff["input"] = "none" \/ "input" \in wedged

\* A shutdown ends, although a connection may keep server.close() waiting for ever.
ShutdownEnds == (Alive /\ phase # "up") ~> ~Alive
================================================================================
