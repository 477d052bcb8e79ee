---------------------------- MODULE LifecycleProofs ----------------------------
(***************************************************************************)
(* Lifecycle for every number of requests, devices and lives: the device   *)
(* selection outlives a restart, and an orderly exit frees capture.        *)
(***************************************************************************)
EXTENDS Lifecycle, TLAPS

\* What a boot would load is the selection, unless it changed since the last write.
SelectionInv ==
    /\ sel \in [Kinds -> Devices]
    /\ file \in {None, Torn} \union [Kinds -> Devices]
    /\ want \in [Requests -> [Kinds -> Devices \union {None}]]
    /\ unwritten \in BOOLEAN
    /\ ~unwritten => \A k \in Kinds : sel[k] = Loaded(k)

\* Before the selection is chosen, and after a torn write, it is that of .env.
LEMMA SelectionInit == Init => SelectionInv
<1> SUFFICES ASSUME Init PROVE SelectionInv
  OBVIOUS
<1>1. /\ sel = [k \in Kinds |-> Env] /\ file = None /\ unwritten = FALSE
      /\ want = [q \in Requests |-> [k \in Kinds |-> None]]
  BY DEF Init, Nothing
<1> QED
  BY <1>1, LifecycleAssumption DEF SelectionInv, Loaded

\* Every request, failed write, crash and boot preserves it.
LEMMA SelectionStep == SelectionInv /\ [Next]_vars => SelectionInv'
<1> SUFFICES ASSUME SelectionInv, [Next]_vars PROVE SelectionInv'
  OBVIOUS
<1> USE LifecycleAssumption
<1> USE DEF SelectionInv
<1>1. CASE Boot
  <2>1. sel' = [k \in Kinds |-> Loaded(k)] /\ UNCHANGED <<file, want>> /\ unwritten' = FALSE
    BY <1>1 DEF Boot, requestVars
  <2>2. \A k \in Kinds : Loaded(k) \in Devices /\ Loaded(k)' = Loaded(k)
    BY <2>1 DEF Loaded
  <2>3. sel' \in [Kinds -> Devices] /\ \A k \in Kinds : sel'[k] = Loaded(k)
    BY <2>1, <2>2
  <2> QED
    BY <2>1, <2>2, <2>3
<1>2. ASSUME NEW q \in Requests, NEW w \in [Kinds -> Devices \union {None}], Post(q, w)
      PROVE  SelectionInv'
  BY <1>2 DEF Post, Loaded
<1>3. ASSUME NEW q \in Requests, Reject(q) PROVE SelectionInv'
  BY <1>3 DEF Reject, Answered, Nothing, Loaded
<1>4. ASSUME NEW q \in Requests, Apply(q) PROVE SelectionInv'
  <2> DEFINE new == [k \in Kinds |-> IF want[q][k] = None THEN sel[k] ELSE want[q][k]]
  <2>1. /\ sel' = new /\ unwritten' = (unwritten \/ new # sel)
        /\ UNCHANGED <<file, want>>
    BY <1>4 DEF Apply
  <2>2. new \in [Kinds -> Devices]
    OBVIOUS
  <2> HIDE DEF new
  <2> QED
    BY <2>1, <2>2 DEF Loaded
<1>5. ASSUME NEW q \in Requests, Save(q) PROVE SelectionInv'
  <2>1. /\ file' = sel /\ sel' = sel /\ unwritten' = FALSE
        /\ want' = [want EXCEPT ![q] = Nothing]
    BY <1>5 DEF Save, Saved, Answered
  <2>2. file' \notin {None, Torn}
    BY <2>1 DEF Kinds
  <2> QED
    BY <2>1, <2>2 DEF Loaded, Nothing
<1>6. ASSUME NEW q \in Requests, SaveFails(q) PROVE SelectionInv'
  BY <1>6 DEF SaveFails, Answered, Nothing, Loaded
<1>7. CASE ExitOrderly \/ ForceExit
  BY <1>7 DEF ExitOrderly, ForceExit, Dies, Nothing, Loaded
<1>8. CASE Crash
  BY <1>8 DEF Crash, Dies, Nothing, Loaded
<1>9. CASE UNCHANGED <<sel, file, want, unwritten>>
  BY <1>9 DEF Loaded
<1>10. CASE \/ StartOutput \/ OutputSpawned \/ StopOutput \/ Retry \/ GiveUp
            \/ Shutdown \/ Drained \/ OutputStopped \/ CaptureStopped
  BY <1>9, <1>10
     DEF StartOutput, OutputSpawned, StopOutput, Retry, GiveUp, Shutdown, Drained,
         OutputStopped, CaptureStopped, requestVars
<1>11. ASSUME NEW k \in Kinds, Exit(k) \/ Wedge(k) \/ Escalate(k) PROVE SelectionInv'
  BY <1>9, <1>11 DEF Exit, Wedge, Escalate, requestVars
<1>12. CASE UNCHANGED vars
  BY <1>9, <1>12 DEF vars, requestVars
<1> QED
  BY <1>1, <1>2, <1>3, <1>4, <1>5, <1>6, <1>7, <1>8, <1>10, <1>11, <1>12 DEF Next

\* A boot after a last change that was written brings back the devices that were
\* selected (devices.js:190), whatever requests overlapped, failed or were cut off.
THEOREM SelectionOutlivesRestart == Spec => OutlivesRestart
<1>1. SelectionInv /\ [Next]_vars => [Boot /\ ~unwritten => sel' = sel]_vars
  BY DEF SelectionInv, Boot
<1> QED
  BY <1>1, SelectionInit, SelectionStep, PTL DEF Spec, OutlivesRestart

--------------------------------------------------------------------------------
\* Once capture.stop() has returned nothing is spawned; with the type of ff this is
\* inductive.
FreedInv ==
    /\ ff \in [Kinds -> {"none", "live", "told", "killed"}]
    /\ CaptureFreed

\* The server as started has no process to free.
LEMMA FreedInit == Init => FreedInv
<1> SUFFICES ASSUME Init PROVE FreedInv
  OBVIOUS
<1>1. ff = [k \in Kinds |-> "none"] /\ phase = "down" /\ ended = "never"
  BY DEF Init
<1> QED
  BY <1>1 DEF FreedInv, CaptureFreed

\* Every step preserves it; only a device request still at work could spawn.
LEMMA FreedStep == FreedInv /\ [Next]_vars => FreedInv'
<1> SUFFICES ASSUME FreedInv, [Next]_vars PROVE FreedInv'
  OBVIOUS
<1> USE DEF FreedInv, CaptureFreed, Kinds
<1>1. CASE UNCHANGED <<phase, ended, ff, wedged>>
  BY <1>1
<1>2. CASE Boot
  BY <1>2 DEF Boot
<1>3. ASSUME NEW q \in Requests,
             \/ \E w \in [Kinds -> Devices \union {None}] : Post(q, w)
             \/ Reject(q) \/ Save(q) \/ SaveFails(q)
      PROVE  FreedInv'
  BY <1>1, <1>3 DEF Post, Reject, Save, SaveFails, audioVars
<1>4. ASSUME NEW q \in Requests, Apply(q) PROVE FreedInv'
  <2>1. UNCHANGED <<phase, ended, wedged>>
    BY <1>4 DEF Apply
  <2>2. PICK f \in {ff, Repointed} : ff' \in {f, Told(f, "output")}
    BY <1>4 DEF Apply
  <2>3. f \in [Kinds -> {"none", "live", "told", "killed"}]
    BY <2>2 DEF Repointed, Told
  <2>4. phase \in {"close", "down"} /\ ff["input"] = "none" => f["input"] = "none"
    <3>1. phase # "down"
      BY <1>4 DEF Apply, Alive
    <3> QED
      BY <2>2, <3>1 DEF Repointed, Stopping
  <2> QED
    BY <2>1, <2>2, <2>3, <2>4 DEF Told
<1>5. CASE StartOutput \/ GiveUp
  BY <1>1, <1>5 DEF StartOutput, GiveUp, audioVars
<1>6. CASE OutputSpawned \/ StopOutput
  BY <1>6 DEF OutputSpawned, StopOutput, Told
<1>7. CASE Retry
  BY <1>7 DEF Retry, Stopping, Alive
<1>8. ASSUME NEW k \in Kinds, Exit(k) PROVE FreedInv'
  BY <1>8 DEF Exit
<1>9. ASSUME NEW k \in Kinds, Wedge(k) \/ Escalate(k) PROVE FreedInv'
  BY <1>9 DEF Wedge, Escalate
<1>10. CASE Shutdown \/ Drained \/ OutputStopped
  BY <1>10 DEF Shutdown, Drained, OutputStopped, Told
<1>11. CASE CaptureStopped
  BY <1>11 DEF CaptureStopped, Gone, audioVars
<1>12. CASE ExitOrderly \/ ForceExit \/ Crash
  BY <1>12 DEF ExitOrderly, ForceExit, Crash, Dies, audioVars
<1>13. CASE UNCHANGED vars
  BY <1>1, <1>13 DEF vars, audioVars
<1> QED
  BY <1>2, <1>3, <1>4, <1>5, <1>6, <1>7, <1>8, <1>9, <1>10, <1>11, <1>12, <1>13 DEF Next

\* An orderly exit leaves no capture process behind but a wedged one (server.js:789),
\* for any number of device requests still at work when it began.
THEOREM OrderlyExitFreesCapture == Spec => []CaptureFreed
<1>1. FreedInv => CaptureFreed
  BY DEF FreedInv
<1> QED
  BY <1>1, FreedInit, FreedStep, PTL DEF Spec

--------------------------------------------------------------------------------
\* The rest of TypeOK: a stream is on exactly while its ffmpeg has not been told to end.
StateInv ==
    /\ phase \in {"down", "up", "drain", "output", "input", "close"}
    /\ lives \in 0..(MaxLives + 1)
    /\ ended \in {"never", "orderly", "forced", "crash"}
    /\ req \in [Requests -> {"none", "listing", "switching", "saving", "answered"}]
    /\ wedged \subseteq Kinds
    /\ output \in {"idle", "starting", "on"}
    /\ Alive => (output = "on" <=> ff["output"] = "live")

LEMMA StateInit == Init => StateInv
<1> SUFFICES ASSUME Init PROVE StateInv
  OBVIOUS
<1>1. phase = "down" /\ lives = 0 /\ ended = "never" /\ wedged = {} /\ output = "idle"
  BY DEF Init
<1>2. req = [q \in Requests |-> "none"]
  BY DEF Init
<1> QED
  BY <1>1, <1>2, LifecycleAssumption DEF StateInv, Alive

\* Every step preserves it.
LEMMA StateStep == FreedInv /\ StateInv /\ [Next]_vars => StateInv'
<1> SUFFICES ASSUME FreedInv, StateInv, [Next]_vars PROVE StateInv'
  OBVIOUS
<1> USE LifecycleAssumption DEF StateInv, FreedInv, Alive, Kinds
<1>1. CASE Boot
  BY <1>1 DEF Boot, requestVars
<1>2. ASSUME NEW q \in Requests,
             \/ \E w \in [Kinds -> Devices \union {None}] : Post(q, w)
             \/ Reject(q) \/ Save(q) \/ SaveFails(q)
      PROVE  StateInv'
  BY <1>2 DEF Post, Reject, Save, SaveFails, Answered, audioVars
<1>3. ASSUME NEW q \in Requests, Apply(q) PROVE StateInv'
  <2>1. UNCHANGED <<phase, lives, ended, wedged>> /\ Alive
    BY <1>3 DEF Apply
  <2>2. PICK f \in {ff, Repointed} :
            \/ /\ output = "on" /\ ff' = Told(f, "output") /\ output' = "idle"
               /\ req' = [req EXCEPT ![q] = "switching"]
            \/ /\ ff' = f /\ output' = output /\ req' = [req EXCEPT ![q] = "saving"]
    BY <1>3 DEF Apply
  <2>3. f \in [Kinds -> {"none", "live", "told", "killed"}] /\ f["output"] = ff["output"]
    BY <2>2 DEF Repointed, Told
  <2> QED
    BY <2>1, <2>2, <2>3 DEF Told
<1>4. CASE StartOutput \/ OutputSpawned \/ StopOutput
  BY <1>4 DEF StartOutput, OutputSpawned, StopOutput, Told, requestVars
<1>5. ASSUME NEW k \in Kinds, Exit(k) PROVE StateInv'
  BY <1>5 DEF Exit, Released
<1>6. ASSUME NEW k \in Kinds, Wedge(k) \/ Escalate(k) PROVE StateInv'
  BY <1>6 DEF Wedge, Escalate, requestVars
<1>7. CASE Retry \/ GiveUp
  BY <1>7 DEF Retry, GiveUp, Released, requestVars, audioVars
<1>8. CASE Shutdown \/ Drained \/ OutputStopped \/ CaptureStopped
  BY <1>8
     DEF Shutdown, Drained, OutputStopped, CaptureStopped, Told, requestVars, audioVars
<1>9. CASE ExitOrderly \/ ForceExit \/ Crash
  BY <1>9 DEF ExitOrderly, ForceExit, Crash, Dies, audioVars
<1>10. CASE UNCHANGED vars
  BY <1>10 DEF vars, requestVars, audioVars
<1> QED
  BY <1>1, <1>2, <1>3, <1>4, <1>5, <1>6, <1>7, <1>8, <1>9, <1>10 DEF Next

\* The variables of the process stay in their ranges, and a stream is on exactly while its
\* ffmpeg has not been told to end.
THEOREM TypeCorrect == Spec => []TypeOK
<1>1. SelectionInv /\ FreedInv /\ StateInv => TypeOK
  BY DEF SelectionInv, FreedInv, StateInv, TypeOK
<1> QED
  BY <1>1, SelectionInit, SelectionStep, FreedInit, FreedStep, StateInit, StateStep, PTL
     DEF Spec
================================================================================
