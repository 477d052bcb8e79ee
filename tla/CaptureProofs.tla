----------------------------- MODULE CaptureProofs -----------------------------
(***************************************************************************)
(* Capture for every set of processes and devices: its invariants, from    *)
(* one inductive invariant, and that it implements Supervisor.             *)
(***************************************************************************)
EXTENDS Capture, TLAPS

\* The process the object still answers for: this.child, then stop()'s local.
Held == IF stopping THEN dying ELSE child

\* stop() is under way exactly when `stopping` is set, and has taken the child over.
StopInv ==
    /\ stopping <=> stopPc # "idle"
    /\ stopping => child = None
    /\ stopPc = "done" => \A p \in Procs : proc[p] # "gone" => p \in wedged

\* Every process there is is the held one: this makes SingleCapture inductive.
HeldInv == \A p \in Procs : proc[p] # "gone" => p = Held

\* A retry is armed only when there is no process, and one of the two is there.
RetryInv ==
    /\ restartTimer => ~stopping /\ feeds /\ \A p \in Procs : proc[p] = "gone"
    /\ feeds /\ ~stopping => restartTimer \/ \E p \in Procs : proc[p] # "gone"
    /\ ~feeds /\ ~stopping => child = None
    /\ feeds => CaptureEnabled

DeviceInv ==
    \A p \in Procs :
        proc[p] # "gone" /\ procDevice[p] # device => signal[p] # "none" \/ stopping

RunningInv == running => \E p \in Procs : proc[p] \in {"up", "open"}

IInv == TypeOK /\ StopInv /\ HeldInv /\ RetryInv /\ DeviceInv /\ RunningInv

--------------------------------------------------------------------------------
\* The next retry delay is a natural number within the cap (audio.js:383).
LEMMA DoubledType ==
    ASSUME NEW ms \in Nat
    PROVE  Doubled(ms) \in Nat /\ Doubled(ms) <= RestartDelayMaxMs
BY CaptureAssumption DEF Doubled

\* The object as constructed satisfies the inductive invariant.
LEMMA InitInv == Init => IInv
BY CaptureAssumption
   DEF Init, IInv, TypeOK, StopInv, HeldInv, Held, RetryInv, DeviceInv, RunningInv

\* A spawn into an empty table preserves the invariant, as long as no retry stays
\* armed: what Start, TimerFires and SetDevice share.
LEMMA LaunchInv ==
    ASSUME IInv, ~stopping, \A p \in Procs : proc[p] = "gone", CaptureEnabled,
           NEW d \in Devices, Launch(d),
           device' = d, feeds' = TRUE, running' = running, restartTimer' = FALSE,
           restartDelayMs' = restartDelayMs \/ restartDelayMs' = RestartDelayMs,
           UNCHANGED stopVars
    PROVE  IInv'
<1>1. TypeOK /\ ~running /\ stopPc = "idle"
  BY DEF IInv, StopInv, RunningInv
<1>2. /\ proc' \in [Procs -> {"gone", "spawned", "failed", "up", "open"}]
      /\ procDevice' \in [Procs -> Devices]
      /\ signal' \in [Procs -> {"none", "term", "kill"}]
      /\ wedged' = wedged
      /\ child' \in Procs
      /\ proc'[child'] # "gone"
      /\ \A p \in Procs : proc'[p] # "gone" => p = child' /\ procDevice'[p] = d
  BY <1>1 DEF TypeOK, Launch
<1>3. TypeOK'
  BY <1>1, <1>2, CaptureAssumption DEF TypeOK, stopVars
<1>4. ~stopping' /\ stopPc' = "idle"
  BY <1>1 DEF stopVars
<1>5. StopInv'
  BY <1>4 DEF StopInv
<1>6. HeldInv'
  BY <1>2, <1>4 DEF HeldInv, Held
<1>7. RetryInv'
  BY <1>2, <1>4 DEF RetryInv
<1>8. DeviceInv'
  BY <1>2 DEF DeviceInv
<1>9. RunningInv'
  BY <1>1 DEF RunningInv
<1> QED
  BY <1>3, <1>5, <1>6, <1>7, <1>8, <1>9 DEF IInv

\* Every callback of AudioCapture preserves the inductive invariant.
LEMMA StepInv == IInv /\ [Next]_vars => IInv'
<1> SUFFICES ASSUME IInv, [Next]_vars PROVE IInv'
  OBVIOUS
<1> USE CaptureAssumption
<1> USE DEF IInv, TypeOK, StopInv, HeldInv, Held, RetryInv, DeviceInv, RunningInv
<1>1. CASE Start
  <2>1. ~stopping /\ CaptureEnabled /\ \A p \in Procs : proc[p] = "gone"
    BY <1>1 DEF Start
  <2>2. Launch(device)
    BY <1>1, <2>1 DEF Start, SpawnCapture
  <2>3. /\ device' = device /\ feeds' = TRUE /\ running' = running
        /\ restartTimer' = FALSE /\ restartDelayMs' = restartDelayMs /\ UNCHANGED stopVars
    BY <1>1 DEF Start, timerVars
  <2> QED
    BY <2>1, <2>2, <2>3, LaunchInv
<1>2. ASSUME NEW p \in Procs, OnSpawn(p) PROVE IInv'
  BY <1>2 DEF OnSpawn, stopVars
<1>3. ASSUME NEW p \in Procs, OnError(p) PROVE IInv'
  BY <1>3, DoubledType DEF OnError, ScheduleRestart, NotRunning, timerVars, stopVars
<1>4. ASSUME NEW p \in Procs, OpenCard(p) PROVE IInv'
  BY <1>4 DEF OpenCard, timerVars, stopVars
<1>5. ASSUME NEW p \in Procs, Wedge(p) PROVE IInv'
  BY <1>5 DEF Wedge, timerVars, stopVars
<1>6. ASSUME NEW p \in Procs, OnExit(p) PROVE IInv'
  BY <1>6, DoubledType DEF OnExit, ScheduleRestart, NotRunning, timerVars, stopVars
<1>7. CASE TimerFires
  <2>1. ~stopping /\ CaptureEnabled /\ \A p \in Procs : proc[p] = "gone"
    BY <1>7 DEF TimerFires
  <2>2. Launch(device)
    BY <1>7, <2>1 DEF TimerFires, SpawnCapture
  <2>3. /\ device' = device /\ feeds' = TRUE /\ running' = running
        /\ restartTimer' = FALSE /\ restartDelayMs' = restartDelayMs /\ UNCHANGED stopVars
    BY <1>7 DEF TimerFires
  <2> QED
    BY <2>1, <2>2, <2>3, LaunchInv
<1>8. ASSUME NEW d \in Devices, SetDevice(d) PROVE IInv'
  <2>1. CASE Alive(child)
    BY <1>8, <2>1, ZenonT(30) DEF SetDevice, Alive, Kill, DropRetry, stopVars
  <2>2. CASE ~Alive(child) /\ CaptureEnabled /\ feeds /\ ~stopping
    <3>1. \A p \in Procs : proc[p] = "gone"
      BY <2>2 DEF Alive
    <3>2. Launch(d)
      BY <1>8, <2>2 DEF SetDevice, SpawnCapture
    <3>3. /\ device' = d /\ feeds' = TRUE /\ running' = running
          /\ restartTimer' = FALSE /\ restartDelayMs' = RestartDelayMs /\ UNCHANGED stopVars
      BY <1>8, <2>2 DEF SetDevice, DropRetry
    <3> QED
      BY <2>2, <3>1, <3>2, <3>3, LaunchInv
  <2>3. CASE ~Alive(child) /\ ~(CaptureEnabled /\ feeds /\ ~stopping)
    BY <1>8, <2>3, ZenonT(30) DEF SetDevice, Alive, SpawnCapture, DropRetry, procVars, stopVars
  <2> QED
    BY <2>1, <2>2, <2>3
<1>9. CASE Stop
  BY <1>9 DEF Stop, Alive, Kill, DropRetry
<1>10. CASE Escalate
  BY <1>10 DEF Escalate, Alive, Kill, timerVars
<1>11. CASE StopReturns
  BY <1>11 DEF StopReturns, Resolved, Settled, Alive, NotRunning, procVars, timerVars
<1>12. CASE UNCHANGED vars
  BY <1>12 DEF vars, procVars, timerVars, stopVars
<1> QED
  BY <1>1, <1>2, <1>3, <1>4, <1>5, <1>6, <1>7, <1>8, <1>9, <1>10, <1>11, <1>12
     DEF Next

\* The inductive invariant holds in every reachable state.
LEMMA Invariance == Spec => []IInv
<1>1. Init => IInv
  BY InitInv
<1>2. IInv /\ [Next]_vars => IInv'
  BY StepInv
<1> QED
  BY <1>1, <1>2, PTL DEF Spec

\* The variables of Capture stay in their ranges for every set of processes and
\* devices; in particular the retry delay never outgrows its cap.
THEOREM TypeCorrect == Spec => []TypeOK
<1>1. IInv => TypeOK
  BY DEF IInv
<1> QED
  BY <1>1, Invariance, PTL

\* At no time do two capture processes exist (audio.js:200-206).
THEOREM OneCapture == Spec => []SingleCapture
<1>1. IInv => SingleCapture
  BY DEF IInv, HeldInv, SingleCapture, Live
<1> QED
  BY <1>1, Invariance, PTL

\* Capture in service always has a process or an armed retry, and never both.
THEOREM NeverUnattended == Spec => []Supervised
<1>1. IInv => Supervised
  BY DEF IInv, RetryInv, TypeOK, Supervised
<1> QED
  BY <1>1, Invariance, PTL

\* A process on a card that is no longer selected has been told to end.
THEOREM StaleProcessEnds == Spec => []StaleDeviceIsDying
<1>1. IInv => StaleDeviceIsDying
  BY DEF IInv, DeviceInv, StaleDeviceIsDying, Live
<1> QED
  BY <1>1, Invariance, PTL

\* `running` is never reported of a process that is not there.
THEOREM RunningMeansProcess == Spec => []RunningIsTruthful
<1>1. IInv => RunningIsTruthful
  BY DEF IInv, RunningInv, RunningIsTruthful, Live
<1> QED
  BY <1>1, Invariance, PTL

\* When stop() has returned only a wedged process still holds the card.
THEOREM StopFreesCard == Spec => []StopReleasesCard
<1>1. IInv => StopReleasesCard
  BY DEF IInv, StopInv, StopReleasesCard, Live
<1> QED
  BY <1>1, Invariance, PTL

--------------------------------------------------------------------------------
\* A capture that was not started is a service that is down.
LEMMA ServiceInit == Init => Service!Init
BY DEF Init, Service!Init, Live

\* Every step of Capture is a Rise, a Fall, a Halt or a stutter of Supervisor.
LEMMA ServiceStep == IInv /\ [Next]_vars => [Service!Next]_Service!vars
<1> SUFFICES ASSUME IInv, [Next]_vars PROVE [Service!Next]_Service!vars
  OBVIOUS
<1> DEFINE up == \E p \in Procs : Live(p)
<1> USE DEF Service!vars, Service!Next, Service!Rise, Service!Fall, Service!Halt
<1>1. ASSUME ~stopping, stopping' = stopping
      PROVE  [Service!Next]_Service!vars
  BY <1>1
<1>2. ASSUME stopping' = stopping, up' => up
      PROVE  [Service!Next]_Service!vars
  BY <1>2
<1>3. CASE Start
  BY <1>3, <1>1 DEF Start, stopVars, IInv, StopInv
<1>4. ASSUME NEW p \in Procs, OnSpawn(p) PROVE [Service!Next]_Service!vars
  <2>1. \A q \in Procs : Live(q)' <=> Live(q)
    BY <1>4 DEF OnSpawn, Live, IInv, TypeOK
  <2> QED
    BY <1>4, <2>1, <1>2 DEF OnSpawn, stopVars
<1>5. ASSUME NEW p \in Procs, OnError(p) PROVE [Service!Next]_Service!vars
  <2>1. \A q \in Procs : Live(q)' <=> Live(q)
    BY <1>5 DEF OnError, Live, IInv, TypeOK
  <2> QED
    BY <1>5, <2>1, <1>2 DEF OnError, stopVars
<1>6. ASSUME NEW p \in Procs, OpenCard(p) PROVE [Service!Next]_Service!vars
  <2>1. \A q \in Procs : Live(q)' <=> Live(q)
    BY <1>6 DEF OpenCard, Live, IInv, TypeOK
  <2> QED
    BY <1>6, <2>1, <1>2 DEF OpenCard, stopVars
<1>7. ASSUME NEW p \in Procs, Wedge(p) PROVE [Service!Next]_Service!vars
  BY <1>7, <1>2 DEF Wedge, stopVars, Live
<1>8. ASSUME NEW p \in Procs, OnExit(p) PROVE [Service!Next]_Service!vars
  <2>1. \A q \in Procs : Live(q)' => Live(q)
    BY <1>8 DEF OnExit, Live, IInv, TypeOK
  <2> QED
    BY <1>8, <2>1, <1>2 DEF OnExit, stopVars
<1>9. CASE TimerFires
  BY <1>9, <1>1 DEF TimerFires, stopVars, IInv, RetryInv
<1>10. ASSUME NEW d \in Devices, SetDevice(d) PROVE [Service!Next]_Service!vars
  <2>1. CASE ~stopping
    BY <1>10, <2>1, <1>1 DEF SetDevice, stopVars
  <2>2. CASE stopping
    <3>1. UNCHANGED <<proc, stopping>>
      BY <1>10, <2>2 DEF SetDevice, SpawnCapture, procVars, stopVars
    <3> QED
      BY <3>1, <1>2 DEF Live
  <2> QED
    BY <2>1, <2>2
<1>11. CASE Stop
  <2>1. ~stopping /\ stopping' /\ (up' <=> up)
    BY <1>11 DEF Stop, Live, IInv, TypeOK, StopInv
  <2> QED
    BY <1>11, <2>1 DEF Stop
<1>12. CASE Escalate
  BY <1>12, <1>2 DEF Escalate, Live
<1>13. CASE StopReturns
  BY <1>13, <1>2 DEF StopReturns, procVars, Live
<1>14. CASE UNCHANGED vars
  BY <1>14, <1>2 DEF vars, procVars, stopVars, Live
<1> QED
  BY <1>3, <1>4, <1>5, <1>6, <1>7, <1>8, <1>9, <1>10, <1>11, <1>12, <1>13, <1>14
     DEF Next

\* Capture implements Supervisor: once stop() was called nothing brings it back.
THEOREM CaptureIsSupervised == Spec => ServiceSpec
<1>1. Init => Service!Init
  BY ServiceInit
<1>2. IInv /\ [Next]_vars => [Service!Next]_Service!vars
  BY ServiceStep
<1> QED
  BY <1>1, <1>2, Invariance, PTL DEF Spec, ServiceSpec, Service!Spec
================================================================================
