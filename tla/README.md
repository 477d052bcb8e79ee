# Church intercom: a TLA+ verification project

The program is an intercom for a church: a Node server (`src/server.js`) with mediasoup, one
page for the browser (`src/public/index.html`), an ffmpeg that reads the building's capture
card and an ffmpeg that plays one admin's microphone on the building's speakers
(`src/audio.js`). This directory models its control: which process, socket, transport or
track exists when, who owns it, and what is left when something ends.

## 1. The system

### Parts

| Part | State it keeps | Operations | Talks to |
|---|---|---|---|
| Hardware capture, `AudioCapture` (audio.js:110-425) | the child process, the device, the retry timer and its delay, `running`, `stopping`, the feeds | start, spawn/error/exit handlers, retry, setDevice, stop | one ffmpeg; HTTP device selection; shutdown; health |
| Building output, `AudioPlayback` (audio.js:427-647) | `session`, per start a plain transport, a consumer, an ffmpeg, an SDP file | start (six awaits), stop, setDevice, exit handler | `setPlayback`, `disconnecting`, HTTP device selection, shutdown |
| Rooms and signalling (server.js:446-770) | the room registry, per room its peers, per peer transports, producers, consumers; `producerOwners` | connection, createTransport, produce, getProducers, consume, resume/closeConsumer, kick, disconnecting | every browser, by Socket.IO |
| Client session (index.html:2734-3053) | socket and room, the media generation, microphone, gated stream, transports, producers, mute and push-to-talk | joinRoom, establishMedia, reconnecting, teardown, leaveRoom, buttons | the server; the browser's media API |
| Client subscriptions (index.html:2634-2722) | `consuming`, cards | consumeProducer, attachPeerAudio, closeConsumer, peer and producer events | the server |
| Client feeds (index.html, startFeed/stopFeed/renderFeeds) | per feed: wanted, listening, consumer | start, stop, resume after a drop | the server |
| Input switching and playback button (index.html) | the input device, a pending flag | switchInputDevice, togglePlayback | the browser's media API, the server |
| Device selection (server.js, devices.js) | settings file, the selected devices | list, select, save, load at boot | capture, output |
| Accounts and sessions (auth.js, server.js:105-231) | users, sessions, the admin flag cached in a socket | login, logout, register, requireAdmin, the handshake, kick | database, session store |
| Login rate limiter (server.js:41-69) | a window with its count per address | one check per request | - |
| Boot and database (server.js:835-840, db.js, auth.js:228-248) | none once it is up | waitForDatabase, bootstrapAdminUser | database, the supervisor that restarts the process |
| Shutdown (server.js:794-833) | `shuttingDown` | the ordered teardown, the forced exit | everything |
| Health check, configuration, deployment, sign-in page | none that changes | - | - |

### What is hard in it

* **Event-loop interleavings.** Everything is asynchronous and nothing is locked: between
  two awaits of `AudioPlayback.start`, `establishMedia`, `consumeProducer` or a server
  handler any other callback runs. The guards (`session`, `consuming`, `stale()`) are
  looked at before an await and relied on after it.
* **Processes that do not obey.** ffmpeg exits by itself, cannot be executed, ignores
  SIGTERM, or sticks in the driver where SIGKILL does not help.
* **Connections that break.** An acknowledgement under way is lost; the server's work for
  the lost connection goes on; the page comes back as another socket and sets up again while
  the old setup still waits.
* **Timers** that fire after what they guard: the retry timer, the escalation of
  `terminateChild`, the 20-second microphone and 30-second setup watchdogs.

PROJECT.json lists each such place as a hazard, with the properties that look at it.

### What makes each part correct

* Capture: one process on a card that admits one; while in service always a process or an
  armed retry; a device change is carried out; `stop` returns and frees the card; nothing
  comes back after it.
* Output: one admin on the speakers; an ffmpeg that nobody answers for never exists; failed
  starts and finished stops leave nothing; nobody who left is on the air.
* Signalling: everybody in a room hears and sees everybody, whatever the order of joining
  and producing; departures clean up on the server and in the browsers; a join completes.
* Device selection and shutdown: the selection outlives a restart; requests that overlap do not
  save each other away; a shutdown ends, and capture has gone when it is orderly.
* Accounts: whoever is let in has an active account at that moment, and an administrator has
  the flag and ticked the box; the server comes up when its database answers.
* Rate limiter: never more than two quotas in a window's time, and an honest Retry-After.
* Feeds: a feed that shows "Listening" plays, one turned off does not, none is received twice, and
  a wanted feed plays again after a reconnection.
* Microphone controls: push-to-talk has no latch; the track on the air is the current one; no
  other microphone stays open.
* Client session: late work of a dead connection attaches to nothing; the mute button tells
  the truth; leaving turns the microphone off; joining never hangs; a drop does not eject.

## 2. The modules

| Module | Models | Correspondence |
|---|---|---|
| `Supervisor` | abstract: what a supervised service promises | rise, fall, halt |
| `Capture` | `AudioCapture` | one action per callback: `OnSpawn`, `OnError`, `OnExit`, `TimerFires`, `SetDevice`, `Stop`, `Escalate`, `StopReturns`; the world is `OpenCard`, `Wedge`. Implements `Supervisor` |
| `CaptureBackoff` | Capture with the delay of the last retry as history | one history variable |
| `CaptureProofs` | theorems about Capture | section 5 |
| `Speaker` | abstract: the building's speakers pass between admins only through being free | acquire, release |
| `Playback` | `AudioPlayback`, and `setPlayback` / `disconnecting` of server.js | an attempt is one call of `start`; `pc` says at which await it is; `stopPc` where the `stop` of its session is; admins connect, start, stop, leave; another request changes the device |
| `PlaybackProofs` | theorems about Playback | section 5 |
| `Signalling` | the connection handlers of server.js with the browser that publishes and subscribes | a connection is one socket, its messages a FIFO; the server handles a request in the step that sends it, up to its first await; each await of server or browser ends in an action of its own |
| `SignallingProofs` | theorems about Signalling | section 5 |
| `ClientSession` | one page: joining, setups, drops, leaving, microphone and buttons | a setup is one call of `establishMedia`; `pc` is its await; `current` is the setup whose generation is `mediaGeneration` |
| `ClientSessionProofs` | theorems about ClientSession | section 5 |
| `Lifecycle` | the server process life after life: boot with the saved selection, `POST /api/audio/devices`, the settings file, `shutdown()` with its forced exit, crashes | `phase` is the await of `shutdown`, `req` the await of each request; the file is absent, torn, or a selection |
| `LifecycleProofs` | theorems about Lifecycle | section 5 |
| `Accounts` | sign-in, sessions, admission of admin requests and sockets, kick, boot with `waitForDatabase` and `bootstrapAdminUser` | `login` is one `POST /api/login` of a browser, `call` one use of `getUserById`; the database reads in one step and the server acts in a later one; the operator's UPDATEs are steps of their own |
| `Limiter` | `createRateLimiter` | one action per branch; `Swept` is the sweep that begins every request |
| `SignInProofs` | theorems about Accounts and Limiter | section 5 |
| `Feeds` | one feed in one page: `renderFeeds`, `startFeed`, `stopFeed`, both buttons, drops | a start is one call of `startFeed` with the consumer it makes; `pc` is its await |
| `FeedsProofs` | theorems about Feeds | section 5 |
| `Mic` | `switchInputDevice`, mute, push-to-talk by finger and headset key, blur, around drops and leaving | a switch is one call; `pc` is its await, `queue` the pending `replaceTrack` calls |
| `MicProofs` | theorems about Mic | section 5 |

Definitions keep the source's names where there is one. Beside a definition some modules hold
a second form of it that ends in a different way (`KeepRetry` beside `DropRetry`): a plausible
slip in that code, which no specification uses. PROJECT.json says which property each of them
breaks.

Abstractions worth knowing:

* *Capture.* The `spawn` and `error` events are `process.nextTick` callbacks and run before
  any other callback, so the other actions wait for `Settled`. A card admits one process;
  an ffmpeg that finds it busy ends. `Procs` are identities that may be used again.
* *Playback.* An attempt and the ffmpeg it spawns share a name. An ffmpeg that can be executed
  is assumed (see the hazard at audio.js:577). Ports are exclusive; the SDP file is
  per socket, as in the code, so that the late unlink of one stop can hit the next start.
* *Signalling.* A peer has one microphone, so a producer is named by its connection. The local
  `recvTransport.consume` succeeds. Names, levels and feeds are left out.
* *ClientSession.* `leaving` is not a variable: leaveRoom also raises the generation, so
  `stale()` is `current # s`. Whether `producer.close()` stops its track belongs to
  mediasoup-client; `ClosedWith` allows both. The server is not modelled: any request may
  be answered, refused or never answered.
* *Lifecycle.* Each audio service is its ffmpeg and whether it was told to end. A start of the output
  waits until the previous ffmpeg has gone, since the overlap is Playback's subject. Which
  devices `arecord` and `aplay` list is free: a request may be rejected or not. A write fails before
  or after the file was truncated, and a crash may tear it.
* *Accounts.* An account stands for its username and email; a session carries only what
  decisions read. `box` is history: the checkbox behind a session. A handler of an admin request
  other than registration changes no account. A call's slot is free when it is over.
* *Limiter.* Time is a counter that moves forward; the count of a spent window is capped just
  above the quota, beyond which it tells nothing.
* *Feeds.* The other feeds of the page are there only as presses of the stage button. A start
  whose answer was lost with the connection stands still for ever, so its slot is free again. A
  feed list comes with each connection and with `getFeeds`, as the server sends it.
* *Mic.* Starts in the room, with the first microphone; ClientSession has how it got there. A
  track is named by kind (raw, gated) and stream. The worklet was loaded by the join, so that wait
  of a switch lets nothing else in. What mediasoup-client does to tracks it drops, and to `enabled`
  of one it replaces, is left open. A device that is unplugged (`trackended`) is not modelled.

## 3. The runs

| Run | Bounds | Distinct states | What it shows |
|---|---|---|---|
| `capture` | 2 process identities, 2 devices, delay 1 to 4 | 850 | the safety and liveness of Capture, and that it implements Supervisor |
| `capture_backoff` | the same | violated | finding 1 |
| `playback` | 2 admins, 2 starts, 2 devices | 161,378 | safety of the output, overlapping starts included, and that starts and stops return |
| `signalling` | 2 connections, 2 rooms | 39,528 | the subscription protocol and the clean-up |
| `client` | 2 setups of one page | 88,411 | the session of one page |
| `client_drop_ejects` | the same | violated | finding 2 |
| `lifecycle` | 2 requests in 1 life, 2 devices, then one more boot | 133,588 | device selection across overlap, failure, shutdown and crash |
| `accounts` | 2 accounts, 1 browser, 1 room, 1 call, 2 attempts | 51,699 | admission against a database that changes, and the boot |
| `accounts_revocation` | the same with 2 calls and 1 attempt | violated | finding 3 |
| `limiter` | 2 addresses, window 3, quota 2, time up to 8, 2 units a second | 2,809,441 | the quota over any span, and Retry-After |
| `feeds` | 3 starts | 11,789 | what the feed's button says against what plays |
| `mic` | 2 switches | 69,912 | buttons, switches and the track on the air |

Why the bounds are enough for the questions asked. In Capture at most one process is live, so
the second identity is already more than the code uses (the theorems of section 5 remove
the bound). Two starts are what an overlap, a hand-over and a restart need, and two admins
what it takes for the second not to be held back by the first one's wait; a second device
matters to safety only. Two connections show every pairing of one publisher with
one subscriber in every order, and both may be in one room or in two; interference of a third
connection (three are beyond seven million states) is the theorems' to exclude. One lost connection and its
successor are the shape of every client hazard listed; a third setup (fifteen million states) is the theorems'. Two
requests in one life, and the boot after it, are what it takes to save around each other's
await and to see what was kept; a file left by an earlier life is covered by the first
request's. A connection never comes back under its name: a reconnection is another one.

In Accounts an admission concerns one call, one session and one account, and a second account is
the one that may be taken for the first administrator; kick needs a second connection, which
the violation run has. In Limiter two addresses are what the sweep of one's window by
another's request takes, and the span of time reaches into a third window. Three starts of a feed are two that overlap
and one that comes upon what they left. Two switches overlap, and stop each other's stream.
The theorems of section 5 remove these bounds for the safety properties they name, in Signalling
for any number of connections and rooms.

Deadlock is checked where something can always happen (Feeds). Elsewhere parts may come to rest: capture
after `stop`, all attempts, connections, setups or switches used, the end of time, a server that is
locked out of its boot. That they do not come to rest too early is what `StopCompletes`,
`SwitchTakesEffect`, `CallsSettle`, `JoinCompletes`, `JoiningEnds`, `ShutdownEnds`, `ComesUp` and
`WantedPlays` say.

### History variables and conditional properties

Some properties hold except where the code has a known gap, and a history variable names the
gap so that the property says exactly where it is:

* `overlapped` (Playback): two calls of `start` overlapped. `NoOrphan`, `StreamsToDevice` and
  `OwnerHandover` hold without; `NothingLeft` and `DepartedOffAir` hold in any case.
* `raced` (Signalling): a connection was lost while the server was creating a transport or a
  producer for it; what is created then stays (`NothingLeft`).
* `crossed` (Signalling): a speaker left while a client was subscribing to it; only there may
  a dead card or consumer stay (`GhostsOnlyWhenCrossed`).
* `abandonedAt`, `ejected` (ClientSession): where a setup was when the page gave it up; which
  setup put the user out, and which was current then. `MicOffOutside` and `OnAirAsShown`
  exclude a setup given up while it was acquiring the microphone: the stream that
  arrives then is stored before `stale()` is looked at (index.html:2863-2864).
* `unwritten` (Lifecycle): the selection changed since the file was last written whole.
  `OutlivesRestart` excludes only that: a write that failed or was torn, or a life that ended
  between the change and the write. A write is not atomic (devices.js:210), so a crash
  in the middle of one loses the earlier selection too.

* `Locked` (Accounts, a state): every administrator was revoked and the bootstrap name is taken,
  so each boot fails at the INSERT; `ComesUp` exempts only that.
* `crossed`, `doubled` (Feeds): the last stop met a start in progress, which then shows a feed whose
  consumer is closed; two starts consumed the feed, which leaves a consumer behind.
* `crossed`, `late` (Mic): a switch took effect while `sendTransport.produce` was under way, and is
  lost; a switch got its stream after the page had left, and its microphone stays open.

The gaps the models have and no property claims away:

* Two overlapping starts put two ffmpegs on the output (audio.js:546): `overlapped`.
* `stop` holds back only its own caller's restart, whatever its comment promises
  (audio.js:631-641): another client's start spawns into a busy device.
* A producer offered by both getProducers and new-producer is consumed twice
  (index.html:2652); in Feeds this is `doubled`.
* Tearing down a dropped connection may end the microphone track that was to be kept
  (index.html:2979-2981), by the library's default for `stopTracks`: `ClosedWith`.
* A feed dropped while its start is in `play()` shows "Listening" without a consumer, and so is not
  resumed (index.html:1940-1948, 2935): `crossed` of Feeds.

Not a property, because the code does not have it: an orderly exit frees the output. `io.close()`
lets the `disconnecting` handlers take the session, after which the awaited
`playback.stop(null)` has nothing to wait for (server.js:806-808); and a forced exit frees nothing.

### Fairness

* Capture: the event loop delivers events, timers fire, and a process that was signalled and is
  not wedged ends. A healthy process need not end; a card need not open.
* Playback: every await of `start` and `stop` settles (`#waitForPort` has a deadline,
  `terminateChild` its timers, and mediasoup answers) and a signalled, not wedged process ends.
  Nothing is assumed of admins.
* Signalling: the server answers and the browser goes on, per connection; nobody has to come
  or to leave.
* ClientSession: only that the watchdog timer fires. Every await may take for ever, so
  `JoiningEnds` rests on the watchdog alone.
* Accounts: the supervisor starts the process again (weak), and a database that is asked again and again
  answers each of the three boot queries at some time (strong: it may fail any number of times
  before). Nothing is assumed of people.
* Feeds: per start, answers come while the connection lasts and an element with a track plays.
* Limiter and Mic state no liveness.
* Lifecycle: timers fire, the device lists come back (`execFile` has a timeout), signalled processes
  that are not wedged end. Connections need not end: `ShutdownEnds` rests on the forced exit.

## 4. Findings

Three places where the code does not do what a comment or the README says; each is a run that
ends in a violation, and PROJECT.json quotes the lines.

1. The retry delay of capture never grows with a busy or missing card (audio.js:348).
2. The watchdog of a setup whose connection was lost puts out the user who has reconnected
   (index.html:2761-2767).
3. A revoked administrator goes on acting through the connection that is open: the handshake
   caches the answer (auth.js:357), and `kick` and `setPlayback` ask nothing else.

## 5. The theorems

`CaptureProofs` proves, for any processes, devices and delays (`CaptureAssumption`: `None` is no
process, the delays are naturals, capture is enabled or not):

| Theorem | Property |
|---|---|
| `TypeCorrect` | `TypeOK`, with the cap of the retry delay |
| `OneCapture` | `SingleCapture` |
| `NeverUnattended` | `Supervised` |
| `StaleProcessEnds` | `StaleDeviceIsDying` |
| `RunningMeansProcess` | `RunningIsTruthful` |
| `StopFreesCard` | `StopReleasesCard` |
| `CaptureIsSupervised` | `ServiceSpec`: Capture implements Supervisor |

The inductive invariant `IInv` is `TypeOK` with five parts. `SingleCapture` alone is not
inductive: from a state with one live process that the code has lost, a retry would spawn a
second. `HeldInv` excludes it: every process that exists is `child`, or the `dying` of `stop`.
`RetryInv` adds that in service a retry is armed exactly when no process exists, so the timer
finds nothing alive; `StopInv` ties `stopping`, `stopPc` and `child`; `DeviceInv` and
`RunningInv` carry the device and health properties. `InitInv` and `StepInv` (one step per
action; the spawns share `LaunchInv`) give `Invariance`; the
theorems follow from it, and the refinement maps each action to a rise, a fall, a halt or a
stutter.

`LifecycleProofs` proves, for any requests, devices and lives (`LifecycleAssumption`: the .env
device is a device, and the marks of an absent or torn file are no selection):

| Theorem | Property |
|---|---|
| `TypeCorrect` | `TypeOK` |
| `SelectionOutlivesRestart` | `OutlivesRestart` |
| `OrderlyExitFreesCapture` | `CaptureFreed` |

The second needs `SelectionInv`: unless `unwritten`, what a boot would load is what is selected. It
is a statement about the file in every state, where the property speaks of boots only. The
third is inductive with the type of `ff`: after `capture.stop()` only a device
request could spawn, and `stopping` forbids it. `StateInv` is the rest of `TypeOK`: a stream is on
exactly while its ffmpeg has not been told to end.

`SignInProofs` extends Accounts and Limiter. It proves, for any accounts, rooms, browsers, calls and
attempts (`AccountsAssumption`):

| Theorem | Property |
|---|---|
| `TypeCorrect` | `TypeOK` |
| `OnlyBackedAreAdmitted` | `AdmittedRightly` |

An action property: the step that admits looks at the database itself, but "ticked the box" is about
a login long ago. `BoxInv` carries it: a login past its query, a session and a call each have
`isAdmin` only with `box`. `TypeOK` needs that attempts stop before `MaxTries` while waiting
(`TriesInv`).

and for any window, quota and addresses (`LimiterAssumption`):

| Theorem | Property |
|---|---|
| `LimiterTypeCorrect` | `LimiterTypeOK` |
| `TwoQuotasAtMost` | `SlidingQuota` |
| `RetryAfterIsHonest` | `RetryHonest` |

The property speaks of the log of requests, the code of one window. `AddressInv`, one address at a
time, relates them: what got through before the window did so no later than its start, and all
but the last quota of that more than a window's length before it (`Behind`); the last refusal was in
the window that is there or in one that is over (`Fresh`, `Honest`). `CeilingCovers` is what
`Math.ceil` must do for Retry-After.

`FeedsProofs` proves, for any set of starts:

| Theorem | Property |
|---|---|
| `TypeCorrect` | `TypeOK` |
| `ShownIsHeard` | `ListeningIsHeard` |
| `OffStaysOff` | `OffIsOff` |
| `NoSecondConsumer` | `ReceivedOnce` |

`ConsumerInv` says which consumers exist by where their starts are; `SingleInv` that without
`doubled` at most one start is consuming and then the map is empty; `PlayInv` what a
start in `play()` has given to the element unless a stop met it; `OffInv` that a feed not wanted has
nothing in progress, or was stopped over it.

`MicProofs` proves, for any number of switches:

| Theorem | Property |
|---|---|
| `TypeCorrect` | `TypeOK` |
| `PressNeverLatches` | `NoLatch` |
| `CurrentTrackOnAir` | `CarriesOutbound` |
| `NoOpenMicBehind` | `OneMicOpen` |
| `PressIsHeard` | `PressTells` (an action property) |

`PressInv`: a press belongs to the finger or to `headsetPressActive`, which a key backs. `CarryInv`: the last
replaceTrack in the queue, or else the track on the air, is the current outbound one. `OpenInv`:
every open raw track is the current stream's or that of an `old` that a queued switch will
stop. `Types` is what these need of `TypeOK`, and `Ranges` the rest. `LiveInv` is what a press of mute needs:
that the current stream is open, and on under a gate (`CurrentLives`). Closing a producer or finishing a
switch could end it, if another stream's track went by its name; `OneOutbound`, `NotYetOnAir` and
`Fresh` exclude that, because each grant brings a stream of its own.

`PlaybackProofs` proves, for any sockets, starts and devices:

| Theorem | Property |
|---|---|
| `TypeCorrect` | `TypeOK` |
| `NothingStays` | `NothingLeft` |
| `NobodyDepartedOnAir` | `DepartedOffAir` |
| `NoneOrphaned` | `NoOrphan` |
| `StreamsWhereSelected` | `StreamsToDevice` |
| `HandoverThroughFree` | `OwnerHandover`: Playback implements Speaker while starts do not overlap |

`EarlyInv` says what a start has by the await it is at, so that an action finds only what the
code opened before it. `StopInv`: a stop has closed transport and consumer before it waits, and only
the process is left to it. `MediaInv` is what `DepartedOffAir` needs: an open consumer belongs to a
socket that is there. `AloneInv` carries the three properties about starts that do not overlap: then
one start at most is under way, and no other has the session. None of the first three needs that.

`ClientSessionProofs` proves, for any number of setups (`ClientSessionAssumption`):

| Theorem | Property |
|---|---|
| `TypeCorrect` | `TypeOK` |
| `LateWorkAttachesNothing` | `OnlyCurrentAttaches` |
| `LeavingIsFinal` | `IdleIsClean` |
| `LeavingTurnsMicOff` | `MicOffOutside` |
| `HeardAsShown` | `OnAirAsShown` |

`AskedInv`: a setup asks on its own connection only, so an answer that comes is to the current
setup; this is what stands in for `stale()` at the awaits after which the code does not look.
`ProducerInv`: before the end of produce there is no producer. `ChainInv`: out of a room no
`startMicChain` has the latest sequence, so one that gets ready publishes nothing. `MicInv`: the
microphones that are open are the page's own, which has none while it prompts for one; it rests on
`GuardInv` (the watchdog is armed until the setup has settled) and on `GivenUpInv` (a setup that was
given up is not taken up again). `AirInv` carries `HeardAsShown`: while no setup was given up when it
acquired a microphone, the chain under construction is the current setup's and the button is closed
until it is there (`ChainOfCurrent`), the outgoing track is switched as the button says, with the
microphone under its gate always on (`OutboundAsShown`), and that track is what the producer carries
(`CarriesOutbound`).

`SignallingProofs` proves, for any set of connections and of rooms (`SignallingAssumption`: `None`
is no connection):

| Theorem | Property |
|---|---|
| `TypeCorrect` | `TypeOK` |
| `OneStateForARoom` | `OneStatePerRoom` |
| `NobodyIsMissed` | `RoomIsWhole` |
| `GhostsHaveCrossed` | `GhostsOnlyWhenCrossed` |
| `NothingIsLeft` | `NothingLeft` |

The last four speak of clients that have caught up, of rooms and of departures, and none of them is
inductive: what is under way in the inboxes decides what will be true later. `IInv` has three
layers. `Server` is `OneStatePerRoom` with what it rests on (`Registered`: a state is named by
somebody of its own room, so that no two rooms share one) and, for each connection, what the
server may hold by where the connection is (`Served`). `Client` says of each connection that
before and after its life it has nothing (`Off`), that it is never offered to itself (`Self`) and
that it waits for one list at most (`Listed`). `Pair` is the heart: for each client c and each
connection p it may hear of,

* `Mail`: a message that p left, or that its producer closed, is under way only when p has gone;
  an acknowledgement is under way exactly in the state of the call that waits for it;
* `Offers`: p is offered at most twice, by the list and by new-producer, and each offer meets a call
  that nobody used;
* `Follows`: the server's consumer is where its call is, while p is there;
* `Near`: who is announced, shown or being subscribed to is of the same room;
* `NotMissed`: who is in the room is shown or announced, and an open producer is offered or asked for;
* `Carded`, `Departs`: whoever is heard has a card, and what adds the card of somebody who has gone is
  followed by `peer-left`, or the pair is in `crossed`.

The invariants say which classes of messages are under way, not where, except for that "followed";
`Appended`, `AppendedLast`, `Received` and `ReceivedFirst` say what sending and handling one message
does to a class. A step concerns one pair, or one connection and everybody; the other pairs are
left alone by `Bystander`, which asks only that the inbox looks the same to them (`SameMail`).

Every invariant and every action property of a passing run is a theorem. Only model-checked: what
must eventually happen (`StopCompletes`, `SwitchTakesEffect`, `CallsSettle`, `JoinCompletes`,
`JoiningEnds`, `ShutdownEnds`, `ComesUp`, `WantedPlays`: liveness under fairness is out of the prover's
reach), and the violations of the runs that expect one.
## 6. Not modelled, and why

* The playback button: it shows what `setPlayback` answered and what `playback-state` said, and
  decides nothing. The server's side is in Playback.
* `connectTransport` (an idempotent hand-over of DTLS parameters), speaking levels, the wake lock, meters,
  an unplugged input device.
* The health check reads state and changes none; configuration is parsed once, and what of it
  matters is a constant of the modules.
* Sample processing of the noise gate, SQL and cookies, parsing of arecord/aplay output, markup,
  the sign-in page, deployment files, tests.
* The composition of a browser with the server beyond Signalling: ClientSession, Feeds and Mic
  let any request be answered, refused or lost instead.

## 7. Plan

1. `Capture`, `Playback`, `Signalling`, `ClientSession`, `Lifecycle`: done, in this order, since a
   silent building, a stuck output, an unheard speaker and a live microphone are the worst
   failures.
2. `Accounts`, `Limiter`, `Feeds`, `Mic`: done, each with its theorems.
3. Proofs for `Playback` and `ClientSession`, then for `Signalling`: done.
4. `OnAirAsShown` of ClientSession and `PressTells` of Mic: done, on an invariant of their own each.
   The modules hold no RECURSIVE operator.
