# Verification of MoonTone

MoonTone is an Android client that plays the audio of one or several Sunshine
hosts.  This directory holds TLA+ models of its own control logic, the TLC runs
that check them on small instances and the TLAPS proofs that carry the most
important properties to every instance.  Paths below are relative to
`echolink-app/app/src/main/java/com/halo/moontone/` unless they start with
`tools/`; a bare C file name is a file of
`echolink-app/app/src/main/jni/moonlight-core/moonlight-common-c/src/`.

## The system

The main process talks HTTPS to hosts, supervises sessions and mixes audio.
`moonlight-common-c` keeps global state and can run one connection per process,
so every session of the multi-device mode runs in a worker process of its own
(`:conn1` … `:conn32`), which sends PCM back over a local socket.

| component | state | operations | what makes it correct |
|---|---|---|---|
| `multi/MultiController.kt` | sessions by slot, the last attempt number, one job per attempt, the published list | connect, disconnect, disconnectHost, stopAll, setMuted, setVolume; attempt job; worker callbacks | no orphaned worker, no stranded or revived session, bounded retries, gain and list agree with the session |
| `multi/AndroidMultiStreamingRuntime.kt`, `MoonToneApp.kt` | `playing`, playback owners | startPlayback, stopPlayback | held while wanted, released when idle, also after a partial failure |
| `multi/MultiSessionLauncher.kt` | none | prepare | asks for the kind of session the host has been learned to accept |
| `data/HostCapabilities.kt` | preference file | audioOnly, setAudioOnly | the two keys of a host agree |
| `multi/MultiConnectionManager.kt` | entries by slot: listener, client, source, gain | startDevice, accept thread, stopDevice, setGain | an entry is disposed of once; callbacks only for the entry in the slot |
| `multi/AudioMixer.kt`, `StereoDriftBuffer.kt`, `PcmProtocol.kt` | sources, drift buffers, track, two threads | start, stop, add, remove, mix; frame reader | no source is mixed after removal; stereo pairs stay together |
| `multi/ConnectionWorkerService.kt`, `SocketAudioRenderer.kt` | generation, socket, connection | onStartCommand, connecting thread, onDestroy | a destroyed worker leaves neither socket nor connection |
| `connection/MoonToneConnection.kt` | generations, state flow, native executor | connect, disconnect, listener callbacks, fail | starts and stops of the native library never overlap; stale callbacks are dropped; nothing stays running |
| `control/MoonToneController.kt` | connect and session generations, launch mutex, fallback job | launchAndConnect, connectManually, disconnect, fallback, posted cleanup | the last request wins; resources match the session |
| `audio/AdaptivePcmBuffer.kt`, `PlaybackBufferTuner.kt` | chunks, frame count, target, jitter window | offer, poll | bounded queue, target within its limits |
| `audio/MoonToneMicCapture.kt`, `MoonToneMicrophoneService.kt` | capture session, thread | start, stop, loop | record, socket and encoder are released once |
| `tools/mic_receiver.py` | pending packets, expected number | push, pop, reset_session | output in order without gaps, bounded memory |
| `data/DeviceDiscovery.kt` | seen, pending, resolving, generation | found, lost, resolved, start, stop | one resolve at a time; no callback after stop |
| `Connection.c` | stage, interruption, termination flags | LiStartConnection, LiStopConnection, LiInterruptConnection, termination shim | what a stage took is given back, once, and every call returns |
| `AudioStream.c`, `ControlStream.c` | sockets, threads, queues, peer | init, start, stop and destroy; seven threads | no thread outlives what it uses, the loss of the host is reported |
| `Platform.c`, `LinkedBlockingQueue.c` | threads, mutexes, events; items, shutdown, draining | create, interrupt, join; offer, wait, flush, shutdown, drain | no sleeper is forgotten |
| `RtpAudioQueue.c` | list of FEC blocks, next and oldest sequence number | add a packet, take a packet | in order, nothing twice, nothing stored is lost, bounded wait |
| pairing, certificates, saved data, debug control, log, update check, UI, the rest of `moonlight-common-c` | – | – | not modelled, see below |

They interact as follows.  The UI and the notification call the two controllers.
`MultiController` calls its runtime synchronously on the main thread
(`prepare()` is the only suspending call); the runtime's threads answer by
posting `workerConnected` and `workerDisconnected` to that thread.  The manager
starts worker services by intent; a worker answers by connecting to the entry's
local socket, and its end is seen as the end of that stream.  The
single-device controller drives one `MoonToneConnection` in the main process,
whose listener is called from native threads; so does each worker process.
Underneath, the native library receives packets on one thread, orders and repairs
them in the RTP audio queue and hands them to a decoder thread through a bounded
queue, while the threads of the control stream watch over the host.

Hard to test, and hence what the properties are for: callbacks and `prepare()`
results that arrive after their attempt was retried, dropped or replaced in its
slot; timers that race the first frame; the shared playback across sessions
that come and go; retries that never end; starts that fail half way; state that
is learned under one key and read under another; two processes that both take a
link down while it is being set up; threads joined while they sleep in a queue or
report an end; packets lost, repeated and reordered across the wrap of their
numbers.  `PROJECT.json` lists every
hazard with its line and the properties that cover it.

## Modules

### `MultiController`

Models `multi/MultiController.kt` and what its runtime does for it in the same
call.

| model | code |
|---|---|
| `sessions`, `nextAttempt`, `devices` | the fields of the same names |
| `jobs` | the coroutines launched by `startAttempt`, by the suspension point they are parked at: `wait` (`delay(3_000)`), `info` and `launch` (inside `prepare`, before and after the capability is read), `watch` (`delay(10_000)`) |
| `device` | what the manager's `slots` hold: attempt served, gain, and whether PCM has arrived |
| `callbacks` | `workerConnected`/`workerDisconnected` launched on the main thread and not yet run |
| `playback` | playback owner, mixer, wake locks and `playing` |
| `ipCap`, `uidCap` | the two kinds of keys in the preference file |

All session state is confined to one dispatcher, so one action is one stretch
between suspension points: a whole request, a whole callback, or a part of a
job (`WaitOver`, `ServerInfo`, `PrepareReturns`, `PrepareFails`,
`LaunchRejected`, `WatchOver`).  `failed()` and `startAttempt()` are operators
(`Failed`, `StartAttempt`) with the same calls in the same order as the code:
`Failed` draws an attempt number before it stops the worker, and a retry draws a
second one.  The time a connection has lasted is abstracted to what the code
compares: less than 20 s (`early`), between 20 s and 30 s (`middle`), at least
30 s (`stable`).  A volume is an integer between 0 and `MaxVolume`.

A worker is abstract: it may deliver its first frame, and its stream may end, at
any moment, and each is reported once.  The end is only reported for an entry
that is still in its slot, because `slots.remove(slot, entry)` must succeed.

### `SessionSupervisor`

The promise to the user, with neither jobs nor workers nor clocks: one session
per host; every attempt behind the user's back is paid for by one of the retries
or by the one re-learning that a request grants; only a connection that has
proved stable earns the retries back; a failed session stays failed until it is
asked for again.  `MultiController` implements it under the mapping at the end of
that module (`Supervisor`, `ImplementsSupervisor`): what is left is the limit
minus the retries made.

### `MoonToneConnection`

Models `connection/MoonToneConnection.kt` together with what it relies on: the
static listener of `MoonBridge.java` and the global flags, start, stop and
termination shim of `moonlight-common-c` (`Connection.c`).

| model | code |
|---|---|
| `held`, `created` | the object its user keeps: the single-device controller connects one object again and again (`Connect`, `Disconnect`), a worker process makes one per start command and drops the old one first (`Replace`, `Destroy`) |
| `state`, `nextGeneration`, `activeGeneration` | the fields of each object |
| `tasks`, `task`, `step` | the queue of the static `nativeExecutor`, the task it runs and how far it has come |
| `nativeActive`, `bridge` | the static flag; the listener `MoonBridge` holds |
| `library`, `owner`, `lost` | whether the library is down, starting or up, for which attempt, and whether its peer is gone |
| `alreadyTerminated`, `connectionInterrupted` | the globals of the same names |
| `report` | threads that noticed the lost peer: in `ClInternalConnectionTerminated`, as the detached `AsyncTerm` thread, and with the listener it has read |

An attempt is a pair of an object and a generation.  Calls are atomic under the
object's lock; the executor's task is not: stop, clean-up of the bridge, check of
the generation, installing the listener, clearing the flags and starting are steps
of their own, between which callers and threads run.  `LiStopConnection` is one
step that waits until no native thread is inside the termination shim, because it
joins them; it does not join `AsyncTerm`.  The bridge's listener is read once: the
code reads it twice, and a null in between ends the process, after which there is
nothing to state.  Stage names, error texts and the status callbacks that change
no state are left out.

### `MoonToneController`

Models the sessions of `control/MoonToneController.kt`.

| model | code |
|---|---|
| `connectGeneration`, `activeSession` | `connectGeneration`, `activeSessionGeneration` |
| `held` | keep-alive, renderer, latency controller and playback, which `cleanupSession()` releases together |
| `lock` | who is in `startPipeline()` under `sessionLock` |
| `jobs` | coroutines of requests and fallbacks by where they are: `watch` (`superviseEarlyDeath`), `waiting` (for `launchMutex`), `info` and `launch` (HTTP), `lock`, `connect` and `started` (in `startPipeline`) |
| `state`, `error` | the connection's flows, with error texts reduced to what the fallback tells apart |
| `cleanups` | what `onTerminated()` has posted, by the session it captured |
| `audioOnlyCap` | what is stored of the host |

The connection is abstract: it comes up, fails or ends at any moment, and
`connect()` retires the previous one, as in `MoonToneConnection`.
`onTerminated()` runs in the same step as the end it reports, and takes no lock.
A coroutine that was cancelled is one whose generation is not the last, because
whoever cancels has drawn a new generation first; it ends where the code tests
the generation.  The watch's clock is abstracted to the 5 s and 20 s it compares
with.  A poll reads state, error and generation in one step.  An error shown by the
caller of a launch may or may not reach the connection's own error flow:
`connectAsync()` writes it there, the screen keeps it to itself.

### `WorkerLink`

Models the link of one slot, which `MultiController` sees as an abstract worker:
the entries of `multi/MultiConnectionManager.kt` with the source each has in
`multi/AudioMixer.kt`, and `multi/ConnectionWorkerService.kt` with the socket of
`multi/SocketAudioRenderer.kt` on the other side.

| model | code |
|---|---|
| `slots` | the attempt whose entry the map holds |
| `server`, `client`, `sources`, `stoppedByUser` | the entry's sockets, the mixer's sources, the flag of a source |
| `thread`, `inside` | where an entry's accept thread and its reader are; whose lock the accept thread holds |
| `caller` | the main thread inside `stopDevice()`: map, `dispose()`, service |
| `posted`, `dropped` | the callbacks made for an entry; the entries `stopDevice()` took out of the map |
| `commands` | intents to the service that the system has not delivered |
| `created`, `generation`, `current` | the service, the attempt it works for, the one its fields belong to |
| `connecting`, `socket`, `connection`, `leaving` | its connecting threads, its end of the links, its native connections, what `onDestroy()` has taken to release |

A block under a lock is one step, except that of the accept thread: it looks at
the map, which changes without that lock, and adds the source afterwards.  A stop
of a native connection ends only when the link is closed on one side, because it
joins a writer that may be blocked in it; that the writer is free is not owed.  A
connection the host ends, or does not take, is stopped by the executor as well
(`MoonToneConnection.kt:122`, `:167`).  The end of a stop cleans up the renderer, which
closes the link, unless the connection failed before it had one.  `StopService` may swallow starts that
were not delivered.  The worker's process may die at any moment.  Gains are left
to `MultiController`, audio and framing are left out.

### `Connection`, with `AudioStream`, `ControlStream`, `NativeThreads`, `LinkedBlockingQueue`

Model the life of a connection inside `moonlight-common-c`, below what
`MoonToneConnection` takes for `library`.

| module | code | state |
|---|---|---|
| `NativeThreads` | threads of `Platform.c`, termination shim of `Connection.c` | `thread` (where each is, and its interrupted flag), `ConnectionInterrupted`, `alreadyTerminated`, `reported` |
| `LinkedBlockingQueue` | the file of that name | operators on a queue record |
| `AudioStream` | ping, receiver and decoder, and what init, start, stop and destroy do | `rtpSocket`, `packetQueue`, `renderer` |
| `ControlStream` | receiver, callbacks, loss statistics, IDR requests, and the same four | `peer`, `asyncCallbackQueue`, `idrFrameRequired`, `stopping`, `controlMade` |
| `Connection` | `LiStartConnection`, `LiStopConnection`, `LiInterruptConnection` | `stage`, `call`, `at` (how far within a stage) |

Starting and stopping are the steps of one thread.  They are interleaved with the
seven threads at every point where they wait, change a flag or release something;
a join waits until the thread is over.  A function of the queue holds its mutex
throughout and is one step; waking is what it does to a thread that is asleep in
it.  Stages that have no thread here (platform, name, RTSP, video, input) only
succeed or fail.  A packet or a message is nothing but its presence.

### `RtpAudioQueue`

Models `RtpAudioQueue.c` and the loop of the receive thread that calls it.

| model | code |
|---|---|
| `blocks` | the list of `RTPA_FEC_BLOCK`: base, missing shards (`marks`), `index` (`nextDataPacketIndex`), the two flags; `from` is the block of the host the shards came from |
| `nextRtpSequenceNumber`, `oldestRtpBaseSequenceNumber`, `synchronizing`, `incompatibleServer` | the fields of the same names |
| `oos` | `lastOosSequenceNumber`, `receivedOosData` |
| `queueStatus` | what `RtpaAddPacket` returned last |
| `sent`, `newest`, `lost`, `heard` | not in the code: the block the host is at, the newest heard of, the blocks passed over since the list was empty, the last packet handed on |

The host's blocks are numbered without wrapping, the sequence numbers are modulo
`M`, as they are modulo 2^16 in the code, so that a packet taken for one of
another lap is told apart.  The network loses, repeats and reorders packets.
Rebuilding is the count that Reed-Solomon needs, `D` shards of either kind.  The
clock is the host: a block remembers, for `queueTimeMs`, which block the host was
sending when it was queued (`queued`), which may be later than its own number.  The
code gives a block up when it has been queued for longer than the duration of a block
and 10 ms (`:534`); in the model that may be true at any time, and it is once the host
has moved on by more than `Patience` blocks since.  A block lasts 20 ms or 40 ms, so
that at least two of them pass while the host moves on by three, and the wait is over:
`Patience` is 2.

### `MCMultiController`, `MCMoonToneConnection`, `MCMoonToneController`

The finite instances: which addresses report which unique id, which volumes are
asked for, and the symmetry of the reporting threads, which nothing
distinguishes.  Symmetry is not used where liveness is checked.

### `MultiControllerProofs`, `SupervisorProofs`, `MoonToneConnectionProofs`, `MoonToneControllerProofs`, `WorkerLinkProofs`, `ConnectionProofs`, `RtpAudioQueueLemmas`, `RtpAudioQueueProofs`

The proofs, see below.  `SupervisorProofs` extends `MultiControllerProofs`,
`RtpAudioQueueProofs` extends `RtpAudioQueueLemmas`.

## Runs

Deadlock is not checked: the programs may stop, with every session dropped or
failed and a bound on requests reached; that calls and threads come to their end
is stated as liveness instead.

| run | module and instance | question |
|---|---|---|
| `multi_slots` | `MCMultiController`: 2 slots, 2 addresses of one host, 1 retry, new requests up to attempt 2, stored capability absent or audio-only | sessions that share the playback and what is learned of a host: `DeviceOwned`, `PlaybackMatchesSessions`, `ConnectedHasStream`, `DrivenByOneJob`, `FallbackTakesEffect` |
| `one_slot` | `MCMultiController`: 1 slot, 1 host, 1 retry, up to attempt 4, mutes and volumes out of range, above, or not finite | what earlier attempts and sessions of the slot leave behind: `TypeOK`, `GainMatches`, `ErrorIsQuiet`, `ImplementsSupervisor`; with fairness `ConnectingResolves`, `DeadStreamIsNoticed` |
| `capability_keys` | `MCMultiController`: 1 slot, 1 host, 1 retry, up to attempt 8 | violates `StoredUnderBothKeys`, see Findings |
| `native` | `MCMoonToneConnection`: 2 objects of 2 generations each, 2 reporting threads | connected again, replaced, dropped and forgotten: `TypeOK`, `StartsFromScratch`, `CallbacksReachOwner`, `NothingLeftBehind`, `AttemptIsServed`; with fairness `DroppedIsStopped`, `LossIsNoticed`, `ConnectingEnds` |
| `stale_report` | `MCMoonToneConnection`: 1 object, 2 generations | violates `ReportEndsOwnAttempt`, see Findings |
| `single_session` | `MCMoonToneController`: 3 requests or disconnects, any capability | `TypeOK`, `DisconnectSticks`, `IdleHoldsNothing`, `OneRepetition`, `RelearnsAfterDeath`; with fairness `DownReleases` |
| `late_cleanup` | `MCMoonToneController`: 2 requests or disconnects | violates `ReconnectStartsClean`, see Findings |
| `worker_link` | `WorkerLink`: 2 attempts, 3 intents under way | both processes take a link up and down: `SourcesAreOwned`, `ReportedOnce`, `StopLeavesNothing`; with fairness `EndIsReported`, `StopGetsThrough` |
| `connection` | `Connection`: queues of 2 packets and 1 message | stages that fail anywhere, ends noticed anywhere: `TypeOK`, `LifetimesNest`, `NoSleeperForgotten`; with fairness `CallsReturn`, `LossIsReported` |
| `double_termination` | `Connection`: queues of 1 | violates `SingleCallback`, see Findings |
| `audio_queue` | `RtpAudioQueue`: blocks of 2 data and 1 parity packets, numbers modulo 40, blocks 15 to 21 | packets lost, late by up to a block, repeated, reordered across the wrap: `QueueIsSound`, `FreshIsTaken`, `HeadIsRecent`, `PlayedInOrder`, `NothingStoredIsLost` |
| `audio_recovery` | `RtpAudioQueue`: the same blocks, numbers modulo 16 | violates `GivenUpIsShort`, see Findings |

Some properties are conjunctions of what belongs together: `PlaybackMatchesSessions`
is `PlaybackCoversDevices` and `IdleReleasesPlayback`, `DrivenByOneJob` is
`ConnectingIsDriven` and `JobsAreCurrent`, `AttemptIsServed` is
`ConnectingIsDriven` and `ConnectedIsReal` of `MoonToneConnection`,
`LifetimesNest` is `ThreadsHaveWhatTheyUse` and `NothingOutlives`, and
`QueueIsSound` adds the assertions of `validateFecBlockState` to the types.

Bounds of `MultiController`. `MaxAttempts` stops new requests and the ageing of
connections once that many attempt numbers have been drawn; retries go on past
it until the session has spent them, so it never cuts a retry short. Two
attempts let a late callback meet its successor or a second slot's session; four
let a session spend its retry, fail, be asked for again, and meet what the first
left behind. One retry instead of the code's three (`MultiController.kt:140`) is
enough to tell a retry from a request; nothing depends on how many are left but
the test against zero. `MaxPosted` bounds the callbacks in flight: with two, one
attempt's first frame and end are posted together, or those of two attempts. Two
slots are enough for one session to stop what another needs; nothing in the code
relates three sessions. The two addresses of `multi_slots` report one unique id, so
that what one session learns is read by the other.

Bounds of `MoonToneConnection`. `MaxGeneration` and `MaxConn` bound the calls of
`connect()` and the objects: two attempts of each of two objects let a leftover of
the first meet a started third, of the same object or of its successor. `MaxTasks` stops further calls of
`disconnect()`, which draw no generation; what the listener and `connect()`
queue is not bounded. Two threads let a report of the previous attempt and one
of the present be in flight together.

Bounds of `MoonToneController`. `MaxGeneration` bounds requests and disconnects
together: three let a request be replaced and the replacement be dropped, or a
fallback meet two newer requests. Repetitions, fallbacks and clean-ups draw no
generation and are not bounded.

Bounds of `WorkerLink`. Two attempts are the device that is stopped and the one
that takes its slot; a third can only meet what the second leaves. `MaxCommands`
bounds the intents under way: start, stop, start.

Bounds of `Connection`. A queue of 1 tells full from empty, and one of 2 also has
the item after the first, which is not signalled; 30 adds nothing to that. The
number of connections made one after another is not bounded.

Bounds of `RtpAudioQueue`. Two data packets and one parity packet instead of four
and two are the least that has a first, a last and a rebuilt packet in a block.
`M` = 40 is twenty blocks a lap, so that half a lap, which `isBefore16` tells by,
is more than the blocks whose numbers are compared can be apart: those a packet may
be late (`Late`), those lost in a row (`Outage`), those sent while the queue waits
(`Patience`) and those it has passed over. In every state of the run they are within
half a lap, which is what the theorems assume (`WithinHalfLap`, below). Blocks 15 to
21 go across the wrap at 20. `Uneven` has one block with packets of two sizes.

`HeadIsRecent` says how far the queue may be behind, once the thread has taken what
is ready. `Keep` is the sum of what late packets and the wait for stragglers can cost,
because the wait begins when a block is queued and not when it was sent: its first
packet may come `Late` blocks after the host, and the queue then waits while
`Patience` more are sent. The bound is reached: with `Uneven = {18}` the run has a state
at `Keep` blocks. Each block
of which no packet comes at all costs one more: it is skipped when a later packet
comes, and that does not give up another block, so that the queue is one block
further behind until its list is empty. The bound therefore counts them (`lost`).

The proofs put no bound on the values of the constants of their modules; those of
`RtpAudioQueue` have two hypotheses, see below.

Fairness of `MultiController` (`FairSpec`). A live job of a slot keeps moving,
because delays end and `prepare()` is under a 30 s timeout, and posted callbacks
of a slot are run, because the main thread serves its queue. Nothing is asked of
the workers: a worker may stay silent for ever, and the 10 s watch is what must
save the session. The condition is per slot because the queue is served in order
and never lets one session starve another.

Fairness of `MoonToneConnection`. The executor's thread runs its tasks, and a
native start returns because each of its stages has a timeout; a native thread
that waits for data finds that the peer is gone, and the thread that reports it
runs. The peer owes nothing.

Fairness of `MoonToneController`. A posted clean-up is run by the dispatcher,
and a thread inside `startPipeline()`, which waits for nobody there, gets
through it. Nothing is asked of the host, of HTTP exchanges or of the
connection.

Fairness of `WorkerLink`. Every thread is scheduled, the service gets the commands
sent to it, and a call under way on the main thread goes on. The user's calls,
the first frame, the end of a native connection, the death of the process and an
`accept()` that fails of itself are not owed.

Fairness of `Connection`. Every thread is scheduled, and a start that is under way
goes on, because each blocking call in it has a timeout; so does a stop, at a join
only when the thread is over. What the client and the host do, and what fails, is
not owed.

## Proofs

`MultiControllerProofs` proves for any number of slots, hosts, retries and
attempts that `Spec` implies each of the invariants the runs check, and that a
host never has two sessions (`HostUnique`).  They are not inductive one by one, so they are proved
together as `IInv`, which adds:

- `AttemptsDrawn`: numbers in use have been drawn, so the next one is new.
  This is what makes a stale callback recognisable.
- `LiveJobsAreWanted`: a job that is not cancelled works for the current attempt
  of a session that is connecting or connected.
- `CallbacksAreTrue`: a posted first frame has a stream behind it, or one whose
  end is posted too; `ConnectedHasStream` needs it.

`ConnectedHasStream` and `CallbacksAreTrue` need each other, `DeviceOwned` needs
`LiveJobsAreWanted` (a late `prepare()` is recognised by its attempt), and
`ErrorIsQuiet` needs `AttemptsDrawn` (a failed session holds a number no callback
has).

Every step that restarts, fails, drops or adjusts a session goes through
`StartAttempt`, `Failed`, `DisconnectSessions` or `ApplyGain`.  The proofs follow
that: each of the four has a typing lemma and a lemma that it keeps `IInv`
(`StartAttemptKeeps`, `FailedKeeps`, `DisconnectKeeps`, `ApplyGainKeeps`), and
`UserKeeps`, `JobKeeps`, `CallbackKeeps` and `WorkerKeeps` go through the actions
and cite them.  `NextInvariant` combines those, and each theorem is one step away
from `Invariance`.

Assumptions: those the module states on its constants (`UidAssumption` and so
on), which TLC evaluates on every run.

`MoonToneConnectionProofs` proves the invariants of that module for any number
of objects, generations, queued tasks and threads.  The argument is about the
queue.  A generation is drawn by whoever queues its task, so what is queued,
running or installed is older than the next generation (`GenerationsDrawn`), no
attempt is queued twice (`QueuedOnce`), and the attempt under way is always the
last one queued, or the one at the executor when nothing is queued
(`CurrentIsLast`).  Hence a stop queued for an earlier attempt can only run before
the start of the current one.  `LeftoversQueued` says that giving an attempt up
queues the task that removes it, which gives `NothingLeftBehind` when the executor
comes to rest; `LossGetsThrough` carries the reporting thread that
`ConnectedIsReal` promises.  `ExecutorInStep` is what the executor knows at each
step of a task.

`MoonToneControllerProofs` proves the four invariants and the action property of
`single_session` for any number of requests.

- `OneHolder` and `OneJobPerRequest`: the mutex has one holder, and a request is
  worked on by its coroutine or by its fallback, never by both.
- `LockIsHis`, `DropsBetween`: a disconnect comes before or after the whole of a
  `startPipeline()`, and what is inside one is newer than the last disconnect.
  This is `DisconnectSticks`.
- `LaunchesOwed`: the launches made for a request, and those its job may still
  make, are together at most two; the repetition of a rejected launch and the
  fallback draw on the same allowance.  This is `OneRepetition`.
- `HeldBySession`, `HeldIsCovered`: resources without a connection are about to
  get one or have a clean-up posted.  This is `IdleHoldsNothing`.
- `WatchesItsOwn`, `LossIsCleared`: while the watch's request is the last one,
  nobody else enters `startPipeline()`, so the connection it has seen is its own
  and the loss it reads is that connection's.  This is `RelearnsAfterDeath`.

`SupervisorProofs` proves that `MultiController` implements `SessionSupervisor`
(`Refines`) and that the fallback to dummy video takes effect (`FallsBack`).  `IInv`
is not enough for either: it allows a job inside `prepare()` to fail a session that
is connected, which would spend a retry that a stable connection has just earned
back, and leave the capability as it was.  `EarlyJobsAreAlone` excludes it: until
its worker is started, the job of an attempt drives a session that is connecting,
has neither worker nor parameters, and of which no callback is under way; a
cancelled job has the number of no session; a session that is connecting has no
age.  With it a connected session ends through `WorkerDisconnected` only.
`FailedMaps` and `StartAttemptMaps` map the two restarts to `Retry`, `GiveUp`,
`Begin`, `Again` and `Relearn`; whatever else happens is `Up`, `Prove`, `Drop` or a
stutter (`SameImage`).

`WorkerLinkProofs` proves the invariants of `worker_link` for any number of
attempts and intents.  An entry leaves the map once, and whoever took it out is the
one that disposes of it and reports it (`TakenOnce`, `PostsInOrder`).  The accept
thread looks at the map under the entry's lock and adds the source before it gives
the lock back; whoever disposes of the entry needs that lock, so between the look
and the addition the entry may leave the map but is not disposed of
(`AddsUnderLock`).  `StopLeavesNothing` needs both processes: it is proved from a
second invariant, `StopInv`, on top of the first.  In the main process an open
server has an owner too (`ServersAreOwned`).  In the worker a link that is open is
in the hands of the thread that made it, of the service, or of the `onDestroy()`
that has taken it, and a connection that runs is in the hands of the last two
(`WorkerOwns`), and one that the host has ended waits for its stop; this needs that no attempt is served twice, because a second thread
would start over with a link that the first has opened (`ServedOnce`).  What ties
the two together is the order of the intents: after a stop the last one on its way
is a stop, or none is and the service is gone (`StopIsLast`).

`RtpAudioQueueProofs` proves the five properties of `audio_queue` for every size of a
block, number of parity packets, lateness, outage and wait.  The invariant (`IInv`)
says that the numbers the queue keeps stand for a block `o` of the host: the list
holds blocks from `o` on, in order and each with packets of its own block only,
`oldestRtpBaseSequenceNumber` is the number of `o`, and `nextRtpSequenceNumber` that of
the packet of `o` that comes next (`Holds`); the newest block heard of ends the list
and is near `o`, by a distance that depends on whether the head is being given up or
waited for (`KeepsUp`).  Whatever the code compares is then within half a lap, where
comparing numbers is comparing blocks; that part is in `RtpAudioQueueLemmas`, with
what storing a packet and releasing the head do to a list.

Two hypotheses are needed, and each names something the code relies on.

- `WithinHalfLap`: the blocks in use are within half a lap of the numbers of each
  other.  `isBefore16` can tell no more.  With four packets to a block and 2^16
  numbers that is 160 seconds of audio against a late packet, an outage, a wait of 30 or 50 ms
  and the blocks lost since the list was last empty.  It is a condition on the
  behaviour, because `lost` is; the theorems read `Spec /\ []WithinHalfLap => ...`.
- `StartsClear`: the base number of the blocks the host may be sending before the
  first is complete is not 0, which the code takes for "not synchronized"
  (see "Not modelled" below).

`ShortStreamIsSound` has no condition on the behaviour: if all the blocks of a stream
and the delays are within half a lap, `WithinHalfLap` holds whatever the network does,
and with it the five properties.

`ConnectionProofs` proves `TypeOK`, `LifetimesNest` and `NoSleeperForgotten` for
queues of any size.  What exists is a function of how far the call has come:
`ThreadsMade` says of each step of a start or a stop which threads have been
created and not joined, `ThingsMade` which sockets, queues and renderers are there,
and `CallInStep` which steps go with which stage.  The steps of the seven threads
keep these by ending before they are joined and by creating nothing; a step of the
call changes one thing and moves on.  A thread falls asleep only in a queue that
is empty and not shut down, and every step that changes that wakes it.

Only model-checked: the liveness properties of all modules, which are beyond the
prover (as is whatever needs `ENABLED`).  Every invariant and every action property
that a passing run checks is stated by a theorem.

## Findings

`capability_keys`.  `MultiController` passes `session.params?.uniqueId` when it
re-learns a host whose `/launch` was rejected (`:104-107`).  `params` is null until
`prepare()` has returned, so only the address is written, while
`HostCapabilities.kt:13-14` says capabilities are stored under both keys.  If the
unique id already holds the other value, that value wins when the next attempt
prepares its launch, and the re-learning has no effect.  `MoonToneController.kt`
passes the unique id in the same situation (`:142`), and the unit test
`rejectedDummyVideoRelearnsOnlyOnce` does not see it because its runtime keeps
capabilities by host only.

`stale_report`.  The thread that reports a lost peer is detached, and reads the
static listener of `MoonBridge` only when it runs (`MoonBridge.java:288`).  If the
user connects again in the meantime and the executor has come to `setupBridge()`,
the report of the old connection ends the new attempt.  The generation of the
listener, which `MoonToneConnection.kt:46-47` introduces against exactly this,
does not help: the report arrives through the new listener.

`late_cleanup`.  `onTerminated()` captures `activeSessionGeneration` when the
connection ends, without `sessionLock` (`MoonToneController.kt:76`).  While
`startPipeline()` is between `:177` and `:184` the old connection is still the
current one and the session is already the new one, so the end of the old
connection posts a clean-up of the new session, and once the lock is free that
clean-up takes renderer, wake locks and playback from a connection that is under
way (`:73-74` promises that "a later reconnect starts clean").  A connection to the
same host is likely to end just then, because the new `/launch` ends the old
stream.  The fallback reuses its request's generation and can be hit by a clean-up
of its predecessor that is late enough.

`double_termination`.  Several threads can notice that the host is gone: the one
that receives audio, and those of the control stream.  Each calls
`ClInternalConnectionTerminated`, which reads `alreadyTerminated`
(`Connection.c:167`) and sets it (`:172`) without a lock, so two of them may pass.
The client is then called back twice although the comment above the check
(`:166`) says it avoids "issuing multiple callbacks", and the handle of the first
thread is overwritten before it is detached.

`audio_recovery`.  A data packet that is the next one is handed on at once
(`RtpAudioQueue.c:590-608`), before `completeFecBlock` (`:635`) is asked whether the
block can be rebuilt.  When the parity packet comes first, the first data packet
makes two of two needed shards, but the block stays as it is; if the last data
packet is lost, the block is given up and concealed.  The log line says that fewer
shards than needed were received (`:537-543`).

## Not modelled, and why

- The text of error messages.  One place depends on it: a failure counts as a
  rejected launch when its message contains `503` (`MultiController.kt:103`), which
  a message naming a host whose address contains those digits also does.
- Pairing, certificates, the HTTP exchange, log, update check, UI, saved
  preferences: input and output without a protocol of its own, or cryptography.
- In `MoonToneController`: pairing (`pairingJob`, `pairingPin`), mute, microphone
  and status.
- `AdaptivePcmBuffer`, `StereoDriftBuffer`, `PcmProtocol`, the tuning of the output:
  what could be wrong is arithmetic on lengths and samples under one lock or on
  one thread; unit tests (`AdaptivePcmBufferTest`, `PcmAudioTest`) cover it.
- The thread that mixes and writes in `AudioMixer`, the microphone uplink,
  `tools/mic_receiver.py` and `DeviceDiscovery`: side shows of playback that share
  no state with it; not reached.
- Of `moonlight-common-c`: RTSP, video, input, Reed-Solomon and ENet. The app plays
  audio only; those stages succeed or fail in `Connection`. Also the control stream of
  old hosts (TCP), the invalidation of reference frames, and a thread that cannot be
  created: `AudioStream.c:449` then closes a socket that the ping thread still uses
  and that `destroyAudioStream` closes again.
- Noticed and not checked: when START A or START B fails after a message was
  queued, `asyncCallbackQueue` is destroyed without having been shut down or
  drained, which the assertion at `LinkedBlockingQueue.c:5` forbids in debug
  builds.
- Noticed and not checked: a base number of 0 stands for "not synchronized" in
  `RtpAudioQueue.c:284`, so a stream whose numbers wrap to 0 before its first block
  has been returned synchronizes a second time. `audio_queue` starts further from
  the wrap.
- Android: services, notifications, audio devices, except where a call may fail.
- Vendored code: most of the repository's C is ENet, OpenSSL headers and the parts
  of `moonlight-common-c` named above, none of which the app's behaviour depends on
  beyond a call that succeeds or fails.  The models stand for a small share of the
  repository's lines, and for most of what runs concurrently in it.

## Plan

Done: all the modules above, with the proofs of every safety property of
every module that a passing run checks.  Left:

1. Proofs: what keeps `lost` small in `RtpAudioQueue`, so that `WithinHalfLap` follows
   from a bound on the losses of the network.
2. `WorkerLink` with several slots, and a proof that it implements the abstract
   worker of `MultiController`.
3. `PacketJitterBuffer` (`tools/mic_receiver.py`), whose job is the smaller sibling of
   `RtpAudioQueue`'s; `DeviceDiscovery` (resolves against stop and restart);
   microphone capture; the pairing of `MoonToneController`.
