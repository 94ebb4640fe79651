--------------------------- MODULE MultiController ---------------------------
(***************************************************************************)
(* Supervision of the multi-device sessions of the main process            *)
(* (multi/MultiController.kt), together with what its runtime does         *)
(* synchronously for it: the playback owner, mixer and wake locks of       *)
(* AndroidMultiStreamingRuntime.kt, the launch decision of                 *)
(* MultiSessionLauncher.kt and the store of HostCapabilities.kt.           *)
(*                                                                         *)
(* All session state is confined to one dispatcher thread, so a step is    *)
(* everything a coroutine does between two suspension points: a whole user *)
(* request, a whole posted worker callback, or the stretch of an attempt's *)
(* job between delay(), prepare() and delay().  What interleaves is those  *)
(* stretches, of several sessions and of several attempts of one session,  *)
(* with the workers, which post callbacks from threads of their own.       *)
(*                                                                         *)
(* A worker is abstract here: an entry of `device' that may deliver its    *)
(* first PCM frame and may end, once, at any moment.                       *)
(***************************************************************************)
EXTENDS Integers, FiniteSets

CONSTANTS
    MaxSlot,          \* slots are 1..MaxSlot; the code has 32
    Host,             \* host names, already trimmed and not empty
    Uid, NoUid,       \* Sunshine unique ids, and the absent one
    UidOf,            \* the unique id a host reports in /serverinfo
    Advertising,      \* hosts whose /serverinfo marks them as audio-only
    MaxRetries,       \* reconnections granted to a session; the code has 3
    MaxVolume,        \* volume 1.0f; volumes are 0..MaxVolume
    VolumeRequests,   \* arguments of setVolume
    MuteRequests,     \* arguments of setMuted
    NotFinite,        \* a volume that is NaN or infinite
    StoredCaps,       \* what the capability store may hold at start
    NoSession, NoDevice,
    MaxAttempts,      \* bound: no new connect() and no ageing past it
    MaxPosted         \* bound: callbacks in flight at a time

Slot == 1 .. MaxSlot
Cap  == {"absent", "yes", "no"}

ASSUME SlotAssumption    == MaxSlot \in Nat
ASSUME UidAssumption     == /\ UidOf \in [Host -> Uid \cup {NoUid}]
                            /\ NoUid \notin Uid
                            /\ Advertising \subseteq Host
ASSUME RetryAssumption   == MaxRetries \in Nat /\ MaxAttempts \in Nat /\ MaxPosted \in Nat
ASSUME VolumeAssumption  == /\ MaxVolume \in Nat
                            /\ VolumeRequests \subseteq Int \cup {NotFinite}
                            /\ NotFinite \notin Int
                            /\ MuteRequests \subseteq BOOLEAN
ASSUME StoreAssumption   == StoredCaps \subseteq Cap

VARIABLES
    sessions,         \* the sessions map: slot -> Session or NoSession
    nextAttempt,      \* last attempt number handed out
    jobs,             \* coroutines started by startAttempt and not finished
    devices,          \* the published StateFlow
    device,           \* worker of each slot, as its manager knows it
    callbacks,        \* worker callbacks posted and not yet run
    playback,         \* what the process holds for audible output
    ipCap, uidCap     \* SharedPreferences: capability by address and by id

vars == <<sessions, nextAttempt, jobs, devices, device, callbacks, playback,
          ipCap, uidCap>>

Attempt == Nat
Volume  == 0 .. MaxVolume

Session == [host : Host, state : {"CONNECTING", "CONNECTED", "ERROR"},
            muted : BOOLEAN, volume : Volume, attempt : Attempt,
            retries : 0 .. MaxRetries,
            connectedAt : {"none", "early", "middle", "stable"},
            params : {"none", "audioOnly", "dummyVideo"},
            relearned : BOOLEAN]

\* The delays and suspending calls a job can be parked at.
Job == [slot : Slot, attempt : Attempt,
        phase : {"wait", "info", "launch", "watch"},
        audioOnly : BOOLEAN, cancelled : BOOLEAN]

Device   == [attempt : Attempt, gain : Volume, up : BOOLEAN]
Callback == [kind : {"connected", "disconnected"}, slot : Slot,
             attempt : Attempt]
View     == [host : Host, state : {"CONNECTING", "CONNECTED", "ERROR"},
             muted : BOOLEAN, volume : Volume]
Playback == [owner : BOOLEAN, mixer : BOOLEAN, awake : BOOLEAN,
             playing : BOOLEAN]

ASSUME NoneAssumption == /\ NoSession \notin Session \cup Host
                         /\ NoDevice \notin Device

-----------------------------------------------------------------------------
(* Capabilities of a host *)

\* HostCapabilities.audioOnly: a value stored under the unique id wins.
AudioOnly(host, uid) ==
    IF uid # NoUid /\ uidCap[uid] # "absent"
    THEN uidCap[uid] = "yes"
    ELSE ipCap[host] # "no"

\* HostCapabilities.setAudioOnly
SetAudioOnly(host, uid, supported) ==
    LET cap == IF supported THEN "yes" ELSE "no" IN
    /\ ipCap' = [ipCap EXCEPT ![host] = cap]
    /\ uidCap' = IF uid # NoUid THEN [uidCap EXCEPT ![uid] = cap] ELSE uidCap

\* Faulty: only the address is remembered.
ParamsNoUid(sess) == NoUid

\* session.params?.uniqueId: unknown until prepare() has returned.
ParamsUid(sess) == IF sess.params = "none" THEN NoUid ELSE UidOf[sess.host]

\* MultiSessionLauncher.prepare: which kind of session it asks the host for.
UseAudioOnly(host) == host \in Advertising \/ AudioOnly(host, UidOf[host])

-----------------------------------------------------------------------------
(* Sessions, jobs and playback *)

Occupied == {s \in Slot : sessions[s] # NoSession}

Active(f) == {s \in Slot : /\ f[s] # NoSession
                           /\ f[s].state \in {"CONNECTING", "CONNECTED"}}

\* Faulty: the attempt is not compared.
IsCurrentAnyAttempt(slot, attempt) == sessions[slot] # NoSession
\* Faulty: a guard of workerConnected() has moved into isCurrent().
IsCurrentConnecting(slot, attempt) ==
    /\ sessions[slot] # NoSession /\ sessions[slot].attempt = attempt
    /\ sessions[slot].state = "CONNECTING"

\* Attempt numbers are never handed out twice, so a session that still has
\* this attempt is the very object the job or callback was made for.
IsCurrent(slot, attempt) ==
    sessions[slot] # NoSession /\ sessions[slot].attempt = attempt

Gain(sess) == IF sess.muted THEN 0 ELSE sess.volume

NewSession(host) ==
    [host |-> host, state |-> "CONNECTING", muted |-> FALSE,
     volume |-> MaxVolume, attempt |-> 0, retries |-> 0,
     connectedAt |-> "none", params |-> "none", relearned |-> FALSE]

\* What publish() puts into the StateFlow.
Published(f) ==
    [s \in Slot |-> IF f[s] = NoSession THEN NoSession
                    ELSE [host |-> f[s].host, state |-> f[s].state,
                          muted |-> f[s].muted, volume |-> f[s].volume]]

\* Faulty: only a job that is waiting in delay() is cancelled.
CancelledDelays(js, slot) ==
    {j \in js : j.slot # slot \/ j.phase \in {"info", "launch"}}

\* A cancelled delay() ends its job at once; a cancelled prepare() lingers
\* until its request, which runs on another dispatcher, has unwound.
Cancelled(js, slot) ==
    {j \in js : j.slot # slot} \cup
    {[j EXCEPT !.cancelled = TRUE] :
        j \in {k \in js : k.slot = slot /\ k.phase \in {"info", "launch"}}}

NoPlayback   == [owner |-> FALSE, mixer |-> FALSE, awake |-> FALSE,
                 playing |-> FALSE]
FullPlayback == [owner |-> TRUE, mixer |-> TRUE, awake |-> TRUE,
                 playing |-> TRUE]

\* runtime.startPlayback() may throw: the foreground service is refused, or
\* the AudioTrack cannot be built once the owner has been recorded.
StartPlaybackThrows ==
    IF playback.playing THEN {}
    ELSE {playback, [playback EXCEPT !.owner = TRUE]}

\* Faulty: a session that is still connecting does not count.
StopPlaybackIfNoneConnected(f, held) ==
    IF \A s \in Slot : f[s] = NoSession \/ f[s].state # "CONNECTED"
    THEN NoPlayback ELSE held
\* Faulty: what a failed startPlayback() left behind is not released.
StopPlaybackIfPlaying(f, held) ==
    IF Active(f) = {} /\ held.playing THEN NoPlayback ELSE held

\* stopPlaybackIfIdle(), given the sessions it looks at and what is held.
StopPlaybackIfIdle(f, held) == IF Active(f) = {} THEN NoPlayback ELSE held

\* Faulty: a worker that has not connected back yet is left running.
StoppedIfUp(S) ==
    [s \in Slot |-> IF s \in S /\ (device[s] = NoDevice \/ device[s].up)
                    THEN NoDevice ELSE device[s]]

\* runtime.stopDevice() of the slots of a set.
Stopped(S) == [s \in Slot |-> IF s \in S THEN NoDevice ELSE device[s]]

\* startAttempt(): the session as its caller left it, the attempt number it
\* draws, the jobs besides the one running it, and where the new job parks
\* (delay(0) does not suspend).
StartAttempt(slot, sess, attempt, phase, others) ==
    /\ nextAttempt' = attempt
    /\ sessions' = [sessions EXCEPT ![slot] =
                       [sess EXCEPT !.attempt = attempt,
                                    !.connectedAt = "none",
                                    !.params = "none",
                                    !.state = "CONNECTING"]]
    /\ device' = Stopped({slot})
    /\ devices' = Published(sessions')
    /\ jobs' = Cancelled(others, slot) \cup
               {[slot |-> slot, attempt |-> attempt, phase |-> phase,
                 audioOnly |-> FALSE, cancelled |-> FALSE]}

\* Faulty: the attempt that has failed keeps its number.
StillValid == nextAttempt

\* failed() first draws a number, so that no callback of the attempt that has
\* failed is current any more.
Invalidating == nextAttempt + 1

\* failed(): one more retry after a 3 s wait, or ERROR when none is left.
Failed(slot, sess, others, held) ==
    \/ /\ sess.retries < MaxRetries
       /\ StartAttempt(slot, [sess EXCEPT !.retries = @ + 1],
                       Invalidating + 1, "wait", others)
       /\ playback' = held
    \/ /\ sess.retries >= MaxRetries
       /\ nextAttempt' = Invalidating
       /\ sessions' = [sessions EXCEPT ![slot] =
                          [sess EXCEPT !.attempt = Invalidating,
                                       !.state = "ERROR"]]
       /\ device' = Stopped({slot})
       /\ devices' = Published(sessions')
       /\ jobs' = Cancelled(others, slot)
       /\ playback' = StopPlaybackIfIdle(sessions', held)

-----------------------------------------------------------------------------
(* Requests of the user *)

\* connect() on a host whose session has failed: a fresh retry budget.
Reconnect(slot) ==
    /\ nextAttempt <= MaxAttempts
    /\ slot \in Occupied
    /\ sessions[slot].state = "ERROR"
    /\ StartAttempt(slot, [sessions[slot] EXCEPT !.retries = 0,
                                                 !.relearned = FALSE],
                    nextAttempt + 1, "info", jobs)
    /\ UNCHANGED <<callbacks, playback, ipCap, uidCap>>

\* connect() on a host without a session takes the lowest free slot, if any.
Connect(host) ==
    /\ nextAttempt <= MaxAttempts
    /\ \A s \in Occupied : sessions[s].host # host
    /\ \E slot \in Slot \ Occupied :
         /\ \A s \in Slot \ Occupied : slot <= s
         /\ StartAttempt(slot, NewSession(host), nextAttempt + 1, "info", jobs)
    /\ UNCHANGED <<callbacks, playback, ipCap, uidCap>>

\* disconnectSession() of every slot of a set, in one stretch.
DisconnectSessions(S) ==
    /\ S # {}
    /\ sessions' = [s \in Slot |-> IF s \in S THEN NoSession ELSE sessions[s]]
    /\ jobs' = {j \in jobs : j.slot \notin S} \cup
               UNION {{j \in Cancelled(jobs, s) : j.slot = s} : s \in S}
    /\ device' = Stopped(S)
    /\ devices' = Published(sessions')
    /\ playback' = StopPlaybackIfIdle(sessions', playback)
    /\ UNCHANGED <<nextAttempt, callbacks, ipCap, uidCap>>

Disconnect(slot) == slot \in Occupied /\ DisconnectSessions({slot})

DisconnectHost(host) ==
    \E slot \in Occupied :
        sessions[slot].host = host /\ DisconnectSessions({slot})

StopAll == DisconnectSessions(Occupied)

\* Faulty: the worker is not told.
ApplyGainOnlyShown(slot, sess) ==
    /\ sessions' = [sessions EXCEPT ![slot] = sess]
    /\ device' = device
    /\ devices' = Published(sessions')

\* applyGain() and publish() after a change of the session at slot.
ApplyGain(slot, sess) ==
    /\ sessions' = [sessions EXCEPT ![slot] = sess]
    /\ device' = IF device[slot] = NoDevice THEN device
                 ELSE [device EXCEPT ![slot].gain = Gain(sess)]
    /\ devices' = Published(sessions')

SetMuted(slot, muted) ==
    /\ slot \in Occupied
    /\ ApplyGain(slot, [sessions[slot] EXCEPT !.muted = muted])
    /\ UNCHANGED <<nextAttempt, jobs, callbacks, playback, ipCap, uidCap>>

\* Faulty: only the upper end of the range is respected.
CoerceAtMost(volume) == IF volume > MaxVolume THEN MaxVolume ELSE volume

\* volume.coerceIn(0f, 1f)
CoerceIn(volume) == IF volume < 0 THEN 0
                    ELSE IF volume > MaxVolume THEN MaxVolume ELSE volume

SetVolume(slot, volume) ==
    /\ volume # NotFinite
    /\ slot \in Occupied
    /\ ApplyGain(slot, [sessions[slot] EXCEPT !.volume = CoerceIn(volume)])
    /\ UNCHANGED <<nextAttempt, jobs, callbacks, playback, ipCap, uidCap>>

-----------------------------------------------------------------------------
(* The job of an attempt *)

\* delay(3_000) before a retry is over: prepare() begins.
WaitOver(j) ==
    /\ j.phase = "wait"
    /\ jobs' = (jobs \ {j}) \cup {[j EXCEPT !.phase = "info"]}
    /\ UNCHANGED <<sessions, nextAttempt, devices, device, callbacks,
                   playback, ipCap, uidCap>>

\* Inside prepare(): /serverinfo has answered, the kind of session is chosen
\* and /launch is sent.  A cancelled job goes no further.
ServerInfo(j) ==
    /\ j.phase = "info"
    /\ IF j.cancelled
       THEN jobs' = jobs \ {j}
       ELSE jobs' = (jobs \ {j}) \cup
               {[j EXCEPT !.phase = "launch",
                          !.audioOnly = UseAudioOnly(sessions[j.slot].host)]}
    /\ UNCHANGED <<sessions, nextAttempt, devices, device, callbacks,
                   playback, ipCap, uidCap>>

\* A job that is not wanted any more ends without a trace.
JobReturns(j) ==
    /\ jobs' = jobs \ {j}
    /\ UNCHANGED <<sessions, nextAttempt, devices, device, callbacks,
                   playback, ipCap, uidCap>>

\* prepare() returned: playback is started, then the worker of the slot.
StartWorker(j, sess) ==
    \/ \E held \in StartPlaybackThrows :
         /\ Failed(j.slot, sess, jobs \ {j}, held)
         /\ UNCHANGED <<callbacks, ipCap, uidCap>>
    \/ /\ Failed(j.slot, sess, jobs \ {j}, FullPlayback)
       /\ UNCHANGED <<callbacks, ipCap, uidCap>>
    \/ /\ device[j.slot] = NoDevice
       /\ sessions' = [sessions EXCEPT ![j.slot] = sess]
       /\ playback' = FullPlayback
       /\ device' = [device EXCEPT ![j.slot] =
                        [attempt |-> j.attempt, gain |-> Gain(sess),
                         up |-> FALSE]]
       /\ jobs' = (jobs \ {j}) \cup {[j EXCEPT !.phase = "watch"]}
       /\ UNCHANGED <<nextAttempt, devices, callbacks, ipCap, uidCap>>

PrepareReturns(j) ==
    /\ j.phase = "launch"
    /\ \/ (j.cancelled \/ ~IsCurrent(j.slot, j.attempt)) /\ JobReturns(j)
       \/ /\ ~j.cancelled /\ IsCurrent(j.slot, j.attempt)
          /\ StartWorker(j, [sessions[j.slot] EXCEPT !.params =
                         IF j.audioOnly THEN "audioOnly" ELSE "dummyVideo"])

\* withTimeout(30_000) expired, or prepare() threw: nothing is known of the
\* host but that this attempt has failed.
PrepareFails(j) ==
    /\ j.phase \in {"info", "launch"}
    /\ \/ ~IsCurrent(j.slot, j.attempt) /\ JobReturns(j)
       \/ /\ IsCurrent(j.slot, j.attempt)
          /\ Failed(j.slot, sessions[j.slot], jobs \ {j}, playback)
          /\ UNCHANGED <<callbacks, ipCap, uidCap>>

\* /launch was answered with a 503.
LaunchRejected(j) ==
    /\ j.phase = "launch"
    /\ IsCurrent(j.slot, j.attempt)
    /\ LET sess  == sessions[j.slot]
           again == ~sess.relearned /\ ~AudioOnly(sess.host, ParamsUid(sess))
       IN \/ /\ again
             /\ SetAudioOnly(sess.host, ParamsUid(sess), TRUE)
             /\ StartAttempt(j.slot, [sess EXCEPT !.relearned = TRUE],
                             nextAttempt + 1, "info", jobs \ {j})
             /\ UNCHANGED <<callbacks, playback>>
          \/ /\ ~again
             /\ Failed(j.slot, sess, jobs \ {j}, playback)
             /\ UNCHANGED <<callbacks, ipCap, uidCap>>

\* Faulty: a silent worker is not given up.
WatchOverSilently(j) == j.phase = "watch" /\ JobReturns(j)

\* delay(10_000) is over: a worker that has not delivered PCM has failed.
WatchOver(j) ==
    /\ j.phase = "watch"
    /\ \/ /\ IsCurrent(j.slot, j.attempt)
          /\ sessions[j.slot].state = "CONNECTING"
          /\ Failed(j.slot, sessions[j.slot], jobs \ {j}, playback)
          /\ UNCHANGED <<callbacks, ipCap, uidCap>>
       \/ /\ ~(/\ IsCurrent(j.slot, j.attempt)
               /\ sessions[j.slot].state = "CONNECTING")
          /\ JobReturns(j)

-----------------------------------------------------------------------------
(* Worker callbacks, run on the dispatcher after being posted *)

\* A worker's two callbacks come from one thread and run in that order.
Deliverable(c) ==
    \/ c.kind = "connected"
    \/ [c EXCEPT !.kind = "connected"] \notin callbacks

Ignored(c) ==
    /\ callbacks' = callbacks \ {c}
    /\ UNCHANGED <<sessions, nextAttempt, jobs, devices, device, playback,
                   ipCap, uidCap>>

WorkerConnected(c) ==
    /\ c.kind = "connected"
    /\ LET wanted == /\ IsCurrent(c.slot, c.attempt)
                     /\ sessions[c.slot].state = "CONNECTING"
       IN \/ ~wanted /\ Ignored(c)
          \/ /\ wanted
             /\ ApplyGain(c.slot, [sessions[c.slot] EXCEPT
                                     !.connectedAt = "early",
                                     !.state = "CONNECTED"])
             /\ callbacks' = callbacks \ {c}
             /\ UNCHANGED <<nextAttempt, jobs, playback, ipCap, uidCap>>

\* Faulty: any connection, however brief, renews the retry budget.
AfterAnyDisconnect(sess) ==
    IF sess.connectedAt # "none" THEN [sess EXCEPT !.retries = 0] ELSE sess

\* The session as workerDisconnected() hands it to failed(): only a
\* connection that lasted 30 s renews the retry budget.
AfterDisconnect(sess) ==
    IF sess.connectedAt = "stable" THEN [sess EXCEPT !.retries = 0] ELSE sess

WorkerDisconnected(c) ==
    /\ c.kind = "disconnected"
    /\ Deliverable(c)
    /\ \/ ~IsCurrent(c.slot, c.attempt) /\ Ignored(c)
       \/ /\ IsCurrent(c.slot, c.attempt)
          /\ LET sess == sessions[c.slot] IN
             /\ IF sess.connectedAt = "early" /\ sess.params = "audioOnly"
                THEN SetAudioOnly(sess.host, ParamsUid(sess), FALSE)
                ELSE UNCHANGED <<ipCap, uidCap>>
             /\ Failed(c.slot, AfterDisconnect(sess), jobs, playback)
          /\ callbacks' = callbacks \ {c}

-----------------------------------------------------------------------------
(* The workers and the clock *)

\* The first PCM frame of the worker's stream arrives.
FirstFrame(slot) ==
    /\ device[slot] # NoDevice
    /\ ~device[slot].up
    /\ Cardinality(callbacks) < MaxPosted
    /\ device' = [device EXCEPT ![slot].up = TRUE]
    /\ callbacks' = callbacks \cup
          {[kind |-> "connected", slot |-> slot,
            attempt |-> device[slot].attempt]}
    /\ UNCHANGED <<sessions, nextAttempt, jobs, devices, playback, ipCap,
                   uidCap>>

\* The stream ends, or the worker never connects back: the entry is removed
\* from the manager by the thread that then posts the callback.
StreamEnds(slot) ==
    /\ device[slot] # NoDevice
    /\ Cardinality(callbacks) < MaxPosted
    /\ device' = [device EXCEPT ![slot] = NoDevice]
    /\ callbacks' = callbacks \cup
          {[kind |-> "disconnected", slot |-> slot,
            attempt |-> device[slot].attempt]}
    /\ UNCHANGED <<sessions, nextAttempt, jobs, devices, playback, ipCap,
                   uidCap>>

\* A connected session ages: past 20 s it is no longer an early death, from
\* 30 s on it renews the retry budget.
Elapse(slot) ==
    /\ nextAttempt <= MaxAttempts
    /\ slot \in Occupied
    /\ sessions[slot].connectedAt \in {"early", "middle"}
    /\ sessions' = [sessions EXCEPT ![slot].connectedAt =
                       IF @ = "early" THEN "middle" ELSE "stable"]
    /\ UNCHANGED <<nextAttempt, jobs, devices, device, callbacks, playback,
                   ipCap, uidCap>>

-----------------------------------------------------------------------------
Init ==
    /\ sessions = [s \in Slot |-> NoSession]
    /\ nextAttempt = 0
    /\ jobs = {}
    /\ devices = [s \in Slot |-> NoSession]
    /\ device = [s \in Slot |-> NoDevice]
    /\ callbacks = {}
    /\ playback = NoPlayback
    /\ ipCap \in [Host -> StoredCaps]
    /\ uidCap \in [Uid -> StoredCaps]

User ==
    \/ \E slot \in Slot : Reconnect(slot) \/ Disconnect(slot)
    \/ \E host \in Host : Connect(host) \/ DisconnectHost(host)
    \/ \E slot \in Slot, muted \in MuteRequests : SetMuted(slot, muted)
    \/ \E slot \in Slot, volume \in VolumeRequests : SetVolume(slot, volume)
    \/ StopAll

JobStep(j) == \/ WaitOver(j)
              \/ ServerInfo(j)
              \/ PrepareReturns(j)
              \/ PrepareFails(j)
              \/ LaunchRejected(j)
              \/ WatchOver(j)

CallbackStep(c) == WorkerConnected(c) \/ WorkerDisconnected(c)

Worker(slot) == FirstFrame(slot) \/ StreamEnds(slot) \/ Elapse(slot)

Next == \/ User
        \/ \E j \in jobs : JobStep(j)
        \/ \E c \in callbacks : CallbackStep(c)
        \/ \E slot \in Slot : Worker(slot)

Spec == Init /\ [][Next]_vars

-----------------------------------------------------------------------------
(* Fairness: the dispatcher runs what is posted to it, delay() and the 30 s *)
(* timeout of prepare() always come back; nothing is asked of the workers.  *)

LiveJobStep(slot) ==
    \E j \in jobs : j.slot = slot /\ ~j.cancelled /\ JobStep(j)

SlotCallback(slot) ==
    \E c \in callbacks : c.slot = slot /\ CallbackStep(c)

Fairness == \A slot \in Slot : /\ WF_vars(LiveJobStep(slot))
                               /\ WF_vars(SlotCallback(slot))

FairSpec == Spec /\ Fairness

-----------------------------------------------------------------------------
(* Type invariant *)

\* Every variable has the shape its declaration in the code gives it.
TypeOK ==
    /\ sessions \in [Slot -> Session \cup {NoSession}]
    /\ nextAttempt \in Nat
    /\ jobs \subseteq Job
    /\ devices \in [Slot -> View \cup {NoSession}]
    /\ device \in [Slot -> Device \cup {NoDevice}]
    /\ callbacks \subseteq Callback
    /\ playback \in Playback
    /\ ipCap \in [Host -> Cap]
    /\ uidCap \in [Uid -> Cap]

(* Safety *)

\* No worker is orphaned: whatever late prepare(), callback, retry or
\* disconnect comes in between, a worker that runs belongs to the current
\* attempt of a session that wants it.
DeviceOwned ==
    \A s \in Slot : device[s] # NoDevice =>
        s \in Active(sessions) /\ device[s].attempt = sessions[s].attempt

\* A worker plays at the gain its session shows: mute and volume survive
\* reconnections and reach a worker that was started meanwhile.
GainMatches ==
    \A s \in Slot : device[s] # NoDevice =>
        /\ s \in Occupied
        /\ device[s].gain = Gain(sessions[s])

\* No worker feeds a stopped mixer: stopping the playback because one session
\* gave up never takes it away from another.
PlaybackCoversDevices ==
    \A s \in Slot : device[s] # NoDevice => playback = FullPlayback

\* With nothing connecting or connected, the foreground service, the
\* AudioTrack and the wake locks are released, however the last session ended
\* and whatever part of startPlayback() had failed.
IdleReleasesPlayback == Active(sessions) = {} => playback = NoPlayback

\* Both: a session that comes or goes, starts half-way or gives up neither
\* takes the playback from another nor leaves it behind.
PlaybackMatchesSessions == PlaybackCoversDevices /\ IdleReleasesPlayback

\* A host never has two sessions.
HostUnique ==
    \A s, t \in Occupied : sessions[s].host = sessions[t].host => s = t

\* A session shown as connecting is being driven: a live job works for its
\* current attempt and will start its worker, retry it or give it up.
ConnectingIsDriven ==
    \A s \in Occupied : sessions[s].state = "CONNECTING" =>
        \E j \in jobs : /\ j.slot = s /\ ~j.cancelled
                       /\ j.attempt = sessions[s].attempt

\* A slot never has two live jobs, and none works for an abandoned attempt.
JobsAreCurrent ==
    \A j \in jobs : ~j.cancelled =>
        /\ IsCurrent(j.slot, j.attempt)
        /\ \A k \in jobs : k.slot = j.slot /\ ~k.cancelled => k = j

\* Both: what drives a connecting session is exactly one live job, and no job
\* drives a session that has moved on to another attempt.
DrivenByOneJob == ConnectingIsDriven /\ JobsAreCurrent

\* A session shown as connected has its worker, or the end of that worker's
\* stream has been posted and will be acted upon.
ConnectedHasStream ==
    \A s \in Occupied : sessions[s].state = "CONNECTED" =>
        \/ device[s] # NoDevice /\ device[s].up
        \/ [kind |-> "disconnected", slot |-> s,
            attempt |-> sessions[s].attempt] \in callbacks

\* A session that has given up is left alone: no live job, worker or callback
\* can bring it back to life behind the user's back.
ErrorIsQuiet ==
    \A s \in Occupied : sessions[s].state = "ERROR" =>
        /\ device[s] = NoDevice
        /\ \A j \in jobs : j.slot = s => j.cancelled
        /\ \A c \in callbacks : c.slot = s => ~IsCurrent(s, c.attempt)

(* What the safety invariants rest on *)

\* Attempt numbers in use have been drawn, so the next one is new.
AttemptsDrawn ==
    /\ \A s \in Occupied : sessions[s].attempt <= nextAttempt
    /\ \A c \in callbacks : c.attempt <= nextAttempt

\* A job that is not cancelled works for a session that is still wanted.
LiveJobsAreWanted ==
    \A j \in jobs : ~j.cancelled =>
        j.slot \in Active(sessions) /\ j.attempt = sessions[j.slot].attempt

\* The first frame a posted callback announces has a stream behind it, or one
\* whose end is posted as well.
CallbacksAreTrue ==
    \A c \in callbacks :
        c.kind = "connected" /\ IsCurrent(c.slot, c.attempt) =>
            \/ device[c.slot] # NoDevice /\ device[c.slot].up
            \/ [kind |-> "disconnected", slot |-> c.slot,
                attempt |-> c.attempt] \in callbacks

\* A job that has not started its worker works for a session that is still
\* connecting and of which no worker has been heard; a cancelled one works for
\* nobody; and only a session that has been connected has an age.
EarlyJobsAreAlone ==
    /\ \A j \in jobs :
          /\ j.attempt <= nextAttempt
          /\ j.cancelled => ~IsCurrent(j.slot, j.attempt)
          /\ j.phase # "watch" /\ IsCurrent(j.slot, j.attempt) =>
                /\ sessions[j.slot].state = "CONNECTING"
                /\ sessions[j.slot].params = "none"
                /\ device[j.slot] = NoDevice
                /\ \A c \in callbacks :
                      c.slot = j.slot => c.attempt # j.attempt
    /\ \A s \in Occupied :
          sessions[s].state = "CONNECTING" => sessions[s].connectedAt = "none"

\* The inductive invariant of the controller.
IInv == /\ TypeOK
        /\ AttemptsDrawn
        /\ LiveJobsAreWanted
        /\ JobsAreCurrent
        /\ DeviceOwned
        /\ GainMatches
        /\ PlaybackCoversDevices
        /\ IdleReleasesPlayback
        /\ HostUnique
        /\ ConnectingIsDriven
        /\ CallbacksAreTrue
        /\ ConnectedHasStream
        /\ ErrorIsQuiet

(* Action properties *)

\* An audio-only stream that dies early is not asked for again: the next
\* attempt falls back to dummy video, by address and by unique id.
FallbackTakesEffect ==
    [][\A s \in Slot :
          (/\ sessions[s] # NoSession /\ sessions'[s] # NoSession
           /\ sessions[s].state = "CONNECTED"
           /\ sessions[s].connectedAt = "early"
           /\ sessions[s].params = "audioOnly"
           /\ sessions'[s].state # "CONNECTED")
          => \/ sessions[s].host \in Advertising
             \/ ~UseAudioOnly(sessions[s].host)']_vars

\* HostCapabilities.kt: "Capabilities are stored under both the host address
\* and the host's stable Sunshine uniqueid".
StoredUnderBothKeys ==
    [][\A h \in Host :
          ipCap'[h] # ipCap[h] /\ UidOf[h] # NoUid
          => uidCap'[UidOf[h]] = ipCap'[h]]_vars

(* Refinement *)

\* The sessions as SessionSupervisor sees them, slot by slot.
Phase ==
    [s \in Slot |-> IF s \in Occupied THEN sessions[s].state ELSE "idle"]
Peer ==
    [s \in Slot |-> IF s \in Occupied THEN sessions[s].host ELSE NoSession]
Left ==
    [s \in Slot |-> IF s \in Occupied
                    THEN MaxRetries - sessions[s].retries ELSE 0]
Spare ==
    [s \in Slot |-> s \in Occupied /\ ~sessions[s].relearned]
Stable ==
    [s \in Slot |-> /\ s \in Occupied
                    /\ sessions[s].state = "CONNECTED"
                    /\ sessions[s].connectedAt = "stable"]
Number ==
    [s \in Slot |-> IF s \in Occupied THEN sessions[s].attempt ELSE 0]

Supervisor == INSTANCE SessionSupervisor WITH
    NoHost <- NoSession, phase <- Phase, peer <- Peer, left <- Left,
    spare <- Spare, stable <- Stable, attempt <- Number

\* The controller implements that promise.
ImplementsSupervisor == Supervisor!Spec

(* Liveness *)

\* A connection attempt does not hang: within its retry budget the session
\* connects, gives up or is disconnected.
ConnectingResolves ==
    \A s \in Slot :
        (s \in Occupied /\ sessions[s].state = "CONNECTING")
        ~> ~(s \in Occupied /\ sessions[s].state = "CONNECTING")

\* A stream that has ended is noticed: the session does not stay connected.
DeadStreamIsNoticed ==
    \A s \in Slot :
        (s \in Occupied /\ sessions[s].state = "CONNECTED"
                       /\ device[s] = NoDevice)
        ~> ~(s \in Occupied /\ sessions[s].state = "CONNECTED")

=============================================================================
