----------------------- MODULE MultiControllerProofs -----------------------
(***************************************************************************)
(* Proofs about MultiController, for any number of slots, hosts, retries   *)
(* and attempts.  Every step that starts, fails, drops or adjusts a        *)
(* session goes through StartAttempt, Failed, DisconnectSessions or        *)
(* ApplyGain, so each of those has its lemmas and the actions cite them.   *)
(***************************************************************************)
EXTENDS MultiController, TLAPS

-----------------------------------------------------------------------------
(* Typing *)

LEMMA CancelledType ==
    ASSUME NEW js \in SUBSET Job, NEW s \in Slot
    PROVE  Cancelled(js, s) \in SUBSET Job
  BY DEF Cancelled, Job

LEMMA PlaybackType ==
    /\ NoPlayback \in Playback
    /\ FullPlayback \in Playback
    /\ TypeOK => StartPlaybackThrows \in SUBSET Playback
    /\ \A f, held : held \in Playback => StopPlaybackIfIdle(f, held) \in Playback
  BY DEF NoPlayback, FullPlayback, TypeOK, StartPlaybackThrows, Playback,
         StopPlaybackIfIdle

LEMMA PublishedType ==
    ASSUME NEW f \in [Slot -> Session \cup {NoSession}]
    PROVE  Published(f) \in [Slot -> View \cup {NoSession}]
  BY NoneAssumption DEF Published, Session, View

LEMMA StartAttemptType ==
    ASSUME TypeOK, NEW slot \in Slot, NEW sess \in Session, NEW n \in Nat,
           NEW phase \in {"wait", "info"}, NEW others \in SUBSET Job,
           StartAttempt(slot, sess, n, phase, others)
    PROVE  /\ sessions' \in [Slot -> Session \cup {NoSession}]
           /\ nextAttempt' \in Nat
           /\ jobs' \subseteq Job
           /\ devices' \in [Slot -> View \cup {NoSession}]
           /\ device' \in [Slot -> Device \cup {NoDevice}]
  <1>1. sessions' \in [Slot -> Session \cup {NoSession}]
    BY DEF TypeOK, StartAttempt, Session, Attempt
  <1>2. nextAttempt' \in Nat
    BY DEF StartAttempt
  <1>3. jobs' \subseteq Job
    <2>1. [slot |-> slot, attempt |-> n, phase |-> phase, audioOnly |-> FALSE,
           cancelled |-> FALSE] \in Job
      BY DEF Job, Attempt
    <2>2. Cancelled(others, slot) \subseteq Job
      BY CancelledType
    <2> QED BY <2>1, <2>2 DEF StartAttempt
  <1>4. devices' \in [Slot -> View \cup {NoSession}]
    BY <1>1, PublishedType DEF StartAttempt
  <1>5. device' \in [Slot -> Device \cup {NoDevice}]
    BY DEF StartAttempt, Stopped, TypeOK
  <1> QED BY <1>1, <1>2, <1>3, <1>4, <1>5

LEMMA FailedType ==
    ASSUME TypeOK, NEW slot \in Slot, NEW sess \in Session,
           NEW others \in SUBSET Job, NEW held \in Playback,
           Failed(slot, sess, others, held)
    PROVE  /\ sessions' \in [Slot -> Session \cup {NoSession}]
           /\ nextAttempt' \in Nat
           /\ jobs' \subseteq Job
           /\ devices' \in [Slot -> View \cup {NoSession}]
           /\ device' \in [Slot -> Device \cup {NoDevice}]
           /\ playback' \in Playback
  <1>1. CASE /\ sess.retries < MaxRetries
             /\ StartAttempt(slot, [sess EXCEPT !.retries = @ + 1],
                             Invalidating + 1, "wait", others)
             /\ playback' = held
    <2>1. [sess EXCEPT !.retries = @ + 1] \in Session
      BY <1>1, RetryAssumption DEF Session
    <2>2. Invalidating + 1 \in Nat
      BY DEF Invalidating, TypeOK
    <2> DEFINE more == [sess EXCEPT !.retries = @ + 1]
    <2>3. StartAttempt(slot, more, Invalidating + 1, "wait", others)
      BY <1>1
    <2>4. more \in Session
      BY <2>1
    <2> HIDE DEF more
    <2> QED BY <1>1, <2>2, <2>3, <2>4, StartAttemptType
  <1>2. CASE /\ sess.retries >= MaxRetries
             /\ nextAttempt' = Invalidating
             /\ sessions' = [sessions EXCEPT ![slot] =
                                [sess EXCEPT !.attempt = Invalidating,
                                             !.state = "ERROR"]]
             /\ device' = Stopped({slot})
             /\ devices' = Published(sessions')
             /\ jobs' = Cancelled(others, slot)
             /\ playback' = StopPlaybackIfIdle(sessions', held)
    <2>1. Invalidating \in Nat
      BY DEF Invalidating, TypeOK
    <2>2. [sess EXCEPT !.attempt = Invalidating, !.state = "ERROR"] \in Session
      BY <2>1 DEF Session, Attempt
    <2>3. sessions' \in [Slot -> Session \cup {NoSession}]
      BY <1>2, <2>2 DEF TypeOK
    <2>4. device' \in [Slot -> Device \cup {NoDevice}]
      BY <1>2 DEF Stopped, TypeOK
    <2>5. nextAttempt' \in Nat
      BY <1>2 DEF Invalidating, TypeOK
    <2> QED BY <1>2, <2>3, <2>4, <2>5, CancelledType, PublishedType,
               PlaybackType
  <1> QED BY <1>1, <1>2 DEF Failed

LEMMA GainType ==
    ASSUME NEW sess \in Session
    PROVE  Gain(sess) \in Volume
  BY VolumeAssumption DEF Gain, Session, Volume

LEMMA ApplyGainType ==
    ASSUME TypeOK, NEW slot \in Slot, NEW sess \in Session,
           ApplyGain(slot, sess)
    PROVE  /\ sessions' \in [Slot -> Session \cup {NoSession}]
           /\ devices' \in [Slot -> View \cup {NoSession}]
           /\ device' \in [Slot -> Device \cup {NoDevice}]
  <1>1. sessions' \in [Slot -> Session \cup {NoSession}]
    BY DEF ApplyGain, TypeOK
  <1>2. devices' \in [Slot -> View \cup {NoSession}]
    BY <1>1, PublishedType DEF ApplyGain
  <1>3. device' \in [Slot -> Device \cup {NoDevice}]
    BY GainType DEF ApplyGain, TypeOK, Device
  <1> QED BY <1>1, <1>2, <1>3

LEMMA DisconnectType ==
    ASSUME TypeOK, NEW S \in SUBSET Slot, DisconnectSessions(S)
    PROVE  TypeOK'
  <1>1. sessions' \in [Slot -> Session \cup {NoSession}]
    BY DEF DisconnectSessions, TypeOK
  <1>2. jobs' \subseteq Job
    BY CancelledType DEF DisconnectSessions, TypeOK
  <1>3. devices' \in [Slot -> View \cup {NoSession}]
    BY <1>1, PublishedType DEF DisconnectSessions
  <1>4. device' \in [Slot -> Device \cup {NoDevice}]
    BY DEF DisconnectSessions, Stopped, TypeOK
  <1>5. playback' \in Playback
    BY PlaybackType DEF DisconnectSessions, TypeOK
  <1> QED BY <1>1, <1>2, <1>3, <1>4, <1>5 DEF DisconnectSessions, TypeOK

\* The variables that JobReturns leaves alone, and the job it drops.
LEMMA JobReturnsType ==
    ASSUME TypeOK, NEW j \in jobs, JobReturns(j)
    PROVE  TypeOK'
  BY DEF TypeOK, JobReturns

LEMMA SetAudioOnlyType ==
    ASSUME TypeOK, NEW host \in Host, NEW uid \in Uid \cup {NoUid},
           NEW supported \in BOOLEAN, SetAudioOnly(host, uid, supported)
    PROVE  ipCap' \in [Host -> Cap] /\ uidCap' \in [Uid -> Cap]
  BY DEF TypeOK, SetAudioOnly, Cap

LEMMA ParamsUidType ==
    ASSUME NEW sess \in Session
    PROVE  ParamsUid(sess) \in Uid \cup {NoUid}
  BY UidAssumption DEF ParamsUid, Session

LEMMA NewSessionType ==
    ASSUME NEW host \in Host
    PROVE  NewSession(host) \in Session
  BY VolumeAssumption, RetryAssumption DEF NewSession, Session, Volume, Attempt

LEMMA UserType == TypeOK /\ User => TypeOK'
  <1> SUFFICES ASSUME TypeOK, User PROVE TypeOK'
    OBVIOUS
  <1>1. ASSUME NEW slot \in Slot, Reconnect(slot)
        PROVE  TypeOK'
    <2> DEFINE sess == [sessions[slot] EXCEPT !.retries = 0,
                                              !.relearned = FALSE]
    <2>0. sessions[slot] \in Session /\ 0 \in 0 .. MaxRetries
      BY <1>1, RetryAssumption DEF Reconnect, Occupied, TypeOK
    <2>1. sess \in Session
      BY <2>0 DEF Session
    <2>2. StartAttempt(slot, sess, nextAttempt + 1, "info", jobs)
      BY <1>1 DEF Reconnect
    <2>3. nextAttempt + 1 \in Nat /\ jobs \in SUBSET Job
      BY DEF TypeOK
    <2> HIDE DEF sess
    <2> QED BY <1>1, <2>1, <2>2, <2>3, StartAttemptType
            DEF Reconnect, TypeOK
  <1>2. ASSUME NEW host \in Host, Connect(host)
        PROVE  TypeOK'
    <2>1. PICK slot \in Slot :
            StartAttempt(slot, NewSession(host), nextAttempt + 1, "info", jobs)
      BY <1>2 DEF Connect
    <2>2. nextAttempt + 1 \in Nat /\ jobs \in SUBSET Job
      BY DEF TypeOK
    <2> QED BY <1>2, <2>1, <2>2, NewSessionType, StartAttemptType
            DEF Connect, TypeOK
  <1>3. ASSUME NEW slot \in Slot, Disconnect(slot)
        PROVE  TypeOK'
    BY <1>3, DisconnectType DEF Disconnect
  <1>4. ASSUME NEW host \in Host, DisconnectHost(host)
        PROVE  TypeOK'
    BY <1>4, DisconnectType DEF DisconnectHost, Occupied
  <1>5. ASSUME NEW slot \in Slot, NEW muted \in MuteRequests,
               SetMuted(slot, muted)
        PROVE  TypeOK'
    <2>1. [sessions[slot] EXCEPT !.muted = muted] \in Session
      BY <1>5, VolumeAssumption DEF SetMuted, Occupied, TypeOK, Session
    <2> QED BY <1>5, <2>1, ApplyGainType DEF SetMuted, TypeOK
  <1>6. ASSUME NEW slot \in Slot, NEW volume \in VolumeRequests,
               SetVolume(slot, volume)
        PROVE  TypeOK'
    <2>1. CoerceIn(volume) \in Volume
      BY <1>6, VolumeAssumption DEF SetVolume, CoerceIn, Volume
    <2>2. [sessions[slot] EXCEPT !.volume = CoerceIn(volume)] \in Session
      BY <1>6, <2>1 DEF SetVolume, Occupied, TypeOK, Session
    <2> QED BY <1>6, <2>2, ApplyGainType DEF SetVolume, TypeOK
  <1>7. CASE StopAll
    BY <1>7, DisconnectType DEF StopAll, Occupied
  <1> QED BY <1>1, <1>2, <1>3, <1>4, <1>5, <1>6, <1>7 DEF User

LEMMA JobType == ASSUME TypeOK, NEW j \in jobs, JobStep(j) PROVE TypeOK'
  <1> j \in Job /\ j.slot \in Slot /\ j.attempt \in Nat
    BY DEF TypeOK, Job, Attempt
  <1> USE DEF vars
  <1>1. ASSUME NEW k \in {"launch", "watch", "info"},
               jobs' = (jobs \ {j}) \cup {[j EXCEPT !.phase = k]}
        PROVE  jobs' \subseteq Job
    BY <1>1 DEF TypeOK, Job
  <1>2. ASSUME NEW sess \in Session, NEW held \in Playback,
               Failed(j.slot, sess, jobs \ {j}, held)
        PROVE  /\ sessions' \in [Slot -> Session \cup {NoSession}]
               /\ nextAttempt' \in Nat
               /\ jobs' \subseteq Job
               /\ devices' \in [Slot -> View \cup {NoSession}]
               /\ device' \in [Slot -> Device \cup {NoDevice}]
               /\ playback' \in Playback
    <2>1. jobs \ {j} \in SUBSET Job
      BY DEF TypeOK
    <2> QED BY <1>2, <2>1, FailedType
  <1>3. IsCurrent(j.slot, j.attempt) => sessions[j.slot] \in Session
    BY DEF IsCurrent, TypeOK
  <1>4. CASE WaitOver(j)
    BY <1>1, <1>4 DEF WaitOver, TypeOK
  <1>5. CASE ServerInfo(j)
    <2>1. UseAudioOnly(sessions[j.slot].host) \in BOOLEAN
      BY DEF UseAudioOnly, AudioOnly
    <2> DEFINE b == UseAudioOnly(sessions[j.slot].host)
    <2>2. jobs' \subseteq jobs \cup {[j EXCEPT !.phase = "launch", !.audioOnly = b]}
      BY <1>5 DEF ServerInfo
    <2>3. b \in BOOLEAN
      BY <2>1
    <2> HIDE DEF b
    <2>4. [j EXCEPT !.phase = "launch", !.audioOnly = b] \in Job
      BY <2>3 DEF Job
    <2>5. jobs' \subseteq Job
      BY <2>2, <2>4 DEF TypeOK
    <2> QED BY <1>5, <2>5 DEF ServerInfo, TypeOK
  <1>6. CASE PrepareReturns(j)
    <2>1. CASE JobReturns(j)
      BY <2>1, JobReturnsType
    <2> DEFINE sess == [sessions[j.slot] EXCEPT !.params =
                          IF j.audioOnly THEN "audioOnly" ELSE "dummyVideo"]
    <2>2. CASE IsCurrent(j.slot, j.attempt) /\ StartWorker(j, sess)
      <3>1. sess \in Session
        BY <2>2, <1>3 DEF Session
      <3> HIDE DEF sess
      <3>2. ASSUME NEW held \in Playback,
                   Failed(j.slot, sess, jobs \ {j}, held),
                   UNCHANGED <<callbacks, ipCap, uidCap>>
            PROVE  TypeOK'
        BY <3>1, <3>2, <1>2 DEF TypeOK
      <3>3. CASE /\ device[j.slot] = NoDevice
                 /\ sessions' = [sessions EXCEPT ![j.slot] = sess]
                 /\ playback' = FullPlayback
                 /\ device' = [device EXCEPT ![j.slot] =
                                  [attempt |-> j.attempt, gain |-> Gain(sess),
                                   up |-> FALSE]]
                 /\ jobs' = (jobs \ {j}) \cup {[j EXCEPT !.phase = "watch"]}
                 /\ UNCHANGED <<nextAttempt, devices, callbacks, ipCap,
                                uidCap>>
        <4>1. [attempt |-> j.attempt, gain |-> Gain(sess), up |-> FALSE]
                \in Device
          BY <3>1, GainType DEF Device, Attempt
        <4>2. jobs' \subseteq Job
          BY <3>3, <1>1
        <4> QED BY <3>1, <3>3, <4>1, <4>2, PlaybackType DEF TypeOK
      <3>4. StartPlaybackThrows \subseteq Playback /\ FullPlayback \in Playback
        BY PlaybackType
      <3> QED BY <2>2, <3>2, <3>3, <3>4 DEF StartWorker
    <2> QED BY <1>6, <2>1, <2>2 DEF PrepareReturns
  <1>7. CASE PrepareFails(j)
    <2>1. playback \in Playback
      BY DEF TypeOK
    <2>2. CASE /\ IsCurrent(j.slot, j.attempt)
               /\ Failed(j.slot, sessions[j.slot], jobs \ {j}, playback)
               /\ UNCHANGED <<callbacks, ipCap, uidCap>>
      BY <2>1, <2>2, <1>2, <1>3 DEF TypeOK
    <2> QED BY <1>7, <2>2, JobReturnsType DEF PrepareFails
  <1>8. CASE LaunchRejected(j)
    <2> DEFINE sess == sessions[j.slot]
    <2>1. sess \in Session /\ playback \in Playback
      BY <1>3, <1>8 DEF LaunchRejected, TypeOK
    <2>2. CASE /\ SetAudioOnly(sess.host, ParamsUid(sess), TRUE)
               /\ StartAttempt(j.slot, [sess EXCEPT !.relearned = TRUE],
                               nextAttempt + 1, "info", jobs \ {j})
               /\ UNCHANGED <<callbacks, playback>>
      <3>1. [sess EXCEPT !.relearned = TRUE] \in Session /\ sess.host \in Host
        BY <2>1 DEF Session
      <3>2. ipCap' \in [Host -> Cap] /\ uidCap' \in [Uid -> Cap]
        BY <2>1, <2>2, <3>1, ParamsUidType, SetAudioOnlyType
      <3>3. nextAttempt + 1 \in Nat /\ jobs \ {j} \in SUBSET Job
        BY DEF TypeOK
      <3> DEFINE again == [sess EXCEPT !.relearned = TRUE]
      <3>4. StartAttempt(j.slot, again, nextAttempt + 1, "info", jobs \ {j})
        BY <2>2
      <3>5. again \in Session
        BY <3>1
      <3> HIDE DEF sess, again
      <3> QED BY <2>2, <3>2, <3>3, <3>4, <3>5, StartAttemptType DEF TypeOK
    <2>3. CASE /\ Failed(j.slot, sess, jobs \ {j}, playback)
               /\ UNCHANGED <<callbacks, ipCap, uidCap>>
      BY <2>1, <2>3, <1>2 DEF TypeOK
    <2> QED BY <1>8, <2>2, <2>3 DEF LaunchRejected
  <1>9. CASE WatchOver(j)
    <2>1. playback \in Playback
      BY DEF TypeOK
    <2>2. CASE /\ IsCurrent(j.slot, j.attempt)
               /\ Failed(j.slot, sessions[j.slot], jobs \ {j}, playback)
               /\ UNCHANGED <<callbacks, ipCap, uidCap>>
      BY <2>1, <2>2, <1>2, <1>3 DEF TypeOK
    <2> QED BY <1>9, <2>2, JobReturnsType DEF WatchOver
  <1> QED BY <1>4, <1>5, <1>6, <1>7, <1>8, <1>9 DEF JobStep

LEMMA CallbackType ==
    ASSUME TypeOK, NEW c \in callbacks, CallbackStep(c) PROVE TypeOK'
  <1> c \in Callback /\ c.slot \in Slot
    BY DEF TypeOK, Callback
  <1>1. IsCurrent(c.slot, c.attempt) => sessions[c.slot] \in Session
    BY DEF IsCurrent, TypeOK
  <1>2. CASE Ignored(c)
    BY <1>2 DEF Ignored, TypeOK
  <1>3. CASE WorkerConnected(c) /\ ~Ignored(c)
    <2> DEFINE sess == [sessions[c.slot] EXCEPT !.connectedAt = "early",
                                                !.state = "CONNECTED"]
    <2>1. ApplyGain(c.slot, sess) /\ IsCurrent(c.slot, c.attempt)
      BY <1>3 DEF WorkerConnected
    <2>2. sess \in Session
      BY <2>1, <1>1 DEF Session
    <2> HIDE DEF sess
    <2> QED BY <1>3, <2>1, <2>2, ApplyGainType DEF WorkerConnected, TypeOK
  <1>4. CASE WorkerDisconnected(c) /\ ~Ignored(c)
    <2> DEFINE sess == AfterDisconnect(sessions[c.slot])
    <2>1. sessions[c.slot] \in Session /\ Failed(c.slot, sess, jobs, playback)
      BY <1>1, <1>4 DEF WorkerDisconnected
    <2>2. sess \in Session
      BY <2>1, RetryAssumption DEF AfterDisconnect, Session
    <2>3. ipCap' \in [Host -> Cap] /\ uidCap' \in [Uid -> Cap]
      <3>1. CASE UNCHANGED <<ipCap, uidCap>>
        BY <3>1 DEF TypeOK
      <3>2. CASE SetAudioOnly(sessions[c.slot].host,
                              ParamsUid(sessions[c.slot]), FALSE)
        <4>1. sessions[c.slot].host \in Host
          BY <2>1 DEF Session
        <4> QED BY <2>1, <3>2, <4>1, ParamsUidType, SetAudioOnlyType
      <3> QED BY <1>4, <3>1, <3>2 DEF WorkerDisconnected
    <2>4. jobs \in SUBSET Job /\ playback \in Playback
      BY DEF TypeOK
    <2> HIDE DEF sess
    <2>5. callbacks' \subseteq Callback
      BY <1>4 DEF WorkerDisconnected, TypeOK
    <2> QED BY <2>1, <2>2, <2>3, <2>4, <2>5, FailedType DEF TypeOK
  <1> QED BY <1>2, <1>3, <1>4 DEF CallbackStep

LEMMA WorkerType ==
    ASSUME TypeOK, NEW slot \in Slot, Worker(slot) PROVE TypeOK'
  <1> DEFINE posted(kind) == [kind |-> kind, slot |-> slot,
                              attempt |-> device[slot].attempt]
  <1>1. device[slot] # NoDevice =>
          /\ device[slot] \in Device
          /\ \A kind \in {"connected", "disconnected"} : posted(kind) \in Callback
    BY DEF TypeOK, Device, Callback
  <1>2. CASE FirstFrame(slot)
    <2>1. [device[slot] EXCEPT !.up = TRUE] \in Device
      BY <1>1, <1>2 DEF FirstFrame, Device
    <2>2. device' \in [Slot -> Device \cup {NoDevice}]
      BY <1>2, <2>1 DEF FirstFrame, TypeOK
    <2>3. callbacks' \subseteq Callback
      BY <1>1, <1>2 DEF FirstFrame, TypeOK
    <2> QED BY <1>2, <2>2, <2>3 DEF FirstFrame, TypeOK
  <1>3. CASE StreamEnds(slot)
    <2>1. callbacks' \subseteq Callback
      BY <1>1, <1>3 DEF StreamEnds, TypeOK
    <2> QED BY <1>3, <2>1 DEF StreamEnds, TypeOK
  <1>4. CASE Elapse(slot)
    <2>1. sessions[slot] \in Session
      BY <1>4 DEF Elapse, Occupied, TypeOK
    <2>2. \A age \in {"middle", "stable"} :
            [sessions[slot] EXCEPT !.connectedAt = age] \in Session
      BY <2>1 DEF Session
    <2>3. sessions' \in [Slot -> Session \cup {NoSession}]
      BY <1>4, <2>2 DEF Elapse, TypeOK
    <2> QED BY <1>4, <2>3 DEF Elapse, TypeOK
  <1> QED BY <1>2, <1>3, <1>4 DEF Worker

LEMMA NextType == TypeOK /\ [Next]_vars => TypeOK'
  <1> SUFFICES ASSUME TypeOK, [Next]_vars PROVE TypeOK'
    OBVIOUS
  <1>1. CASE UNCHANGED vars
    BY <1>1 DEF vars, TypeOK
  <1> QED BY <1>1, UserType, JobType, CallbackType, WorkerType DEF Next

LEMMA InitType == Init => TypeOK
  <1> SUFFICES ASSUME Init PROVE TypeOK
    OBVIOUS
  <1>1. ipCap \in [Host -> Cap] /\ uidCap \in [Uid -> Cap]
    BY StoreAssumption DEF Init
  <1>2. playback \in Playback
    BY PlaybackType DEF Init
  <1> QED BY <1>1, <1>2 DEF Init, TypeOK

\* The types the declarations of the code give its state are kept by every
\* interleaving of requests, jobs, callbacks and workers.
THEOREM TypeCorrect == Spec => []TypeOK
  BY InitType, NextType, PTL DEF Spec

-----------------------------------------------------------------------------
(* Restarting a session *)

\* What startAttempt() and failed() leave behind, slot by slot: a session with
\* a number no one has seen, no worker, at most one live job, which works for
\* that number, and the other slots as they were.
Restarts(slot) ==
    /\ sessions'[slot] # NoSession
    /\ nextAttempt < sessions'[slot].attempt
    /\ sessions'[slot].attempt <= nextAttempt'
    /\ sessions'[slot].state \in {"CONNECTING", "ERROR"}
    /\ device'[slot] = NoDevice
    /\ \A t \in Slot \ {slot} : /\ sessions'[t] = sessions[t]
                               /\ device'[t] = device[t]
    /\ \A k \in jobs' : k.slot = slot /\ ~k.cancelled =>
          /\ sessions'[slot].state = "CONNECTING"
          /\ k.attempt = sessions'[slot].attempt
    /\ \A k, l \in jobs' :
          k.slot = slot /\ ~k.cancelled /\ l.slot = slot /\ ~l.cancelled
          => k = l
    /\ \A k \in jobs : k.slot # slot => k \in jobs'
    /\ \A k \in jobs' : k.slot # slot => k \in jobs
    /\ sessions'[slot].state = "CONNECTING" =>
          \E k \in jobs' : /\ k.slot = slot /\ ~k.cancelled
                          /\ k.attempt = sessions'[slot].attempt

\* A step takes no callback but those of the slot it restarts.
TakesCallbacksOf(slot) ==
    /\ callbacks' \subseteq callbacks
    /\ \A c \in callbacks : c.slot # slot => c \in callbacks'

\* The jobs a step of the job j leaves to startAttempt() and failed().
OthersOf(slot, others) ==
    /\ others \subseteq jobs
    /\ \A k \in jobs : k.slot # slot => k \in others

LEMMA CancelledEffect ==
    ASSUME NEW others \in SUBSET Job, NEW slot \in Slot
    PROVE  /\ \A k \in Cancelled(others, slot) : k.slot = slot => k.cancelled
           /\ \A k \in Cancelled(others, slot) : k.slot # slot => k \in others
           /\ \A k \in others : k.slot # slot => k \in Cancelled(others, slot)
  BY DEF Cancelled, Job

LEMMA StartAttemptRestarts ==
    ASSUME TypeOK, NEW slot \in Slot, NEW sess \in Session, NEW n \in Nat,
           nextAttempt < n, NEW phase \in {"wait", "info"},
           NEW others, OthersOf(slot, others),
           StartAttempt(slot, sess, n, phase, others)
    PROVE  /\ Restarts(slot)
           /\ sessions'[slot].host = sess.host
           /\ sessions'[slot].state = "CONNECTING"
  <1> DEFINE new == [slot |-> slot, attempt |-> n, phase |-> phase,
                     audioOnly |-> FALSE, cancelled |-> FALSE]
             now == [sess EXCEPT !.attempt = n, !.connectedAt = "none",
                                 !.params = "none", !.state = "CONNECTING"]
  <1>1. /\ now.attempt = n /\ now.state = "CONNECTING" /\ now.host = sess.host
        /\ now \in Session
    BY DEF Session, Attempt
  <1>2. sessions' = [sessions EXCEPT ![slot] = now] /\ nextAttempt' = n
    BY DEF StartAttempt
  <1>3. jobs' = Cancelled(others, slot) \cup {new}
    BY DEF StartAttempt
  <1>4. new.slot = slot /\ new.attempt = n /\ ~new.cancelled
    OBVIOUS
  <1>5. others \in SUBSET Job
    BY DEF OthersOf, TypeOK
  <1> HIDE DEF new, now
  <1>6. sessions'[slot] = now /\ now # NoSession
    BY <1>1, <1>2, NoneAssumption DEF TypeOK
  <1>7. /\ device'[slot] = NoDevice
        /\ \A t \in Slot \ {slot} : /\ sessions'[t] = sessions[t]
                                   /\ device'[t] = device[t]
    BY <1>2 DEF StartAttempt, Stopped, TypeOK
  <1>8. \A k \in jobs' : k.slot = slot /\ ~k.cancelled => k = new
    BY <1>3, <1>5, CancelledEffect
  <1>9. /\ \A k \in jobs : k.slot # slot => k \in jobs'
        /\ \A k \in jobs' : k.slot # slot => k \in jobs
    BY <1>3, <1>4, <1>5, CancelledEffect DEF OthersOf
  <1>10. nextAttempt < sessions'[slot].attempt
    BY <1>1, <1>6
  <1>11. sessions'[slot].attempt <= nextAttempt'
    BY <1>1, <1>2, <1>6
  <1>12. \A k \in jobs' : k.slot = slot /\ ~k.cancelled =>
          /\ sessions'[slot].state = "CONNECTING"
          /\ k.attempt = sessions'[slot].attempt
    BY <1>1, <1>4, <1>6, <1>8
  <1>13. \E k \in jobs' : /\ k.slot = slot /\ ~k.cancelled
                         /\ k.attempt = sessions'[slot].attempt
    BY <1>1, <1>3, <1>4, <1>6
  <1>14. \A k, l \in jobs' :
           k.slot = slot /\ ~k.cancelled /\ l.slot = slot /\ ~l.cancelled
           => k = l
    BY <1>8
  <1> QED BY <1>1, <1>6, <1>7, <1>9, <1>10, <1>11, <1>12, <1>13, <1>14
          DEF Restarts

LEMMA FailedRestarts ==
    ASSUME TypeOK, NEW slot \in Slot, NEW sess \in Session,
           NEW others, OthersOf(slot, others), NEW held,
           Failed(slot, sess, others, held)
    PROVE  /\ Restarts(slot)
           /\ sessions'[slot].host = sess.host
           /\ \/ sessions'[slot].state = "CONNECTING" /\ playback' = held
              \/ playback' = StopPlaybackIfIdle(sessions', held)
  <1>1. CASE /\ StartAttempt(slot, [sess EXCEPT !.retries = @ + 1],
                             Invalidating + 1, "wait", others)
             /\ sess.retries < MaxRetries
             /\ playback' = held
    <2> DEFINE more == [sess EXCEPT !.retries = @ + 1]
    <2>1. more \in Session /\ more.host = sess.host
      BY <1>1, RetryAssumption DEF Session
    <2>2. Invalidating + 1 \in Nat /\ nextAttempt < Invalidating + 1
      BY DEF Invalidating, TypeOK
    <2>3. StartAttempt(slot, more, Invalidating + 1, "wait", others)
      BY <1>1
    <2> HIDE DEF more
    <2> QED BY <1>1, <2>1, <2>2, <2>3, StartAttemptRestarts
  <1>2. CASE /\ nextAttempt' = Invalidating
             /\ sessions' = [sessions EXCEPT ![slot] =
                                [sess EXCEPT !.attempt = Invalidating,
                                             !.state = "ERROR"]]
             /\ device' = Stopped({slot})
             /\ jobs' = Cancelled(others, slot)
             /\ playback' = StopPlaybackIfIdle(sessions', held)
    <2> DEFINE now == [sess EXCEPT !.attempt = Invalidating,
                                   !.state = "ERROR"]
    <2>1. Invalidating \in Nat /\ nextAttempt < Invalidating
      BY DEF Invalidating, TypeOK
    <2>2. /\ now.attempt = Invalidating /\ now.state = "ERROR"
          /\ now.host = sess.host /\ now \in Session
      BY <2>1 DEF Session, Attempt
    <2>3. sessions' = [sessions EXCEPT ![slot] = now]
      BY <1>2
    <2>4. others \in SUBSET Job
      BY DEF OthersOf, TypeOK
    <2> HIDE DEF now
    <2>5. sessions'[slot] = now /\ now # NoSession
      BY <2>2, <2>3, NoneAssumption DEF TypeOK
    <2>6. /\ device'[slot] = NoDevice
          /\ \A t \in Slot \ {slot} : /\ sessions'[t] = sessions[t]
                                     /\ device'[t] = device[t]
      BY <1>2, <2>3 DEF Stopped, TypeOK
    <2>7. /\ \A k \in jobs' : k.slot = slot => k.cancelled
          /\ \A k \in jobs : k.slot # slot => k \in jobs'
    /\ \A k \in jobs' : k.slot # slot => k \in jobs
      BY <1>2, <2>4, CancelledEffect DEF OthersOf
    <2>8. /\ sessions'[slot].attempt = Invalidating
          /\ sessions'[slot].state = "ERROR"
          /\ sessions'[slot].host = sess.host
          /\ sessions'[slot] # NoSession
      BY <2>2, <2>5
    <2>9. /\ nextAttempt < sessions'[slot].attempt
          /\ sessions'[slot].attempt <= nextAttempt'
      BY <1>2, <2>1, <2>8
    <2>10. \A k \in jobs' : ~(k.slot = slot /\ ~k.cancelled)
      BY <2>7
    <2>11. Restarts(slot)
      BY <2>6, <2>7, <2>8, <2>9, <2>10 DEF Restarts
    <2> QED BY <1>2, <2>8, <2>11
  <1> QED BY <1>1, <1>2 DEF Failed

\* The parts of the inductive invariant that relate sessions, jobs, workers
\* and callbacks.
Related == /\ AttemptsDrawn
           /\ LiveJobsAreWanted
           /\ JobsAreCurrent
           /\ DeviceOwned
           /\ GainMatches
           /\ ConnectingIsDriven
           /\ CallbacksAreTrue
           /\ ConnectedHasStream
           /\ ErrorIsQuiet

LEMMA RestartKeeps ==
    ASSUME TypeOK, TypeOK', Related, NEW slot \in Slot, Restarts(slot),
           TakesCallbacksOf(slot)
    PROVE  Related'
  <1>1. /\ sessions'[slot] # NoSession /\ device'[slot] = NoDevice
        /\ nextAttempt < sessions'[slot].attempt
        /\ sessions'[slot].attempt <= nextAttempt'
        /\ sessions'[slot].state \in {"CONNECTING", "ERROR"}
    BY DEF Restarts
  <1>2. \A t \in Slot \ {slot} : /\ sessions'[t] = sessions[t]
                               /\ device'[t] = device[t]
    BY DEF Restarts
  <1>3. /\ \A k \in jobs : k.slot # slot => k \in jobs'
        /\ \A k \in jobs' : k.slot # slot => k \in jobs
    BY DEF Restarts
  <1>4. \A t \in Slot \ {slot} : /\ t \in Occupied' <=> t \in Occupied
                               /\ t \in Active(sessions)' <=> t \in Active(sessions)
    BY <1>2 DEF Occupied, Active
  <1>5. \A c \in callbacks : c.slot \in Slot /\ c.attempt <= nextAttempt
                            /\ c.attempt \in Nat
    BY DEF Related, AttemptsDrawn, TypeOK, Callback, Attempt
  <1>6. \A k \in jobs \cup jobs' : k.slot \in Slot
    BY DEF TypeOK, Job
  <1>7. \A c \in callbacks : c.slot = slot => c.attempt # sessions'[slot].attempt
    <2>1. nextAttempt \in Nat /\ sessions'[slot].attempt \in Nat
      BY <1>1 DEF TypeOK, Session, Attempt
    <2> QED BY <1>1, <1>5, <2>1
  <1>8. \A k \in jobs' : k.slot = slot /\ ~k.cancelled =>
          /\ sessions'[slot].state = "CONNECTING"
          /\ k.attempt = sessions'[slot].attempt
    BY DEF Restarts
  <1>9. callbacks' \subseteq callbacks
    BY DEF TakesCallbacksOf
  <1>10. AttemptsDrawn'
    <2>1. nextAttempt \in Nat /\ nextAttempt' \in Nat
      BY DEF TypeOK
    <2>2. nextAttempt <= nextAttempt'
      <3>1. sessions'[slot].attempt \in Nat
        BY <1>1 DEF TypeOK, Session, Attempt
      <3> QED BY <1>1, <2>1, <3>1
    <2>3. \A t \in Occupied' : sessions'[t].attempt <= nextAttempt'
      <3> SUFFICES ASSUME NEW t \in Slot \ {slot}, t \in Occupied
                   PROVE  sessions[t].attempt <= nextAttempt'
        BY <1>1, <1>2, <1>4 DEF Occupied
      <3>1. sessions[t].attempt <= nextAttempt /\ sessions[t].attempt \in Nat
        BY DEF Related, AttemptsDrawn, Occupied, TypeOK, Session, Attempt
      <3> QED BY <2>1, <2>2, <3>1
    <2>4. \A c \in callbacks' : c.attempt <= nextAttempt'
      BY <1>5, <1>9, <2>1, <2>2
    <2> QED BY <2>3, <2>4 DEF AttemptsDrawn
  <1>11. LiveJobsAreWanted'
    <2> SUFFICES ASSUME NEW k \in jobs', ~k.cancelled
                 PROVE  /\ k.slot \in Active(sessions)'
                        /\ k.attempt = sessions'[k.slot].attempt
      BY DEF LiveJobsAreWanted
    <2>1. CASE k.slot = slot
      BY <1>1, <1>8, <2>1 DEF Active
    <2>2. CASE k.slot # slot
      BY <1>2, <1>3, <1>4, <1>6, <2>2 DEF Related, LiveJobsAreWanted
    <2> QED BY <2>1, <2>2
  <1>12. JobsAreCurrent'
    <2> SUFFICES ASSUME NEW j \in jobs', ~j.cancelled
                 PROVE  /\ IsCurrent(j.slot, j.attempt)'
                        /\ \A k \in jobs' :
                             k.slot = j.slot /\ ~k.cancelled => k = j
      BY DEF JobsAreCurrent
    <2>1. IsCurrent(j.slot, j.attempt)'
      BY <1>11 DEF LiveJobsAreWanted, Active, IsCurrent
    <2>2. CASE j.slot = slot
      BY <2>1, <2>2 DEF Restarts
    <2>3. CASE j.slot # slot
      BY <1>3, <2>1, <2>3 DEF Related, JobsAreCurrent
    <2> QED BY <2>2, <2>3
  <1>13. DeviceOwned' /\ GainMatches'
    BY <1>1, <1>2, <1>4 DEF Related, DeviceOwned, GainMatches, Gain
  <1>14. ConnectingIsDriven'
    <2> SUFFICES ASSUME NEW t \in Occupied', sessions'[t].state = "CONNECTING"
                 PROVE  \E k \in jobs' : /\ k.slot = t /\ ~k.cancelled
                                        /\ k.attempt = sessions'[t].attempt
      BY DEF ConnectingIsDriven
    <2>1. CASE t = slot
      BY <2>1 DEF Restarts
    <2>2. CASE t # slot
      <3>1. t \in Occupied /\ sessions'[t] = sessions[t]
        BY <1>2, <1>4, <2>2 DEF Occupied
      <3>2. PICK k \in jobs : /\ k.slot = t /\ ~k.cancelled
                             /\ k.attempt = sessions[t].attempt
        BY <3>1 DEF Related, ConnectingIsDriven
      <3> QED BY <1>3, <2>2, <3>1, <3>2
    <2> QED BY <2>1, <2>2
  <1>15. CallbacksAreTrue'
    <2> SUFFICES ASSUME NEW c \in callbacks', c.kind = "connected",
                        IsCurrent(c.slot, c.attempt)'
                 PROVE  \/ device'[c.slot] # NoDevice /\ device'[c.slot].up
                        \/ [kind |-> "disconnected", slot |-> c.slot,
                            attempt |-> c.attempt] \in callbacks'
      BY DEF CallbacksAreTrue
    <2>1. c \in callbacks /\ c.slot \in Slot /\ c.slot # slot
      BY <1>5, <1>7, <1>9 DEF IsCurrent
    <2>2. IsCurrent(c.slot, c.attempt) /\ device'[c.slot] = device[c.slot]
      BY <1>2, <2>1 DEF IsCurrent
    <2> QED BY <2>1, <2>2 DEF Related, CallbacksAreTrue, TakesCallbacksOf
  <1>16. ConnectedHasStream'
    <2> SUFFICES ASSUME NEW t \in Occupied', sessions'[t].state = "CONNECTED"
                 PROVE  \/ device'[t] # NoDevice /\ device'[t].up
                        \/ [kind |-> "disconnected", slot |-> t,
                            attempt |-> sessions'[t].attempt] \in callbacks'
      BY DEF ConnectedHasStream
    <2>1. t # slot
      BY <1>1
    <2>2. t \in Occupied /\ sessions'[t] = sessions[t] /\ device'[t] = device[t]
      BY <1>2, <1>4, <2>1 DEF Occupied
    <2> QED BY <2>1, <2>2 DEF Related, ConnectedHasStream, TakesCallbacksOf
  <1>17. ErrorIsQuiet'
    <2> SUFFICES ASSUME NEW t \in Occupied', sessions'[t].state = "ERROR"
                 PROVE  /\ device'[t] = NoDevice
                        /\ \A j \in jobs' : j.slot = t => j.cancelled
                        /\ \A c \in callbacks' :
                             c.slot = t => ~IsCurrent(t, c.attempt)'
      BY DEF ErrorIsQuiet
    <2>1. CASE t = slot
      BY <1>1, <1>7, <1>8, <1>9, <2>1 DEF IsCurrent
    <2>2. CASE t # slot
      <3>1. /\ t \in Occupied /\ sessions'[t] = sessions[t]
            /\ device'[t] = device[t]
        BY <1>2, <1>4, <2>2 DEF Occupied
      <3> QED BY <1>3, <1>9, <2>2, <3>1 DEF Related, ErrorIsQuiet, IsCurrent
    <2> QED BY <2>1, <2>2
  <1> QED BY <1>10, <1>11, <1>12, <1>13, <1>14, <1>15, <1>16, <1>17 DEF Related

LEMMA RestartKeepsHosts ==
    ASSUME HostUnique, NEW slot \in Slot, Restarts(slot),
           \A t \in Occupied \ {slot} : sessions[t].host # sessions'[slot].host
    PROVE  HostUnique'
  BY DEF HostUnique, Occupied, Restarts

LEMMA RestartKeepsPlayback ==
    ASSUME Related, NEW slot \in Slot, Restarts(slot),
           NEW held,
           \A t \in Slot : device[t] # NoDevice => held = FullPlayback,
           \/ sessions'[slot].state = "CONNECTING" /\ playback' = held
           \/ playback' = StopPlaybackIfIdle(sessions', held)
    PROVE  PlaybackCoversDevices' /\ IdleReleasesPlayback'
  <1>1. \A t \in Slot : device'[t] # NoDevice =>
          t \in Active(sessions') /\ held = FullPlayback
    BY DEF Restarts, Related, DeviceOwned, Active
  <1>2. sessions'[slot].state = "CONNECTING" => slot \in Active(sessions')
    BY DEF Restarts, Active
  <1> QED BY <1>1, <1>2 DEF PlaybackCoversDevices, IdleReleasesPlayback,
                            StopPlaybackIfIdle

LEMMA FailedKeeps ==
    ASSUME IInv, TypeOK', NEW slot \in Occupied, NEW sess \in Session,
           sess.host = sessions[slot].host,
           NEW others, OthersOf(slot, others), NEW held,
           \A t \in Slot : device[t] # NoDevice => held = FullPlayback,
           Failed(slot, sess, others, held), TakesCallbacksOf(slot)
    PROVE  IInv'
  <1> slot \in Slot
    BY DEF Occupied
  <1>1. /\ Restarts(slot)
        /\ sessions'[slot].host = sess.host
        /\ \/ sessions'[slot].state = "CONNECTING" /\ playback' = held
           \/ playback' = StopPlaybackIfIdle(sessions', held)
    BY FailedRestarts DEF IInv
  <1>2. Related /\ Related'
    BY <1>1, RestartKeeps DEF IInv, Related
  <1>3. HostUnique'
    BY <1>1, RestartKeepsHosts DEF IInv, HostUnique
  <1>4. PlaybackCoversDevices' /\ IdleReleasesPlayback'
    BY <1>1, <1>2, RestartKeepsPlayback
  <1> QED BY <1>2, <1>3, <1>4 DEF IInv, Related

LEMMA StartAttemptKeeps ==
    ASSUME IInv, TypeOK', NEW slot \in Slot, NEW sess \in Session,
           \A t \in Occupied \ {slot} : sessions[t].host # sess.host,
           NEW n \in Nat, nextAttempt < n,
           NEW others, OthersOf(slot, others),
           StartAttempt(slot, sess, n, "info", others),
           UNCHANGED <<callbacks, playback>>
    PROVE  IInv'
  <1>1. /\ Restarts(slot)
        /\ sessions'[slot].host = sess.host
        /\ sessions'[slot].state = "CONNECTING"
    BY StartAttemptRestarts DEF IInv
  <1>2. TakesCallbacksOf(slot)
    BY DEF TakesCallbacksOf
  <1>3. Related /\ Related'
    BY <1>1, <1>2, RestartKeeps DEF IInv, Related
  <1>4. HostUnique'
    BY <1>1, RestartKeepsHosts DEF IInv
  <1>5. PlaybackCoversDevices' /\ IdleReleasesPlayback'
    BY <1>1, <1>3, RestartKeepsPlayback DEF IInv, PlaybackCoversDevices
  <1> QED BY <1>3, <1>4, <1>5 DEF IInv, Related

-----------------------------------------------------------------------------
(* Steps that leave the attempts of all sessions alone *)

\* A job ends that no connecting session depends on.
LEMMA JobReturnsKeeps ==
    ASSUME IInv, TypeOK', NEW j \in jobs, JobReturns(j),
           \/ j.cancelled
           \/ ~IsCurrent(j.slot, j.attempt)
           \/ sessions[j.slot].state # "CONNECTING"
    PROVE  IInv'
  <1> USE DEF JobReturns, IInv
  <1>1. AttemptsDrawn' /\ LiveJobsAreWanted' /\ JobsAreCurrent'
    BY DEF AttemptsDrawn, LiveJobsAreWanted, JobsAreCurrent, Occupied, Active,
           IsCurrent
  <1>2. DeviceOwned' /\ GainMatches' /\ PlaybackCoversDevices'
    BY DEF DeviceOwned, GainMatches, PlaybackCoversDevices, Active, Occupied,
           Gain
  <1>3. IdleReleasesPlayback' /\ HostUnique' /\ CallbacksAreTrue'
    BY DEF IdleReleasesPlayback, HostUnique, CallbacksAreTrue, Active,
           Occupied, IsCurrent
  <1>4. ConnectingIsDriven'
    BY DEF ConnectingIsDriven, Occupied, IsCurrent
  <1>5. ConnectedHasStream' /\ ErrorIsQuiet'
    BY DEF ConnectedHasStream, ErrorIsQuiet, Occupied, IsCurrent
  <1> QED BY <1>1, <1>2, <1>3, <1>4, <1>5

\* A job moves on; its session and its number stay.
LEMMA JobMovesKeeps ==
    ASSUME IInv, TypeOK', NEW j \in jobs, NEW k,
           k.slot = j.slot, k.attempt = j.attempt, k.cancelled = j.cancelled,
           jobs' = (jobs \ {j}) \cup {k},
           UNCHANGED <<sessions, nextAttempt, device, callbacks, playback>>
    PROVE  IInv'
  <1> USE DEF IInv
  <1>1. AttemptsDrawn' /\ LiveJobsAreWanted'
    BY DEF AttemptsDrawn, LiveJobsAreWanted, Occupied, Active
  <1>2. JobsAreCurrent'
    BY DEF JobsAreCurrent, IsCurrent
  <1>3. DeviceOwned' /\ GainMatches' /\ PlaybackCoversDevices'
    BY DEF DeviceOwned, GainMatches, PlaybackCoversDevices, Active, Occupied,
           Gain
  <1>4. IdleReleasesPlayback' /\ HostUnique' /\ CallbacksAreTrue'
    BY DEF IdleReleasesPlayback, HostUnique, CallbacksAreTrue, Active,
           Occupied, IsCurrent
  <1>5. ConnectingIsDriven'
    BY DEF ConnectingIsDriven, Occupied
  <1>6. ConnectedHasStream' /\ ErrorIsQuiet'
    BY DEF ConnectedHasStream, ErrorIsQuiet, Occupied, IsCurrent
  <1> QED BY <1>1, <1>2, <1>3, <1>4, <1>5, <1>6

\* A session changes without a new attempt, and its worker hears of it.
LEMMA ApplyGainKeeps ==
    ASSUME IInv, TypeOK', NEW slot \in Occupied, NEW sess \in Session,
           sess.host = sessions[slot].host,
           sess.attempt = sessions[slot].attempt,
           ApplyGain(slot, sess),
           \/ sess.state = sessions[slot].state
           \/ /\ sessions[slot].state = "CONNECTING"
              /\ sess.state = "CONNECTED"
              /\ \/ device[slot] # NoDevice /\ device[slot].up
                 \/ [kind |-> "disconnected", slot |-> slot,
                     attempt |-> sess.attempt] \in callbacks,
           \/ callbacks' = callbacks
           \/ \E c \in callbacks : /\ c.kind = "connected"
                                  /\ callbacks' = callbacks \ {c},
           UNCHANGED <<nextAttempt, jobs, playback>>
    PROVE  IInv'
  <1> slot \in Slot
    BY DEF Occupied
  <1>1. /\ sessions'[slot] = sess /\ sess # NoSession
        /\ \A t \in Slot \ {slot} : /\ sessions'[t] = sessions[t]
                                   /\ device'[t] = device[t]
    BY NoneAssumption DEF ApplyGain, IInv, TypeOK
  <1>2. /\ device'[slot] = NoDevice <=> device[slot] = NoDevice
        /\ device[slot] # NoDevice =>
             /\ device'[slot].gain = Gain(sess)
             /\ device'[slot].attempt = device[slot].attempt
             /\ device'[slot].up = device[slot].up
    <2>1. CASE device[slot] = NoDevice
      BY <2>1 DEF ApplyGain
    <2>2. CASE device[slot] # NoDevice
      <3>1. device[slot] \in Device
        BY <2>2 DEF IInv, TypeOK
      <3>2. device'[slot] = [device[slot] EXCEPT !.gain = Gain(sess)]
        BY <2>2 DEF ApplyGain, IInv, TypeOK
      <3>3. device'[slot] # NoDevice
        BY <3>1, <3>2, GainType, NoneAssumption DEF Device
      <3> QED BY <2>2, <3>1, <3>2, <3>3 DEF Device
    <2> QED BY <2>1, <2>2
  <1>3. Occupied' = Occupied /\ Active(sessions') = Active(sessions)
    BY <1>1 DEF Occupied, Active
  <1>4. \A s \in Slot : \A a : IsCurrent(s, a)' <=> IsCurrent(s, a)
    BY <1>1 DEF IsCurrent, Occupied
  <1>5. AttemptsDrawn'
    BY <1>1, <1>3 DEF IInv, AttemptsDrawn, Occupied
  <1>6. \A k \in jobs : k.slot \in Slot
    BY DEF IInv, TypeOK, Job
  <1>7. LiveJobsAreWanted' /\ JobsAreCurrent'
    BY <1>1, <1>3, <1>4, <1>6 DEF IInv, LiveJobsAreWanted, JobsAreCurrent
  <1>8. DeviceOwned'
    BY <1>1, <1>2, <1>3 DEF IInv, DeviceOwned
  <1>9. GainMatches'
    <2> SUFFICES ASSUME NEW t \in Slot, device'[t] # NoDevice
                 PROVE  /\ t \in Occupied'
                        /\ device'[t].gain = Gain(sessions[t])'
      BY DEF GainMatches
    <2>1. CASE t = slot
      BY <1>1, <1>2, <1>3, <2>1 DEF Gain
    <2>2. CASE t # slot
      BY <1>1, <1>3, <2>2 DEF IInv, GainMatches, Gain
    <2> QED BY <2>1, <2>2
  <1>10. PlaybackCoversDevices' /\ IdleReleasesPlayback'
    BY <1>1, <1>2, <1>3 DEF IInv, PlaybackCoversDevices, IdleReleasesPlayback
  <1>11. HostUnique'
    BY <1>1, <1>3 DEF IInv, HostUnique, Occupied
  <1>12. ConnectingIsDriven'
    BY <1>1, <1>3 DEF IInv, ConnectingIsDriven, Occupied
  <1>13. callbacks' \subseteq callbacks /\ \A c \in callbacks :
           c.kind = "disconnected" => c \in callbacks'
    OBVIOUS
  <1>14. \A c \in callbacks : c.slot \in Slot
    BY DEF IInv, TypeOK, Callback
  <1>15. CallbacksAreTrue'
    BY <1>1, <1>2, <1>4, <1>13, <1>14 DEF IInv, CallbacksAreTrue
  <1>16. ConnectedHasStream'
    BY <1>1, <1>2, <1>3, <1>13 DEF IInv, ConnectedHasStream, Occupied
  <1>17. ErrorIsQuiet'
    BY <1>1, <1>2, <1>3, <1>4, <1>13 DEF IInv, ErrorIsQuiet, Occupied
  <1> QED BY <1>5, <1>7, <1>8, <1>9, <1>10, <1>11, <1>12, <1>15, <1>16, <1>17
          DEF IInv

\* A callback is dropped: no session waits for it.
LEMMA IgnoredKeeps ==
    ASSUME IInv, TypeOK', NEW c \in callbacks, Ignored(c),
           c.kind = "connected" \/ ~IsCurrent(c.slot, c.attempt)
    PROVE  IInv'
  <1> USE DEF Ignored, IInv
  <1>1. AttemptsDrawn' /\ LiveJobsAreWanted' /\ JobsAreCurrent'
    BY DEF AttemptsDrawn, LiveJobsAreWanted, JobsAreCurrent, Occupied, Active,
           IsCurrent
  <1>2. DeviceOwned' /\ GainMatches' /\ PlaybackCoversDevices'
    BY DEF DeviceOwned, GainMatches, PlaybackCoversDevices, Active, Occupied,
           Gain
  <1>3. IdleReleasesPlayback' /\ HostUnique' /\ ConnectingIsDriven'
    BY DEF IdleReleasesPlayback, HostUnique, ConnectingIsDriven, Active,
           Occupied
  <1>4. CallbacksAreTrue'
    BY DEF CallbacksAreTrue, IsCurrent
  <1>5. ConnectedHasStream'
    BY DEF ConnectedHasStream, IsCurrent, Occupied
  <1>6. ErrorIsQuiet'
    BY DEF ErrorIsQuiet, Occupied, IsCurrent
  <1> QED BY <1>1, <1>2, <1>3, <1>4, <1>5, <1>6

LEMMA WorkerKeeps ==
    ASSUME IInv, TypeOK', NEW slot \in Slot, Worker(slot)
    PROVE  IInv'
  <1>1. \A t \in Slot : device[t] # NoDevice =>
          /\ device[t].attempt \in Nat
          /\ t \in Occupied /\ t \in Active(sessions)
          /\ device[t].attempt = sessions[t].attempt
    BY DEF IInv, TypeOK, Device, Attempt, DeviceOwned, Active, Occupied
  <1>2. CASE FirstFrame(slot)
    <2> DEFINE c == [kind |-> "connected", slot |-> slot,
                     attempt |-> device[slot].attempt]
    <2>1. /\ callbacks' = callbacks \cup {c} /\ device[slot] # NoDevice
          /\ UNCHANGED <<sessions, nextAttempt, jobs, playback>>
      BY <1>2 DEF FirstFrame
    <2>2. c.kind = "connected" /\ c.slot = slot /\ c.attempt = sessions[slot].attempt
      BY <1>1, <2>1
    <2> HIDE DEF c
    <2>3. /\ device'[slot] # NoDevice /\ device'[slot].up
          /\ device'[slot].gain = device[slot].gain
          /\ device'[slot].attempt = device[slot].attempt
          /\ \A t \in Slot \ {slot} : device'[t] = device[t]
      <3>1. device[slot] \in Device
        BY <2>1 DEF IInv, TypeOK
      <3>2. device'[slot] = [device[slot] EXCEPT !.up = TRUE]
        BY <1>2 DEF FirstFrame, IInv, TypeOK
      <3>3. device'[slot] # NoDevice
        BY <3>1, <3>2, NoneAssumption DEF Device
      <3>4. \A t \in Slot \ {slot} : device'[t] = device[t]
        BY <1>2 DEF FirstFrame, IInv, TypeOK
      <3> QED BY <3>1, <3>2, <3>3, <3>4 DEF Device
    <2>4. AttemptsDrawn'
      BY <1>1, <2>1, <2>2 DEF IInv, AttemptsDrawn, Occupied
    <2>5. LiveJobsAreWanted' /\ JobsAreCurrent'
      BY <2>1 DEF IInv, LiveJobsAreWanted, JobsAreCurrent, Active, IsCurrent
    <2>6. DeviceOwned' /\ GainMatches' /\ PlaybackCoversDevices'
      BY <1>1, <2>1, <2>3 DEF IInv, DeviceOwned, GainMatches, Gain,
                              PlaybackCoversDevices, Active, Occupied
    <2>7. IdleReleasesPlayback' /\ HostUnique' /\ ConnectingIsDriven'
      BY <2>1 DEF IInv, IdleReleasesPlayback, HostUnique, ConnectingIsDriven,
                  Active, Occupied
    <2>8. CallbacksAreTrue'
      BY <2>1, <2>2, <2>3 DEF IInv, CallbacksAreTrue, IsCurrent, TypeOK, Callback
    <2>9. ConnectedHasStream'
      BY <2>1, <2>3 DEF IInv, ConnectedHasStream, Occupied
    <2>10. ErrorIsQuiet'
      BY <1>1, <2>1, <2>2, <2>3 DEF IInv, ErrorIsQuiet, Occupied, IsCurrent, Active
    <2> QED BY <2>4, <2>5, <2>6, <2>7, <2>8, <2>9, <2>10 DEF IInv
  <1>3. CASE StreamEnds(slot)
    <2> DEFINE c == [kind |-> "disconnected", slot |-> slot,
                     attempt |-> device[slot].attempt]
    <2>1. /\ callbacks' = callbacks \cup {c} /\ device[slot] # NoDevice
          /\ UNCHANGED <<sessions, nextAttempt, jobs, playback>>
      BY <1>3 DEF StreamEnds
    <2>2. c.kind = "disconnected" /\ c.slot = slot /\ c.attempt = sessions[slot].attempt
      BY <1>1, <2>1
    <2>3. c = [kind |-> "disconnected", slot |-> slot,
               attempt |-> sessions[slot].attempt]
      BY <1>1, <2>1
    <2> HIDE DEF c
    <2>4. /\ device'[slot] = NoDevice
          /\ \A t \in Slot \ {slot} : device'[t] = device[t]
      BY <1>3 DEF StreamEnds, IInv, TypeOK
    <2>5. AttemptsDrawn'
      BY <1>1, <2>1, <2>2 DEF IInv, AttemptsDrawn, Occupied
    <2>6. LiveJobsAreWanted' /\ JobsAreCurrent'
      BY <2>1 DEF IInv, LiveJobsAreWanted, JobsAreCurrent, Active, IsCurrent
    <2>7. DeviceOwned' /\ GainMatches' /\ PlaybackCoversDevices'
      BY <1>1, <2>1, <2>4 DEF IInv, DeviceOwned, GainMatches, Gain,
                              PlaybackCoversDevices, Active, Occupied
    <2>8. IdleReleasesPlayback' /\ HostUnique' /\ ConnectingIsDriven'
      BY <2>1 DEF IInv, IdleReleasesPlayback, HostUnique, ConnectingIsDriven,
                  Active, Occupied
    <2>9. CallbacksAreTrue'
      <3> SUFFICES ASSUME NEW d \in callbacks', d.kind = "connected",
                          IsCurrent(d.slot, d.attempt)'
                   PROVE  \/ device'[d.slot] # NoDevice /\ device'[d.slot].up
                          \/ [kind |-> "disconnected", slot |-> d.slot,
                              attempt |-> d.attempt] \in callbacks'
        BY DEF CallbacksAreTrue
      <3>1. d \in callbacks /\ d.slot \in Slot /\ IsCurrent(d.slot, d.attempt)
        BY <2>1, <2>2 DEF IsCurrent, IInv, TypeOK, Callback
      <3>2. CASE d.slot = slot
        BY <2>1, <2>3, <3>1, <3>2 DEF IsCurrent
      <3>3. CASE d.slot # slot
        BY <2>1, <2>4, <3>1, <3>3 DEF IInv, CallbacksAreTrue
      <3> QED BY <3>2, <3>3
    <2>10. ConnectedHasStream'
      BY <2>1, <2>3, <2>4 DEF IInv, ConnectedHasStream, Occupied
    <2>11. ErrorIsQuiet'
      BY <1>1, <2>1, <2>2, <2>4 DEF IInv, ErrorIsQuiet, Occupied, IsCurrent, Active
    <2> QED BY <2>5, <2>6, <2>7, <2>8, <2>9, <2>10, <2>11 DEF IInv
  <1>4. CASE Elapse(slot)
    <2>1. UNCHANGED <<nextAttempt, jobs, device, callbacks, playback>>
      BY <1>4 DEF Elapse
    <2>2. sessions[slot] \in Session /\ slot \in Occupied
      BY <1>4 DEF Elapse, Occupied, IInv, TypeOK
    <2>3. /\ sessions'[slot] # NoSession
          /\ sessions'[slot].host = sessions[slot].host
          /\ sessions'[slot].attempt = sessions[slot].attempt
          /\ sessions'[slot].state = sessions[slot].state
          /\ sessions'[slot].muted = sessions[slot].muted
          /\ sessions'[slot].volume = sessions[slot].volume
          /\ \A t \in Slot \ {slot} : sessions'[t] = sessions[t]
      <3>1. PICK age \in {"middle", "stable"} :
              sessions' = [sessions EXCEPT ![slot] =
                              [sessions[slot] EXCEPT !.connectedAt = age]]
        BY <1>4 DEF Elapse
      <3> DEFINE now == [sessions[slot] EXCEPT !.connectedAt = age]
      <3>2. now \in Session
        BY <2>2 DEF Session
      <3>3. /\ now.host = sessions[slot].host
            /\ now.attempt = sessions[slot].attempt
            /\ now.state = sessions[slot].state
            /\ now.muted = sessions[slot].muted
            /\ now.volume = sessions[slot].volume
        BY <2>2 DEF Session
      <3>4. sessions' = [sessions EXCEPT ![slot] = now]
        BY <3>1
      <3> HIDE DEF now
      <3> QED BY <3>2, <3>3, <3>4, NoneAssumption DEF IInv, TypeOK
    <2>4. \A t \in Slot :
            /\ sessions'[t] = NoSession <=> sessions[t] = NoSession
            /\ sessions[t] # NoSession =>
                 /\ sessions'[t].host = sessions[t].host
                 /\ sessions'[t].attempt = sessions[t].attempt
                 /\ sessions'[t].state = sessions[t].state
                 /\ Gain(sessions'[t]) = Gain(sessions[t])
      BY <2>2, <2>3 DEF Occupied, Gain
    <2>5. Occupied' = Occupied /\ Active(sessions') = Active(sessions)
      BY <2>4 DEF Occupied, Active
    <2>6. \A t \in Slot : \A a : IsCurrent(t, a)' <=> IsCurrent(t, a)
      BY <2>4 DEF IsCurrent
    <2>7. (\A k \in jobs : k.slot \in Slot) /\ \A c \in callbacks : c.slot \in Slot
      BY DEF IInv, TypeOK, Job, Callback
    <2>8. \A t \in Active(sessions) : t \in Slot /\ sessions[t] # NoSession
      BY DEF Active
    <2>9. AttemptsDrawn' /\ LiveJobsAreWanted' /\ JobsAreCurrent'
      BY <2>1, <2>4, <2>5, <2>6, <2>7, <2>8
         DEF IInv, AttemptsDrawn, LiveJobsAreWanted, JobsAreCurrent, Occupied
    <2>10. DeviceOwned' /\ GainMatches' /\ PlaybackCoversDevices'
      BY <2>1, <2>4, <2>5, <2>8
         DEF IInv, DeviceOwned, GainMatches, PlaybackCoversDevices, Occupied
    <2>11. IdleReleasesPlayback' /\ HostUnique' /\ ConnectingIsDriven'
      BY <2>1, <2>4, <2>5
         DEF IInv, IdleReleasesPlayback, HostUnique, ConnectingIsDriven, Occupied
    <2>12. CallbacksAreTrue' /\ ConnectedHasStream' /\ ErrorIsQuiet'
      BY <2>1, <2>4, <2>5, <2>6, <2>7
         DEF IInv, CallbacksAreTrue, ConnectedHasStream, ErrorIsQuiet, Occupied
    <2> QED BY <2>9, <2>10, <2>11, <2>12 DEF IInv
  <1> QED BY <1>2, <1>3, <1>4 DEF Worker

LEMMA DisconnectKeeps ==
    ASSUME IInv, TypeOK', NEW S \in SUBSET Slot, DisconnectSessions(S)
    PROVE  IInv'
  <1>1. /\ \A t \in S : sessions'[t] = NoSession /\ device'[t] = NoDevice
        /\ \A t \in Slot \ S : /\ sessions'[t] = sessions[t]
                              /\ device'[t] = device[t]
    BY DEF DisconnectSessions, Stopped
  <1>2. /\ \A j \in jobs' : j.slot \in S => j.cancelled
        /\ \A j \in jobs' : j.slot \notin S => j \in jobs
        /\ \A j \in jobs : j.slot \notin S => j \in jobs'
    <2>1. \A s \in S : \A j \in Cancelled(jobs, s) : j.slot = s => j.cancelled
      BY CancelledEffect DEF IInv, TypeOK
    <2> QED BY <2>1 DEF DisconnectSessions
  <1>3. UNCHANGED <<nextAttempt, callbacks>>
    BY DEF DisconnectSessions
  <1>4. Occupied' = Occupied \ S /\ Active(sessions') = Active(sessions) \ S
    BY <1>1 DEF Occupied, Active
  <1>5. (\A k \in jobs \cup jobs' : k.slot \in Slot) /\ \A c \in callbacks : c.slot \in Slot
    BY DEF IInv, TypeOK, Job, Callback
  <1>6. \A t \in Slot : \A a : IsCurrent(t, a)' <=> t \notin S /\ IsCurrent(t, a)
    BY <1>1 DEF IsCurrent
  <1>7. AttemptsDrawn'
    BY <1>1, <1>3, <1>4 DEF IInv, AttemptsDrawn, Occupied
  <1>8. LiveJobsAreWanted' /\ JobsAreCurrent'
    BY <1>1, <1>2, <1>4, <1>5, <1>6 DEF IInv, LiveJobsAreWanted, JobsAreCurrent
  <1>9. DeviceOwned' /\ GainMatches'
    BY <1>1, <1>4 DEF IInv, DeviceOwned, GainMatches, Gain
  <1>10. PlaybackCoversDevices' /\ IdleReleasesPlayback'
    <2>1. playback' = StopPlaybackIfIdle(sessions', playback)
      BY DEF DisconnectSessions
    <2> QED BY <1>1, <1>9, <2>1
            DEF IInv, PlaybackCoversDevices, IdleReleasesPlayback,
                StopPlaybackIfIdle, DeviceOwned
  <1>11. HostUnique' /\ ConnectingIsDriven'
    BY <1>1, <1>2, <1>4, <1>5 DEF IInv, HostUnique, ConnectingIsDriven, Occupied
  <1>12. CallbacksAreTrue' /\ ConnectedHasStream' /\ ErrorIsQuiet'
    BY <1>1, <1>2, <1>3, <1>4, <1>5, <1>6
       DEF IInv, CallbacksAreTrue, ConnectedHasStream, ErrorIsQuiet, Occupied
  <1> QED BY <1>7, <1>8, <1>9, <1>10, <1>11, <1>12 DEF IInv

\* prepare() has returned, playback is on and the worker is started.
LEMMA WorkerStartedKeeps ==
    ASSUME IInv, TypeOK', NEW j \in jobs, ~j.cancelled,
           NEW sess \in Session,
           sess.host = sessions[j.slot].host,
           sess.attempt = sessions[j.slot].attempt,
           sess.state = sessions[j.slot].state,
           Gain(sess) = Gain(sessions[j.slot]),
           device[j.slot] = NoDevice,
           sessions' = [sessions EXCEPT ![j.slot] = sess],
           playback' = FullPlayback,
           device' = [device EXCEPT ![j.slot] =
                        [attempt |-> j.attempt, gain |-> Gain(sess),
                         up |-> FALSE]],
           jobs' = (jobs \ {j}) \cup {[j EXCEPT !.phase = "watch"]},
           UNCHANGED <<nextAttempt, callbacks>>
    PROVE  IInv'
  <1> DEFINE slot == j.slot
             new  == [attempt |-> j.attempt, gain |-> Gain(sess), up |-> FALSE]
             k    == [j EXCEPT !.phase = "watch"]
  <1>1. slot \in Active(sessions) /\ j.attempt = sessions[slot].attempt
    BY DEF IInv, LiveJobsAreWanted
  <1>2. slot \in Slot /\ slot \in Occupied
    BY <1>1 DEF Active, Occupied
  <1>3. /\ sessions'[slot] = sess /\ sess # NoSession
        /\ \A t \in Slot \ {slot} : /\ sessions'[t] = sessions[t]
                                   /\ device'[t] = device[t]
        /\ device'[slot] = new
    BY <1>2, NoneAssumption DEF IInv, TypeOK
  <1>4. new.attempt = j.attempt /\ new.gain = Gain(sess)
    OBVIOUS
  <1>5. k.slot = slot /\ k.attempt = j.attempt /\ k.cancelled = j.cancelled
    BY DEF IInv, TypeOK, Job
  <1>6. jobs' = (jobs \ {j}) \cup {k}
    OBVIOUS
  <1> HIDE DEF new, k
  <1>7. \A t \in Slot :
          /\ sessions'[t] = NoSession <=> sessions[t] = NoSession
          /\ sessions[t] # NoSession =>
               /\ sessions'[t].host = sessions[t].host
               /\ sessions'[t].attempt = sessions[t].attempt
               /\ sessions'[t].state = sessions[t].state
               /\ Gain(sessions'[t]) = Gain(sessions[t])
    BY <1>2, <1>3 DEF Occupied
  <1>8. Occupied' = Occupied /\ Active(sessions') = Active(sessions)
    BY <1>7 DEF Occupied, Active
  <1>9. \A t \in Slot : \A a : IsCurrent(t, a)' <=> IsCurrent(t, a)
    BY <1>7 DEF IsCurrent
  <1>10. (\A i \in jobs : i.slot \in Slot) /\ \A c \in callbacks : c.slot \in Slot
    BY DEF IInv, TypeOK, Job, Callback
  <1>11. \A t \in Active(sessions) : t \in Slot /\ sessions[t] # NoSession
    BY DEF Active
  <1>12. AttemptsDrawn'
    BY <1>7, <1>8 DEF IInv, AttemptsDrawn, Occupied
  <1>13. LiveJobsAreWanted'
    BY <1>5, <1>6, <1>7, <1>8, <1>11 DEF IInv, LiveJobsAreWanted
  <1>14. JobsAreCurrent'
    BY <1>5, <1>6, <1>9, <1>10 DEF IInv, JobsAreCurrent
  <1>15. DeviceOwned' /\ GainMatches' /\ PlaybackCoversDevices'
    BY <1>1, <1>2, <1>3, <1>4, <1>7, <1>8
       DEF IInv, DeviceOwned, GainMatches, PlaybackCoversDevices, Occupied
  <1>16. IdleReleasesPlayback' /\ HostUnique'
    BY <1>1, <1>7, <1>8 DEF IInv, IdleReleasesPlayback, HostUnique, Occupied
  <1>17. ConnectingIsDriven'
    BY <1>5, <1>6, <1>7, <1>8 DEF IInv, ConnectingIsDriven, Occupied
  <1>18. CallbacksAreTrue' /\ ConnectedHasStream'
    BY <1>3, <1>7, <1>8, <1>9, <1>10
       DEF IInv, CallbacksAreTrue, ConnectedHasStream, Occupied
  <1>19. ErrorIsQuiet'
    <2>1. sessions[slot].state # "ERROR"
      BY <1>1 DEF Active
    <2> QED BY <1>2, <1>3, <1>5, <1>6, <1>7, <1>8, <1>9, <2>1
            DEF IInv, ErrorIsQuiet, Occupied
  <1> QED BY <1>12, <1>13, <1>14, <1>15, <1>16, <1>17, <1>18, <1>19 DEF IInv

-----------------------------------------------------------------------------
(* The inductive invariant *)

LEMMA UserKeeps == ASSUME IInv, TypeOK', User PROVE IInv'
  <1>1. ASSUME NEW slot \in Slot, Reconnect(slot)
        PROVE  IInv'
    <2> DEFINE sess == [sessions[slot] EXCEPT !.retries = 0,
                                              !.relearned = FALSE]
    <2>1. sessions[slot] \in Session /\ 0 \in 0 .. MaxRetries
      BY <1>1, RetryAssumption DEF Reconnect, Occupied, IInv, TypeOK
    <2>2. sess \in Session /\ sess.host = sessions[slot].host
      BY <2>1 DEF Session
    <2>3. /\ StartAttempt(slot, sess, nextAttempt + 1, "info", jobs)
          /\ UNCHANGED <<callbacks, playback>>
      BY <1>1 DEF Reconnect
    <2>4. \A t \in Occupied \ {slot} : sessions[t].host # sessions[slot].host
      BY <1>1 DEF IInv, HostUnique, Reconnect
    <2>5. nextAttempt + 1 \in Nat /\ nextAttempt < nextAttempt + 1
      BY DEF IInv, TypeOK
    <2>6. OthersOf(slot, jobs)
      BY DEF OthersOf
    <2> HIDE DEF sess
    <2> QED BY <2>2, <2>3, <2>4, <2>5, <2>6, StartAttemptKeeps
  <1>2. ASSUME NEW host \in Host, Connect(host)
        PROVE  IInv'
    <2>1. PICK slot \in Slot \ Occupied :
            StartAttempt(slot, NewSession(host), nextAttempt + 1, "info", jobs)
      BY <1>2 DEF Connect
    <2>2. /\ UNCHANGED <<callbacks, playback>>
          /\ \A t \in Occupied : sessions[t].host # host
      BY <1>2 DEF Connect
    <2>3. NewSession(host) \in Session /\ NewSession(host).host = host
      BY NewSessionType DEF NewSession
    <2>4. nextAttempt + 1 \in Nat /\ nextAttempt < nextAttempt + 1
      BY DEF IInv, TypeOK
    <2>5. OthersOf(slot, jobs)
      BY DEF OthersOf
    <2> QED BY <2>1, <2>2, <2>3, <2>4, <2>5, StartAttemptKeeps
  <1>3. ASSUME NEW S \in SUBSET Slot, DisconnectSessions(S)
        PROVE  IInv'
    BY <1>3, DisconnectKeeps
  <1>4. ASSUME NEW slot \in Slot, NEW muted \in MuteRequests,
               SetMuted(slot, muted)
        PROVE  IInv'
    <2> DEFINE sess == [sessions[slot] EXCEPT !.muted = muted]
    <2>1. sessions[slot] \in Session /\ slot \in Occupied
      BY <1>4 DEF SetMuted, Occupied, IInv, TypeOK
    <2>2. /\ sess \in Session /\ sess.host = sessions[slot].host
          /\ sess.attempt = sessions[slot].attempt
          /\ sess.state = sessions[slot].state
      BY <2>1, VolumeAssumption DEF Session
    <2>3. /\ ApplyGain(slot, sess)
          /\ UNCHANGED <<nextAttempt, jobs, callbacks, playback>>
      BY <1>4 DEF SetMuted
    <2> HIDE DEF sess
    <2> QED BY <2>1, <2>2, <2>3, ApplyGainKeeps
  <1>5. ASSUME NEW slot \in Slot, NEW volume \in VolumeRequests,
               SetVolume(slot, volume)
        PROVE  IInv'
    <2> DEFINE sess == [sessions[slot] EXCEPT !.volume = CoerceIn(volume)]
    <2>1. sessions[slot] \in Session /\ slot \in Occupied
      BY <1>5 DEF SetVolume, Occupied, IInv, TypeOK
    <2>2. CoerceIn(volume) \in Volume
      BY <1>5, VolumeAssumption DEF SetVolume, CoerceIn, Volume
    <2>3. /\ sess \in Session /\ sess.host = sessions[slot].host
          /\ sess.attempt = sessions[slot].attempt
          /\ sess.state = sessions[slot].state
      BY <2>1, <2>2 DEF Session
    <2>4. /\ ApplyGain(slot, sess)
          /\ UNCHANGED <<nextAttempt, jobs, callbacks, playback>>
      BY <1>5 DEF SetVolume
    <2> HIDE DEF sess
    <2> QED BY <2>1, <2>3, <2>4, ApplyGainKeeps
  <1> QED BY <1>1, <1>2, <1>3, <1>4, <1>5
          DEF User, Disconnect, DisconnectHost, StopAll, Occupied

LEMMA JobKeeps ==
    ASSUME IInv, TypeOK', NEW j \in jobs, JobStep(j) PROVE IInv'
  <1>1. j \in Job
    BY DEF IInv, TypeOK
  <1>2. ~j.cancelled =>
          /\ IsCurrent(j.slot, j.attempt) /\ j.slot \in Occupied
          /\ sessions[j.slot] \in Session
    BY DEF IInv, LiveJobsAreWanted, Active, IsCurrent, Occupied, TypeOK
  <1>3. IsCurrent(j.slot, j.attempt) =>
          j.slot \in Occupied /\ sessions[j.slot] \in Session
    BY <1>1 DEF IsCurrent, Occupied, IInv, TypeOK, Job
  <1>4. OthersOf(j.slot, jobs \ {j})
    BY DEF OthersOf
  <1>5. UNCHANGED callbacks => TakesCallbacksOf(j.slot)
    BY DEF TakesCallbacksOf
  <1>6. ASSUME NEW k, k \in Job, k.slot = j.slot, k.attempt = j.attempt,
               k.cancelled = j.cancelled, jobs' = (jobs \ {j}) \cup {k},
               UNCHANGED <<sessions, nextAttempt, device, callbacks, playback>>
        PROVE  IInv'
    BY <1>6, JobMovesKeeps
  <1>7. ASSUME IsCurrent(j.slot, j.attempt), UNCHANGED callbacks,
               NEW sess \in Session, sess.host = sessions[j.slot].host,
               NEW held,
               \A t \in Slot : device[t] # NoDevice => held = FullPlayback,
               Failed(j.slot, sess, jobs \ {j}, held)
        PROVE  IInv'
    BY <1>3, <1>4, <1>5, <1>7, FailedKeeps
  <1>8. \A t \in Slot : device[t] # NoDevice => playback = FullPlayback
    BY DEF IInv, PlaybackCoversDevices
  <1>9. CASE WaitOver(j)
    <2>1. /\ [j EXCEPT !.phase = "info"] \in Job
          /\ [j EXCEPT !.phase = "info"].slot = j.slot
          /\ [j EXCEPT !.phase = "info"].attempt = j.attempt
          /\ [j EXCEPT !.phase = "info"].cancelled = j.cancelled
      BY <1>1 DEF Job
    <2> QED BY <1>6, <1>9, <2>1 DEF WaitOver
  <1>10. CASE ServerInfo(j)
    <2>1. CASE j.cancelled
      <3>1. JobReturns(j)
        BY <1>10, <2>1 DEF ServerInfo, JobReturns
      <3> QED BY <2>1, <3>1, JobReturnsKeeps
    <2>2. CASE ~j.cancelled
      <3> DEFINE b == UseAudioOnly(sessions[j.slot].host)
                 k == [j EXCEPT !.phase = "launch", !.audioOnly = b]
      <3>1. b \in BOOLEAN
        BY DEF UseAudioOnly, AudioOnly
      <3>2. jobs' = (jobs \ {j}) \cup {k}
        BY <1>10, <2>2 DEF ServerInfo
      <3> HIDE DEF b
      <3>3. /\ k \in Job /\ k.slot = j.slot /\ k.attempt = j.attempt
            /\ k.cancelled = j.cancelled
        BY <1>1, <3>1 DEF Job
      <3> HIDE DEF k
      <3> QED BY <1>6, <1>10, <3>2, <3>3 DEF ServerInfo
    <2> QED BY <2>1, <2>2
  <1>11. CASE PrepareReturns(j)
    <2>1. CASE /\ j.cancelled \/ ~IsCurrent(j.slot, j.attempt)
               /\ JobReturns(j)
      BY <2>1, JobReturnsKeeps
    <2> DEFINE sess == [sessions[j.slot] EXCEPT !.params =
                          IF j.audioOnly THEN "audioOnly" ELSE "dummyVideo"]
    <2>2. CASE ~j.cancelled /\ StartWorker(j, sess)
      <3>1. /\ sess \in Session /\ sess.host = sessions[j.slot].host
            /\ sess.attempt = sessions[j.slot].attempt
            /\ sess.state = sessions[j.slot].state
            /\ Gain(sess) = Gain(sessions[j.slot])
        BY <1>2, <2>2 DEF Session, Gain
      <3>2. IsCurrent(j.slot, j.attempt)
        BY <1>2, <2>2
      <3>3. StartWorker(j, sess)
        BY <2>2
      <3> HIDE DEF sess
      <3>4. ASSUME NEW held \in StartPlaybackThrows,
                   Failed(j.slot, sess, jobs \ {j}, held),
                   UNCHANGED callbacks
            PROVE  IInv'
        <4>1. \A t \in Slot : device[t] # NoDevice => held = FullPlayback
          BY <1>8 DEF StartPlaybackThrows, FullPlayback
        <4> QED BY <1>7, <3>1, <3>2, <3>4, <4>1
      <3>5. CASE Failed(j.slot, sess, jobs \ {j}, FullPlayback) /\ UNCHANGED callbacks
        BY <1>7, <3>1, <3>2, <3>5
      <3>6. CASE /\ device[j.slot] = NoDevice
                 /\ sessions' = [sessions EXCEPT ![j.slot] = sess]
                 /\ playback' = FullPlayback
                 /\ device' = [device EXCEPT ![j.slot] =
                                  [attempt |-> j.attempt, gain |-> Gain(sess),
                                   up |-> FALSE]]
                 /\ jobs' = (jobs \ {j}) \cup {[j EXCEPT !.phase = "watch"]}
                 /\ UNCHANGED <<nextAttempt, callbacks>>
        BY <2>2, <3>1, <3>6, WorkerStartedKeeps
      <3> QED BY <3>3, <3>4, <3>5, <3>6 DEF StartWorker
    <2> QED BY <1>11, <2>1, <2>2 DEF PrepareReturns
  <1>12. CASE PrepareFails(j)
    BY <1>3, <1>7, <1>8, <1>12, JobReturnsKeeps DEF PrepareFails
  <1>13. CASE LaunchRejected(j)
    <2> DEFINE sess == [sessions[j.slot] EXCEPT !.relearned = TRUE]
    <2>1. CASE /\ StartAttempt(j.slot, sess, nextAttempt + 1, "info", jobs \ {j})
               /\ UNCHANGED <<callbacks, playback>>
      <3>1. sessions[j.slot] \in Session /\ j.slot \in Occupied
        BY <1>3, <1>13 DEF LaunchRejected
      <3>2. sess \in Session /\ sess.host = sessions[j.slot].host
        BY <3>1 DEF Session
      <3>3. nextAttempt + 1 \in Nat /\ nextAttempt < nextAttempt + 1
        BY DEF IInv, TypeOK
      <3>4. \A t \in Occupied \ {j.slot} : sessions[t].host # sess.host
        BY <3>1, <3>2 DEF IInv, HostUnique
      <3>5. j.slot \in Slot
        BY <1>1 DEF Job
      <3>6. StartAttempt(j.slot, sess, nextAttempt + 1, "info", jobs \ {j})
        BY <2>1
      <3> HIDE DEF sess
      <3> QED BY <1>4, <2>1, <3>2, <3>3, <3>4, <3>5, <3>6, StartAttemptKeeps
    <2>2. CASE /\ Failed(j.slot, sessions[j.slot], jobs \ {j}, playback)
               /\ UNCHANGED callbacks
      BY <1>3, <1>7, <1>8, <1>13, <2>2 DEF LaunchRejected
    <2> QED BY <1>13, <2>1, <2>2 DEF LaunchRejected
  <1>14. CASE WatchOver(j)
    BY <1>3, <1>7, <1>8, <1>14, JobReturnsKeeps DEF WatchOver
  <1> QED BY <1>9, <1>10, <1>11, <1>12, <1>13, <1>14 DEF JobStep

LEMMA CallbackKeeps ==
    ASSUME IInv, TypeOK', NEW c \in callbacks, CallbackStep(c) PROVE IInv'
  <1>1. IsCurrent(c.slot, c.attempt) =>
          /\ c.slot \in Occupied /\ sessions[c.slot] \in Session
          /\ c.attempt = sessions[c.slot].attempt
    BY DEF IsCurrent, Occupied, IInv, TypeOK, Callback
  <1>2. CASE WorkerConnected(c)
    <2>1. CASE Ignored(c)
      BY <1>2, <2>1, IgnoredKeeps DEF WorkerConnected
    <2> DEFINE sess == [sessions[c.slot] EXCEPT !.connectedAt = "early",
                                                !.state = "CONNECTED"]
    <2>2. CASE /\ IsCurrent(c.slot, c.attempt)
               /\ sessions[c.slot].state = "CONNECTING"
               /\ ApplyGain(c.slot, sess)
               /\ callbacks' = callbacks \ {c}
               /\ UNCHANGED <<nextAttempt, jobs, playback>>
      <3>1. /\ sess \in Session /\ sess.host = sessions[c.slot].host
            /\ sess.attempt = sessions[c.slot].attempt
            /\ sess.state = "CONNECTED"
        BY <1>1, <2>2 DEF Session
      <3>2. /\ ApplyGain(c.slot, sess) /\ c.slot \in Occupied
            /\ c.attempt = sess.attempt
        BY <1>1, <2>2, <3>1
      <3> HIDE DEF sess
      <3>3. c.kind = "connected"
        BY <1>2 DEF WorkerConnected
      <3>4. \/ device[c.slot] # NoDevice /\ device[c.slot].up
            \/ [kind |-> "disconnected", slot |-> c.slot,
                attempt |-> sess.attempt] \in callbacks
        BY <2>2, <3>2, <3>3 DEF IInv, CallbacksAreTrue
      <3> QED BY <2>2, <3>1, <3>2, <3>3, <3>4, ApplyGainKeeps
    <2> QED BY <1>2, <2>1, <2>2 DEF WorkerConnected
  <1>3. CASE WorkerDisconnected(c)
    <2>1. CASE ~IsCurrent(c.slot, c.attempt) /\ Ignored(c)
      BY <2>1, IgnoredKeeps
    <2> DEFINE sess == AfterDisconnect(sessions[c.slot])
    <2>2. CASE /\ IsCurrent(c.slot, c.attempt)
               /\ Failed(c.slot, sess, jobs, playback)
               /\ callbacks' = callbacks \ {c}
      <3>1. sess \in Session /\ sess.host = sessions[c.slot].host
        BY <1>1, <2>2, RetryAssumption DEF AfterDisconnect, Session
      <3>2. c.slot \in Occupied /\ Failed(c.slot, sess, jobs, playback)
        BY <1>1, <2>2
      <3> HIDE DEF sess
      <3>3. OthersOf(c.slot, jobs) /\ TakesCallbacksOf(c.slot)
        BY <2>2 DEF OthersOf, TakesCallbacksOf
      <3>4. \A t \in Slot : device[t] # NoDevice => playback = FullPlayback
        BY DEF IInv, PlaybackCoversDevices
      <3> QED BY <3>1, <3>2, <3>3, <3>4, FailedKeeps
    <2> QED BY <1>3, <2>1, <2>2 DEF WorkerDisconnected
  <1> QED BY <1>2, <1>3 DEF CallbackStep

LEMMA InitInvariant == Init => IInv
  <1> SUFFICES ASSUME Init PROVE IInv
    OBVIOUS
  <1>1. Occupied = {} /\ Active(sessions) = {}
    BY DEF Init, Occupied, Active
  <1>2. jobs = {} /\ callbacks = {} /\ \A s \in Slot : device[s] = NoDevice
    BY DEF Init
  <1>3. TypeOK
    BY InitType
  <1>4. playback = NoPlayback
    BY DEF Init
  <1> QED BY <1>1, <1>2, <1>3, <1>4
          DEF IInv, AttemptsDrawn, LiveJobsAreWanted, JobsAreCurrent,
              DeviceOwned, GainMatches, PlaybackCoversDevices,
              IdleReleasesPlayback, HostUnique, ConnectingIsDriven,
              CallbacksAreTrue, ConnectedHasStream, ErrorIsQuiet

LEMMA NextInvariant == IInv /\ [Next]_vars => IInv'
  <1> SUFFICES ASSUME IInv, [Next]_vars PROVE IInv'
    OBVIOUS
  <1>1. TypeOK'
    BY NextType DEF IInv
  <1>2. CASE UNCHANGED vars
    BY <1>2 DEF vars, IInv, TypeOK, AttemptsDrawn, LiveJobsAreWanted,
                JobsAreCurrent, DeviceOwned, GainMatches,
                PlaybackCoversDevices, IdleReleasesPlayback, HostUnique,
                ConnectingIsDriven, CallbacksAreTrue, ConnectedHasStream,
                ErrorIsQuiet, Occupied, Active, IsCurrent, Gain
  <1> QED BY <1>1, <1>2, UserKeeps, JobKeeps, CallbackKeeps, WorkerKeeps
          DEF Next

LEMMA Invariance == Spec => []IInv
  BY InitInvariant, NextInvariant, PTL DEF Spec

-----------------------------------------------------------------------------
(* The theorems *)

\* Whatever late prepare(), posted callback, retry or disconnect comes in
\* between (MultiController.kt:80-92, 116-166), a running worker belongs to the
\* current attempt of a session that is connecting or connected.
THEOREM NoOrphanWorker == Spec => []DeviceOwned
  <1>1. IInv => DeviceOwned
    BY DEF IInv
  <1> QED BY <1>1, Invariance, PTL

\* A worker plays at the gain its session shows, however setMuted() and
\* setVolume() fall between prepare(), startDevice() and workerConnected().
THEOREM GainIsShown == Spec => []GainMatches
  <1>1. IInv => GainMatches
    BY DEF IInv
  <1> QED BY <1>1, Invariance, PTL

\* stopPlaybackIfIdle() never takes the shared playback away from a worker
\* that still plays, of whatever session.
THEOREM PlaybackOutlivesWorkers == Spec => []PlaybackCoversDevices
  <1>1. IInv => PlaybackCoversDevices
    BY DEF IInv
  <1> QED BY <1>1, Invariance, PTL

\* With no session connecting or connected, neither the foreground service
\* nor the AudioTrack nor the wake locks are held, also after a startPlayback()
\* that failed half way.
THEOREM IdleHoldsNothing == Spec => []IdleReleasesPlayback
  <1>1. IInv => IdleReleasesPlayback
    BY DEF IInv
  <1> QED BY <1>1, Invariance, PTL

\* Sessions that come, go, fail half-way or give up neither take the shared
\* playback from one another nor leave it behind.
THEOREM PlaybackIsMatched == Spec => []PlaybackMatchesSessions
  <1>1. IInv => PlaybackMatchesSessions
    BY DEF IInv, PlaybackMatchesSessions
  <1> QED BY <1>1, Invariance, PTL

\* connect() never gives one host two sessions.
THEOREM OneSessionPerHost == Spec => []HostUnique
  <1>1. IInv => HostUnique
    BY DEF IInv
  <1> QED BY <1>1, Invariance, PTL

\* A session shown as connecting always has a live job working for its
\* current attempt: no callback, retry or cancellation leaves it behind.
THEOREM ConnectingHasJob == Spec => []ConnectingIsDriven
  <1>1. IInv => ConnectingIsDriven
    BY DEF IInv
  <1> QED BY <1>1, Invariance, PTL

\* A slot has at most one job that is not cancelled, and that job works for
\* the session's current attempt.
THEOREM LiveJobIsCurrent == Spec => []JobsAreCurrent
  <1>1. IInv => JobsAreCurrent
    BY DEF IInv
  <1> QED BY <1>1, Invariance, PTL

\* A connecting session is driven by exactly one live job, for its attempt.
THEOREM OneJobDrives == Spec => []DrivenByOneJob
  <1>1. IInv => DrivenByOneJob
    BY DEF IInv, DrivenByOneJob
  <1> QED BY <1>1, Invariance, PTL

\* A session shown as connected has a worker that delivers PCM, or the end of
\* its stream has been posted and will be acted upon.
THEOREM ConnectedHasWorker == Spec => []ConnectedHasStream
  <1>1. IInv => ConnectedHasStream
    BY DEF IInv
  <1> QED BY <1>1, Invariance, PTL

\* Nothing that is left of a session that has given up, neither job, worker
\* nor callback, can bring it back.
THEOREM ErrorStaysQuiet == Spec => []ErrorIsQuiet
  <1>1. IInv => ErrorIsQuiet
    BY DEF IInv
  <1> QED BY <1>1, Invariance, PTL

=============================================================================
