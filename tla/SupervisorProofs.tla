--------------------------- MODULE SupervisorProofs ---------------------------
(***************************************************************************)
(* Proofs that MultiController keeps the promise of SessionSupervisor, for *)
(* any number of slots, hosts, retries and attempts, and that the fallback *)
(* to dummy video takes effect.  Both rest on one more fact about the jobs *)
(* than the invariants do: a job that has not started its worker yet       *)
(* drives a session that is still connecting (EarlyJobsAreAlone), so that  *)
(* a connected session fails through the end of its stream only.           *)
(***************************************************************************)
EXTENDS MultiControllerProofs

-----------------------------------------------------------------------------
(* What startAttempt() and failed() do to the session they are given *)

\* The rest of what they leave behind, besides Restarts.
Resets(slot) ==
    /\ sessions'[slot].state = "CONNECTING" =>
          /\ sessions'[slot].connectedAt = "none"
          /\ sessions'[slot].params = "none"
    /\ \A k \in jobs' : k.slot = slot /\ k.cancelled => k.attempt <= nextAttempt

\* A retry is spent, or none was left.
Spends(slot, sess) ==
    /\ sessions'[slot].host = sess.host
    /\ sessions'[slot].relearned = sess.relearned
    /\ \/ /\ sessions'[slot].state = "CONNECTING"
          /\ sess.retries < MaxRetries
          /\ sessions'[slot].retries = sess.retries + 1
       \/ /\ sessions'[slot].state = "ERROR"
          /\ sess.retries = MaxRetries
          /\ sessions'[slot].retries = sess.retries

LEMMA CancelledOrigin ==
    ASSUME NEW js \in SUBSET Job, NEW slot \in Slot
    PROVE  \A k \in Cancelled(js, slot) :
             \E i \in js : i.slot = k.slot /\ i.attempt = k.attempt
  BY DEF Cancelled, Job

LEMMA CancelledAreOld ==
    ASSUME TypeOK, EarlyJobsAreAlone, NEW slot \in Slot,
           NEW others, OthersOf(slot, others)
    PROVE  \A k \in Cancelled(others, slot) : k.attempt <= nextAttempt
  <1>1. others \in SUBSET Job
    BY DEF OthersOf, TypeOK
  <1> QED BY <1>1, CancelledOrigin DEF OthersOf, EarlyJobsAreAlone

LEMMA StartAttemptResets ==
    ASSUME TypeOK, EarlyJobsAreAlone, NEW slot \in Slot, NEW sess \in Session,
           NEW n \in Nat, NEW phase \in {"wait", "info"},
           NEW others, OthersOf(slot, others),
           StartAttempt(slot, sess, n, phase, others)
    PROVE  /\ Resets(slot)
           /\ sessions'[slot].retries = sess.retries
           /\ sessions'[slot].relearned = sess.relearned
  <1> DEFINE new == [slot |-> slot, attempt |-> n, phase |-> phase,
                     audioOnly |-> FALSE, cancelled |-> FALSE]
             now == [sess EXCEPT !.attempt = n, !.connectedAt = "none",
                                 !.params = "none", !.state = "CONNECTING"]
  <1>1. /\ now.connectedAt = "none" /\ now.params = "none"
        /\ now.retries = sess.retries /\ now.relearned = sess.relearned
    BY DEF Session
  <1>2. sessions' = [sessions EXCEPT ![slot] = now]
    BY DEF StartAttempt
  <1>3. jobs' = Cancelled(others, slot) \cup {new} /\ ~new.cancelled
    BY DEF StartAttempt
  <1> HIDE DEF new, now
  <1>4. sessions'[slot] = now
    BY <1>2 DEF TypeOK
  <1>5. \A k \in jobs' : k.slot = slot /\ k.cancelled => k.attempt <= nextAttempt
    BY <1>3, CancelledAreOld
  <1> QED BY <1>1, <1>4, <1>5 DEF Resets

LEMMA FailedResets ==
    ASSUME TypeOK, EarlyJobsAreAlone, NEW slot \in Slot, NEW sess \in Session,
           NEW others, OthersOf(slot, others), NEW held,
           Failed(slot, sess, others, held)
    PROVE  Resets(slot) /\ Spends(slot, sess)
  <1>1. CASE /\ StartAttempt(slot, [sess EXCEPT !.retries = @ + 1],
                             Invalidating + 1, "wait", others)
             /\ sess.retries < MaxRetries
    <2> DEFINE more == [sess EXCEPT !.retries = @ + 1]
    <2>1. /\ more \in Session /\ more.host = sess.host
          /\ more.retries = sess.retries + 1
          /\ more.relearned = sess.relearned
      BY <1>1, RetryAssumption DEF Session
    <2>2. Invalidating + 1 \in Nat /\ nextAttempt < Invalidating + 1
      BY DEF Invalidating, TypeOK
    <2>3. StartAttempt(slot, more, Invalidating + 1, "wait", others)
      BY <1>1
    <2> HIDE DEF more
    <2>4. /\ sessions'[slot].host = sess.host
          /\ sessions'[slot].state = "CONNECTING"
      BY <2>1, <2>2, <2>3, StartAttemptRestarts
    <2>5. /\ Resets(slot) /\ sessions'[slot].retries = sess.retries + 1
          /\ sessions'[slot].relearned = sess.relearned
      BY <2>1, <2>2, <2>3, StartAttemptResets
    <2> QED BY <1>1, <2>4, <2>5 DEF Spends
  <1>2. CASE /\ sess.retries >= MaxRetries
             /\ sessions' = [sessions EXCEPT ![slot] =
                                [sess EXCEPT !.attempt = Invalidating,
                                             !.state = "ERROR"]]
             /\ jobs' = Cancelled(others, slot)
    <2> DEFINE now == [sess EXCEPT !.attempt = Invalidating,
                                   !.state = "ERROR"]
    <2>1. /\ now.state = "ERROR" /\ now.host = sess.host
          /\ now.retries = sess.retries /\ now.relearned = sess.relearned
      BY DEF Session
    <2>2. sessions' = [sessions EXCEPT ![slot] = now]
      BY <1>2
    <2> HIDE DEF now
    <2>3. sessions'[slot] = now
      BY <2>2 DEF TypeOK
    <2>4. \A k \in jobs' : k.attempt <= nextAttempt
      BY <1>2, CancelledAreOld
    <2>5. sess.retries = MaxRetries
      BY <1>2, RetryAssumption DEF Session
    <2> QED BY <2>1, <2>3, <2>4, <2>5 DEF Resets, Spends
  <1> QED BY <1>1, <1>2 DEF Failed

-----------------------------------------------------------------------------
(* Early jobs *)

LEMMA RestartKeepsEarly ==
    ASSUME IInv, TypeOK', EarlyJobsAreAlone, NEW slot \in Slot,
           Restarts(slot), Resets(slot), TakesCallbacksOf(slot)
    PROVE  EarlyJobsAreAlone'
  <1>1. /\ sessions'[slot] # NoSession
        /\ nextAttempt < sessions'[slot].attempt
        /\ sessions'[slot].attempt <= nextAttempt'
        /\ device'[slot] = NoDevice
        /\ \A t \in Slot \ {slot} : /\ sessions'[t] = sessions[t]
                                   /\ device'[t] = device[t]
    BY DEF Restarts
  <1>2. sessions'[slot].attempt \in Nat /\ nextAttempt \in Nat /\ nextAttempt' \in Nat
    BY <1>1 DEF IInv, TypeOK, Session, Attempt
  <1>3. /\ \A k \in jobs \cup jobs' : k.slot \in Slot /\ k.attempt \in Nat
        /\ \A c \in callbacks : c.attempt \in Nat /\ c.attempt <= nextAttempt
    BY DEF IInv, TypeOK, Job, Callback, Attempt, AttemptsDrawn
  <1>4. ASSUME NEW k \in jobs', k.slot = slot
        PROVE  /\ k.attempt <= nextAttempt'
               /\ k.cancelled => ~IsCurrent(k.slot, k.attempt)'
               /\ k.phase # "watch" /\ IsCurrent(k.slot, k.attempt)' =>
                     /\ sessions'[k.slot].state = "CONNECTING"
                     /\ sessions'[k.slot].params = "none"
                     /\ device'[k.slot] = NoDevice
                     /\ \A c \in callbacks' :
                           c.slot = k.slot => c.attempt # k.attempt
    <2>1. CASE k.cancelled
      <3>1. k.attempt <= nextAttempt
        BY <1>4, <2>1 DEF Resets
      <3> QED BY <1>1, <1>2, <1>3, <1>4, <3>1 DEF IsCurrent
    <2>2. CASE ~k.cancelled
      <3>1. /\ sessions'[slot].state = "CONNECTING"
            /\ k.attempt = sessions'[slot].attempt
        BY <1>4, <2>2 DEF Restarts
      <3>2. \A c \in callbacks' : c.attempt # k.attempt
        BY <1>1, <1>2, <1>3, <3>1 DEF TakesCallbacksOf
      <3> QED BY <1>1, <1>4, <2>2, <3>1, <3>2 DEF Resets
    <2> QED BY <2>1, <2>2
  <1>5. ASSUME NEW k \in jobs', k.slot # slot
        PROVE  /\ k.attempt <= nextAttempt'
               /\ k.cancelled => ~IsCurrent(k.slot, k.attempt)'
               /\ k.phase # "watch" /\ IsCurrent(k.slot, k.attempt)' =>
                     /\ sessions'[k.slot].state = "CONNECTING"
                     /\ sessions'[k.slot].params = "none"
                     /\ device'[k.slot] = NoDevice
                     /\ \A c \in callbacks' :
                           c.slot = k.slot => c.attempt # k.attempt
    <2>1. k \in jobs /\ k.slot \in Slot
      BY <1>3, <1>5 DEF Restarts
    <2>2. /\ sessions'[k.slot] = sessions[k.slot]
          /\ device'[k.slot] = device[k.slot]
      BY <1>1, <1>5, <2>1
    <2>3. k.attempt <= nextAttempt'
      BY <1>1, <1>2, <1>3, <2>1 DEF EarlyJobsAreAlone
    <2>4. IsCurrent(k.slot, k.attempt)' <=> IsCurrent(k.slot, k.attempt)
      BY <2>2 DEF IsCurrent
    <2> QED BY <2>1, <2>2, <2>3, <2>4 DEF EarlyJobsAreAlone, TakesCallbacksOf
  <1>6. \A s \in Occupied' : sessions'[s].state = "CONNECTING" =>
            sessions'[s].connectedAt = "none"
    BY <1>1 DEF Occupied, Resets, EarlyJobsAreAlone
  <1> QED BY <1>4, <1>5, <1>6 DEF EarlyJobsAreAlone

\* A step that starts no attempt and no worker, and reports nothing of one.
QuietStep ==
    /\ nextAttempt' = nextAttempt
    /\ callbacks' \subseteq callbacks
    /\ \A k \in jobs' : \E j \in jobs :
          /\ k.slot = j.slot /\ k.attempt = j.attempt
          /\ k.cancelled => j.cancelled \/ sessions'[k.slot] = NoSession
          /\ k.phase # "watch" => j.phase # "watch"
    /\ \A s \in Slot : device[s] = NoDevice => device'[s] = NoDevice
    /\ \A s \in Slot : sessions'[s] # NoSession =>
          /\ sessions[s] # NoSession
          /\ sessions'[s].attempt = sessions[s].attempt
          /\ sessions'[s].state = sessions[s].state
          /\ sessions'[s].params = sessions[s].params
          /\ sessions[s].state = "CONNECTING" =>
                sessions'[s].connectedAt = sessions[s].connectedAt

LEMMA QuietKeepsEarly ==
    ASSUME IInv, TypeOK', EarlyJobsAreAlone, QuietStep
    PROVE  EarlyJobsAreAlone'
  <1>1. ASSUME NEW k \in jobs'
        PROVE  /\ k.attempt <= nextAttempt'
               /\ k.cancelled => ~IsCurrent(k.slot, k.attempt)'
               /\ k.phase # "watch" /\ IsCurrent(k.slot, k.attempt)' =>
                     /\ sessions'[k.slot].state = "CONNECTING"
                     /\ sessions'[k.slot].params = "none"
                     /\ device'[k.slot] = NoDevice
                     /\ \A c \in callbacks' :
                           c.slot = k.slot => c.attempt # k.attempt
    <2>1. PICK j \in jobs :
            /\ k.slot = j.slot /\ k.attempt = j.attempt
            /\ k.cancelled => j.cancelled \/ sessions'[k.slot] = NoSession
            /\ k.phase # "watch" => j.phase # "watch"
      BY DEF QuietStep
    <2>2. k.slot \in Slot
      BY <2>1 DEF IInv, TypeOK, Job
    <2>3. IsCurrent(k.slot, k.attempt)' => IsCurrent(j.slot, j.attempt)
      BY <2>1, <2>2 DEF QuietStep, IsCurrent
    <2>4. j.attempt <= nextAttempt /\ (j.cancelled => ~IsCurrent(j.slot, j.attempt))
      BY DEF EarlyJobsAreAlone
    <2>5. k.attempt <= nextAttempt' /\ (k.cancelled => ~IsCurrent(k.slot, k.attempt)')
      BY <2>1, <2>3, <2>4 DEF QuietStep, IsCurrent
    <2>6. ASSUME k.phase # "watch", IsCurrent(k.slot, k.attempt)'
          PROVE  /\ sessions'[k.slot].state = "CONNECTING"
                 /\ sessions'[k.slot].params = "none"
                 /\ device'[k.slot] = NoDevice
                 /\ \A c \in callbacks' :
                       c.slot = k.slot => c.attempt # k.attempt
      <3>1. /\ sessions[j.slot].state = "CONNECTING"
            /\ sessions[j.slot].params = "none"
            /\ device[j.slot] = NoDevice
            /\ \A c \in callbacks : c.slot = j.slot => c.attempt # j.attempt
        BY <2>1, <2>3, <2>6 DEF EarlyJobsAreAlone
      <3>2. sessions'[k.slot] # NoSession
        BY <2>6 DEF IsCurrent
      <3> QED BY <2>1, <2>2, <3>1, <3>2 DEF QuietStep
    <2> QED BY <2>5, <2>6
  <1>2. \A s \in Occupied' : sessions'[s].state = "CONNECTING" =>
            sessions'[s].connectedAt = "none"
    BY DEF Occupied, QuietStep, EarlyJobsAreAlone
  <1> QED BY <1>1, <1>2 DEF EarlyJobsAreAlone

\* A change of one session that leaves its attempt, its state and its age.
LEMMA ApplyGainIsQuiet ==
    ASSUME IInv, NEW slot \in Occupied, NEW sess \in Session,
           sess.attempt = sessions[slot].attempt,
           sess.state = sessions[slot].state,
           sess.params = sessions[slot].params,
           sess.connectedAt = sessions[slot].connectedAt,
           ApplyGain(slot, sess), UNCHANGED <<nextAttempt, jobs, callbacks>>
    PROVE  QuietStep
  <1>1. slot \in Slot /\ sessions[slot] # NoSession
    BY DEF Occupied
  <1>2. /\ sessions'[slot] = sess
        /\ \A t \in Slot \ {slot} : sessions'[t] = sessions[t]
    BY <1>1 DEF ApplyGain, IInv, TypeOK
  <1>3. \A s \in Slot : device[s] = NoDevice => device'[s] = NoDevice
    BY <1>1 DEF ApplyGain, IInv, TypeOK
  <1> QED BY <1>1, <1>2, <1>3 DEF QuietStep

LEMMA DisconnectIsQuiet ==
    ASSUME IInv, NEW S \in SUBSET Slot, DisconnectSessions(S)
    PROVE  QuietStep
  <1>1. \A s \in Slot : /\ sessions'[s] = IF s \in S THEN NoSession ELSE sessions[s]
                        /\ device'[s] = IF s \in S THEN NoDevice ELSE device[s]
    BY DEF DisconnectSessions, Stopped
  <1>2. ASSUME NEW k \in jobs'
        PROVE  \E j \in jobs :
                 /\ k.slot = j.slot /\ k.attempt = j.attempt
                 /\ k.cancelled => j.cancelled \/ sessions'[k.slot] = NoSession
                 /\ k.phase # "watch" => j.phase # "watch"
    <2>1. CASE k \in jobs
      BY <2>1
    <2>2. CASE k \notin jobs
      <3>1. PICK s \in S : k \in Cancelled(jobs, s) /\ k.slot = s
        BY <1>2, <2>2 DEF DisconnectSessions
      <3>2. PICK j \in jobs : /\ j.slot = s
                             /\ j.phase \in {"info", "launch"}
                             /\ k = [j EXCEPT !.cancelled = TRUE]
        BY <3>1 DEF Cancelled
      <3>3. k.attempt = j.attempt
        BY <3>2 DEF IInv, TypeOK, Job
      <3>4. sessions'[k.slot] = NoSession
        BY <1>1, <3>1
      <3> QED BY <3>1, <3>2, <3>3, <3>4
    <2> QED BY <2>1, <2>2
  <1>3. UNCHANGED <<nextAttempt, callbacks>>
    BY DEF DisconnectSessions
  <1> QED BY <1>1, <1>2, <1>3 DEF QuietStep

LEMMA JobReturnsIsQuiet ==
    ASSUME NEW j \in jobs, JobReturns(j)
    PROVE  QuietStep
  BY DEF JobReturns, QuietStep

LEMMA JobMovesIsQuiet ==
    ASSUME NEW j \in jobs, NEW k, k.slot = j.slot, k.attempt = j.attempt,
           k.cancelled = j.cancelled, j.phase # "watch",
           jobs' = (jobs \ {j}) \cup {k},
           UNCHANGED <<sessions, nextAttempt, device, callbacks>>
    PROVE  QuietStep
  BY DEF QuietStep

LEMMA IgnoredIsQuiet ==
    ASSUME NEW c \in callbacks, Ignored(c)
    PROVE  QuietStep
  BY DEF Ignored, QuietStep

-----------------------------------------------------------------------------
(* The session of one slot, as SessionSupervisor sees it *)

IsStable(sess) == sess.state = "CONNECTED" /\ sess.connectedAt = "stable"

LEMMA ImageType ==
    ASSUME TypeOK
    PROVE  \A s \in Slot :
             /\ s \in Occupied =>
                  /\ Phase[s] = sessions[s].state /\ Peer[s] = sessions[s].host
                  /\ Left[s] = MaxRetries - sessions[s].retries
                  /\ Spare[s] = ~sessions[s].relearned
                  /\ Stable[s] = IsStable(sessions[s])
                  /\ Number[s] = sessions[s].attempt
             /\ s \notin Occupied =>
                  /\ Phase[s] = "idle" /\ Peer[s] = NoSession
                  /\ Number[s] = 0
  BY DEF Phase, Peer, Left, Spare, Stable, Number, IsStable

LEMMA SlotImage ==
    ASSUME NEW slot \in Slot, sessions'[slot] # NoSession,
           \A t \in Slot \ {slot} : sessions'[t] = sessions[t]
    PROVE  /\ Phase' = [Phase EXCEPT ![slot] = sessions'[slot].state]
           /\ Peer' = [Peer EXCEPT ![slot] = sessions'[slot].host]
           /\ Left' = [Left EXCEPT ![slot] = MaxRetries - sessions'[slot].retries]
           /\ Spare' = [Spare EXCEPT ![slot] = ~sessions'[slot].relearned]
           /\ Stable' = [Stable EXCEPT ![slot] = IsStable(sessions'[slot])]
           /\ Number'[slot] = sessions'[slot].attempt
           /\ \A t \in Slot \ {slot} : Number'[t] = Number[t]
  <1>1. /\ slot \in Occupied'
        /\ \A t \in Slot \ {slot} : t \in Occupied' <=> t \in Occupied
    BY DEF Occupied
  <1>2. Phase' = [Phase EXCEPT ![slot] = sessions'[slot].state]
    BY <1>1 DEF Phase
  <1>3. Peer' = [Peer EXCEPT ![slot] = sessions'[slot].host]
    BY <1>1 DEF Peer
  <1>4. Left' = [Left EXCEPT ![slot] = MaxRetries - sessions'[slot].retries]
    BY <1>1 DEF Left
  <1>5. Spare' = [Spare EXCEPT ![slot] = ~sessions'[slot].relearned]
    BY <1>1 DEF Spare
  <1>6. Stable' = [Stable EXCEPT ![slot] = IsStable(sessions'[slot])]
    BY <1>1 DEF Stable, IsStable
  <1>7. /\ Number'[slot] = sessions'[slot].attempt
        /\ \A t \in Slot \ {slot} : Number'[t] = Number[t]
    BY <1>1 DEF Number
  <1> QED BY <1>2, <1>3, <1>4, <1>5, <1>6, <1>7

\* A session that changes in nothing the abstract supervisor knows of.
LEMMA SameImage ==
    ASSUME \A s \in Slot :
             /\ sessions'[s] = NoSession <=> sessions[s] = NoSession
             /\ sessions[s] # NoSession =>
                  /\ sessions'[s].host = sessions[s].host
                  /\ sessions'[s].state = sessions[s].state
                  /\ sessions'[s].retries = sessions[s].retries
                  /\ sessions'[s].relearned = sessions[s].relearned
                  /\ sessions'[s].attempt = sessions[s].attempt
                  /\ IsStable(sessions'[s]) = IsStable(sessions[s])
    PROVE  UNCHANGED Supervisor!vars
  <1>1. Occupied' = Occupied
    BY DEF Occupied
  <1>2. Phase' = Phase /\ Peer' = Peer /\ Left' = Left /\ Number' = Number
    BY <1>1 DEF Phase, Peer, Left, Number, Occupied
  <1>3. Spare' = Spare
    BY <1>1 DEF Spare, Occupied
  <1>4. Stable' = Stable
    BY <1>1 DEF Stable, Occupied, IsStable
  <1> QED BY <1>2, <1>3, <1>4 DEF Supervisor!vars

LEMMA SamePeer ==
    ASSUME NEW slot \in Occupied, sessions'[slot] # NoSession,
           sessions'[slot].host = sessions[slot].host,
           \A t \in Slot \ {slot} : sessions'[t] = sessions[t]
    PROVE  Peer' = Peer
  <1>1. Occupied' = Occupied
    BY DEF Occupied
  <1> QED BY <1>1 DEF Peer, Occupied

-----------------------------------------------------------------------------
(* Steps of the abstract supervisor *)

SupervisorStep == Supervisor!Next \/ UNCHANGED Supervisor!vars

\* What a failure takes from a session: nothing, or all its retries are its
\* own again because its connection has proved stable.
Failing(slot, sess) ==
    /\ sessions[slot].state \in {"CONNECTING", "CONNECTED"}
    /\ sess.host = sessions[slot].host
    /\ sess.relearned = sessions[slot].relearned
    /\ sess.retries = IF IsStable(sessions[slot]) THEN 0
                      ELSE sessions[slot].retries

LEMMA FailedMaps ==
    ASSUME IInv, TypeOK', EarlyJobsAreAlone, NEW slot \in Occupied,
           NEW sess \in Session, Failing(slot, sess),
           NEW others, OthersOf(slot, others), NEW held,
           Failed(slot, sess, others, held), TakesCallbacksOf(slot)
    PROVE  EarlyJobsAreAlone' /\ Supervisor!Next
  <1>0. slot \in Slot /\ TypeOK /\ sessions[slot] \in Session
    BY DEF Occupied, IInv, TypeOK
  <1>1. Restarts(slot) /\ sessions'[slot].host = sess.host
    BY <1>0, FailedRestarts
  <1>2. Resets(slot) /\ Spends(slot, sess)
    BY <1>0, FailedResets
  <1>3. EarlyJobsAreAlone'
    BY <1>0, <1>1, <1>2, RestartKeepsEarly
  <1>4. /\ sessions'[slot] # NoSession
        /\ \A t \in Slot \ {slot} : sessions'[t] = sessions[t]
    BY <1>1 DEF Restarts
  <1>5. sessions'[slot] \in Session
    BY <1>0, <1>4 DEF TypeOK
  <1>6. /\ Phase' = [Phase EXCEPT ![slot] = sessions'[slot].state]
        /\ Left' = [Left EXCEPT ![slot] = MaxRetries - sessions'[slot].retries]
        /\ Spare' = [Spare EXCEPT ![slot] = ~sessions'[slot].relearned]
        /\ Stable' = [Stable EXCEPT ![slot] = IsStable(sessions'[slot])]
        /\ Number'[slot] = sessions'[slot].attempt
        /\ \A t \in Slot \ {slot} : Number'[t] = Number[t]
    BY <1>0, <1>4, SlotImage
  <1>7. Peer' = Peer
    BY <1>1, <1>4, SamePeer DEF Failing
  <1>8. /\ Phase[slot] = sessions[slot].state
        /\ Left[slot] = MaxRetries - sessions[slot].retries
        /\ Spare[slot] = ~sessions[slot].relearned
        /\ Stable[slot] = IsStable(sessions[slot])
        /\ Number[slot] = sessions[slot].attempt
    BY <1>0, ImageType
  <1>9. Supervisor!NewAttempt(slot)
    <2>1. /\ sessions[slot].attempt <= nextAttempt
          /\ nextAttempt < sessions'[slot].attempt
      BY <1>1 DEF IInv, AttemptsDrawn, Restarts
    <2>2. /\ sessions[slot].attempt \in Nat /\ nextAttempt \in Nat
          /\ sessions'[slot].attempt \in Nat
      BY <1>0, <1>5 DEF TypeOK, Session, Attempt
    <2> QED BY <1>6, <1>8, <2>1, <2>2 DEF Supervisor!NewAttempt
  <1>10. Supervisor!Trying(slot)
    BY <1>8 DEF Supervisor!Trying, Failing
  <1>11. Supervisor!Budget(slot) = MaxRetries - sess.retries
    <2>1. MaxRetries - 0 = MaxRetries
      BY RetryAssumption
    <2> QED BY <1>8, <2>1 DEF Supervisor!Budget, Failing
  <1>12. sess.retries \in Nat /\ MaxRetries \in Nat
    BY RetryAssumption DEF Session
  <1>13. /\ Spare' = [Spare EXCEPT ![slot] = Spare[slot]]
         /\ Stable' = [Stable EXCEPT ![slot] = FALSE]
    <2>1. sessions'[slot].relearned = sessions[slot].relearned
      BY <1>2 DEF Spends, Failing
    <2>2. IsStable(sessions'[slot]) = FALSE
      BY <1>2 DEF IsStable, Spends
    <2> QED BY <1>6, <1>8, <2>1, <2>2
  <1>14. CASE sessions'[slot].state = "CONNECTING"
    <2>1. /\ sess.retries < MaxRetries
          /\ sessions'[slot].retries = sess.retries + 1
      BY <1>2, <1>14 DEF Spends
    <2>2. /\ Supervisor!Budget(slot) > 0
          /\ MaxRetries - sessions'[slot].retries = Supervisor!Budget(slot) - 1
      BY <1>11, <1>12, <2>1
    <2>3. Supervisor!Becomes(slot, "CONNECTING", Supervisor!Budget(slot) - 1,
                             Spare[slot], FALSE)
      BY <1>6, <1>13, <1>14, <2>2 DEF Supervisor!Becomes
    <2>4. Supervisor!Retry(slot)
      BY <1>7, <1>9, <1>10, <2>2, <2>3 DEF Supervisor!Retry
    <2> QED BY <1>0, <1>3, <2>4 DEF Supervisor!Next
  <1>15. CASE sessions'[slot].state = "ERROR"
    <2>1. /\ sess.retries = MaxRetries
          /\ sessions'[slot].retries = sess.retries
      BY <1>2, <1>15 DEF Spends
    <2>2. /\ Supervisor!Budget(slot) = 0
          /\ MaxRetries - sessions'[slot].retries = 0
      BY <1>11, <1>12, <2>1
    <2>3. Supervisor!Becomes(slot, "ERROR", 0, Spare[slot], FALSE)
      BY <1>6, <1>13, <1>15, <2>2 DEF Supervisor!Becomes
    <2>4. Supervisor!GiveUp(slot)
      BY <1>7, <1>9, <1>10, <2>2, <2>3 DEF Supervisor!GiveUp
    <2> QED BY <1>0, <1>3, <2>4 DEF Supervisor!Next
  <1> QED BY <1>2, <1>14, <1>15 DEF Spends

LEMMA StartAttemptMaps ==
    ASSUME IInv, TypeOK', EarlyJobsAreAlone, NEW slot \in Slot,
           NEW sess \in Session,
           NEW others, OthersOf(slot, others), UNCHANGED callbacks,
           StartAttempt(slot, sess, nextAttempt + 1, "info", others)
    PROVE  /\ EarlyJobsAreAlone'
           /\ Supervisor!Becomes(slot, "CONNECTING", MaxRetries - sess.retries,
                                 ~sess.relearned, FALSE)
           /\ Supervisor!NewAttempt(slot)
           /\ Peer' = [Peer EXCEPT ![slot] = sess.host]
           /\ slot \in Occupied /\ sess.host = sessions[slot].host => Peer' = Peer
  <1>0. TypeOK /\ nextAttempt + 1 \in Nat /\ nextAttempt < nextAttempt + 1
    BY DEF IInv, TypeOK
  <1>1. /\ Restarts(slot)
        /\ sessions'[slot].host = sess.host
        /\ sessions'[slot].state = "CONNECTING"
    BY <1>0, StartAttemptRestarts
  <1>2. /\ Resets(slot)
        /\ sessions'[slot].retries = sess.retries
        /\ sessions'[slot].relearned = sess.relearned
    BY <1>0, StartAttemptResets
  <1>3. EarlyJobsAreAlone'
    BY <1>1, <1>2, RestartKeepsEarly DEF TakesCallbacksOf
  <1>4. /\ sessions'[slot] # NoSession
        /\ \A t \in Slot \ {slot} : sessions'[t] = sessions[t]
    BY <1>1 DEF Restarts
  <1>5. /\ Phase' = [Phase EXCEPT ![slot] = sessions'[slot].state]
        /\ Peer' = [Peer EXCEPT ![slot] = sessions'[slot].host]
        /\ Left' = [Left EXCEPT ![slot] = MaxRetries - sessions'[slot].retries]
        /\ Spare' = [Spare EXCEPT ![slot] = ~sessions'[slot].relearned]
        /\ Stable' = [Stable EXCEPT ![slot] = IsStable(sessions'[slot])]
        /\ Number'[slot] = sessions'[slot].attempt
        /\ \A t \in Slot \ {slot} : Number'[t] = Number[t]
    BY <1>4, SlotImage
  <1>6. IsStable(sessions'[slot]) = FALSE
    BY <1>1 DEF IsStable
  <1>7. Supervisor!Becomes(slot, "CONNECTING", MaxRetries - sess.retries,
                           ~sess.relearned, FALSE)
    BY <1>1, <1>2, <1>5, <1>6 DEF Supervisor!Becomes
  <1>8. Number[slot] \in Nat /\ Number[slot] <= nextAttempt
    <2>1. CASE slot \in Occupied
      BY <1>0, <2>1, ImageType
         DEF IInv, AttemptsDrawn, Occupied, TypeOK, Session, Attempt
    <2>2. CASE slot \notin Occupied
      BY <1>0, <2>2, ImageType DEF TypeOK
    <2> QED BY <2>1, <2>2
  <1>9. Supervisor!NewAttempt(slot)
    <2>1. /\ nextAttempt < sessions'[slot].attempt
          /\ sessions'[slot].attempt \in Nat /\ nextAttempt \in Nat
      BY <1>1, <1>4 DEF Restarts, TypeOK, IInv, Session, Attempt
    <2> QED BY <1>5, <1>8, <2>1 DEF Supervisor!NewAttempt
  <1>10. slot \in Occupied /\ sess.host = sessions[slot].host => Peer' = Peer
    BY <1>1, <1>4, SamePeer
  <1> QED BY <1>1, <1>3, <1>5, <1>7, <1>9, <1>10

LEMMA ReconnectMaps ==
    ASSUME IInv, TypeOK', EarlyJobsAreAlone, NEW slot \in Slot, Reconnect(slot)
    PROVE  EarlyJobsAreAlone' /\ Supervisor!Next
  <1> DEFINE sess == [sessions[slot] EXCEPT !.retries = 0, !.relearned = FALSE]
  <1>1. /\ slot \in Occupied /\ sessions[slot] \in Session
        /\ sessions[slot].state = "ERROR" /\ 0 \in 0 .. MaxRetries
    BY RetryAssumption DEF Reconnect, Occupied, IInv, TypeOK
  <1>2. /\ sess \in Session /\ sess.host = sessions[slot].host
        /\ sess.retries = 0 /\ sess.relearned = FALSE
    BY <1>1 DEF Session
  <1>3. /\ StartAttempt(slot, sess, nextAttempt + 1, "info", jobs)
        /\ UNCHANGED callbacks
    BY DEF Reconnect
  <1>4. OthersOf(slot, jobs)
    BY DEF OthersOf
  <1> HIDE DEF sess
  <1>5. /\ EarlyJobsAreAlone'
        /\ Supervisor!Becomes(slot, "CONNECTING", MaxRetries - sess.retries,
                              ~sess.relearned, FALSE)
        /\ Supervisor!NewAttempt(slot)
        /\ Peer' = Peer
    BY <1>1, <1>2, <1>3, <1>4, StartAttemptMaps
  <1>6. Supervisor!Becomes(slot, "CONNECTING", MaxRetries, TRUE, FALSE)
    <2>1. MaxRetries - sess.retries = MaxRetries /\ (~sess.relearned) = TRUE
      BY <1>2, RetryAssumption
    <2> QED BY <1>5, <2>1
  <1>7. Phase[slot] = "ERROR"
    BY <1>1, ImageType DEF IInv
  <1>8. Supervisor!Again(slot)
    BY <1>5, <1>6, <1>7 DEF Supervisor!Again
  <1> QED BY <1>5, <1>8 DEF Supervisor!Next

LEMMA ConnectMaps ==
    ASSUME IInv, TypeOK', EarlyJobsAreAlone, NEW host \in Host, Connect(host)
    PROVE  EarlyJobsAreAlone' /\ Supervisor!Next
  <1>1. PICK slot \in Slot \ Occupied :
          StartAttempt(slot, NewSession(host), nextAttempt + 1, "info", jobs)
    BY DEF Connect
  <1>2. UNCHANGED callbacks /\ \A t \in Occupied : sessions[t].host # host
    BY DEF Connect
  <1>3. /\ NewSession(host) \in Session /\ NewSession(host).host = host
        /\ NewSession(host).retries = 0 /\ NewSession(host).relearned = FALSE
    BY NewSessionType DEF NewSession
  <1>4. OthersOf(slot, jobs)
    BY DEF OthersOf
  <1>5. /\ EarlyJobsAreAlone'
        /\ Supervisor!Becomes(slot, "CONNECTING",
                              MaxRetries - NewSession(host).retries,
                              ~NewSession(host).relearned, FALSE)
        /\ Supervisor!NewAttempt(slot)
        /\ Peer' = [Peer EXCEPT ![slot] = host]
    BY <1>1, <1>2, <1>3, <1>4, StartAttemptMaps
  <1>6. Supervisor!Becomes(slot, "CONNECTING", MaxRetries, TRUE, FALSE)
    <2>1. /\ MaxRetries - NewSession(host).retries = MaxRetries
          /\ (~NewSession(host).relearned) = TRUE
      BY <1>3, RetryAssumption
    <2> QED BY <1>5, <2>1
  <1>7. Phase[slot] = "idle" /\ \A t \in Slot : Peer[t] # host
    BY <1>1, <1>2, ImageType, NoneAssumption DEF IInv
  <1>8. Supervisor!Begin(slot, host)
    BY <1>5, <1>6, <1>7 DEF Supervisor!Begin
  <1> QED BY <1>1, <1>5, <1>8 DEF Supervisor!Next

LEMMA DisconnectMaps ==
    ASSUME IInv, TypeOK', EarlyJobsAreAlone, NEW S \in SUBSET Slot,
           DisconnectSessions(S)
    PROVE  EarlyJobsAreAlone' /\ Supervisor!Next
  <1>1. \A s \in Slot : sessions'[s] = IF s \in S THEN NoSession ELSE sessions[s]
    BY DEF DisconnectSessions
  <1>2. Occupied' = Occupied \ S
    BY <1>1 DEF Occupied
  <1>3. /\ Phase' = [s \in Slot |-> IF s \in S THEN "idle" ELSE Phase[s]]
        /\ Peer' = [s \in Slot |-> IF s \in S THEN NoSession ELSE Peer[s]]
        /\ Left' = [s \in Slot |-> IF s \in S THEN 0 ELSE Left[s]]
        /\ Number' = [s \in Slot |-> IF s \in S THEN 0 ELSE Number[s]]
    BY <1>1, <1>2 DEF Phase, Peer, Left, Number
  <1>4. Spare' = [s \in Slot |-> IF s \in S THEN FALSE ELSE Spare[s]]
    BY <1>1, <1>2 DEF Spare
  <1>5. Stable' = [s \in Slot |-> IF s \in S THEN FALSE ELSE Stable[s]]
    BY <1>1, <1>2 DEF Stable
  <1>6. Supervisor!Drop(S)
    BY <1>3, <1>4, <1>5 DEF Supervisor!Drop
  <1> QED BY <1>6, DisconnectIsQuiet, QuietKeepsEarly DEF Supervisor!Next

LEMMA ApplyGainMaps ==
    ASSUME IInv, TypeOK', EarlyJobsAreAlone, NEW slot \in Occupied,
           NEW sess \in Session,
           sess.host = sessions[slot].host,
           sess.attempt = sessions[slot].attempt,
           sess.state = sessions[slot].state,
           sess.params = sessions[slot].params,
           sess.retries = sessions[slot].retries,
           sess.relearned = sessions[slot].relearned,
           sess.connectedAt = sessions[slot].connectedAt,
           ApplyGain(slot, sess), UNCHANGED <<nextAttempt, jobs, callbacks>>
    PROVE  EarlyJobsAreAlone' /\ UNCHANGED Supervisor!vars
  <1>1. EarlyJobsAreAlone'
    BY ApplyGainIsQuiet, QuietKeepsEarly
  <1>2. /\ sessions'[slot] = sess /\ sess # NoSession /\ sessions[slot] # NoSession
        /\ \A t \in Slot \ {slot} : sessions'[t] = sessions[t]
    BY NoneAssumption DEF ApplyGain, IInv, TypeOK, Occupied
  <1>3. IsStable(sess) = IsStable(sessions[slot])
    BY DEF IsStable
  <1> QED BY <1>1, <1>2, <1>3, SameImage

LEMMA UserMaps ==
    ASSUME IInv, TypeOK', EarlyJobsAreAlone, User
    PROVE  EarlyJobsAreAlone' /\ SupervisorStep
  <1>1. ASSUME NEW slot \in Slot, NEW muted \in MuteRequests,
               SetMuted(slot, muted)
        PROVE  EarlyJobsAreAlone' /\ UNCHANGED Supervisor!vars
    <2> DEFINE sess == [sessions[slot] EXCEPT !.muted = muted]
    <2>1. sessions[slot] \in Session /\ slot \in Occupied
      BY <1>1 DEF SetMuted, Occupied, IInv, TypeOK
    <2>2. /\ sess \in Session /\ sess.host = sessions[slot].host
          /\ sess.attempt = sessions[slot].attempt
          /\ sess.state = sessions[slot].state
          /\ sess.params = sessions[slot].params
          /\ sess.retries = sessions[slot].retries
          /\ sess.relearned = sessions[slot].relearned
          /\ sess.connectedAt = sessions[slot].connectedAt
      BY <2>1, VolumeAssumption DEF Session
    <2>3. /\ ApplyGain(slot, sess)
          /\ UNCHANGED <<nextAttempt, jobs, callbacks>>
      BY <1>1 DEF SetMuted
    <2> HIDE DEF sess
    <2> QED BY <2>1, <2>2, <2>3, ApplyGainMaps
  <1>2. ASSUME NEW slot \in Slot, NEW volume \in VolumeRequests,
               SetVolume(slot, volume)
        PROVE  EarlyJobsAreAlone' /\ UNCHANGED Supervisor!vars
    <2> DEFINE sess == [sessions[slot] EXCEPT !.volume = CoerceIn(volume)]
    <2>1. sessions[slot] \in Session /\ slot \in Occupied
      BY <1>2 DEF SetVolume, Occupied, IInv, TypeOK
    <2>2. CoerceIn(volume) \in Volume
      BY <1>2, VolumeAssumption DEF SetVolume, CoerceIn, Volume
    <2>3. /\ sess \in Session /\ sess.host = sessions[slot].host
          /\ sess.attempt = sessions[slot].attempt
          /\ sess.state = sessions[slot].state
          /\ sess.params = sessions[slot].params
          /\ sess.retries = sessions[slot].retries
          /\ sess.relearned = sessions[slot].relearned
          /\ sess.connectedAt = sessions[slot].connectedAt
      BY <2>1, <2>2 DEF Session
    <2>4. /\ ApplyGain(slot, sess)
          /\ UNCHANGED <<nextAttempt, jobs, callbacks>>
      BY <1>2 DEF SetVolume
    <2> HIDE DEF sess
    <2> QED BY <2>1, <2>3, <2>4, ApplyGainMaps
  <1>3. ASSUME NEW S \in SUBSET Slot, DisconnectSessions(S)
        PROVE  EarlyJobsAreAlone' /\ Supervisor!Next
    BY <1>3, DisconnectMaps
  <1> QED BY <1>1, <1>2, <1>3, ReconnectMaps, ConnectMaps
          DEF User, SupervisorStep, Disconnect, DisconnectHost, StopAll, Occupied

-----------------------------------------------------------------------------
(* Steps of jobs, callbacks and workers *)

\* A step of a job ends, fails or starts over a session that is connecting.
LEMMA JobMaps ==
    ASSUME IInv, TypeOK', EarlyJobsAreAlone, NEW j \in jobs, JobStep(j)
    PROVE  EarlyJobsAreAlone' /\ SupervisorStep
  <1>1. j \in Job /\ j.slot \in Slot
    BY DEF IInv, TypeOK, Job
  <1>2. IsCurrent(j.slot, j.attempt) =>
          /\ ~j.cancelled
          /\ j.slot \in Occupied /\ sessions[j.slot] \in Session
          /\ sessions[j.slot].attempt = j.attempt
          /\ j.phase # "watch" => sessions[j.slot].state = "CONNECTING"
    BY <1>1 DEF EarlyJobsAreAlone, IsCurrent, Occupied, IInv, TypeOK
  <1>3. OthersOf(j.slot, jobs \ {j}) /\ (UNCHANGED callbacks => TakesCallbacksOf(j.slot))
    BY DEF OthersOf, TakesCallbacksOf
  <1>4. UNCHANGED sessions => UNCHANGED Supervisor!vars
    <2> SUFFICES ASSUME UNCHANGED sessions PROVE UNCHANGED Supervisor!vars
      OBVIOUS
    <2> QED BY SameImage
  <1>5. ASSUME IsCurrent(j.slot, j.attempt), UNCHANGED callbacks,
               sessions[j.slot].state = "CONNECTING",
               NEW sess \in Session, sess.host = sessions[j.slot].host,
               sess.relearned = sessions[j.slot].relearned,
               sess.retries = sessions[j.slot].retries,
               NEW held, Failed(j.slot, sess, jobs \ {j}, held)
        PROVE  EarlyJobsAreAlone' /\ Supervisor!Next
    <2>1. Failing(j.slot, sess)
      BY <1>5 DEF Failing, IsStable
    <2> QED BY <1>2, <1>3, <1>5, <2>1, FailedMaps
  <1>6. CASE WaitOver(j)
    <2> DEFINE k == [j EXCEPT !.phase = "info"]
    <2>1. /\ k.slot = j.slot /\ k.attempt = j.attempt
          /\ k.cancelled = j.cancelled /\ j.phase # "watch"
          /\ jobs' = (jobs \ {j}) \cup {k}
      BY <1>1, <1>6 DEF Job, WaitOver
    <2> HIDE DEF k
    <2>2. UNCHANGED <<sessions, nextAttempt, device, callbacks>>
      BY <1>6 DEF WaitOver
    <2> QED BY <1>4, <2>1, <2>2, JobMovesIsQuiet, QuietKeepsEarly DEF SupervisorStep
  <1>7. CASE ServerInfo(j)
    <2>1. UNCHANGED <<sessions, nextAttempt, device, callbacks>>
      BY <1>7 DEF ServerInfo
    <2>2. CASE j.cancelled
      <3>1. JobReturns(j)
        BY <1>7, <2>2 DEF ServerInfo, JobReturns
      <3> QED BY <1>4, <2>1, <3>1, JobReturnsIsQuiet, QuietKeepsEarly
              DEF SupervisorStep
    <2>3. CASE ~j.cancelled
      <3> DEFINE b == UseAudioOnly(sessions[j.slot].host)
                 k == [j EXCEPT !.phase = "launch", !.audioOnly = b]
      <3>1. jobs' = (jobs \ {j}) \cup {k} /\ j.phase # "watch"
        BY <1>7, <2>3 DEF ServerInfo
      <3> HIDE DEF b
      <3>2. /\ k.slot = j.slot /\ k.attempt = j.attempt
            /\ k.cancelled = j.cancelled
        BY <1>1 DEF Job
      <3> HIDE DEF k
      <3> QED BY <1>4, <2>1, <3>1, <3>2, JobMovesIsQuiet, QuietKeepsEarly
              DEF SupervisorStep
    <2> QED BY <2>2, <2>3
  <1>8. ASSUME JobReturns(j)
        PROVE  EarlyJobsAreAlone' /\ UNCHANGED Supervisor!vars
    BY <1>4, <1>8, JobReturnsIsQuiet, QuietKeepsEarly DEF JobReturns
  <1>9. CASE PrepareReturns(j)
    <2> DEFINE sess == [sessions[j.slot] EXCEPT !.params =
                          IF j.audioOnly THEN "audioOnly" ELSE "dummyVideo"]
    <2>1. CASE JobReturns(j)
      BY <1>8, <2>1 DEF SupervisorStep
    <2>2. CASE IsCurrent(j.slot, j.attempt) /\ StartWorker(j, sess)
      <3>1. j.phase = "launch" /\ sessions[j.slot].state = "CONNECTING"
        BY <1>2, <1>9, <2>2 DEF PrepareReturns
      <3>2. /\ sess \in Session /\ sess.host = sessions[j.slot].host
            /\ sess.attempt = sessions[j.slot].attempt
            /\ sess.state = sessions[j.slot].state
            /\ sess.relearned = sessions[j.slot].relearned
            /\ sess.retries = sessions[j.slot].retries
            /\ sess.connectedAt = sessions[j.slot].connectedAt
        BY <1>2, <2>2 DEF Session
      <3>3. StartWorker(j, sess)
        BY <2>2
      <3> HIDE DEF sess
      <3>4. ASSUME NEW held, Failed(j.slot, sess, jobs \ {j}, held),
                   UNCHANGED callbacks
            PROVE  EarlyJobsAreAlone' /\ SupervisorStep
        BY <1>5, <2>2, <3>1, <3>2, <3>4 DEF SupervisorStep
      <3>5. CASE /\ sessions' = [sessions EXCEPT ![j.slot] = sess]
                 /\ device' = [device EXCEPT ![j.slot] =
                                  [attempt |-> j.attempt, gain |-> Gain(sess),
                                   up |-> FALSE]]
                 /\ jobs' = (jobs \ {j}) \cup {[j EXCEPT !.phase = "watch"]}
                 /\ UNCHANGED <<nextAttempt, callbacks>>
        <4>1. /\ sessions'[j.slot] = sess /\ sess # NoSession
              /\ \A t \in Slot \ {j.slot} : /\ sessions'[t] = sessions[t]
                                           /\ device'[t] = device[t]
          BY <1>1, <3>2, <3>5, NoneAssumption DEF IInv, TypeOK
        <4>2. IsStable(sess) = IsStable(sessions[j.slot])
          BY <3>2 DEF IsStable
        <4>3. UNCHANGED Supervisor!vars
          BY <1>2, <2>2, <3>2, <4>1, <4>2, SameImage DEF IsCurrent
        <4> DEFINE w == [j EXCEPT !.phase = "watch"]
        <4>4. /\ w.slot = j.slot /\ w.attempt = j.attempt /\ w.phase = "watch"
              /\ w.cancelled = j.cancelled
              /\ jobs' = (jobs \ {j}) \cup {w}
          BY <1>1, <3>5 DEF Job
        <4> HIDE DEF w
        <4>5. \A t \in Slot : \A a : IsCurrent(t, a)' <=> IsCurrent(t, a)
          BY <1>2, <2>2, <3>2, <4>1 DEF IsCurrent
        <4>6. \A k \in jobs : k.slot \in Slot
          BY DEF IInv, TypeOK, Job
        <4>7. \A k \in jobs : k # j /\ k.slot = j.slot => ~IsCurrent(k.slot, k.attempt)
          BY <1>2, <2>2 DEF IInv, JobsAreCurrent, EarlyJobsAreAlone
        <4>8. \A k \in jobs' :
                /\ k.attempt <= nextAttempt'
                /\ k.cancelled => ~IsCurrent(k.slot, k.attempt)'
          BY <3>5, <4>4, <4>5, <4>6 DEF EarlyJobsAreAlone
        <4>9. ASSUME NEW k \in jobs', k.phase # "watch",
                     IsCurrent(k.slot, k.attempt)'
              PROVE  /\ sessions'[k.slot].state = "CONNECTING"
                     /\ sessions'[k.slot].params = "none"
                     /\ device'[k.slot] = NoDevice
                     /\ \A c \in callbacks' :
                           c.slot = k.slot => c.attempt # k.attempt
          <5>1. k \in jobs /\ k # j /\ k.slot \in Slot
            BY <4>4, <4>6, <4>9
          <5>2. IsCurrent(k.slot, k.attempt)
            BY <4>5, <4>9, <5>1
          <5>3. k.slot # j.slot
            BY <4>7, <5>1, <5>2
          <5> QED BY <3>5, <4>1, <4>9, <5>1, <5>2, <5>3 DEF EarlyJobsAreAlone
        <4>10. \A s \in Occupied' : sessions'[s].state = "CONNECTING" =>
                  sessions'[s].connectedAt = "none"
          BY <1>2, <2>2, <3>2, <4>1 DEF Occupied, EarlyJobsAreAlone
        <4> QED BY <4>3, <4>8, <4>9, <4>10 DEF EarlyJobsAreAlone, SupervisorStep
      <3> QED BY <3>3, <3>4, <3>5 DEF StartWorker
    <2> QED BY <1>9, <2>1, <2>2 DEF PrepareReturns
  <1>10. CASE PrepareFails(j)
    BY <1>2, <1>5, <1>8, <1>10 DEF PrepareFails, SupervisorStep
  <1>11. CASE LaunchRejected(j)
    <2> DEFINE sess == [sessions[j.slot] EXCEPT !.relearned = TRUE]
    <2>1. /\ j.slot \in Occupied /\ sessions[j.slot] \in Session
          /\ sessions[j.slot].state = "CONNECTING"
      BY <1>2, <1>11 DEF LaunchRejected
    <2>2. CASE /\ StartAttempt(j.slot, sess, nextAttempt + 1, "info", jobs \ {j})
               /\ UNCHANGED callbacks /\ ~sessions[j.slot].relearned
      <3>1. /\ sess \in Session /\ sess.host = sessions[j.slot].host
            /\ sess.retries = sessions[j.slot].retries /\ sess.relearned = TRUE
        BY <2>1 DEF Session
      <3>2. StartAttempt(j.slot, sess, nextAttempt + 1, "info", jobs \ {j})
        BY <2>2
      <3> HIDE DEF sess
      <3>3. /\ EarlyJobsAreAlone'
            /\ Supervisor!Becomes(j.slot, "CONNECTING", MaxRetries - sess.retries,
                                  ~sess.relearned, FALSE)
            /\ Supervisor!NewAttempt(j.slot)
            /\ Peer' = Peer
        BY <1>1, <1>3, <2>1, <2>2, <3>1, <3>2, StartAttemptMaps
      <3>4. /\ Phase[j.slot] = "CONNECTING" /\ Spare[j.slot]
            /\ Left[j.slot] = MaxRetries - sess.retries
        BY <1>1, <2>1, <2>2, <3>1, ImageType DEF IInv
      <3>5. Supervisor!Becomes(j.slot, "CONNECTING", Left[j.slot], FALSE, FALSE)
        <4>1. (~sess.relearned) = FALSE
          BY <3>1
        <4> QED BY <3>3, <3>4, <4>1
      <3>6. Supervisor!Relearn(j.slot)
        BY <3>3, <3>4, <3>5 DEF Supervisor!Relearn
      <3> QED BY <1>1, <3>3, <3>6 DEF Supervisor!Next, SupervisorStep
    <2>3. CASE /\ Failed(j.slot, sessions[j.slot], jobs \ {j}, playback)
               /\ UNCHANGED callbacks
      BY <1>5, <1>11, <2>1, <2>3 DEF LaunchRejected, SupervisorStep
    <2> QED BY <1>11, <2>2, <2>3 DEF LaunchRejected
  <1>12. CASE WatchOver(j)
    BY <1>2, <1>5, <1>8, <1>12 DEF WatchOver, SupervisorStep
  <1> QED BY <1>6, <1>7, <1>9, <1>10, <1>11, <1>12 DEF JobStep

LEMMA CallbackMaps ==
    ASSUME IInv, TypeOK', EarlyJobsAreAlone, NEW c \in callbacks,
           CallbackStep(c)
    PROVE  EarlyJobsAreAlone' /\ SupervisorStep
  <1>1. c.slot \in Slot
    BY DEF IInv, TypeOK, Callback
  <1>2. IsCurrent(c.slot, c.attempt) =>
          /\ c.slot \in Occupied /\ sessions[c.slot] \in Session
          /\ sessions[c.slot].attempt = c.attempt
    BY <1>1 DEF IsCurrent, Occupied, IInv, TypeOK
  <1>3. CASE Ignored(c)
    <2>1. UNCHANGED Supervisor!vars
      BY <1>3, SameImage DEF Ignored
    <2> QED BY <1>3, <2>1, IgnoredIsQuiet, QuietKeepsEarly DEF SupervisorStep
  <1>4. CASE WorkerConnected(c) /\ ~Ignored(c)
    <2> DEFINE sess == [sessions[c.slot] EXCEPT !.connectedAt = "early",
                                                !.state = "CONNECTED"]
               slot == c.slot
    <2>1. /\ IsCurrent(slot, c.attempt) /\ sessions[slot].state = "CONNECTING"
          /\ ApplyGain(slot, sess) /\ callbacks' = callbacks \ {c}
          /\ UNCHANGED <<nextAttempt, jobs>>
      BY <1>4 DEF WorkerConnected
    <2>2. /\ sess \in Session /\ sess.host = sessions[slot].host
          /\ sess.attempt = sessions[slot].attempt
          /\ sess.state = "CONNECTED" /\ sess.connectedAt = "early"
          /\ sess.relearned = sessions[slot].relearned
          /\ sess.retries = sessions[slot].retries
      BY <1>2, <2>1 DEF Session
    <2> HIDE DEF sess
    <2>3. /\ sessions'[slot] = sess /\ sess # NoSession
          /\ sessions[slot] # NoSession
          /\ \A t \in Slot \ {slot} : /\ sessions'[t] = sessions[t]
                                     /\ device'[t] = device[t]
      BY <1>1, <1>2, <2>1, <2>2, NoneAssumption
         DEF ApplyGain, IInv, TypeOK, Occupied
    <2>4. \A t \in Slot : \A a : IsCurrent(t, a)' <=> IsCurrent(t, a)
      BY <2>2, <2>3 DEF IsCurrent
    <2>5. \A k \in jobs : /\ k.slot \in Slot
                          /\ k.attempt <= nextAttempt
                          /\ k.cancelled => ~IsCurrent(k.slot, k.attempt)
      BY DEF IInv, TypeOK, Job, EarlyJobsAreAlone
    <2>6. ASSUME NEW k \in jobs', k.phase # "watch",
                 IsCurrent(k.slot, k.attempt)'
          PROVE  /\ sessions'[k.slot].state = "CONNECTING"
                 /\ sessions'[k.slot].params = "none"
                 /\ device'[k.slot] = NoDevice
                 /\ \A d \in callbacks' : d.slot = k.slot => d.attempt # k.attempt
      <3>1. k \in jobs /\ IsCurrent(k.slot, k.attempt)
        BY <2>1, <2>4, <2>5, <2>6
      <3>2. \A d \in callbacks : d.slot = k.slot => d.attempt # k.attempt
        BY <2>6, <3>1 DEF EarlyJobsAreAlone
      <3>3. k.slot # slot
        BY <1>2, <2>1, <3>1, <3>2 DEF IsCurrent
      <3> QED BY <2>1, <2>3, <2>5, <2>6, <3>1, <3>3 DEF EarlyJobsAreAlone
    <2>7. \A s \in Occupied' : sessions'[s].state = "CONNECTING" =>
              sessions'[s].connectedAt = "none"
      BY <2>2, <2>3 DEF Occupied, EarlyJobsAreAlone
    <2>8. EarlyJobsAreAlone'
      BY <2>1, <2>4, <2>5, <2>6, <2>7 DEF EarlyJobsAreAlone
    <2>9. /\ Phase' = [Phase EXCEPT ![slot] = sessions'[slot].state]
          /\ Left' = [Left EXCEPT ![slot] = MaxRetries - sessions'[slot].retries]
          /\ Spare' = [Spare EXCEPT ![slot] = ~sessions'[slot].relearned]
          /\ Stable' = [Stable EXCEPT ![slot] = IsStable(sessions'[slot])]
          /\ Number'[slot] = sessions'[slot].attempt
          /\ \A t \in Slot \ {slot} : Number'[t] = Number[t]
      BY <1>1, <2>3, SlotImage
    <2>10. Peer' = Peer
      BY <1>2, <2>1, <2>2, <2>3, SamePeer
    <2>11. /\ Phase[slot] = "CONNECTING"
           /\ Left[slot] = MaxRetries - sess.retries
           /\ Spare[slot] = ~sess.relearned
           /\ Number[slot] = sess.attempt
      BY <1>1, <1>2, <2>1, <2>2, ImageType DEF IInv
    <2>12. IsStable(sess) = FALSE
      BY <2>2 DEF IsStable
    <2>13. Supervisor!Becomes(slot, "CONNECTED", Left[slot], Spare[slot], FALSE)
      BY <2>2, <2>3, <2>9, <2>11, <2>12 DEF Supervisor!Becomes
    <2>14. Number' = Number
      <3>1. \A t \in Slot : Number'[t] = Number[t]
        BY <2>3, <2>9, <2>11
      <3> QED BY <3>1 DEF Number
    <2>15. Supervisor!Up(slot)
      BY <2>10, <2>11, <2>13, <2>14 DEF Supervisor!Up
    <2> QED BY <1>1, <2>8, <2>15 DEF Supervisor!Next, SupervisorStep
  <1>5. CASE WorkerDisconnected(c) /\ ~Ignored(c)
    <2> DEFINE sess == AfterDisconnect(sessions[c.slot])
    <2>1. /\ IsCurrent(c.slot, c.attempt)
          /\ Failed(c.slot, sess, jobs, playback)
          /\ callbacks' = callbacks \ {c}
      BY <1>5 DEF WorkerDisconnected
    <2>2. sessions[c.slot].state \in {"CONNECTING", "CONNECTED"}
      <3>1. sessions[c.slot].state # "ERROR"
        BY <1>2, <2>1 DEF IInv, ErrorIsQuiet
      <3> QED BY <1>2, <2>1, <3>1 DEF Session
    <2>3. sess \in Session
      BY <1>2, <2>1, RetryAssumption DEF AfterDisconnect, Session
    <2>4. /\ sess.host = sessions[c.slot].host
          /\ sess.relearned = sessions[c.slot].relearned
          /\ sess.retries = IF sessions[c.slot].connectedAt = "stable" THEN 0
                            ELSE sessions[c.slot].retries
      BY <1>2, <2>1 DEF AfterDisconnect, Session
    <2>5. sessions[c.slot].connectedAt = "stable" => IsStable(sessions[c.slot])
      BY <1>2, <2>1, <2>2 DEF IsStable, EarlyJobsAreAlone
    <2>6. Failing(c.slot, sess)
      BY <2>2, <2>4, <2>5 DEF Failing, IsStable
    <2>7. OthersOf(c.slot, jobs) /\ TakesCallbacksOf(c.slot)
      BY <2>1 DEF OthersOf, TakesCallbacksOf
    <2>8. Failed(c.slot, sess, jobs, playback)
      BY <2>1
    <2> HIDE DEF sess
    <2> QED BY <1>2, <2>1, <2>3, <2>6, <2>7, <2>8, FailedMaps DEF SupervisorStep
  <1> QED BY <1>3, <1>4, <1>5 DEF CallbackStep

\* The worker of a slot has been heard of: no early job drives the session.
LEMMA ReportKeepsEarly ==
    ASSUME IInv, TypeOK', EarlyJobsAreAlone, NEW slot \in Slot,
           device[slot] # NoDevice,
           NEW c, c.slot = slot, c.attempt = device[slot].attempt,
           callbacks' = callbacks \cup {c},
           \A t \in Slot \ {slot} : device'[t] = device[t],
           UNCHANGED <<sessions, nextAttempt, jobs>>
    PROVE  EarlyJobsAreAlone'
  <1>1. \A k \in jobs : k.slot \in Slot
    BY DEF IInv, TypeOK, Job
  <1>2. ASSUME NEW k \in jobs, k.phase # "watch", IsCurrent(k.slot, k.attempt)
        PROVE  /\ device'[k.slot] = NoDevice
               /\ \A d \in callbacks' : d.slot = k.slot => d.attempt # k.attempt
    <2>1. /\ device[k.slot] = NoDevice
          /\ \A d \in callbacks : d.slot = k.slot => d.attempt # k.attempt
      BY <1>2 DEF EarlyJobsAreAlone
    <2> QED BY <1>1, <2>1
  <1>3. \A t : \A a : IsCurrent(t, a)' <=> IsCurrent(t, a)
    BY DEF IsCurrent
  <1> QED BY <1>2, <1>3 DEF EarlyJobsAreAlone, Occupied

LEMMA WorkerMaps ==
    ASSUME IInv, TypeOK', EarlyJobsAreAlone, NEW slot \in Slot, Worker(slot)
    PROVE  EarlyJobsAreAlone' /\ SupervisorStep
  <1>1. CASE FirstFrame(slot) \/ StreamEnds(slot)
    <2>1. /\ device[slot] # NoDevice
          /\ \A t \in Slot \ {slot} : device'[t] = device[t]
          /\ UNCHANGED <<sessions, nextAttempt, jobs>>
      BY <1>1 DEF FirstFrame, StreamEnds, IInv, TypeOK
    <2>2. PICK kind \in {"connected", "disconnected"} :
            callbacks' = callbacks \cup
              {[kind |-> kind, slot |-> slot, attempt |-> device[slot].attempt]}
      BY <1>1 DEF FirstFrame, StreamEnds
    <2> DEFINE c == [kind |-> kind, slot |-> slot,
                     attempt |-> device[slot].attempt]
    <2>3. /\ c.slot = slot /\ c.attempt = device[slot].attempt
          /\ callbacks' = callbacks \cup {c}
      BY <2>2
    <2> HIDE DEF c
    <2>4. EarlyJobsAreAlone'
      BY <2>1, <2>3, ReportKeepsEarly
    <2>5. UNCHANGED Supervisor!vars
      BY <2>1, SameImage
    <2> QED BY <2>4, <2>5 DEF SupervisorStep
  <1>2. CASE Elapse(slot)
    <2>1. /\ slot \in Occupied /\ sessions[slot] \in Session
          /\ sessions[slot] # NoSession
          /\ sessions[slot].connectedAt \in {"early", "middle"}
          /\ UNCHANGED <<nextAttempt, jobs, device, callbacks>>
      BY <1>2 DEF Elapse, Occupied, IInv, TypeOK
    <2>2. PICK age \in {"middle", "stable"} :
            sessions' = [sessions EXCEPT ![slot] =
                            [sessions[slot] EXCEPT !.connectedAt = age]]
      BY <1>2 DEF Elapse
    <2> DEFINE now == [sessions[slot] EXCEPT !.connectedAt = age]
    <2>3. /\ now \in Session /\ now.connectedAt = age
          /\ now.host = sessions[slot].host
          /\ now.attempt = sessions[slot].attempt
          /\ now.state = sessions[slot].state
          /\ now.params = sessions[slot].params
          /\ now.relearned = sessions[slot].relearned
          /\ now.retries = sessions[slot].retries
      BY <2>1 DEF Session
    <2>4. sessions' = [sessions EXCEPT ![slot] = now]
      BY <2>2
    <2> HIDE DEF now
    <2>5. /\ sessions'[slot] = now /\ now # NoSession
          /\ \A t \in Slot \ {slot} : sessions'[t] = sessions[t]
      BY <2>3, <2>4, NoneAssumption DEF IInv, TypeOK
    <2>6. sessions[slot].state # "CONNECTING"
      BY <2>1 DEF EarlyJobsAreAlone
    <2>7. QuietStep
      BY <2>1, <2>3, <2>5, <2>6 DEF QuietStep
    <2>8. EarlyJobsAreAlone'
      BY <2>7, QuietKeepsEarly
    <2>9. IsStable(sessions[slot]) = FALSE
      BY <2>1 DEF IsStable
    <2>10. CASE IsStable(now) = FALSE
      <3>1. UNCHANGED Supervisor!vars
        BY <2>1, <2>3, <2>5, <2>9, <2>10, SameImage
      <3> QED BY <2>8, <3>1 DEF SupervisorStep
    <2>11. CASE IsStable(now) = TRUE
      <3>1. /\ Phase' = [Phase EXCEPT ![slot] = sessions'[slot].state]
            /\ Left' = [Left EXCEPT ![slot] = MaxRetries - sessions'[slot].retries]
            /\ Spare' = [Spare EXCEPT ![slot] = ~sessions'[slot].relearned]
            /\ Stable' = [Stable EXCEPT ![slot] = IsStable(sessions'[slot])]
            /\ Number'[slot] = sessions'[slot].attempt
            /\ \A t \in Slot \ {slot} : Number'[t] = Number[t]
        BY <2>5, SlotImage
      <3>2. Peer' = Peer
        BY <2>1, <2>3, <2>5, SamePeer
      <3>3. now.state = "CONNECTED"
        BY <2>11 DEF IsStable
      <3>4. /\ Phase[slot] = "CONNECTED"
            /\ Left[slot] = MaxRetries - now.retries
            /\ Spare[slot] = ~now.relearned
            /\ Number[slot] = now.attempt
        BY <2>1, <2>3, <3>3, ImageType DEF IInv
      <3>5. Supervisor!Becomes(slot, "CONNECTED", Left[slot], Spare[slot], TRUE)
        BY <2>5, <2>11, <3>1, <3>3, <3>4 DEF Supervisor!Becomes
      <3>6. Number' = Number
        <4>1. \A t \in Slot : Number'[t] = Number[t]
          BY <2>5, <3>1, <3>4
        <4> QED BY <4>1 DEF Number
      <3>7. Supervisor!Prove(slot)
        BY <3>2, <3>4, <3>5, <3>6 DEF Supervisor!Prove
      <3> QED BY <2>8, <3>7 DEF Supervisor!Next, SupervisorStep
    <2>12. IsStable(now) \in BOOLEAN
      BY DEF IsStable
    <2> QED BY <2>10, <2>11, <2>12
  <1> QED BY <1>1, <1>2 DEF Worker

-----------------------------------------------------------------------------
(* The refinement *)

LEMMA InitMaps == Init => EarlyJobsAreAlone /\ Supervisor!Init
  <1> SUFFICES ASSUME Init PROVE EarlyJobsAreAlone /\ Supervisor!Init
    OBVIOUS
  <1>1. Occupied = {} /\ jobs = {}
    BY DEF Init, Occupied
  <1>2. EarlyJobsAreAlone
    BY <1>1 DEF EarlyJobsAreAlone
  <1>3. /\ Phase = [s \in Slot |-> "idle"] /\ Peer = [s \in Slot |-> NoSession]
        /\ Left = [s \in Slot |-> 0] /\ Number = [s \in Slot |-> 0]
    BY <1>1 DEF Phase, Peer, Left, Number
  <1>4. Spare = [s \in Slot |-> FALSE]
    BY <1>1 DEF Spare
  <1>5. Stable = [s \in Slot |-> FALSE]
    BY <1>1 DEF Stable
  <1> QED BY <1>2, <1>3, <1>4, <1>5 DEF Supervisor!Init

LEMMA NextMaps ==
    IInv /\ TypeOK' /\ EarlyJobsAreAlone /\ [Next]_vars =>
    EarlyJobsAreAlone' /\ SupervisorStep
  <1> SUFFICES ASSUME IInv, TypeOK', EarlyJobsAreAlone, [Next]_vars
               PROVE  EarlyJobsAreAlone' /\ SupervisorStep
    OBVIOUS
  <1>1. CASE UNCHANGED vars
    <2>1. QuietStep
      BY <1>1 DEF vars, QuietStep
    <2>2. UNCHANGED Supervisor!vars
      BY <1>1, SameImage DEF vars
    <2> QED BY <2>1, <2>2, QuietKeepsEarly DEF SupervisorStep
  <1> QED BY <1>1, UserMaps, JobMaps, CallbackMaps, WorkerMaps DEF Next

LEMMA EarlyInvariance == Spec => []EarlyJobsAreAlone
  <1>1. Init => EarlyJobsAreAlone
    BY InitMaps
  <1>2. IInv /\ IInv' /\ EarlyJobsAreAlone /\ [Next]_vars => EarlyJobsAreAlone'
    BY NextMaps DEF IInv
  <1> QED BY <1>1, <1>2, Invariance, PTL DEF Spec

\* The controller implements SessionSupervisor: whatever coroutines, callbacks
\* and workers do in between, an attempt the user has not asked for costs a
\* retry or the one re-learning, and only a stable connection earns them back
\* (MultiController.kt:94-166).
THEOREM Refines == Spec => ImplementsSupervisor
  <1>1. Init => Supervisor!Init
    BY InitMaps
  <1>2. IInv /\ IInv' /\ EarlyJobsAreAlone /\ [Next]_vars =>
          [Supervisor!Next]_(Supervisor!vars)
    BY NextMaps DEF IInv, SupervisorStep
  <1> QED BY <1>1, <1>2, Invariance, EarlyInvariance, PTL
          DEF Spec, ImplementsSupervisor, Supervisor!Spec

-----------------------------------------------------------------------------
(* The fallback to dummy video *)

FallbackStep ==
    \A s \in Slot :
        (/\ sessions[s] # NoSession /\ sessions'[s] # NoSession
         /\ sessions[s].state = "CONNECTED"
         /\ sessions[s].connectedAt = "early"
         /\ sessions[s].params = "audioOnly"
         /\ sessions'[s].state # "CONNECTED")
        => \/ sessions[s].host \in Advertising
           \/ ~UseAudioOnly(sessions[s].host)'

\* Only a step that restarts a connected session has something to show.
LEMMA OthersStay ==
    ASSUME NEW slot \in Slot, Restarts(slot),
           sessions[slot] = NoSession \/ sessions[slot].state # "CONNECTED"
    PROVE  FallbackStep
  BY DEF Restarts, FallbackStep

LEMMA UserFallsBack ==
    ASSUME IInv, TypeOK', User PROVE FallbackStep
  <1>0. TypeOK /\ nextAttempt + 1 \in Nat /\ nextAttempt < nextAttempt + 1
    BY DEF IInv, TypeOK
  <1>1. ASSUME NEW slot \in Slot, Reconnect(slot)
        PROVE  FallbackStep
    <2> DEFINE sess == [sessions[slot] EXCEPT !.retries = 0,
                                              !.relearned = FALSE]
    <2>1. /\ sessions[slot] \in Session /\ 0 \in 0 .. MaxRetries
          /\ sessions[slot].state = "ERROR"
      BY <1>1, RetryAssumption DEF Reconnect, Occupied, IInv, TypeOK
    <2>2. sess \in Session
      BY <2>1 DEF Session
    <2>3. StartAttempt(slot, sess, nextAttempt + 1, "info", jobs)
      BY <1>1 DEF Reconnect
    <2> HIDE DEF sess
    <2>4. Restarts(slot)
      BY <1>0, <2>2, <2>3, StartAttemptRestarts DEF OthersOf
    <2> QED BY <2>1, <2>4, OthersStay
  <1>2. ASSUME NEW host \in Host, Connect(host)
        PROVE  FallbackStep
    <2>1. PICK slot \in Slot \ Occupied :
            StartAttempt(slot, NewSession(host), nextAttempt + 1, "info", jobs)
      BY <1>2 DEF Connect
    <2>2. Restarts(slot)
      BY <1>0, <2>1, NewSessionType, StartAttemptRestarts DEF OthersOf
    <2> QED BY <2>1, <2>2, OthersStay DEF Occupied
  <1>3. ASSUME NEW S \in SUBSET Slot, DisconnectSessions(S)
        PROVE  FallbackStep
    BY <1>3 DEF DisconnectSessions, FallbackStep
  <1>4. ASSUME NEW slot \in Occupied, NEW sess \in Session,
               sess.state = sessions[slot].state, ApplyGain(slot, sess)
        PROVE  FallbackStep
    BY <1>0, <1>4 DEF ApplyGain, FallbackStep, TypeOK
  <1>5. ASSUME NEW slot \in Slot, NEW muted \in MuteRequests,
               SetMuted(slot, muted)
        PROVE  FallbackStep
    <2> DEFINE sess == [sessions[slot] EXCEPT !.muted = muted]
    <2>1. sessions[slot] \in Session /\ slot \in Occupied
      BY <1>5 DEF SetMuted, Occupied, IInv, TypeOK
    <2>2. sess \in Session /\ sess.state = sessions[slot].state
      BY <2>1, VolumeAssumption DEF Session
    <2>3. ApplyGain(slot, sess)
      BY <1>5 DEF SetMuted
    <2> HIDE DEF sess
    <2> QED BY <1>4, <2>1, <2>2, <2>3
  <1>6. ASSUME NEW slot \in Slot, NEW volume \in VolumeRequests,
               SetVolume(slot, volume)
        PROVE  FallbackStep
    <2> DEFINE sess == [sessions[slot] EXCEPT !.volume = CoerceIn(volume)]
    <2>1. sessions[slot] \in Session /\ slot \in Occupied
      BY <1>6 DEF SetVolume, Occupied, IInv, TypeOK
    <2>2. CoerceIn(volume) \in Volume
      BY <1>6, VolumeAssumption DEF SetVolume, CoerceIn, Volume
    <2>3. sess \in Session /\ sess.state = sessions[slot].state
      BY <2>1, <2>2 DEF Session
    <2>4. ApplyGain(slot, sess)
      BY <1>6 DEF SetVolume
    <2> HIDE DEF sess
    <2> QED BY <1>4, <2>1, <2>3, <2>4
  <1> QED BY <1>1, <1>2, <1>3, <1>5, <1>6
          DEF User, Disconnect, DisconnectHost, StopAll, Occupied

\* A job restarts no session that is connected.
LEMMA JobFallsBack ==
    ASSUME IInv, TypeOK', EarlyJobsAreAlone, NEW j \in jobs, JobStep(j)
    PROVE  FallbackStep
  <1>0. TypeOK /\ nextAttempt + 1 \in Nat /\ nextAttempt < nextAttempt + 1
    BY DEF IInv, TypeOK
  <1>1. j.slot \in Slot /\ OthersOf(j.slot, jobs \ {j})
    BY DEF IInv, TypeOK, Job, OthersOf
  <1>2. IsCurrent(j.slot, j.attempt) =>
          /\ sessions[j.slot] \in Session
          /\ j.phase # "watch" => sessions[j.slot].state = "CONNECTING"
    BY <1>1 DEF EarlyJobsAreAlone, IsCurrent, IInv, TypeOK
  <1>3. UNCHANGED sessions => FallbackStep
    BY DEF FallbackStep
  <1>4. ASSUME NEW sess \in Session, NEW held,
               Failed(j.slot, sess, jobs \ {j}, held),
               sessions[j.slot].state = "CONNECTING"
        PROVE  FallbackStep
    BY <1>0, <1>1, <1>4, FailedRestarts, OthersStay
  <1>5. CASE WaitOver(j) \/ ServerInfo(j) \/ JobReturns(j)
    BY <1>3, <1>5 DEF WaitOver, ServerInfo, JobReturns
  <1>6. CASE PrepareReturns(j) /\ ~JobReturns(j)
    <2> DEFINE sess == [sessions[j.slot] EXCEPT !.params =
                          IF j.audioOnly THEN "audioOnly" ELSE "dummyVideo"]
    <2>1. /\ StartWorker(j, sess) /\ sessions[j.slot] \in Session
          /\ sessions[j.slot].state = "CONNECTING"
      BY <1>2, <1>6 DEF PrepareReturns
    <2>2. sess \in Session
      BY <2>1 DEF Session
    <2>3. StartWorker(j, sess)
      BY <2>1
    <2> HIDE DEF sess
    <2>4. CASE sessions' = [sessions EXCEPT ![j.slot] = sess]
      BY <1>0, <1>1, <2>1, <2>4 DEF FallbackStep, TypeOK
    <2> QED BY <1>4, <2>1, <2>2, <2>3, <2>4 DEF StartWorker
  <1>7. CASE PrepareFails(j)
    BY <1>2, <1>4, <1>5, <1>7 DEF PrepareFails
  <1>8. CASE LaunchRejected(j)
    <2> DEFINE sess == [sessions[j.slot] EXCEPT !.relearned = TRUE]
    <2>1. sessions[j.slot] \in Session /\ sessions[j.slot].state = "CONNECTING"
      BY <1>2, <1>8 DEF LaunchRejected
    <2>2. CASE StartAttempt(j.slot, sess, nextAttempt + 1, "info", jobs \ {j})
      <3>1. sess \in Session
        BY <2>1 DEF Session
      <3>2. StartAttempt(j.slot, sess, nextAttempt + 1, "info", jobs \ {j})
        BY <2>2
      <3> HIDE DEF sess
      <3>3. Restarts(j.slot)
        BY <1>0, <1>1, <3>1, <3>2, StartAttemptRestarts
      <3> QED BY <1>1, <2>1, <3>3, OthersStay
    <2>3. CASE Failed(j.slot, sessions[j.slot], jobs \ {j}, playback)
      BY <1>4, <2>1, <2>3
    <2> QED BY <1>8, <2>2, <2>3 DEF LaunchRejected
  <1>9. CASE WatchOver(j)
    BY <1>2, <1>4, <1>5, <1>9 DEF WatchOver
  <1> QED BY <1>5, <1>6, <1>7, <1>8, <1>9 DEF JobStep

\* What is remembered of a host that does not serve audio only is found again
\* under the key that is looked up first.
LEMMA NoAudioOnlyAgain ==
    ASSUME TypeOK, TypeOK', NEW host \in Host,
           SetAudioOnly(host, UidOf[host], FALSE)
    PROVE  host \in Advertising \/ ~UseAudioOnly(host)'
  <1>1. ipCap'[host] = "no"
    BY DEF SetAudioOnly, TypeOK
  <1>2. UidOf[host] # NoUid => uidCap'[UidOf[host]] = "no"
    BY UidAssumption DEF SetAudioOnly, TypeOK
  <1> QED BY <1>1, <1>2 DEF UseAudioOnly, AudioOnly

LEMMA CallbackFallsBack ==
    ASSUME IInv, TypeOK', NEW c \in callbacks, CallbackStep(c)
    PROVE  FallbackStep
  <1>0. TypeOK /\ c.slot \in Slot
    BY DEF IInv, TypeOK, Callback
  <1>1. IsCurrent(c.slot, c.attempt) => sessions[c.slot] \in Session
    BY <1>0 DEF IsCurrent, TypeOK
  <1>2. CASE Ignored(c)
    BY <1>2 DEF Ignored, FallbackStep
  <1>3. CASE WorkerConnected(c) /\ ~Ignored(c)
    <2>1. /\ sessions[c.slot].state = "CONNECTING"
          /\ \A t \in Slot \ {c.slot} : sessions'[t] = sessions[t]
      BY <1>0, <1>3 DEF WorkerConnected, ApplyGain, TypeOK
    <2> QED BY <2>1 DEF FallbackStep
  <1>4. CASE WorkerDisconnected(c) /\ ~Ignored(c)
    <2> DEFINE sess == AfterDisconnect(sessions[c.slot])
    <2>1. /\ sessions[c.slot] \in Session
          /\ Failed(c.slot, sess, jobs, playback)
      BY <1>1, <1>4 DEF WorkerDisconnected
    <2>2. sess \in Session
      BY <2>1, RetryAssumption DEF AfterDisconnect, Session
    <2>3. Failed(c.slot, sess, jobs, playback)
      BY <2>1
    <2>4. sess.host = sessions[c.slot].host
      BY <2>1 DEF AfterDisconnect, Session
    <2> HIDE DEF sess
    <2>5. Restarts(c.slot)
      BY <1>0, <2>2, <2>3, FailedRestarts DEF OthersOf
    <2>6. CASE /\ sessions[c.slot].connectedAt = "early"
               /\ sessions[c.slot].params = "audioOnly"
      <3>1. PICK host \in Host : host = sessions[c.slot].host
        BY <2>1 DEF Session
      <3>2. SetAudioOnly(host, UidOf[host], FALSE)
        BY <1>4, <2>6, <3>1 DEF WorkerDisconnected, ParamsUid
      <3>3. host \in Advertising \/ ~UseAudioOnly(host)'
        BY <1>0, <3>2, NoAudioOnlyAgain
      <3>4. sessions'[c.slot].host = host
        BY <1>0, <2>2, <2>3, <2>4, <3>1, FailedRestarts DEF OthersOf
      <3>5. ~UseAudioOnly(host)' => ~UseAudioOnly(sessions[c.slot].host)'
        BY <3>4 DEF UseAudioOnly, AudioOnly
      <3> QED BY <2>5, <3>1, <3>3, <3>5 DEF Restarts, FallbackStep
    <2>7. CASE ~(/\ sessions[c.slot].connectedAt = "early"
                 /\ sessions[c.slot].params = "audioOnly")
      BY <2>5, <2>7 DEF Restarts, FallbackStep
    <2> QED BY <2>6, <2>7
  <1> QED BY <1>2, <1>3, <1>4 DEF CallbackStep

LEMMA WorkerFallsBack ==
    ASSUME IInv, NEW slot \in Slot, Worker(slot)
    PROVE  FallbackStep
  <1>1. CASE FirstFrame(slot) \/ StreamEnds(slot)
    BY <1>1 DEF FirstFrame, StreamEnds, FallbackStep
  <1>2. CASE Elapse(slot)
    <2>1. sessions[slot] \in Session
      BY <1>2 DEF Elapse, Occupied, IInv, TypeOK
    <2>2. PICK age \in {"middle", "stable"} :
            sessions' = [sessions EXCEPT ![slot] =
                            [sessions[slot] EXCEPT !.connectedAt = age]]
      BY <1>2 DEF Elapse
    <2>3. \A s \in Slot : /\ sessions'[s] = sessions[s] \/ s = slot
                         /\ sessions'[slot].state = sessions[slot].state
      BY <2>1, <2>2 DEF IInv, TypeOK, Session
    <2> QED BY <2>3 DEF FallbackStep
  <1> QED BY <1>1, <1>2 DEF Worker

\* An audio-only stream that dies within 20 s of its first frame is not asked
\* for again, whatever the store held under the other key of the host
\* (MultiController.kt:145-151, HostCapabilities.kt).
THEOREM FallsBack == Spec => FallbackTakesEffect
  <1>1. IInv /\ IInv' /\ EarlyJobsAreAlone /\ [Next]_vars => [FallbackStep]_vars
    <2> SUFFICES ASSUME IInv, TypeOK', EarlyJobsAreAlone, Next
                 PROVE  FallbackStep
      BY DEF IInv
    <2> QED BY UserFallsBack, JobFallsBack, CallbackFallsBack, WorkerFallsBack
            DEF Next
  <1> QED BY <1>1, Invariance, EarlyInvariance, PTL
          DEF Spec, FallbackTakesEffect, FallbackStep

=============================================================================
