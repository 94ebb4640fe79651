------------------------- MODULE MoonToneController -------------------------
(***************************************************************************)
(* The lifecycle of the single-device session of the main process          *)
(* (control/MoonToneController.kt).                                        *)
(*                                                                         *)
(* Requests run on threads of the caller's choice, one at a time under     *)
(* launchMutex; the stretch that replaces one session by the next is under *)
(* sessionLock.  The connection ends on a thread of its own, which takes   *)
(* neither: it posts a clean-up for the session that is active then.  A    *)
(* fallback job polls the connection and may launch again on its own.      *)
(*                                                                         *)
(* The connection is abstract here: MoonToneConnection under a generation. *)
(* A cancelled coroutine is one whose generation is not the last: whoever  *)
(* cancels one has drawn a new generation first, and everything a job does *)
(* after a suspension point tests for that.                                *)
(***************************************************************************)
EXTENDS Integers, FiniteSets

CONSTANTS
    MaxGeneration,    \* bound: no request or disconnect past it
    Advertising,      \* what the hosts may say of themselves in /serverinfo
    StoredCaps        \* what the capability store may hold at start

ASSUME BoundAssumption == MaxGeneration \in Nat
ASSUME CapAssumption   == /\ Advertising \subseteq BOOLEAN
                          /\ StoredCaps \subseteq BOOLEAN

VARIABLES
    connectGeneration,
    activeSession,    \* activeSessionGeneration
    held,             \* keep-alive, renderer, playback of the session
    lock,             \* generation whose pipeline holds sessionLock, 0 for none
    jobs,             \* coroutines of requests and fallbacks
    state, error,     \* what the connection shows
    cleanups,         \* clean-ups posted for each generation and not yet run
    audioOnlyCap,     \* HostCapabilities.audioOnly of the host
    served,           \* history: generation of the last connect()
    dropped,          \* history: generation drawn by the last disconnect()
    launches,         \* history: /launch requests made for each generation
    died              \* history: generations whose connection was lost

connection == <<state, error, served>>
session    == <<activeSession, held>>
vars == <<connectGeneration, session, lock, jobs, connection, cleanups,
          audioOnlyCap, dropped, launches, died>>

Gen == Nat \ {0}
Kind == {"launch", "manual", "fallback"}

\* A job waits for launchMutex, then holds it from "info" to "started"; a
\* fallback starts by watching the connection it may have to replace.
Job == [gen : Gen, kind : Kind,
        phase : {"watch", "waiting", "info", "launch", "lock", "connect", "started"},
        allowFallback : BOOLEAN, audioOnly : BOOLEAN, seen : BOOLEAN,
        age : {"young", "middle", "old"}]

NewJob(g, k, p) ==
    [gen |-> g, kind |-> k, phase |-> p, allowFallback |-> k = "launch",
     audioOnly |-> FALSE, seen |-> FALSE, age |-> "young"]

\* The connection holds an attempt, in the sense of MoonToneConnection.
Up == state \in {"CONNECTING", "CONNECTED"}

HoldsMutex(j)  == j.phase \in {"info", "launch", "lock", "connect", "started"}
Current(j)     == j.gen = connectGeneration
Becomes(j, k)  == jobs' = (jobs \ {j}) \cup {k}
Finishes(j)    == jobs' = jobs \ {j}
To(j, p)       == [j EXCEPT !.phase = p]

\* cleanupSession().
Released == /\ activeSession' = 0
            /\ held' = FALSE

\* connection.disconnect().
Disconnected == /\ state' = "DISCONNECTED"
                /\ UNCHANGED served

\* A job ends with an exception.  The fallback shows it, unless it has been
\* cancelled; for a launch its caller may (connectAsync) or may show it elsewhere.
Complains(j) ==
    error' \in (IF j.kind = "fallback" /\ Current(j) THEN {} ELSE {error})
               \cup (IF j.kind = "manual" THEN {} ELSE {"other"})

(***************************************************************************)
(* Requests.                                                               *)
(***************************************************************************)

\* Faulty: the request gets the number of the one before it.
RequestOldNumber(k) ==
    /\ connectGeneration < MaxGeneration
    /\ connectGeneration' = connectGeneration + 1
    /\ jobs' = jobs \cup {NewJob(connectGeneration, k, "waiting")}
    /\ UNCHANGED <<session, lock, connection, cleanups, audioOnlyCap, dropped,
                   launches, died>>

\* launchAndConnect() and connectManually().
Request(k) ==
    /\ connectGeneration < MaxGeneration
    /\ connectGeneration' = connectGeneration + 1
    /\ jobs' = jobs \cup {NewJob(connectGeneration + 1, k, "waiting")}
    /\ UNCHANGED <<session, lock, connection, cleanups, audioOnlyCap, dropped,
                   launches, died>>

Disconnect ==
    /\ lock = 0
    /\ connectGeneration < MaxGeneration
    /\ connectGeneration' = connectGeneration + 1
    /\ dropped' = connectGeneration + 1
    /\ Released
    /\ Disconnected
    /\ UNCHANGED <<lock, jobs, error, cleanups, audioOnlyCap, launches, died>>

\* The mutex is free and the job goes on if it is still wanted; a manual
\* connection asks only later whether it is.
Acquire(j) ==
    /\ j.phase = "waiting"
    /\ ~\E k \in jobs : HoldsMutex(k)
    /\ \/ /\ j.kind = "manual"
          /\ Becomes(j, To(j, "info"))
          /\ UNCHANGED error
       \/ /\ j.kind # "manual" /\ Current(j)
          /\ Becomes(j, To(j, "info"))
          /\ error' = "none"
       \/ /\ j.kind # "manual" /\ ~Current(j)
          /\ Finishes(j)
          /\ UNCHANGED error
    /\ UNCHANGED <<connectGeneration, session, lock, state, served, cleanups,
                   audioOnlyCap, dropped, launches, died>>

\* /serverinfo answers, and the kind of session to ask for is settled.
ServerInfo(j, advertised) ==
    LET k == [j EXCEPT !.audioOnly = advertised \/ audioOnlyCap]
    IN  /\ j.phase = "info"
        /\ IF ~Current(j)
           THEN Finishes(j) /\ UNCHANGED launches
           ELSE IF j.kind = "manual"
                THEN Becomes(j, To(k, "lock")) /\ UNCHANGED launches
                ELSE /\ Becomes(j, To(k, "launch"))
                     /\ launches' = [launches EXCEPT ![j.gen] = @ + 1]
        /\ UNCHANGED <<connectGeneration, session, lock, connection, cleanups,
                       audioOnlyCap, dropped, died>>

LaunchReturns(j) ==
    /\ j.phase = "launch"
    /\ IF Current(j) THEN Becomes(j, To(j, "lock")) ELSE Finishes(j)
    /\ UNCHANGED <<connectGeneration, session, lock, connection, cleanups,
                   audioOnlyCap, dropped, launches, died>>

\* Faulty: the second launch may be rejected like the first.
LaunchRejectedAgain(j) ==
    /\ j.phase = "launch"
    /\ ~j.audioOnly
    /\ j.allowFallback
    /\ audioOnlyCap' = TRUE
    /\ IF Current(j) THEN Becomes(j, To(j, "info")) ELSE Finishes(j)
    /\ error' = IF Current(j) THEN "none" ELSE error
    /\ UNCHANGED <<connectGeneration, session, lock, state, served, cleanups,
                   dropped, launches, died>>

\* /launch answers 503: the host is re-learned and the launch repeated, with
\* the mutex still held.
LaunchRejected(j) ==
    /\ j.phase = "launch"
    /\ ~j.audioOnly
    /\ j.allowFallback
    /\ audioOnlyCap' = TRUE
    /\ IF Current(j)
       THEN Becomes(j, [To(j, "info") EXCEPT !.allowFallback = FALSE])
       ELSE Finishes(j)
    /\ error' = IF Current(j) THEN "none" ELSE error
    /\ UNCHANGED <<connectGeneration, session, lock, state, served, cleanups,
                   dropped, launches, died>>

\* An exchange with the host fails, or the caller gives up waiting for it.
ExchangeFails(j) ==
    /\ j.phase \in {"info", "launch"}
    /\ Finishes(j)
    /\ Complains(j)
    /\ UNCHANGED <<connectGeneration, session, lock, state, served, cleanups,
                   audioOnlyCap, dropped, launches, died>>

(***************************************************************************)
(* startPipeline(), under sessionLock.                                     *)
(***************************************************************************)

\* Faulty: the generation is not tested again under the lock.
PipelineBeginsUnchecked(j) ==
    /\ j.phase = "lock"
    /\ lock = 0
    /\ Becomes(j, To(j, "connect"))
    /\ lock' = j.gen
    /\ activeSession' = j.gen
    /\ held' = TRUE
    /\ UNCHANGED <<connectGeneration, connection, cleanups, audioOnlyCap, dropped,
                   launches, died>>

\* The old session is released and the new one takes its resources.
PipelineBegins(j) ==
    /\ j.phase = "lock"
    /\ lock = 0
    /\ IF Current(j)
       THEN /\ Becomes(j, To(j, "connect"))
            /\ lock' = j.gen
            /\ activeSession' = j.gen
            /\ held' = TRUE
       ELSE Finishes(j) /\ UNCHANGED <<session, lock>>
    /\ UNCHANGED <<connectGeneration, connection, cleanups, audioOnlyCap, dropped,
                   launches, died>>

\* Faulty: resources taken before the failure are kept.
PipelineThrowsKeeping(j) ==
    /\ j.phase = "connect"
    /\ Finishes(j)
    /\ lock' = 0
    /\ Disconnected
    /\ Complains(j)
    /\ UNCHANGED <<connectGeneration, session, cleanups, audioOnlyCap, dropped,
                   launches, died>>

\* The audio service, the renderer or connect() throws.
PipelineThrows(j) ==
    /\ j.phase = "connect"
    /\ Finishes(j)
    /\ lock' = 0
    /\ Released
    /\ Disconnected
    /\ Complains(j)
    /\ UNCHANGED <<connectGeneration, cleanups, audioOnlyCap, dropped, launches,
                   died>>

ConnectionConnect(j) ==
    /\ j.phase = "connect"
    /\ Becomes(j, To(j, "started"))
    /\ state' = "CONNECTING"
    /\ error' = "none"
    /\ served' = j.gen
    /\ UNCHANGED <<connectGeneration, session, lock, cleanups, audioOnlyCap, dropped,
                   launches, died>>

\* An audio-only session gets a job that watches for its early death.
PipelineEnds(j) ==
    /\ j.phase = "started"
    /\ jobs' = (jobs \ {j}) \cup
                 IF j.allowFallback /\ j.audioOnly
                 THEN {NewJob(j.gen, "fallback", "watch")} ELSE {}
    /\ lock' = 0
    /\ UNCHANGED <<connectGeneration, session, connection, cleanups, audioOnlyCap,
                   dropped, launches, died>>

(***************************************************************************)
(* The fallback's watch.                                                   *)
(***************************************************************************)

\* Time passes 5 s, then 20 s, from the start of the watch.
Age(j) ==
    /\ j.phase = "watch"
    /\ j.age # "old"
    /\ Becomes(j, [j EXCEPT !.age = IF @ = "young" THEN "middle" ELSE "old"])
    /\ UNCHANGED <<connectGeneration, session, lock, connection, cleanups,
                   audioOnlyCap, dropped, launches, died>>

\* Faulty: any end of the connection counts as a death.
DiedEarlyAnyhow(j) == j.seen /\ j.age # "old"

DiedEarly(j) == j.seen /\ j.age # "old" /\ error = "terminated"

Poll(j) ==
    /\ j.phase = "watch"
    /\ \/ /\ ~Current(j)
          /\ Finishes(j)
          /\ UNCHANGED audioOnlyCap
       \/ /\ Current(j)
          /\ state = "CONNECTED"
          /\ ~j.seen
          /\ Becomes(j, [j EXCEPT !.seen = TRUE])
          /\ UNCHANGED audioOnlyCap
       \/ /\ Current(j)
          /\ ~Up
          /\ j.seen \/ j.age # "young"
          /\ IF DiedEarly(j) /\ audioOnlyCap
             THEN Becomes(j, To(j, "waiting")) /\ audioOnlyCap' = FALSE
             ELSE Finishes(j) /\ UNCHANGED audioOnlyCap
    /\ UNCHANGED <<connectGeneration, session, lock, connection, cleanups, dropped,
                   launches, died>>

(***************************************************************************)
(* The connection, and what its end posts.                                 *)
(***************************************************************************)

ConnectionStarted ==
    /\ state = "CONNECTING"
    /\ state' = "CONNECTED"
    /\ error' = "none"
    /\ UNCHANGED <<connectGeneration, session, lock, jobs, served, cleanups,
                   audioOnlyCap, dropped, launches, died>>

\* onTerminated(): the session is read without sessionLock.
OnTerminated ==
    cleanups' = IF activeSession = 0 THEN cleanups
                ELSE [cleanups EXCEPT ![activeSession] = @ + 1]

\* Faulty: a connection that never came up has nothing to clean up.
ConnectionFailsSilently ==
    /\ state = "CONNECTING"
    /\ state' = "ERROR"
    /\ error' = "other"
    /\ UNCHANGED <<connectGeneration, session, lock, jobs, served, cleanups,
                   audioOnlyCap, dropped, launches, died>>

ConnectionFails ==
    /\ state = "CONNECTING"
    /\ state' = "ERROR"
    /\ error' = "other"
    /\ OnTerminated
    /\ UNCHANGED <<connectGeneration, session, lock, jobs, served, audioOnlyCap,
                   dropped, launches, died>>

\* The peer ends the connection, gracefully or not.
ConnectionTerminated(graceful) ==
    /\ Up
    /\ state' = "DISCONNECTED"
    /\ error' = IF graceful THEN error ELSE "terminated"
    /\ died' = IF state = "CONNECTED" /\ ~graceful THEN died \cup {served} ELSE died
    /\ OnTerminated
    /\ UNCHANGED <<connectGeneration, session, lock, jobs, served, audioOnlyCap,
                   dropped, launches>>

Cleanup(g) ==
    /\ cleanups[g] > 0
    /\ lock = 0
    /\ cleanups' = [cleanups EXCEPT ![g] = @ - 1]
    /\ IF activeSession = g THEN Released ELSE UNCHANGED session
    /\ UNCHANGED <<connectGeneration, lock, jobs, connection, audioOnlyCap, dropped,
                   launches, died>>

-----------------------------------------------------------------------------
Init ==
    /\ connectGeneration = 0
    /\ activeSession = 0 /\ held = FALSE
    /\ lock = 0
    /\ jobs = {}
    /\ state = "DISCONNECTED" /\ error = "none"
    /\ cleanups = [g \in 1 .. MaxGeneration |-> 0]
    /\ audioOnlyCap \in StoredCaps
    /\ served = 0 /\ dropped = 0
    /\ launches = [g \in 1 .. MaxGeneration |-> 0]
    /\ died = {}

Pipeline(j) == \/ PipelineBegins(j) \/ PipelineThrows(j)
               \/ ConnectionConnect(j) \/ PipelineEnds(j)

JobStep(j) ==
    \/ Acquire(j) \/ LaunchReturns(j) \/ LaunchRejected(j) \/ ExchangeFails(j)
    \/ \E advertised \in Advertising : ServerInfo(j, advertised)
    \/ Pipeline(j) \/ Age(j) \/ Poll(j)

ConnectionStep ==
    \/ ConnectionStarted \/ ConnectionFails
    \/ \E graceful \in BOOLEAN : ConnectionTerminated(graceful)

Next ==
    \/ \E k \in {"launch", "manual"} : Request(k)
    \/ Disconnect
    \/ \E j \in jobs : JobStep(j)
    \/ ConnectionStep
    \/ \E g \in 1 .. MaxGeneration : Cleanup(g)

Spec == Init /\ [][Next]_vars

\* A posted clean-up runs, and a thread in startPipeline() gets through it.
Fairness ==
    /\ WF_vars(\E g \in 1 .. MaxGeneration : Cleanup(g))
    /\ WF_vars(\E j \in jobs : Pipeline(j))

FairSpec == Spec /\ Fairness

-----------------------------------------------------------------------------
TypeOK ==
    /\ connectGeneration \in 0 .. MaxGeneration
    /\ activeSession \in 0 .. connectGeneration
    /\ held \in BOOLEAN
    /\ lock \in 0 .. connectGeneration
    /\ jobs \subseteq Job
    /\ \A j \in jobs : j.gen <= connectGeneration
    /\ state \in {"DISCONNECTED", "CONNECTING", "CONNECTED", "ERROR"}
    /\ error \in {"none", "terminated", "other"}
    /\ cleanups \in [1 .. MaxGeneration -> Nat]
    /\ audioOnlyCap \in BOOLEAN
    /\ served \in 0 .. connectGeneration
    /\ dropped \in 0 .. connectGeneration
    /\ launches \in [1 .. MaxGeneration -> Nat]
    /\ died \subseteq 1 .. MaxGeneration

\* What was asked for before the last disconnect() does not connect after it,
\* however far its launch had come.
DisconnectSticks == Up => served > dropped

\* Once nothing is under way any more and the connection is down, the session's
\* resources have been given back.
IdleHoldsNothing ==
    jobs = {} /\ ~Up /\ (\A g \in 1 .. MaxGeneration : cleanups[g] = 0) => ~held

\* One request makes at most one launch and one repetition of it, whatever
\* combination of rejection, early death and re-learning it meets.
OneRepetition == \A g \in 1 .. MaxGeneration : launches[g] <= 2

\* A host loses its audio-only capability only if a connection to it came up and
\* was lost: not for one that failed, ended gracefully or was dropped.
RelearnsAfterDeath ==
    [][audioOnlyCap /\ ~audioOnlyCap' => connectGeneration \in died]_vars

\* Resources do not stay held without a connection.
DownReleases == (held /\ ~Up) ~> (~held \/ Up)

\* A connection that is under way has the resources of its session: what an
\* earlier one left to clean up is not taken from it.
ReconnectStartsClean == lock = 0 /\ Up => held

=============================================================================
