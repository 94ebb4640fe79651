------------------------- MODULE MoonToneConnection -------------------------
(***************************************************************************)
(* The lifecycle of the native connection of one process                   *)
(* (connection/MoonToneConnection.kt), as its two users drive it: the      *)
(* single-device controller keeps one object and connects it again and     *)
(* again; a worker process (multi/ConnectionWorkerService.kt) makes a new  *)
(* object for every start command and drops the old one first.             *)
(*                                                                         *)
(* moonlight-common-c has global state, so every start and stop runs on    *)
(* one static executor, and every callback goes through one static         *)
(* listener.  What interleaves is the callers, under the lock of an        *)
(* object; the tasks of the executor, step by step; the native threads     *)
(* that notice a lost peer; and the AsyncTerm thread that carries the news *)
(* up through the static listener.                                         *)
(*                                                                         *)
(* An attempt is a pair of an object and one of its generations.           *)
(***************************************************************************)
EXTENDS Integers, Sequences

CONSTANTS
    MaxConn,          \* bound: MoonToneConnection objects of the process
    MaxGeneration,    \* bound: connect() calls on one object
    MaxTasks,         \* bound: no disconnect() with this many tasks queued
    Thread            \* bound: reports of a lost peer in flight at a time

ASSUME BoundAssumption == /\ MaxConn \in Nat /\ MaxGeneration \in Nat
                          /\ MaxTasks \in Nat

Conn      == 1 .. MaxConn
NoAttempt == <<0, 0>>
Attempt   == Conn \X (Nat \ {0})

VARIABLES
    held,             \* the object in use, 0 for none
    created,          \* the objects made so far are 1..created
    state,            \* MoonToneState of each object
    nextGeneration, activeGeneration,
    tasks,            \* nativeExecutor's queue: an attempt to start, or
                      \* NoAttempt for a task that only stops
    task,             \* the task nativeExecutor is running
    step,             \* where in the task it is
    nativeActive,
    bridge,           \* attempt whose listener MoonBridge holds
    library,          \* "down", "starting" or "up"
    owner,            \* attempt the library was started for
    lost,             \* the peer of that attempt is gone
    alreadyTerminated, connectionInterrupted,
    report            \* threads that found the peer lost

client   == <<held, created, state, nextGeneration, activeGeneration>>
executor == <<tasks, task, step, nativeActive, bridge>>
native   == <<library, owner, lost, alreadyTerminated, connectionInterrupted>>
vars     == <<client, executor, native, report>>

State == {"DISCONNECTED", "CONNECTING", "CONNECTED", "ERROR"}
Task  == Attempt \cup {NoAttempt}
Step  == {"idle", "stop", "clean", "check", "setup", "start", "starting",
          "failing"}

\* A report is made by a native thread ("noticing"), then carried by a thread
\* of its own ("async") to the listener `to' it reads from the bridge ("read").
Report   == [stage : {"none", "noticing", "async", "read"}, from : Task, to : Task]
NoReport == [stage |-> "none", from |-> NoAttempt, to |-> NoAttempt]

IsCurrent(a) == /\ a # NoAttempt
                /\ activeGeneration[a[1]] = a[2]

(***************************************************************************)
(* Callers.                                                                *)
(***************************************************************************)

Interrupt == /\ connectionInterrupted' = TRUE
             /\ UNCHANGED <<library, owner, lost, alreadyTerminated>>

\* Faulty: the new generation is not remembered.
ConnectFromOldNumber(c, queue, states, generations) ==
    /\ UNCHANGED nextGeneration
    /\ activeGeneration' = [generations EXCEPT ![c] = nextGeneration[c] + 1]
    /\ state' = [states EXCEPT ![c] = "CONNECTING"]
    /\ Interrupt
    /\ tasks' = Append(queue, <<c, nextGeneration[c] + 1>>)
    /\ UNCHANGED <<task, step, nativeActive, bridge, report>>

\* The body of connect() on object c, given what came before it in the call.
ConnectFrom(c, queue, states, generations) ==
    /\ nextGeneration' = [nextGeneration EXCEPT ![c] = @ + 1]
    /\ activeGeneration' = [generations EXCEPT ![c] = nextGeneration[c] + 1]
    /\ state' = [states EXCEPT ![c] = "CONNECTING"]
    /\ Interrupt
    /\ tasks' = Append(queue, <<c, nextGeneration[c] + 1>>)
    /\ UNCHANGED <<task, step, nativeActive, bridge, report>>

\* connect() once more on the object in use.
Connect ==
    /\ held # 0
    /\ nextGeneration[held] < MaxGeneration
    /\ ConnectFrom(held, tasks, state, activeGeneration)
    /\ UNCHANGED <<held, created>>

\* Faulty: the object in use is dropped after the new one has been connected.
ReplaceThenDrop ==
    /\ created < MaxConn
    /\ created' = created + 1
    /\ held' = created + 1
    /\ IF held = 0
       THEN ConnectFrom(created + 1, tasks, state, activeGeneration)
       ELSE /\ nextGeneration' = [nextGeneration EXCEPT ![created + 1] = 1]
            /\ activeGeneration' = [activeGeneration EXCEPT ![created + 1] = 1, ![held] = 0]
            /\ state' = [state EXCEPT ![created + 1] = "CONNECTING", ![held] = "DISCONNECTED"]
            /\ Interrupt
            /\ tasks' = tasks \o << <<created + 1, 1>>, NoAttempt >>
            /\ UNCHANGED <<task, step, nativeActive, bridge, report>>

\* A connecting thread of the worker drops the object in use, if there is one,
\* and connects a new one.
Replace ==
    /\ created < MaxConn
    /\ created' = created + 1
    /\ held' = created + 1
    /\ IF held = 0
       THEN ConnectFrom(created + 1, tasks, state, activeGeneration)
       ELSE ConnectFrom(created + 1, Append(tasks, NoAttempt),
                        [state EXCEPT ![held] = "DISCONNECTED"],
                        [activeGeneration EXCEPT ![held] = 0])

\* Faulty: the interruption alone is trusted to end the connection.
DisconnectInterruptsOnly ==
    /\ held # 0
    /\ activeGeneration' = [activeGeneration EXCEPT ![held] = 0]
    /\ state' = [state EXCEPT ![held] = "DISCONNECTED"]
    /\ Interrupt
    /\ UNCHANGED <<created, nextGeneration, executor, report>>

DisconnectHeld ==
    /\ held # 0
    /\ activeGeneration' = [activeGeneration EXCEPT ![held] = 0]
    /\ state' = [state EXCEPT ![held] = "DISCONNECTED"]
    /\ Interrupt
    /\ tasks' = Append(tasks, NoAttempt)
    /\ UNCHANGED <<created, nextGeneration, task, step, nativeActive, bridge,
                   report>>

Disconnect ==
    /\ Len(tasks) < MaxTasks
    /\ DisconnectHeld
    /\ UNCHANGED held

\* onDestroy() of the worker forgets the object; a later service in the same
\* process starts without one.
Destroy ==
    /\ DisconnectHeld
    /\ held' = 0

(***************************************************************************)
(* Tasks of nativeExecutor.                                                *)
(***************************************************************************)

\* Faulty: the failed attempt is not stopped.
EndsWithoutStop(a, s) ==
    IF IsCurrent(a)
    THEN /\ activeGeneration' = [activeGeneration EXCEPT ![a[1]] = 0]
         /\ state' = [state EXCEPT ![a[1]] = s]
         /\ UNCHANGED tasks
    ELSE UNCHANGED <<activeGeneration, state, tasks>>

\* The current attempt a ends in state s, and what is left of it is stopped.
\* Of any other attempt nothing is left to end.
Ends(a, s) ==
    IF IsCurrent(a)
    THEN /\ activeGeneration' = [activeGeneration EXCEPT ![a[1]] = 0]
         /\ state' = [state EXCEPT ![a[1]] = s]
         /\ tasks' = Append(tasks, NoAttempt)
    ELSE UNCHANGED <<activeGeneration, state, tasks>>

TakeTask ==
    /\ step = "idle"
    /\ tasks # <<>>
    /\ task' = Head(tasks)
    /\ tasks' = Tail(tasks)
    /\ step' = "stop"
    /\ UNCHANGED <<nativeActive, bridge, client, native, report>>

\* LiStopConnection() joins the native threads, so none is left noticing.
LibraryStops ==
    /\ \A t \in Thread : report[t].stage # "noticing"
    /\ library' = "down"
    /\ owner' = NoAttempt
    /\ lost' = FALSE
    /\ alreadyTerminated' = TRUE
    /\ connectionInterrupted' = TRUE

\* Faulty: a task that starts trusts an earlier one to have stopped the library.
StopNativeIfOnlyStopping ==
    /\ step = "stop"
    /\ IF nativeActive /\ task = NoAttempt THEN LibraryStops ELSE UNCHANGED native
    /\ nativeActive' = FALSE
    /\ step' = "clean"
    /\ UNCHANGED <<tasks, task, bridge, client, report>>

StopNative ==
    /\ step = "stop"
    /\ IF nativeActive THEN LibraryStops ELSE UNCHANGED native
    /\ nativeActive' = FALSE
    /\ step' = "clean"
    /\ UNCHANGED <<tasks, task, bridge, client, report>>

CleanupBridge ==
    /\ step = "clean"
    /\ bridge' = NoAttempt
    /\ step' = IF task = NoAttempt THEN "idle" ELSE "check"
    /\ UNCHANGED <<tasks, task, nativeActive, client, native, report>>

CheckGeneration ==
    /\ step = "check"
    /\ step' = IF IsCurrent(task) THEN "setup" ELSE "idle"
    /\ UNCHANGED <<tasks, task, nativeActive, bridge, client, native, report>>

\* Faulty: the start is not recorded.
SetupBridgeOnly ==
    /\ step = "setup"
    /\ bridge' = task
    /\ step' = "start"
    /\ UNCHANGED <<tasks, task, nativeActive, client, native, report>>

SetupBridge ==
    /\ step = "setup"
    /\ bridge' = task
    /\ nativeActive' = TRUE
    /\ step' = "start"
    /\ UNCHANGED <<tasks, task, client, native, report>>

\* LiStartConnection() takes back whatever interruption came before it.
StartNative ==
    /\ step = "start"
    /\ library' = "starting"
    /\ owner' = task
    /\ lost' = FALSE
    /\ alreadyTerminated' = FALSE
    /\ connectionInterrupted' = FALSE
    /\ step' = "starting"
    /\ UNCHANGED <<tasks, task, nativeActive, bridge, client, report>>

\* Faulty: a started connection is reported whether or not it is still wanted.
ConnectionStartedAlways ==
    /\ step = "starting"
    /\ library' = "up"
    /\ state' = [state EXCEPT ![task[1]] = "CONNECTED"]
    /\ step' = "idle"
    /\ UNCHANGED <<held, created, nextGeneration, activeGeneration, tasks, task,
                   nativeActive, bridge, owner, lost, alreadyTerminated,
                   connectionInterrupted, report>>

\* connectionStarted() is the last thing a successful start does.
ConnectionStarted ==
    /\ step = "starting"
    /\ library' = "up"
    /\ state' = IF IsCurrent(task) THEN [state EXCEPT ![task[1]] = "CONNECTED"]
                                   ELSE state
    /\ step' = "idle"
    /\ UNCHANGED <<held, created, nextGeneration, activeGeneration, tasks, task,
                   nativeActive, bridge, owner, lost, alreadyTerminated,
                   connectionInterrupted, report>>

StageFailed ==
    /\ step = "starting"
    /\ Ends(task, "ERROR")
    /\ step' = "failing"
    /\ UNCHANGED <<held, created, nextGeneration, task, nativeActive, bridge,
                   native, report>>

\* Faulty: the error code is ignored, as stageFailed() should have told.
StartFailsSilently ==
    /\ step \in {"starting", "failing"}
    /\ LibraryStops
    /\ step' = "idle"
    /\ UNCHANGED <<client, tasks, task, nativeActive, bridge, report>>

\* A failed start undoes itself and returns an error, with or without a stage
\* having been reported.
StartFails ==
    /\ step \in {"starting", "failing"}
    /\ LibraryStops
    /\ Ends(task, "ERROR")
    /\ step' = "idle"
    /\ UNCHANGED <<held, created, nextGeneration, task, nativeActive, bridge,
                   report>>

(***************************************************************************)
(* The end of a connection, seen from the native side.                     *)
(***************************************************************************)

PeerLost ==
    /\ library # "down"
    /\ lost' = TRUE
    /\ UNCHANGED <<client, executor, library, owner, alreadyTerminated,
                   connectionInterrupted, report>>

\* Several native threads may pass the test before one of them records that the
\* connection has terminated.
Notice(t) ==
    /\ library # "down"
    /\ lost
    /\ ~alreadyTerminated
    /\ ~connectionInterrupted
    /\ report[t].stage = "none"
    /\ report' = [report EXCEPT ![t] =
                     [stage |-> "noticing", from |-> owner, to |-> NoAttempt]]
    /\ UNCHANGED <<client, executor, native>>

SpawnReport(t) ==
    /\ report[t].stage = "noticing"
    /\ alreadyTerminated' = TRUE
    /\ report' = [report EXCEPT ![t].stage = "async"]
    /\ UNCHANGED <<client, executor, library, owner, lost, connectionInterrupted>>

\* The thread asks the bridge for whatever listener it holds by then.
ReadListener(t) ==
    /\ report[t].stage = "async"
    /\ report' = [report EXCEPT ![t] = IF bridge = NoAttempt THEN NoReport
                                       ELSE [@ EXCEPT !.stage = "read", !.to = bridge]]
    /\ UNCHANGED <<client, executor, native>>

\* Faulty: only a connected attempt can terminate.
ConnectionTerminatedIfConnected(t) ==
    /\ report[t].stage = "read"
    /\ IF state[report[t].to[1]] = "CONNECTED" THEN Ends(report[t].to, "DISCONNECTED")
       ELSE UNCHANGED <<activeGeneration, state, tasks>>
    /\ report' = [report EXCEPT ![t] = NoReport]
    /\ UNCHANGED <<held, created, nextGeneration, task, step, nativeActive,
                   bridge, native>>

ConnectionTerminated(t) ==
    /\ report[t].stage = "read"
    /\ Ends(report[t].to, "DISCONNECTED")
    /\ report' = [report EXCEPT ![t] = NoReport]
    /\ UNCHANGED <<held, created, nextGeneration, task, step, nativeActive,
                   bridge, native>>

-----------------------------------------------------------------------------
Init ==
    /\ held = 0 /\ created = 0
    /\ state = [c \in Conn |-> "DISCONNECTED"]
    /\ nextGeneration = [c \in Conn |-> 0]
    /\ activeGeneration = [c \in Conn |-> 0]
    /\ tasks = <<>> /\ task = NoAttempt /\ step = "idle"
    /\ nativeActive = FALSE
    /\ bridge = NoAttempt
    /\ library = "down" /\ owner = NoAttempt /\ lost = FALSE
    /\ alreadyTerminated = FALSE /\ connectionInterrupted = FALSE
    /\ report = [t \in Thread |-> NoReport]

Caller == Connect \/ Replace \/ Disconnect \/ Destroy

ExecutorStep == \/ TakeTask \/ StopNative \/ CleanupBridge \/ CheckGeneration
                \/ SetupBridge \/ StartNative \/ ConnectionStarted
                \/ StageFailed \/ StartFails

ReportStep(t) == SpawnReport(t) \/ ReadListener(t) \/ ConnectionTerminated(t)

Next == \/ Caller
        \/ ExecutorStep
        \/ PeerLost
        \/ \E t \in Thread : Notice(t) \/ ReportStep(t)

Spec == Init /\ [][Next]_vars

\* The executor runs its tasks, a native start returns because each of its
\* stages times out, a native thread finds a lost peer, and threads run.
Fairness == /\ WF_vars(ExecutorStep)
            /\ WF_vars(\E t \in Thread : Notice(t))
            /\ \A t \in Thread : WF_vars(ReportStep(t))

FairSpec == Spec /\ Fairness

-----------------------------------------------------------------------------
TypeOK ==
    /\ held \in 0 .. created
    /\ created \in 0 .. MaxConn
    /\ state \in [Conn -> State]
    /\ nextGeneration \in [Conn -> Nat]
    /\ activeGeneration \in [Conn -> Nat]
    /\ \A c \in Conn : activeGeneration[c] <= nextGeneration[c]
    /\ tasks \in Seq(Task)
    /\ task \in Task
    /\ step \in Step
    /\ nativeActive \in BOOLEAN
    /\ bridge \in Task
    /\ library \in {"down", "starting", "up"}
    /\ owner \in Task
    /\ lost \in BOOLEAN
    /\ alreadyTerminated \in BOOLEAN
    /\ connectionInterrupted \in BOOLEAN
    /\ report \in [Thread -> Report]

\* Every start finds the library stopped, whoever ran it before and however
\* that ended: MoonToneConnection.kt:16-17.
StartsFromScratch == step = "start" => library = "down"

\* While the library may call back, its callbacks and its audio reach the
\* listener and renderer of the attempt it was started for.
CallbacksReachOwner == library # "down" => bridge = owner

\* An attempt that was given up keeps neither the library nor the bridge,
\* unless the executor has still to get to the task that takes them away.
NothingLeftBehind ==
    bridge # NoAttempt /\ ~IsCurrent(bridge) => step # "idle" \/ tasks # <<>>

\* An object that says it is connected has the library to itself, with no task
\* ahead that would stop it, and if its peer is known to be lost then the
\* report that says so is under way and will reach it.
ConnectedIsReal ==
    \A c \in Conn : state[c] = "CONNECTED" =>
        /\ library = "up"
        /\ IsCurrent(owner) /\ owner[1] = c
        /\ tasks = <<>> /\ step = "idle"
        /\ ~connectionInterrupted
        /\ alreadyTerminated =>
              \E t \in Thread : \/ report[t].stage = "async"
                                \/ report[t].stage = "read" /\ report[t].to = owner

\* An object that says it is connecting has its start under way, or queued with
\* nothing behind it that would undo it.
ConnectingIsDriven ==
    \A c \in Conn : state[c] = "CONNECTING" =>
        LET a == <<c, activeGeneration[c]>>
        IN  IF tasks = <<>> THEN step # "idle" /\ task = a
                            ELSE tasks[Len(tasks)] = a

\* An attempt that an object shows, under way or up, has the library at its
\* service, or is next to have it: no leftover of another attempt can stop it.
AttemptIsServed == ConnectingIsDriven /\ ConnectedIsReal

\* A start of the library for an attempt nobody wants any more does not run on:
\* also when the interruption came before the start and was taken back by it.
DroppedIsStopped ==
    \A c \in Conn : \A g \in 1 .. MaxGeneration :
        (owner = <<c, g>> /\ ~IsCurrent(owner)) ~> (owner # <<c, g>>)

\* A lost peer ends the attempt it belonged to.
LossIsNoticed ==
    \A c \in Conn : \A g \in 1 .. MaxGeneration :
        (owner = <<c, g>> /\ lost) ~> ~(owner = <<c, g>> /\ IsCurrent(owner))

\* An attempt does not stay connecting for ever.
ConnectingEnds ==
    \A c \in Conn : (state[c] = "CONNECTING") ~> (state[c] # "CONNECTING")

\* The report of a lost peer never ends another attempt than the one it is
\* about: MoonToneConnection.kt:46-47.
ReportEndsOwnAttempt ==
    [][\A t \in Thread :
          report[t].stage = "read" /\ report'[t].stage = "none"
             /\ report[t].from # report[t].to
          => UNCHANGED activeGeneration]_vars

=============================================================================
