---------------------- MODULE MoonToneConnectionProofs ----------------------
(***************************************************************************)
(* The safety invariants of MoonToneConnection, proved for any number of   *)
(* objects, generations, queued tasks and reporting threads.               *)
(***************************************************************************)
EXTENDS MoonToneConnection, TLAPS

\* Only the object in use has an attempt under way, and its state says so.
OnlyHeldIsActive ==
    \A c \in Conn : /\ activeGeneration[c] # 0 => c = held
                    /\ activeGeneration[c] # 0 <=> state[c] \in {"CONNECTING", "CONNECTED"}

Drawn(a) == a # NoAttempt => a[2] <= nextGeneration[a[1]]

\* Whatever is queued, running or installed has been asked for, so the next
\* generation is new to everyone.
GenerationsDrawn ==
    /\ \A i \in 1 .. Len(tasks) : Drawn(tasks[i])
    /\ Drawn(task) /\ Drawn(bridge) /\ Drawn(owner)
    /\ \A t \in Thread : Drawn(report[t].to)

\* No attempt is started twice.
QueuedOnce ==
    /\ \A i, j \in 1 .. Len(tasks) :
          tasks[i] = tasks[j] /\ tasks[i] # NoAttempt => i = j
    /\ step # "idle" /\ task # NoAttempt => \A i \in 1 .. Len(tasks) : tasks[i] # task

\* What the executor finds at each step of a task.
ExecutorInStep ==
    /\ step \in {"clean", "check", "setup"} => library = "down" /\ ~nativeActive
    /\ step \in {"check", "setup"} => bridge = NoAttempt
    /\ step \in {"check", "setup", "start", "starting", "failing"} => task # NoAttempt
    /\ step = "start" => library = "down" /\ nativeActive /\ bridge = task
    /\ step \in {"starting", "failing"} <=> library = "starting"
    /\ library = "starting" => owner = task
    /\ library = "down" <=> owner = NoAttempt
    /\ library # "down" => nativeActive /\ bridge = owner

\* The attempt under way is the last one queued; with nothing queued it is the
\* one the executor is at; with the executor idle it is connected.
CurrentIsLast ==
    \A c \in Conn : activeGeneration[c] # 0 =>
        /\ tasks # <<>> => /\ tasks[Len(tasks)] = <<c, activeGeneration[c]>>
                           /\ state[c] = "CONNECTING"
        /\ tasks = <<>> /\ step # "idle" => /\ task = <<c, activeGeneration[c]>>
                                            /\ step # "failing"
                                            /\ state[c] = "CONNECTING"
        /\ tasks = <<>> /\ step = "idle" => /\ owner = <<c, activeGeneration[c]>>
                                            /\ library = "up"
                                            /\ state[c] = "CONNECTED"

\* An attempt given up before its task has ended has a later task behind it.
LeftoversQueued ==
    /\ step \notin {"stop", "clean"} /\ bridge # NoAttempt /\ ~IsCurrent(bridge)
          => tasks # <<>>
    /\ step = "setup" /\ ~IsCurrent(task) => tasks # <<>>

\* The library tells of the end of the current attempt, or has told.
LossGetsThrough ==
    library # "down" /\ IsCurrent(owner) =>
        /\ ~connectionInterrupted
        /\ alreadyTerminated =>
              \E t \in Thread : \/ report[t].stage = "async"
                                \/ report[t].stage = "read" /\ report[t].to = owner

IInv == /\ TypeOK
        /\ OnlyHeldIsActive
        /\ GenerationsDrawn
        /\ QueuedOnce
        /\ ExecutorInStep
        /\ CurrentIsLast
        /\ LeftoversQueued
        /\ LossGetsThrough

-----------------------------------------------------------------------------
\* What appending a task to a queue leaves.
LEMMA AppendFacts ==
    ASSUME NEW S, NEW s \in Seq(S), NEW e \in S
    PROVE  /\ Append(s, e) \in Seq(S) /\ Append(s, e) # <<>>
           /\ Len(Append(s, e)) = Len(s) + 1
           /\ Append(s, e)[Len(Append(s, e))] = e
           /\ Append(s, e)[Len(s) + 1] = e
           /\ \A i \in 1 .. Len(s) : Append(s, e)[i] = s[i]
           /\ Len(s) \in Nat
  OBVIOUS

\* What taking the first task of a queue leaves.
LEMMA TailFacts ==
    ASSUME NEW S, NEW s \in Seq(S), s # <<>>
    PROVE  /\ Head(s) \in S /\ Head(s) = s[1]
           /\ Len(s) \in Nat /\ Len(s) >= 1
           /\ Tail(s) \in Seq(S) /\ Len(Tail(s)) = Len(s) - 1
           /\ Tail(s) # <<>> => Tail(s)[Len(Tail(s))] = s[Len(s)]
           /\ Tail(s) = <<>> => s[Len(s)] = Head(s)
           /\ \A i \in 1 .. Len(Tail(s)) : i + 1 \in 1 .. Len(s) /\ Tail(s)[i] = s[i + 1]
  <1>1. Len(s) \in Nat /\ Len(s) >= 1 /\ Head(s) = s[1] /\ Head(s) \in S
    OBVIOUS
  <1>2. Tail(s) \in Seq(S) /\ Len(Tail(s)) = Len(s) - 1
    OBVIOUS
  <1>3. ASSUME NEW i \in 1 .. Len(Tail(s))
        PROVE  i + 1 \in 1 .. Len(s) /\ Tail(s)[i] = s[i + 1]
    BY <1>1, <1>2
  <1>4. Tail(s) # <<>> => Tail(s)[Len(Tail(s))] = s[Len(s)]
    <2>1. Tail(s) # <<>> => Len(Tail(s)) \in 1 .. Len(Tail(s))
      BY <1>1, <1>2
    <2> QED
      BY <1>1, <1>2, <1>3, <2>1
  <1>5. Tail(s) = <<>> => s[Len(s)] = Head(s)
    <2>0. Len(<<>>) = 0
      OBVIOUS
    <2>1. Tail(s) = <<>> => Len(Tail(s)) = 0
      BY <2>0, Zenon
    <2>2. Tail(s) = <<>> => Len(s) = 1
      BY <1>1, <1>2, <2>1
    <2> QED
      BY <1>1, <2>2
  <1> QED
    BY <1>1, <1>2, <1>3, <1>4, <1>5

\* A new generation of an object is an attempt.
LEMMA AttemptIsTask ==
    ASSUME NEW c \in Conn, NEW g \in Nat, g # 0
    PROVE  <<c, g>> \in Task /\ <<c, g>> # NoAttempt
  BY DEF Task, Attempt, NoAttempt

\* The parts of an attempt.
LEMMA AttemptParts ==
    ASSUME NEW a \in Task
    PROVE  a # NoAttempt => /\ a[1] \in Conn /\ a[2] \in Nat /\ a[2] # 0
                            /\ a = <<a[1], a[2]>>
  BY DEF Task, Attempt

\* The absent report and the absent attempt are of their types.
LEMMA ReportTypes == NoReport \in Report /\ NoAttempt \in Task
  BY DEF NoReport, Report, Task

\* The initial state satisfies the inductive invariant.
LEMMA InitInvariant == Init => IInv
  <1> SUFFICES ASSUME Init PROVE IInv
    OBVIOUS
  <1>1. TypeOK
    <2>1. /\ created \in 0 .. MaxConn /\ held \in 0 .. created
          /\ step \in Step
          /\ tasks \in Seq(Task)
      BY BoundAssumption DEF Init, Step
    <2>2. /\ state \in [Conn -> State]
          /\ nextGeneration \in [Conn -> Nat]
          /\ activeGeneration \in [Conn -> Nat]
          /\ \A c \in Conn : activeGeneration[c] <= nextGeneration[c]
      BY DEF Init, State
    <2>3. report \in [Thread -> Report]
      BY ReportTypes DEF Init
    <2> QED
      BY <2>1, <2>2, <2>3, ReportTypes DEF Init, TypeOK
  <1>2. OnlyHeldIsActive
    BY DEF Init, OnlyHeldIsActive
  <1>3. GenerationsDrawn
    BY DEF Init, GenerationsDrawn, Drawn, NoReport
  <1>4. QueuedOnce
    BY DEF Init, QueuedOnce
  <1>5. ExecutorInStep
    BY DEF Init, ExecutorInStep
  <1>6. CurrentIsLast
    BY DEF Init, CurrentIsLast
  <1>7. LeftoversQueued
    BY DEF Init, LeftoversQueued
  <1>8. LossGetsThrough
    BY DEF Init, LossGetsThrough
  <1> QED
    BY <1>1, <1>2, <1>3, <1>4, <1>5, <1>6, <1>7, <1>8 DEF IInv

\* The executor takes the next task: what was last in the queue stays last.
LEMMA TakeTaskKeeps ==
    ASSUME IInv, TakeTask
    PROVE  IInv'
  <1>1. TypeOK'
    BY TailFacts DEF IInv, TakeTask, client, native, TypeOK, Step
  <1>2. OnlyHeldIsActive'
    BY DEF IInv, TakeTask, client, native, OnlyHeldIsActive
  <1>3. GenerationsDrawn'
    BY TailFacts DEF IInv, TakeTask, client, native, GenerationsDrawn, Drawn, TypeOK
  <1>4. QueuedOnce'
    BY TailFacts DEF IInv, TakeTask, client, native, QueuedOnce, TypeOK
  <1>5. ExecutorInStep'
    BY DEF IInv, TakeTask, client, native, ExecutorInStep
  <1>6. CurrentIsLast'
    BY TailFacts DEF IInv, TakeTask, client, native, CurrentIsLast, TypeOK
  <1>7. LeftoversQueued'
    BY DEF IInv, TakeTask, client, native, LeftoversQueued, IsCurrent
  <1>8. LossGetsThrough'
    BY DEF IInv, TakeTask, client, native, LossGetsThrough, IsCurrent
  <1> QED
    BY <1>1, <1>2, <1>3, <1>4, <1>5, <1>6, <1>7, <1>8 DEF IInv

\* The library is stopped if it may be running.
LEMMA StopNativeKeeps ==
    ASSUME IInv, StopNative
    PROVE  IInv'
  <1>1. TypeOK'
    BY ReportTypes DEF IInv, StopNative, LibraryStops, client, native, TypeOK, Step
  <1>2. OnlyHeldIsActive'
    BY DEF IInv, StopNative, LibraryStops, client, native, OnlyHeldIsActive
  <1>3. GenerationsDrawn'
    BY DEF IInv, StopNative, LibraryStops, client, native, GenerationsDrawn, Drawn
  <1>4. QueuedOnce'
    BY DEF IInv, StopNative, LibraryStops, client, native, QueuedOnce
  <1>5. ExecutorInStep'
    BY DEF IInv, StopNative, LibraryStops, client, native, ExecutorInStep, TypeOK
  <1>6. CurrentIsLast'
    BY DEF IInv, StopNative, LibraryStops, client, native, CurrentIsLast
  <1>7. LeftoversQueued'
    BY DEF IInv, StopNative, LibraryStops, client, native, LeftoversQueued, IsCurrent
  <1>8. LossGetsThrough'
    BY DEF IInv, StopNative, LibraryStops, client, native, LossGetsThrough, IsCurrent, ExecutorInStep
  <1> QED
    BY <1>1, <1>2, <1>3, <1>4, <1>5, <1>6, <1>7, <1>8 DEF IInv

\* The bridge is emptied: a task that only stops is never current.
LEMMA CleanupBridgeKeeps ==
    ASSUME IInv, CleanupBridge
    PROVE  IInv'
  <1>1. TypeOK'
    BY ReportTypes DEF IInv, CleanupBridge, client, native, TypeOK, Step
  <1>2. OnlyHeldIsActive'
    BY DEF IInv, CleanupBridge, client, native, OnlyHeldIsActive
  <1>3. GenerationsDrawn'
    BY DEF IInv, CleanupBridge, client, native, GenerationsDrawn, Drawn
  <1>4. QueuedOnce'
    BY DEF IInv, CleanupBridge, client, native, QueuedOnce
  <1>5. ExecutorInStep'
    BY DEF IInv, CleanupBridge, client, native, ExecutorInStep
  <1>6. CurrentIsLast'
    BY AttemptIsTask DEF IInv, CleanupBridge, client, native, CurrentIsLast, TypeOK
  <1>7. LeftoversQueued'
    BY DEF IInv, CleanupBridge, client, native, LeftoversQueued, IsCurrent
  <1>8. LossGetsThrough'
    BY DEF IInv, CleanupBridge, client, native, LossGetsThrough, IsCurrent
  <1> QED
    BY <1>1, <1>2, <1>3, <1>4, <1>5, <1>6, <1>7, <1>8 DEF IInv

\* A start that is not wanted any more is skipped, and then nothing is.
LEMMA CheckGenerationKeeps ==
    ASSUME IInv, CheckGeneration
    PROVE  IInv'
  <1>1. TypeOK'
    BY DEF IInv, CheckGeneration, client, native, TypeOK, Step
  <1>2. OnlyHeldIsActive'
    BY DEF IInv, CheckGeneration, client, native, OnlyHeldIsActive
  <1>3. GenerationsDrawn'
    BY DEF IInv, CheckGeneration, client, native, GenerationsDrawn, Drawn
  <1>4. QueuedOnce'
    BY DEF IInv, CheckGeneration, client, native, QueuedOnce
  <1>5. ExecutorInStep'
    BY DEF IInv, CheckGeneration, client, native, ExecutorInStep
  <1>6. CurrentIsLast'
    BY AttemptIsTask DEF IInv, CheckGeneration, client, native, CurrentIsLast, TypeOK, IsCurrent
  <1>7. LeftoversQueued'
    BY DEF IInv, CheckGeneration, client, native, LeftoversQueued, IsCurrent, ExecutorInStep
  <1>8. LossGetsThrough'
    BY DEF IInv, CheckGeneration, client, native, LossGetsThrough, IsCurrent
  <1> QED
    BY <1>1, <1>2, <1>3, <1>4, <1>5, <1>6, <1>7, <1>8 DEF IInv

\* The listener is installed while the library is stopped.
LEMMA SetupBridgeKeeps ==
    ASSUME IInv, SetupBridge
    PROVE  IInv'
  <1>1. TypeOK'
    BY DEF IInv, SetupBridge, client, native, TypeOK, Step
  <1>2. OnlyHeldIsActive'
    BY DEF IInv, SetupBridge, client, native, OnlyHeldIsActive
  <1>3. GenerationsDrawn'
    BY DEF IInv, SetupBridge, client, native, GenerationsDrawn, Drawn
  <1>4. QueuedOnce'
    BY DEF IInv, SetupBridge, client, native, QueuedOnce
  <1>5. ExecutorInStep'
    BY DEF IInv, SetupBridge, client, native, ExecutorInStep, TypeOK
  <1>6. CurrentIsLast'
    BY DEF IInv, SetupBridge, client, native, CurrentIsLast
  <1>7. LeftoversQueued'
    BY DEF IInv, SetupBridge, client, native, LeftoversQueued, IsCurrent
  <1>8. LossGetsThrough'
    BY DEF IInv, SetupBridge, client, native, LossGetsThrough, IsCurrent, ExecutorInStep
  <1> QED
    BY <1>1, <1>2, <1>3, <1>4, <1>5, <1>6, <1>7, <1>8 DEF IInv

\* The library starts with its flags reset.
LEMMA StartNativeKeeps ==
    ASSUME IInv, StartNative
    PROVE  IInv'
  <1>1. TypeOK'
    BY DEF IInv, StartNative, client, TypeOK, Step
  <1>2. OnlyHeldIsActive'
    BY DEF IInv, StartNative, client, OnlyHeldIsActive
  <1>3. GenerationsDrawn'
    BY DEF IInv, StartNative, client, GenerationsDrawn, Drawn
  <1>4. QueuedOnce'
    BY DEF IInv, StartNative, client, QueuedOnce
  <1>5. ExecutorInStep'
    BY DEF IInv, StartNative, client, ExecutorInStep, TypeOK
  <1>6. CurrentIsLast'
    BY DEF IInv, StartNative, client, CurrentIsLast
  <1>7. LeftoversQueued'
    BY DEF IInv, StartNative, client, LeftoversQueued, IsCurrent
  <1>8. LossGetsThrough'
    BY DEF IInv, StartNative, client, LossGetsThrough, IsCurrent
  <1> QED
    BY <1>1, <1>2, <1>3, <1>4, <1>5, <1>6, <1>7, <1>8 DEF IInv

\* A start succeeds: if it is still wanted then nothing is queued behind it.
LEMMA ConnectionStartedKeeps ==
    ASSUME IInv, ConnectionStarted
    PROVE  IInv'
  <1>1. TypeOK'
    BY DEF IInv, ConnectionStarted, TypeOK, Step, State
  <1>2. OnlyHeldIsActive'
    BY AttemptParts DEF IInv, ConnectionStarted, OnlyHeldIsActive, TypeOK, IsCurrent, ExecutorInStep
  <1>3. GenerationsDrawn'
    BY DEF IInv, ConnectionStarted, GenerationsDrawn, Drawn
  <1>4. QueuedOnce'
    BY DEF IInv, ConnectionStarted, QueuedOnce
  <1>5. ExecutorInStep'
    BY DEF IInv, ConnectionStarted, ExecutorInStep
  <1>6. CurrentIsLast'
    <2> SUFFICES ASSUME NEW c \in Conn, activeGeneration[c] # 0
                 PROVE  /\ tasks # <<>> => /\ tasks[Len(tasks)] = <<c, activeGeneration[c]>>
                                           /\ state'[c] = "CONNECTING"
                        /\ tasks = <<>> => /\ owner = <<c, activeGeneration[c]>>
                                           /\ state'[c] = "CONNECTED"
      BY DEF ConnectionStarted, CurrentIsLast
    <2>1. step = "starting" /\ task # NoAttempt /\ owner = task /\ task \in Task
      BY DEF IInv, ConnectionStarted, ExecutorInStep, TypeOK
    <2>2. CASE tasks # <<>>
      <3>1. Len(tasks) \in 1 .. Len(tasks)
        BY <2>2 DEF IInv, TypeOK
      <3>2. tasks[Len(tasks)] = <<c, activeGeneration[c]>> /\ state[c] = "CONNECTING"
        BY <2>2 DEF IInv, CurrentIsLast
      <3>3. task # <<c, activeGeneration[c]>>
        BY <2>1, <3>1, <3>2 DEF IInv, QueuedOnce
      <3>4. ~(IsCurrent(task) /\ task[1] = c)
        BY <2>1, <3>3, AttemptParts DEF IsCurrent
      <3> QED
        BY <2>2, <3>2, <3>4 DEF IInv, ConnectionStarted, TypeOK
    <2>3. CASE tasks = <<>>
      BY <2>1, <2>3, AttemptIsTask DEF IInv, ConnectionStarted, TypeOK, CurrentIsLast, IsCurrent
    <2> QED
      BY <2>2, <2>3
  <1>7. LeftoversQueued'
    BY DEF IInv, ConnectionStarted, LeftoversQueued, IsCurrent
  <1>8. LossGetsThrough'
    BY DEF IInv, ConnectionStarted, LossGetsThrough, IsCurrent, ExecutorInStep
  <1> QED
    BY <1>1, <1>2, <1>3, <1>4, <1>5, <1>6, <1>7, <1>8 DEF IInv

\* An attempt that ends leaves no attempt under way and a task to stop it; one
\* that is not current any more changes nothing.
LEMMA EndsLeaves ==
    ASSUME IInv, NEW a \in Task, NEW s \in {"ERROR", "DISCONNECTED"}, Ends(a, s)
    PROVE  /\ activeGeneration' \in [Conn -> Nat]
           /\ \A c \in Conn : activeGeneration'[c] <= nextGeneration[c]
           /\ state' \in [Conn -> State]
           /\ tasks' \in Seq(Task)
           /\ ~IsCurrent(a) => UNCHANGED <<activeGeneration, state, tasks>>
           /\ IsCurrent(a) =>
                 /\ \A c \in Conn : /\ activeGeneration'[c] = 0
                                    /\ state'[c] \notin {"CONNECTING", "CONNECTED"}
                 /\ tasks' = Append(tasks, NoAttempt)
                 /\ tasks' # <<>>
  <1>1. CASE ~IsCurrent(a)
    BY <1>1 DEF IInv, TypeOK, Ends
  <1>2. CASE IsCurrent(a)
    <2>1. a[1] \in Conn /\ activeGeneration[a[1]] # 0
      BY <1>2, AttemptParts DEF IsCurrent
    <2>2. /\ activeGeneration' = [activeGeneration EXCEPT ![a[1]] = 0]
          /\ state' = [state EXCEPT ![a[1]] = s]
          /\ tasks' = Append(tasks, NoAttempt)
      BY <1>2 DEF Ends
    <2>3. s \in State
      BY DEF State
    <2>4. state' \in [Conn -> State]
      BY <2>2, <2>3 DEF IInv, TypeOK
    <2>5. \A c \in Conn : /\ activeGeneration'[c] = 0
                          /\ state'[c] \notin {"CONNECTING", "CONNECTED"}
      BY <2>1, <2>2 DEF IInv, TypeOK, OnlyHeldIsActive
    <2>6. \A c \in Conn : activeGeneration'[c] <= nextGeneration[c]
      BY <2>5 DEF IInv, TypeOK
    <2>7. activeGeneration' \in [Conn -> Nat]
      BY <2>2 DEF IInv, TypeOK
    <2>8. tasks' \in Seq(Task) /\ tasks' # <<>>
      BY <2>2, AppendFacts, ReportTypes DEF IInv, TypeOK
    <2> QED
      BY <1>2, <2>2, <2>4, <2>5, <2>6, <2>7, <2>8
  <1> QED
    BY <1>1, <1>2

\* A task that only stops is queued behind the others.
LEMMA StopIsQueued ==
    ASSUME IInv, tasks' = Append(tasks, NoAttempt)
    PROVE  /\ \A i \in 1 .. Len(tasks') :
                 \/ tasks'[i] = NoAttempt
                 \/ i \in 1 .. Len(tasks) /\ tasks'[i] = tasks[i]
           /\ tasks' # <<>>
           /\ tasks' \in Seq(Task)
  BY AppendFacts, ReportTypes DEF IInv, TypeOK

\* A stage fails: the attempt is given up before the library has undone itself.
LEMMA StageFailedKeeps ==
    ASSUME IInv, StageFailed
    PROVE  IInv'
  <1>a. task \in Task /\ Ends(task, "ERROR")
    BY DEF IInv, StageFailed, TypeOK
  <1>b. /\ activeGeneration' \in [Conn -> Nat]
        /\ \A c \in Conn : activeGeneration'[c] <= nextGeneration[c]
        /\ state' \in [Conn -> State]
        /\ tasks' \in Seq(Task)
    BY <1>a, EndsLeaves
  <1>c. ~IsCurrent(task) => UNCHANGED <<activeGeneration, state, tasks>>
    BY <1>a, EndsLeaves
  <1>d. IsCurrent(task) =>
           /\ \A c \in Conn : /\ activeGeneration'[c] = 0
                              /\ state'[c] \notin {"CONNECTING", "CONNECTED"}
           /\ tasks' # <<>>
           /\ \A i \in 1 .. Len(tasks') :
                 \/ tasks'[i] = NoAttempt
                 \/ i \in 1 .. Len(tasks) /\ tasks'[i] = tasks[i]
    BY <1>a, EndsLeaves, StopIsQueued
  <1>1. TypeOK'
    BY <1>b, <1>c, <1>d DEF IInv, StageFailed, native, TypeOK, Step
  <1>2. OnlyHeldIsActive'
    BY <1>b, <1>c, <1>d DEF IInv, StageFailed, native, OnlyHeldIsActive
  <1>3. GenerationsDrawn'
    BY <1>b, <1>c, <1>d DEF IInv, StageFailed, native, GenerationsDrawn, Drawn
  <1>4. QueuedOnce'
    BY <1>b, <1>c, <1>d DEF IInv, StageFailed, native, QueuedOnce, TypeOK
  <1>5. ExecutorInStep'
    BY <1>b, <1>c, <1>d DEF IInv, StageFailed, native, ExecutorInStep
  <1>6. CurrentIsLast'
    BY <1>b, <1>c, <1>d, AttemptIsTask, AttemptParts DEF IInv, StageFailed, native, CurrentIsLast, IsCurrent, TypeOK
  <1>7. LeftoversQueued'
    BY <1>b, <1>c, <1>d DEF IInv, StageFailed, native, LeftoversQueued, IsCurrent
  <1>8. LossGetsThrough'
    BY <1>b, <1>c, <1>d, AttemptParts DEF IInv, StageFailed, native, LossGetsThrough, IsCurrent, TypeOK, ExecutorInStep
  <1> QED
    BY <1>1, <1>2, <1>3, <1>4, <1>5, <1>6, <1>7, <1>8 DEF IInv

\* A start fails: the library has undone itself.
LEMMA StartFailsKeeps ==
    ASSUME IInv, StartFails
    PROVE  IInv'
  <1>a. task \in Task /\ Ends(task, "ERROR")
    BY DEF IInv, StartFails, TypeOK
  <1>b. /\ activeGeneration' \in [Conn -> Nat]
        /\ \A c \in Conn : activeGeneration'[c] <= nextGeneration[c]
        /\ state' \in [Conn -> State]
        /\ tasks' \in Seq(Task)
    BY <1>a, EndsLeaves
  <1>c. ~IsCurrent(task) => UNCHANGED <<activeGeneration, state, tasks>>
    BY <1>a, EndsLeaves
  <1>d. IsCurrent(task) =>
           /\ \A c \in Conn : /\ activeGeneration'[c] = 0
                              /\ state'[c] \notin {"CONNECTING", "CONNECTED"}
           /\ tasks' # <<>>
           /\ \A i \in 1 .. Len(tasks') :
                 \/ tasks'[i] = NoAttempt
                 \/ i \in 1 .. Len(tasks) /\ tasks'[i] = tasks[i]
    BY <1>a, EndsLeaves, StopIsQueued
  <1>1. TypeOK'
    BY <1>b, <1>c, <1>d, ReportTypes DEF IInv, StartFails, LibraryStops, TypeOK, Step
  <1>2. OnlyHeldIsActive'
    BY <1>b, <1>c, <1>d, ReportTypes DEF IInv, StartFails, LibraryStops, OnlyHeldIsActive
  <1>3. GenerationsDrawn'
    BY <1>b, <1>c, <1>d, ReportTypes DEF IInv, StartFails, LibraryStops, GenerationsDrawn, Drawn
  <1>4. QueuedOnce'
    BY <1>b, <1>c, <1>d, ReportTypes DEF IInv, StartFails, LibraryStops, QueuedOnce, TypeOK
  <1>5. ExecutorInStep'
    BY <1>b, <1>c, <1>d, ReportTypes DEF IInv, StartFails, LibraryStops, ExecutorInStep
  <1>6. CurrentIsLast'
    BY <1>b, <1>c, <1>d, ReportTypes, AttemptIsTask, AttemptParts DEF IInv, StartFails, LibraryStops, CurrentIsLast, IsCurrent, TypeOK
  <1>7. LeftoversQueued'
    BY <1>b, <1>c, <1>d, ReportTypes DEF IInv, StartFails, LibraryStops, LeftoversQueued, IsCurrent, ExecutorInStep
  <1>8. LossGetsThrough'
    BY <1>b, <1>c, <1>d, ReportTypes DEF IInv, StartFails, LibraryStops, LossGetsThrough, IsCurrent
  <1> QED
    BY <1>1, <1>2, <1>3, <1>4, <1>5, <1>6, <1>7, <1>8 DEF IInv

\* A report ends the attempt whose listener it reached.
LEMMA ConnectionTerminatedKeeps ==
    ASSUME IInv, NEW t \in Thread, ConnectionTerminated(t)
    PROVE  IInv'
  <1>a. report[t].to \in Task /\ Ends(report[t].to, "DISCONNECTED")
    BY DEF IInv, ConnectionTerminated, TypeOK, Report
  <1>b. /\ activeGeneration' \in [Conn -> Nat]
        /\ \A c \in Conn : activeGeneration'[c] <= nextGeneration[c]
        /\ state' \in [Conn -> State]
        /\ tasks' \in Seq(Task)
    BY <1>a, EndsLeaves
  <1>c. ~IsCurrent(report[t].to) => UNCHANGED <<activeGeneration, state, tasks>>
    BY <1>a, EndsLeaves
  <1>d. IsCurrent(report[t].to) =>
           /\ \A c \in Conn : /\ activeGeneration'[c] = 0
                              /\ state'[c] \notin {"CONNECTING", "CONNECTED"}
           /\ tasks' # <<>>
           /\ \A i \in 1 .. Len(tasks') :
                 \/ tasks'[i] = NoAttempt
                 \/ i \in 1 .. Len(tasks) /\ tasks'[i] = tasks[i]
    BY <1>a, EndsLeaves, StopIsQueued
  <1>1. TypeOK'
    BY <1>b, <1>c, <1>d, ReportTypes DEF IInv, ConnectionTerminated, native, TypeOK, Step
  <1>2. OnlyHeldIsActive'
    BY <1>b, <1>c, <1>d, ReportTypes DEF IInv, ConnectionTerminated, native, OnlyHeldIsActive
  <1>3. GenerationsDrawn'
    BY <1>b, <1>c, <1>d, ReportTypes DEF IInv, ConnectionTerminated, native, GenerationsDrawn, Drawn, NoReport, TypeOK
  <1>4. QueuedOnce'
    BY <1>b, <1>c, <1>d, ReportTypes DEF IInv, ConnectionTerminated, native, QueuedOnce, TypeOK
  <1>5. ExecutorInStep'
    BY <1>b, <1>c, <1>d, ReportTypes DEF IInv, ConnectionTerminated, native, ExecutorInStep
  <1>6. CurrentIsLast'
    BY <1>b, <1>c, <1>d, ReportTypes DEF IInv, ConnectionTerminated, native, CurrentIsLast
  <1>7. LeftoversQueued'
    BY <1>b, <1>c, <1>d, ReportTypes DEF IInv, ConnectionTerminated, native, LeftoversQueued, IsCurrent
  <1>8. LossGetsThrough'
    BY <1>b, <1>c, <1>d, ReportTypes, AttemptParts DEF IInv, ConnectionTerminated, native, LossGetsThrough, IsCurrent, TypeOK, ExecutorInStep
  <1> QED
    BY <1>1, <1>2, <1>3, <1>4, <1>5, <1>6, <1>7, <1>8 DEF IInv

\* Losing the peer is noticed by nobody yet.
LEMMA PeerLostKeeps ==
    ASSUME IInv, PeerLost
    PROVE  IInv'
  <1>1. TypeOK'
    BY DEF IInv, PeerLost, client, executor, TypeOK, Step
  <1>2. OnlyHeldIsActive'
    BY DEF IInv, PeerLost, client, executor, OnlyHeldIsActive
  <1>3. GenerationsDrawn'
    BY DEF IInv, PeerLost, client, executor, GenerationsDrawn, Drawn
  <1>4. QueuedOnce'
    BY DEF IInv, PeerLost, client, executor, QueuedOnce
  <1>5. ExecutorInStep'
    BY DEF IInv, PeerLost, client, executor, ExecutorInStep
  <1>6. CurrentIsLast'
    BY DEF IInv, PeerLost, client, executor, CurrentIsLast
  <1>7. LeftoversQueued'
    BY DEF IInv, PeerLost, client, executor, LeftoversQueued, IsCurrent
  <1>8. LossGetsThrough'
    BY DEF IInv, PeerLost, client, executor, LossGetsThrough, IsCurrent
  <1> QED
    BY <1>1, <1>2, <1>3, <1>4, <1>5, <1>6, <1>7, <1>8 DEF IInv

\* A native thread finds the peer lost.
LEMMA NoticeKeeps ==
    ASSUME IInv, NEW t \in Thread, Notice(t)
    PROVE  IInv'
  <1>1. TypeOK'
    BY ReportTypes DEF IInv, Notice, client, executor, native, TypeOK, Step, Report
  <1>2. OnlyHeldIsActive'
    BY DEF IInv, Notice, client, executor, native, OnlyHeldIsActive
  <1>3. GenerationsDrawn'
    BY DEF IInv, Notice, client, executor, native, GenerationsDrawn, Drawn, TypeOK
  <1>4. QueuedOnce'
    BY DEF IInv, Notice, client, executor, native, QueuedOnce
  <1>5. ExecutorInStep'
    BY DEF IInv, Notice, client, executor, native, ExecutorInStep
  <1>6. CurrentIsLast'
    BY DEF IInv, Notice, client, executor, native, CurrentIsLast
  <1>7. LeftoversQueued'
    BY DEF IInv, Notice, client, executor, native, LeftoversQueued, IsCurrent
  <1>8. LossGetsThrough'
    BY DEF IInv, Notice, client, executor, native, LossGetsThrough, IsCurrent, TypeOK
  <1> QED
    BY <1>1, <1>2, <1>3, <1>4, <1>5, <1>6, <1>7, <1>8 DEF IInv

\* The loss is recorded together with the report of it.
LEMMA SpawnReportKeeps ==
    ASSUME IInv, NEW t \in Thread, SpawnReport(t)
    PROVE  IInv'
  <1>1. TypeOK'
    BY DEF IInv, SpawnReport, client, executor, TypeOK, Step, Report
  <1>2. OnlyHeldIsActive'
    BY DEF IInv, SpawnReport, client, executor, OnlyHeldIsActive
  <1>3. GenerationsDrawn'
    BY DEF IInv, SpawnReport, client, executor, GenerationsDrawn, Drawn, TypeOK, Report
  <1>4. QueuedOnce'
    BY DEF IInv, SpawnReport, client, executor, QueuedOnce
  <1>5. ExecutorInStep'
    BY DEF IInv, SpawnReport, client, executor, ExecutorInStep
  <1>6. CurrentIsLast'
    BY DEF IInv, SpawnReport, client, executor, CurrentIsLast
  <1>7. LeftoversQueued'
    BY DEF IInv, SpawnReport, client, executor, LeftoversQueued, IsCurrent
  <1>8. LossGetsThrough'
    BY DEF IInv, SpawnReport, client, executor, LossGetsThrough, IsCurrent, TypeOK, Report
  <1> QED
    BY <1>1, <1>2, <1>3, <1>4, <1>5, <1>6, <1>7, <1>8 DEF IInv

\* A report about the current attempt finds its listener.
LEMMA ReadListenerKeeps ==
    ASSUME IInv, NEW t \in Thread, ReadListener(t)
    PROVE  IInv'
  <1>1. TypeOK'
    BY ReportTypes DEF IInv, ReadListener, client, executor, native, TypeOK, Step, Report
  <1>2. OnlyHeldIsActive'
    BY DEF IInv, ReadListener, client, executor, native, OnlyHeldIsActive
  <1>3. GenerationsDrawn'
    BY DEF IInv, ReadListener, client, executor, native, GenerationsDrawn, Drawn, TypeOK, Report, NoReport
  <1>4. QueuedOnce'
    BY DEF IInv, ReadListener, client, executor, native, QueuedOnce
  <1>5. ExecutorInStep'
    BY DEF IInv, ReadListener, client, executor, native, ExecutorInStep
  <1>6. CurrentIsLast'
    BY DEF IInv, ReadListener, client, executor, native, CurrentIsLast
  <1>7. LeftoversQueued'
    BY DEF IInv, ReadListener, client, executor, native, LeftoversQueued, IsCurrent
  <1>8. LossGetsThrough'
    BY DEF IInv, ReadListener, client, executor, native, LossGetsThrough, IsCurrent, TypeOK, Report, ExecutorInStep
  <1> QED
    BY <1>1, <1>2, <1>3, <1>4, <1>5, <1>6, <1>7, <1>8 DEF IInv

\* Dropping the object in use leaves no attempt under way.
LEMMA DropKeeps ==
    ASSUME IInv, DisconnectHeld, held' \in {0, held}
    PROVE  IInv'
  <1>a. held \in Conn
    BY BoundAssumption DEF IInv, DisconnectHeld, TypeOK, Conn
  <1>b. \A c \in Conn : /\ activeGeneration'[c] = 0
                         /\ state'[c] \notin {"CONNECTING", "CONNECTED"}
    BY <1>a DEF IInv, DisconnectHeld, TypeOK, OnlyHeldIsActive
  <1>c. /\ tasks' \in Seq(Task) /\ tasks' # <<>>
        /\ \A i \in 1 .. Len(tasks') :
              \/ tasks'[i] = NoAttempt
              \/ i \in 1 .. Len(tasks) /\ tasks'[i] = tasks[i]
    BY StopIsQueued DEF DisconnectHeld
  <1>1. TypeOK'
    <2>1. activeGeneration' \in [Conn -> Nat]
      BY DEF IInv, DisconnectHeld, TypeOK
    <2>2. \A c \in Conn : activeGeneration'[c] <= nextGeneration'[c]
      BY <1>b DEF IInv, DisconnectHeld, TypeOK
    <2>3. state' \in [Conn -> State]
      BY DEF IInv, DisconnectHeld, TypeOK, State
    <2>4. held' \in 0 .. created'
      BY DEF IInv, DisconnectHeld, TypeOK
    <2> QED
      BY <1>c, <2>1, <2>2, <2>3, <2>4 DEF IInv, DisconnectHeld, Interrupt, TypeOK
  <1>2. OnlyHeldIsActive'
    BY <1>b, <1>c DEF IInv, DisconnectHeld, Interrupt, OnlyHeldIsActive
  <1>3. GenerationsDrawn'
    BY <1>b, <1>c DEF IInv, DisconnectHeld, Interrupt, GenerationsDrawn, Drawn
  <1>4. QueuedOnce'
    BY <1>b, <1>c DEF IInv, DisconnectHeld, Interrupt, QueuedOnce, TypeOK
  <1>5. ExecutorInStep'
    BY <1>b, <1>c DEF IInv, DisconnectHeld, Interrupt, ExecutorInStep
  <1>6. CurrentIsLast'
    BY <1>b, <1>c DEF IInv, DisconnectHeld, Interrupt, CurrentIsLast
  <1>7. LeftoversQueued'
    BY <1>b, <1>c DEF IInv, DisconnectHeld, Interrupt, LeftoversQueued, IsCurrent
  <1>8. LossGetsThrough'
    BY <1>b, <1>c, AttemptParts DEF IInv, DisconnectHeld, Interrupt, LossGetsThrough, IsCurrent, TypeOK
  <1> QED
    BY <1>1, <1>2, <1>3, <1>4, <1>5, <1>6, <1>7, <1>8 DEF IInv

\* An object that connects while no other has an attempt under way gets a
\* generation nobody has seen, and its task goes to the end of the queue.
LEMMA ConnectFromKeeps ==
    ASSUME IInv,
           NEW c \in Conn, NEW queue \in Seq(Task),
           NEW states \in [Conn -> State], NEW generations \in [Conn -> Nat],
           \A d \in Conn \ {c} : /\ generations[d] = 0
                                 /\ states[d] \notin {"CONNECTING", "CONNECTED"},
           \A i \in 1 .. Len(queue) :
              \/ queue[i] = NoAttempt
              \/ i \in 1 .. Len(tasks) /\ queue[i] = tasks[i],
           ConnectFrom(c, queue, states, generations),
           created' \in 0 .. MaxConn, held' = c, c <= created'
    PROVE  IInv'
  <1> DEFINE g == nextGeneration[c] + 1
             a == <<c, g>>
  <1>a. g \in Nat /\ g # 0 /\ a \in Task /\ a # NoAttempt
    <2>1. g \in Nat /\ g # 0
      BY DEF IInv, TypeOK
    <2> QED
      BY <2>1, AttemptIsTask
  <1> HIDE DEF g, a
  <1>b. /\ nextGeneration' \in [Conn -> Nat]
        /\ \A d \in Conn : nextGeneration'[d] = IF d = c THEN g ELSE nextGeneration[d]
        /\ \A d \in Conn : nextGeneration[d] \in Nat /\ nextGeneration[d] <= nextGeneration'[d]
    BY DEF IInv, TypeOK, ConnectFrom, g
  <1>c. /\ activeGeneration' \in [Conn -> Nat]
        /\ \A d \in Conn : activeGeneration'[d] = IF d = c THEN g ELSE 0
    BY <1>a DEF ConnectFrom, g
  <1>d. /\ state' \in [Conn -> State]
        /\ \A d \in Conn : state'[d] \in {"CONNECTING", "CONNECTED"} <=> d = c
        /\ state'[c] = "CONNECTING"
    BY DEF ConnectFrom, State
  <1>e. tasks' = Append(queue, a)
    BY DEF ConnectFrom, g, a
  <1>f. /\ tasks' \in Seq(Task) /\ tasks' # <<>>
        /\ Len(tasks') = Len(queue) + 1 /\ Len(queue) \in Nat
        /\ tasks'[Len(tasks')] = a
        /\ \A i \in 1 .. Len(queue) : tasks'[i] = queue[i]
    BY <1>a, <1>e, AppendFacts
  <1>g. a[1] = c /\ a[2] = g
    BY DEF a
  <1>h. ASSUME NEW b \in Task, Drawn(b) PROVE b # a
    BY <1>a, <1>g, <1>h DEF IInv, TypeOK, Drawn, g
  <1>i. ASSUME NEW b \in Task, Drawn(b)
        PROVE  b # NoAttempt => /\ b[2] <= nextGeneration'[b[1]]
                                /\ activeGeneration'[b[1]] # b[2]
    <2> SUFFICES ASSUME b # NoAttempt
                 PROVE  /\ b[2] <= nextGeneration'[b[1]]
                        /\ activeGeneration'[b[1]] # b[2]
      OBVIOUS
    <2>1. b[1] \in Conn /\ b[2] \in Nat /\ b[2] # 0 /\ b[2] <= nextGeneration[b[1]]
      BY <1>i, AttemptParts DEF Drawn
    <2>2. b[2] <= nextGeneration'[b[1]]
      BY <1>b, <2>1
    <2>3. b[1] = c => b[2] < g
      BY <2>1 DEF IInv, TypeOK, g
    <2> QED
      BY <1>a, <1>c, <2>1, <2>2, <2>3
  <1>1. TypeOK'
    <2>1. ASSUME NEW d \in Conn PROVE activeGeneration'[d] <= nextGeneration'[d]
      <3>1. CASE d = c
        BY <1>a, <1>b, <1>c, <3>1
      <3>2. CASE d # c
        <4>1. /\ activeGeneration'[d] = 0 /\ nextGeneration'[d] = nextGeneration[d]
              /\ nextGeneration[d] \in Nat
          BY <1>b, <1>c, <3>2
        <4> QED
          BY <4>1
      <3> QED
        BY <3>1, <3>2
    <2>2. held' \in 0 .. created'
      BY DEF Conn
    <2> QED
      BY <1>b, <1>c, <1>d, <1>f, <2>1, <2>2 DEF IInv, ConnectFrom, Interrupt, TypeOK
  <1>2. OnlyHeldIsActive'
    BY <1>a, <1>c, <1>d DEF OnlyHeldIsActive
  <1>3. GenerationsDrawn'
    <2>1. a[2] <= nextGeneration'[a[1]]
      BY <1>a, <1>b, <1>g
    <2>2. ASSUME NEW i \in 1 .. Len(tasks'), tasks'[i] # NoAttempt
          PROVE  tasks'[i][2] <= nextGeneration'[tasks'[i][1]]
      <3>1. CASE i \in 1 .. Len(queue)
        <4>1. i \in 1 .. Len(tasks) /\ tasks'[i] = tasks[i]
          BY <1>f, <2>2, <3>1
        <4>2. tasks[i] \in Task /\ Drawn(tasks[i])
          BY <4>1 DEF IInv, TypeOK, GenerationsDrawn
        <4> QED
          BY <1>i, <2>2, <4>1, <4>2
      <3>2. CASE i = Len(tasks')
        BY <1>f, <2>1, <3>2
      <3> QED
        BY <1>f, <3>1, <3>2
    <2>3. \A b \in {task', bridge', owner'} :
             b # NoAttempt => b[2] <= nextGeneration'[b[1]]
      BY <1>i DEF IInv, ConnectFrom, Interrupt, TypeOK, GenerationsDrawn
    <2>4. \A t \in Thread : report'[t].to # NoAttempt
                             => report'[t].to[2] <= nextGeneration'[report'[t].to[1]]
      BY <1>i DEF IInv, ConnectFrom, TypeOK, Report, GenerationsDrawn
    <2> QED
      BY <2>2, <2>3, <2>4 DEF GenerationsDrawn, Drawn
  <1>4. QueuedOnce'
    <2>1. \A i \in 1 .. Len(queue) : queue[i] # a
      BY <1>a, <1>h DEF IInv, TypeOK, GenerationsDrawn
    <2>2. task # a
      BY <1>h DEF IInv, TypeOK, GenerationsDrawn
    <2>3. ASSUME NEW i \in 1 .. Len(tasks'), NEW j \in 1 .. Len(tasks'),
                 tasks'[i] = tasks'[j], tasks'[i] # NoAttempt
          PROVE  i = j
      <3>1. CASE i \in 1 .. Len(queue) /\ j \in 1 .. Len(queue)
        BY <1>f, <2>3, <3>1 DEF IInv, QueuedOnce
      <3>2. CASE i = Len(tasks') \/ j = Len(tasks')
        BY <1>f, <2>1, <2>3, <3>2
      <3> QED
        BY <1>f, <3>1, <3>2
    <2>4. ASSUME step # "idle", task # NoAttempt, NEW i \in 1 .. Len(tasks')
          PROVE  tasks'[i] # task
      BY <1>f, <2>2, <2>4 DEF IInv, QueuedOnce
    <2> QED
      BY <2>3, <2>4 DEF QueuedOnce, ConnectFrom
  <1>5. ExecutorInStep'
    BY DEF IInv, ConnectFrom, Interrupt, ExecutorInStep
  <1>6. CurrentIsLast'
    BY <1>c, <1>d, <1>f DEF CurrentIsLast, a
  <1>7. LeftoversQueued'
    BY <1>f DEF LeftoversQueued
  <1>8. LossGetsThrough'
    <2>1. ~IsCurrent(owner)'
      BY <1>i DEF IInv, TypeOK, GenerationsDrawn, ConnectFrom, Interrupt, IsCurrent
    <2> QED
      BY <2>1 DEF LossGetsThrough
  <1> QED
    BY <1>1, <1>2, <1>3, <1>4, <1>5, <1>6, <1>7, <1>8 DEF IInv

\* connect() on the object in use.
LEMMA ConnectKeeps ==
    ASSUME IInv, Connect
    PROVE  IInv'
  <1>1. held \in Conn /\ held <= created'
    BY BoundAssumption DEF IInv, Connect, TypeOK, Conn
  <1>2. \A d \in Conn \ {held} : /\ activeGeneration[d] = 0
                                  /\ state[d] \notin {"CONNECTING", "CONNECTED"}
    BY DEF IInv, OnlyHeldIsActive
  <1>3. ConnectFrom(held, tasks, state, activeGeneration) /\ held' = held
        /\ created' \in 0 .. MaxConn
    BY DEF IInv, Connect, TypeOK
  <1> QED
    BY <1>1, <1>2, <1>3, ConnectFromKeeps DEF IInv, TypeOK

\* A new object takes over; the old one, if there is one, is dropped first.
LEMMA ReplaceKeeps ==
    ASSUME IInv, Replace
    PROVE  IInv'
  <1>1. /\ created + 1 \in Conn /\ held' = created + 1 /\ created' = created + 1
        /\ created' \in 0 .. MaxConn /\ created + 1 <= created'
    BY BoundAssumption DEF IInv, Replace, TypeOK, Conn
  <1>2. CASE held = 0
    <2>1. \A d \in Conn : /\ activeGeneration[d] = 0
                          /\ state[d] \notin {"CONNECTING", "CONNECTED"}
      BY <1>2 DEF IInv, OnlyHeldIsActive, Conn
    <2>2. ConnectFrom(created + 1, tasks, state, activeGeneration)
      BY <1>2 DEF Replace
    <2> QED
      BY <1>1, <2>1, <2>2, ConnectFromKeeps DEF IInv, TypeOK
  <1>3. CASE held # 0
    <2> DEFINE queue == Append(tasks, NoAttempt)
               states == [state EXCEPT ![held] = "DISCONNECTED"]
               generations == [activeGeneration EXCEPT ![held] = 0]
    <2>1. ConnectFrom(created + 1, queue, states, generations)
      BY <1>3 DEF Replace
    <2>2. states \in [Conn -> State] /\ generations \in [Conn -> Nat]
      BY DEF IInv, TypeOK, State
    <2>3. \A d \in Conn : /\ generations[d] = 0
                          /\ states[d] \notin {"CONNECTING", "CONNECTED"}
      BY <1>3 DEF IInv, TypeOK, OnlyHeldIsActive, Conn
    <2>4. /\ queue \in Seq(Task)
          /\ \A i \in 1 .. Len(queue) :
                \/ queue[i] = NoAttempt
                \/ i \in 1 .. Len(tasks) /\ queue[i] = tasks[i]
      BY AppendFacts, ReportTypes DEF IInv, TypeOK
    <2> HIDE DEF queue, states, generations
    <2> QED
      BY <1>1, <2>1, <2>2, <2>3, <2>4, ConnectFromKeeps
  <1> QED
    BY <1>2, <1>3

\* Every step of the connection keeps the inductive invariant.
LEMMA NextInvariant == IInv /\ [Next]_vars => IInv'
  <1> SUFFICES ASSUME IInv, [Next]_vars PROVE IInv'
    OBVIOUS
  <1>1. CASE Caller
    BY <1>1, ConnectKeeps, ReplaceKeeps, DropKeeps DEF Caller, Disconnect, Destroy
  <1>2. CASE ExecutorStep
    BY <1>2, TakeTaskKeeps, StopNativeKeeps, CleanupBridgeKeeps,
       CheckGenerationKeeps, SetupBridgeKeeps, StartNativeKeeps,
       ConnectionStartedKeeps, StageFailedKeeps, StartFailsKeeps
       DEF ExecutorStep
  <1>3. CASE PeerLost
    BY <1>3, PeerLostKeeps
  <1>4. ASSUME NEW t \in Thread, Notice(t) \/ ReportStep(t) PROVE IInv'
    BY <1>4, NoticeKeeps, SpawnReportKeeps, ReadListenerKeeps,
       ConnectionTerminatedKeeps DEF ReportStep
  <1>5. CASE UNCHANGED vars
    BY <1>5 DEF vars, client, executor, native, IInv, TypeOK, OnlyHeldIsActive,
       GenerationsDrawn, Drawn, QueuedOnce, ExecutorInStep, CurrentIsLast,
       LeftoversQueued, LossGetsThrough, IsCurrent
  <1> QED
    BY <1>1, <1>2, <1>3, <1>4, <1>5 DEF Next

\* The inductive invariant holds throughout.
LEMMA Invariance == Spec => []IInv
  BY InitInvariant, NextInvariant, PTL DEF Spec

-----------------------------------------------------------------------------
\* Every variable keeps its type, and no object's current generation is one
\* it has not drawn.
THEOREM TypeCorrect == Spec => []TypeOK
  <1>1. IInv => TypeOK
    BY DEF IInv
  <1> QED
    BY <1>1, Invariance, PTL

\* The native library is never started while it runs.
THEOREM NoOverlap == Spec => []StartsFromScratch
  <1>1. IInv => StartsFromScratch
    BY DEF IInv, ExecutorInStep, StartsFromScratch
  <1> QED
    BY <1>1, Invariance, PTL

\* A running library calls the listener of its own attempt.
THEOREM OwnCallbacks == Spec => []CallbacksReachOwner
  <1>1. IInv => CallbacksReachOwner
    BY DEF IInv, ExecutorInStep, CallbacksReachOwner
  <1> QED
    BY <1>1, Invariance, PTL

\* What was given up is stopped, or a task is at hand that will.
THEOREM GivenUpIsStopped == Spec => []NothingLeftBehind
  <1>1. IInv => NothingLeftBehind
    BY DEF IInv, LeftoversQueued, NothingLeftBehind
  <1> QED
    BY <1>1, Invariance, PTL

\* A connected object has the running library to itself, and the loss of its
\* peer on the way to it.
THEOREM ConnectedIsServed == Spec => []ConnectedIsReal
  <1>1. IInv => ConnectedIsReal
    <2> SUFFICES ASSUME IInv, NEW c \in Conn, state[c] = "CONNECTED"
                 PROVE  /\ library = "up"
                        /\ owner = <<c, activeGeneration[c]>> /\ IsCurrent(owner)
                        /\ tasks = <<>> /\ step = "idle"
      BY DEF ConnectedIsReal, IInv, LossGetsThrough
    <2>1. activeGeneration[c] # 0
      BY DEF IInv, OnlyHeldIsActive
    <2>2. /\ library = "up" /\ owner = <<c, activeGeneration[c]>>
          /\ tasks = <<>> /\ step = "idle"
      BY <2>1 DEF IInv, CurrentIsLast
    <2> QED
      BY <2>1, <2>2, AttemptIsTask DEF IInv, TypeOK, IsCurrent
  <1> QED
    BY <1>1, Invariance, PTL

\* A connecting object has its start under way or last in the queue.
THEOREM ConnectingIsServed == Spec => []ConnectingIsDriven
  <1>1. IInv => ConnectingIsDriven
    BY DEF IInv, OnlyHeldIsActive, CurrentIsLast, ConnectingIsDriven
  <1> QED
    BY <1>1, Invariance, PTL

\* What an object shows of its attempt is true of the library and its queue.
THEOREM AttemptsAreServed == Spec => []AttemptIsServed
  BY ConnectedIsServed, ConnectingIsServed, PTL DEF AttemptIsServed

=============================================================================
