---------------------- MODULE MoonToneControllerProofs ----------------------
(***************************************************************************)
(* The safety properties of MoonToneController, proved for any number of   *)
(* requests.                                                               *)
(***************************************************************************)
EXTENDS MoonToneController, TLAPS

InPipeline(j) == j.phase \in {"connect", "started"}

\* launchMutex has one holder.
OneHolder == \A j, k \in jobs : HoldsMutex(j) /\ HoldsMutex(k) => j = k

\* A request is worked on by its own coroutine or by its fallback, not both.
OneJobPerRequest == \A j, k \in jobs : j.gen = k.gen => j = k

\* Who is in startPipeline() has sessionLock, and connect() serves him.
LockIsHis == \A j \in jobs : /\ InPipeline(j) => lock = j.gen
                             /\ j.phase = "started" => served = j.gen

\* A disconnect() draws a number no request has, and comes before or after the
\* whole of a startPipeline().
DropsBetween == \A j \in jobs : /\ j.gen # dropped
                                /\ InPipeline(j) => j.gen > dropped

\* A connection under way shows no loss of an earlier one.
LossIsCleared == Up => error # "terminated"

HeldBySession == held <=> activeSession # 0

\* Resources without a connection are about to get one, or to be cleaned up.
HeldIsCovered ==
    held /\ ~Up => \/ \E j \in jobs : j.phase = "connect"
                   \/ activeSession # 0 /\ cleanups[activeSession] > 0

\* The launches a job may still make for its request.
Owed(j) == (IF j.kind # "manual" /\ j.phase \in {"watch", "waiting", "info"} THEN 1 ELSE 0)
           + (IF j.allowFallback THEN 1 ELSE 0)

LaunchesOwed ==
    /\ \A j \in jobs : launches[j.gen] + Owed(j) <= 2
    /\ \A g \in 1 .. MaxGeneration : g > connectGeneration => launches[g] = 0

\* While nobody asks for something else, the connection a fallback watches is
\* the one it was started for, and once seen it is up or lost.
WatchesItsOwn ==
    \A j \in jobs : j.phase = "watch" =>
        /\ \A k \in jobs : InPipeline(k) => k.gen > j.gen
        /\ Current(j) => served = j.gen
        /\ Current(j) /\ j.seen => state # "CONNECTING"
        /\ Current(j) /\ j.seen /\ ~Up /\ error = "terminated" => j.gen \in died

IInv == /\ TypeOK
        /\ OneHolder
        /\ OneJobPerRequest
        /\ LockIsHis
        /\ DropsBetween
        /\ DisconnectSticks
        /\ LossIsCleared
        /\ HeldBySession
        /\ HeldIsCovered
        /\ LaunchesOwed
        /\ OneRepetition
        /\ WatchesItsOwn

-----------------------------------------------------------------------------
\* The phases of a job.
Phase == {"watch", "waiting", "info", "launch", "lock", "connect", "started"}

\* Only a job's phase changes when it moves on.
LEMMA ToFacts ==
    ASSUME NEW j \in Job, NEW p \in Phase
    PROVE  /\ To(j, p) \in Job
           /\ To(j, p).phase = p
           /\ To(j, p).gen = j.gen
           /\ To(j, p).kind = j.kind
           /\ To(j, p).allowFallback = j.allowFallback
           /\ To(j, p).audioOnly = j.audioOnly
           /\ To(j, p).seen = j.seen
           /\ To(j, p).age = j.age
  BY DEF To, Job, Phase

\* What a job consists of.
LEMMA JobFields ==
    ASSUME NEW j \in Job
    PROVE  /\ j.gen \in Gen /\ j.kind \in Kind /\ j.phase \in Phase
           /\ j.allowFallback \in BOOLEAN /\ j.audioOnly \in BOOLEAN
           /\ j.seen \in BOOLEAN
  BY DEF Job, Phase

\* A job that takes the place of another with the same request keeps the jobs
\* apart, if it takes the mutex only when that is free.
LEMMA BecomesKeeps ==
    ASSUME TypeOK, OneHolder, OneJobPerRequest,
           NEW j \in jobs, NEW k \in Job, k.gen = j.gen,
           HoldsMutex(k) => HoldsMutex(j) \/ ~\E i \in jobs : HoldsMutex(i),
           Becomes(j, k)
    PROVE  /\ jobs' \subseteq Job /\ k \in jobs'
           /\ \A i \in jobs' : i = k \/ (i \in jobs /\ i # j /\ i.gen # j.gen)
           /\ OneHolder' /\ OneJobPerRequest'
  <1>1. jobs' \subseteq Job /\ k \in jobs'
    BY DEF TypeOK, Becomes
  <1>2. \A i \in jobs' : i = k \/ (i \in jobs /\ i # j /\ i.gen # j.gen)
    <2>1. \A i \in jobs' : i = k \/ (i \in jobs /\ i # j)
      BY DEF Becomes
    <2> QED
      BY <2>1, Zenon DEF OneJobPerRequest
  <1>3. OneHolder'
    BY <1>2 DEF OneHolder, HoldsMutex
  <1>4. OneJobPerRequest'
    BY <1>2 DEF OneJobPerRequest
  <1> QED
    BY <1>1, <1>2, <1>3, <1>4

\* A job that ends leaves the others apart.
LEMMA FinishesKeeps ==
    ASSUME TypeOK, OneHolder, OneJobPerRequest, NEW j \in jobs, Finishes(j)
    PROVE  /\ jobs' \subseteq jobs /\ jobs' \subseteq Job /\ j \notin jobs'
           /\ OneHolder' /\ OneJobPerRequest'
  BY DEF TypeOK, OneHolder, OneJobPerRequest, Finishes, HoldsMutex

\* Whatever happens to the error here is not the loss of a connection.
ErrorSettles == error' = error \/ error' \in {"none", "other"}

\* A job that ends outside startPipeline() disturbs nothing.
LEMMA LeavesKeeps ==
    ASSUME IInv, NEW j \in jobs, Finishes(j), j.phase # "connect",
           ErrorSettles, audioOnlyCap' \in BOOLEAN,
           UNCHANGED <<connectGeneration, session, lock, state, served, cleanups,
                       dropped, launches, died>>
    PROVE  IInv'
  <1>1. /\ jobs' \subseteq jobs /\ jobs' \subseteq Job /\ j \notin jobs'
        /\ OneHolder' /\ OneJobPerRequest'
    BY FinishesKeeps DEF IInv
  <1>2. TypeOK'
    BY <1>1 DEF IInv, TypeOK, ErrorSettles, session
  <1>3. LockIsHis' /\ DropsBetween'
    BY <1>1 DEF IInv, LockIsHis, DropsBetween, InPipeline
  <1>4. DisconnectSticks' /\ LossIsCleared' /\ HeldBySession'
    BY DEF IInv, DisconnectSticks, LossIsCleared, HeldBySession, Up, session, ErrorSettles
  <1>5. HeldIsCovered'
    BY DEF IInv, HeldIsCovered, Up, session, Finishes
  <1>6. LaunchesOwed' /\ OneRepetition'
    BY <1>1 DEF IInv, LaunchesOwed, OneRepetition, Owed
  <1>7. WatchesItsOwn'
    BY <1>1 DEF IInv, WatchesItsOwn, InPipeline, Current, Up, ErrorSettles
  <1> QED
    BY <1>1, <1>2, <1>3, <1>4, <1>5, <1>6, <1>7 DEF IInv

\* A job that moves on outside startPipeline() disturbs nothing, if it pays for
\* the launch it makes.
LEMMA MovesKeeps ==
    ASSUME IInv, NEW j \in jobs, NEW k \in Job, k.gen = j.gen, Becomes(j, k),
           HoldsMutex(k) => HoldsMutex(j) \/ ~\E i \in jobs : HoldsMutex(i),
           ~InPipeline(j), ~InPipeline(k),
           k.phase = "watch" => /\ j.phase = "watch"
                                /\ k.seen => j.seen \/ state = "CONNECTED",
           ErrorSettles, audioOnlyCap' \in BOOLEAN,
           \/ launches' = launches /\ Owed(k) <= Owed(j)
           \/ launches' = [launches EXCEPT ![j.gen] = @ + 1] /\ Owed(k) + 1 = Owed(j),
           UNCHANGED <<connectGeneration, session, lock, state, served, cleanups,
                       dropped, died>>
    PROVE  IInv'
  <1>1. /\ jobs' \subseteq Job /\ k \in jobs'
        /\ \A i \in jobs' : i = k \/ (i \in jobs /\ i # j /\ i.gen # j.gen)
        /\ OneHolder' /\ OneJobPerRequest'
    BY BecomesKeeps DEF IInv
  <1>a. /\ connectGeneration \in 0 .. MaxGeneration /\ MaxGeneration \in Nat
        /\ j.gen \in 1 .. MaxGeneration /\ j.gen <= connectGeneration
        /\ launches \in [1 .. MaxGeneration -> Nat]
    BY BoundAssumption, JobFields DEF IInv, TypeOK, Gen
  <1>b. Owed(k) \in 0 .. 2 /\ Owed(j) \in 0 .. 2
    BY DEF Owed
  <1>c. /\ launches' \in [1 .. MaxGeneration -> Nat]
        /\ launches'[j.gen] + Owed(k) <= launches[j.gen] + Owed(j)
        /\ \A g \in 1 .. MaxGeneration : g # j.gen => launches'[g] = launches[g]
    <2>1. CASE launches' = launches /\ Owed(k) <= Owed(j)
      BY <1>a, <1>b, <2>1
    <2>2. CASE launches' = [launches EXCEPT ![j.gen] = @ + 1] /\ Owed(k) + 1 = Owed(j)
      <3>1. /\ launches' \in [1 .. MaxGeneration -> Nat]
            /\ launches'[j.gen] = launches[j.gen] + 1
            /\ \A g \in 1 .. MaxGeneration : g # j.gen => launches'[g] = launches[g]
        BY <1>a, <2>2
      <3>2. launches[j.gen] \in Nat
        BY <1>a
      <3> QED
        BY <1>b, <2>2, <3>1, <3>2
    <2> QED
      BY <2>1, <2>2
  <1>2. TypeOK'
    <2>1. \A i \in jobs' : i.gen <= connectGeneration'
      BY <1>1, <1>a DEF IInv, TypeOK
    <2> QED
      BY <1>1, <1>c, <2>1 DEF IInv, TypeOK, ErrorSettles, session
  <1>3. LockIsHis' /\ DropsBetween'
    BY <1>1 DEF IInv, LockIsHis, DropsBetween, InPipeline
  <1>4. DisconnectSticks' /\ LossIsCleared' /\ HeldBySession'
    BY DEF IInv, DisconnectSticks, LossIsCleared, HeldBySession, Up, session, ErrorSettles
  <1>5. HeldIsCovered'
    BY DEF IInv, HeldIsCovered, Up, session, Becomes, InPipeline
  <1>6. LaunchesOwed'
    <2>1. launches[j.gen] + Owed(j) <= 2
      BY DEF IInv, LaunchesOwed
    <2>2. launches'[k.gen] + Owed(k) <= 2
      BY <1>a, <1>b, <1>c, <2>1
    <2>3. ASSUME NEW i \in jobs' PROVE launches'[i.gen] + Owed(i) <= 2
      <3>1. CASE i = k
        BY <2>2, <3>1
      <3>2. CASE i \in jobs /\ i.gen # j.gen
        <4>1. launches[i.gen] + Owed(i) <= 2
          BY <3>2 DEF IInv, LaunchesOwed
        <4>2. i.gen \in 1 .. MaxGeneration
          BY <3>2, <1>a, JobFields DEF IInv, TypeOK, Gen
        <4> QED
          BY <3>2, <1>c, <4>1, <4>2
      <3> QED
        BY <1>1, <3>1, <3>2
    <2>4. \A g \in 1 .. MaxGeneration : g > connectGeneration' => launches'[g] = 0
      BY <1>a, <1>c DEF IInv, LaunchesOwed
    <2> QED
      BY <2>3, <2>4 DEF LaunchesOwed, Owed
  <1>7. OneRepetition'
    <2>1. launches[j.gen] + Owed(j) <= 2
      BY DEF IInv, LaunchesOwed
    <2>2. launches'[j.gen] \in Nat /\ launches'[j.gen] <= 2
      BY <1>a, <1>b, <1>c, <2>1
    <2> QED
      BY <1>c, <2>2 DEF IInv, OneRepetition
  <1>8. WatchesItsOwn'
    <2> SUFFICES ASSUME NEW i \in jobs', i.phase = "watch"
                 PROVE  /\ \A l \in jobs' : InPipeline(l) => l.gen > i.gen
                        /\ Current(i)' => served' = i.gen
                        /\ Current(i)' /\ i.seen => state' # "CONNECTING"
                        /\ Current(i)' /\ i.seen /\ ~Up' /\ error' = "terminated"
                              => i.gen \in died'
      BY DEF WatchesItsOwn, Current, InPipeline
    <2> DEFINE h == IF i = k THEN j ELSE i
    <2>1. /\ h \in jobs /\ h.phase = "watch" /\ h.gen = i.gen
          /\ i.seen => h.seen \/ state = "CONNECTED"
      BY <1>1
    <2>2. \A l \in jobs' : InPipeline(l) => l \in jobs
      BY <1>1
    <2> QED
      BY <2>1, <2>2 DEF IInv, WatchesItsOwn, InPipeline, Current, Up, ErrorSettles
  <1> QED
    BY <1>1, <1>2, <1>3, <1>4, <1>5, <1>6, <1>7, <1>8 DEF IInv

-----------------------------------------------------------------------------
\* A job that gets the mutex goes on or leaves.
LEMMA AcquireKeeps ==
    ASSUME IInv, NEW j \in jobs, Acquire(j)
    PROVE  IInv'
  <1>0. j \in Job /\ j.phase = "waiting" /\ audioOnlyCap \in BOOLEAN
    BY DEF IInv, TypeOK, Acquire
  <1>1. CASE Becomes(j, To(j, "info"))
    <2>1. /\ To(j, "info") \in Job /\ To(j, "info").phase = "info"
          /\ To(j, "info").gen = j.gen /\ Owed(To(j, "info")) <= Owed(j)
      BY <1>0, ToFacts DEF Phase, Owed
    <2> QED
      BY <1>0, <1>1, <2>1, MovesKeeps DEF Acquire, HoldsMutex, InPipeline, ErrorSettles
  <1>2. CASE Finishes(j)
    BY <1>0, <1>2, LeavesKeeps DEF Acquire, ErrorSettles
  <1> QED
    BY <1>1, <1>2 DEF Acquire

\* A launch pays for itself when /serverinfo has answered.
LEMMA ServerInfoKeeps ==
    ASSUME IInv, NEW j \in jobs, NEW advertised \in Advertising,
           ServerInfo(j, advertised)
    PROVE  IInv'
  <1> DEFINE k == [j EXCEPT !.audioOnly = advertised \/ audioOnlyCap]
  <1>0. j \in Job /\ j.phase = "info" /\ audioOnlyCap \in BOOLEAN
    BY DEF IInv, TypeOK, ServerInfo
  <1>1. /\ k \in Job /\ k.gen = j.gen /\ k.kind = j.kind
        /\ k.phase = "info" /\ k.allowFallback = j.allowFallback
    BY <1>0, CapAssumption DEF Job
  <1>2. \/ ~Current(j) /\ Finishes(j) /\ launches' = launches
        \/ j.kind = "manual" /\ Becomes(j, To(k, "lock")) /\ launches' = launches
        \/ /\ j.kind # "manual" /\ Becomes(j, To(k, "launch"))
           /\ launches' = [launches EXCEPT ![j.gen] = @ + 1]
    BY DEF ServerInfo
  <1> HIDE DEF k
  <1>3. ASSUME NEW p \in {"lock", "launch"}
        PROVE  /\ To(k, p) \in Job /\ To(k, p).phase = p /\ To(k, p).gen = j.gen
               /\ To(k, p).kind = j.kind /\ To(k, p).allowFallback = j.allowFallback
    BY <1>1, ToFacts DEF Phase
  <1>4. CASE ~Current(j) /\ Finishes(j) /\ launches' = launches
    BY <1>0, <1>4, LeavesKeeps DEF ServerInfo, ErrorSettles, connection
  <1>5. CASE j.kind = "manual" /\ Becomes(j, To(k, "lock")) /\ launches' = launches
    <2>1. Owed(To(k, "lock")) <= Owed(j)
      BY <1>0, <1>3, <1>5 DEF Owed
    <2> QED
      BY <1>0, <1>3, <1>5, <2>1, MovesKeeps
         DEF ServerInfo, HoldsMutex, InPipeline, ErrorSettles, connection
  <1>6. CASE /\ j.kind # "manual" /\ Becomes(j, To(k, "launch"))
             /\ launches' = [launches EXCEPT ![j.gen] = @ + 1]
    <2>1. Owed(To(k, "launch")) + 1 = Owed(j)
      BY <1>0, <1>3, <1>6 DEF Owed
    <2> QED
      BY <1>0, <1>3, <1>6, <2>1, MovesKeeps
         DEF ServerInfo, HoldsMutex, InPipeline, ErrorSettles, connection
  <1> QED
    BY <1>2, <1>4, <1>5, <1>6

\* A launch that returns goes on to startPipeline().
LEMMA LaunchReturnsKeeps ==
    ASSUME IInv, NEW j \in jobs, LaunchReturns(j)
    PROVE  IInv'
  <1>0. j \in Job /\ j.phase = "launch" /\ audioOnlyCap \in BOOLEAN
    BY DEF IInv, TypeOK, LaunchReturns
  <1>1. /\ To(j, "lock") \in Job /\ To(j, "lock").phase = "lock"
        /\ To(j, "lock").gen = j.gen /\ Owed(To(j, "lock")) <= Owed(j)
    BY <1>0, ToFacts DEF Phase, Owed
  <1>2. CASE Becomes(j, To(j, "lock"))
    BY <1>0, <1>1, <1>2, MovesKeeps
       DEF LaunchReturns, HoldsMutex, InPipeline, ErrorSettles, connection
  <1>3. CASE Finishes(j)
    BY <1>0, <1>3, LeavesKeeps DEF LaunchReturns, ErrorSettles, connection
  <1> QED
    BY <1>2, <1>3 DEF LaunchReturns

\* The repetition of a rejected launch was owed from the start.
LEMMA LaunchRejectedKeeps ==
    ASSUME IInv, NEW j \in jobs, LaunchRejected(j)
    PROVE  IInv'
  <1> DEFINE k == [To(j, "info") EXCEPT !.allowFallback = FALSE]
  <1>0. /\ j \in Job /\ j.phase = "launch" /\ j.allowFallback
        /\ audioOnlyCap' \in BOOLEAN
    BY DEF IInv, TypeOK, LaunchRejected
  <1>1. To(j, "info") \in Job /\ To(j, "info").phase = "info"
        /\ To(j, "info").gen = j.gen /\ To(j, "info").kind = j.kind
    BY <1>0, ToFacts DEF Phase
  <1>2. /\ k \in Job /\ k.phase = "info" /\ k.gen = j.gen /\ k.kind = j.kind
        /\ k.allowFallback = FALSE
    BY <1>1 DEF Job
  <1>3. Owed(k) <= Owed(j)
    BY <1>0, <1>2 DEF Owed
  <1>4. CASE Becomes(j, k)
    BY <1>0, <1>2, <1>3, <1>4, MovesKeeps
       DEF LaunchRejected, HoldsMutex, InPipeline, ErrorSettles
  <1>5. CASE Finishes(j)
    BY <1>0, <1>5, LeavesKeeps DEF LaunchRejected, ErrorSettles
  <1> QED
    BY <1>4, <1>5 DEF LaunchRejected

\* A failed exchange ends the job.
LEMMA ExchangeFailsKeeps ==
    ASSUME IInv, NEW j \in jobs, ExchangeFails(j)
    PROVE  IInv'
  BY LeavesKeeps DEF ExchangeFails, Complains, ErrorSettles, IInv, TypeOK

\* Time only makes a watch older.
LEMMA AgeKeeps ==
    ASSUME IInv, NEW j \in jobs, Age(j)
    PROVE  IInv'
  <1> DEFINE k == [j EXCEPT !.age = IF @ = "young" THEN "middle" ELSE "old"]
  <1>0. j \in Job /\ j.phase = "watch" /\ audioOnlyCap \in BOOLEAN
    BY DEF IInv, TypeOK, Age
  <1>1. /\ k \in Job /\ k.phase = "watch" /\ k.gen = j.gen /\ k.kind = j.kind
        /\ k.allowFallback = j.allowFallback /\ k.seen = j.seen
    BY <1>0 DEF Job
  <1>2. Owed(k) <= Owed(j)
    BY <1>0, <1>1 DEF Owed
  <1>3. Becomes(j, k)
    BY DEF Age
  <1> QED
    BY <1>0, <1>1, <1>2, <1>3, MovesKeeps
       DEF Age, HoldsMutex, InPipeline, ErrorSettles, connection

\* A watch goes on, ends or asks for the mutex.
LEMMA PollKeeps ==
    ASSUME IInv, NEW j \in jobs, Poll(j)
    PROVE  IInv'
  <1> DEFINE k == [j EXCEPT !.seen = TRUE]
  <1>0. /\ j \in Job /\ j.phase = "watch"
        /\ audioOnlyCap \in BOOLEAN /\ audioOnlyCap' \in BOOLEAN
    BY DEF IInv, TypeOK, Poll
  <1>1. /\ k \in Job /\ k.phase = "watch" /\ k.gen = j.gen /\ k.kind = j.kind
        /\ k.allowFallback = j.allowFallback
    BY <1>0 DEF Job
  <1>2. Owed(k) <= Owed(j)
    BY <1>0, <1>1 DEF Owed
  <1>3. /\ To(j, "waiting") \in Job /\ To(j, "waiting").phase = "waiting"
        /\ To(j, "waiting").gen = j.gen /\ Owed(To(j, "waiting")) <= Owed(j)
    BY <1>0, ToFacts DEF Phase, Owed
  <1>4. CASE Finishes(j)
    BY <1>0, <1>4, LeavesKeeps DEF Poll, ErrorSettles, connection
  <1>5. CASE Becomes(j, k) /\ state = "CONNECTED"
    BY <1>0, <1>1, <1>2, <1>5, MovesKeeps
       DEF Poll, HoldsMutex, InPipeline, ErrorSettles, connection
  <1>6. CASE Becomes(j, To(j, "waiting"))
    BY <1>0, <1>3, <1>6, MovesKeeps
       DEF Poll, HoldsMutex, InPipeline, ErrorSettles, connection
  <1> QED
    BY <1>4, <1>5, <1>6 DEF Poll

-----------------------------------------------------------------------------
\* startPipeline() begins for the last request only.
LEMMA PipelineBeginsKeeps ==
    ASSUME IInv, NEW j \in jobs, PipelineBegins(j)
    PROVE  IInv'
  <1> DEFINE k == To(j, "connect")
  <1>0. /\ j \in Job /\ j.phase = "lock" /\ lock = 0
        /\ j.gen \in Gen /\ j.gen <= connectGeneration
        /\ connectGeneration \in 0 .. MaxGeneration /\ dropped \in 0 .. connectGeneration
        /\ audioOnlyCap \in BOOLEAN
    BY JobFields DEF IInv, TypeOK, PipelineBegins
  <1>1. CASE ~Current(j)
    BY <1>0, <1>1, LeavesKeeps DEF PipelineBegins, ErrorSettles, connection, session
  <1>2. CASE Current(j)
    <2>1. /\ Becomes(j, k) /\ lock' = j.gen /\ activeSession' = j.gen /\ held' = TRUE
          /\ UNCHANGED <<connectGeneration, state, error, served, cleanups,
                         audioOnlyCap, dropped, launches, died>>
      BY <1>2 DEF PipelineBegins, connection
    <2>2. /\ k \in Job /\ k.phase = "connect" /\ k.gen = j.gen /\ k.kind = j.kind
          /\ k.allowFallback = j.allowFallback
      BY <1>0, ToFacts DEF Phase
    <2>3. Owed(k) <= Owed(j)
      BY <1>0, <2>2 DEF Owed
    <2> HIDE DEF k
    <2>4. /\ jobs' \subseteq Job /\ k \in jobs'
          /\ \A i \in jobs' : i = k \/ (i \in jobs /\ i # j /\ i.gen # j.gen)
          /\ OneHolder' /\ OneJobPerRequest'
      BY <1>0, <2>1, <2>2, BecomesKeeps DEF IInv, HoldsMutex
    <2>5. \A i \in jobs : ~InPipeline(i)
      BY <1>0, JobFields DEF IInv, TypeOK, LockIsHis, Gen
    <2>6. j.gen = connectGeneration /\ j.gen > dropped
      BY <1>0, <1>2 DEF Current, IInv, DropsBetween, Gen
    <2>7. TypeOK'
      <3>1. \A i \in jobs' : i.gen <= connectGeneration'
        BY <1>0, <2>1, <2>2, <2>4 DEF IInv, TypeOK
      <3> QED
        BY <1>0, <2>1, <2>4, <3>1 DEF IInv, TypeOK, Gen
    <2>8. LockIsHis' /\ DropsBetween'
      BY <2>1, <2>2, <2>4, <2>5, <2>6 DEF IInv, LockIsHis, DropsBetween, InPipeline
    <2>9. DisconnectSticks' /\ LossIsCleared' /\ HeldBySession' /\ HeldIsCovered' /\ OneRepetition'
      BY <1>0, <2>1, <2>2, <2>4
         DEF IInv, DisconnectSticks, LossIsCleared, HeldBySession, HeldIsCovered, OneRepetition, Up, Gen
    <2>10. LaunchesOwed'
      <3>1. launches[j.gen] \in Nat /\ Owed(k) \in 0 .. 2 /\ Owed(j) \in 0 .. 2
        BY <1>0, BoundAssumption DEF IInv, TypeOK, Gen, Owed
      <3>2. launches[k.gen] + Owed(k) <= 2
        BY <2>2, <2>3, <3>1 DEF IInv, LaunchesOwed
      <3> QED
        BY <2>1, <2>4, <3>2 DEF IInv, LaunchesOwed, Owed
    <2>11. WatchesItsOwn'
      <3>1. ASSUME NEW i \in jobs', i.phase = "watch"
            PROVE  i \in jobs /\ k.gen > i.gen
        <4>1. i \in jobs /\ i.gen # j.gen
          BY <2>2, <2>4, <3>1
        <4>2. i.gen \in Gen /\ i.gen <= connectGeneration
          BY <4>1, JobFields DEF IInv, TypeOK
        <4> QED
          BY <1>0, <2>2, <2>6, <4>1, <4>2 DEF Gen
      <3> QED
        BY <2>1, <2>4, <2>5, <3>1 DEF IInv, WatchesItsOwn, InPipeline, Current, Up
    <2> QED
      BY <2>4, <2>7, <2>8, <2>9, <2>10, <2>11 DEF IInv
  <1> QED
    BY <1>1, <1>2

\* A failure gives back the session and the locks together.
LEMMA PipelineThrowsKeeps ==
    ASSUME IInv, NEW j \in jobs, PipelineThrows(j)
    PROVE  IInv'
  <1>0. /\ j \in Job /\ InPipeline(j) /\ j.gen \in Gen /\ j.gen <= connectGeneration
        /\ connectGeneration \in 0 .. MaxGeneration
    BY JobFields DEF IInv, TypeOK, PipelineThrows, InPipeline
  <1>1. /\ Finishes(j) /\ lock' = 0 /\ activeSession' = 0 /\ held' = FALSE
        /\ state' = "DISCONNECTED" /\ error' \in {error, "other"}
        /\ UNCHANGED <<connectGeneration, served, cleanups, audioOnlyCap, dropped,
                       launches, died>>
    BY DEF PipelineThrows, Released, Disconnected, Complains
  <1>2. /\ jobs' \subseteq jobs /\ jobs' \subseteq Job /\ j \notin jobs'
        /\ OneHolder' /\ OneJobPerRequest'
    BY <1>1, FinishesKeeps DEF IInv
  <1>3. \A i \in jobs' : ~InPipeline(i)
    BY <1>0, <1>2 DEF IInv, OneHolder, InPipeline, HoldsMutex
  <1>4. TypeOK'
    <2>1. \A i \in jobs' : i.gen <= connectGeneration'
      BY <1>1, <1>2 DEF IInv, TypeOK
    <2>2. error' \in {"none", "terminated", "other"} /\ held' \in BOOLEAN
      BY <1>1 DEF IInv, TypeOK
    <2>3. activeSession' \in 0 .. connectGeneration' /\ lock' \in 0 .. connectGeneration'
      BY <1>0, <1>1
    <2> QED
      BY <1>1, <1>2, <2>1, <2>2, <2>3 DEF IInv, TypeOK
  <1>5. LockIsHis' /\ DropsBetween'
    BY <1>1, <1>2, <1>3 DEF IInv, LockIsHis, DropsBetween, InPipeline
  <1>6. DisconnectSticks' /\ LossIsCleared' /\ HeldBySession' /\ HeldIsCovered' /\ OneRepetition'
    BY <1>1 DEF IInv, DisconnectSticks, LossIsCleared, HeldBySession, HeldIsCovered, OneRepetition, Up
  <1>7. LaunchesOwed'
    BY <1>1, <1>2 DEF IInv, LaunchesOwed, Owed
  <1>8. WatchesItsOwn'
    <2>1. ASSUME NEW i \in jobs', i.phase = "watch" PROVE i \in jobs /\ ~Current(i)
      <3>1. i \in jobs /\ i.gen \in Gen /\ j.gen > i.gen
        BY <1>0, <1>2, <2>1, JobFields DEF IInv, WatchesItsOwn
      <3> QED
        BY <1>0, <3>1 DEF Current, Gen
    <2> QED
      BY <1>1, <1>3, <2>1 DEF WatchesItsOwn, InPipeline, Current
  <1> QED
    BY <1>2, <1>4, <1>5, <1>6, <1>7, <1>8 DEF IInv

\* connect() serves the request that holds sessionLock.
LEMMA ConnectionConnectKeeps ==
    ASSUME IInv, NEW j \in jobs, ConnectionConnect(j)
    PROVE  IInv'
  <1> DEFINE k == To(j, "started")
  <1>0. /\ j \in Job /\ j.phase = "connect" /\ InPipeline(j)
        /\ j.gen \in Gen /\ j.gen <= connectGeneration
        /\ connectGeneration \in 0 .. MaxGeneration
    BY JobFields DEF IInv, TypeOK, ConnectionConnect, InPipeline
  <1>1. /\ Becomes(j, k) /\ state' = "CONNECTING" /\ error' = "none" /\ served' = j.gen
        /\ UNCHANGED <<connectGeneration, activeSession, held, lock, cleanups,
                       audioOnlyCap, dropped, launches, died>>
    BY DEF ConnectionConnect, session
  <1>2. /\ k \in Job /\ k.phase = "started" /\ k.gen = j.gen /\ k.kind = j.kind
        /\ k.allowFallback = j.allowFallback
    BY <1>0, ToFacts DEF Phase
  <1>3. Owed(k) = Owed(j)
    BY <1>0, <1>2 DEF Owed
  <1> HIDE DEF k
  <1>4. /\ jobs' \subseteq Job /\ k \in jobs'
        /\ \A i \in jobs' : i = k \/ (i \in jobs /\ i # j /\ i.gen # j.gen)
        /\ OneHolder' /\ OneJobPerRequest'
    BY <1>0, <1>1, <1>2, BecomesKeeps DEF IInv, HoldsMutex
  <1>5. \A i \in jobs' : InPipeline(i) => i = k
    BY <1>2, <1>4 DEF OneHolder, InPipeline, HoldsMutex
  <1>6. TypeOK'
    <2>1. \A i \in jobs' : i.gen <= connectGeneration'
      BY <1>0, <1>1, <1>2, <1>4 DEF IInv, TypeOK
    <2> QED
      BY <1>0, <1>1, <1>4, <2>1 DEF IInv, TypeOK, Gen
  <1>7. LockIsHis' /\ DropsBetween'
    BY <1>0, <1>1, <1>2, <1>4, <1>5 DEF IInv, LockIsHis, DropsBetween, InPipeline
  <1>8. DisconnectSticks' /\ LossIsCleared' /\ HeldBySession' /\ HeldIsCovered' /\ OneRepetition'
    BY <1>0, <1>1
       DEF IInv, DisconnectSticks, LossIsCleared, DropsBetween, HeldBySession, HeldIsCovered,
           OneRepetition, Up
  <1>9. LaunchesOwed'
    <2>1. launches[k.gen] + Owed(k) <= 2
      BY <1>2, <1>3 DEF IInv, LaunchesOwed
    <2> QED
      BY <1>1, <1>4, <2>1 DEF IInv, LaunchesOwed, Owed
  <1>10. WatchesItsOwn'
    <2>1. ASSUME NEW i \in jobs', i.phase = "watch"
          PROVE  ~Current(i) /\ k.gen > i.gen
      <3>1. i \in jobs /\ i.gen \in Gen /\ j.gen > i.gen
        BY <1>0, <1>2, <1>4, <2>1, JobFields DEF IInv, TypeOK, WatchesItsOwn
      <3> QED
        BY <1>0, <1>2, <3>1 DEF Current, Gen
    <2> QED
      BY <1>1, <1>5, <2>1 DEF WatchesItsOwn, InPipeline, Current
  <1> QED
    BY <1>4, <1>6, <1>7, <1>8, <1>9, <1>10 DEF IInv

\* The watch takes over from the request what it still may launch.
LEMMA PipelineEndsKeeps ==
    ASSUME IInv, NEW j \in jobs, PipelineEnds(j)
    PROVE  IInv'
  <1> DEFINE k == NewJob(j.gen, "fallback", "watch")
  <1>0. /\ j \in Job /\ j.phase = "started" /\ InPipeline(j) /\ HoldsMutex(j)
        /\ j.gen \in Gen /\ j.gen <= connectGeneration
        /\ connectGeneration \in 0 .. MaxGeneration
    BY JobFields DEF IInv, TypeOK, PipelineEnds, InPipeline, HoldsMutex
  <1>1. /\ lock' = 0
        /\ UNCHANGED <<connectGeneration, activeSession, held, state, error, served,
                       cleanups, audioOnlyCap, dropped, launches, died>>
    BY DEF PipelineEnds, session, connection
  <1>2. /\ k \in Job /\ k.phase = "watch" /\ k.gen = j.gen /\ k.kind = "fallback"
        /\ k.allowFallback = FALSE /\ k.seen = FALSE
    BY <1>0 DEF NewJob, Job, Kind
  <1>3. Finishes(j) \/ (Becomes(j, k) /\ j.allowFallback)
    BY DEF PipelineEnds, Finishes, Becomes
  <1> HIDE DEF k
  <1>4. /\ jobs' \subseteq Job
        /\ \A i \in jobs' : \/ i = k /\ j.allowFallback
                            \/ i \in jobs /\ i # j
        /\ OneHolder' /\ OneJobPerRequest'
    <2>1. CASE Finishes(j)
      BY <2>1, FinishesKeeps DEF IInv
    <2>2. CASE Becomes(j, k) /\ j.allowFallback
      BY <1>0, <1>2, <2>2, BecomesKeeps DEF IInv, HoldsMutex
    <2> QED
      BY <1>3, <2>1, <2>2
  <1>5. \A i \in jobs' : ~InPipeline(i)
    BY <1>0, <1>2, <1>4 DEF IInv, OneHolder, InPipeline, HoldsMutex
  <1>6. TypeOK'
    <2>1. \A i \in jobs' : i.gen <= connectGeneration'
      BY <1>0, <1>1, <1>2, <1>4 DEF IInv, TypeOK
    <2> QED
      BY <1>0, <1>1, <1>4, <2>1 DEF IInv, TypeOK
  <1>7. LockIsHis' /\ DropsBetween'
    BY <1>1, <1>2, <1>4, <1>5 DEF IInv, LockIsHis, DropsBetween, InPipeline
  <1>8. DisconnectSticks' /\ LossIsCleared' /\ HeldBySession' /\ OneRepetition'
    BY <1>1 DEF IInv, DisconnectSticks, LossIsCleared, HeldBySession, OneRepetition, Up
  <1>9. HeldIsCovered'
    <2>1. \A i \in jobs : i.phase # "connect"
      BY <1>0 DEF IInv, OneHolder, HoldsMutex
    <2> QED
      BY <1>1, <2>1 DEF IInv, HeldIsCovered, Up
  <1>10. LaunchesOwed'
    <2>1. j.allowFallback => launches[k.gen] + Owed(k) <= 2
      <3>1. j.allowFallback => Owed(k) = Owed(j)
        BY <1>0, <1>2 DEF Owed
      <3> QED
        BY <1>2, <3>1 DEF IInv, LaunchesOwed
    <2> QED
      BY <1>1, <1>4, <2>1 DEF IInv, LaunchesOwed, Owed
  <1>11. WatchesItsOwn'
    <2>1. served = j.gen
      BY <1>0 DEF IInv, LockIsHis
    <2> QED
      BY <1>1, <1>2, <1>4, <1>5, <2>1 DEF IInv, WatchesItsOwn, InPipeline, Current, Up
  <1> QED
    BY <1>4, <1>6, <1>7, <1>8, <1>9, <1>10, <1>11 DEF IInv

-----------------------------------------------------------------------------
\* A request has a number nobody has had.
LEMMA RequestKeeps ==
    ASSUME IInv, NEW r \in {"launch", "manual"}, Request(r)
    PROVE  IInv'
  <1> DEFINE n == NewJob(connectGeneration + 1, r, "waiting")
  <1>0. /\ connectGeneration \in 0 .. MaxGeneration /\ MaxGeneration \in Nat
        /\ connectGeneration < MaxGeneration
        /\ connectGeneration' = connectGeneration + 1
        /\ jobs' = jobs \cup {n}
        /\ UNCHANGED <<activeSession, held, lock, state, error, served, cleanups,
                       audioOnlyCap, dropped, launches, died>>
    BY BoundAssumption DEF Request, session, connection, IInv, TypeOK
  <1>1. /\ n \in Job /\ n.gen = connectGeneration + 1 /\ n.phase = "waiting"
        /\ Owed(n) \in 0 .. 2
    BY <1>0 DEF NewJob, Job, Kind, Gen, Owed
  <1> HIDE DEF n
  <1>2. \A i \in jobs : i \in Job /\ i.gen \in Gen /\ i.gen <= connectGeneration
    BY JobFields DEF IInv, TypeOK
  <1>3. TypeOK'
    <2>1. \A i \in jobs' : i \in Job /\ i.gen <= connectGeneration'
      BY <1>0, <1>1, <1>2 DEF Gen
    <2>2. /\ activeSession' \in 0 .. connectGeneration'
          /\ lock' \in 0 .. connectGeneration'
          /\ served' \in 0 .. connectGeneration'
          /\ dropped' \in 0 .. connectGeneration'
      BY <1>0 DEF IInv, TypeOK
    <2> QED
      BY <1>0, <2>1, <2>2 DEF IInv, TypeOK
  <1>4. OneHolder' /\ OneJobPerRequest'
    BY <1>0, <1>1, <1>2 DEF IInv, OneHolder, OneJobPerRequest, HoldsMutex, Gen
  <1>5. LockIsHis' /\ DropsBetween'
    BY <1>0, <1>1 DEF IInv, TypeOK, LockIsHis, DropsBetween, InPipeline
  <1>6. DisconnectSticks' /\ LossIsCleared' /\ HeldBySession' /\ HeldIsCovered' /\ OneRepetition'
    BY <1>0
       DEF IInv, DisconnectSticks, LossIsCleared, HeldBySession, HeldIsCovered, OneRepetition, Up
  <1>7. LaunchesOwed'
    <2>1. launches[n.gen] = 0
      BY <1>0, <1>1 DEF IInv, LaunchesOwed
    <2>2. \A i \in jobs' : launches'[i.gen] + Owed(i) <= 2
      BY <1>0, <1>1, <2>1 DEF IInv, LaunchesOwed
    <2>3. \A g \in 1 .. MaxGeneration : g > connectGeneration' => launches'[g] = 0
      BY <1>0 DEF IInv, LaunchesOwed
    <2> QED
      BY <2>2, <2>3 DEF LaunchesOwed, Owed
  <1>8. WatchesItsOwn'
    <2>1. \A i \in jobs' : i.phase = "watch" => i \in jobs /\ ~(i.gen = connectGeneration')
      BY <1>0, <1>1, <1>2 DEF Gen
    <2>2. \A i \in jobs' : InPipeline(i) => i \in jobs
      BY <1>0, <1>1 DEF InPipeline
    <2> QED
      BY <2>1, <2>2 DEF IInv, WatchesItsOwn, InPipeline, Current
  <1> QED
    BY <1>3, <1>4, <1>5, <1>6, <1>7, <1>8 DEF IInv

\* disconnect() comes between two pipelines.
LEMMA DisconnectKeeps ==
    ASSUME IInv, Disconnect
    PROVE  IInv'
  <1>0. /\ connectGeneration \in 0 .. MaxGeneration /\ MaxGeneration \in Nat
        /\ connectGeneration < MaxGeneration
        /\ connectGeneration' = connectGeneration + 1
        /\ dropped' = connectGeneration + 1
        /\ lock = 0 /\ activeSession' = 0 /\ held' = FALSE
        /\ state' = "DISCONNECTED"
        /\ UNCHANGED <<lock, jobs, error, served, cleanups, audioOnlyCap, launches, died>>
    BY BoundAssumption DEF Disconnect, Released, Disconnected, IInv, TypeOK
  <1>1. \A i \in jobs : i \in Job /\ i.gen \in Gen /\ i.gen <= connectGeneration
    BY JobFields DEF IInv, TypeOK
  <1>2. \A i \in jobs : ~InPipeline(i)
    BY <1>0, <1>1 DEF IInv, LockIsHis, Gen
  <1>3. TypeOK'
    <2>1. \A i \in jobs' : i \in Job /\ i.gen <= connectGeneration'
      BY <1>0, <1>1 DEF Gen
    <2>2. /\ activeSession' \in 0 .. connectGeneration'
          /\ lock' \in 0 .. connectGeneration'
          /\ served' \in 0 .. connectGeneration'
          /\ dropped' \in 0 .. connectGeneration'
      BY <1>0 DEF IInv, TypeOK
    <2>3. jobs' \subseteq Job /\ connectGeneration' \in 0 .. MaxGeneration
      BY <1>0, <2>1
    <2> QED
      BY <1>0, <2>1, <2>2, <2>3 DEF IInv, TypeOK
  <1>4. OneHolder' /\ OneJobPerRequest' /\ LockIsHis'
    BY <1>0 DEF IInv, OneHolder, OneJobPerRequest, HoldsMutex, LockIsHis, InPipeline
  <1>5. DropsBetween'
    BY <1>0, <1>1, <1>2 DEF DropsBetween, InPipeline, Gen
  <1>6. DisconnectSticks' /\ LossIsCleared' /\ HeldBySession' /\ HeldIsCovered' /\ OneRepetition'
    BY <1>0
       DEF IInv, DisconnectSticks, LossIsCleared, HeldBySession, HeldIsCovered, OneRepetition, Up
  <1>7. LaunchesOwed'
    BY <1>0 DEF IInv, LaunchesOwed, Owed
  <1>8. WatchesItsOwn'
    BY <1>0, <1>1, <1>2 DEF WatchesItsOwn, InPipeline, Current, Gen
  <1> QED
    BY <1>3, <1>4, <1>5, <1>6, <1>7, <1>8 DEF IInv

-----------------------------------------------------------------------------
\* A connection that comes up is the one last asked for.
LEMMA ConnectionStartedKeeps ==
    ASSUME IInv, ConnectionStarted
    PROVE  IInv'
  <1>0. /\ state = "CONNECTING" /\ state' = "CONNECTED" /\ error' = "none"
        /\ UNCHANGED <<connectGeneration, activeSession, held, lock, jobs, served,
                       cleanups, audioOnlyCap, dropped, launches, died>>
    BY DEF ConnectionStarted, session
  <1>1. TypeOK' /\ OneHolder' /\ OneJobPerRequest' /\ LockIsHis' /\ DropsBetween'
    BY <1>0
       DEF IInv, TypeOK, OneHolder, OneJobPerRequest, HoldsMutex, LockIsHis,
           DropsBetween, InPipeline
  <1>2. DisconnectSticks' /\ LossIsCleared' /\ HeldBySession' /\ HeldIsCovered' /\ OneRepetition'
    BY <1>0
       DEF IInv, DisconnectSticks, LossIsCleared, HeldBySession, HeldIsCovered, OneRepetition, Up
  <1>3. LaunchesOwed' /\ WatchesItsOwn'
    BY <1>0 DEF IInv, LaunchesOwed, Owed, WatchesItsOwn, InPipeline, Current, Up
  <1> QED
    BY <1>1, <1>2, <1>3 DEF IInv


\* What every end of the connection has in common.
Ended ==
    /\ Up /\ ~Up'
    /\ state' \in {"DISCONNECTED", "ERROR"}
    /\ error' \in {"none", "terminated", "other"}
    /\ error' = "terminated" => \/ error = "terminated" \/ state = "CONNECTING"
                                \/ served \in died'
    /\ died' = died \/ died' = died \cup {served}
    /\ OnTerminated
    /\ UNCHANGED <<connectGeneration, activeSession, held, lock, jobs, served,
                   audioOnlyCap, dropped, launches>>

\* An end of the connection posts a clean-up of what is held.
LEMMA ConnectionEndKeeps ==
    ASSUME IInv,
           ConnectionFails \/ \E graceful \in BOOLEAN : ConnectionTerminated(graceful)
    PROVE  IInv'
  <1>1. Ended
    <2>1. CASE ConnectionFails
      BY <2>1 DEF Ended, ConnectionFails, Up, session, IInv, TypeOK
    <2>2. ASSUME NEW graceful \in BOOLEAN, ConnectionTerminated(graceful)
          PROVE  Ended
      BY <2>2 DEF Ended, ConnectionTerminated, Up, session, IInv, TypeOK
    <2> QED
      BY <2>1, <2>2
  <1>2. /\ connectGeneration \in 0 .. MaxGeneration /\ MaxGeneration \in Nat
        /\ activeSession \in 0 .. MaxGeneration
        /\ served \in 1 .. MaxGeneration
        /\ cleanups \in [1 .. MaxGeneration -> Nat]
    BY <1>1, BoundAssumption DEF Ended, IInv, TypeOK, DisconnectSticks
  <1>3. /\ cleanups' \in [1 .. MaxGeneration -> Nat]
        /\ activeSession # 0 => cleanups'[activeSession] > 0
    BY <1>1, <1>2 DEF Ended, OnTerminated
  <1>4. TypeOK'
    <2>1. died' \subseteq 1 .. MaxGeneration
      BY <1>1, <1>2 DEF Ended, IInv, TypeOK
    <2> QED
      BY <1>1, <1>3, <2>1 DEF Ended, IInv, TypeOK
  <1>5. OneHolder' /\ OneJobPerRequest' /\ LockIsHis' /\ DropsBetween'
    BY <1>1
       DEF Ended, IInv, OneHolder, OneJobPerRequest, HoldsMutex, LockIsHis, DropsBetween,
           InPipeline
  <1>6. /\ DisconnectSticks' /\ LossIsCleared' /\ HeldBySession' /\ HeldIsCovered'
        /\ OneRepetition'
    BY <1>1, <1>3
       DEF Ended, IInv, DisconnectSticks, LossIsCleared, HeldBySession, HeldIsCovered,
           OneRepetition
  <1>7. LaunchesOwed'
    BY <1>1 DEF Ended, IInv, LaunchesOwed, Owed
  <1>8. WatchesItsOwn'
    BY <1>1 DEF Ended, IInv, LossIsCleared, WatchesItsOwn, InPipeline, Current
  <1> QED
    BY <1>4, <1>5, <1>6, <1>7, <1>8 DEF IInv

\* A clean-up releases its own session and no other.
LEMMA CleanupKeeps ==
    ASSUME IInv, NEW g \in 1 .. MaxGeneration, Cleanup(g)
    PROVE  IInv'
  <1>1. /\ lock = 0 /\ cleanups[g] > 0
        /\ cleanups' = [cleanups EXCEPT ![g] = @ - 1]
        /\ IF activeSession = g THEN activeSession' = 0 /\ held' = FALSE
           ELSE UNCHANGED <<activeSession, held>>
        /\ UNCHANGED <<connectGeneration, lock, jobs, state, error, served,
                       audioOnlyCap, dropped, launches, died>>
    BY DEF Cleanup, Released, session, connection
  <1>2. /\ connectGeneration \in 0 .. MaxGeneration /\ MaxGeneration \in Nat
        /\ activeSession \in 0 .. MaxGeneration
        /\ cleanups \in [1 .. MaxGeneration -> Nat]
    BY BoundAssumption DEF IInv, TypeOK
  <1>3. /\ cleanups' \in [1 .. MaxGeneration -> Nat]
        /\ \A h \in 1 .. MaxGeneration : h # g => cleanups'[h] = cleanups[h]
    BY <1>1, <1>2
  <1>4. TypeOK'
    BY <1>1, <1>2, <1>3 DEF IInv, TypeOK
  <1>5. OneHolder' /\ OneJobPerRequest' /\ LockIsHis' /\ DropsBetween'
    BY <1>1
       DEF IInv, OneHolder, OneJobPerRequest, HoldsMutex, LockIsHis, DropsBetween,
           InPipeline
  <1>6. DisconnectSticks' /\ LossIsCleared' /\ HeldBySession' /\ OneRepetition'
    BY <1>1, <1>2
       DEF IInv, DisconnectSticks, LossIsCleared, HeldBySession, OneRepetition, Up
  <1>7. HeldIsCovered'
    <2>1. CASE activeSession = g
      BY <1>1, <2>1 DEF HeldIsCovered
    <2>2. CASE activeSession # g
      <3>1. activeSession # 0 => cleanups'[activeSession] = cleanups[activeSession]
        BY <1>2, <1>3, <2>2
      <3> QED
        BY <1>1, <2>2, <3>1 DEF IInv, HeldIsCovered, Up
    <2> QED
      BY <2>1, <2>2
  <1>8. LaunchesOwed' /\ WatchesItsOwn'
    BY <1>1 DEF IInv, LaunchesOwed, Owed, WatchesItsOwn, InPipeline, Current, Up
  <1> QED
    BY <1>4, <1>5, <1>6, <1>7, <1>8 DEF IInv

-----------------------------------------------------------------------------
\* IInv is inductive.
LEMMA InitInvariant == Init => IInv
  <1> SUFFICES ASSUME Init PROVE IInv
    OBVIOUS
  <1>1. TypeOK
    <2>1. audioOnlyCap \in BOOLEAN
      BY CapAssumption DEF Init
    <2>2. 0 \in 0 .. MaxGeneration /\ 0 \in 0 .. 0
      BY BoundAssumption
    <2>3. /\ cleanups \in [1 .. MaxGeneration -> Nat]
          /\ launches \in [1 .. MaxGeneration -> Nat]
      BY DEF Init
    <2>4. held \in BOOLEAN /\ jobs = {} /\ died = {}
      BY DEF Init
    <2> QED
      BY <2>1, <2>2, <2>3, <2>4 DEF Init, TypeOK
  <1>2. /\ OneHolder /\ OneJobPerRequest /\ LockIsHis /\ DropsBetween
        /\ WatchesItsOwn
    BY DEF Init, OneHolder, OneJobPerRequest, LockIsHis, DropsBetween, WatchesItsOwn
  <1>3. DisconnectSticks /\ LossIsCleared /\ HeldBySession /\ HeldIsCovered
    BY DEF Init, DisconnectSticks, LossIsCleared, HeldBySession, HeldIsCovered, Up
  <1>4. LaunchesOwed /\ OneRepetition
    BY DEF Init, LaunchesOwed, OneRepetition
  <1> QED
    BY <1>1, <1>2, <1>3, <1>4 DEF IInv

\* Every step keeps IInv.
LEMMA NextInvariant == IInv /\ [Next]_vars => IInv'
  <1> SUFFICES ASSUME IInv, [Next]_vars PROVE IInv'
    OBVIOUS
  <1>1. CASE \E k \in {"launch", "manual"} : Request(k)
    BY <1>1, RequestKeeps
  <1>2. CASE Disconnect
    BY <1>2, DisconnectKeeps
  <1>3. CASE \E j \in jobs : JobStep(j)
    BY <1>3, AcquireKeeps, ServerInfoKeeps, LaunchReturnsKeeps, LaunchRejectedKeeps,
       ExchangeFailsKeeps, PipelineBeginsKeeps, PipelineThrowsKeeps,
       ConnectionConnectKeeps, PipelineEndsKeeps, AgeKeeps, PollKeeps
       DEF JobStep, Pipeline
  <1>4. CASE ConnectionStep
    BY <1>4, ConnectionStartedKeeps, ConnectionEndKeeps DEF ConnectionStep
  <1>5. CASE \E g \in 1 .. MaxGeneration : Cleanup(g)
    BY <1>5, CleanupKeeps
  <1>6. CASE UNCHANGED vars
    BY <1>6
       DEF vars, session, connection, IInv, TypeOK, OneHolder, OneJobPerRequest,
           LockIsHis, DropsBetween, DisconnectSticks, LossIsCleared, HeldBySession,
           HeldIsCovered, LaunchesOwed, OneRepetition, WatchesItsOwn, Up, HoldsMutex,
           InPipeline, Current, Owed
  <1> QED
    BY <1>1, <1>2, <1>3, <1>4, <1>5, <1>6 DEF Next

\* Every reachable state of MoonToneController satisfies IInv.
THEOREM Invariance == Spec => []IInv
  BY InitInvariant, NextInvariant, PTL DEF Spec

\* Every variable keeps its type; in particular nobody works for, or serves, a
\* request that connectGeneration has not counted.
THEOREM TypeCorrect == Spec => []TypeOK
  BY Invariance, PTL DEF IInv

\* After disconnect() has returned, no request made before it connects.
THEOREM DropSticks == Spec => []DisconnectSticks
  BY Invariance, PTL DEF IInv

\* With no job, no connection and no clean-up left, cleanupSession() has given
\* everything back.
THEOREM IdleReleases == Spec => []IdleHoldsNothing
  <1>1. ASSUME IInv, jobs = {}, ~Up, \A g \in 1 .. MaxGeneration : cleanups[g] = 0
        PROVE  ~held
    <2>1. /\ activeSession \in 0 .. connectGeneration
          /\ connectGeneration \in 0 .. MaxGeneration /\ MaxGeneration \in Nat
      BY <1>1, BoundAssumption DEF IInv, TypeOK
    <2>2. activeSession # 0 => cleanups[activeSession] = 0
      BY <1>1, <2>1
    <2> QED
      BY <1>1, <2>2 DEF IInv, HeldIsCovered
  <1>2. IInv => IdleHoldsNothing
    BY <1>1 DEF IdleHoldsNothing
  <1> QED
    BY Invariance, <1>2, PTL

\* Only Poll takes the capability away.
LEMMA OnlyPollForgets ==
    ASSUME IInv, Next, audioOnlyCap, ~audioOnlyCap'
    PROVE  \E j \in jobs : Poll(j)
  <1>1. \A k \in {"launch", "manual"} : ~Request(k)
    BY DEF Request
  <1>2. ~Disconnect /\ ~ConnectionStep
    BY DEF Disconnect, ConnectionStep, ConnectionStarted, ConnectionFails,
           ConnectionTerminated
  <1>3. \A g \in 1 .. MaxGeneration : ~Cleanup(g)
    BY DEF Cleanup
  <1>4. ASSUME NEW j \in jobs, JobStep(j)
        PROVE  Poll(j)
    BY <1>4 DEF JobStep, Pipeline, Acquire, LaunchReturns, LaunchRejected,
       ExchangeFails, ServerInfo, PipelineBegins, PipelineThrows, ConnectionConnect,
       PipelineEnds, Age
  <1> QED
    BY <1>1, <1>2, <1>3, <1>4 DEF Next

\* superviseEarlyDeath() changes what is known of a host only after a connection to
\* it that came up and was lost, whatever has happened meanwhile.
THEOREM RelearnsOnLoss == Spec => RelearnsAfterDeath
  <1>1. ASSUME IInv, [Next]_vars, audioOnlyCap, ~audioOnlyCap'
        PROVE  connectGeneration \in died
    <2>1. audioOnlyCap' # audioOnlyCap
      BY <1>1
    <2>2. Next
      BY <1>1, <2>1 DEF vars
    <2>3. PICK j \in jobs : Poll(j)
      BY <1>1, <2>2, OnlyPollForgets
    <2>4. /\ j.phase = "watch" /\ Current(j) /\ ~Up
          /\ j.seen /\ error = "terminated"
      BY <1>1, <2>1, <2>3 DEF Poll, DiedEarly
    <2>5. j.gen \in died
      BY <1>1, <2>4 DEF IInv, WatchesItsOwn
    <2> QED
      BY <2>4, <2>5 DEF Current
  <1>2. IInv /\ [Next]_vars
            => [audioOnlyCap /\ ~audioOnlyCap' => connectGeneration \in died]_vars
    BY <1>1
  <1> QED
    BY Invariance, <1>2, PTL DEF Spec, RelearnsAfterDeath

\* launchAndConnect() asks a host for a session at most twice, superviseEarlyDeath()
\* included.
THEOREM LaunchesBounded == Spec => []OneRepetition
  BY Invariance, PTL DEF IInv

=============================================================================
