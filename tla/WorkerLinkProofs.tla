-------------------------- MODULE WorkerLinkProofs --------------------------
(***************************************************************************)
(* Proofs about the link of one slot (module WorkerLink), for any number   *)
(* of attempts: a source that is mixed belongs to the entry in the map or  *)
(* to one that is being disposed of, what MultiController is told of an    *)
(* entry comes in order and at most once, and a stopped device leaves      *)
(* nothing in either process.                                              *)
(*                                                                         *)
(* The argument: an entry leaves the map once, by the hand of one thread,  *)
(* and an accept thread that has seen its entry in the map holds the lock  *)
(* that whoever took the entry out needs before it can dispose of it.      *)
(* In the worker, whatever is open has an owner that will close it, and    *)
(* the last of the commands sent to a stopped device is a stop.            *)
(***************************************************************************)
EXTENDS WorkerLink, TLAPS

AcceptPc == {"none", "accepting", "accepted", "adding", "ended", "dispose",
             "report", "over"}
ReadPc   == {"none", "reading", "first", "streaming", "ended", "dispose",
             "report", "over"}
Life     == {"none", "open", "closed"}

Reported == {<<>>, <<"connected">>, <<"disconnected">>,
             <<"connected", "disconnected">>}

AcceptOf(e) == thread[<<"accept", e>>]
ReadOf(e)   == thread[<<"read", e>>]

\* Thread k of entry e has taken the entry out of the map.
HasTaken(k, e) == thread[<<k, e>>] \in {"dispose", "report"}

\* Every variable of the main process keeps its type.
TypeOK ==
    /\ slots \in Nat /\ last \in 0 .. MaxAttempt
    /\ server \in [Attempt -> Life] /\ client \in [Attempt -> Life]
    /\ thread \in [Thread -> AcceptPc \cup ReadPc]
    /\ inside \in SUBSET Attempt /\ stoppedByUser \in SUBSET Attempt
    /\ sources \in SUBSET Attempt /\ dropped \in SUBSET Attempt
    /\ posted \in [Attempt -> Reported]
    /\ caller \in [next : {"idle", "dispose", "service"},
                   entry : Attempt \cup {None},
                   asked : {"nothing", "start", "stop"}]
    /\ caller.next = "dispose" => caller.entry \in Attempt

\* An entry that has not been made yet has nothing.
NothingAhead ==
    /\ slots <= last
    /\ \A e \in Attempt : e > last =>
          /\ AcceptOf(e) = "none" /\ ReadOf(e) = "none"
          /\ e \notin dropped

\* The reader starts when the accept thread is done, and each posts in turn.
PostsInOrder ==
    \A e \in Attempt :
        /\ AcceptOf(e) # "over" => ReadOf(e) = "none" /\ posted[e] = <<>>
        /\ ReadOf(e) \in {"reading", "first"} => posted[e] = <<>>
        /\ ReadOf(e) \in {"streaming", "ended", "dispose", "report"} =>
              posted[e] \in {<<>>, <<"connected">>}

\* An entry is taken out of the map by one hand: while it is in the map, or
\* when stopDevice() has taken it, no thread has, and its end is not reported.
TakenOnce ==
    /\ slots \notin dropped
    /\ \A e \in Attempt : slots = e \/ e \in dropped =>
          /\ ~HasTaken("accept", e) /\ ~HasTaken("read", e)
          /\ posted[e] \in {<<>>, <<"connected">>}

\* The accept thread holds the entry's lock while it adds the source, and the
\* entry is still in the map or waits to be disposed of.
AddsUnderLock ==
    \A e \in Attempt : AcceptOf(e) = "adding" =>
        e \in inside /\ (slots = e \/ BeingDisposed(e))

IInv ==
    /\ TypeOK
    /\ NothingAhead
    /\ PostsInOrder
    /\ TakenOnce
    /\ AddsUnderLock
    /\ SourcesAreOwned

-----------------------------------------------------------------------------

\* A thread that goes on moves nobody else.
LEMMA GoesMoves ==
    ASSUME TypeOK, NEW k \in {"accept", "read"}, NEW e \in Attempt,
           NEW pc \in AcceptPc \cup ReadPc, Goes(k, e, pc)
    PROVE  /\ thread' \in [Thread -> AcceptPc \cup ReadPc]
           /\ thread'[<<k, e>>] = pc
           /\ \A j \in {"accept", "read"}, f \in Attempt :
                 j # k \/ f # e => thread'[<<j, f>>] = thread[<<j, f>>]
           /\ UNCHANGED <<last, caller, dropped, commands, workerVars>>
  BY DEF Goes, TypeOK, Thread

\* Nothing but the main process's own variables matters.
LEMMA MainVarsSuffice == IInv /\ UNCHANGED mainVars => IInv'
  BY DEF IInv, mainVars, TypeOK, NothingAhead, PostsInOrder, TakenOnce,
         AddsUnderLock, SourcesAreOwned, BeingDisposed, AcceptOf, ReadOf,
         HasTaken, Thread

LEMMA InitInvariant == Init => IInv
  BY LinkAssumption DEF Init, Idle, IInv, TypeOK, NothingAhead, PostsInOrder, TakenOnce,
         AddsUnderLock, SourcesAreOwned, BeingDisposed, AcceptOf, ReadOf,
         HasTaken, Thread, Attempt, None, AcceptPc, ReadPc, Life, Reported

-----------------------------------------------------------------------------
(* The main thread. *)

LEMMA StartDeviceKeeps == IInv /\ StartDevice => IInv'
<1> SUFFICES ASSUME IInv, StartDevice PROVE IInv'
  OBVIOUS
<1> DEFINE e0 == last + 1
<1>1. e0 \in Attempt /\ e0 = last' /\ slots' = e0 /\ e0 > last
  BY LinkAssumption DEF IInv, TypeOK, StartDevice, Attempt
<1>2. /\ thread' = [thread EXCEPT ![<<"accept", e0>>] = "accepting"]
      /\ \A f \in Attempt : AcceptOf(f)' = IF f = e0 THEN "accepting" ELSE AcceptOf(f)
      /\ \A f \in Attempt : ReadOf(f)' = ReadOf(f)
  BY <1>1 DEF StartDevice, IInv, TypeOK, Thread, AcceptOf, ReadOf
<1>3. slots = None /\ caller' = [caller EXCEPT !.asked = "start"] /\ caller.next = "idle"
  BY DEF StartDevice
<1>4. AcceptOf(e0) = "none" /\ ReadOf(e0) = "none" /\ e0 \notin dropped /\ posted[e0] = <<>>
  BY <1>1 DEF IInv, NothingAhead, PostsInOrder
<1>5. UNCHANGED <<client, inside, stoppedByUser, sources, dropped, posted>>
  BY DEF StartDevice
<1>6. server' = [server EXCEPT ![e0] = "open"]
  BY <1>1 DEF StartDevice
<1> HIDE DEF e0
<1>7. TypeOK'
  <2>1. slots' \in Nat /\ last' \in 0 .. MaxAttempt
    BY <1>1, LinkAssumption DEF Attempt
  <2>2. server' \in [Attempt -> Life] /\ thread' \in [Thread -> AcceptPc \cup ReadPc]
    BY <1>2, <1>6 DEF IInv, TypeOK, AcceptPc, Life
  <2>3. /\ caller' \in [next : {"idle", "dispose", "service"},
                       entry : Attempt \cup {None},
                       asked : {"nothing", "start", "stop"}]
        /\ caller'.next # "dispose"
    BY <1>3 DEF IInv, TypeOK
  <2> QED
    BY <1>5, <2>1, <2>2, <2>3 DEF IInv, TypeOK
<1>8. NothingAhead'
  BY <1>1, <1>2, <1>5 DEF IInv, TypeOK, NothingAhead, Attempt, e0
<1>9. PostsInOrder'
  BY <1>1, <1>2, <1>4, <1>5 DEF IInv, PostsInOrder
<1>10. TakenOnce'
  BY <1>1, <1>2, <1>4, <1>5 DEF IInv, TakenOnce, HasTaken, AcceptOf, ReadOf
<1>11. AddsUnderLock' /\ SourcesAreOwned'
  <2>1. \A f \in Attempt : BeingDisposed(f) => BeingDisposed(f)'
    BY <1>2, <1>3, <1>4 DEF BeingDisposed, AcceptOf, ReadOf
  <2> QED
    BY <2>1, <1>1, <1>2, <1>3, <1>5 DEF IInv, AddsUnderLock, SourcesAreOwned, None, Attempt
<1> QED
  BY <1>7, <1>8, <1>9, <1>10, <1>11 DEF IInv

LEMMA StartDeviceFailsKeeps == IInv /\ StartDeviceFails => IInv'
<1> SUFFICES ASSUME IInv, StartDeviceFails PROVE IInv'
  OBVIOUS
<1>1. /\ UNCHANGED <<slots, client, inside, thread, stoppedByUser, sources,
                     dropped, posted>>
      /\ caller' = [caller EXCEPT !.asked = "stop"] /\ caller.next = "idle"
      /\ server' = [server EXCEPT ![last + 1] = "closed"]
      /\ last' = last + 1 /\ last < MaxAttempt
  BY DEF StartDeviceFails
<1>2. TypeOK'
  <2>1. last' \in 0 .. MaxAttempt
    BY <1>1, LinkAssumption DEF IInv, TypeOK
  <2>2. server' \in [Attempt -> Life]
    BY <1>1 DEF IInv, TypeOK, Life
  <2> QED
    BY <1>1, <2>1, <2>2 DEF IInv, TypeOK
<1>3. NothingAhead'
  BY <1>1 DEF IInv, TypeOK, NothingAhead, AcceptOf, ReadOf, Attempt
<1>4. PostsInOrder' /\ TakenOnce'
  BY <1>1 DEF IInv, PostsInOrder, TakenOnce, AcceptOf, ReadOf, HasTaken
<1>5. AddsUnderLock' /\ SourcesAreOwned'
  BY <1>1 DEF IInv, TypeOK, AddsUnderLock, SourcesAreOwned, BeingDisposed, AcceptOf
<1> QED
  BY <1>2, <1>3, <1>4, <1>5 DEF IInv

LEMMA StopDeviceKeeps == IInv /\ StopDevice => IInv'
<1> SUFFICES ASSUME IInv, StopDevice PROVE IInv'
  OBVIOUS
<1>1. /\ UNCHANGED <<last, server, client, inside, thread, stoppedByUser, sources, posted>>
      /\ caller' = [next |-> IF slots = None THEN "service" ELSE "dispose",
                    entry |-> slots, asked |-> "stop"]
      /\ dropped' = dropped \cup ({slots} \ {None}) /\ slots' = None
      /\ caller.next = "idle"
  BY DEF StopDevice
<1>2. slots # None => slots \in Attempt
  BY LinkAssumption DEF IInv, TypeOK, NothingAhead, None, Attempt
<1>3. TypeOK'
  BY <1>1, <1>2 DEF IInv, TypeOK, None, Attempt
<1>4. NothingAhead'
  BY <1>1, <1>2 DEF IInv, TypeOK, NothingAhead, AcceptOf, ReadOf, None, Attempt
<1>5. PostsInOrder'
  BY <1>1 DEF IInv, PostsInOrder, AcceptOf, ReadOf
<1>6. TakenOnce'
  BY <1>1, <1>2 DEF IInv, TypeOK, TakenOnce, HasTaken, None, Attempt
<1>7. \A f \in Attempt : slots = f \/ BeingDisposed(f) => BeingDisposed(f)'
  BY <1>1 DEF BeingDisposed, None, Attempt
<1>8. AddsUnderLock' /\ SourcesAreOwned'
  BY <1>1, <1>7 DEF IInv, AddsUnderLock, SourcesAreOwned, AcceptOf
<1> QED
  BY <1>3, <1>4, <1>5, <1>6, <1>8 DEF IInv

\* Disposing of an entry leaves neither source nor link, and no other entry is
\* touched.
LEMMA DisposeLeavesNothing ==
    ASSUME TypeOK, NEW e \in Attempt, Dispose(e)
    PROVE  /\ server' \in [Attempt -> Life] /\ client' \in [Attempt -> Life]
           /\ stoppedByUser' \in SUBSET Attempt /\ sources' \in SUBSET Attempt
           /\ e \notin sources' /\ client'[e] # "open" /\ e \notin inside
           /\ \A f \in Attempt : /\ f \in sources' => f \in sources
                                 /\ client'[f] = "open" => client[f] = "open"
  BY DEF Dispose, TypeOK, Life

LEMMA CallerKeeps == IInv /\ Caller => IInv'
<1> SUFFICES ASSUME IInv, Caller PROVE IInv'
  OBVIOUS
<1>1. CASE CallerDisposes
  <2> DEFINE e == caller.entry
  <2>1. /\ UNCHANGED <<slots, last, inside, thread, dropped, posted>>
        /\ caller' = [caller EXCEPT !.next = "service"] /\ caller.next = "dispose"
        /\ Dispose(e)
    BY <1>1 DEF CallerDisposes
  <2>2. e \in Attempt
    BY <2>1 DEF IInv, TypeOK
  <2> HIDE DEF e
  <2>3. /\ server' \in [Attempt -> Life] /\ client' \in [Attempt -> Life]
        /\ stoppedByUser' \in SUBSET Attempt /\ sources' \in SUBSET Attempt
        /\ e \notin sources' /\ client'[e] # "open" /\ e \notin inside
        /\ \A f \in Attempt : /\ f \in sources' => f \in sources
                              /\ client'[f] = "open" => client[f] = "open"
    BY <2>1, <2>2, DisposeLeavesNothing DEF IInv
  <2>4. TypeOK'
    BY <2>1, <2>3 DEF IInv, TypeOK
  <2>5. NothingAhead' /\ PostsInOrder' /\ TakenOnce'
    BY <2>1 DEF IInv, NothingAhead, PostsInOrder, TakenOnce, AcceptOf, ReadOf, HasTaken
  <2>6. \A f \in Attempt : f # e /\ BeingDisposed(f) => BeingDisposed(f)'
    BY <2>1 DEF BeingDisposed, e
  <2>7. AddsUnderLock' /\ SourcesAreOwned'
    BY <2>1, <2>3, <2>6 DEF IInv, AddsUnderLock, SourcesAreOwned, AcceptOf
  <2> QED
    BY <2>4, <2>5, <2>7 DEF IInv
<1>2. CASE CallerStopsService
  BY <1>2 DEF IInv, CallerStopsService, TypeOK, NothingAhead, PostsInOrder, TakenOnce,
         AddsUnderLock, SourcesAreOwned, BeingDisposed, AcceptOf, ReadOf, HasTaken, None
<1> QED
  BY <1>1, <1>2 DEF Caller

-----------------------------------------------------------------------------
(* The accept thread and the reader, step by step. *)

\* A thread that moves between places where it neither disposes of its entry
\* nor is adding the source changes nobody's claim on an entry.
LEMMA MoveKeepsClaims ==
    ASSUME IInv, NEW k \in {"accept", "read"}, NEW e \in Attempt,
           NEW pc \in AcceptPc \cup ReadPc, Goes(k, e, pc),
           thread[<<k, e>>] # "dispose", UNCHANGED slots
    PROVE  \A f \in Attempt : slots = f \/ BeingDisposed(f)
                              => slots' = f \/ BeingDisposed(f)'
<1>1. \A j \in {"accept", "read"}, f \in Attempt :
          thread[<<j, f>>] = "dispose" => thread'[<<j, f>>] = "dispose"
  BY GoesMoves DEF IInv
<1> QED
  BY <1>1, GoesMoves DEF IInv, BeingDisposed

LEMMA AcceptsKeeps ==
    ASSUME IInv, NEW e \in Attempt, Accepts(e) \/ AcceptFails(e)
    PROVE  IInv'
<1> DEFINE pc == AcceptOf(e)'
<1>1. /\ AcceptOf(e) = "accepting"
      /\ \E q \in {"accepted", "ended"} : Goes("accept", e, q)
      /\ UNCHANGED <<slots, server, client, inside, stoppedByUser, sources, posted>>
  BY DEF Accepts, AcceptFails, AcceptOf
<1>2. PICK q \in {"accepted", "ended"} : Goes("accept", e, q)
  BY <1>1
<1>3. /\ thread' \in [Thread -> AcceptPc \cup ReadPc]
      /\ thread'[<<"accept", e>>] = q
      /\ \A j \in {"accept", "read"}, f \in Attempt :
            j # "accept" \/ f # e => thread'[<<j, f>>] = thread[<<j, f>>]
      /\ UNCHANGED <<last, caller, dropped, commands, workerVars>>
  BY <1>2, GoesMoves DEF IInv, AcceptPc
<1>4. TypeOK'
  BY <1>1, <1>3 DEF IInv, TypeOK
<1>5. NothingAhead' /\ PostsInOrder' /\ TakenOnce'
  BY <1>1, <1>3 DEF IInv, NothingAhead, PostsInOrder, TakenOnce, AcceptOf, ReadOf, HasTaken
<1>6. \A f \in Attempt : slots = f \/ BeingDisposed(f) => slots' = f \/ BeingDisposed(f)'
  BY <1>1, <1>2, MoveKeepsClaims DEF AcceptPc, AcceptOf
<1>7. AddsUnderLock' /\ SourcesAreOwned'
  BY <1>1, <1>3, <1>6 DEF IInv, AddsUnderLock, SourcesAreOwned, AcceptOf
<1> QED
  BY <1>4, <1>5, <1>7 DEF IInv

LEMMA AcceptChecksKeeps ==
    ASSUME IInv, NEW e \in Attempt, AcceptChecks(e)
    PROVE  IInv'
<1>1. /\ AcceptOf(e) = "accepted"
      /\ UNCHANGED <<slots, server, stoppedByUser, sources, posted>>
  BY DEF AcceptChecks, AcceptOf
<1>2. CASE slots = e
  <2>1. Goes("accept", e, "adding") /\ inside' = inside \cup {e} /\ UNCHANGED client
    BY <1>2 DEF AcceptChecks
  <2>2. /\ thread' \in [Thread -> AcceptPc \cup ReadPc]
        /\ thread'[<<"accept", e>>] = "adding"
        /\ \A j \in {"accept", "read"}, f \in Attempt :
              j # "accept" \/ f # e => thread'[<<j, f>>] = thread[<<j, f>>]
        /\ UNCHANGED <<last, caller, dropped, commands, workerVars>>
    BY <2>1, GoesMoves DEF IInv, AcceptPc
  <2>3. TypeOK'
    BY <1>1, <2>1, <2>2 DEF IInv, TypeOK
  <2>4. NothingAhead' /\ PostsInOrder' /\ TakenOnce'
    BY <1>1, <2>2 DEF IInv, NothingAhead, PostsInOrder, TakenOnce, AcceptOf, ReadOf, HasTaken
  <2>5. \A f \in Attempt : slots = f \/ BeingDisposed(f) => slots' = f \/ BeingDisposed(f)'
    BY <1>1, <2>1, MoveKeepsClaims DEF AcceptPc, AcceptOf
  <2>6. AddsUnderLock' /\ SourcesAreOwned'
    BY <1>1, <1>2, <2>1, <2>2, <2>5 DEF IInv, AddsUnderLock, SourcesAreOwned, AcceptOf
  <2> QED
    BY <2>3, <2>4, <2>6 DEF IInv
<1>3. CASE slots # e
  <2>1. /\ Goes("accept", e, "over") /\ UNCHANGED inside
        /\ client' = [client EXCEPT ![e] = "closed"]
    BY <1>3 DEF AcceptChecks
  <2>2. /\ thread' \in [Thread -> AcceptPc \cup ReadPc]
        /\ thread'[<<"accept", e>>] = "over"
        /\ \A j \in {"accept", "read"}, f \in Attempt :
              j # "accept" \/ f # e => thread'[<<j, f>>] = thread[<<j, f>>]
        /\ UNCHANGED <<last, caller, dropped, commands, workerVars>>
    BY <2>1, GoesMoves DEF IInv, AcceptPc
  <2>3. TypeOK'
    BY <1>1, <2>1, <2>2 DEF IInv, TypeOK, Life
  <2>4. NothingAhead' /\ PostsInOrder' /\ TakenOnce'
    BY <1>1, <2>2 DEF IInv, NothingAhead, PostsInOrder, TakenOnce, AcceptOf, ReadOf, HasTaken
  <2>5. \A f \in Attempt : slots = f \/ BeingDisposed(f) => slots' = f \/ BeingDisposed(f)'
    BY <1>1, <2>1, MoveKeepsClaims DEF AcceptPc, AcceptOf
  <2>6. \A f \in Attempt : client'[f] = "open" => client[f] = "open"
    BY <2>1 DEF IInv, TypeOK
  <2>7. AddsUnderLock' /\ SourcesAreOwned'
    BY <1>1, <2>1, <2>2, <2>5, <2>6 DEF IInv, AddsUnderLock, SourcesAreOwned, AcceptOf
  <2> QED
    BY <2>3, <2>4, <2>7 DEF IInv
<1> QED
  BY <1>2, <1>3

LEMMA AcceptAddsKeeps ==
    ASSUME IInv, NEW e \in Attempt, AcceptAdds(e)
    PROVE  IInv'
<1>1. /\ AcceptOf(e) = "adding"
      /\ client' = [client EXCEPT ![e] = "open"]
      /\ server' = [server EXCEPT ![e] = "closed"]
      /\ sources' = sources \cup {e} /\ inside' = inside \ {e}
      /\ UNCHANGED <<slots, last, stoppedByUser, caller, dropped, posted>>
  BY DEF AcceptAdds, AcceptOf
<1>2. /\ thread' \in [Thread -> AcceptPc \cup ReadPc]
      /\ AcceptOf(e)' = "over" /\ ReadOf(e)' = "reading"
      /\ \A f \in Attempt : f # e => AcceptOf(f)' = AcceptOf(f) /\ ReadOf(f)' = ReadOf(f)
  BY DEF AcceptAdds, IInv, TypeOK, Thread, AcceptPc, ReadPc, AcceptOf, ReadOf
<1>3. posted[e] = <<>> /\ ReadOf(e) = "none"
  BY <1>1 DEF IInv, PostsInOrder
<1>4. TypeOK'
  BY <1>1, <1>2 DEF IInv, TypeOK, Life
<1>5. NothingAhead'
  BY <1>1, <1>2 DEF IInv, NothingAhead
<1>6. PostsInOrder'
  BY <1>1, <1>2, <1>3 DEF IInv, PostsInOrder
<1>7. TakenOnce'
  BY <1>1, <1>2, <1>3 DEF IInv, TakenOnce, HasTaken, AcceptOf, ReadOf
<1>8. \A f \in Attempt : slots = f \/ BeingDisposed(f) => slots' = f \/ BeingDisposed(f)'
  BY <1>1, <1>2, <1>3 DEF BeingDisposed, AcceptOf, ReadOf
<1>9. \A f \in Attempt : client'[f] = "open" => client[f] = "open" \/ f = e
  BY <1>1 DEF IInv, TypeOK
<1>10. AddsUnderLock' /\ SourcesAreOwned'
  BY <1>1, <1>2, <1>8, <1>9 DEF IInv, AddsUnderLock, SourcesAreOwned
<1> QED
  BY <1>4, <1>5, <1>6, <1>7, <1>10 DEF IInv

\* The reader until its stream ends.
LEMMA ReadsKeep ==
    ASSUME IInv, NEW e \in Attempt, ReadFirst(e) \/ PostConnected(e) \/ ReadEnds(e)
    PROVE  IInv'
<1>1. PICK q \in {"first", "streaming", "ended", "over"} :
          /\ Goes("read", e, q)
          /\ ReadOf(e) = "reading" \/ q # "first"
  BY DEF ReadFirst, PostConnected, ReadEnds, AtEnd, ReadOf
<1>2. /\ ReadOf(e) \in {"reading", "first", "streaming"}
      /\ UNCHANGED <<slots, server, client, inside, stoppedByUser, sources>>
  BY DEF ReadFirst, PostConnected, ReadEnds, ReadOf
<1>3. /\ thread' \in [Thread -> AcceptPc \cup ReadPc]
      /\ thread'[<<"read", e>>] = q
      /\ \A j \in {"accept", "read"}, f \in Attempt :
            j # "read" \/ f # e => thread'[<<j, f>>] = thread[<<j, f>>]
      /\ UNCHANGED <<last, caller, dropped, commands, workerVars>>
  BY <1>1, GoesMoves DEF IInv, ReadPc
<1>4. /\ posted' \in [Attempt -> Reported]
      /\ \A f \in Attempt : f # e => posted'[f] = posted[f]
      /\ posted'[e] \in {<<>>, <<"connected">>}
      /\ q = "first" => posted'[e] = <<>>
  <2>1. CASE UNCHANGED posted
    BY <1>1, <1>2, <2>1 DEF IInv, TypeOK, PostsInOrder
  <2>2. CASE PostConnected(e)
    <3>1. posted[e] = <<>> /\ q # "first"
      BY <1>1, <2>2 DEF PostConnected, IInv, PostsInOrder, ReadOf
    <3>2. posted' = [posted EXCEPT ![e] = <<"connected">>]
      BY <3>1, <2>2 DEF PostConnected
    <3> QED
      BY <3>1, <3>2 DEF IInv, TypeOK, Reported
  <2> QED
    BY <2>1, <2>2 DEF ReadFirst, ReadEnds
<1>5. AcceptOf(e) = "over"
  BY <1>2 DEF IInv, PostsInOrder
<1>6. TypeOK'
  BY <1>2, <1>3, <1>4 DEF IInv, TypeOK
<1>7. NothingAhead'
  BY <1>2, <1>3 DEF IInv, NothingAhead, AcceptOf, ReadOf
<1>8. PostsInOrder'
  BY <1>2, <1>3, <1>4, <1>5 DEF IInv, PostsInOrder, AcceptOf, ReadOf
<1>9. TakenOnce'
  BY <1>2, <1>3, <1>4, <1>5 DEF IInv, TakenOnce, HasTaken, AcceptOf, ReadOf
<1>10. \A f \in Attempt : slots = f \/ BeingDisposed(f) => slots' = f \/ BeingDisposed(f)'
  BY <1>1, <1>2, MoveKeepsClaims DEF ReadPc, ReadOf
<1>11. AddsUnderLock' /\ SourcesAreOwned'
  BY <1>2, <1>3, <1>10 DEF IInv, AddsUnderLock, SourcesAreOwned, AcceptOf
<1> QED
  BY <1>6, <1>7, <1>8, <1>9, <1>11 DEF IInv

LEMMA RemovesKeeps ==
    ASSUME IInv, NEW k \in {"accept", "read"}, NEW e \in Attempt, Removes(k, e)
    PROVE  IInv'
<1>1. PICK q \in {"dispose", "over"} :
          /\ Goes(k, e, q)
          /\ IF slots = e THEN slots' = None /\ q = "dispose"
                          ELSE UNCHANGED slots /\ q = "over"
  BY DEF Removes
<1>2. /\ thread[<<k, e>>] = "ended"
      /\ UNCHANGED <<server, client, inside, stoppedByUser, sources, posted>>
  BY DEF Removes
<1>3. /\ thread' \in [Thread -> AcceptPc \cup ReadPc]
      /\ thread'[<<k, e>>] = q
      /\ \A j \in {"accept", "read"}, f \in Attempt :
            j # k \/ f # e => thread'[<<j, f>>] = thread[<<j, f>>]
      /\ UNCHANGED <<last, caller, dropped, commands, workerVars>>
  BY <1>1, GoesMoves DEF IInv, ReadPc
<1>4. slots' \in {slots, None} /\ (q = "dispose" => slots = e /\ slots' # e)
  BY <1>1 DEF None, Attempt
<1>5. TypeOK'
  BY <1>2, <1>3, <1>4 DEF IInv, TypeOK, None
<1>6. NothingAhead'
  BY <1>2, <1>3, <1>4 DEF IInv, TypeOK, NothingAhead, AcceptOf, ReadOf, None
<1>7. PostsInOrder'
  BY <1>2, <1>3 DEF IInv, PostsInOrder, AcceptOf, ReadOf
<1>8. TakenOnce'
  <2>1. slots' \notin dropped'
    BY <1>3, <1>4 DEF IInv, TypeOK, TakenOnce, None, Attempt
  <2>2. ASSUME NEW f \in Attempt, slots' = f \/ f \in dropped'
        PROVE  /\ ~HasTaken("accept", f)' /\ ~HasTaken("read", f)'
               /\ posted'[f] \in {<<>>, <<"connected">>}
    <3>1. slots = f \/ f \in dropped
      BY <1>3, <1>4, <2>2 DEF None, Attempt
    <3>2. f = e => q = "over"
      BY <1>3, <1>4, <2>2 DEF IInv, TakenOnce
    <3> QED
      BY <1>2, <1>3, <3>1, <3>2 DEF IInv, TakenOnce, HasTaken
  <2> QED
    BY <2>1, <2>2 DEF TakenOnce
<1>9. \A f \in Attempt : slots = f \/ BeingDisposed(f) => slots' = f \/ BeingDisposed(f)'
  BY <1>1, <1>2, <1>3 DEF BeingDisposed
<1>10. AddsUnderLock' /\ SourcesAreOwned'
  BY <1>2, <1>3, <1>9 DEF IInv, AddsUnderLock, SourcesAreOwned, AcceptOf
<1> QED
  BY <1>5, <1>6, <1>7, <1>8, <1>10 DEF IInv

LEMMA DisposesKeeps ==
    ASSUME IInv, NEW k \in {"accept", "read"}, NEW e \in Attempt, Disposes(k, e)
    PROVE  IInv'
<1>1. /\ thread[<<k, e>>] = "dispose" /\ Dispose(e) /\ Goes(k, e, "report")
      /\ UNCHANGED <<slots, inside, posted>>
  BY DEF Disposes
<1>2. /\ thread' \in [Thread -> AcceptPc \cup ReadPc]
      /\ thread'[<<k, e>>] = "report"
      /\ \A j \in {"accept", "read"}, f \in Attempt :
            j # k \/ f # e => thread'[<<j, f>>] = thread[<<j, f>>]
      /\ UNCHANGED <<last, caller, dropped, commands, workerVars>>
  BY <1>1, GoesMoves DEF IInv, ReadPc
<1>3. /\ server' \in [Attempt -> Life] /\ client' \in [Attempt -> Life]
      /\ stoppedByUser' \in SUBSET Attempt /\ sources' \in SUBSET Attempt
      /\ e \notin sources' /\ client'[e] # "open" /\ e \notin inside
      /\ \A f \in Attempt : /\ f \in sources' => f \in sources
                            /\ client'[f] = "open" => client[f] = "open"
  BY <1>1, DisposeLeavesNothing DEF IInv
<1>4. TypeOK'
  BY <1>1, <1>2, <1>3 DEF IInv, TypeOK
<1>5. NothingAhead' /\ PostsInOrder' /\ TakenOnce'
  <2>1. NothingAhead'
    BY <1>1, <1>2 DEF IInv, NothingAhead, AcceptOf, ReadOf
  <2>2. PostsInOrder'
    BY <1>1, <1>2 DEF IInv, PostsInOrder, AcceptOf, ReadOf
  <2>3. TakenOnce'
    BY <1>1, <1>2 DEF IInv, TakenOnce, HasTaken
  <2> QED
    BY <2>1, <2>2, <2>3
<1>6. \A f \in Attempt : f # e /\ BeingDisposed(f) => BeingDisposed(f)'
  BY <1>2 DEF BeingDisposed
<1>7. AddsUnderLock' /\ SourcesAreOwned'
  BY <1>1, <1>2, <1>3, <1>6 DEF IInv, AddsUnderLock, SourcesAreOwned, AcceptOf
<1> QED
  BY <1>4, <1>5, <1>7 DEF IInv

\* A second callback comes after the first.
LEMMA AppendToOne ==
    ASSUME NEW a, NEW b
    PROVE  Append(<<a>>, b) = <<a, b>>
<1> DEFINE S == {a, b}
<1> DEFINE s == <<a>>
<1> DEFINE t == Append(s, b)
<1> DEFINE u == <<a, b>>
<1>1. s \in Seq(S) /\ Len(s) = 1 /\ s[1] = a
  OBVIOUS
<1>2. t \in Seq(S) /\ Len(t) = 2 /\ t[1] = a /\ t[2] = b
  BY <1>1
<1>3. u \in Seq(S) /\ Len(u) = 2 /\ u[1] = a /\ u[2] = b
  OBVIOUS
<1> HIDE DEF s, t, u
<1>4. t = u
  BY <1>2, <1>3
<1> QED
  BY <1>4 DEF s, t, u

LEMMA ReportsKeeps ==
    ASSUME IInv, NEW k \in {"accept", "read"}, NEW e \in Attempt, Reports(k, e)
    PROVE  IInv'
<1>1. /\ thread[<<k, e>>] = "report" /\ Goes(k, e, "over")
      /\ posted' = [posted EXCEPT ![e] = Append(@, "disconnected")]
      /\ UNCHANGED <<slots, server, client, inside, stoppedByUser, sources>>
  BY DEF Reports
<1>2. /\ thread' \in [Thread -> AcceptPc \cup ReadPc]
      /\ thread'[<<k, e>>] = "over"
      /\ \A j \in {"accept", "read"}, f \in Attempt :
            j # k \/ f # e => thread'[<<j, f>>] = thread[<<j, f>>]
      /\ UNCHANGED <<last, caller, dropped, commands, workerVars>>
  BY <1>1, GoesMoves DEF IInv, ReadPc
<1>3. posted[e] \in {<<>>, <<"connected">>}
  BY <1>1 DEF IInv, PostsInOrder, AcceptOf, ReadOf
<1>4. slots # e /\ e \notin dropped
  BY <1>1 DEF IInv, TakenOnce, HasTaken
<1>5. /\ posted' \in [Attempt -> Reported]
      /\ \A f \in Attempt : f # e => posted'[f] = posted[f]
  <2>1. Append(posted[e], "disconnected") \in Reported
    <3>1. Append(<<>>, "disconnected") = <<"disconnected">>
      OBVIOUS
    <3>2. Append(<<"connected">>, "disconnected") = <<"connected", "disconnected">>
      BY AppendToOne
    <3> QED
      BY <1>3, <3>1, <3>2 DEF Reported
  <2> QED
    BY <1>1, <2>1 DEF IInv, TypeOK
<1>6. TypeOK'
  BY <1>1, <1>2, <1>5 DEF IInv, TypeOK
<1>7. NothingAhead'
  BY <1>1, <1>2 DEF IInv, NothingAhead, AcceptOf, ReadOf
<1>8. PostsInOrder'
  <2>1. k = "read" => AcceptOf(e) = "over"
    BY <1>1 DEF IInv, PostsInOrder, ReadOf
  <2>2. k = "accept" => ReadOf(e) = "none"
    BY <1>1 DEF IInv, PostsInOrder, AcceptOf
  <2> QED
    BY <1>2, <1>5, <2>1, <2>2, ZenonT(30) DEF IInv, PostsInOrder, AcceptOf, ReadOf
<1>9. TakenOnce'
  BY <1>1, <1>2, <1>4, <1>5 DEF IInv, TakenOnce, HasTaken
<1>10. \A f \in Attempt : slots = f \/ BeingDisposed(f) => slots' = f \/ BeingDisposed(f)'
  BY <1>1, MoveKeepsClaims DEF ReadPc
<1>11. AddsUnderLock' /\ SourcesAreOwned'
  BY <1>1, <1>2, <1>10 DEF IInv, AddsUnderLock, SourcesAreOwned, AcceptOf
<1> QED
  BY <1>6, <1>7, <1>8, <1>9, <1>11 DEF IInv

-----------------------------------------------------------------------------
(* The theorems. *)

LEMMA NextInvariant == IInv /\ [Next]_vars => IInv'
<1> SUFFICES ASSUME IInv, [Next]_vars PROVE IInv'
  OBVIOUS
<1>1. CASE Main
  BY <1>1, StartDeviceKeeps, StartDeviceFailsKeeps, StopDeviceKeeps DEF Main
<1>2. CASE Caller
  BY <1>2, CallerKeeps
<1>3. ASSUME NEW e \in Attempt,
             Acceptor(e) \/ AcceptFails(e) \/ ReadFirst(e) \/ Reader(e)
      PROVE  IInv'
  BY <1>3, AcceptsKeeps, AcceptChecksKeeps, AcceptAddsKeeps, ReadsKeep,
     RemovesKeeps, DisposesKeeps, ReportsKeeps DEF Acceptor, Reader, Runs
<1>4. CASE Service
  BY <1>4, MainVarsSuffice DEF Service, StartCommand, Destroy, Release
<1>5. ASSUME NEW e \in Attempt,
             Connecting(e) \/ ConnectionEnds(e) \/ ConnectionStops(e)
      PROVE  IInv'
  BY <1>5, MainVarsSuffice DEF Connecting, Connects, ConnectFails, InstallStale,
     Install, ConnectionStops, ConnectionEnds
<1>6. CASE WorkerDies
  BY <1>6, MainVarsSuffice DEF WorkerDies
<1>7. CASE UNCHANGED vars
  BY <1>7, MainVarsSuffice DEF vars
<1> QED
  BY <1>1, <1>2, <1>3, <1>4, <1>5, <1>6, <1>7 DEF Next

LEMMA Invariance == Spec => []IInv
  BY InitInvariant, NextInvariant, PTL DEF Spec

\* A source that is mixed, and a link that is open, belong to the entry in the
\* map or to one that is about to be disposed of, when a worker connects back
\* while its device is stopped (MultiConnectionManager.kt) as at any time.
THEOREM SourcesHaveOwners == Spec => []SourcesAreOwned
<1>1. IInv => SourcesAreOwned
  BY DEF IInv
<1> QED
  BY Invariance, <1>1, PTL

\* MultiController is told of an entry's first frame and of its end at most
\* once, in this order, and not of the end of a device it has stopped itself,
\* whichever threads of the manager notice the end.
THEOREM EndsReportedOnce == Spec => []ReportedOnce
<1>1. IInv => ReportedOnce
  BY DEF IInv, TypeOK, TakenOnce, ReportedOnce, Reported
<1> QED
  BY Invariance, <1>1, PTL
-----------------------------------------------------------------------------
(* What a stopped device leaves: the worker's side of the invariant. *)

EndsInStop(s) == s # <<>> /\ s[Len(s)] = Stop

\* The attempts among the commands s are no later than n, are not being served
\* according to c, and are asked for once each.
Fresh(s, n, c) ==
    \A i \in DOMAIN s : s[i] # Stop =>
        /\ s[i] <= n /\ c[s[i]] = "none"
        /\ \A j \in DOMAIN s : j # i => s[j] # s[i]

WorkerTypeOK ==
    /\ commands \in Seq(Attempt \cup {Stop})
    /\ generation \in Attempt \cup {None}
    /\ current \in Attempt \cup {None} /\ leaving \in Attempt \cup {None}
    /\ connecting \in [Attempt -> {"none", "run", "connected", "over"}]
    /\ socket \in [Attempt -> Life]
    /\ connection \in [Attempt -> {"none", "running", "stopping"}]

\* A thread of the worker serves each attempt once: it never starts again with
\* a link that an earlier one has opened.
ServedOnce ==
    /\ Fresh(commands, last, connecting)
    /\ \A e \in Attempt : connecting[e] # "none" => e <= last

\* Whatever is left to deliver after a stop, the last of it is a stop.
StopIsLast ==
    caller.asked = "stop" /\ caller.next = "idle" =>
        EndsInStop(commands) \/ (commands = <<>> /\ ~created)

\* A link or a connection of the worker is in the hands of a thread that will
\* install or close it, of the service, or of the service's onDestroy().
WorkerOwns ==
    /\ ~created => generation = None /\ current = None
    /\ \A e \in Attempt :
          /\ socket[e] = "open" => connecting[e] = "connected" \/ e \in {current, leaving}
          /\ connection[e] = "running" => e \in {current, leaving}

WorkerInv == WorkerTypeOK /\ ServedOnce /\ StopIsLast /\ WorkerOwns

\* The main process's side: a server socket that is open has an owner too, and
\* the map is empty unless a start was the last thing asked for.
ServersAreOwned ==
    /\ \A e \in Attempt : server[e] = "open" => slots = e \/ BeingDisposed(e)
    /\ caller.asked # "start" => slots = None

StopInv == IInv /\ ServersAreOwned /\ WorkerInv

-----------------------------------------------------------------------------
(* The commands. *)

LEMMA StopAppended ==
    ASSUME NEW s \in Seq(Attempt \cup {Stop}), NEW n, NEW c, Fresh(s, n, c)
    PROVE  /\ Append(s, Stop) \in Seq(Attempt \cup {Stop})
           /\ Fresh(Append(s, Stop), n, c) /\ EndsInStop(Append(s, Stop))
<1> DEFINE t == Append(s, Stop)
<1>1. /\ t \in Seq(Attempt \cup {Stop}) /\ DOMAIN t = 1 .. Len(s) + 1
      /\ DOMAIN s = 1 .. Len(s) /\ Len(s) \in Nat /\ Len(t) = Len(s) + 1
      /\ t[Len(s) + 1] = Stop /\ \A i \in 1 .. Len(s) : t[i] = s[i]
  OBVIOUS
<1> HIDE DEF t
<1>2. Fresh(t, n, c)
  BY <1>1 DEF Fresh
<1>3. EndsInStop(t)
  BY <1>1 DEF EndsInStop
<1> QED
  BY <1>1, <1>2, <1>3 DEF t

LEMMA StopAlone ==
    ASSUME NEW n, NEW c
    PROVE  /\ <<Stop>> \in Seq(Attempt \cup {Stop})
           /\ Fresh(<<Stop>>, n, c) /\ EndsInStop(<<Stop>>)
  BY DEF Fresh, EndsInStop

\* An attempt is asked for before any thread serves it.
LEMMA StartAppended ==
    ASSUME NEW s \in Seq(Attempt \cup {Stop}), NEW n \in Nat, NEW c,
           n + 1 \in Attempt, c[n + 1] = "none", Fresh(s, n, c)
    PROVE  /\ Append(s, n + 1) \in Seq(Attempt \cup {Stop})
           /\ Fresh(Append(s, n + 1), n + 1, c)
<1> DEFINE t == Append(s, n + 1)
<1>1. /\ t \in Seq(Attempt \cup {Stop}) /\ DOMAIN t = 1 .. Len(s) + 1
      /\ DOMAIN s = 1 .. Len(s) /\ Len(s) \in Nat
      /\ t[Len(s) + 1] = n + 1 /\ \A i \in 1 .. Len(s) : t[i] = s[i]
  OBVIOUS
<1>2. \A i \in 1 .. Len(s) : s[i] \in Nat
  BY LinkAssumption DEF Attempt, Stop
<1> HIDE DEF t
<1>3. \A i \in 1 .. Len(s) : s[i] # Stop => s[i] <= n
  BY <1>1 DEF Fresh
<1>4. Fresh(t, n + 1, c)
  BY <1>1, <1>2, <1>3 DEF Fresh, Stop
<1> QED
  BY <1>1, <1>4 DEF t

\* Nothing but the attempts served matters, and those only once.
LEMMA FreshStays ==
    ASSUME NEW s, NEW n \in Nat, NEW m \in Nat, n <= m, NEW c, NEW d,
           s \in Seq(Attempt \cup {Stop}), Fresh(s, n, c),
           \A e \in Attempt : c[e] = "none" => d[e] = "none"
    PROVE  Fresh(s, m, d)
<1>1. \A i \in DOMAIN s : s[i] # Stop => s[i] \in Attempt /\ s[i] \in Nat
  BY LinkAssumption DEF Attempt
<1> QED
  BY <1>1 DEF Fresh

LEMMA HeadDelivered ==
    ASSUME NEW s \in Seq(Attempt \cup {Stop}), s # <<>>, NEW n, NEW c, Fresh(s, n, c)
    PROVE  /\ Head(s) \in Attempt \cup {Stop}
           /\ Tail(s) \in Seq(Attempt \cup {Stop}) /\ Fresh(Tail(s), n, c)
           /\ EndsInStop(s) => Tail(s) = <<>> \/ EndsInStop(Tail(s))
           /\ EndsInStop(s) /\ Head(s) # Stop => EndsInStop(Tail(s))
           /\ Head(s) # Stop =>
                 /\ Head(s) <= n
                 /\ \A i \in DOMAIN Tail(s) : Tail(s)[i] # Head(s)
<1> DEFINE t == Tail(s)
<1> DEFINE h == Head(s)
<1>1. /\ s \in [1 .. Len(s) -> Attempt \cup {Stop}] /\ Len(s) \in Nat \ {0}
      /\ DOMAIN s = 1 .. Len(s) /\ h = s[1]
  OBVIOUS
<1>2. /\ t \in Seq(Attempt \cup {Stop}) /\ DOMAIN t = 1 .. Len(t)
      /\ Len(t) = Len(s) - 1 /\ \A i \in 1 .. Len(t) : t[i] = s[i + 1]
  OBVIOUS
<1>3. h \in Attempt \cup {Stop}
  BY <1>1
<1> HIDE DEF t, h
<1>4. t = <<>> <=> Len(t) = 0
  BY <1>2
<1>5. \A i \in DOMAIN t : i + 1 \in DOMAIN s /\ i + 1 # 1 /\ t[i] = s[i + 1]
  BY <1>1, <1>2
<1>6. Fresh(t, n, c)
  <2> SUFFICES ASSUME NEW i \in DOMAIN t, t[i] # Stop
               PROVE  /\ t[i] <= n /\ c[t[i]] = "none"
                      /\ \A j \in DOMAIN t : j # i => t[j] # t[i]
    BY DEF Fresh
  <2>1. /\ s[i + 1] <= n /\ c[s[i + 1]] = "none"
        /\ \A j \in DOMAIN s : j # i + 1 => s[j] # s[i + 1]
    BY <1>5 DEF Fresh
  <2>2. ASSUME NEW j \in DOMAIN t, j # i PROVE j + 1 # i + 1
    BY <1>2, <2>2
  <2> QED
    BY <1>5, <2>1, <2>2
<1>7. EndsInStop(s) /\ Len(s) # 1 => EndsInStop(t)
  BY <1>1, <1>2, <1>4 DEF EndsInStop
<1>8. EndsInStop(s) /\ h # Stop => Len(s) # 1
  BY <1>1 DEF EndsInStop
<1>9. h # Stop => h <= n /\ \A i \in DOMAIN t : t[i] # h
  BY <1>1, <1>5 DEF Fresh
<1> QED
  BY <1>1, <1>2, <1>3, <1>4, <1>6, <1>7, <1>8, <1>9 DEF t, h
-----------------------------------------------------------------------------
(* Every step of the main thread keeps the worker's side. *)

LEMMA InitLeavesNothing == Init => ServersAreOwned /\ WorkerInv
<1> SUFFICES ASSUME Init PROVE ServersAreOwned /\ WorkerInv
  OBVIOUS
<1>1. ServersAreOwned
  BY DEF Init, ServersAreOwned
<1>2. WorkerTypeOK
  BY DEF Init, WorkerTypeOK, None, Life
<1>3. ServedOnce /\ StopIsLast /\ WorkerOwns
  BY DEF Init, Idle, ServedOnce, Fresh, StopIsLast, WorkerOwns
<1> QED
  BY <1>1, <1>2, <1>3 DEF WorkerInv

\* What the threads of the main process do is nothing to the worker.
LEMMA WorkerVarsSuffice ==
    WorkerInv /\ UNCHANGED <<last, caller, commands, workerVars>> => WorkerInv'
  BY DEF WorkerInv, WorkerTypeOK, ServedOnce, StopIsLast, WorkerOwns, workerVars

LEMMA ServiceStopped ==
    ASSUME WorkerInv, StopService
    PROVE  /\ commands' \in Seq(Attempt \cup {Stop})
           /\ Fresh(commands', last, connecting) /\ EndsInStop(commands')
  BY StopAppended, StopAlone DEF WorkerInv, WorkerTypeOK, ServedOnce, StopService

LEMMA MainKeepsWorker == IInv /\ WorkerInv /\ Main => WorkerInv'
<1> SUFFICES ASSUME IInv, WorkerInv, Main PROVE WorkerInv'
  OBVIOUS
<1>1. last \in Nat
  BY LinkAssumption DEF IInv, TypeOK
<1>2. UNCHANGED workerVars
  BY DEF Main, StartDevice, StartDeviceFails, StopDevice
<1>3. WorkerOwns'
  BY <1>2 DEF WorkerInv, WorkerOwns, workerVars
<1>4. CASE StartDevice
  <2>1. /\ last' = last + 1 /\ commands' = Append(commands, last + 1)
        /\ last + 1 \in Attempt /\ caller'.asked = "start"
    BY <1>1, <1>4, LinkAssumption DEF StartDevice, Attempt, IInv, TypeOK
  <2>2. connecting[last + 1] = "none"
    BY <1>1, <2>1 DEF WorkerInv, WorkerTypeOK, ServedOnce
  <2>3. commands' \in Seq(Attempt \cup {Stop}) /\ Fresh(commands', last', connecting)
    BY <1>1, <2>1, <2>2, StartAppended DEF WorkerInv, WorkerTypeOK, ServedOnce
  <2>4. \A e \in Attempt : connecting[e] # "none" => e <= last'
    BY <1>1, <2>1 DEF WorkerInv, ServedOnce, Attempt
  <2> QED
    BY <1>2, <1>3, <2>1, <2>3, <2>4
    DEF WorkerInv, WorkerTypeOK, ServedOnce, StopIsLast, workerVars
<1>5. CASE StartDeviceFails
  <2>1. last' = last + 1 /\ StopService
    BY <1>5 DEF StartDeviceFails
  <2>2. /\ commands' \in Seq(Attempt \cup {Stop})
        /\ Fresh(commands', last, connecting) /\ EndsInStop(commands')
    BY <2>1, ServiceStopped
  <2>3. Fresh(commands', last', connecting)
    BY <1>1, <2>1, <2>2, FreshStays
  <2>4. \A e \in Attempt : connecting[e] # "none" => e <= last'
    BY <1>1, <2>1 DEF WorkerInv, ServedOnce, Attempt
  <2> QED
    BY <1>2, <1>3, <2>2, <2>3, <2>4
    DEF WorkerInv, WorkerTypeOK, ServedOnce, StopIsLast, EndsInStop, workerVars
<1>6. CASE StopDevice
  <2>1. UNCHANGED <<last, commands>> /\ caller'.next # "idle"
    BY <1>6 DEF StopDevice
  <2> QED
    BY <1>2, <1>3, <2>1
    DEF WorkerInv, WorkerTypeOK, ServedOnce, StopIsLast, workerVars
<1> QED
  BY <1>4, <1>5, <1>6 DEF Main

LEMMA CallerKeepsWorker == IInv /\ WorkerInv /\ Caller => WorkerInv'
<1> SUFFICES ASSUME IInv, WorkerInv, Caller PROVE WorkerInv'
  OBVIOUS
<1>1. UNCHANGED <<last, workerVars>>
  BY DEF Caller, CallerDisposes, CallerStopsService
<1>2. WorkerOwns'
  BY <1>1 DEF WorkerInv, WorkerOwns, workerVars
<1>3. CASE CallerDisposes
  <2>1. UNCHANGED commands /\ caller' = [caller EXCEPT !.next = "service"]
    BY <1>3 DEF CallerDisposes
  <2>2. caller'.next # "idle"
    BY <2>1 DEF IInv, TypeOK
  <2> QED
    BY <1>1, <1>2, <2>1, <2>2
    DEF WorkerInv, WorkerTypeOK, ServedOnce, StopIsLast, workerVars
<1>4. CASE CallerStopsService
  <2>1. /\ commands' \in Seq(Attempt \cup {Stop})
        /\ Fresh(commands', last, connecting) /\ EndsInStop(commands')
    BY <1>4, ServiceStopped DEF CallerStopsService
  <2> QED
    BY <1>1, <1>2, <2>1
    DEF WorkerInv, WorkerTypeOK, ServedOnce, StopIsLast, EndsInStop, workerVars
<1> QED
  BY <1>3, <1>4 DEF Caller

-----------------------------------------------------------------------------
(* Every step of the service and its threads keeps it. *)

\* A thread of the service that goes on serves no attempt that waits.
LEMMA ThreadsKeepServed ==
    ASSUME WorkerInv, NEW s \in Seq(Attempt \cup {Stop}),
           Fresh(s, last, connecting), last \in Nat,
           NEW c, \A e \in Attempt : connecting[e] = "none" <=> c[e] = "none"
    PROVE  Fresh(s, last, c) /\ \A e \in Attempt : c[e] # "none" => e <= last
<1>1. Fresh(s, last, c)
  BY FreshStays
<1>2. \A e \in Attempt : c[e] # "none" => e <= last
  BY DEF WorkerInv, ServedOnce
<1> QED
  BY <1>1, <1>2

\* stopSelf() puts its stop after everything else.
LEMMA SelfStopped ==
    ASSUME WorkerInv, NEW e \in Attempt, StopSelf(e)
    PROVE  /\ commands' \in Seq(Attempt \cup {Stop})
           /\ Fresh(commands', last, connecting)
           /\ commands' = commands \/ EndsInStop(commands')
  BY StopAppended DEF WorkerInv, WorkerTypeOK, ServedOnce, StopSelf

LEMMA ServiceKeepsWorker == IInv /\ WorkerInv /\ Service => WorkerInv'
<1> SUFFICES ASSUME IInv, WorkerInv, Service PROVE WorkerInv'
  OBVIOUS
<1>1. last \in Nat /\ UNCHANGED <<last, caller>>
  BY LinkAssumption DEF IInv, TypeOK, Service, StartCommand, Destroy, Release, mainVars
<1>2. CASE StartCommand
  <2> DEFINE h == Head(commands)
  <2>1. /\ commands # <<>> /\ h # Stop /\ commands' = Tail(commands)
        /\ created' = TRUE /\ generation' = h
        /\ connecting' = [connecting EXCEPT ![h] = "run"]
        /\ UNCHANGED <<socket, connection, current, leaving>>
    BY <1>2 DEF StartCommand
  <2>2. /\ h \in Attempt \cup {Stop}
        /\ commands' \in Seq(Attempt \cup {Stop}) /\ Fresh(commands', last, connecting)
        /\ EndsInStop(commands) => EndsInStop(commands')
        /\ h <= last /\ \A i \in DOMAIN commands' : commands'[i] # h
    BY <2>1, HeadDelivered DEF WorkerInv, WorkerTypeOK, ServedOnce
  <2>3. h \in Attempt /\ connecting[h] = "none"
    <3>1. 1 \in DOMAIN commands /\ commands[1] = h
      BY <2>1 DEF WorkerInv, WorkerTypeOK
    <3> QED
      BY <2>1, <2>2, <3>1 DEF WorkerInv, ServedOnce, Fresh
  <2> HIDE DEF h
  <2>4. Fresh(commands', last, connecting')
    <3>1. \A i \in DOMAIN commands' : commands'[i] # Stop => commands'[i] \in Attempt
      BY <2>2
    <3> QED
      BY <2>1, <2>2, <2>3, <3>1 DEF Fresh, WorkerInv, WorkerTypeOK
  <2>5. ServedOnce'
    BY <1>1, <2>1, <2>2, <2>3, <2>4 DEF WorkerInv, WorkerTypeOK, ServedOnce
  <2>6. WorkerTypeOK'
    BY <2>1, <2>2, <2>3 DEF WorkerInv, WorkerTypeOK
  <2>7. StopIsLast'
    BY <1>1, <2>1, <2>2 DEF WorkerInv, StopIsLast, EndsInStop
  <2>8. WorkerOwns'
    BY <2>1, <2>3 DEF WorkerInv, WorkerTypeOK, WorkerOwns
  <2> QED
    BY <2>5, <2>6, <2>7, <2>8 DEF WorkerInv
<1>3. CASE Destroy
  <2>1. /\ commands # <<>> /\ commands' = Tail(commands) /\ leaving = None
        /\ created' = FALSE /\ generation' = None
        /\ leaving' = current /\ current' = None
        /\ UNCHANGED <<connecting, socket, connection>>
    BY <1>3 DEF Destroy
  <2>2. /\ commands' \in Seq(Attempt \cup {Stop}) /\ Fresh(commands', last, connecting)
        /\ EndsInStop(commands) => commands' = <<>> \/ EndsInStop(commands')
    BY <2>1, HeadDelivered DEF WorkerInv, WorkerTypeOK, ServedOnce
  <2>3. WorkerTypeOK'
    BY <2>1, <2>2 DEF WorkerInv, WorkerTypeOK, None
  <2>4. ServedOnce'
    BY <1>1, <2>1, <2>2 DEF WorkerInv, ServedOnce
  <2>5. StopIsLast'
    BY <1>1, <2>1, <2>2 DEF WorkerInv, StopIsLast
  <2>6. WorkerOwns'
    BY <2>1 DEF WorkerInv, WorkerOwns, None, Attempt
  <2> QED
    BY <2>3, <2>4, <2>5, <2>6 DEF WorkerInv
<1>4. CASE Release
  <2>1. /\ leaving # None /\ Released(leaving) /\ leaving' = None
        /\ UNCHANGED <<commands, created, generation, connecting, current>>
    BY <1>4 DEF Release
  <2>2. WorkerTypeOK'
    BY <2>1 DEF WorkerInv, WorkerTypeOK, Released, None, Life
  <2>3. ServedOnce' /\ StopIsLast'
    BY <1>1, <2>1 DEF WorkerInv, ServedOnce, StopIsLast
  <2>4. WorkerOwns'
    BY <2>1 DEF WorkerInv, WorkerTypeOK, WorkerOwns, Released
  <2> QED
    BY <2>2, <2>3, <2>4 DEF WorkerInv
<1> QED
  BY <1>2, <1>3, <1>4 DEF Service

LEMMA ConnectingKeepsWorker ==
    ASSUME IInv, WorkerInv, NEW e \in Attempt,
           Connecting(e) \/ ConnectionEnds(e) \/ ConnectionStops(e)
    PROVE  WorkerInv'
<1>1. last \in Nat /\ UNCHANGED <<last, caller, created, generation, leaving>>
  BY LinkAssumption DEF IInv, TypeOK, Connecting, Connects, ConnectFails,
     InstallStale, Install, ConnectionStops, ConnectionEnds, mainVars
<1>2. CASE Connects(e)
  <2>1. /\ connecting[e] = "run"
        /\ socket' = [socket EXCEPT ![e] = "open"]
        /\ connecting' = [connecting EXCEPT ![e] = "connected"]
        /\ UNCHANGED <<commands, connection, current>>
    BY <1>2 DEF Connects
  <2>2. ServedOnce'
    BY <1>1, <2>1, ThreadsKeepServed DEF WorkerInv, WorkerTypeOK, ServedOnce
  <2>3. WorkerTypeOK' /\ StopIsLast'
    BY <1>1, <2>1 DEF WorkerInv, WorkerTypeOK, StopIsLast, Life
  <2>4. WorkerOwns'
    BY <1>1, <2>1 DEF WorkerInv, WorkerTypeOK, WorkerOwns
  <2> QED
    BY <2>2, <2>3, <2>4 DEF WorkerInv
<1>3. CASE ConnectFails(e)
  <2>1. /\ connecting[e] = "run" /\ StopSelf(e)
        /\ connecting' = [connecting EXCEPT ![e] = "over"]
        /\ UNCHANGED <<socket, connection, current>>
    BY <1>3 DEF ConnectFails
  <2>2. /\ commands' \in Seq(Attempt \cup {Stop})
        /\ Fresh(commands', last, connecting)
        /\ commands' = commands \/ EndsInStop(commands')
    BY <2>1, SelfStopped
  <2>3. ServedOnce'
    BY <1>1, <2>1, <2>2, ThreadsKeepServed DEF WorkerInv, WorkerTypeOK, ServedOnce
  <2>4. WorkerTypeOK' /\ StopIsLast'
    BY <1>1, <2>1, <2>2 DEF WorkerInv, WorkerTypeOK, StopIsLast
  <2>5. WorkerOwns'
    BY <1>1, <2>1 DEF WorkerInv, WorkerTypeOK, WorkerOwns
  <2> QED
    BY <2>3, <2>4, <2>5 DEF WorkerInv
<1>4. CASE InstallStale(e)
  <2>1. /\ connecting[e] = "connected"
        /\ socket' = [socket EXCEPT ![e] = "closed"]
        /\ connecting' = [connecting EXCEPT ![e] = "over"]
        /\ UNCHANGED <<commands, connection, current>>
    BY <1>4 DEF InstallStale
  <2>2. ServedOnce'
    BY <1>1, <2>1, ThreadsKeepServed DEF WorkerInv, WorkerTypeOK, ServedOnce
  <2>3. WorkerTypeOK' /\ StopIsLast'
    BY <1>1, <2>1 DEF WorkerInv, WorkerTypeOK, StopIsLast, Life
  <2>4. WorkerOwns'
    BY <1>1, <2>1 DEF WorkerInv, WorkerTypeOK, WorkerOwns
  <2> QED
    BY <2>2, <2>3, <2>4 DEF WorkerInv
<1>5. CASE Install(e)
  <2>1. /\ connecting[e] = "connected" /\ generation = e /\ current' = e
        /\ connecting' = [connecting EXCEPT ![e] = "over"]
        /\ socket' = [f \in Attempt |-> IF f = current THEN "closed" ELSE socket[f]]
        /\ connection' = [f \in Attempt |->
                             IF f = e THEN "running"
                             ELSE IF f = current /\ connection[f] = "running"
                             THEN "stopping" ELSE connection[f]]
        /\ UNCHANGED commands
    BY <1>5 DEF Install
  <2>2. ServedOnce'
    BY <1>1, <2>1, ThreadsKeepServed DEF WorkerInv, WorkerTypeOK, ServedOnce
  <2>3. WorkerTypeOK' /\ StopIsLast'
    BY <1>1, <2>1 DEF WorkerInv, WorkerTypeOK, StopIsLast, Life
  <2>4. WorkerOwns'
    <3>1. e # None
      BY DEF Attempt, None
    <3>2. created'
      BY <1>1, <2>1, <3>1 DEF WorkerInv, WorkerOwns
    <3>3. \A f \in Attempt : socket'[f] = "open" =>
              connecting'[f] = "connected" \/ f \in {current', leaving'}
      BY <1>1, <2>1 DEF WorkerInv, WorkerTypeOK, WorkerOwns
    <3>4. \A f \in Attempt : connection'[f] = "running" => f \in {current', leaving'}
      BY <1>1, <2>1 DEF WorkerInv, WorkerTypeOK, WorkerOwns
    <3> QED
      BY <3>2, <3>3, <3>4 DEF WorkerOwns
  <2> QED
    BY <2>2, <2>3, <2>4 DEF WorkerInv
<1>6. CASE ConnectionStops(e)
  <2>1. /\ connection' = [connection EXCEPT ![e] = "none"]
        /\ UNCHANGED <<commands, connecting, current>>
    BY <1>6 DEF ConnectionStops
  <2>2. /\ socket' \in [Attempt -> Life]
        /\ \A f \in Attempt : socket'[f] = "open" => socket[f] = "open"
    BY <1>6 DEF ConnectionStops, WorkerInv, WorkerTypeOK, Life
  <2> QED
    BY <1>1, <2>1, <2>2
    DEF WorkerInv, WorkerTypeOK, ServedOnce, StopIsLast, WorkerOwns
<1>7. CASE ConnectionEnds(e)
  <2>1. /\ StopSelf(e)
        /\ connection' = [connection EXCEPT ![e] = "stopping"]
        /\ UNCHANGED <<connecting, socket, current>>
    BY <1>7 DEF ConnectionEnds
  <2>2. /\ commands' \in Seq(Attempt \cup {Stop})
        /\ Fresh(commands', last, connecting)
        /\ commands' = commands \/ EndsInStop(commands')
    BY <2>1, SelfStopped
  <2> QED
    BY <1>1, <2>1, <2>2
    DEF WorkerInv, WorkerTypeOK, ServedOnce, StopIsLast, WorkerOwns
<1> QED
  BY <1>2, <1>3, <1>4, <1>5, <1>6, <1>7 DEF Connecting

LEMMA WorkerDiesKeepsWorker == IInv /\ WorkerInv /\ WorkerDies => WorkerInv'
<1> SUFFICES ASSUME IInv, WorkerInv, WorkerDies PROVE WorkerInv'
  OBVIOUS
<1>1. last \in Nat /\ UNCHANGED <<last, caller, commands>>
  BY LinkAssumption DEF IInv, TypeOK, WorkerDies, mainVars
<1>2. /\ created' = FALSE /\ generation' = None
      /\ connecting' = [e \in Attempt |->
                           IF connecting[e] = "none" THEN "none" ELSE "over"]
      /\ socket' = [e \in Attempt |->
                       IF socket[e] = "open" THEN "closed" ELSE socket[e]]
      /\ connection' = [e \in Attempt |-> "none"]
      /\ current' = None /\ leaving' = None
  BY DEF WorkerDies
<1>3. ServedOnce'
  BY <1>1, <1>2, ThreadsKeepServed DEF WorkerInv, WorkerTypeOK, ServedOnce
<1>4. WorkerTypeOK' /\ StopIsLast'
  BY <1>1, <1>2 DEF WorkerInv, WorkerTypeOK, StopIsLast, Life
<1>5. WorkerOwns'
  BY <1>2 DEF WorkerInv, WorkerTypeOK, WorkerOwns
<1> QED
  BY <1>3, <1>4, <1>5 DEF WorkerInv

-----------------------------------------------------------------------------
(* Every step keeps an owner for an open server socket. *)

\* No claim on an entry is given up with its server socket open.
LEMMA ClaimsKeepServers ==
    ASSUME ServersAreOwned, slots' \in {slots, None}, UNCHANGED caller,
           \A f \in Attempt : /\ server'[f] = "open" => server[f] = "open"
                              /\ server'[f] = "open" /\ (slots = f \/ BeingDisposed(f))
                                    => slots' = f \/ BeingDisposed(f)'
    PROVE  ServersAreOwned'
  BY DEF ServersAreOwned

LEMMA MainKeepsServers == IInv /\ ServersAreOwned /\ Main => ServersAreOwned'
<1> SUFFICES ASSUME IInv, ServersAreOwned, Main PROVE ServersAreOwned'
  OBVIOUS
<1>1. CASE StartDevice
  <2>1. /\ slots = None /\ caller.next = "idle" /\ slots' = last'
        /\ caller' = [caller EXCEPT !.asked = "start"]
        /\ server' = [server EXCEPT ![last'] = "open"] /\ last' \in Attempt
        /\ thread' = [thread EXCEPT ![<<"accept", last'>>] = "accepting"]
        /\ last' = last + 1
    BY <1>1, LinkAssumption DEF StartDevice, IInv, TypeOK, Attempt
  <2>2. caller'.asked = "start"
    BY <2>1 DEF IInv, TypeOK
  <2>3. AcceptOf(last') = "none"
    BY <2>1, LinkAssumption DEF IInv, TypeOK, NothingAhead
  <2>4. \A f \in Attempt : BeingDisposed(f) => BeingDisposed(f)'
    BY <2>1, <2>3 DEF BeingDisposed, AcceptOf, IInv, TypeOK, Thread
  <2>5. \A f \in Attempt : server'[f] = "open" => f = last' \/ server[f] = "open"
    BY <2>1 DEF IInv, TypeOK
  <2>6. \A f \in Attempt : server[f] = "open" => BeingDisposed(f)
    BY <2>1 DEF ServersAreOwned, Attempt, None
  <2> QED
    BY <2>1, <2>2, <2>4, <2>5, <2>6 DEF ServersAreOwned
<1>2. CASE StartDeviceFails
  <2>1. /\ slots = None /\ UNCHANGED <<slots, thread>>
        /\ caller' = [caller EXCEPT !.asked = "stop"]
        /\ server' = [server EXCEPT ![last'] = "closed"]
    BY <1>2 DEF StartDeviceFails
  <2>2. \A f \in Attempt : BeingDisposed(f)' <=> BeingDisposed(f)
    BY <2>1 DEF BeingDisposed, IInv, TypeOK
  <2>3. \A f \in Attempt : server'[f] = "open" => server[f] = "open"
    BY <2>1 DEF IInv, TypeOK
  <2> QED
    BY <2>1, <2>2, <2>3 DEF ServersAreOwned
<1>3. CASE StopDevice
  <2>1. /\ UNCHANGED <<server, thread>> /\ caller.next = "idle"
        /\ caller' = [next |-> IF slots = None THEN "service" ELSE "dispose",
                      entry |-> slots, asked |-> "stop"]
        /\ slots' = None
    BY <1>3 DEF StopDevice
  <2>2. \A f \in Attempt : slots = f \/ BeingDisposed(f) => BeingDisposed(f)'
    BY <2>1 DEF BeingDisposed, None, Attempt
  <2> QED
    BY <2>1, <2>2 DEF ServersAreOwned
<1> QED
  BY <1>1, <1>2, <1>3 DEF Main

LEMMA CallerKeepsServers == IInv /\ ServersAreOwned /\ Caller => ServersAreOwned'
<1> SUFFICES ASSUME IInv, ServersAreOwned, Caller PROVE ServersAreOwned'
  OBVIOUS
<1>1. CASE CallerDisposes
  <2>1. /\ UNCHANGED <<slots, thread>>
        /\ caller' = [caller EXCEPT !.next = "service"] /\ caller.next = "dispose"
        /\ server' = [server EXCEPT ![caller.entry] = "closed"]
    BY <1>1 DEF CallerDisposes, Dispose
  <2>2. \A f \in Attempt : server'[f] = "open" => server[f] = "open" /\ f # caller.entry
    BY <2>1 DEF IInv, TypeOK
  <2>3. \A f \in Attempt : f # caller.entry /\ BeingDisposed(f) => BeingDisposed(f)'
    BY <2>1 DEF BeingDisposed
  <2>4. caller'.asked = caller.asked
    BY <2>1 DEF IInv, TypeOK
  <2> QED
    BY <2>1, <2>2, <2>3, <2>4 DEF ServersAreOwned
<1>2. CASE CallerStopsService
  <2>1. /\ UNCHANGED <<slots, thread, server>> /\ caller.next = "service"
        /\ caller' = [caller EXCEPT !.next = "idle", !.entry = None]
    BY <1>2 DEF CallerStopsService
  <2>2. \A f \in Attempt : BeingDisposed(f) => BeingDisposed(f)'
    BY <2>1 DEF BeingDisposed
  <2>3. caller'.asked = caller.asked
    BY <2>1 DEF IInv, TypeOK
  <2> QED
    BY <2>1, <2>2, <2>3 DEF ServersAreOwned
<1> QED
  BY <1>1, <1>2 DEF Caller

LEMMA ThreadsKeepServers ==
    ASSUME IInv, ServersAreOwned, NEW e \in Attempt,
           Acceptor(e) \/ AcceptFails(e) \/ ReadFirst(e) \/ Reader(e)
    PROVE  ServersAreOwned' /\ UNCHANGED <<last, caller, commands, workerVars>>
<1>1. CASE AcceptAdds(e)
  <2>1. /\ UNCHANGED <<slots, last, caller, commands, workerVars>>
        /\ server' = [server EXCEPT ![e] = "closed"]
        /\ AcceptOf(e) = "adding"
        /\ thread' = [thread EXCEPT ![<<"accept", e>>] = "over",
                                    ![<<"read", e>>] = "reading"]
    BY <1>1 DEF AcceptAdds, AcceptOf
  <2>2. \A f \in Attempt : server'[f] = "open" => f # e /\ server[f] = "open"
    BY <2>1 DEF IInv, TypeOK
  <2>3. \A f \in Attempt : f # e /\ BeingDisposed(f) => BeingDisposed(f)'
    BY <2>1 DEF BeingDisposed, IInv, TypeOK, Thread
  <2> QED
    BY <2>1, <2>2, <2>3, ClaimsKeepServers
<1>2. ASSUME NEW k \in {"accept", "read"}, Disposes(k, e)
      PROVE  ServersAreOwned' /\ UNCHANGED <<last, caller, commands, workerVars>>
  <2>1. Goes(k, e, "report") /\ UNCHANGED slots
        /\ server' = [server EXCEPT ![e] = "closed"]
    BY <1>2 DEF Disposes, Dispose
  <2>2. \A f \in Attempt : server'[f] = "open" => f # e /\ server[f] = "open"
    BY <2>1 DEF IInv, TypeOK
  <2>3. \A f \in Attempt : f # e /\ BeingDisposed(f) => BeingDisposed(f)'
    <3>1. /\ UNCHANGED caller
          /\ \A j \in {"accept", "read"}, f \in Attempt :
                j # k \/ f # e => thread'[<<j, f>>] = thread[<<j, f>>]
      BY <2>1, GoesMoves DEF IInv, ReadPc
    <3> QED
      BY <3>1 DEF BeingDisposed
  <2>4. UNCHANGED <<last, caller, commands, workerVars>>
    BY <2>1 DEF Goes
  <2> QED
    BY <2>1, <2>2, <2>3, <2>4, ClaimsKeepServers
<1>3. ASSUME NEW k \in {"accept", "read"}, Removes(k, e)
      PROVE  ServersAreOwned' /\ UNCHANGED <<last, caller, commands, workerVars>>
  <2>1. PICK q \in {"dispose", "over"} :
            /\ Goes(k, e, q)
            /\ IF slots = e THEN slots' = None /\ q = "dispose"
                            ELSE UNCHANGED slots /\ q = "over"
    BY <1>3 DEF Removes
  <2>2. thread[<<k, e>>] = "ended" /\ UNCHANGED server
    BY <1>3 DEF Removes
  <2>3. /\ thread'[<<k, e>>] = q /\ UNCHANGED <<last, caller, commands, workerVars>>
        /\ \A j \in {"accept", "read"}, f \in Attempt :
              j # k \/ f # e => thread'[<<j, f>>] = thread[<<j, f>>]
    BY <2>1, GoesMoves DEF IInv, ReadPc
  <2>4. \A f \in Attempt : slots = f \/ BeingDisposed(f)
                           => slots' = f \/ BeingDisposed(f)'
    BY <2>1, <2>2, <2>3 DEF BeingDisposed
  <2> QED
    BY <2>1, <2>2, <2>3, <2>4, ClaimsKeepServers
<1>4. ASSUME NEW k \in {"accept", "read"}, NEW pc \in AcceptPc \cup ReadPc,
             Goes(k, e, pc), thread[<<k, e>>] # "dispose", UNCHANGED <<slots, server>>
      PROVE  ServersAreOwned' /\ UNCHANGED <<last, caller, commands, workerVars>>
  <2>1. UNCHANGED <<last, caller, commands, workerVars>>
    BY <1>4 DEF Goes
  <2> QED
    BY <1>4, <2>1, MoveKeepsClaims, ClaimsKeepServers
<1>5. CASE Accepts(e) \/ AcceptFails(e) \/ AcceptChecks(e)
  BY <1>4, <1>5 DEF Accepts, AcceptFails, AcceptChecks, AcceptPc
<1>6. CASE ReadFirst(e) \/ PostConnected(e) \/ ReadEnds(e)
  BY <1>4, <1>6 DEF ReadFirst, PostConnected, ReadEnds, AtEnd, ReadPc
<1>7. ASSUME NEW k \in {"accept", "read"}, Reports(k, e)
      PROVE  ServersAreOwned' /\ UNCHANGED <<last, caller, commands, workerVars>>
  BY <1>4, <1>7 DEF Reports, AcceptPc
<1> QED
  BY <1>1, <1>2, <1>3, <1>5, <1>6, <1>7 DEF Acceptor, Reader, Runs

-----------------------------------------------------------------------------

LEMMA NextLeavesNothing == StopInv /\ [Next]_vars => StopInv'
<1> SUFFICES ASSUME StopInv, [Next]_vars PROVE StopInv'
  OBVIOUS
<1> USE DEF StopInv
<1>1. IInv'
  BY NextInvariant
<1>2. CASE Main
  BY <1>1, <1>2, MainKeepsWorker, MainKeepsServers
<1>3. CASE Caller
  BY <1>1, <1>3, CallerKeepsWorker, CallerKeepsServers
<1>4. ASSUME NEW e \in Attempt,
             Acceptor(e) \/ AcceptFails(e) \/ ReadFirst(e) \/ Reader(e)
      PROVE  StopInv'
  BY <1>1, <1>4, ThreadsKeepServers, WorkerVarsSuffice
<1>5. ASSUME UNCHANGED mainVars PROVE ServersAreOwned'
  BY <1>5 DEF mainVars, ServersAreOwned, BeingDisposed
<1>6. CASE Service
  BY <1>1, <1>5, <1>6, ServiceKeepsWorker DEF Service, StartCommand, Destroy, Release
<1>7. ASSUME NEW e \in Attempt,
             Connecting(e) \/ ConnectionEnds(e) \/ ConnectionStops(e)
      PROVE  StopInv'
  BY <1>1, <1>5, <1>7, ConnectingKeepsWorker DEF Connecting, Connects, ConnectFails,
     InstallStale, Install, ConnectionStops, ConnectionEnds
<1>8. CASE WorkerDies
  BY <1>1, <1>5, <1>8, WorkerDiesKeepsWorker DEF WorkerDies
<1>9. CASE UNCHANGED vars
  <2>1. UNCHANGED mainVars /\ UNCHANGED <<last, caller, commands, workerVars>>
    BY <1>9 DEF vars, mainVars
  <2> QED
    BY <1>1, <1>5, <2>1, WorkerVarsSuffice
<1> QED
  BY <1>2, <1>3, <1>4, <1>6, <1>7, <1>8, <1>9 DEF Next

\* A device that was stopped leaves nothing once nobody has anything to do, for
\* any number of attempts and of commands on their way: neither server, link or
\* source in the main process (MultiConnectionManager.kt), nor link, native
\* connection or service in the worker's (ConnectionWorkerService.kt).
THEOREM StopIsClean == Spec => []StopLeavesNothing
<1>1. StopInv => StopLeavesNothing
  <2> SUFFICES ASSUME StopInv, AtRest, caller.asked = "stop"
               PROVE  /\ sources = {} /\ ~created
                      /\ \A e \in Attempt :
                            /\ server[e] # "open" /\ client[e] # "open"
                            /\ socket[e] # "open" /\ connection[e] = "none"
    BY DEF StopLeavesNothing
  <2>1. \A e \in Attempt : slots # e /\ ~BeingDisposed(e)
    <3>1. slots = None
      BY DEF StopInv, ServersAreOwned
    <3>2. \A k \in {"accept", "read"}, e \in Attempt : thread[<<k, e>>] # "dispose"
      BY DEF AtRest, Thread
    <3>3. caller.next = "idle"
      BY DEF AtRest
    <3> QED
      <4>1. \A e \in Attempt : slots # e
        BY <3>1, LinkAssumption DEF Attempt, None
      <4>2. \A e \in Attempt : ~BeingDisposed(e)
        BY <3>2, <3>3 DEF BeingDisposed
      <4> QED
        BY <4>1, <4>2
  <2>2. sources = {} /\ \A e \in Attempt : server[e] # "open" /\ client[e] # "open"
    BY <2>1 DEF StopInv, IInv, TypeOK, SourcesAreOwned, ServersAreOwned
  <2>3. ~created /\ current = None /\ leaving = None
    BY DEF StopInv, WorkerInv, StopIsLast, EndsInStop, WorkerOwns, AtRest
  <2>4. \A e \in Attempt : socket[e] # "open" /\ connection[e] = "none"
    BY <2>3 DEF StopInv, WorkerInv, WorkerTypeOK, WorkerOwns, AtRest, Attempt, None
  <2> QED
    BY <2>2, <2>3, <2>4
<1>2. Init => StopInv
  BY InitInvariant, InitLeavesNothing DEF StopInv
<1> QED
  BY <1>1, <1>2, NextLeavesNothing, PTL DEF Spec

=============================================================================
