-------------------------- MODULE ConnectionProofs --------------------------
(***************************************************************************)
(* The safety invariants of the native connection (module Connection),     *)
(* proved for queues of any size.                                          *)
(*                                                                         *)
(* The argument: which threads, sockets, queues and peers there are is a   *)
(* function of how far the connection has been taken up or down (Made).    *)
(* No thread can change that, whatever it does, and every step of the      *)
(* start or of the stop, a failing one too, moves both sides alike.        *)
(***************************************************************************)
EXTENDS Connection, TLAPS

Pc == {"none", "run", "asleep", "report", "over", "offer", "flush", "woken"}

Steps == {"next", "messages", "giveUp", "decoder", "shutDown", "joinReceiver",
          "joinDecoder", "joinPing", "signal", "disconnect"} \cup ControlThreads

QueueOf(item) == [items : Seq({item}), shutdown : BOOLEAN,
                  draining : BOOLEAN, made : BOOLEAN]

\* The types that TypeOK takes for granted of a record it looks into.
Types ==
    /\ TypeOK
    /\ packetQueue \in QueueOf("packet")
    /\ asyncCallbackQueue \in QueueOf("message")
    /\ at \in Steps

\* The stage the connection has reached allows the call to be where it is.
CallInStep ==
    /\ call = "off" => stage = STAGE_NONE
    /\ call = "running" => stage = STAGE_INPUT_STREAM_START
    /\ call \in {"off", "running"} => at = "next"
    /\ call = "starting" => stage # STAGE_INPUT_STREAM_START

\* Within the start of the control stream, of the audio stream.
ControlComesUp ==
    call = "starting" /\ stage = STAGE_INPUT_STREAM_INIT /\ at \in {"messages", "giveUp"}
AudioComesUp ==
    call = "starting" /\ stage = STAGE_VIDEO_STREAM_START /\ at = "decoder"

\* Within the stop of the control stream, of the audio stream, past a step.
ControlGoesDown(done) ==
    call = "stopping" /\ stage = STAGE_CONTROL_STREAM_START /\ at \in done
AudioGoesDown(done) ==
    call = "stopping" /\ stage = STAGE_AUDIO_STREAM_START /\ at \in done

Made(t) == thread[t].pc # "none"

\* Which threads there are,
ThreadsMade ==
    /\ \A t \in Thread : ~Made(t) => thread[t] = NoThread
    /\ Made("AudioPing") <=> rtpSocket = "open"
    /\ Made("AudioRecv") <=>
          \/ AudioComesUp
          \/ stage >= STAGE_AUDIO_STREAM_START /\ ~AudioGoesDown({"joinDecoder"})
    /\ Made("AudioDec") <=> stage >= STAGE_AUDIO_STREAM_START
    /\ Made("ControlRecv") <=>
          \/ ControlComesUp
          \/ /\ stage >= STAGE_CONTROL_STREAM_START
             /\ ~ControlGoesDown({"CtrlAsyncCb", "disconnect"})
    /\ Made("LossStats") <=>
          /\ stage >= STAGE_CONTROL_STREAM_START
          /\ ~ControlGoesDown({"ReqIdrFrame", "ControlRecv", "CtrlAsyncCb",
                               "disconnect"})
    /\ Made("ReqIdrFrame") <=>
          /\ stage >= STAGE_CONTROL_STREAM_START
          /\ ~ControlGoesDown({"ControlRecv", "CtrlAsyncCb", "disconnect"})
    /\ Made("CtrlAsyncCb") <=>
          /\ stage >= STAGE_CONTROL_STREAM_START
          /\ ~ControlGoesDown({"disconnect"})

\* and which of the things they use.
ThingsMade ==
    /\ rtpSocket = "open" => stage >= STAGE_AUDIO_STREAM_INIT
    /\ packetQueue.made <=> stage >= STAGE_AUDIO_STREAM_INIT
    /\ renderer # "none" <=> AudioComesUp \/ stage >= STAGE_AUDIO_STREAM_START
    /\ controlMade <=> stage >= STAGE_CONTROL_STREAM_INIT
    /\ asyncCallbackQueue.made <=> stage >= STAGE_CONTROL_STREAM_INIT
    /\ peer # "none" <=> ControlComesUp \/ stage >= STAGE_CONTROL_STREAM_START

IInv ==
    /\ Types
    /\ CallInStep
    /\ ThreadsMade
    /\ ThingsMade
    /\ NoSleeperForgotten

-----------------------------------------------------------------------------
(* What the operations on threads do. *)

ThreadType == [Thread -> [pc : Pc, interrupted : BOOLEAN]]

\* From th to ti no thread is made or joined, and those that do not exist are
\* left alone.
SameThreads(th, ti) ==
    /\ ti \in ThreadType
    /\ \A t \in Thread : /\ th[t].pc = "none" <=> ti[t].pc = "none"
                         /\ th[t].pc = "none" => ti[t] = th[t]

\* Nobody falls asleep.
NobodySleeps(th, ti) ==
    \A t \in Thread : ti[t].pc = "asleep" => th[t].pc = "asleep"

LEMMA GoesOn ==
    ASSUME NEW th \in ThreadType, NEW t \in Thread, NEW pc \in Pc \ {"none"},
           th[t].pc # "none"
    PROVE  /\ SameThreads(th, Goes(th, t, pc))
           /\ Goes(th, t, pc)[t].pc = pc
           /\ \A u \in Thread : u # t => Goes(th, t, pc)[u] = th[u]
           /\ pc # "asleep" => NobodySleeps(th, Goes(th, t, pc))
  BY DEF Goes, ThreadType, SameThreads, NobodySleeps

LEMMA WakesOne ==
    ASSUME NEW th \in ThreadType, NEW t \in Thread
    PROVE  /\ SameThreads(th, Wakes(th, t))
           /\ Wakes(th, t)[t].pc # "asleep"
           /\ \A u \in Thread : u # t => Wakes(th, t)[u] = th[u]
           /\ NobodySleeps(th, Wakes(th, t))
  BY DEF Wakes, Goes, ThreadType, SameThreads, NobodySleeps, Pc

LEMMA InterruptMarks ==
    ASSUME NEW th \in ThreadType, NEW ts \in SUBSET Thread,
           \A t \in ts : th[t].pc # "none"
    PROVE  /\ SameThreads(th, PltInterrupt(th, ts))
           /\ \A t \in Thread : PltInterrupt(th, ts)[t].pc = th[t].pc
           /\ NobodySleeps(th, PltInterrupt(th, ts))
<1> DEFINE ti == PltInterrupt(th, ts)
<1>1. \A t \in Thread : /\ ti[t] \in [pc : Pc, interrupted : BOOLEAN]
                        /\ ti[t].pc = th[t].pc
                        /\ t \notin ts => ti[t] = th[t]
  BY DEF PltInterrupt, ThreadType
<1>2. ti \in ThreadType
  BY <1>1 DEF PltInterrupt, ThreadType
<1> QED
  BY <1>1, <1>2 DEF SameThreads, NobodySleeps

LEMMA CreateMakes ==
    ASSUME NEW th \in ThreadType, NEW t \in Thread
    PROVE  /\ PltCreate(th, t) \in ThreadType
           /\ PltCreate(th, t)[t].pc = "run"
           /\ \A u \in Thread : u # t => PltCreate(th, t)[u] = th[u]
  BY DEF PltCreate, ThreadType, NoThread, Pc

LEMMA JoinForgets ==
    ASSUME NEW th \in ThreadType, NEW t \in Thread
    PROVE  /\ PltJoin(th, t) \in ThreadType
           /\ PltJoin(th, t)[t] = NoThread
           /\ \A u \in Thread : u # t => PltJoin(th, t)[u] = th[u]
  BY DEF PltJoin, ThreadType, NoThread, Pc

\* The record of a thread that does not exist.
LEMMA NoThreadIs == NoThread = [pc |-> "none", interrupted |-> FALSE]
  BY DEF NoThread

\* Where a thread is after a report, and that it was there before.
LEMMA TerminatedMoves ==
    ASSUME thread \in ThreadType, NEW t \in Thread, Made(t), ConnectionTerminated(t)
    PROVE  SameThreads(thread, thread') /\ NobodySleeps(thread, thread') /\ UNCHANGED shared
<1>1. PICK pc \in {"run", "over", "report"} : thread' = Goes(thread, t, pc)
  BY DEF ConnectionTerminated, AfterReport
<1> QED
  BY <1>1, GoesOn DEF ConnectionTerminated, Made, Pc

LEMMA CallbackMoves ==
    ASSUME thread \in ThreadType, NEW t \in Thread, IssueCallback(t)
    PROVE  /\ SameThreads(thread, thread') /\ NobodySleeps(thread, thread')
           /\ alreadyTerminated' = TRUE /\ reported' = TRUE
           /\ UNCHANGED ConnectionInterrupted
<1>1. PICK pc \in {"run", "over"} : thread' = Goes(thread, t, pc)
  BY DEF IssueCallback, AfterReport
<1> QED
  BY <1>1, GoesOn DEF IssueCallback, At, Pc

LEMMA EndMoves ==
    ASSUME thread \in ThreadType, NEW t \in Thread, Ends(t)
    PROVE  SameThreads(thread, thread') /\ NobodySleeps(thread, thread') /\ UNCHANGED shared
  BY GoesOn DEF Ends, At, Pc

-----------------------------------------------------------------------------
(* What the operations on queues do. *)

LEMMA OfferedIs ==
    ASSUME NEW item, NEW q \in QueueOf(item), NEW bound \in Nat,
           Len(q.items) <= bound, OfferFits(q, bound)
    PROVE  /\ Offered(q, item) \in QueueOf(item)
           /\ Len(Offered(q, item).items) <= bound
           /\ Offered(q, item).made = q.made
<1> DEFINE more == Append(q.items, item)
<1>1. q.items \in Seq({item}) /\ Len(q.items) \in Nat /\ Len(q.items) # bound
  BY DEF QueueOf, OfferFits
<1>2. more \in Seq({item}) /\ Len(more) = Len(q.items) + 1
  BY <1>1
<1>3. more \in Seq({item}) /\ Len(more) <= bound
  BY <1>1, <1>2
<1> HIDE DEF more
<1>4. Offered(q, item) = [q EXCEPT !.items = more]
  BY DEF Offered, more
<1>5. Offered(q, item).items = more /\ Offered(q, item).made = q.made
  BY <1>4 DEF QueueOf
<1>6. Offered(q, item) \in QueueOf(item)
  BY <1>3, <1>4 DEF QueueOf
<1> QED
  BY <1>3, <1>5, <1>6

LEMMA TakenIs ==
    ASSUME NEW item, NEW q \in QueueOf(item), NEW bound \in Nat,
           Len(q.items) <= bound, NEW n \in 1 .. Len(q.items)
    PROVE  /\ Taken(q, n) \in QueueOf(item)
           /\ Len(Taken(q, n).items) <= bound
           /\ Taken(q, n).made = q.made
<1> DEFINE rest == SubSeq(q.items, n + 1, Len(q.items))
<1>1. q.items \in Seq({item}) /\ Len(q.items) \in Nat
  BY DEF QueueOf
<1>2. rest \in Seq({item}) /\ Len(rest) <= Len(q.items)
  BY <1>1
<1>3. Len(rest) \in Nat
  BY <1>2
<1> HIDE DEF rest
<1>4. Taken(q, n) = [q EXCEPT !.items = rest]
  BY DEF Taken, rest
<1> QED
  BY <1>1, <1>2, <1>3, <1>4 DEF QueueOf

LEMMA OtherQueueOperations ==
    ASSUME NEW item, NEW q \in QueueOf(item)
    PROVE  /\ LbqFlush(q) \in QueueOf(item) /\ LbqFlush(q).items = <<>>
           /\ LbqFlush(q).made = q.made
           /\ LbqSignalShutdown(q) \in QueueOf(item)
           /\ LbqSignalShutdown(q).items = q.items /\ LbqSignalShutdown(q).made = q.made
           /\ LbqSignalDrain(q) \in QueueOf(item)
           /\ LbqSignalDrain(q).items = q.items /\ LbqSignalDrain(q).made = q.made
           /\ LbqInitialize \in QueueOf(item) /\ LbqInitialize.items = <<>>
           /\ LbqInitialize.made
           /\ LbqDestroy(q) \in QueueOf(item) /\ LbqDestroy(q).items = <<>>
           /\ ~LbqDestroy(q).made
<1>1. <<>> \in Seq({item}) /\ NoQueue \in QueueOf(item)
  BY DEF QueueOf, NoQueue
<1>2. /\ LbqFlush(q) \in QueueOf(item) /\ LbqFlush(q).items = <<>>
      /\ LbqFlush(q).made = q.made
  BY <1>1 DEF QueueOf, LbqFlush
<1>3. /\ LbqSignalShutdown(q) \in QueueOf(item)
      /\ LbqSignalShutdown(q).items = q.items /\ LbqSignalShutdown(q).made = q.made
  BY DEF QueueOf, LbqSignalShutdown
<1>4. /\ LbqSignalDrain(q) \in QueueOf(item)
      /\ LbqSignalDrain(q).items = q.items /\ LbqSignalDrain(q).made = q.made
  BY DEF QueueOf, LbqSignalDrain
<1>5. /\ LbqInitialize \in QueueOf(item) /\ LbqInitialize.items = <<>>
      /\ LbqInitialize.made
  BY <1>1 DEF QueueOf, LbqInitialize, NoQueue
<1>6. /\ LbqDestroy(q) \in QueueOf(item) /\ LbqDestroy(q).items = <<>>
      /\ ~LbqDestroy(q).made
  BY <1>1 DEF LbqDestroy, NoQueue
<1> QED
  BY <1>2, <1>3, <1>4, <1>5, <1>6

LEMMA EmptyIsShort == Len(<<>>) = 0
  OBVIOUS

-----------------------------------------------------------------------------
(* Steps of the threads and of the environment. *)

things == <<rtpSocket, renderer, packetQueue.made, asyncCallbackQueue.made,
            controlMade>>

\* What neither makes nor joins a thread keeps the correspondence.
LEMMA StaysMade ==
    ASSUME IInv, SameThreads(thread, thread'), UNCHANGED callerVars,
           UNCHANGED things, peer' = "none" <=> peer = "none"
    PROVE  CallInStep' /\ ThreadsMade' /\ ThingsMade'
<1>1. UNCHANGED <<stage, call, at>>
  BY DEF callerVars
<1>2. CallInStep'
  BY <1>1 DEF IInv, CallInStep
<1>3. \A t \in Thread : Made(t)' <=> Made(t)
  BY DEF SameThreads, Made
<1>4. {"AudioPing", "AudioRecv", "AudioDec", "ControlRecv", "LossStats",
       "ReqIdrFrame", "CtrlAsyncCb"} = Thread
  BY DEF Thread
<1>5. ThreadsMade'
  <2>1. \A t \in Thread : ~Made(t)' => thread'[t] = NoThread
    BY <1>3 DEF IInv, ThreadsMade, SameThreads, Made
  <2> QED
    BY <1>1, <1>3, <1>4, <2>1 DEF IInv, ThreadsMade, things, AudioComesUp, AudioGoesDown,
           ControlComesUp, ControlGoesDown
<1>6. ThingsMade'
  BY <1>1 DEF IInv, ThingsMade, things, AudioComesUp, ControlComesUp
<1> QED
  BY <1>2, <1>5, <1>6

LEMMA StaysAwake ==
    ASSUME NoSleeperForgotten, NobodySleeps(thread, thread'),
           UNCHANGED <<packetQueue, asyncCallbackQueue>>
    PROVE  NoSleeperForgotten'
  BY DEF NoSleeperForgotten, NobodySleeps, At, Thread

\* What a thread does that touches no queue.
LEMMA QuietStepKeeps ==
    ASSUME IInv, SameThreads(thread, thread'), NobodySleeps(thread, thread'),
           UNCHANGED <<audioVars, asyncCallbackQueue, stopping, controlMade, callerVars>>,
           <<ConnectionInterrupted', alreadyTerminated', reported'>> \in
               BOOLEAN \X BOOLEAN \X BOOLEAN,
           idrFrameRequired' \in BOOLEAN,
           peer' = peer \/ (peer = "connected" /\ peer' = "dead")
    PROVE  IInv'
<1>1. CallInStep' /\ ThreadsMade' /\ ThingsMade'
  BY StaysMade DEF audioVars, things
<1>2. NoSleeperForgotten'
  BY StaysAwake DEF IInv, audioVars
<1>3. thread' \in ThreadType
  BY DEF SameThreads
<1>4. Types'
  BY <1>3 DEF IInv, Types, TypeOK, ThreadType, Pc, audioVars, callerVars
<1> QED
  BY <1>1, <1>2, <1>4 DEF IInv

LEMMA IInvThreads == IInv => thread \in ThreadType
  BY DEF IInv, Types, TypeOK, ThreadType, Pc

LEMMA IInvFlags ==
    IInv => /\ <<ConnectionInterrupted, alreadyTerminated, reported>> \in
                   BOOLEAN \X BOOLEAN \X BOOLEAN
            /\ idrFrameRequired \in BOOLEAN
  BY DEF IInv, Types, TypeOK

\* A step of a thread that touches no queue and no flag of the client's.
LEMMA ThreadStepKeeps ==
    ASSUME IInv, SameThreads(thread, thread'), NobodySleeps(thread, thread'),
           UNCHANGED <<shared, audioVars, controlVars, callerVars>>
    PROVE  IInv'
  BY QuietStepKeeps, IInvFlags DEF shared, controlVars

LEMMA CallbackKeeps ==
    ASSUME IInv, NEW t \in Thread, IssueCallback(t),
           UNCHANGED <<audioVars, controlVars, callerVars>>
    PROVE  IInv'
<1>1. /\ SameThreads(thread, thread') /\ NobodySleeps(thread, thread')
      /\ alreadyTerminated' = TRUE /\ reported' = TRUE
      /\ UNCHANGED ConnectionInterrupted
  BY CallbackMoves, IInvThreads
<1> QED
  BY <1>1, QuietStepKeeps, IInvFlags DEF controlVars

LEMMA PingKeeps == IInv /\ Ping => IInv'
<1> SUFFICES ASSUME IInv, Ping PROVE IInv'
  OBVIOUS
<1>1. Ends("AudioPing") /\ UNCHANGED <<audioVars, controlVars, callerVars>>
  BY DEF Ping, AudioPingEnds
<1>2. SameThreads(thread, thread') /\ NobodySleeps(thread, thread') /\ UNCHANGED shared
  BY <1>1, EndMoves, IInvThreads DEF Thread
<1> QED
  BY <1>1, <1>2, ThreadStepKeeps

-----------------------------------------------------------------------------
(* The threads of the audio stream. *)

LEMMA ReceiverKeeps == IInv /\ (Receiver \/ (ReceiveFails /\ UNCHANGED <<controlVars, callerVars>>)) => IInv'
<1> SUFFICES ASSUME IInv, Receiver \/ (ReceiveFails /\ UNCHANGED <<controlVars, callerVars>>)
             PROVE  IInv'
  OBVIOUS
<1>1. UNCHANGED <<controlVars, callerVars>> /\ thread \in ThreadType
  BY IInvThreads DEF Receiver
<1>2. CASE AudioReceiveEnds
  <2>1. SameThreads(thread, thread') /\ NobodySleeps(thread, thread') /\ UNCHANGED shared
    BY <1>1, <1>2, EndMoves DEF AudioReceiveEnds, Thread
  <2> QED
    BY <1>1, <1>2, <2>1, ThreadStepKeeps DEF AudioReceiveEnds
<1>3. CASE ReceiveFails
  <2>1. Made("AudioRecv") /\ ConnectionTerminated("AudioRecv") /\ UNCHANGED audioVars
    BY <1>3 DEF ReceiveFails, At, Made
  <2>2. SameThreads(thread, thread') /\ NobodySleeps(thread, thread') /\ UNCHANGED shared
    BY <1>1, <2>1, TerminatedMoves DEF Thread
  <2> QED
    BY <1>1, <2>1, <2>2, ThreadStepKeeps
<1>4. CASE ReceivePacket \/ OfferOverflows \/ OfferRefused
  <2>1. /\ UNCHANGED <<shared, audioVars>> /\ thread["AudioRecv"].pc # "none"
        /\ \E pc \in {"offer", "flush", "over"} : thread' = Goes(thread, "AudioRecv", pc)
    BY <1>4 DEF ReceivePacket, OfferOverflows, OfferRefused, At
  <2>2. PICK pc \in {"offer", "flush", "over"} : thread' = Goes(thread, "AudioRecv", pc)
    BY <2>1
  <2>3. SameThreads(thread, thread') /\ NobodySleeps(thread, thread')
    BY <1>1, <2>1, <2>2, GoesOn DEF Thread, Pc
  <2> QED
    BY <1>1, <2>1, <2>3, ThreadStepKeeps
<1>5. CASE OfferPacket
  <2> DEFINE woken == IF OfferSignals(packetQueue) THEN Wakes(thread, "AudioDec") ELSE thread
  <2>1. /\ packetQueue' = Offered(packetQueue, "packet")
        /\ OfferFits(packetQueue, QueueBound)
        /\ UNCHANGED <<shared, rtpSocket, renderer>> /\ thread["AudioRecv"].pc # "none"
        /\ thread' \in {Goes(woken, "AudioRecv", "run"), woken}
    BY <1>5 DEF OfferPacket, At
  <2>2. SameThreads(thread, woken) /\ NobodySleeps(thread, woken)
    BY <1>1, WakesOne DEF SameThreads, NobodySleeps, Thread
  <2>3. woken["AudioDec"].pc # "asleep"
    <3>1. CASE OfferSignals(packetQueue)
      BY <1>1, <3>1, WakesOne DEF Thread
    <3>2. CASE ~OfferSignals(packetQueue)
      BY <3>2 DEF IInv, NoSleeperForgotten, OfferSignals, WaitBlocks, WaitTakes,
             WaitInterrupted, At
    <3> QED
      BY <3>1, <3>2
  <2>4. woken["AudioRecv"].pc # "none"
    BY <2>1, <2>2 DEF SameThreads, Thread
  <2> HIDE DEF woken
  <2>5. SameThreads(woken, thread') /\ NobodySleeps(woken, thread')
    <3>1. woken \in ThreadType
      BY <2>2 DEF SameThreads
    <3>2. CASE thread' = woken
      BY <3>1, <3>2 DEF SameThreads, NobodySleeps
    <3>3. CASE thread' = Goes(woken, "AudioRecv", "run")
      BY <2>4, <3>1, <3>3, GoesOn DEF Thread, Pc
    <3> QED
      BY <2>1, <3>2, <3>3
  <2>6. SameThreads(thread, thread') /\ NobodySleeps(thread, thread')
    BY <2>2, <2>5 DEF SameThreads, NobodySleeps
  <2>7. thread'["AudioDec"].pc # "asleep"
    BY <2>3, <2>5 DEF NobodySleeps, Thread
  <2>8. /\ packetQueue' \in QueueOf("packet") /\ Len(packetQueue'.items) <= QueueBound
        /\ packetQueue'.made = packetQueue.made
    BY <2>1, OfferedIs, QueueBoundAssumption DEF IInv, Types, TypeOK
  <2>9. Types'
    BY <1>1, <2>1, <2>6, <2>8
       DEF IInv, Types, TypeOK, SameThreads, ThreadType, Pc, controlVars, callerVars, shared
  <2>10. CallInStep' /\ ThreadsMade' /\ ThingsMade'
    BY <1>1, <2>1, <2>6, <2>8, StaysMade DEF things, controlVars
  <2>11. NoSleeperForgotten'
    BY <1>1, <2>6, <2>7 DEF IInv, NoSleeperForgotten, NobodySleeps, At, Thread, controlVars
  <2> QED
    BY <2>9, <2>10, <2>11 DEF IInv
<1>6. CASE FlushPackets
  <2>1. /\ packetQueue' = LbqFlush(packetQueue)
        /\ UNCHANGED <<shared, rtpSocket, renderer>> /\ thread["AudioRecv"].pc # "none"
        /\ thread' = Goes(thread, "AudioRecv", "offer")
    BY <1>6 DEF FlushPackets, At
  <2>2. SameThreads(thread, thread') /\ NobodySleeps(thread, thread')
    BY <1>1, <2>1, GoesOn DEF Thread, Pc
  <2>3. /\ packetQueue' \in QueueOf("packet") /\ Len(packetQueue'.items) <= QueueBound
        /\ packetQueue'.made = packetQueue.made
    BY <2>1, OtherQueueOperations, EmptyIsShort, QueueBoundAssumption DEF IInv, Types
  <2>4. Types'
    BY <1>1, <2>1, <2>2, <2>3
       DEF IInv, Types, TypeOK, SameThreads, ThreadType, Pc, controlVars, callerVars, shared
  <2>5. CallInStep' /\ ThreadsMade' /\ ThingsMade'
    BY <1>1, <2>1, <2>2, <2>3, StaysMade DEF things, controlVars
  <2>6. WaitBlocks(packetQueue) => WaitBlocks(packetQueue)'
    BY <2>1 DEF LbqFlush, WaitBlocks, WaitTakes, WaitInterrupted, IInv, Types, QueueOf
  <2>7. NoSleeperForgotten'
    BY <1>1, <2>2, <2>6 DEF IInv, NoSleeperForgotten, NobodySleeps, At, Thread, controlVars
  <2> QED
    BY <2>4, <2>5, <2>7 DEF IInv
<1>7. CASE IssueCallback("AudioRecv") /\ UNCHANGED audioVars
  BY <1>1, <1>7, CallbackKeeps DEF Thread
<1> QED
  BY <1>2, <1>3, <1>4, <1>5, <1>6, <1>7 DEF Receiver, ReceiveStep

LEMMA DecoderKeeps == IInv /\ Decoder => IInv'
<1> SUFFICES ASSUME IInv, Decoder PROVE IInv'
  OBVIOUS
<1>1. UNCHANGED <<controlVars, callerVars>> /\ thread \in ThreadType
  BY IInvThreads DEF Decoder
<1>2. CASE DecoderEnds
  <2>1. SameThreads(thread, thread') /\ NobodySleeps(thread, thread')
    BY <1>1, <1>2, GoesOn DEF DecoderEnds, At, Thread, Pc
  <2> QED
    BY <1>1, <1>2, <2>1, ThreadStepKeeps DEF DecoderEnds
<1>3. CASE DecoderSleeps
  <2>1. /\ thread' = Goes(thread, "AudioDec", "asleep") /\ thread["AudioDec"].pc # "none"
        /\ WaitBlocks(packetQueue) /\ UNCHANGED <<shared, audioVars>>
    BY <1>3 DEF DecoderSleeps, At
  <2>2. /\ SameThreads(thread, thread')
        /\ \A t \in Thread : t # "AudioDec" => thread'[t] = thread[t]
    BY <1>1, <2>1, GoesOn DEF Thread, Pc
  <2>3. Types'
    BY <1>1, <2>1, <2>2
       DEF IInv, Types, TypeOK, SameThreads, ThreadType, Pc, audioVars, controlVars,
           callerVars, shared
  <2>4. CallInStep' /\ ThreadsMade' /\ ThingsMade'
    BY <1>1, <2>1, <2>2, StaysMade DEF things, controlVars, audioVars
  <2>5. NoSleeperForgotten'
    BY <1>1, <2>1, <2>2 DEF IInv, NoSleeperForgotten, At, Thread, controlVars, audioVars
  <2> QED
    BY <2>3, <2>4, <2>5 DEF IInv
<1>4. CASE DecoderTakes
  <2>1. /\ packetQueue' = Taken(packetQueue, 1) /\ At("AudioDec", "run")
        /\ packetQueue.items # <<>>
        /\ UNCHANGED <<thread, shared, rtpSocket, renderer>>
    BY <1>4 DEF DecoderTakes, WaitTakes
  <2>2. /\ packetQueue' \in QueueOf("packet") /\ Len(packetQueue'.items) <= QueueBound
        /\ packetQueue'.made = packetQueue.made
    <3>1. 1 \in 1 .. Len(packetQueue.items)
      BY <2>1 DEF IInv, Types, QueueOf
    <3> QED
      BY <2>1, <3>1, TakenIs, QueueBoundAssumption DEF IInv, Types, TypeOK
  <2>3. SameThreads(thread, thread') /\ NobodySleeps(thread, thread')
    BY <1>1, <2>1 DEF SameThreads, NobodySleeps
  <2>4. Types'
    BY <1>1, <2>1, <2>2 DEF IInv, Types, TypeOK, controlVars, callerVars, shared
  <2>5. CallInStep' /\ ThreadsMade' /\ ThingsMade'
    BY <1>1, <2>1, <2>2, <2>3, StaysMade DEF things, controlVars
  <2>6. NoSleeperForgotten'
    BY <1>1, <2>1 DEF IInv, NoSleeperForgotten, At, controlVars
  <2> QED
    BY <2>4, <2>5, <2>6 DEF IInv
<1> QED
  BY <1>2, <1>3, <1>4 DEF Decoder, DecodeStep

-----------------------------------------------------------------------------
(* The threads of the control stream. *)

LEMMA ControlInKeeps == IInv /\ ControlIn => IInv'
<1> SUFFICES ASSUME IInv, ControlIn PROVE IInv'
  OBVIOUS
<1>1. UNCHANGED <<audioVars, callerVars>> /\ thread \in ThreadType
  BY IInvThreads DEF ControlIn
<1>2. CASE ControlReceiveEnds
  <2>1. SameThreads(thread, thread') /\ NobodySleeps(thread, thread') /\ UNCHANGED shared
    BY <1>1, <1>2, EndMoves DEF ControlReceiveEnds, Thread
  <2> QED
    BY <1>1, <1>2, <2>1, ThreadStepKeeps DEF ControlReceiveEnds
<1>3. CASE ControlFails
  <2>1. SameThreads(thread, thread') /\ NobodySleeps(thread, thread') /\ UNCHANGED shared
    BY <1>1, <1>3, TerminatedMoves DEF ControlFails, Polls, At, Made, Thread
  <2> QED
    BY <1>1, <1>3, <2>1, ThreadStepKeeps DEF ControlFails
<1>4. CASE IssueCallback("ControlRecv") /\ UNCHANGED controlVars
  BY <1>1, <1>4, CallbackKeeps DEF Thread
<1> QED
  BY <1>2, <1>3, <1>4 DEF ControlIn, ControlReceiveStep

LEMMA LossStatsKeeps == IInv /\ LossStats => IInv'
<1> SUFFICES ASSUME IInv, LossStats PROVE IInv'
  OBVIOUS
<1>1. UNCHANGED <<audioVars, callerVars>> /\ thread \in ThreadType
  BY IInvThreads DEF LossStats
<1>2. CASE LossStatsEnds
  <2>1. SameThreads(thread, thread') /\ NobodySleeps(thread, thread') /\ UNCHANGED shared
    BY <1>1, <1>2, EndMoves DEF LossStatsEnds, Thread
  <2> QED
    BY <1>1, <1>2, <2>1, ThreadStepKeeps DEF LossStatsEnds
<1>3. CASE LossStatsFails
  <2>1. SameThreads(thread, thread') /\ NobodySleeps(thread, thread') /\ UNCHANGED shared
    BY <1>1, <1>3, TerminatedMoves DEF LossStatsFails, At, Made, Thread
  <2> QED
    BY <1>1, <1>3, <2>1, ThreadStepKeeps DEF LossStatsFails
<1>4. CASE IssueCallback("LossStats") /\ UNCHANGED controlVars
  BY <1>1, <1>4, CallbackKeeps DEF Thread
<1> QED
  BY <1>2, <1>3, <1>4 DEF LossStats, LossStatsStep

LEMMA IdrFramesKeeps == IInv /\ IdrFrames => IInv'
<1> SUFFICES ASSUME IInv, IdrFrames PROVE IInv'
  OBVIOUS
<1>1. UNCHANGED <<audioVars, callerVars>> /\ thread \in ThreadType
  BY IInvThreads DEF IdrFrames
<1>2. CASE IdrWakes
  <2>1. SameThreads(thread, thread') /\ NobodySleeps(thread, thread')
    BY <1>1, <1>2, GoesOn DEF IdrWakes, At, Thread, Pc
  <2> QED
    BY <1>1, <1>2, <2>1, QuietStepKeeps, IInvFlags DEF IdrWakes, shared
<1>3. CASE IdrStops
  <2>1. SameThreads(thread, thread') /\ NobodySleeps(thread, thread')
    BY <1>1, <1>3, GoesOn DEF IdrStops, At, Thread, Pc
  <2> QED
    BY <1>1, <1>3, <2>1, ThreadStepKeeps DEF IdrStops
<1>4. CASE IdrSends
  <2>1. Made("ReqIdrFrame") /\ UNCHANGED controlVars
    BY <1>4 DEF IdrSends, At, Made
  <2>2. CASE peer = "connected"
    <3>1. PICK pc \in {"run", "over"} : thread' = Goes(thread, "ReqIdrFrame", pc)
      BY <1>4, <2>2 DEF IdrSends, AfterReport
    <3>2. SameThreads(thread, thread') /\ NobodySleeps(thread, thread')
      BY <1>1, <2>1, <3>1, GoesOn DEF Made, Thread, Pc
    <3> QED
      BY <1>1, <1>4, <2>1, <2>2, <3>2, ThreadStepKeeps DEF IdrSends
  <2>3. CASE peer # "connected"
    <3>1. SameThreads(thread, thread') /\ NobodySleeps(thread, thread') /\ UNCHANGED shared
      BY <1>1, <1>4, <2>1, <2>3, TerminatedMoves DEF IdrSends, Thread
    <3> QED
      BY <1>1, <2>1, <3>1, ThreadStepKeeps
  <2> QED
    BY <2>2, <2>3
<1>5. CASE IssueCallback("ReqIdrFrame") /\ UNCHANGED controlVars
  BY <1>1, <1>5, CallbackKeeps DEF Thread
<1> QED
  BY <1>2, <1>3, <1>4, <1>5 DEF IdrFrames, IdrStep

LEMMA AsyncCallsKeep == IInv /\ AsyncCalls => IInv'
<1> SUFFICES ASSUME IInv, AsyncCalls PROVE IInv'
  OBVIOUS
<1>1. UNCHANGED <<audioVars, callerVars>> /\ thread \in ThreadType
  BY IInvThreads DEF AsyncCalls
<1>2. CASE AsyncEnds
  <2>1. SameThreads(thread, thread') /\ NobodySleeps(thread, thread')
    BY <1>1, <1>2, GoesOn DEF AsyncEnds, At, Thread, Pc
  <2> QED
    BY <1>1, <1>2, <2>1, ThreadStepKeeps DEF AsyncEnds
<1>3. CASE AsyncSleeps
  <2>1. /\ thread' = Goes(thread, "CtrlAsyncCb", "asleep")
        /\ thread["CtrlAsyncCb"].pc # "none"
        /\ WaitBlocks(asyncCallbackQueue) /\ UNCHANGED <<shared, controlVars>>
    BY <1>3 DEF AsyncSleeps, At
  <2>2. /\ SameThreads(thread, thread')
        /\ \A t \in Thread : t # "CtrlAsyncCb" => thread'[t] = thread[t]
    BY <1>1, <2>1, GoesOn DEF Thread, Pc
  <2>3. Types'
    BY <1>1, <2>1, <2>2
       DEF IInv, Types, TypeOK, SameThreads, ThreadType, Pc, audioVars, controlVars,
           callerVars, shared
  <2>4. CallInStep' /\ ThreadsMade' /\ ThingsMade'
    BY <1>1, <2>1, <2>2, StaysMade DEF things, controlVars, audioVars
  <2>5. NoSleeperForgotten'
    BY <1>1, <2>1, <2>2 DEF IInv, NoSleeperForgotten, At, Thread, controlVars, audioVars
  <2> QED
    BY <2>3, <2>4, <2>5 DEF IInv
<1>4. CASE AsyncTakes
  <2>1. PICK n \in 1 .. Len(asyncCallbackQueue.items) :
           asyncCallbackQueue' = Taken(asyncCallbackQueue, n)
    BY <1>4 DEF AsyncTakes
  <2>2. /\ At("CtrlAsyncCb", "run")
        /\ UNCHANGED <<thread, shared, peer, idrFrameRequired, stopping, controlMade>>
    BY <1>4 DEF AsyncTakes
  <2>3. /\ asyncCallbackQueue' \in QueueOf("message")
        /\ Len(asyncCallbackQueue'.items) <= AsyncBound
        /\ asyncCallbackQueue'.made = asyncCallbackQueue.made
    BY <2>1, TakenIs, AsyncBoundAssumption DEF IInv, Types, TypeOK
  <2>4. SameThreads(thread, thread') /\ NobodySleeps(thread, thread')
    BY <1>1, <2>2 DEF SameThreads, NobodySleeps
  <2>5. Types'
    BY <1>1, <2>2, <2>3 DEF IInv, Types, TypeOK, audioVars, callerVars, shared
  <2>6. CallInStep' /\ ThreadsMade' /\ ThingsMade'
    BY <1>1, <2>2, <2>3, <2>4, StaysMade DEF things, audioVars
  <2>7. NoSleeperForgotten'
    BY <1>1, <2>2 DEF IInv, NoSleeperForgotten, At, audioVars
  <2> QED
    BY <2>5, <2>6, <2>7 DEF IInv
<1> QED
  BY <1>2, <1>3, <1>4 DEF AsyncCalls, AsyncStep

-----------------------------------------------------------------------------
(* The client, the host and the video threads. *)

LEMMA MessageKeeps ==
    ASSUME IInv, AsyncMessage, UNCHANGED <<audioVars, callerVars>>
    PROVE  IInv'
<1>1. /\ asyncCallbackQueue' = Offered(asyncCallbackQueue, "message")
      /\ OfferFits(asyncCallbackQueue, AsyncBound)
      /\ UNCHANGED <<shared, peer, idrFrameRequired, stopping, controlMade>>
      /\ thread' = IF OfferSignals(asyncCallbackQueue)
                   THEN Wakes(thread, "CtrlAsyncCb") ELSE thread
      /\ thread \in ThreadType
  BY IInvThreads DEF AsyncMessage
<1>2. SameThreads(thread, thread') /\ NobodySleeps(thread, thread')
  BY <1>1, WakesOne DEF SameThreads, NobodySleeps, Thread
<1>3. thread'["CtrlAsyncCb"].pc # "asleep"
  <2>1. CASE OfferSignals(asyncCallbackQueue)
    BY <1>1, <2>1, WakesOne DEF Thread
  <2>2. CASE ~OfferSignals(asyncCallbackQueue)
    BY <1>1, <2>2 DEF IInv, NoSleeperForgotten, OfferSignals, WaitBlocks, WaitTakes,
           WaitInterrupted, At
  <2> QED
    BY <2>1, <2>2
<1>4. /\ asyncCallbackQueue' \in QueueOf("message")
      /\ Len(asyncCallbackQueue'.items) <= AsyncBound
      /\ asyncCallbackQueue'.made = asyncCallbackQueue.made
  BY <1>1, OfferedIs, AsyncBoundAssumption DEF IInv, Types, TypeOK
<1>5. Types'
  BY <1>1, <1>2, <1>4
     DEF IInv, Types, TypeOK, SameThreads, ThreadType, Pc, audioVars, callerVars, shared
<1>6. CallInStep' /\ ThreadsMade' /\ ThingsMade'
  BY <1>1, <1>2, <1>4, StaysMade DEF things, audioVars
<1>7. NoSleeperForgotten'
  BY <1>2, <1>3 DEF IInv, NoSleeperForgotten, NobodySleeps, At, Thread, audioVars
<1> QED
  BY <1>5, <1>6, <1>7 DEF IInv

LEMMA HostKeeps ==
    ASSUME IInv, PeerDies \/ TerminationMessage, UNCHANGED <<audioVars, callerVars>>
    PROVE  IInv'
<1>1. thread \in ThreadType
  BY IInvThreads
<1>2. CASE PeerDies
  <2>1. SameThreads(thread, thread') /\ NobodySleeps(thread, thread')
    BY <1>1, <1>2 DEF PeerDies, SameThreads, NobodySleeps
  <2> QED
    BY <1>2, <2>1, QuietStepKeeps, IInvFlags DEF PeerDies, shared
<1>3. CASE TerminationMessage
  <2>1. SameThreads(thread, thread') /\ NobodySleeps(thread, thread') /\ UNCHANGED shared
    BY <1>1, <1>3, TerminatedMoves DEF TerminationMessage, Polls, At, Made, Thread
  <2> QED
    BY <1>3, <2>1, QuietStepKeeps, IInvFlags DEF TerminationMessage, shared
<1> QED
  BY <1>2, <1>3

LEMMA StandsStill ==
    ASSUME thread \in ThreadType, UNCHANGED thread
    PROVE  SameThreads(thread, thread') /\ NobodySleeps(thread, thread')
  BY DEF SameThreads, NobodySleeps

LEMMA ClientStopsKeeps == IInv /\ ClientStops => IInv'
<1> SUFFICES ASSUME IInv, ClientStops PROVE IInv'
  OBVIOUS
<1>1. /\ call = "running" /\ call' = "stopping" /\ at' = "next"
      /\ alreadyTerminated' = TRUE /\ ConnectionInterrupted' = TRUE
      /\ reported' = FALSE
      /\ UNCHANGED <<stage, thread, audioVars, controlVars>>
  BY DEF ClientStops, EnterStop
<1>2. stage = STAGE_INPUT_STREAM_START
  BY <1>1 DEF IInv, CallInStep
<1>3. Types'
  BY <1>1 DEF IInv, Types, TypeOK, audioVars, controlVars, Steps
<1>4. CallInStep' /\ NoSleeperForgotten'
  BY <1>1 DEF IInv, CallInStep, NoSleeperForgotten, At, audioVars, controlVars
<1>5. ThreadsMade' /\ ThingsMade'
  BY <1>1, <1>2 DEF IInv, ThreadsMade, ThingsMade, Made, AudioComesUp, AudioGoesDown,
         ControlComesUp, ControlGoesDown, audioVars, controlVars
<1> QED
  BY <1>3, <1>4, <1>5 DEF IInv

LEMMA EnvironmentKeeps == IInv /\ Environment => IInv'
<1> SUFFICES ASSUME IInv, Environment PROVE IInv'
  OBVIOUS
<1>1. CASE LiInterruptConnection
  <2>1. SameThreads(thread, thread') /\ NobodySleeps(thread, thread')
    BY <1>1, StandsStill, IInvThreads DEF LiInterruptConnection
  <2> QED
    BY <1>1, <2>1, QuietStepKeeps, IInvFlags DEF LiInterruptConnection, controlVars
<1>2. CASE ClientStops
  BY <1>2, ClientStopsKeeps
<1>3. CASE VideoAsks
  <2>1. SameThreads(thread, thread') /\ NobodySleeps(thread, thread')
    BY <1>3, StandsStill, IInvThreads DEF VideoAsks, LiRequestIdrFrame
  <2> QED
    BY <1>3, <2>1, QuietStepKeeps, IInvFlags DEF VideoAsks, LiRequestIdrFrame, shared
<1>4. CASE (PeerDies \/ AsyncMessage \/ TerminationMessage) /\ UNCHANGED <<audioVars, callerVars>>
  BY <1>4, MessageKeeps, HostKeeps
<1>5. CASE ReceiveFails /\ UNCHANGED <<controlVars, callerVars>>
  BY <1>5, ReceiverKeeps
<1> QED
  BY <1>1, <1>2, <1>3, <1>4, <1>5 DEF Environment

-----------------------------------------------------------------------------
(* The steps of a start. *)

\* A step between stages makes nothing.
LEMMA PlainStepKeeps ==
    ASSUME IInv, NEW s \in 0 .. 11,
           UNCHANGED <<thread, audioVars, controlVars>>,
           <<ConnectionInterrupted', alreadyTerminated', reported'>> \in
               BOOLEAN \X BOOLEAN \X BOOLEAN,
           at = "next", at' = "next", stage' = s,
           call' \in {"off", "starting", "running", "stopping"}, CallInStep',
           \A n \in {STAGE_AUDIO_STREAM_INIT, STAGE_CONTROL_STREAM_INIT,
                     STAGE_CONTROL_STREAM_START, STAGE_AUDIO_STREAM_START} :
               s >= n <=> stage >= n
    PROVE  IInv'
<1>1. Types'
  BY DEF IInv, Types, TypeOK, audioVars, controlVars, STAGE_NONE, STAGE_INPUT_STREAM_START
<1>2. NoSleeperForgotten'
  BY DEF IInv, NoSleeperForgotten, At, audioVars, controlVars
<1>3. ThreadsMade' /\ ThingsMade'
  BY DEF IInv, ThreadsMade, ThingsMade, Made, AudioComesUp, AudioGoesDown, ControlThreads,
         ControlComesUp, ControlGoesDown, audioVars, controlVars
<1> QED
  BY <1>1, <1>2, <1>3 DEF IInv

LEMMA PlainStartKeeps ==
    ASSUME IInv,
           \/ Begin \/ Started
           \/ \E s \in PlainStages : PlainStageUp(s) \/ PlainStageFails(s)
    PROVE  IInv'
<1> USE DEF STAGE_NONE, STAGE_PLATFORM_INIT, STAGE_NAME_RESOLUTION,
            STAGE_AUDIO_STREAM_INIT, STAGE_RTSP_HANDSHAKE,
            STAGE_CONTROL_STREAM_INIT, STAGE_VIDEO_STREAM_INIT,
            STAGE_INPUT_STREAM_INIT, STAGE_CONTROL_STREAM_START,
            STAGE_VIDEO_STREAM_START, STAGE_AUDIO_STREAM_START,
            STAGE_INPUT_STREAM_START
<1>1. stage \in 0 .. 11
  BY DEF IInv, Types, TypeOK
<1>2. CASE Begin
  <2>1. /\ stage' = 0 /\ stage = 0 /\ at = "next" /\ at' = "next"
        /\ call' = "starting" /\ ~alreadyTerminated' /\ ~ConnectionInterrupted' /\ ~reported'
        /\ alreadyTerminated' \in BOOLEAN /\ ConnectionInterrupted' \in BOOLEAN
        /\ reported' \in BOOLEAN
        /\ UNCHANGED <<thread, audioVars, controlVars>>
    BY <1>2 DEF Begin, Here
  <2>2. CallInStep'
    BY <2>1 DEF CallInStep
  <2> QED
    BY <2>1, <2>2, PlainStepKeeps
<1>3. CASE Started
  <2>1. /\ stage' = 11 /\ stage = 10 /\ at = "next" /\ at' = "next"
        /\ call' = "running" /\ UNCHANGED shared
        /\ UNCHANGED <<thread, audioVars, controlVars>>
    BY <1>3 DEF Started, Starting, Here
  <2>2. CallInStep'
    BY <2>1 DEF CallInStep
  <2> QED
    BY <2>1, <2>2, PlainStepKeeps, IInvFlags DEF shared
<1>4. ASSUME NEW s \in PlainStages, PlainStageUp(s) PROVE IInv'
  <2>1. /\ stage' = s /\ stage = s - 1 /\ at = "next" /\ at' = "next"
        /\ call' = call /\ call = "starting" /\ s # 11 /\ UNCHANGED shared
        /\ UNCHANGED <<thread, audioVars, controlVars>>
    BY <1>4 DEF PlainStageUp, Starting, Here, Reached
  <2>2. s \in {1, 2, 6, 7, 9}
    BY <2>1, <1>4 DEF PlainStages
  <2>3. CallInStep'
    BY <2>1 DEF CallInStep
  <2>4. \A n \in {3, 5, 8, 10} : s >= n <=> stage >= n
    BY <2>1, <2>2
  <2> QED
    BY <2>1, <2>2, <2>3, <2>4, PlainStepKeeps, IInvFlags DEF shared
<1>5. ASSUME NEW s \in PlainStages, PlainStageFails(s) PROVE IInv'
  <2>1. /\ stage' = stage /\ at = "next" /\ at' = "next"
        /\ call' = "stopping" /\ alreadyTerminated' = TRUE
        /\ ConnectionInterrupted' = TRUE /\ reported' = FALSE
        /\ UNCHANGED <<thread, audioVars, controlVars>>
    BY <1>5 DEF PlainStageFails, Starting, Here, EnterStop
  <2>2. CallInStep'
    BY <2>1 DEF CallInStep
  <2> QED
    BY <1>1, <2>1, <2>2, PlainStepKeeps
<1> QED
  BY <1>2, <1>3, <1>4, <1>5

LEMMA AudioInitKeeps == IInv /\ AudioInitStage => IInv'
<1> SUFFICES ASSUME IInv, AudioInitStage PROVE IInv'
  OBVIOUS
<1> USE DEF STAGE_NONE, STAGE_AUDIO_STREAM_INIT, STAGE_CONTROL_STREAM_INIT,
            STAGE_INPUT_STREAM_INIT, STAGE_CONTROL_STREAM_START,
            STAGE_VIDEO_STREAM_START, STAGE_AUDIO_STREAM_START,
            STAGE_INPUT_STREAM_START
<1>1. /\ call = "starting" /\ stage = 2 /\ at = "next"
      /\ call' = call /\ stage' = 3 /\ at' = at
      /\ packetQueue' = LbqInitialize
      /\ UNCHANGED <<shared, thread, rtpSocket, renderer, controlVars>>
  BY DEF AudioInitStage, Starting, Here, Reached, initializeAudioStream
<1>2. /\ packetQueue' \in QueueOf("packet") /\ Len(packetQueue'.items) <= QueueBound
      /\ packetQueue'.made
  BY <1>1, OtherQueueOperations, EmptyIsShort, QueueBoundAssumption DEF IInv, Types
<1>3. Types'
  BY <1>1, <1>2 DEF IInv, Types, TypeOK, shared, controlVars
<1>4. CallInStep' /\ ThreadsMade' /\ ThingsMade'
  BY <1>1, <1>2 DEF IInv, CallInStep, ThreadsMade, ThingsMade, Made, AudioComesUp,
         AudioGoesDown, ControlComesUp, ControlGoesDown, controlVars
<1>5. NoSleeperForgotten'
  BY <1>1, <1>4 DEF IInv, NoSleeperForgotten, ThreadsMade, Made, At, controlVars
<1> QED
  BY <1>3, <1>4, <1>5 DEF IInv

LEMMA RtspKeeps == IInv /\ RtspStage => IInv'
<1> SUFFICES ASSUME IInv, RtspStage PROVE IInv'
  OBVIOUS
<1> USE DEF STAGE_NONE, STAGE_AUDIO_STREAM_INIT, STAGE_RTSP_HANDSHAKE,
            STAGE_CONTROL_STREAM_INIT,
            STAGE_INPUT_STREAM_INIT, STAGE_CONTROL_STREAM_START,
            STAGE_VIDEO_STREAM_START, STAGE_AUDIO_STREAM_START,
            STAGE_INPUT_STREAM_START
<1>1. /\ call = "starting" /\ stage = 3 /\ at = "next" /\ at' = "next"
      /\ call' \in {"starting", "stopping"} /\ stage' \in {3, 4}
      /\ UNCHANGED <<packetQueue, renderer, controlVars>>
      /\ \/ UNCHANGED shared
         \/ alreadyTerminated' = TRUE /\ ConnectionInterrupted' = TRUE /\ reported' = FALSE
  BY DEF RtspStage, Starting, Here, Reached, EnterStop, NotifyAudioPort, audioVars
<1>flags. <<ConnectionInterrupted', alreadyTerminated', reported'>> \in
          BOOLEAN \X BOOLEAN \X BOOLEAN
  BY <1>1, IInvFlags DEF shared
<1>2. \/ rtpSocket' = "open" /\ thread' = PltCreate(thread, "AudioPing")
      \/ UNCHANGED <<thread, rtpSocket>>
  BY DEF RtspStage, NotifyAudioPort, audioVars
<1>3. /\ thread' \in ThreadType
      /\ \A t \in Thread : t # "AudioPing" => thread'[t] = thread[t]
      /\ \/ rtpSocket' = "open" /\ thread'["AudioPing"].pc = "run"
         \/ UNCHANGED <<thread, rtpSocket>>
  BY <1>2, CreateMakes, IInvThreads DEF Thread
<1>4. Types'
  BY <1>1, <1>flags, <1>3 DEF IInv, Types, TypeOK, ThreadType, Pc, controlVars
<1>5. CallInStep' /\ ThreadsMade' /\ ThingsMade'
  BY <1>1, <1>3 DEF IInv, CallInStep, ThreadsMade, ThingsMade, Made, AudioComesUp,
         AudioGoesDown, ControlComesUp, ControlGoesDown, controlVars, Thread
<1>6. NoSleeperForgotten'
  BY <1>1, <1>3 DEF IInv, NoSleeperForgotten, At, controlVars, Thread
<1> QED
  BY <1>4, <1>5, <1>6 DEF IInv

LEMMA ControlInitKeeps == IInv /\ ControlInitStage => IInv'
<1> SUFFICES ASSUME IInv, ControlInitStage PROVE IInv'
  OBVIOUS
<1> USE DEF STAGE_NONE, STAGE_AUDIO_STREAM_INIT, STAGE_CONTROL_STREAM_INIT,
            STAGE_INPUT_STREAM_INIT, STAGE_CONTROL_STREAM_START,
            STAGE_VIDEO_STREAM_START, STAGE_AUDIO_STREAM_START,
            STAGE_INPUT_STREAM_START
<1>1. /\ call = "starting" /\ stage = 4 /\ at = "next"
      /\ call' = call /\ stage' = 5 /\ at' = at
      /\ asyncCallbackQueue' = LbqInitialize
      /\ stopping' = FALSE /\ idrFrameRequired' = FALSE /\ controlMade' = TRUE
      /\ UNCHANGED <<shared, thread, peer, audioVars>>
  BY DEF ControlInitStage, Starting, Here, Reached, initializeControlStream
<1>2. /\ asyncCallbackQueue' \in QueueOf("message")
      /\ Len(asyncCallbackQueue'.items) <= AsyncBound
      /\ asyncCallbackQueue'.made
  BY <1>1, OtherQueueOperations, EmptyIsShort, AsyncBoundAssumption DEF IInv, Types
<1>flags. <<idrFrameRequired', stopping', controlMade'>> \in BOOLEAN \X BOOLEAN \X BOOLEAN
  BY <1>1
<1>3. Types'
  BY <1>1, <1>flags, <1>2 DEF IInv, Types, TypeOK, shared, audioVars
<1>4. CallInStep' /\ ThreadsMade' /\ ThingsMade'
  BY <1>1, <1>2 DEF IInv, CallInStep, ThreadsMade, ThingsMade, Made, AudioComesUp,
         AudioGoesDown, ControlComesUp, ControlGoesDown, audioVars
<1>5. NoSleeperForgotten'
  BY <1>1, <1>4 DEF IInv, NoSleeperForgotten, ThreadsMade, Made, At, audioVars
<1> QED
  BY <1>3, <1>4, <1>5 DEF IInv

LEMMA ControlConnectsKeeps == IInv /\ ControlConnects => IInv'
<1> SUFFICES ASSUME IInv, ControlConnects PROVE IInv'
  OBVIOUS
<1> USE DEF STAGE_NONE, STAGE_AUDIO_STREAM_INIT, STAGE_CONTROL_STREAM_INIT,
            STAGE_INPUT_STREAM_INIT, STAGE_CONTROL_STREAM_START,
            STAGE_VIDEO_STREAM_START, STAGE_AUDIO_STREAM_START,
            STAGE_INPUT_STREAM_START
<1>1. /\ call = "starting" /\ stage = 7 /\ at = "next" /\ stage' = 7
      /\ UNCHANGED <<asyncCallbackQueue, idrFrameRequired, controlMade, audioVars>>
      /\ stopping' = stopping \/ stopping' = TRUE
      /\ \/ UNCHANGED shared
         \/ alreadyTerminated' = TRUE /\ ConnectionInterrupted' = TRUE /\ reported' = FALSE
  BY DEF ControlConnects, Starting, Here, Going, EnterStop, ConnectPeer, ConnectPeerFails
<1>flags. /\ <<ConnectionInterrupted', alreadyTerminated', reported'>> \in
             BOOLEAN \X BOOLEAN \X BOOLEAN
      /\ <<idrFrameRequired', stopping', controlMade'>> \in
             BOOLEAN \X BOOLEAN \X BOOLEAN
  BY <1>1, IInvFlags DEF shared, IInv, Types, TypeOK
<1>2. \/ /\ peer' = "connected" /\ thread' = PltCreate(thread, "ControlRecv")
         /\ call' = "starting" /\ at' = "messages"
      \/ UNCHANGED <<thread, peer>> /\ call' = "stopping" /\ at' = "next"
  BY <1>1 DEF ControlConnects, Going, EnterStop, ConnectPeer, ConnectPeerFails
<1>3. /\ thread' \in ThreadType
      /\ \A t \in Thread : t # "ControlRecv" => thread'[t] = thread[t]
      /\ \/ /\ peer' = "connected" /\ thread'["ControlRecv"].pc = "run"
            /\ call' = "starting" /\ at' = "messages"
         \/ UNCHANGED <<thread, peer>> /\ call' = "stopping" /\ at' = "next"
  BY <1>2, CreateMakes, IInvThreads DEF Thread
<1>4. Types'
  BY <1>1, <1>flags, <1>3 DEF IInv, Types, TypeOK, ThreadType, Pc, audioVars, Steps
<1>5. CallInStep' /\ ThreadsMade' /\ ThingsMade'
  BY <1>1, <1>3 DEF IInv, CallInStep, ThreadsMade, ThingsMade, Made, AudioComesUp,
         AudioGoesDown, ControlComesUp, ControlGoesDown, audioVars, Thread
<1>6. NoSleeperForgotten'
  BY <1>1, <1>3 DEF IInv, NoSleeperForgotten, At, audioVars, Thread
<1> QED
  BY <1>4, <1>5, <1>6 DEF IInv

LEMMA ControlStartsKeeps == IInv /\ ControlStarts => IInv'
<1> SUFFICES ASSUME IInv, ControlStarts PROVE IInv'
  OBVIOUS
<1> USE DEF STAGE_NONE, STAGE_AUDIO_STREAM_INIT, STAGE_RTSP_HANDSHAKE,
            STAGE_NAME_RESOLUTION, STAGE_CONTROL_STREAM_INIT,
            STAGE_INPUT_STREAM_INIT, STAGE_CONTROL_STREAM_START,
            STAGE_VIDEO_STREAM_START, STAGE_AUDIO_STREAM_START,
            STAGE_INPUT_STREAM_START
<1>1. /\ call = "starting" /\ stage = 7 /\ at = "messages"
      /\ thread \in ThreadType
      /\ UNCHANGED <<call, audioVars>>
  BY IInvThreads DEF ControlStarts, Here, Reached, Going
<1>2. CASE StartThreads /\ Reached(STAGE_CONTROL_STREAM_START)
  <2>1. /\ stage' = 8 /\ at' = "next" /\ UNCHANGED <<shared, controlVars>>
        /\ thread' = PltCreate(PltCreate(PltCreate(thread,
                         "LossStats"), "ReqIdrFrame"), "CtrlAsyncCb")
    BY <1>2 DEF StartThreads, Reached
  <2>2. /\ thread' \in ThreadType
        /\ \A t \in {"LossStats", "ReqIdrFrame", "CtrlAsyncCb"} : thread'[t].pc = "run"
        /\ \A t \in Thread \ {"LossStats", "ReqIdrFrame", "CtrlAsyncCb"} :
              thread'[t] = thread[t]
    <3> DEFINE th1 == PltCreate(thread, "LossStats")
    <3> DEFINE th2 == PltCreate(th1, "ReqIdrFrame")
    <3>1. /\ th1 \in ThreadType /\ th1["LossStats"].pc = "run"
          /\ \A u \in Thread : u # "LossStats" => th1[u] = thread[u]
      BY <1>1, CreateMakes DEF Thread
    <3> HIDE DEF th1
    <3>2. /\ th2 \in ThreadType /\ th2["ReqIdrFrame"].pc = "run"
          /\ \A u \in Thread : u # "ReqIdrFrame" => th2[u] = th1[u]
      BY <3>1, CreateMakes DEF Thread
    <3> HIDE DEF th2
    <3>3. thread' = PltCreate(th2, "CtrlAsyncCb")
      BY <2>1 DEF th1, th2
    <3>4. /\ thread' \in ThreadType /\ thread'["CtrlAsyncCb"].pc = "run"
          /\ \A u \in Thread : u # "CtrlAsyncCb" => thread'[u] = th2[u]
      BY <3>2, <3>3, CreateMakes DEF Thread
    <3> QED
      BY <3>1, <3>2, <3>4 DEF Thread
  <2>3. Types'
    BY <1>1, <2>1, <2>2
       DEF IInv, Types, TypeOK, ThreadType, Pc, shared, audioVars, controlVars, Steps
  <2>4. CallInStep' /\ ThreadsMade' /\ ThingsMade'
    BY <1>1, <2>1, <2>2 DEF IInv, CallInStep, ThreadsMade, ThingsMade, Made, AudioComesUp,
         AudioGoesDown, ControlComesUp, ControlGoesDown, audioVars, controlVars, Thread
  <2>5. NoSleeperForgotten'
    BY <1>1, <2>1, <2>2 DEF IInv, NoSleeperForgotten, At, audioVars, controlVars, Thread
  <2> QED
    BY <2>3, <2>4, <2>5 DEF IInv
<1>3. CASE StartMessageFails /\ Going("giveUp")
  <2>1. /\ at' = "giveUp" /\ stage' = 7
        /\ stopping' = TRUE /\ ConnectionInterrupted' = TRUE
        /\ thread' = PltInterrupt(thread, {"ControlRecv"})
        /\ UNCHANGED <<alreadyTerminated, reported, peer, asyncCallbackQueue,
                       idrFrameRequired, controlMade>>
    BY <1>1, <1>3 DEF StartMessageFails, Going
  <2>2. thread["ControlRecv"].pc # "none"
    BY <1>1 DEF IInv, ThreadsMade, Made, ControlComesUp
  <2>3. /\ SameThreads(thread, thread') /\ NobodySleeps(thread, thread')
        /\ thread' \in ThreadType
    BY <1>1, <2>1, <2>2, InterruptMarks DEF Thread, SameThreads
  <2>4. Types'
    BY <1>1, <2>1, <2>3 DEF IInv, Types, TypeOK, ThreadType, Pc, audioVars, Steps
  <2>5. \A t \in Thread : Made(t)' <=> Made(t)
    BY <2>3 DEF SameThreads, Made
  <2>6. \A t \in Thread : ~Made(t)' => thread'[t] = NoThread
    BY <2>3, <2>5 DEF IInv, ThreadsMade, SameThreads, Made
  <2>7. CallInStep' /\ ThreadsMade' /\ ThingsMade'
    BY <1>1, <2>1, <2>5, <2>6 DEF IInv, CallInStep, ThreadsMade, ThingsMade, AudioComesUp,
       AudioGoesDown, ControlComesUp, ControlGoesDown, audioVars, Thread
  <2>8. NoSleeperForgotten'
    BY <1>1, <2>1, <2>3, StaysAwake DEF IInv, audioVars
  <2> QED
    BY <2>4, <2>7, <2>8 DEF IInv
<1> QED
  BY <1>2, <1>3 DEF ControlStarts

LEMMA ControlGivesUpKeeps == IInv /\ ControlGivesUp => IInv'
<1> SUFFICES ASSUME IInv, ControlGivesUp PROVE IInv'
  OBVIOUS
<1> USE DEF STAGE_NONE, STAGE_AUDIO_STREAM_INIT, STAGE_RTSP_HANDSHAKE,
            STAGE_NAME_RESOLUTION, STAGE_CONTROL_STREAM_INIT,
            STAGE_INPUT_STREAM_INIT, STAGE_CONTROL_STREAM_START,
            STAGE_VIDEO_STREAM_START, STAGE_AUDIO_STREAM_START,
            STAGE_INPUT_STREAM_START
<1>1. /\ call = "starting" /\ stage = 7 /\ at = "giveUp"
      /\ call' = "stopping" /\ stage' = stage /\ at' = "next"
      /\ alreadyTerminated' = TRUE /\ ConnectionInterrupted' = TRUE /\ reported' = FALSE
      /\ peer' = "none" /\ thread' = PltJoin(thread, "ControlRecv")
      /\ UNCHANGED <<audioVars, asyncCallbackQueue, idrFrameRequired,
                     stopping, controlMade>>
  BY DEF ControlGivesUp, Here, EnterStop
<1>2. /\ thread' \in ThreadType /\ thread'["ControlRecv"] = NoThread
      /\ \A t \in Thread : t # "ControlRecv" => thread'[t] = thread[t]
  BY <1>1, JoinForgets, IInvThreads DEF Thread
<1>3. Types'
  BY <1>1, <1>2 DEF IInv, Types, TypeOK, ThreadType, Pc, audioVars, Steps
<1>4. CallInStep' /\ ThreadsMade' /\ ThingsMade'
  BY <1>1, <1>2, NoThreadIs DEF IInv, CallInStep, ThreadsMade, ThingsMade, Made, AudioComesUp,
         AudioGoesDown, ControlComesUp, ControlGoesDown, audioVars, Thread
<1>5. NoSleeperForgotten'
  BY <1>1, <1>2 DEF IInv, NoSleeperForgotten, At, audioVars, Thread
<1> QED
  BY <1>3, <1>4, <1>5 DEF IInv

LEMMA AudioStartsKeeps == IInv /\ AudioStarts => IInv'
<1> SUFFICES ASSUME IInv, AudioStarts PROVE IInv'
  OBVIOUS
<1> USE DEF STAGE_NONE, STAGE_AUDIO_STREAM_INIT, STAGE_RTSP_HANDSHAKE,
            STAGE_NAME_RESOLUTION, STAGE_CONTROL_STREAM_INIT,
            STAGE_INPUT_STREAM_INIT, STAGE_CONTROL_STREAM_START,
            STAGE_VIDEO_STREAM_START, STAGE_AUDIO_STREAM_START,
            STAGE_INPUT_STREAM_START
<1>1. /\ call = "starting" /\ stage = 9 /\ at = "next" /\ stage' = 9
      /\ UNCHANGED <<rtpSocket, packetQueue, controlVars>>
      /\ \/ /\ renderer' = "started" /\ thread' = PltCreate(thread, "AudioRecv")
            /\ call' = "starting" /\ at' = "decoder" /\ UNCHANGED shared
         \/ /\ UNCHANGED <<thread, renderer>> /\ call' = "stopping" /\ at' = "next"
            /\ alreadyTerminated' = TRUE /\ ConnectionInterrupted' = TRUE
            /\ reported' = FALSE
  BY DEF AudioStarts, Starting, Here, Going, EnterStop, StartRenderer, audioVars
<1>flags. <<ConnectionInterrupted', alreadyTerminated', reported'>> \in
              BOOLEAN \X BOOLEAN \X BOOLEAN
  BY <1>1, IInvFlags DEF shared
<1>2. /\ thread' \in ThreadType
      /\ \A t \in Thread : t # "AudioRecv" => thread'[t] = thread[t]
      /\ \/ /\ renderer' = "started" /\ thread'["AudioRecv"].pc = "run"
            /\ call' = "starting" /\ at' = "decoder"
         \/ UNCHANGED <<thread, renderer>> /\ call' = "stopping" /\ at' = "next"
  BY <1>1, CreateMakes, IInvThreads DEF Thread
<1>3. Types'
  BY <1>1, <1>flags, <1>2 DEF IInv, Types, TypeOK, ThreadType, Pc, controlVars, Steps
<1>4. CallInStep' /\ ThreadsMade' /\ ThingsMade'
  BY <1>1, <1>2 DEF IInv, CallInStep, ThreadsMade, ThingsMade, Made, AudioComesUp,
         AudioGoesDown, ControlComesUp, ControlGoesDown, controlVars, Thread
<1>5. NoSleeperForgotten'
  BY <1>1, <1>2 DEF IInv, NoSleeperForgotten, At, controlVars, Thread
<1> QED
  BY <1>3, <1>4, <1>5 DEF IInv

LEMMA AudioStartedKeeps == IInv /\ AudioStarted => IInv'
<1> SUFFICES ASSUME IInv, AudioStarted PROVE IInv'
  OBVIOUS
<1> USE DEF STAGE_NONE, STAGE_AUDIO_STREAM_INIT, STAGE_RTSP_HANDSHAKE,
            STAGE_NAME_RESOLUTION, STAGE_CONTROL_STREAM_INIT,
            STAGE_INPUT_STREAM_INIT, STAGE_CONTROL_STREAM_START,
            STAGE_VIDEO_STREAM_START, STAGE_AUDIO_STREAM_START,
            STAGE_INPUT_STREAM_START
<1>1. /\ call = "starting" /\ stage = 9 /\ at = "decoder"
      /\ call' = call /\ stage' = 10 /\ at' = "next"
      /\ thread' = PltCreate(thread, "AudioDec")
      /\ UNCHANGED <<shared, audioVars, controlVars>>
  BY DEF AudioStarted, Here, Reached, StartDecoder
<1>2. /\ thread' \in ThreadType /\ thread'["AudioDec"].pc = "run"
      /\ \A t \in Thread : t # "AudioDec" => thread'[t] = thread[t]
  BY <1>1, CreateMakes, IInvThreads DEF Thread
<1>3. Types'
  BY <1>1, <1>2 DEF IInv, Types, TypeOK, ThreadType, Pc, shared, audioVars, controlVars, Steps
<1>4. CallInStep' /\ ThreadsMade' /\ ThingsMade'
  BY <1>1, <1>2 DEF IInv, CallInStep, ThreadsMade, ThingsMade, Made, AudioComesUp,
         AudioGoesDown, ControlComesUp, ControlGoesDown, audioVars, controlVars, Thread
<1>5. NoSleeperForgotten'
  BY <1>1, <1>2 DEF IInv, NoSleeperForgotten, At, audioVars, controlVars, Thread
<1> QED
  BY <1>3, <1>4, <1>5 DEF IInv

LEMMA StartKeeps == IInv /\ Start => IInv'
  BY PlainStartKeeps, AudioInitKeeps, RtspKeeps, ControlInitKeeps, ControlConnectsKeeps,
     ControlStartsKeeps, ControlGivesUpKeeps, AudioStartsKeeps, AudioStartedKeeps
     DEF Start

-----------------------------------------------------------------------------
(* The steps of a stop. *)

LEMMA PlainStopKeeps ==
    ASSUME IInv,
           Stopped \/ \E s \in PlainStages \cup {STAGE_RTSP_HANDSHAKE} : PlainStageDown(s)
    PROVE  IInv'
<1> USE DEF STAGE_NONE, STAGE_AUDIO_STREAM_INIT, STAGE_RTSP_HANDSHAKE,
            STAGE_NAME_RESOLUTION, STAGE_CONTROL_STREAM_INIT,
            STAGE_INPUT_STREAM_INIT, STAGE_CONTROL_STREAM_START,
            STAGE_VIDEO_STREAM_START, STAGE_AUDIO_STREAM_START,
            STAGE_INPUT_STREAM_START
<1> USE DEF STAGE_PLATFORM_INIT, STAGE_VIDEO_STREAM_INIT, STAGE_INPUT_STREAM_INIT
<1>1. CASE Stopped
  <2>1. /\ stage' = 0 /\ stage = 0 /\ at = "next" /\ at' = "next" /\ call' = "off"
        /\ UNCHANGED <<shared, thread, audioVars, controlVars>>
    BY <1>1 DEF Stopped, Stopping, Here
  <2>2. CallInStep'
    BY <2>1 DEF CallInStep
  <2> QED
    BY <2>1, <2>2, PlainStepKeeps, IInvFlags DEF shared
<1>2. ASSUME NEW s \in PlainStages \cup {STAGE_RTSP_HANDSHAKE}, PlainStageDown(s)
      PROVE  IInv'
  <2>1. /\ stage' = s - 1 /\ stage = s /\ at = "next" /\ at' = "next"
        /\ call = "stopping" /\ call' = call
        /\ UNCHANGED <<shared, thread, audioVars, controlVars>>
    BY <1>2 DEF PlainStageDown, Stopping, Here, Reached
  <2>2. s \in {1, 2, 4, 6, 7, 9, 11} /\ s - 1 \in 0 .. 11
    BY DEF PlainStages
  <2>3. CallInStep'
    BY <2>1 DEF CallInStep
  <2>4. \A n \in {3, 5, 8, 10} : s - 1 >= n <=> stage >= n
    BY <2>1, <2>2
  <2> QED
    BY <2>1, <2>2, <2>3, <2>4, PlainStepKeeps, IInvFlags DEF shared
<1> QED
  BY <1>1, <1>2

LEMMA AudioStopKeeps == IInv /\ AudioStopStage => IInv'
<1> SUFFICES ASSUME IInv, AudioStopStage PROVE IInv'
  OBVIOUS
<1> USE DEF STAGE_NONE, STAGE_AUDIO_STREAM_INIT, STAGE_RTSP_HANDSHAKE,
            STAGE_NAME_RESOLUTION, STAGE_CONTROL_STREAM_INIT,
            STAGE_INPUT_STREAM_INIT, STAGE_CONTROL_STREAM_START,
            STAGE_VIDEO_STREAM_START, STAGE_AUDIO_STREAM_START,
            STAGE_INPUT_STREAM_START
<1>1. /\ call = "stopping" /\ stage = 10 /\ call' = call
      /\ thread \in ThreadType /\ UNCHANGED controlVars
  BY IInvThreads DEF AudioStopStage, Going, Reached
<1>2. /\ Made("AudioDec") /\ (at # "joinDecoder" => Made("AudioRecv"))
  BY <1>1 DEF IInv, ThreadsMade, AudioGoesDown
<1>3. CASE at = "next" /\ StopRenderer /\ Going("shutDown")
  <2>1. /\ at' = "shutDown" /\ stage' = 10 /\ renderer' = "stopped"
        /\ thread' = PltInterrupt(thread, {"AudioRecv"})
        /\ UNCHANGED <<shared, rtpSocket, packetQueue>>
    BY <1>1, <1>3 DEF StopRenderer, Going
  <2>2. /\ SameThreads(thread, thread') /\ NobodySleeps(thread, thread')
        /\ thread' \in ThreadType
    BY <1>1, <1>2, <1>3, <2>1, InterruptMarks DEF Thread, SameThreads, Made
  <2>3. Types'
    BY <1>1, <2>1, <2>2 DEF IInv, Types, TypeOK, ThreadType, Pc, shared, controlVars, Steps
  <2>4. \A t \in Thread : /\ Made(t)' <=> Made(t)
                          /\ ~Made(t)' => thread'[t] = NoThread
    BY <2>2 DEF IInv, ThreadsMade, SameThreads, Made
  <2>5. CallInStep' /\ ThreadsMade' /\ ThingsMade'
    BY <1>1, <1>3, <2>1, <2>4 DEF IInv, CallInStep, ThreadsMade, ThingsMade, AudioComesUp,
       AudioGoesDown, ControlComesUp, ControlGoesDown, controlVars, Thread
  <2>6. NoSleeperForgotten'
    BY <1>1, <2>1, <2>2, StaysAwake DEF IInv, controlVars
  <2> QED
    BY <2>3, <2>5, <2>6 DEF IInv
<1>4. CASE at = "shutDown" /\ ShutDownQueue /\ Going("joinReceiver")
  <2> DEFINE woken == Wakes(thread, "AudioDec")
  <2>1. /\ at' = "joinReceiver" /\ stage' = 10
        /\ packetQueue' = LbqSignalShutdown(packetQueue)
        /\ thread' = PltInterrupt(woken, {"AudioDec"})
        /\ UNCHANGED <<shared, rtpSocket, renderer>>
    BY <1>1, <1>4 DEF ShutDownQueue, Going
  <2>2. /\ SameThreads(thread, woken) /\ NobodySleeps(thread, woken)
        /\ woken["AudioDec"].pc # "asleep" /\ woken \in ThreadType
    BY <1>1, WakesOne DEF Thread, SameThreads
  <2>3. woken["AudioDec"].pc # "none"
    BY <1>2, <2>2 DEF SameThreads, Made, Thread
  <2> HIDE DEF woken
  <2>4. /\ SameThreads(woken, thread') /\ NobodySleeps(woken, thread')
        /\ thread'["AudioDec"].pc = woken["AudioDec"].pc
    BY <2>1, <2>2, <2>3, InterruptMarks DEF Thread
  <2>5. /\ SameThreads(thread, thread') /\ NobodySleeps(thread, thread')
        /\ thread'["AudioDec"].pc # "asleep" /\ thread' \in ThreadType
    BY <2>2, <2>4 DEF SameThreads, NobodySleeps
  <2>6. /\ packetQueue' \in QueueOf("packet") /\ Len(packetQueue'.items) <= QueueBound
        /\ packetQueue'.made = packetQueue.made
    BY <2>1, OtherQueueOperations DEF IInv, Types, TypeOK
  <2>7. Types'
    BY <1>1, <2>1, <2>5, <2>6
       DEF IInv, Types, TypeOK, ThreadType, Pc, shared, controlVars, Steps
  <2>8. \A t \in Thread : /\ Made(t)' <=> Made(t)
                          /\ ~Made(t)' => thread'[t] = NoThread
    BY <2>5 DEF IInv, ThreadsMade, SameThreads, Made
  <2>9. CallInStep' /\ ThreadsMade' /\ ThingsMade'
    BY <1>1, <1>4, <2>1, <2>6, <2>8 DEF IInv, CallInStep, ThreadsMade, ThingsMade, AudioComesUp,
       AudioGoesDown, ControlComesUp, ControlGoesDown, controlVars, Thread
  <2>10. NoSleeperForgotten'
    BY <1>1, <2>5 DEF IInv, NoSleeperForgotten, NobodySleeps, At, Thread, controlVars
  <2> QED
    BY <2>7, <2>9, <2>10 DEF IInv
<1>5. CASE at = "joinReceiver" /\ JoinReceiver /\ Going("joinDecoder")
  <2>1. /\ at' = "joinDecoder" /\ stage' = 10
        /\ thread' = PltJoin(thread, "AudioRecv") /\ UNCHANGED <<shared, audioVars>>
    BY <1>1, <1>5 DEF JoinReceiver, Going
  <2>2. /\ thread' \in ThreadType /\ thread'["AudioRecv"] = NoThread
        /\ \A t \in Thread : t # "AudioRecv" => thread'[t] = thread[t]
    BY <1>1, <2>1, JoinForgets DEF Thread
  <2>3. Types'
    BY <1>1, <2>1, <2>2
       DEF IInv, Types, TypeOK, ThreadType, Pc, shared, audioVars, controlVars, Steps
  <2>4. CallInStep' /\ ThreadsMade' /\ ThingsMade'
    BY <1>1, <1>5, <2>1, <2>2, NoThreadIs DEF IInv, CallInStep, ThreadsMade, ThingsMade, Made, AudioComesUp,
           AudioGoesDown, ControlComesUp, ControlGoesDown, audioVars, controlVars, Thread
  <2>5. NoSleeperForgotten'
    BY <1>1, <2>1, <2>2 DEF IInv, NoSleeperForgotten, At, audioVars, controlVars, Thread
  <2> QED
    BY <2>3, <2>4, <2>5 DEF IInv
<1>6. CASE at = "joinDecoder" /\ CleanUpRenderer /\ Reached(STAGE_VIDEO_STREAM_START)
  <2>1. /\ at' = "next" /\ stage' = 9 /\ renderer' = "none"
        /\ thread' = PltJoin(thread, "AudioDec")
        /\ UNCHANGED <<shared, rtpSocket, packetQueue>>
    BY <1>6 DEF CleanUpRenderer, Reached
  <2>2. /\ thread' \in ThreadType /\ thread'["AudioDec"] = NoThread
        /\ \A t \in Thread : t # "AudioDec" => thread'[t] = thread[t]
    BY <1>1, <2>1, JoinForgets DEF Thread
  <2>3. Types'
    BY <1>1, <2>1, <2>2 DEF IInv, Types, TypeOK, ThreadType, Pc, shared, controlVars, Steps
  <2>4. CallInStep' /\ ThreadsMade' /\ ThingsMade'
    BY <1>1, <1>6, <2>1, <2>2, NoThreadIs DEF IInv, CallInStep, ThreadsMade, ThingsMade, Made, AudioComesUp,
           AudioGoesDown, ControlComesUp, ControlGoesDown, controlVars, Thread
  <2>5. NoSleeperForgotten'
    BY <1>1, <2>1, <2>2, NoThreadIs DEF IInv, NoSleeperForgotten, At, controlVars, Thread
  <2> QED
    BY <2>3, <2>4, <2>5 DEF IInv
<1> QED
  BY <1>3, <1>4, <1>5, <1>6 DEF AudioStopStage

LEMMA ControlStopKeeps == IInv /\ ControlStopStage => IInv'
<1> SUFFICES ASSUME IInv, ControlStopStage PROVE IInv'
  OBVIOUS
<1> USE DEF STAGE_NONE, STAGE_AUDIO_STREAM_INIT, STAGE_RTSP_HANDSHAKE,
            STAGE_NAME_RESOLUTION, STAGE_CONTROL_STREAM_INIT,
            STAGE_INPUT_STREAM_INIT, STAGE_CONTROL_STREAM_START,
            STAGE_VIDEO_STREAM_START, STAGE_AUDIO_STREAM_START,
            STAGE_INPUT_STREAM_START
<1>1. /\ call = "stopping" /\ stage = 8 /\ call' = call
      /\ thread \in ThreadType /\ UNCHANGED audioVars
  BY IInvThreads DEF ControlStopStage, Going, Reached
<1>2. CASE at = "next" /\ StopControl /\ Going("signal")
  <2>1. /\ at' = "signal" /\ stage' = 8 /\ stopping' = TRUE
        /\ UNCHANGED <<shared, thread, peer, asyncCallbackQueue, idrFrameRequired,
                       controlMade>>
    BY <1>1, <1>2 DEF StopControl, Going
  <2>2. Types'
    BY <1>1, <2>1 DEF IInv, Types, TypeOK, shared, audioVars, Steps
  <2>3. CallInStep' /\ ThreadsMade' /\ ThingsMade'
    BY <1>1, <1>2, <2>1 DEF IInv, CallInStep, ThreadsMade, ThingsMade, Made, AudioComesUp,
           AudioGoesDown, ControlComesUp, ControlGoesDown, audioVars
  <2>4. NoSleeperForgotten'
    BY <1>1, <2>1 DEF IInv, NoSleeperForgotten, At, audioVars
  <2> QED
    BY <2>2, <2>3, <2>4 DEF IInv
<1>3. CASE at = "signal" /\ SignalControlThreads /\ Going("LossStats")
  <2> DEFINE woken == Wakes(thread, "CtrlAsyncCb")
  <2>1. /\ at' = "LossStats" /\ stage' = 8 /\ idrFrameRequired' = TRUE
        /\ asyncCallbackQueue' = LbqSignalDrain(asyncCallbackQueue)
        /\ thread' = PltInterrupt(woken, ControlThreads)
        /\ UNCHANGED <<shared, peer, stopping, controlMade>>
    BY <1>1, <1>3 DEF SignalControlThreads, Going
  <2>2. /\ SameThreads(thread, woken) /\ NobodySleeps(thread, woken)
        /\ woken["CtrlAsyncCb"].pc # "asleep" /\ woken \in ThreadType
    BY <1>1, WakesOne DEF Thread, SameThreads
  <2>3. \A t \in ControlThreads : woken[t].pc # "none"
    <3>1. \A t \in ControlThreads : Made(t)
      BY <1>1, <1>3 DEF IInv, ThreadsMade, ControlGoesDown, ControlThreads
    <3> QED
      BY <2>2, <3>1 DEF SameThreads, Made, Thread, ControlThreads
  <2> HIDE DEF woken
  <2>4. /\ SameThreads(woken, thread') /\ NobodySleeps(woken, thread')
        /\ thread'["CtrlAsyncCb"].pc = woken["CtrlAsyncCb"].pc
    BY <2>1, <2>2, <2>3, InterruptMarks DEF Thread, ControlThreads
  <2>5. /\ SameThreads(thread, thread') /\ NobodySleeps(thread, thread')
        /\ thread'["CtrlAsyncCb"].pc # "asleep" /\ thread' \in ThreadType
    BY <2>2, <2>4 DEF SameThreads, NobodySleeps
  <2>6. /\ asyncCallbackQueue' \in QueueOf("message")
        /\ Len(asyncCallbackQueue'.items) <= AsyncBound
        /\ asyncCallbackQueue'.made = asyncCallbackQueue.made
    BY <2>1, OtherQueueOperations DEF IInv, Types, TypeOK
  <2>7. Types'
    BY <1>1, <2>1, <2>5, <2>6
       DEF IInv, Types, TypeOK, ThreadType, Pc, shared, audioVars, Steps, ControlThreads
  <2>8. \A t \in Thread : /\ Made(t)' <=> Made(t)
                          /\ ~Made(t)' => thread'[t] = NoThread
    BY <2>5 DEF IInv, ThreadsMade, SameThreads, Made
  <2>9. CallInStep' /\ ThreadsMade' /\ ThingsMade'
    BY <1>1, <1>3, <2>1, <2>6, <2>8 DEF IInv, CallInStep, ThreadsMade, ThingsMade, AudioComesUp,
       AudioGoesDown, ControlComesUp, ControlGoesDown, audioVars, Thread
  <2>10. NoSleeperForgotten'
    BY <1>1, <2>5 DEF IInv, NoSleeperForgotten, NobodySleeps, At, Thread, audioVars
  <2> QED
    BY <2>7, <2>9, <2>10 DEF IInv
<1>4. ASSUME NEW t \in ControlThreads, at = t, JoinControlThread(t), Going(NextToJoin[t])
      PROVE  IInv'
  <2>1. /\ stage' = 8 /\ thread' = PltJoin(thread, t) /\ UNCHANGED <<shared, controlVars>>
        /\ at' = NextToJoin[t]
    BY <1>1, <1>4 DEF JoinControlThread, Going
  <2>2. /\ thread' \in ThreadType /\ thread'[t] = NoThread
        /\ \A u \in Thread : u # t => thread'[u] = thread[u]
    BY <1>1, <2>1, JoinForgets DEF Thread, ControlThreads
  <2>3. \/ at = "LossStats" /\ t = "LossStats" /\ at' = "ReqIdrFrame"
        \/ at = "ReqIdrFrame" /\ t = "ReqIdrFrame" /\ at' = "ControlRecv"
        \/ at = "ControlRecv" /\ t = "ControlRecv" /\ at' = "CtrlAsyncCb"
        \/ at = "CtrlAsyncCb" /\ t = "CtrlAsyncCb" /\ at' = "disconnect"
    BY <1>4, <2>1 DEF NextToJoin, ControlThreads
  <2>4. Types'
    <3>1. at' \in Steps
      BY <2>3 DEF Steps, ControlThreads
    <3> QED
      BY <1>1, <2>1, <2>2, <3>1
         DEF IInv, Types, TypeOK, ThreadType, Pc, shared, audioVars, controlVars
  <2>5. CallInStep' /\ ThreadsMade' /\ ThingsMade'
    BY <1>1, <2>1, <2>2, <2>3, NoThreadIs DEF IInv, CallInStep, ThreadsMade, ThingsMade, Made, AudioComesUp,
           AudioGoesDown, ControlComesUp, ControlGoesDown, audioVars, controlVars, Thread
  <2>6. NoSleeperForgotten'
    BY <1>1, <2>1, <2>2, NoThreadIs
       DEF IInv, NoSleeperForgotten, At, audioVars, controlVars, Thread
  <2> QED
    BY <2>4, <2>5, <2>6 DEF IInv
<1>5. CASE at = "disconnect" /\ DropPeer /\ Reached(STAGE_INPUT_STREAM_INIT)
  <2>1. /\ at' = "next" /\ stage' = 7 /\ peer' = "none"
        /\ UNCHANGED <<shared, thread, asyncCallbackQueue, idrFrameRequired, stopping,
                       controlMade>>
    BY <1>5 DEF DropPeer, Reached
  <2>2. Types'
    BY <1>1, <2>1 DEF IInv, Types, TypeOK, shared, audioVars, Steps
  <2>3. CallInStep' /\ ThreadsMade' /\ ThingsMade'
    BY <1>1, <1>5, <2>1 DEF IInv, CallInStep, ThreadsMade, ThingsMade, Made, AudioComesUp,
           AudioGoesDown, ControlComesUp, ControlGoesDown, audioVars
  <2>4. NoSleeperForgotten'
    BY <1>1, <2>1 DEF IInv, NoSleeperForgotten, At, audioVars
  <2> QED
    BY <2>2, <2>3, <2>4 DEF IInv
<1> QED
  BY <1>2, <1>3, <1>4, <1>5 DEF ControlStopStage

LEMMA ControlDestroyKeeps == IInv /\ ControlDestroyStage => IInv'
<1> SUFFICES ASSUME IInv, ControlDestroyStage PROVE IInv'
  OBVIOUS
<1> USE DEF STAGE_NONE, STAGE_AUDIO_STREAM_INIT, STAGE_RTSP_HANDSHAKE,
            STAGE_NAME_RESOLUTION, STAGE_CONTROL_STREAM_INIT,
            STAGE_INPUT_STREAM_INIT, STAGE_CONTROL_STREAM_START,
            STAGE_VIDEO_STREAM_START, STAGE_AUDIO_STREAM_START,
            STAGE_INPUT_STREAM_START
<1>1. /\ call = "stopping" /\ stage = 5 /\ at = "next"
      /\ call' = call /\ stage' = 4 /\ at' = at
      /\ asyncCallbackQueue' = LbqDestroy(asyncCallbackQueue) /\ controlMade' = FALSE
      /\ UNCHANGED <<shared, thread, peer, idrFrameRequired, stopping, audioVars>>
  BY DEF ControlDestroyStage, Stopping, Here, Reached, destroyControlStream
<1>2. /\ asyncCallbackQueue' \in QueueOf("message")
      /\ Len(asyncCallbackQueue'.items) <= AsyncBound
      /\ ~asyncCallbackQueue'.made
  BY <1>1, OtherQueueOperations, EmptyIsShort, AsyncBoundAssumption DEF IInv, Types
<1>flags. <<idrFrameRequired', stopping', controlMade'>> \in BOOLEAN \X BOOLEAN \X BOOLEAN
  BY <1>1 DEF IInv, Types, TypeOK
<1>3. Types'
  BY <1>1, <1>flags, <1>2 DEF IInv, Types, TypeOK, shared, audioVars
<1>4. CallInStep' /\ ThreadsMade' /\ ThingsMade'
  BY <1>1, <1>2 DEF IInv, CallInStep, ThreadsMade, ThingsMade, Made, AudioComesUp,
         AudioGoesDown, ControlComesUp, ControlGoesDown, audioVars
<1>5. NoSleeperForgotten'
  BY <1>1, <1>4 DEF IInv, NoSleeperForgotten, ThreadsMade, Made, At, audioVars
<1> QED
  BY <1>3, <1>4, <1>5 DEF IInv

LEMMA AudioDestroyKeeps == IInv /\ AudioDestroyStage => IInv'
<1> SUFFICES ASSUME IInv, AudioDestroyStage PROVE IInv'
  OBVIOUS
<1> USE DEF STAGE_NONE, STAGE_AUDIO_STREAM_INIT, STAGE_RTSP_HANDSHAKE,
            STAGE_NAME_RESOLUTION, STAGE_CONTROL_STREAM_INIT,
            STAGE_INPUT_STREAM_INIT, STAGE_CONTROL_STREAM_START,
            STAGE_VIDEO_STREAM_START, STAGE_AUDIO_STREAM_START,
            STAGE_INPUT_STREAM_START
<1>1. /\ call = "stopping" /\ stage = 3 /\ call' = call
      /\ thread \in ThreadType /\ UNCHANGED controlVars
  BY IInvThreads DEF AudioDestroyStage, Going, Reached
<1>2. CASE at = "next" /\ InterruptPing /\ Going("joinPing")
  <2> DEFINE ts == {"AudioPing"} \cap {t \in Thread : rtpSocket = "open"}
  <2>1. /\ at' = "joinPing" /\ stage' = 3 /\ UNCHANGED <<shared, audioVars>>
        /\ thread' = PltInterrupt(thread, ts)
    BY <1>1, <1>2 DEF InterruptPing, Going
  <2>2. ts \in SUBSET Thread /\ \A t \in ts : thread[t].pc # "none"
    BY DEF IInv, ThreadsMade, Made, Thread
  <2> HIDE DEF ts
  <2>3. /\ SameThreads(thread, thread') /\ NobodySleeps(thread, thread')
        /\ thread' \in ThreadType
    BY <1>1, <2>1, <2>2, InterruptMarks DEF SameThreads
  <2>4. Types'
    BY <1>1, <2>1, <2>3
       DEF IInv, Types, TypeOK, ThreadType, Pc, shared, audioVars, controlVars, Steps
  <2>5. \A t \in Thread : /\ Made(t)' <=> Made(t)
                          /\ ~Made(t)' => thread'[t] = NoThread
    BY <2>3 DEF IInv, ThreadsMade, SameThreads, Made
  <2>6. CallInStep' /\ ThreadsMade' /\ ThingsMade'
    BY <1>1, <1>2, <2>1, <2>5 DEF IInv, CallInStep, ThreadsMade, ThingsMade, AudioComesUp,
       AudioGoesDown, ControlComesUp, ControlGoesDown, audioVars, controlVars, Thread
  <2>7. NoSleeperForgotten'
    BY <1>1, <2>1, <2>3, StaysAwake DEF IInv, audioVars, controlVars
  <2> QED
    BY <2>4, <2>6, <2>7 DEF IInv
<1>3. CASE at = "joinPing" /\ DestroyAudio /\ Reached(STAGE_NAME_RESOLUTION)
  <2>1. /\ at' = "next" /\ stage' = 2 /\ rtpSocket' = "invalid"
        /\ packetQueue' = LbqDestroy(packetQueue)
        /\ thread' = PltJoin(thread, "AudioPing") /\ UNCHANGED <<shared, renderer>>
    BY <1>3 DEF DestroyAudio, Reached
  <2>2. /\ thread' \in ThreadType /\ thread'["AudioPing"] = NoThread
        /\ \A t \in Thread : t # "AudioPing" => thread'[t] = thread[t]
    BY <1>1, <2>1, JoinForgets DEF Thread
  <2>3. /\ packetQueue' \in QueueOf("packet") /\ Len(packetQueue'.items) <= QueueBound
        /\ ~packetQueue'.made
    BY <2>1, OtherQueueOperations, EmptyIsShort, QueueBoundAssumption DEF IInv, Types
  <2>4. Types'
    BY <1>1, <2>1, <2>2, <2>3
       DEF IInv, Types, TypeOK, ThreadType, Pc, shared, controlVars, Steps
  <2>5. CallInStep' /\ ThreadsMade' /\ ThingsMade'
    BY <1>1, <1>3, <2>1, <2>2, <2>3, NoThreadIs DEF IInv, CallInStep, ThreadsMade, ThingsMade, Made, AudioComesUp,
           AudioGoesDown, ControlComesUp, ControlGoesDown, controlVars, Thread
  <2>6. NoSleeperForgotten'
    BY <1>1, <2>1, <2>2, <2>5
       DEF IInv, NoSleeperForgotten, ThreadsMade, Made, At, controlVars, Thread
  <2> QED
    BY <2>4, <2>5, <2>6 DEF IInv
<1> QED
  BY <1>2, <1>3 DEF AudioDestroyStage

LEMMA StopKeeps == IInv /\ Stop => IInv'
  BY PlainStopKeeps, AudioStopKeeps, ControlStopKeeps, ControlDestroyKeeps,
     AudioDestroyKeeps DEF Stop

-----------------------------------------------------------------------------
(* The theorems. *)

LEMMA InitInvariant == Init => IInv
<1> SUFFICES ASSUME Init PROVE IInv
  OBVIOUS
<1> USE DEF STAGE_NONE, STAGE_AUDIO_STREAM_INIT, STAGE_RTSP_HANDSHAKE,
            STAGE_NAME_RESOLUTION, STAGE_CONTROL_STREAM_INIT,
            STAGE_INPUT_STREAM_INIT, STAGE_CONTROL_STREAM_START,
            STAGE_VIDEO_STREAM_START, STAGE_AUDIO_STREAM_START,
            STAGE_INPUT_STREAM_START
<1>1. /\ thread = [t \in Thread |-> NoThread]
      /\ ConnectionInterrupted = FALSE /\ alreadyTerminated = FALSE /\ reported = FALSE
      /\ rtpSocket = "invalid" /\ packetQueue = NoQueue /\ renderer = "none"
      /\ peer = "none" /\ asyncCallbackQueue = NoQueue
      /\ idrFrameRequired = FALSE /\ stopping = FALSE /\ controlMade = FALSE
      /\ stage = 0 /\ call = "off" /\ at = "next"
  BY DEF Init, AudioInit, ControlInit
<1>2. \A t \in Thread : thread[t] = NoThread /\ thread[t].pc = "none"
  BY <1>1, NoThreadIs
<1>3. /\ NoQueue \in QueueOf("packet") /\ NoQueue \in QueueOf("message")
      /\ NoQueue.items = <<>> /\ ~NoQueue.made
  BY DEF NoQueue, QueueOf
<1>4. Types
  <2>1. thread \in ThreadType
    BY <1>1, NoThreadIs DEF ThreadType, Pc
  <2>2. /\ <<ConnectionInterrupted, alreadyTerminated, reported>> \in
               BOOLEAN \X BOOLEAN \X BOOLEAN
        /\ <<idrFrameRequired, stopping, controlMade>> \in BOOLEAN \X BOOLEAN \X BOOLEAN
    BY <1>1
  <2>3. Len(packetQueue.items) <= QueueBound /\ Len(asyncCallbackQueue.items) <= AsyncBound
    BY <1>1, <1>3, EmptyIsShort, QueueBoundAssumption, AsyncBoundAssumption
  <2> QED
    BY <1>1, <1>3, <2>1, <2>2, <2>3 DEF Types, TypeOK, Steps, ThreadType, Pc
<1>5. CallInStep /\ ThreadsMade /\ ThingsMade
  BY <1>1, <1>2, <1>3 DEF CallInStep, ThreadsMade, ThingsMade, Made, AudioComesUp,
         AudioGoesDown, ControlComesUp, ControlGoesDown, Thread
<1>6. NoSleeperForgotten
  BY <1>2 DEF NoSleeperForgotten, At, Thread
<1> QED
  BY <1>4, <1>5, <1>6 DEF IInv

LEMMA NextInvariant == IInv /\ [Next]_vars => IInv'
<1> SUFFICES ASSUME IInv, [Next]_vars PROVE IInv'
  OBVIOUS
<1>1. CASE Next
  BY <1>1, StartKeeps, StopKeeps, EnvironmentKeeps, PingKeeps, ReceiverKeeps, DecoderKeeps,
     ControlInKeeps, LossStatsKeeps, IdrFramesKeeps, AsyncCallsKeep DEF Next
<1>2. CASE UNCHANGED vars
  <2>1. SameThreads(thread, thread') /\ NobodySleeps(thread, thread')
    BY <1>2, StandsStill, IInvThreads DEF vars
  <2> QED
    BY <1>2, <2>1, ThreadStepKeeps DEF vars
<1> QED
  BY <1>1, <1>2

LEMMA Invariance == Spec => []IInv
  BY InitInvariant, NextInvariant, PTL DEF Spec

\* Every variable keeps its type, and no queue outgrows its bound.
THEOREM TypeCorrect == Spec => []TypeOK
<1>1. IInv => TypeOK
  BY DEF IInv, Types
<1> QED
  BY Invariance, <1>1, PTL

\* What a thread uses lives as long as the thread, and a connection that is
\* down has left nothing behind, whatever stages of LiStartConnection failed
\* and wherever LiStopConnection found the threads.
THEOREM LifetimesAreNested == Spec => []LifetimesNest
<1>1. ASSUME IInv PROVE ThreadsHaveWhatTheyUse
  <2> USE DEF STAGE_NONE, STAGE_AUDIO_STREAM_INIT, STAGE_RTSP_HANDSHAKE,
              STAGE_NAME_RESOLUTION, STAGE_CONTROL_STREAM_INIT,
              STAGE_INPUT_STREAM_INIT, STAGE_CONTROL_STREAM_START,
              STAGE_VIDEO_STREAM_START, STAGE_AUDIO_STREAM_START,
              STAGE_INPUT_STREAM_START
  <2>1. \A t \in Thread : Runs(t) => Made(t)
    BY DEF Runs, Made, At
  <2>2. stage \in 0 .. 11
    BY <1>1 DEF IInv, Types, TypeOK
  <2>3. Made("AudioPing") => rtpSocket = "open"
    BY <1>1 DEF IInv, ThreadsMade
  <2>4. Made("AudioRecv") \/ Made("AudioDec") => packetQueue.made /\ renderer # "none"
    BY <1>1, <2>2 DEF IInv, ThreadsMade, ThingsMade, AudioComesUp
  <2>5. \A t \in ControlThreads : Made(t) =>
           peer # "none" /\ controlMade /\ asyncCallbackQueue.made
    BY <1>1, <2>2 DEF IInv, ThreadsMade, ThingsMade, ControlComesUp, ControlThreads
  <2> QED
    BY <2>1, <2>3, <2>4, <2>5 DEF ThreadsHaveWhatTheyUse, Thread, ControlThreads
<1>2. ASSUME IInv PROVE NothingOutlives
  <2> SUFFICES ASSUME call = "off"
               PROVE  /\ \A t \in Thread : thread[t] = NoThread
                      /\ rtpSocket = "invalid" /\ renderer = "none" /\ peer = "none"
                      /\ ~packetQueue.made /\ ~asyncCallbackQueue.made /\ ~controlMade
    BY DEF NothingOutlives
  <2> USE DEF STAGE_NONE, STAGE_AUDIO_STREAM_INIT, STAGE_RTSP_HANDSHAKE,
              STAGE_NAME_RESOLUTION, STAGE_CONTROL_STREAM_INIT,
              STAGE_INPUT_STREAM_INIT, STAGE_CONTROL_STREAM_START,
              STAGE_VIDEO_STREAM_START, STAGE_AUDIO_STREAM_START,
              STAGE_INPUT_STREAM_START
  <2>1. stage = 0
    BY <1>2 DEF IInv, CallInStep
  <2>2. /\ rtpSocket = "invalid" /\ renderer = "none" /\ peer = "none"
        /\ ~packetQueue.made /\ ~asyncCallbackQueue.made /\ ~controlMade
    BY <1>2, <2>1 DEF IInv, Types, TypeOK, ThingsMade, AudioComesUp, ControlComesUp
  <2>3. \A t \in Thread : ~Made(t)
    BY <1>2, <2>1, <2>2 DEF IInv, ThreadsMade, AudioComesUp, ControlComesUp, Thread
  <2> QED
    BY <1>2, <2>2, <2>3 DEF IInv, ThreadsMade
<1>3. IInv => LifetimesNest
  BY <1>1, <1>2 DEF LifetimesNest
<1> QED
  BY Invariance, <1>3, PTL

\* No thread sleeps in a queue that has something for it or has been shut
\* down, though only the first item of an empty queue is signalled
\* (LinkedBlockingQueue.c).
THEOREM NobodyOversleeps == Spec => []NoSleeperForgotten
<1>1. IInv => NoSleeperForgotten
  BY DEF IInv
<1> QED
  BY Invariance, <1>1, PTL
=============================================================================
