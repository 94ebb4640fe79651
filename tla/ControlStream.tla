--------------------------- MODULE ControlStream ---------------------------
(***************************************************************************)
(* The control stream (moonlight-common-c/src/ControlStream.c) over ENet:  *)
(* the thread that receives messages of the host, the one that calls the   *)
(* client back for them, the one that sends the periodic ping and the one  *)
(* that asks for IDR frames.  A message is nothing but its presence.  The  *)
(* threads of older hosts (TCP) and the one that invalidates reference     *)
(* frames, which needs a decoder that can, are left out.                   *)
(***************************************************************************)
EXTENDS NativeThreads, LinkedBlockingQueue

CONSTANT AsyncBound          \* the bound of asyncCallbackQueue, 30 in the code

ASSUME AsyncBoundAssumption == AsyncBound \in Nat

VARIABLES
    peer,                    \* "none", "connected" or "dead"
    asyncCallbackQueue,
    idrFrameRequired,        \* whether the event is signalled
    stopping,
    controlMade              \* between initialize- and destroyControlStream

controlVars ==
    <<peer, asyncCallbackQueue, idrFrameRequired, stopping, controlMade>>

ControlInit ==
    /\ peer = "none" /\ asyncCallbackQueue = NoQueue
    /\ idrFrameRequired = FALSE /\ stopping = FALSE /\ controlMade = FALSE

ControlThreads == {"ControlRecv", "LossStats", "ReqIdrFrame", "CtrlAsyncCb"}

-----------------------------------------------------------------------------
(* The host, the network and the video threads. *)

\* The host disconnects or is not heard of any more.
PeerDies ==
    /\ peer = "connected" /\ peer' = "dead"
    /\ UNCHANGED <<thread, shared, asyncCallbackQueue, idrFrameRequired,
                   stopping, controlMade>>

\* LiRequestIdrFrame: sets the event and wakes the thread that waits for it.
LiRequestIdrFrame ==
    /\ ~idrFrameRequired /\ idrFrameRequired' = TRUE
    /\ UNCHANGED <<thread, shared, peer, asyncCallbackQueue, stopping,
                   controlMade>>

-----------------------------------------------------------------------------
(* controlReceiveThreadFunc *)

Polls == At("ControlRecv", "run") /\ ~Interrupted("ControlRecv")

ControlReceiveEnds == Ends("ControlRecv") /\ UNCHANGED controlVars

\* serviceEnetHost fails when the connection is interrupted, and tells of a
\* peer that has disconnected.
ControlFails ==
    /\ Polls
    /\ ConnectionInterrupted \/ peer = "dead"
    /\ ConnectionTerminated("ControlRecv")
    /\ UNCHANGED controlVars

\* A message for the client is queued, or dropped when there is no room.
AsyncMessage ==
    /\ Polls /\ ~ConnectionInterrupted /\ peer = "connected"
    /\ OfferFits(asyncCallbackQueue, AsyncBound)
    /\ asyncCallbackQueue' = Offered(asyncCallbackQueue, "message")
    /\ thread' = IF OfferSignals(asyncCallbackQueue)
                 THEN Wakes(thread, "CtrlAsyncCb") ELSE thread
    /\ UNCHANGED <<shared, peer, idrFrameRequired, stopping, controlMade>>

\* The host ends the session: its peer is disconnected at once.
TerminationMessage ==
    /\ Polls /\ ~ConnectionInterrupted /\ peer = "connected"
    /\ peer' = "dead"
    /\ ConnectionTerminated("ControlRecv")
    /\ UNCHANGED <<asyncCallbackQueue, idrFrameRequired, stopping, controlMade>>

-----------------------------------------------------------------------------
(* lossStatsThreadFunc: sends until it is interrupted or cannot. *)

LossStatsEnds == Ends("LossStats") /\ UNCHANGED controlVars

LossStatsFails ==
    /\ At("LossStats", "run") /\ ~Interrupted("LossStats") /\ peer = "dead"
    /\ ConnectionTerminated("LossStats")
    /\ UNCHANGED controlVars

-----------------------------------------------------------------------------
(* requestIdrFrameFunc waits for the event, at "run", as long as it is not  *)
(* interrupted.                                                            *)

\* Takes the event back as soon as it wakes, and only then looks why.
IdrWakes ==
    /\ At("ReqIdrFrame", "run") /\ idrFrameRequired
    /\ idrFrameRequired' = FALSE
    /\ thread' = Goes(thread, "ReqIdrFrame", "woken")
    /\ UNCHANGED <<shared, peer, asyncCallbackQueue, stopping, controlMade>>

IdrStops ==
    /\ At("ReqIdrFrame", "woken") /\ stopping
    /\ thread' = Goes(thread, "ReqIdrFrame", "over")
    /\ UNCHANGED <<shared, controlVars>>

IdrSends ==
    /\ At("ReqIdrFrame", "woken") /\ ~stopping
    /\ IF peer = "connected"
       THEN thread' = Goes(thread, "ReqIdrFrame", AfterReport("ReqIdrFrame"))
            /\ UNCHANGED shared
       ELSE ConnectionTerminated("ReqIdrFrame")
    /\ UNCHANGED controlVars

-----------------------------------------------------------------------------
(* asyncCallbackThreadFunc takes one message and those that go with it. *)

AsyncEnds ==
    /\ At("CtrlAsyncCb", "run") /\ WaitInterrupted(asyncCallbackQueue)
    /\ thread' = Goes(thread, "CtrlAsyncCb", "over")
    /\ UNCHANGED <<shared, controlVars>>

AsyncSleeps ==
    /\ At("CtrlAsyncCb", "run") /\ WaitBlocks(asyncCallbackQueue)
    /\ thread' = Goes(thread, "CtrlAsyncCb", "asleep")
    /\ UNCHANGED <<shared, controlVars>>

AsyncTakes ==
    /\ At("CtrlAsyncCb", "run") /\ WaitTakes(asyncCallbackQueue)
    /\ \E n \in 1 .. Len(asyncCallbackQueue.items) :
          asyncCallbackQueue' = Taken(asyncCallbackQueue, n)
    /\ UNCHANGED <<thread, shared, peer, idrFrameRequired, stopping,
                   controlMade>>

ControlReceiveStep ==
    \/ ControlReceiveEnds
    \/ ControlFails
    \/ IssueCallback("ControlRecv") /\ UNCHANGED controlVars

LossStatsStep ==
    \/ LossStatsEnds
    \/ LossStatsFails
    \/ IssueCallback("LossStats") /\ UNCHANGED controlVars

IdrStep ==
    \/ IdrWakes
    \/ IdrStops
    \/ IdrSends
    \/ IssueCallback("ReqIdrFrame") /\ UNCHANGED controlVars

AsyncStep == AsyncEnds \/ AsyncSleeps \/ AsyncTakes

-----------------------------------------------------------------------------
(* What the connection's thread does to the stream, step by step. *)

initializeControlStream ==
    /\ stopping' = FALSE /\ idrFrameRequired' = FALSE
    /\ asyncCallbackQueue' = LbqInitialize /\ controlMade' = TRUE
    /\ UNCHANGED <<shared, thread, peer>>

\* startControlStream: the peer answers, and its messages are received.
ConnectPeer ==
    /\ peer' = "connected"
    /\ thread' = PltCreate(thread, "ControlRecv")
    /\ UNCHANGED <<shared, asyncCallbackQueue, idrFrameRequired, stopping,
                   controlMade>>

\* It does not answer, in time or before the connection is interrupted.
ConnectPeerFails ==
    /\ stopping' = TRUE
    /\ UNCHANGED <<thread, peer, asyncCallbackQueue, idrFrameRequired,
                   controlMade>>

\* START A and START B have been sent: the other threads are created.
StartThreads ==
    /\ peer = "connected"
    /\ thread' = PltCreate(PltCreate(PltCreate(thread,
                     "LossStats"), "ReqIdrFrame"), "CtrlAsyncCb")
    /\ UNCHANGED <<shared, controlVars>>

\* START A or START B fails.
StartMessageFails ==
    /\ peer = "dead"
    /\ stopping' = TRUE /\ ConnectionInterrupted' = TRUE
    /\ thread' = PltInterrupt(thread, {"ControlRecv"})
    /\ UNCHANGED <<alreadyTerminated, reported, peer, asyncCallbackQueue,
                   idrFrameRequired, controlMade>>

\* Faulty: the thread that asks for IDR frames is not woken.
SignalControlThreadsOnly ==
    /\ asyncCallbackQueue' = LbqSignalDrain(asyncCallbackQueue)
    /\ thread' = PltInterrupt(Wakes(thread, "CtrlAsyncCb"), ControlThreads)
    /\ UNCHANGED <<shared, peer, idrFrameRequired, stopping, controlMade>>

\* stopControlStream
StopControl ==
    /\ stopping' = TRUE
    /\ UNCHANGED <<shared, thread, peer, asyncCallbackQueue, idrFrameRequired,
                   controlMade>>

SignalControlThreads ==
    /\ asyncCallbackQueue' = LbqSignalDrain(asyncCallbackQueue)
    /\ idrFrameRequired' = TRUE
    /\ thread' = PltInterrupt(Wakes(thread, "CtrlAsyncCb"), ControlThreads)
    /\ UNCHANGED <<shared, peer, stopping, controlMade>>

JoinControlThread(t) ==
    /\ At(t, "over")
    /\ thread' = PltJoin(thread, t)
    /\ UNCHANGED <<shared, controlVars>>

\* The peer and the host are gone, gracefully or not.
DropPeer ==
    /\ peer' = "none"
    /\ UNCHANGED <<shared, thread, asyncCallbackQueue, idrFrameRequired,
                   stopping, controlMade>>

destroyControlStream ==
    /\ asyncCallbackQueue' = LbqDestroy(asyncCallbackQueue)
    /\ controlMade' = FALSE
    /\ UNCHANGED <<shared, thread, peer, idrFrameRequired, stopping>>
=============================================================================
