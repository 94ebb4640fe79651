----------------------------- MODULE Connection -----------------------------
(***************************************************************************)
(* Starting and stopping a connection of the native library                *)
(* (moonlight-common-c/src/Connection.c): one thread takes the connection  *)
(* up through its stages and down again, while the threads of the streams  *)
(* started so far run.  Any stage may fail, the client may interrupt or    *)
(* stop the connection, and the host may disappear at any point.  Calls of *)
(* LiStartConnection and LiStopConnection do not overlap: module           *)
(* MoonToneConnection shows that the app's executor takes care of that.    *)
(*                                                                         *)
(* The stages without threads of their own (platform, name resolution,     *)
(* RTSP, video, input) only succeed or fail.  An audio-only session differs *)
(* in that its video stage does not fail and that nobody asks for frames.  *)
(***************************************************************************)
EXTENDS AudioStream, ControlStream

VARIABLES
    stage,
    call,                    \* "off", "starting", "running" or "stopping"
    at                       \* within a stage: what the thread does next

callerVars == <<stage, call, at>>
vars == <<thread, shared, audioVars, controlVars, callerVars>>

STAGE_NONE == 0
STAGE_PLATFORM_INIT == 1
STAGE_NAME_RESOLUTION == 2
STAGE_AUDIO_STREAM_INIT == 3
STAGE_RTSP_HANDSHAKE == 4
STAGE_CONTROL_STREAM_INIT == 5
STAGE_VIDEO_STREAM_INIT == 6
STAGE_INPUT_STREAM_INIT == 7
STAGE_CONTROL_STREAM_START == 8
STAGE_VIDEO_STREAM_START == 9
STAGE_AUDIO_STREAM_START == 10
STAGE_INPUT_STREAM_START == 11

\* The stages whose start does nothing but succeed, or fail.
PlainStages == {STAGE_PLATFORM_INIT, STAGE_NAME_RESOLUTION,
                STAGE_VIDEO_STREAM_INIT, STAGE_INPUT_STREAM_INIT,
                STAGE_VIDEO_STREAM_START, STAGE_INPUT_STREAM_START}
MayFail == {STAGE_PLATFORM_INIT, STAGE_NAME_RESOLUTION,
            STAGE_VIDEO_STREAM_START, STAGE_INPUT_STREAM_START}

Init ==
    /\ thread = [t \in Thread |-> NoThread]
    /\ ConnectionInterrupted = FALSE /\ alreadyTerminated = FALSE
    /\ reported = FALSE
    /\ AudioInit /\ ControlInit
    /\ stage = STAGE_NONE /\ call = "off" /\ at = "next"

-----------------------------------------------------------------------------
(* The thread between its stages. *)

Here(c, s, a) == call = c /\ stage = s /\ at = a

Going(a)  == at' = a /\ UNCHANGED <<stage, call>>
Reached(s) == stage' = s /\ at' = "next" /\ UNCHANGED call

\* LiStopConnection begins, called by the client or by a start that has failed,
\* and undoes what has been done, from the last stage reached.
EnterStop ==
    /\ call' = "stopping" /\ at' = "next" /\ UNCHANGED stage
    /\ alreadyTerminated' = TRUE /\ ConnectionInterrupted' = TRUE
    /\ reported' = FALSE

Starting(s) == Here("starting", s - 1, "next")
Stopping(s) == Here("stopping", s, "next")

-----------------------------------------------------------------------------
(* LiStartConnection *)

\* Faulty: the flag of the connection before this one stays set.
BeginTerminated ==
    /\ Here("off", STAGE_NONE, "next")
    /\ call' = "starting"
    /\ ConnectionInterrupted' = FALSE /\ UNCHANGED alreadyTerminated
    /\ reported' = FALSE
    /\ UNCHANGED <<stage, at, thread, audioVars, controlVars>>

Begin ==
    /\ Here("off", STAGE_NONE, "next")
    /\ call' = "starting"
    /\ alreadyTerminated' = FALSE /\ ConnectionInterrupted' = FALSE
    /\ reported' = FALSE
    /\ UNCHANGED <<stage, at, thread, audioVars, controlVars>>

PlainStageUp(s) ==
    /\ s # STAGE_INPUT_STREAM_START /\ Starting(s)
    /\ Reached(s)
    /\ UNCHANGED <<thread, shared, audioVars, controlVars>>

PlainStageFails(s) ==
    /\ s \in MayFail /\ Starting(s)
    /\ EnterStop
    /\ UNCHANGED <<thread, audioVars, controlVars>>

AudioInitStage ==
    /\ Starting(STAGE_AUDIO_STREAM_INIT)
    /\ initializeAudioStream /\ UNCHANGED controlVars
    /\ Reached(STAGE_AUDIO_STREAM_INIT)

\* performRtspHandshake, which sets the audio port on its way.
RtspStage ==
    /\ Starting(STAGE_RTSP_HANDSHAKE)
    /\ \/ /\ NotifyAudioPort
          /\ \/ Reached(STAGE_RTSP_HANDSHAKE) /\ UNCHANGED shared
             \/ EnterStop
       \/ UNCHANGED <<thread, audioVars>> /\ EnterStop
    /\ UNCHANGED controlVars

ControlInitStage ==
    /\ Starting(STAGE_CONTROL_STREAM_INIT)
    /\ initializeControlStream /\ UNCHANGED audioVars
    /\ Reached(STAGE_CONTROL_STREAM_INIT)

ControlConnects ==
    /\ Starting(STAGE_CONTROL_STREAM_START)
    /\ \/ ~ConnectionInterrupted /\ ConnectPeer /\ Going("messages")
       \/ ConnectPeerFails /\ EnterStop
    /\ UNCHANGED audioVars

ControlStarts ==
    /\ Here("starting", STAGE_INPUT_STREAM_INIT, "messages")
    /\ \/ StartThreads /\ Reached(STAGE_CONTROL_STREAM_START)
       \/ StartMessageFails /\ Going("giveUp")
    /\ UNCHANGED audioVars

ControlGivesUp ==
    /\ Here("starting", STAGE_INPUT_STREAM_INIT, "giveUp")
    /\ At("ControlRecv", "over")
    /\ thread' = PltJoin(thread, "ControlRecv")
    /\ peer' = "none"
    /\ EnterStop
    /\ UNCHANGED <<audioVars, asyncCallbackQueue, idrFrameRequired,
                   stopping, controlMade>>

AudioStarts ==
    /\ Starting(STAGE_AUDIO_STREAM_START)
    /\ \/ StartRenderer /\ Going("decoder")
       \/ UNCHANGED <<thread, audioVars>> /\ EnterStop
    /\ UNCHANGED controlVars

AudioStarted ==
    /\ Here("starting", STAGE_VIDEO_STREAM_START, "decoder")
    /\ StartDecoder /\ UNCHANGED controlVars
    /\ Reached(STAGE_AUDIO_STREAM_START)

\* The last stage and connectionStarted().
Started ==
    /\ Starting(STAGE_INPUT_STREAM_START)
    /\ stage' = STAGE_INPUT_STREAM_START /\ call' = "running"
    /\ UNCHANGED <<thread, shared, audioVars, controlVars, at>>

Start ==
    \/ Begin
    \/ \E s \in PlainStages : PlainStageUp(s) \/ PlainStageFails(s)
    \/ AudioInitStage
    \/ RtspStage
    \/ ControlInitStage
    \/ ControlConnects
    \/ ControlStarts
    \/ ControlGivesUp
    \/ AudioStarts
    \/ AudioStarted
    \/ Started

-----------------------------------------------------------------------------
(* LiStopConnection *)

\* The input and video streams, the platform, and stages with nothing to undo.
PlainStageDown(s) ==
    /\ Stopping(s)
    /\ Reached(s - 1)
    /\ UNCHANGED <<thread, shared, audioVars, controlVars>>

AudioStopStage ==
    /\ call = "stopping" /\ stage = STAGE_AUDIO_STREAM_START
    /\ \/ at = "next" /\ StopRenderer /\ Going("shutDown")
       \/ at = "shutDown" /\ ShutDownQueue /\ Going("joinReceiver")
       \/ at = "joinReceiver" /\ JoinReceiver /\ Going("joinDecoder")
       \/ /\ at = "joinDecoder" /\ CleanUpRenderer
          /\ Reached(STAGE_VIDEO_STREAM_START)
    /\ UNCHANGED controlVars

\* The order in which stopControlStream waits for the threads.
NextToJoin ==
    [LossStats |-> "ReqIdrFrame", ReqIdrFrame |-> "ControlRecv",
     ControlRecv |-> "CtrlAsyncCb", CtrlAsyncCb |-> "disconnect"]

ControlStopStage ==
    /\ call = "stopping" /\ stage = STAGE_CONTROL_STREAM_START
    /\ \/ at = "next" /\ StopControl /\ Going("signal")
       \/ at = "signal" /\ SignalControlThreads /\ Going("LossStats")
       \/ \E t \in ControlThreads :
             at = t /\ JoinControlThread(t) /\ Going(NextToJoin[t])
       \/ at = "disconnect" /\ DropPeer /\ Reached(STAGE_INPUT_STREAM_INIT)
    /\ UNCHANGED audioVars

ControlDestroyStage ==
    /\ Stopping(STAGE_CONTROL_STREAM_INIT)
    /\ destroyControlStream /\ UNCHANGED audioVars
    /\ Reached(STAGE_RTSP_HANDSHAKE)

AudioDestroyStage ==
    /\ call = "stopping" /\ stage = STAGE_AUDIO_STREAM_INIT
    /\ \/ at = "next" /\ InterruptPing /\ Going("joinPing")
       \/ /\ at = "joinPing" /\ DestroyAudio
          /\ Reached(STAGE_NAME_RESOLUTION)
    /\ UNCHANGED controlVars

Stopped ==
    /\ Stopping(STAGE_NONE)
    /\ call' = "off"
    /\ UNCHANGED <<thread, shared, audioVars, controlVars, stage, at>>

Stop ==
    \/ \E s \in PlainStages \cup {STAGE_RTSP_HANDSHAKE} : PlainStageDown(s)
    \/ AudioStopStage
    \/ ControlStopStage
    \/ ControlDestroyStage
    \/ AudioDestroyStage
    \/ Stopped

-----------------------------------------------------------------------------
(* The client, the host and the threads. *)

LiInterruptConnection ==
    /\ call \in {"starting", "running"} /\ ~ConnectionInterrupted
    /\ ConnectionInterrupted' = TRUE
    /\ UNCHANGED <<thread, alreadyTerminated, reported, audioVars,
                   controlVars, callerVars>>

ClientStops ==
    /\ call = "running" /\ EnterStop
    /\ UNCHANGED <<thread, audioVars, controlVars>>

\* The video threads, which this module leaves out, ask for IDR frames.
VideoAsks ==
    /\ stage >= STAGE_VIDEO_STREAM_START
    /\ LiRequestIdrFrame /\ UNCHANGED <<audioVars, callerVars>>

Environment ==
    \/ LiInterruptConnection
    \/ ClientStops
    \/ VideoAsks
    \/ (PeerDies \/ AsyncMessage \/ TerminationMessage)
           /\ UNCHANGED <<audioVars, callerVars>>
    \/ ReceiveFails /\ UNCHANGED <<controlVars, callerVars>>

Ping       == AudioPingEnds /\ UNCHANGED <<controlVars, callerVars>>
Receiver   == ReceiveStep /\ UNCHANGED <<controlVars, callerVars>>
Decoder    == DecodeStep /\ UNCHANGED <<controlVars, callerVars>>
ControlIn  == ControlReceiveStep /\ UNCHANGED <<audioVars, callerVars>>
LossStats  == LossStatsStep /\ UNCHANGED <<audioVars, callerVars>>
IdrFrames  == IdrStep /\ UNCHANGED <<audioVars, callerVars>>
AsyncCalls == AsyncStep /\ UNCHANGED <<audioVars, callerVars>>

Next ==
    \/ Start
    \/ Stop
    \/ Environment
    \/ Ping
    \/ Receiver
    \/ Decoder
    \/ ControlIn
    \/ LossStats
    \/ IdrFrames
    \/ AsyncCalls

Spec == Init /\ [][Next]_vars

\* Every thread is scheduled.  The client's calls, what the host does and what
\* fails are not owed.  Every blocking call of a start has a timeout.
FairSpec ==
    /\ Spec
    /\ WF_vars(call # "off" /\ Start) /\ WF_vars(Stop)
    /\ WF_vars(Ping) /\ WF_vars(Receiver) /\ WF_vars(Decoder)
    /\ WF_vars(ControlIn) /\ WF_vars(LossStats)
    /\ WF_vars(IdrFrames) /\ WF_vars(AsyncCalls)

-----------------------------------------------------------------------------
(* Properties. *)

TypeOK ==
    /\ thread \in [Thread -> [pc : {"none", "run", "asleep", "report", "over",
                                    "offer", "flush", "woken"},
                              interrupted : BOOLEAN]]
    /\ <<ConnectionInterrupted, alreadyTerminated, reported>> \in
           BOOLEAN \X BOOLEAN \X BOOLEAN
    /\ rtpSocket \in {"invalid", "open"}
    /\ Len(packetQueue.items) <= QueueBound
    /\ Len(asyncCallbackQueue.items) <= AsyncBound
    /\ renderer \in {"none", "started", "stopped"}
    /\ peer \in {"none", "connected", "dead"}
    /\ <<idrFrameRequired, stopping, controlMade>> \in
           BOOLEAN \X BOOLEAN \X BOOLEAN
    /\ stage \in STAGE_NONE .. STAGE_INPUT_STREAM_START
    /\ call \in {"off", "starting", "running", "stopping"}

\* No thread runs without what it uses: the socket it sends and receives on,
\* the queue it waits in or offers to, the event, the peer and the renderer.
ThreadsHaveWhatTheyUse ==
    /\ Runs("AudioPing") => rtpSocket = "open"
    /\ Runs("AudioRecv") => packetQueue.made /\ renderer # "none"
    /\ Runs("AudioDec") => packetQueue.made /\ renderer # "none"
    /\ \A t \in ControlThreads : Runs(t) => peer # "none" /\ controlMade
    /\ Runs("CtrlAsyncCb") => asyncCallbackQueue.made

\* A connection that is not up leaves nothing behind: when LiStopConnection,
\* or a start that failed, has returned, every thread has been joined and
\* every socket, queue and renderer is gone, whatever stage was reached.
NothingOutlives ==
    call = "off" =>
        /\ \A t \in Thread : thread[t] = NoThread
        /\ rtpSocket = "invalid" /\ renderer = "none" /\ peer = "none"
        /\ ~packetQueue.made /\ ~asyncCallbackQueue.made /\ ~controlMade

\* What a thread uses lives as long as the thread, and both no longer than the
\* connection, in whatever order stages fail and threads come to their end.
LifetimesNest == ThreadsHaveWhatTheyUse /\ NothingOutlives

\* No thread is left asleep in a queue that has something for it, or has been
\* shut down: only the first item of an empty queue is signalled, and a queue
\* may be emptied between the signal and the look of the thread that got it.
NoSleeperForgotten ==
    /\ At("AudioDec", "asleep") => WaitBlocks(packetQueue)
    /\ At("CtrlAsyncCb", "asleep") => WaitBlocks(asyncCallbackQueue)

\* Every start and every stop returns: nobody joins a thread that is asleep in
\* a queue, waits for an event, is emptying a queue or is blocked on the
\* network, whatever stage has failed and whoever has interrupted it.
CallsReturn == call \in {"starting", "stopping"} ~> call \in {"running", "off"}

\* The client is told that the host is gone, unless it ends the connection
\* itself.
LossIsReported ==
    call = "running" /\ peer = "dead" ~>
        reported \/ ConnectionInterrupted \/ call # "running"

\* The comment in ClInternalConnectionTerminated: "Avoid recursion and issuing
\* multiple callbacks".
SingleCallback ==
    [][\A t \in Thread :
          call = "running" /\ At(t, "report") /\ thread'[t].pc # "report"
              => ~reported]_vars
=============================================================================
