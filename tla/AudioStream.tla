---------------------------- MODULE AudioStream ----------------------------
(***************************************************************************)
(* The audio stream (moonlight-common-c/src/AudioStream.c): the thread     *)
(* that pings the host, the thread that receives packets and puts them     *)
(* into the decoder's queue, and the decoder's thread.  Starting and       *)
(* stopping the stream are steps of the thread that starts and stops the   *)
(* connection, which module Connection puts in order.                      *)
(*                                                                         *)
(* A packet is nothing but its presence: what the decoder gets, and in     *)
(* which order, is the matter of module RtpAudioQueue.                     *)
(***************************************************************************)
EXTENDS NativeThreads, LinkedBlockingQueue

CONSTANT QueueBound          \* the bound of packetQueue, 30 in the code

ASSUME QueueBoundAssumption == QueueBound \in Nat

VARIABLES
    rtpSocket,               \* "invalid" or "open"
    packetQueue,
    renderer                 \* "none", "started" or "stopped": AudioCallbacks

audioVars == <<rtpSocket, packetQueue, renderer>>

AudioInit ==
    /\ rtpSocket = "invalid" /\ packetQueue = NoQueue /\ renderer = "none"

-----------------------------------------------------------------------------
(* AudioPingThreadProc sends until it is interrupted. *)

AudioPingEnds == Ends("AudioPing") /\ UNCHANGED audioVars

-----------------------------------------------------------------------------
(* AudioReceiveThreadProc *)

AudioReceiveEnds == Ends("AudioRecv") /\ UNCHANGED audioVars

\* The socket fails.
ReceiveFails ==
    /\ At("AudioRecv", "run") /\ ~Interrupted("AudioRecv")
    /\ ConnectionTerminated("AudioRecv")
    /\ UNCHANGED audioVars

\* A packet comes that the RTP queue hands on, or makes others ready.
ReceivePacket ==
    /\ At("AudioRecv", "run") /\ ~Interrupted("AudioRecv")
    /\ rtpSocket = "open"
    /\ thread' = Goes(thread, "AudioRecv", "offer")
    /\ UNCHANGED <<shared, audioVars>>

\* queuePacketToLbq: the queue takes the packet, and the RTP queue may have
\* another one ready,
OfferPacket ==
    /\ At("AudioRecv", "offer") /\ OfferFits(packetQueue, QueueBound)
    /\ packetQueue' = Offered(packetQueue, "packet")
    /\ LET woken == IF OfferSignals(packetQueue)
                    THEN Wakes(thread, "AudioDec") ELSE thread
       IN  thread' \in {Goes(woken, "AudioRecv", "run"), woken}
    /\ UNCHANGED <<shared, rtpSocket, renderer>>

\* or it is full, which is found out before it is emptied,
OfferOverflows ==
    /\ At("AudioRecv", "offer") /\ OfferExceeds(packetQueue, QueueBound)
    /\ thread' = Goes(thread, "AudioRecv", "flush")
    /\ UNCHANGED <<shared, audioVars>>

FlushPackets ==
    /\ At("AudioRecv", "flush")
    /\ packetQueue' = LbqFlush(packetQueue)
    /\ thread' = Goes(thread, "AudioRecv", "offer")
    /\ UNCHANGED <<shared, rtpSocket, renderer>>

\* or the stream is being stopped.
OfferRefused ==
    /\ At("AudioRecv", "offer") /\ OfferInterrupted(packetQueue)
    /\ thread' = Goes(thread, "AudioRecv", "over")
    /\ UNCHANGED <<shared, audioVars>>

-----------------------------------------------------------------------------
(* AudioDecoderThreadProc *)

DecoderEnds ==
    /\ At("AudioDec", "run")
    /\ Interrupted("AudioDec") \/ WaitInterrupted(packetQueue)
    /\ thread' = Goes(thread, "AudioDec", "over")
    /\ UNCHANGED <<shared, audioVars>>

DecoderSleeps ==
    /\ At("AudioDec", "run")
    /\ ~Interrupted("AudioDec") /\ WaitBlocks(packetQueue)
    /\ thread' = Goes(thread, "AudioDec", "asleep")
    /\ UNCHANGED <<shared, audioVars>>

\* decodeInputData calls the renderer before the thread looks again.
DecoderTakes ==
    /\ At("AudioDec", "run")
    /\ ~Interrupted("AudioDec") /\ WaitTakes(packetQueue)
    /\ packetQueue' = Taken(packetQueue, 1)
    /\ UNCHANGED <<thread, shared, rtpSocket, renderer>>

ReceiveStep ==
    \/ AudioReceiveEnds
    \/ ReceivePacket
    \/ OfferPacket
    \/ OfferOverflows
    \/ FlushPackets
    \/ OfferRefused
    \/ IssueCallback("AudioRecv") /\ UNCHANGED audioVars

DecodeStep == DecoderEnds \/ DecoderSleeps \/ DecoderTakes

-----------------------------------------------------------------------------
(* What the connection's thread does to the stream, step by step. *)

initializeAudioStream ==
    /\ packetQueue' = LbqInitialize
    /\ UNCHANGED <<shared, thread, rtpSocket, renderer>>

\* notifyAudioPortNegotiationComplete, whose failure nobody looks at.
NotifyAudioPort ==
    \/ /\ rtpSocket' = "open"
       /\ thread' = PltCreate(thread, "AudioPing")
       /\ UNCHANGED <<packetQueue, renderer>>
    \/ UNCHANGED <<thread, audioVars>>

StartRenderer ==
    /\ renderer' = "started"
    /\ thread' = PltCreate(thread, "AudioRecv")
    /\ UNCHANGED <<shared, rtpSocket, packetQueue>>

StartDecoder ==
    /\ thread' = PltCreate(thread, "AudioDec")
    /\ UNCHANGED <<shared, audioVars>>

\* stopAudioStream up to the first join.
StopRenderer ==
    /\ renderer' = "stopped"
    /\ thread' = PltInterrupt(thread, {"AudioRecv"})
    /\ UNCHANGED <<shared, rtpSocket, packetQueue>>

\* Faulty: interrupts the decoder, which may be asleep in the queue.
ShutDownDecoderOnly ==
    /\ thread' = PltInterrupt(thread, {"AudioDec"})
    /\ UNCHANGED <<shared, audioVars>>

ShutDownQueue ==
    /\ packetQueue' = LbqSignalShutdown(packetQueue)
    /\ thread' = PltInterrupt(Wakes(thread, "AudioDec"), {"AudioDec"})
    /\ UNCHANGED <<shared, rtpSocket, renderer>>

JoinReceiver ==
    /\ At("AudioRecv", "over")
    /\ thread' = PltJoin(thread, "AudioRecv")
    /\ UNCHANGED <<shared, audioVars>>

\* Faulty: the renderer is cleaned up without waiting for the decoder.
CleanUpRendererFirst ==
    /\ renderer' = "none"
    /\ UNCHANGED <<shared, thread, rtpSocket, packetQueue>>

\* Joins the decoder and cleans the renderer up.
CleanUpRenderer ==
    /\ At("AudioDec", "over")
    /\ thread' = PltJoin(thread, "AudioDec")
    /\ renderer' = "none"
    /\ UNCHANGED <<shared, rtpSocket, packetQueue>>

\* destroyAudioStream
InterruptPing ==
    /\ thread' = PltInterrupt(thread, {"AudioPing"} \cap
                              {t \in Thread : rtpSocket = "open"})
    /\ UNCHANGED <<shared, audioVars>>

\* Faulty: the thread that pings is not waited for.
DestroyAudioUnjoined ==
    /\ rtpSocket' = "invalid"
    /\ packetQueue' = LbqDestroy(packetQueue)
    /\ UNCHANGED <<shared, thread, renderer>>

DestroyAudio ==
    /\ rtpSocket = "open" => At("AudioPing", "over")
    /\ thread' = PltJoin(thread, "AudioPing")
    /\ rtpSocket' = "invalid"
    /\ packetQueue' = LbqDestroy(packetQueue)
    /\ UNCHANGED <<shared, renderer>>
=============================================================================
