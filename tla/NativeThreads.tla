--------------------------- MODULE NativeThreads ---------------------------
(***************************************************************************)
(* The threads of the native library (moonlight-common-c/src/Platform.c)   *)
(* and the flags they share (Connection.c): the interruption of the whole  *)
(* connection and the shim that reports its end to the client.             *)
(***************************************************************************)
EXTENDS Naturals

Thread == {"AudioPing", "AudioRecv", "AudioDec",
           "ControlRecv", "LossStats", "ReqIdrFrame", "CtrlAsyncCb"}

VARIABLES
    thread,                  \* where each thread is, and its interrupted flag
    ConnectionInterrupted, alreadyTerminated,
    reported                 \* the client has been called back: it is lost

shared == <<ConnectionInterrupted, alreadyTerminated, reported>>

NoThread == [pc |-> "none", interrupted |-> FALSE]

At(t, pc)      == thread[t].pc = pc
Runs(t)        == ~At(t, "none") /\ ~At(t, "over")
Interrupted(t) == thread[t].interrupted

\* What the operations of Platform.c make of the threads th.
PltCreate(th, t)     == [th EXCEPT ![t] = [NoThread EXCEPT !.pc = "run"]]
PltInterrupt(th, ts) ==
    [t \in Thread |-> [th[t] EXCEPT !.interrupted = @ \/ t \in ts]]
PltJoin(th, t)       == [th EXCEPT ![t] = NoThread]
Goes(th, t, pc)      == [th EXCEPT ![t].pc = pc]

\* Faulty: a thread that sleeps in a queue is not woken.
WakesNobody(th, t) == th

\* PltSignalConditionVariable: a thread that sleeps in a queue looks again.
Wakes(th, t) == IF th[t].pc = "asleep" THEN Goes(th, t, "run") ELSE th

\* A thread ends when it is interrupted, where it looks.
Ends(t) ==
    /\ At(t, "run") /\ Interrupted(t)
    /\ thread' = Goes(thread, t, "over")
    /\ UNCHANGED shared

\* Where a thread is when it has reported the end of the connection: only the
\* one that asks for IDR frames goes on, until it is interrupted.
AfterReport(t) ==
    IF t = "ReqIdrFrame" /\ ~Interrupted(t) THEN "run" ELSE "over"

\* ClInternalConnectionTerminated looks whether anybody was before it ...
ConnectionTerminated(t) ==
    /\ thread' = Goes(thread, t, IF alreadyTerminated \/ ConnectionInterrupted
                                 THEN AfterReport(t) ELSE "report")
    /\ UNCHANGED shared

\* ... and then issues the callback, on a thread of its own that is never
\* waited for.
IssueCallback(t) ==
    /\ At(t, "report")
    /\ alreadyTerminated' = TRUE /\ reported' = TRUE
    /\ thread' = Goes(thread, t, AfterReport(t))
    /\ UNCHANGED ConnectionInterrupted
=============================================================================
