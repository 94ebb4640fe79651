----------------------------- MODULE WorkerLink -----------------------------
(***************************************************************************)
(* What MultiController takes for one step of its runtime: the link of one *)
(* slot between the main process (multi/MultiConnectionManager.kt and the  *)
(* PcmSource of multi/AudioMixer.kt) and the worker's process              *)
(* (multi/ConnectionWorkerService.kt, multi/SocketAudioRenderer.kt).       *)
(*                                                                         *)
(* Entries, sources, sockets and native connections are numbered by the    *)
(* attempt they serve.  A synchronized block is one step, except that of   *)
(* the accept thread, which looks at the map and then adds the source: the *)
(* map changes without the entry's lock.                                   *)
(***************************************************************************)
EXTENDS Naturals, Sequences

CONSTANTS
    MaxAttempt,              \* bound: calls of startDevice
    MaxCommands              \* bound: commands to the service not delivered

ASSUME LinkAssumption == MaxAttempt \in Nat /\ MaxCommands \in Nat

Attempt == 1 .. MaxAttempt
None    == 0
Stop    == 0

\* The threads of an entry: the one that accepts, and its source's reader.
Thread == {"accept", "read"} \X Attempt

VARIABLES
    slots,                   \* the attempt whose entry the map holds
    last,                    \* the last attempt
    server, client,          \* of each entry: "none", "open" or "closed"
    inside,                  \* entries whose lock the accept thread holds
    thread,                  \* where each thread is
    stoppedByUser,           \* sources that have been stopped
    sources,                 \* what the mixer mixes
    caller,                  \* the main thread's call: what is next, for whom
    dropped,                 \* entries that stopDevice took out of the map
    posted                   \* the callbacks made for each entry, in order

mainVars == <<slots, last, server, client, inside, thread, stoppedByUser,
              sources, caller, dropped, posted>>

VARIABLES
    commands,                \* to the service: attempts to start, Stop
    created,                 \* the service exists
    generation,              \* the attempt it works for
    connecting,              \* its threads: "none", "run", "connected", "over"
    socket,                  \* its end of each link
    connection,              \* "none", "running" or "stopping"
    current,                 \* the attempt of its fields socket, connection
    leaving                  \* those that onDestroy() has taken to release

workerVars == <<created, generation, connecting, socket, connection, current,
                leaving>>

vars == <<mainVars, commands, workerVars>>

Idle == [next |-> "idle", entry |-> None, asked |-> "nothing"]

Init ==
    /\ slots = None /\ last = 0
    /\ server = [e \in Attempt |-> "none"]
    /\ client = [e \in Attempt |-> "none"]
    /\ inside = {} /\ stoppedByUser = {} /\ sources = {} /\ dropped = {}
    /\ thread = [t \in Thread |-> "none"]
    /\ caller = Idle
    /\ posted = [e \in Attempt |-> <<>>]
    /\ commands = <<>>
    /\ created = FALSE /\ generation = None
    /\ connecting = [e \in Attempt |-> "none"]
    /\ socket = [e \in Attempt |-> "none"]
    /\ connection = [e \in Attempt |-> "none"]
    /\ current = None /\ leaving = None

-----------------------------------------------------------------------------
(* The manager, on the main thread. *)

\* Faulty: close() alone does not wake a thread that waits in accept().
DisposeUnheard(e) ==
    /\ e \notin inside
    /\ server' = server
    /\ client' = [client EXCEPT ![e] = IF @ = "open" THEN "closed" ELSE @]
    /\ stoppedByUser' = stoppedByUser \cup ({e} \cap sources)
    /\ sources' = sources \ {e}

\* dispose() under the entry's lock.
Dispose(e) ==
    /\ e \notin inside
    /\ server' = [server EXCEPT ![e] = "closed"]
    /\ client' = [client EXCEPT ![e] = IF @ = "open" THEN "closed" ELSE @]
    /\ stoppedByUser' = stoppedByUser \cup ({e} \cap sources)
    /\ sources' = sources \ {e}

\* The intents of an attempt that was stopped may be dropped with it.
StopService == commands' \in {Append(commands, Stop), <<Stop>>}

\* MultiController calls it only when the slot is free.
StartDevice ==
    /\ caller.next = "idle" /\ slots = None
    /\ last < MaxAttempt /\ Len(commands) < MaxCommands
    /\ last' = last + 1
    /\ slots' = last'
    /\ server' = [server EXCEPT ![last'] = "open"]
    /\ thread' = [thread EXCEPT ![<<"accept", last'>>] = "accepting"]
    /\ caller' = [caller EXCEPT !.asked = "start"]
    /\ commands' = Append(commands, last')
    /\ UNCHANGED <<client, inside, stoppedByUser, sources, dropped, posted,
                   workerVars>>

\* The service may not be started: nothing remains.
StartDeviceFails ==
    /\ caller.next = "idle" /\ slots = None
    /\ last < MaxAttempt /\ Len(commands) < MaxCommands
    /\ last' = last + 1
    /\ server' = [server EXCEPT ![last'] = "closed"]
    /\ caller' = [caller EXCEPT !.asked = "stop"]
    /\ StopService
    /\ UNCHANGED <<slots, client, inside, thread, stoppedByUser, sources,
                   dropped, posted, workerVars>>

\* stopDevice() takes the entry out of the map, ...
StopDevice ==
    /\ caller.next = "idle" /\ caller.asked = "start"
    /\ Len(commands) < MaxCommands
    /\ caller' = [next |-> IF slots = None THEN "service" ELSE "dispose",
                  entry |-> slots, asked |-> "stop"]
    /\ dropped' = dropped \cup ({slots} \ {None})
    /\ slots' = None
    /\ UNCHANGED <<last, server, client, inside, thread, stoppedByUser,
                   sources, posted, commands, workerVars>>

\* ... disposes of it, ...
CallerDisposes ==
    /\ caller.next = "dispose"
    /\ Dispose(caller.entry)
    /\ caller' = [caller EXCEPT !.next = "service"]
    /\ UNCHANGED <<slots, last, inside, thread, dropped, posted, commands,
                   workerVars>>

\* ... and stops the service.
CallerStopsService ==
    /\ caller.next = "service"
    /\ StopService
    /\ caller' = [caller EXCEPT !.next = "idle", !.entry = None]
    /\ UNCHANGED <<slots, last, server, client, inside, thread, stoppedByUser,
                   sources, dropped, posted, workerVars>>

-----------------------------------------------------------------------------
(* The accept thread and the source's reader. *)

Goes(k, e, pc) ==
    /\ thread' = [thread EXCEPT ![<<k, e>>] = pc]
    /\ UNCHANGED <<last, caller, dropped, commands, workerVars>>

Accepts(e) ==
    /\ thread[<<"accept", e>>] = "accepting"
    /\ server[e] = "open" /\ socket[e] # "none"
    /\ Goes("accept", e, "accepted")
    /\ UNCHANGED <<slots, server, client, inside, stoppedByUser, sources,
                   posted>>

\* accept() fails when the server is closed, and may fail otherwise.
AcceptFails(e) ==
    /\ thread[<<"accept", e>>] = "accepting"
    /\ Goes("accept", e, "ended")
    /\ UNCHANGED <<slots, server, client, inside, stoppedByUser, sources,
                   posted>>

\* Faulty: does not look whether the entry is still wanted.
AcceptsUnchecked(e) ==
    /\ thread[<<"accept", e>>] = "accepted"
    /\ Goes("accept", e, "adding")
    /\ inside' = inside \cup {e} /\ UNCHANGED client
    /\ UNCHANGED <<slots, server, stoppedByUser, sources, posted>>

\* Takes the lock: the entry may have been replaced meanwhile.
AcceptChecks(e) ==
    /\ thread[<<"accept", e>>] = "accepted"
    /\ IF slots = e
       THEN /\ Goes("accept", e, "adding")
            /\ inside' = inside \cup {e} /\ UNCHANGED client
       ELSE /\ Goes("accept", e, "over")
            /\ client' = [client EXCEPT ![e] = "closed"] /\ UNCHANGED inside
    /\ UNCHANGED <<slots, server, stoppedByUser, sources, posted>>

AcceptAdds(e) ==
    /\ thread[<<"accept", e>>] = "adding"
    /\ client' = [client EXCEPT ![e] = "open"]
    /\ server' = [server EXCEPT ![e] = "closed"]
    /\ sources' = sources \cup {e}
    /\ thread' = [thread EXCEPT ![<<"accept", e>>] = "over",
                                ![<<"read", e>>] = "reading"]
    /\ inside' = inside \ {e}
    /\ UNCHANGED <<slots, last, stoppedByUser, caller, dropped, posted,
                   commands, workerVars>>

\* The first frame: onFirstFrame asks whether the entry is still in the map.
ReadFirst(e) ==
    /\ thread[<<"read", e>>] = "reading"
    /\ client[e] = "open" /\ socket[e] = "open" /\ connection[e] # "none"
    /\ Goes("read", e, IF slots = e THEN "first" ELSE "streaming")
    /\ UNCHANGED <<slots, server, client, inside, stoppedByUser, sources,
                   posted>>

PostConnected(e) ==
    /\ thread[<<"read", e>>] = "first"
    /\ posted' = [posted EXCEPT ![e] = Append(@, "connected")]
    /\ Goes("read", e, "streaming")
    /\ UNCHANGED <<slots, server, client, inside, stoppedByUser, sources>>

\* What the reader does at the end: nothing, if it finds its source stopped.
\* Whoever disposes of the entry shuts the link down before it stops the source,
\* so the reader may come first.
AtEnd(e) == {"ended"} \cup {pc \in {"over"} : e \in stoppedByUser}

\* Faulty: the end of a stream that was never heard is not reported.
ReadEndsUnheard(e) ==
    /\ thread[<<"read", e>>] \in {"reading", "streaming"}
    /\ client[e] = "closed" \/ socket[e] = "closed"
    /\ \E pc \in AtEnd(e) :
          Goes("read", e, IF thread[<<"read", e>>] = "reading" THEN "over" ELSE pc)
    /\ UNCHANGED <<slots, server, client, inside, stoppedByUser, sources,
                   posted>>

\* The stream ends, on either side.
ReadEnds(e) ==
    /\ thread[<<"read", e>>] \in {"reading", "streaming"}
    /\ client[e] = "closed" \/ socket[e] = "closed"
    /\ \E pc \in AtEnd(e) : Goes("read", e, pc)
    /\ UNCHANGED <<slots, server, client, inside, stoppedByUser, sources,
                   posted>>

\* Faulty: whoever notices the end reports it.
RemovesAnyway(k, e) ==
    /\ thread[<<k, e>>] = "ended"
    /\ slots' = IF slots = e THEN None ELSE slots
    /\ Goes(k, e, "dispose")
    /\ UNCHANGED <<server, client, inside, stoppedByUser, sources, posted>>

\* Whoever takes the entry out of the map disposes of it and reports the end.
Removes(k, e) ==
    /\ thread[<<k, e>>] = "ended"
    /\ IF slots = e THEN slots' = None /\ Goes(k, e, "dispose")
                    ELSE UNCHANGED slots /\ Goes(k, e, "over")
    /\ UNCHANGED <<server, client, inside, stoppedByUser, sources, posted>>

Disposes(k, e) ==
    /\ thread[<<k, e>>] = "dispose"
    /\ Dispose(e)
    /\ Goes(k, e, "report")
    /\ UNCHANGED <<slots, inside, posted>>

\* Faulty: the end is noticed and cleaned up after, and nobody is told.
ReportsNothing(k, e) ==
    /\ thread[<<k, e>>] = "report"
    /\ Goes(k, e, "over")
    /\ UNCHANGED <<slots, server, client, inside, stoppedByUser, sources,
                   posted>>

Reports(k, e) ==
    /\ thread[<<k, e>>] = "report"
    /\ posted' = [posted EXCEPT ![e] = Append(@, "disconnected")]
    /\ Goes(k, e, "over")
    /\ UNCHANGED <<slots, server, client, inside, stoppedByUser, sources>>

-----------------------------------------------------------------------------
(* The service, in the worker's process. *)

\* onStartCommand
StartCommand ==
    /\ commands # <<>> /\ Head(commands) # Stop /\ leaving = None
    /\ commands' = Tail(commands)
    /\ created' = TRUE
    /\ generation' = Head(commands)
    /\ connecting' = [connecting EXCEPT ![Head(commands)] = "run"]
    /\ UNCHANGED <<mainVars, socket, connection, current, leaving>>

\* Faulty: the generation stays.
DestroyKeepsGeneration ==
    /\ commands # <<>> /\ Head(commands) = Stop /\ leaving = None
    /\ commands' = Tail(commands)
    /\ created' = FALSE
    /\ leaving' = current /\ current' = None
    /\ UNCHANGED <<mainVars, generation, connecting, socket, connection>>

\* onDestroy, if the service exists: first what it does under its lock ...
Destroy ==
    /\ commands # <<>> /\ Head(commands) = Stop /\ leaving = None
    /\ commands' = Tail(commands)
    /\ created' = FALSE /\ generation' = None
    /\ leaving' = current /\ current' = None
    /\ UNCHANGED <<mainVars, connecting, socket, connection>>

\* The link is closed, and its connection is stopped by the executor.
Released(e) ==
    /\ socket' = [socket EXCEPT ![e] = "closed"]
    /\ connection' = [connection EXCEPT ![e] =
                         IF @ = "running" THEN "stopping" ELSE @]

\* ... and then it releases what it has taken.
Release ==
    /\ leaving # None
    /\ Released(leaving)
    /\ leaving' = None
    /\ UNCHANGED <<mainVars, commands, created, generation, connecting, current>>

\* The system heeds stopSelf(startId) unless there is a later start.
StopSelf(e) ==
    commands' = IF /\ created /\ generation = e
                   /\ \A i \in DOMAIN commands : commands[i] = Stop
                THEN Append(commands, Stop) ELSE commands

Connects(e) ==
    /\ connecting[e] = "run" /\ server[e] = "open"
    /\ socket' = [socket EXCEPT ![e] = "open"]
    /\ connecting' = [connecting EXCEPT ![e] = "connected"]
    /\ UNCHANGED <<mainVars, commands, created, generation, connection,
                   current, leaving>>

ConnectFails(e) ==
    /\ connecting[e] = "run" /\ server[e] = "closed"
    /\ connecting' = [connecting EXCEPT ![e] = "over"]
    /\ StopSelf(e)
    /\ UNCHANGED <<mainVars, created, generation, socket, connection, current,
                   leaving>>

\* Under the lock: gives up if it has been destroyed or started again,
InstallStale(e) ==
    /\ connecting[e] = "connected" /\ generation # e
    /\ socket' = [socket EXCEPT ![e] = "closed"]
    /\ connecting' = [connecting EXCEPT ![e] = "over"]
    /\ UNCHANGED <<mainVars, commands, created, generation, connection,
                   current, leaving>>

\* and otherwise releases what it had before and connects to the host.
Install(e) ==
    /\ connecting[e] = "connected" /\ generation = e
    /\ connecting' = [connecting EXCEPT ![e] = "over"]
    /\ socket' = [f \in Attempt |-> IF f = current THEN "closed" ELSE socket[f]]
    /\ connection' = [f \in Attempt |->
                         IF f = e THEN "running"
                         ELSE IF f = current /\ connection[f] = "running"
                         THEN "stopping" ELSE connection[f]]
    /\ current' = e
    /\ UNCHANGED <<mainVars, commands, created, generation, leaving>>

\* The host ends the connection or does not take it: the executor is to stop it,
\* and onTerminated asks for the end of the service.
ConnectionEnds(e) ==
    /\ connection[e] = "running"
    /\ connection' = [connection EXCEPT ![e] = "stopping"]
    /\ StopSelf(e)
    /\ UNCHANGED <<mainVars, created, generation, connecting, socket, current,
                   leaving>>

\* A stop joins the thread that writes PCM; cleanup() of the renderer, if there
\* was one yet, then closes the link.
ConnectionStops(e) ==
    /\ connection[e] = "stopping"
    /\ connection' = [connection EXCEPT ![e] = "none"]
    /\ socket' \in {socket, [socket EXCEPT ![e] = "closed"]}
    /\ UNCHANGED <<mainVars, commands, created, generation, connecting,
                   current, leaving>>

\* The worker's process dies, and with it all it has.
WorkerDies ==
    /\ created \/ leaving # None \/ \E e \in Attempt : connection[e] # "none"
    /\ created' = FALSE /\ generation' = None
    /\ connecting' = [e \in Attempt |->
                         IF connecting[e] = "none" THEN "none" ELSE "over"]
    /\ socket' = [e \in Attempt |->
                     IF socket[e] = "open" THEN "closed" ELSE socket[e]]
    /\ connection' = [e \in Attempt |-> "none"]
    /\ current' = None /\ leaving' = None
    /\ UNCHANGED <<mainVars, commands>>

-----------------------------------------------------------------------------

Main == StartDevice \/ StartDeviceFails \/ StopDevice

Caller == CallerDisposes \/ CallerStopsService

Runs(k, e) == Removes(k, e) \/ Disposes(k, e) \/ Reports(k, e)

Acceptor(e) ==
    \/ Accepts(e)
    \/ server[e] = "closed" /\ AcceptFails(e)
    \/ AcceptChecks(e)
    \/ AcceptAdds(e)
    \/ Runs("accept", e)

Reader(e) ==
    \/ PostConnected(e)
    \/ ReadEnds(e)
    \/ Runs("read", e)

Service == StartCommand \/ Destroy \/ Release

\* The thread that writes PCM may be blocked until one side closes the link.
WriterIsFree(e) == socket[e] = "closed" \/ client[e] = "closed"

Connecting(e) ==
    \/ Connects(e)
    \/ ConnectFails(e)
    \/ InstallStale(e)
    \/ Install(e)
    \/ WriterIsFree(e) /\ ConnectionStops(e)

Next ==
    \/ Main
    \/ Caller
    \/ \E e \in Attempt :
          Acceptor(e) \/ AcceptFails(e) \/ ReadFirst(e) \/ Reader(e)
    \/ Service
    \/ \E e \in Attempt :
          Connecting(e) \/ ConnectionEnds(e) \/ ConnectionStops(e)
    \/ WorkerDies

Spec == Init /\ [][Next]_vars

\* Every thread is scheduled and every command is delivered.  What the user
\* asks for, what the host sends and when it ends is not owed.
FairSpec ==
    /\ Spec
    /\ WF_vars(Caller) /\ WF_vars(Service)
    /\ \A e \in Attempt : /\ WF_vars(Acceptor(e)) /\ WF_vars(Reader(e))
                          /\ WF_vars(Connecting(e))

-----------------------------------------------------------------------------
(* Properties. *)

\* Somebody has taken the entry of e out of the map and not disposed of it yet.
BeingDisposed(e) ==
    \/ caller.next = "dispose" /\ caller.entry = e
    \/ \E k \in {"accept", "read"} : thread[<<k, e>>] = "dispose"

\* A source that is mixed, and a link the main process has open, belong to the
\* entry in the map or to one that somebody is about to dispose of: a worker
\* that connects back while its device is stopped or replaced leaves neither.
SourcesAreOwned ==
    \A e \in Attempt : e \in sources \/ client[e] = "open" =>
        slots = e \/ BeingDisposed(e)

\* What MultiController is told of an entry: the first frame at most once, the
\* end at most once and after it, and never the end of a device that it has
\* itself stopped.
ReportedOnce ==
    \A e \in Attempt :
        /\ posted[e] \in {<<>>, <<"connected">>, <<"disconnected">>,
                          <<"connected", "disconnected">>}
        /\ e \in dropped => posted[e] \in {<<>>, <<"connected">>}

\* Nobody has anything to do.
AtRest ==
    /\ caller.next = "idle" /\ commands = <<>> /\ leaving = None
    /\ \A t \in Thread : thread[t] \in {"none", "over"}
    /\ \A e \in Attempt : /\ connecting[e] \in {"none", "over"}
                          /\ connection[e] # "stopping"

\* A stopped device leaves nothing in either process, also when the worker was
\* still connecting, was being started again, or had died: no server, link or
\* source in this one, no link, native connection or service in that one.
StopLeavesNothing ==
    AtRest /\ caller.asked = "stop" =>
        /\ sources = {} /\ ~created
        /\ \A e \in Attempt :
              /\ server[e] # "open" /\ client[e] # "open" /\ socket[e] # "open"
              /\ connection[e] = "none"

\* The end of a link is reported, unless the device was stopped: whichever
\* process closed it, and whether or not the worker was ever heard.  The thread
\* that notices it takes the entry out of the map before it posts, so that
\* nobody else would if that post came to nothing.
EndIsReported ==
    \A e \in Attempt :
        socket[e] = "closed" ~>
            /\ slots # e /\ ~BeingDisposed(e)
            /\ \/ e \in dropped
               \/ \E i \in DOMAIN posted[e] : posted[e][i] = "disconnected"

\* A stop gets through: the worker's connection comes down though its writer
\* may be blocked, the accept thread though no worker may ever connect.
StopGetsThrough ==
    caller.asked = "stop" ~> AtRest \/ caller.asked = "start"
=============================================================================
