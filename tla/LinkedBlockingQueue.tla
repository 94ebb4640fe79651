------------------------ MODULE LinkedBlockingQueue ------------------------
(***************************************************************************)
(* The queues between the native library's threads                         *)
(* (moonlight-common-c/src/LinkedBlockingQueue.c), as operators on a queue *)
(* record.  Every function of the code holds the queue's mutex for as long *)
(* as it looks at the queue, so each is one step; what it returns is told  *)
(* by the predicates, and whom it wakes is up to the modules that have the *)
(* threads.                                                                *)
(***************************************************************************)
EXTENDS Naturals, Sequences

\* made: between LbqInitialize and LbqDestroy.
NoQueue == [items |-> <<>>, shutdown |-> FALSE, draining |-> FALSE,
            made |-> FALSE]

LbqInitialize == [NoQueue EXCEPT !.made = TRUE]

LbqDestroy(q) == NoQueue

\* LBQ_INTERRUPTED and LBQ_BOUND_EXCEEDED of LbqOfferQueueItem.
OfferInterrupted(q) == q.shutdown \/ q.draining
OfferExceeds(q, bound) == ~OfferInterrupted(q) /\ Len(q.items) = bound
\* Faulty: the bound is not looked at.
OfferFitsAlways(q, bound) == ~OfferInterrupted(q)

OfferFits(q, bound) == ~OfferInterrupted(q) /\ Len(q.items) # bound

Offered(q, item) == [q EXCEPT !.items = Append(@, item)]

\* Only the first item of an empty queue is signalled.
OfferSignals(q) == q.items = <<>>

LbqFlush(q) == [q EXCEPT !.items = <<>>]

LbqSignalShutdown(q) == [q EXCEPT !.shutdown = TRUE]
LbqSignalDrain(q)    == [q EXCEPT !.draining = TRUE]

\* What LbqWaitForQueueElement returns, unless it goes on waiting.
WaitInterrupted(q) == q.shutdown \/ (q.draining /\ q.items = <<>>)
WaitTakes(q)       == ~q.shutdown /\ q.items # <<>>
WaitBlocks(q)      == ~WaitInterrupted(q) /\ ~WaitTakes(q)

\* The queue without its first n items.
Taken(q, n) == [q EXCEPT !.items = SubSeq(@, n + 1, Len(@))]
=============================================================================
