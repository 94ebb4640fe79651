--------------------------- MODULE RtpAudioQueue ---------------------------
(***************************************************************************)
(* The queue between the audio socket and the decoder                      *)
(* (moonlight-common-c/src/RtpAudioQueue.c) and the receive thread's use   *)
(* of it.  The host sends audio in blocks of D data packets followed by F  *)
(* parity packets; any D of the D + F rebuild the block.  The network      *)
(* loses, repeats and reorders packets.  The queue hands the data packets  *)
(* on in order, at once when it can, and decides when to rebuild, when to  *)
(* wait and when to give a packet up and ask for concealment.              *)
(*                                                                         *)
(* Sequence numbers are taken modulo M, as the code takes them modulo      *)
(* 2^16.  The host's blocks are numbered from 0 without wrapping: block b  *)
(* carries the sequence numbers D*b .. D*b+D-1, modulo M.  The payload of  *)
(* a packet is the number of the block it was sent in, so that a packet    *)
(* taken for one of another lap of the numbers is told apart.              *)
(***************************************************************************)
EXTENDS Integers, FiniteSets, Sequences

CONSTANTS
    D,             \* RTPA_DATA_SHARDS
    F,             \* RTPA_FEC_SHARDS
    M,             \* sequence numbers are modulo M
    FirstBlock,    \* the block the host is sending when the thread starts
    MaxBlock,      \* bound: the last block sent
    Late,          \* bound: a packet arrives at most this many blocks late
    Outage,        \* bound: blocks lost in a row, less than half a lap
    Patience,      \* most blocks sent while the queue waits for stragglers
    Uneven         \* the blocks whose packets are not all of one size

ASSUME QueueAssumption ==
    /\ D \in Nat \ {0} /\ F \in Nat /\ M \in Nat \ {0}
    /\ M % D = 0 /\ FirstBlock \in Nat /\ MaxBlock \in Nat
    /\ Late \in Nat /\ Outage \in Nat \ {0} /\ Patience \in Nat \ {0}
    /\ Uneven \subseteq Nat

Data   == 0 .. D - 1
Shard  == 0 .. D + F - 1
Number == 0 .. M - 1

Size(b, i) == IF b \in Uneven /\ i = D - 1 THEN 2 ELSE 1

\* Faulty: the numbers are not cut to 16 bits.
BaseUnwrapped(b) == D * b

Base(b) == (D * b) % M

\* Faulty: compares the numbers and not their distance.
BeforeUnwrapped(x, y) == x < y

\* isBefore16: at most half a lap of the numbers behind.
Before(x, y) == (x - y) % M > (M - 1) \div 2

VARIABLES
    blocks,                     \* the list from blockHead to blockTail
    nextRtpSequenceNumber, oldestRtpBaseSequenceNumber,
    oos,                        \* lastOosSequenceNumber, receivedOosData
    synchronizing, incompatibleServer,
    queueStatus,                \* what RtpaAddPacket returned last
    sent,                       \* the block the host is sending
    newest,                     \* the newest block a packet has come from
    lost,                       \* blocks passed over since the list was empty
    heard                       \* the last data packet handed on, -1 at first

queue == <<blocks, nextRtpSequenceNumber, oldestRtpBaseSequenceNumber,
           synchronizing>>
vars  == <<queue, oos, incompatibleServer, queueStatus, sent, newest, lost,
           heard>>

\* marks holds the shards still missing; from, the blocks of the stored ones.
\* The clock is the host: queued, for queueTimeMs, is the block being sent.
NewBlock(base, size) ==
    [base |-> base, size |-> size, queued |-> sent, marks |-> Shard,
     index |-> 0, allowDiscontinuity |-> FALSE, fullyReassembled |-> FALSE,
     from |-> {}]

Block == [base : Number, size : {1, 2}, queued : Nat, marks : SUBSET Shard,
          index : Data, allowDiscontinuity : BOOLEAN,
          fullyReassembled : BOOLEAN, from : SUBSET Nat]

RtpaInitializeQueue ==
    /\ blocks = <<>>
    /\ nextRtpSequenceNumber = 0 /\ oldestRtpBaseSequenceNumber = 0
    /\ oos = [last |-> 0, seen |-> FALSE]
    /\ synchronizing = TRUE /\ incompatibleServer = FALSE

Init ==
    /\ RtpaInitializeQueue
    /\ queueStatus = "none"
    /\ sent = FirstBlock /\ newest = FirstBlock /\ lost = 0 /\ heard = -1

-----------------------------------------------------------------------------
(* The host and the network. *)

\* The host moves on to its next block.
SendBlock ==
    /\ sent < MaxBlock /\ sent - newest < Outage
    /\ sent' = sent + 1
    /\ UNCHANGED <<queue, oos, incompatibleServer, queueStatus, newest, lost,
                   heard>>

\* The blocks of which nothing has come before a packet of b did.
PassedOver(b) == Cardinality(newest + 1 .. b - 1)

\* Any packet sent lately may arrive, any number of times, or never.
Arrives(b, i) ==
    /\ b \in FirstBlock .. sent /\ b >= sent - Late
    /\ i \in Shard
    /\ queueStatus # "ready"
    /\ newest' = IF b > newest THEN b ELSE newest
    /\ lost' = IF blocks = <<>> THEN 0 ELSE lost + PassedOver(b)
    /\ UNCHANGED sent

-----------------------------------------------------------------------------
(* getFecBlockForRtpPacket *)

\* Out-of-sequence data is remembered until half a lap has gone without any.
OosAfter(seq) ==
    IF ~synchronizing /\ Before(seq, oldestRtpBaseSequenceNumber)
    THEN [last |-> seq, seen |-> TRUE]
    ELSE [oos EXCEPT !.seen =
              @ /\ ~Before(oldestRtpBaseSequenceNumber, oos.last)]

TrackOrder(b, i) ==
    oos' = IF i \in Data THEN OosAfter(Base(b) + i) ELSE oos

Unsynchronized == synchronizing /\ oldestRtpBaseSequenceNumber = 0

\* Faulty: a new block always goes to the tail.
PositionAtTail(base) ==
    LET found == {k \in DOMAIN blocks : blocks[k].base = base}
    IN  IF found = {} THEN Len(blocks) + 1 ELSE CHOOSE k \in found : TRUE

\* Where the search of the list ends: at the block, or where it would go.
Position(base) ==
    LET stops == {k \in DOMAIN blocks : \/ blocks[k].base = base
                                        \/ Before(base, blocks[k].base)}
    IN  IF stops = {} THEN Len(blocks) + 1
        ELSE CHOOSE k \in stops : \A j \in stops : k <= j

\* Faulty: the search stopped somewhere, so the block is there.
ExistsAnywhere(k, base) == k \in DOMAIN blocks

Exists(k, base) == k \in DOMAIN blocks /\ blocks[k].base = base

\* Faulty: packets of blocks already returned are not turned away.
CurrentAlways(b) == ~Unsynchronized

Current(b) == ~Unsynchronized /\ ~Before(Base(b), oldestRtpBaseSequenceNumber)

Fits(b, i) ==
    LET k == Position(Base(b))
    IN  Exists(k, Base(b)) => blocks[k].size = Size(b, i)

Missing(b, i) ==
    LET k == Position(Base(b))
    IN  Exists(k, Base(b)) =>
            ~blocks[k].fullyReassembled /\ i \in blocks[k].marks

Accepts(b, i) == Current(b) /\ Fits(b, i) /\ Missing(b, i)

\* Faulty: a block that is put before another takes its place.
StoredOver(b, i) ==
    LET k     == Position(Base(b))
        block == IF Exists(k, Base(b)) THEN blocks[k]
                 ELSE NewBlock(Base(b), Size(b, i))
        after == [block EXCEPT !.marks = @ \ {i}, !.from = @ \cup {b}]
    IN  SubSeq(blocks, 1, k - 1) \o <<after>> \o
        SubSeq(blocks, k + 1, Len(blocks))

\* The list with shard i of the host's block b stored in its block.
Stored(b, i) ==
    LET k     == Position(Base(b))
        block == IF Exists(k, Base(b)) THEN blocks[k]
                 ELSE NewBlock(Base(b), Size(b, i))
        after == [block EXCEPT !.marks = @ \ {i}, !.from = @ \cup {b}]
    IN  SubSeq(blocks, 1, k - 1) \o <<after>> \o
        SubSeq(blocks, IF Exists(k, Base(b)) THEN k + 1 ELSE k, Len(blocks))

-----------------------------------------------------------------------------
(* freeFecBlockHead, when everything of the head has been returned. *)

\* Faulty: the oldest block accepted does not move on.
ReleaseHeadOnly(bs, empty) ==
    /\ blocks' = IF empty THEN Tail(bs) ELSE bs
    /\ UNCHANGED <<oldestRtpBaseSequenceNumber, synchronizing>>

ReleaseHead(bs, empty) ==
    IF empty
    THEN /\ blocks' = Tail(bs)
         /\ oldestRtpBaseSequenceNumber' = (bs[1].base + D) % M
         /\ synchronizing' = FALSE
    ELSE /\ blocks' = bs
         /\ UNCHANGED <<oldestRtpBaseSequenceNumber, synchronizing>>

\* queueHasPacketReady
Ready(bs, next) ==
    /\ bs # <<>>
    /\ \/ /\ bs[1].index \notin bs[1].marks
          /\ bs[1].base + bs[1].index = next
       \/ bs[1].allowDiscontinuity

Status(bs, next) == IF Ready(bs, next) THEN "ready" ELSE "none"

\* completeFecBlock: D shards of either kind rebuild the data.
Completed(block) ==
    IF Cardinality(Shard \ block.marks) >= D
    THEN [block EXCEPT !.marks = @ \ Data, !.fullyReassembled = TRUE]
    ELSE block

\* Faulty: the time a block was queued is never looked at.
WaitedMaybe(head, waited) == waited

\* Whether the head has waited, since it was queued, for longer than a block
\* and 10 ms: it may have at any time, and it has once the host has moved on
\* by more than the Patience blocks it sends in that time.
Waited(head, waited) == waited \/ sent - head.queued > Patience

\* handleMissingPackets: start over at the head, wait, or give the head up.
HandleMissingPackets(bs, waited) ==
    LET head == bs[1] IN
    \/ /\ Before(nextRtpSequenceNumber, head.base)
       /\ blocks' = bs
       /\ nextRtpSequenceNumber' = head.base
       /\ oldestRtpBaseSequenceNumber' = head.base
       /\ queueStatus' = Status(bs, head.base)
    \/ /\ ~Before(nextRtpSequenceNumber, head.base)
       /\ Len(bs) > 1 /\ (oos'.seen => Waited(head, waited))
       /\ blocks' = [bs EXCEPT ![1].allowDiscontinuity = TRUE]
       /\ queueStatus' = "ready"
       /\ UNCHANGED <<nextRtpSequenceNumber, oldestRtpBaseSequenceNumber>>
    \/ /\ ~Before(nextRtpSequenceNumber, head.base)
       /\ Len(bs) = 1 \/ (oos'.seen /\ ~Waited(head, waited))
       /\ blocks' = bs /\ queueStatus' = "none"
       /\ UNCHANGED <<nextRtpSequenceNumber, oldestRtpBaseSequenceNumber>>

-----------------------------------------------------------------------------
(* RtpaAddPacket *)

\* With a host that breaks the rules of the queue, everything goes through.
PassThrough(b, i) ==
    /\ incompatibleServer
    /\ Arrives(b, i)
    /\ IF i \in Data THEN heard' = D * b + i /\ queueStatus' = "now"
                     ELSE queueStatus' = "none" /\ UNCHANGED heard
    /\ UNCHANGED <<queue, oos, incompatibleServer>>

\* The first packet only tells where the next block starts.
Synchronize(b, i) ==
    /\ ~incompatibleServer /\ Unsynchronized
    /\ Arrives(b, i) /\ TrackOrder(b, i)
    /\ nextRtpSequenceNumber' = (Base(b) + D) % M
    /\ oldestRtpBaseSequenceNumber' = (Base(b) + D) % M
    /\ queueStatus' = "none"
    /\ UNCHANGED <<blocks, synchronizing, incompatibleServer, heard>>

\* Too late, a duplicate, or of a block that is already whole.
Reject(b, i) ==
    /\ ~incompatibleServer /\ ~Unsynchronized
    /\ Arrives(b, i)
    /\ Current(b) => Fits(b, i) /\ ~Missing(b, i)
    /\ TrackOrder(b, i)
    /\ queueStatus' = "none"
    /\ UNCHANGED <<queue, incompatibleServer, heard>>

\* A packet of another size than its block: the queue is given up.
SizeMismatch(b, i) ==
    /\ ~incompatibleServer
    /\ Arrives(b, i)
    /\ Current(b) /\ ~Fits(b, i)
    /\ TrackOrder(b, i)
    /\ incompatibleServer' = TRUE /\ queueStatus' = "none"
    /\ UNCHANGED <<queue, heard>>

\* The data packet that is expected next is handed on at once.
HandleNow(b, i) ==
    /\ ~incompatibleServer
    /\ i \in Data /\ Base(b) + i = nextRtpSequenceNumber
    /\ Arrives(b, i) /\ Accepts(b, i) /\ TrackOrder(b, i)
    /\ nextRtpSequenceNumber' = (Base(b) + i + 1) % M
    /\ ReleaseHead([Stored(b, i) EXCEPT
                        ![Position(Base(b))].index = @ + 1], i = D - 1)
    /\ heard' = D * b + i /\ queueStatus' = "now"
    /\ UNCHANGED incompatibleServer

\* Any other packet is stored, and may complete its block or end the wait.
Store(b, i) ==
    /\ ~incompatibleServer
    /\ ~(i \in Data /\ Base(b) + i = nextRtpSequenceNumber)
    /\ Arrives(b, i) /\ Accepts(b, i) /\ TrackOrder(b, i)
    /\ LET bs == [Stored(b, i) EXCEPT ![Position(Base(b))] =
                      Completed(@)]
       IN  IF Ready(bs, nextRtpSequenceNumber)
           THEN /\ blocks' = bs /\ queueStatus' = "ready"
                /\ UNCHANGED <<nextRtpSequenceNumber,
                               oldestRtpBaseSequenceNumber>>
           ELSE \E waited \in BOOLEAN : HandleMissingPackets(bs, waited)
    /\ UNCHANGED <<synchronizing, incompatibleServer, heard>>

-----------------------------------------------------------------------------
(* RtpaGetQueuedPacket, which the receive thread calls until it has none. *)

Returned == [blocks EXCEPT ![1].index = @ + 1]

\* A packet given up becomes a placeholder that asks for concealment.
Conceal ==
    /\ queueStatus = "ready"
    /\ blocks # <<>> /\ blocks[1].allowDiscontinuity
    /\ blocks[1].index \in blocks[1].marks
    /\ nextRtpSequenceNumber' = (nextRtpSequenceNumber + 1) % M
    /\ ReleaseHead(Returned, Returned[1].index = D)
    /\ UNCHANGED <<oos, incompatibleServer, queueStatus, sent, newest, lost,
                   heard>>

Deliver ==
    /\ queueStatus = "ready" /\ Ready(blocks, nextRtpSequenceNumber)
    /\ blocks[1].index \notin blocks[1].marks
    /\ nextRtpSequenceNumber' = (nextRtpSequenceNumber + 1) % M
    /\ heard' = D * (CHOOSE b \in blocks[1].from : TRUE) + blocks[1].index
    /\ ReleaseHead(Returned, Returned[1].index = D)
    /\ UNCHANGED <<oos, incompatibleServer, queueStatus, sent, newest, lost>>

Drained ==
    /\ queueStatus = "ready" /\ ~Ready(blocks, nextRtpSequenceNumber)
    /\ queueStatus' = "none"
    /\ UNCHANGED <<queue, oos, incompatibleServer, sent, newest, lost, heard>>

RtpaAddPacket(b, i) ==
    \/ PassThrough(b, i)
    \/ Synchronize(b, i)
    \/ Reject(b, i)
    \/ SizeMismatch(b, i)
    \/ HandleNow(b, i)
    \/ Store(b, i)

RtpaGetQueuedPacket == Conceal \/ Deliver \/ Drained

Next ==
    \/ SendBlock
    \/ \E b \in sent - Late .. sent, i \in Shard : RtpaAddPacket(b, i)
    \/ RtpaGetQueuedPacket

Spec == Init /\ [][Next]_vars

-----------------------------------------------------------------------------
(* Properties. *)

TypeOK ==
    /\ blocks \in Seq(Block)
    /\ nextRtpSequenceNumber \in Number
    /\ oldestRtpBaseSequenceNumber \in Number
    /\ oos \in [last : Number, seen : BOOLEAN]
    /\ synchronizing \in BOOLEAN /\ incompatibleServer \in BOOLEAN
    /\ queueStatus \in {"none", "now", "ready"}
    /\ sent \in Nat /\ newest \in FirstBlock .. sent /\ lost \in Nat
    /\ heard \in Nat \cup {-1}

\* What validateFecBlockState asserts after every change of the queue: the
\* packet waited for is in the oldest block or before it, nothing is queued
\* that would be refused, and the list is in the order of the numbers, all of
\* it across the wrap of the sequence numbers.
QueueIsConsistent ==
    /\ \/ ~Before(nextRtpSequenceNumber, oldestRtpBaseSequenceNumber)
       \/ synchronizing
    /\ blocks # <<>> =>
          /\ Before(nextRtpSequenceNumber, blocks[1].base + D)
          /\ ~Before(blocks[1].base, oldestRtpBaseSequenceNumber)
    /\ \A k \in 1 .. Len(blocks) - 1 : Before(blocks[k].base, blocks[k + 1].base)

\* The assertions on the head: a packet that is next is in the head block, and
\* a block given up is read from the packet that is next (RtpaAddPacket frees
\* the head without looking which block it stored into, RtpaGetQueuedPacket
\* reads the head whatever number it carries).
HeadIsNext ==
    /\ \A k \in DOMAIN blocks :
          nextRtpSequenceNumber \in blocks[k].base .. blocks[k].base + D - 1
              => k = 1
    /\ blocks # <<>> /\ blocks[1].allowDiscontinuity =>
          blocks[1].base + blocks[1].index = nextRtpSequenceNumber

\* A block is never put together from packets of different blocks of the
\* host: what the FEC rebuilds from is of one lap of the sequence numbers.
BlocksArePure ==
    \A k \in DOMAIN blocks :
        \E b \in blocks[k].from : /\ blocks[k].from = {b}
                                  /\ blocks[k].base = Base(b)

\* What the assertions of the code and its comments take for granted.
QueueIsSound == TypeOK /\ QueueIsConsistent /\ HeadIsNext /\ BlocksArePure

\* The decoder hears the host's packets in the order they were recorded and
\* no packet twice, whatever the network repeats, delays or wraps.
PlayedInOrder ==
    [][heard' # heard /\ ~incompatibleServer => heard' > heard]_vars

\* The data packets that are stored, or were rebuilt, and not handed on yet.
Held == UNION {{D * b + i : b \in blocks[k].from,
                i \in {j \in Data : /\ j >= blocks[k].index
                                    /\ j \notin blocks[k].marks}} :
                k \in DOMAIN blocks}

\* A packet the queue has is never dropped: it leaves the queue only for the
\* decoder, also when the queue gives its block up or starts over.
NothingStoredIsLost == [][Held \ Held' \subseteq {heard'}]_vars

\* A packet of a block the queue has heard nothing of is never taken for one
\* of a block it is done with: audio resumes after an outage, across the wrap.
FreshIsTaken ==
    ~Unsynchronized /\ ~incompatibleServer =>
        \A b \in newest + 1 .. sent :
            ~Before(Base(b), oldestRtpBaseSequenceNumber)

\* How far the queue falls behind of itself: the first packet of a block may
\* come Late blocks after the host, and the queue then waits for the others
\* while the host sends Patience blocks more.
Keep == Late + Patience

\* Playback keeps up: once the thread has taken what is ready, the block it
\* waits for is at most this many blocks behind the newest one it has heard of,
\* and those that were lost whole since the queue was empty.  A block lost whole
\* is skipped when a later packet comes, which does not give up another block.
HeadIsRecent ==
    blocks # <<>> /\ queueStatus # "ready" /\ ~incompatibleServer =>
        \A b \in blocks[1].from : newest - b <= Keep + lost

\* The log line of handleMissingPackets says of a block it gives up that
\* fewer packets were received than the D needed to rebuild it.
GivenUpIsShort ==
    blocks # <<>> /\ blocks[1].allowDiscontinuity =>
        Cardinality(Shard \ blocks[1].marks) < D

=============================================================================
