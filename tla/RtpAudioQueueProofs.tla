------------------------- MODULE RtpAudioQueueProofs -------------------------
(***************************************************************************)
(* The safety of the audio queue (module RtpAudioQueue) for every size of  *)
(* a block, every late packet and every outage that leaves the numbers in  *)
(* use within half a lap of each other.                                    *)
(*                                                                         *)
(* The argument: the numbers the queue keeps stand for a block o of the    *)
(* host, which it waits for; the list holds blocks from o on, in order,    *)
(* and the newest block heard of is at its end.  Whatever the code         *)
(* compares is near o, so comparing numbers is comparing blocks.  The      *)
(* lemmas of RtpAudioQueueLemmas are about numbers and lists only.         *)
(***************************************************************************)
EXTENDS RtpAudioQueueLemmas, FiniteSetTheorems

\* How far apart two blocks whose numbers the code compares can be.
Reach == Keep + lost + Outage + 1

\* The blocks in use are within half a lap of the sequence numbers.  The
\* program has D = 4 and M = 65536: half a lap is 160 seconds of audio, while
\* Keep and Outage are a few blocks each and lost goes back to 0 whenever the
\* list is empty.
WithinHalfLap == D * (Reach + 1) <= Half

\* The blocks the host can be sending before the first one is complete do not
\* have the base number 0, which the code takes for "not yet synchronized".
StartsClear ==
    \A b \in FirstBlock + 1 .. FirstBlock + 2 * Outage : Base(b) # 0

-----------------------------------------------------------------------------
(* The inductive invariant: the queue waits for a packet of the host's     *)
(* block o, and the numbers it keeps stand for o and that packet.          *)

\* The packet waited for, without wrapping.
Expected(o, bs) ==
    D * o + (IF bs # <<>> /\ Owner(bs[1]) = o THEN bs[1].index ELSE 0)

GivingUp == blocks # <<>> /\ blocks[1].allowDiscontinuity

Holds(o) ==
    /\ QueueFrom(o, blocks)
    /\ oldestRtpBaseSequenceNumber = Base(o)
    /\ nextRtpSequenceNumber = Expected(o, blocks) % M
    /\ \A k \in 1 .. Len(blocks) : Owner(blocks[k]) - o <= Keep + lost + 1

\* The newest block heard of ends the list, and is not far from o.
KeepsUp(o) ==
    /\ heard < Expected(o, blocks)
    /\ IF blocks = <<>> THEN o = newest + 1
                        ELSE Owner(blocks[Len(blocks)]) = newest
    /\ newest - o <= IF GivingUp THEN Keep + lost + 1 ELSE Keep + lost
    /\ queueStatus # "ready" =>
          /\ ~GivingUp
          /\ Ready(blocks, nextRtpSequenceNumber) => newest - o <= Late
    /\ synchronizing =>
          /\ o <= FirstBlock + 2 * Outage
          /\ IF blocks = <<>> THEN newest <= FirstBlock + Outage
                              ELSE Owner(blocks[1]) = o

Unheard ==
    /\ blocks = <<>> /\ synchronizing /\ ~incompatibleServer
    /\ nextRtpSequenceNumber = 0 /\ oldestRtpBaseSequenceNumber = 0
    /\ newest = FirstBlock /\ heard = -1 /\ queueStatus = "none"

Waiting(o) == Holds(o) /\ (~incompatibleServer => KeepsUp(o))

IInv ==
    /\ TypeOK
    /\ sent - newest <= Outage
    /\ incompatibleServer => queueStatus # "ready"
    /\ Unheard \/ \E o \in FirstBlock + 1 .. newest + 1 : Waiting(o)

\* A packet of the host's block b comes while the queue waits for block o.
Coming(o, b) ==
    /\ TypeOK /\ WithinHalfLap /\ sent - newest <= Outage
    /\ o \in FirstBlock + 1 .. newest + 1 /\ Holds(o) /\ KeepsUp(o)
    /\ b \in FirstBlock .. sent /\ b >= sent - Late

-----------------------------------------------------------------------------
(* What the packet that comes meets in the queue. *)

LEMMA KeepIsEnough ==
    Keep \in Nat /\ Late + 1 <= Keep
  BY QueueAssumption DEF Keep

LEMMA ReachIsNear ==
    ASSUME TypeOK, WithinHalfLap
    PROVE  /\ Reach \in Nat /\ Reach = Keep + lost + Outage + 1
           /\ D * (Reach + 1) <= Half /\ D * Reach <= Half
<1>1. Reach \in Nat
  BY KeepIsEnough, QueueAssumption DEF Reach, TypeOK
<1>2. D * (Reach + 1) = D * Reach + D /\ D * Reach \in Int
  BY <1>1, NextBlock
<1>3. D * (Reach + 1) <= Half
  BY DEF WithinHalfLap
<1>4. D \in Nat /\ Half \in Nat
  BY QueueAssumption, HalfIsHalf
<1> HIDE DEF Reach
<1>5. D * Reach <= Half
  BY <1>1, <1>2, <1>3, <1>4
<1> QED
  BY <1>1, <1>3, <1>5 DEF Reach

\* The blocks in the list are between the one waited for and the newest.
LEMMA ListIsNear ==
    ASSUME NEW o, NEW b, Coming(o, b)
    PROVE  /\ o \in Nat /\ b \in Nat /\ newest \in Nat /\ sent \in Nat
           /\ b - o <= Reach /\ o - b <= Reach
           /\ \A k \in 1 .. Len(blocks) :
                 /\ Owner(blocks[k]) \in Nat /\ o <= Owner(blocks[k])
                 /\ Owner(blocks[k]) <= newest
                 /\ Owner(blocks[k]) - o <= Reach
                 /\ b - Owner(blocks[k]) <= Reach
                 /\ Owner(blocks[k]) - b <= Reach
<1>1. /\ FirstBlock \in Nat /\ Late \in Nat /\ Outage \in Nat /\ lost \in Nat
      /\ sent \in Nat /\ newest \in FirstBlock .. sent
      /\ blocks \in Seq(Block)
  BY QueueAssumption DEF Coming, TypeOK
<1>2. Keep \in Nat /\ Late + 1 <= Keep
  BY KeepIsEnough
<1>3. Reach = Keep + lost + Outage + 1
  BY DEF Reach
<1>4. /\ o \in FirstBlock + 1 .. newest + 1 /\ sent - newest <= Outage
      /\ b \in FirstBlock .. sent /\ b >= sent - Late
  BY DEF Coming
<1>5. newest - o <= Keep + lost + 1
  BY <1>1, <1>2, <1>4 DEF Coming, KeepsUp
<1>6. b - o <= Reach /\ o - b <= Reach
  BY <1>1, <1>2, <1>3, <1>4, <1>5
<1>7. QueueFrom(o, blocks)
  BY DEF Coming, Holds
<1>8. blocks # <<>> => Owner(blocks[Len(blocks)]) = newest
  BY DEF Coming, KeepsUp
<1>9. ASSUME NEW k \in 1 .. Len(blocks)
      PROVE  /\ Owner(blocks[k]) \in Nat /\ o <= Owner(blocks[k])
             /\ Owner(blocks[k]) <= newest
  <2>1. Owner(blocks[k]) \in Nat /\ o <= Owner(blocks[k])
    BY <1>1, <1>7, OwnersAreNumbers DEF QueueFrom
  <2>2. Len(blocks) \in Nat /\ blocks # <<>>
    BY <1>1, Nonempty
  <2>3. k < Len(blocks) => Owner(blocks[k]) < newest
    <3>1. Len(blocks) \in 1 .. Len(blocks)
      BY <2>2
    <3> QED
      BY <1>7, <1>8, <2>2, <3>1 DEF QueueFrom
  <2>4. k = Len(blocks) => Owner(blocks[k]) = newest
    BY <1>8, <2>2
  <2> QED
    BY <1>1, <2>1, <2>2, <2>3, <2>4
<1>10. ASSUME NEW k \in 1 .. Len(blocks)
       PROVE  /\ Owner(blocks[k]) - o <= Reach
              /\ b - Owner(blocks[k]) <= Reach
              /\ Owner(blocks[k]) - b <= Reach
  BY <1>1, <1>2, <1>3, <1>4, <1>5, <1>6, <1>9
<1> QED
  BY <1>1, <1>4, <1>6, <1>9, <1>10

\* The search of the list ends at the block of the packet, or at its place.
LEMMA PositionIs ==
    ASSUME NEW o, NEW b, Coming(o, b), NEW p, p = Position(Base(b)),
           NEW d, d = IF Exists(p, Base(b)) THEN 0 ELSE 1
    PROVE  /\ p \in 1 .. Len(blocks) + d
           /\ \A k \in 1 .. Len(blocks) :
                 /\ k < p => Owner(blocks[k]) < b
                 /\ p - d < k => b < Owner(blocks[k])
           /\ d = 0 => Owner(blocks[p]) = b
           /\ d = 1 => \A k \in 1 .. Len(blocks) : Owner(blocks[k]) # b
<1> DEFINE n == Len(blocks)
           own(k) == Owner(blocks[k])
           stops == {k \in DOMAIN blocks :
                       \/ blocks[k].base = Base(b)
                       \/ Before(Base(b), blocks[k].base)}
<1>1. blocks \in Seq(Block) /\ n \in Nat /\ DOMAIN blocks = 1 .. n
  BY Nonempty DEF Coming, TypeOK
<1>2. b \in Nat /\ \A k \in 1 .. n : own(k) \in Nat
  BY ListIsNear
<1>3. ASSUME NEW k \in 1 .. n
      PROVE  /\ blocks[k].base = Base(b) <=> own(k) = b
             /\ Before(Base(b), blocks[k].base) <=> b < own(k)
  <2>1. blocks[k].base = Base(own(k))
    BY DEF Coming, Holds, QueueFrom, OfOne
  <2>2. /\ b - own(k) <= Reach /\ own(k) - b <= Reach
        /\ own(k) \in Nat /\ b \in Nat
    BY ListIsNear
  <2>3. Reach \in Nat /\ D * Reach <= Half
    BY ReachIsNear DEF Coming
  <2> HIDE DEF own
  <2>4. /\ Before(Base(b), Base(own(k))) <=> b < own(k)
        /\ Base(b) = Base(own(k)) <=> b = own(k)
    BY <2>2, <2>3, NearBlocks
  <2> QED
    BY <2>1, <2>4
<1>4. stops = {k \in 1 .. n : b <= own(k)}
  BY <1>1, <1>2, <1>3
<1>5. p = IF stops = {} THEN n + 1 ELSE CHOOSE k \in stops : \A j \in stops : k <= j
  BY DEF Position
<1>6. \A j, k \in 1 .. n : j < k => own(j) < own(k)
  BY DEF Coming, Holds, QueueFrom
<1>7. d = IF p \in 1 .. n /\ own(p) = b THEN 0 ELSE 1
  <2>1. Exists(p, Base(b)) <=> p \in 1 .. n /\ blocks[p].base = Base(b)
    BY <1>1 DEF Exists
  <2> QED
    BY <1>3, <2>1
<1> HIDE DEF n, own, stops
<1>8. CASE stops = {}
  <2>1. p = n + 1 /\ d = 1 /\ \A k \in 1 .. n : own(k) < b
    BY <1>1, <1>2, <1>4, <1>5, <1>7, <1>8, SMTT(30)
  <2>2. \A k \in 1 .. n : ~(p - d < k)
    BY <1>1, <2>1
  <2>3. p \in 1 .. n + d
    BY <1>1, <2>1
  <2>4. \A k \in 1 .. n : own(k) # b
    BY <1>2, <2>1
  <2> QED
    BY <2>1, <2>2, <2>3, <2>4 DEF n, own
<1>9. CASE stops # {}
  <2>1. stops \subseteq Nat
    BY <1>1, <1>4
  <2>2. \E k \in stops : \A j \in stops : k <= j
    BY <1>9, <2>1, LeastOfNaturals
  <2>3. p \in stops /\ \A j \in stops : p <= j
    BY <1>5, <1>9, <2>2
  <2>4. p \in 1 .. n /\ b <= own(p)
    BY <1>4, <2>3
  <2>5. ASSUME NEW k \in 1 .. n, k < p PROVE own(k) < b
    BY <1>1, <1>2, <1>4, <2>3, <2>4, <2>5
  <2>6. ASSUME NEW k \in 1 .. n, p - d < k PROVE b < own(k)
    <3>1. CASE d = 0
      <4>1. own(p) = b /\ p < k
        BY <1>1, <1>7, <2>4, <2>6, <3>1
      <4> QED
        BY <1>6, <2>4, <4>1
    <3>2. CASE d = 1
      <4>1. own(p) # b /\ (p < k \/ p = k)
        BY <1>1, <1>7, <2>4, <2>6, <3>2
      <4>2. p < k => own(p) < own(k)
        BY <1>6, <2>4
      <4> QED
        BY <1>2, <2>4, <4>1, <4>2
    <3> QED
      BY <1>7, <3>1, <3>2
  <2>7. p \in 1 .. n + d /\ (d = 0 => own(p) = b)
    BY <1>1, <1>7, <2>4
  <2>8. ASSUME d = 1, NEW k \in 1 .. n PROVE own(k) # b
    <3>1. k < p \/ p - d < k
      BY <1>1, <2>4, <2>8
    <3> QED
      BY <1>2, <2>5, <2>6, <3>1
  <2> QED
    BY <2>5, <2>6, <2>7, <2>8 DEF n, own
<1> QED
  BY <1>8, <1>9

LEMMA CurrentIsNotPast ==
    ASSUME NEW o, NEW b, Coming(o, b), Current(b)
    PROVE  o <= b
<1>1. ~Before(Base(b), Base(o))
  BY DEF Current, Coming, Holds
<1>2. /\ o \in Nat /\ b \in Nat /\ b - o <= Reach /\ o - b <= Reach
      /\ Reach \in Nat /\ D * Reach <= Half
  BY ListIsNear, ReachIsNear DEF Coming
<1>3. Before(Base(b), Base(o)) <=> b < o
  BY <1>2, NearBlocks
<1> QED
  BY <1>1, <1>2, <1>3

\* The list with the packet in it: in order, of one block each.
LEMMA StoredIs ==
    ASSUME NEW o, NEW b, Coming(o, b), NEW i \in Shard, Accepts(b, i),
           NEW p, p = Position(Base(b)),
           NEW d, d = IF Exists(p, Base(b)) THEN 0 ELSE 1,
           NEW t, t = Stored(b, i)
    PROVE  /\ t \in Seq(Block) /\ Placed(blocks, p, d, b, t)
           /\ OfOne(t[p]) /\ Owner(t[p]) = b /\ t[p].from = {b}
           /\ o <= b /\ (b = o \/ Untouched(t[p]))
           /\ QueueFrom(o, t)
           /\ d = 0 => /\ t[p].index = blocks[p].index
                       /\ t[p].allowDiscontinuity = blocks[p].allowDiscontinuity
                       /\ t[p].marks = blocks[p].marks \ {i}
                       /\ blocks[p].from = {b}
           /\ d = 1 => Untouched(t[p]) /\ t[p].marks = Shard \ {i}
<1> DEFINE block == IF Exists(p, Base(b)) THEN blocks[p]
                    ELSE NewBlock(Base(b), Size(b, i))
           after == [block EXCEPT !.marks = @ \ {i}, !.from = @ \cup {b}]
           r == IF Exists(p, Base(b)) THEN p + 1 ELSE p
<1>1. blocks \in Seq(Block) /\ QueueFrom(o, blocks)
  BY DEF Coming, TypeOK, Holds
<1>2. o \in Nat /\ b \in Nat /\ Len(blocks) \in Nat /\ sent \in Nat
  BY <1>1, ListIsNear, Nonempty
<1>3. o <= b
  BY CurrentIsNotPast DEF Accepts
<1>4. /\ p \in 1 .. Len(blocks) + d
      /\ \A k \in 1 .. Len(blocks) :
            /\ k < p => Owner(blocks[k]) < b
            /\ p - d < k => b < Owner(blocks[k])
      /\ d = 0 => Owner(blocks[p]) = b
  BY PositionIs
<1>5. t = SubSeq(blocks, 1, p - 1) \o <<after>> \o SubSeq(blocks, r, Len(blocks))
  BY DEF Stored
<1>6. d \in {0, 1}
  OBVIOUS
<1>7. ASSUME d = 0
      PROVE  /\ p \in 1 .. Len(blocks) /\ block = blocks[p] /\ r = p + 1
             /\ blocks[p] \in Block /\ OfOne(blocks[p])
             /\ Owner(blocks[p]) = b /\ blocks[p].from = {b}
             /\ Owner(blocks[p]) = o \/ Untouched(blocks[p])
  <2>1. p \in 1 .. Len(blocks) /\ Owner(blocks[p]) = b /\ Exists(p, Base(b))
    BY <1>2, <1>4, <1>7
  <2>2. block = blocks[p] /\ r = p + 1
    BY <2>1
  <2>3. blocks[p] \in Block
    BY <1>1, <2>1, ElementOfSeq
  <2>4. OfOne(blocks[p]) /\ (Owner(blocks[p]) = o \/ Untouched(blocks[p]))
    BY <1>1, <2>1 DEF QueueFrom
  <2>5. blocks[p].from = {b}
    BY <2>1, <2>4 DEF OfOne
  <2> QED
    BY <2>1, <2>2, <2>3, <2>4, <2>5
<1>8. ASSUME d = 1
      PROVE  block = NewBlock(Base(b), Size(b, i)) /\ r = p
  BY <1>8
<1> HIDE DEF block, r
<1>9. Base(b) \in Number
  BY <1>2, BaseStandsFor, QueueAssumption
<1>10. /\ after \in Block /\ after.from = {b} /\ after.base = Base(b)
       /\ after.queued <= b + Late
       /\ d = 0 => /\ after.index = blocks[p].index
                   /\ after.allowDiscontinuity = blocks[p].allowDiscontinuity
                   /\ after.marks = blocks[p].marks \ {i}
                   /\ b = o \/ Untouched(blocks[p])
       /\ d = 1 => Untouched(after) /\ after.marks = Shard \ {i}
  <2>1. CASE d = 0
    <3>1. /\ block \in Block /\ block.from = {b} /\ block.base = Base(b)
          /\ block = blocks[p] /\ (b = o \/ Untouched(blocks[p]))
          /\ block.queued <= b + Late
      BY <1>7, <2>1 DEF OfOne
    <3>2. after \in Block /\ after.from = {b} /\ after.base = Base(b)
      BY <3>1 DEF Block
    <3>3. /\ after.index = block.index /\ after.marks = block.marks \ {i}
          /\ after.allowDiscontinuity = block.allowDiscontinuity
          /\ after.queued = block.queued
      BY <3>1 DEF Block
    <3> QED
      BY <2>1, <3>1, <3>2, <3>3
  <2>2. CASE d = 1
    <3>1. block = NewBlock(Base(b), Size(b, i)) /\ Size(b, i) \in {1, 2}
      BY <1>8, <2>2 DEF Size
    <3>2. /\ block \in Block /\ block.from = {} /\ block.base = Base(b)
          /\ Untouched(block) /\ block.marks = Shard /\ block.queued = sent
      BY <1>2, <1>9, <3>1, QueueAssumption DEF NewBlock, Block, Data, Untouched
    <3>3. after \in Block /\ after.from = {b} /\ after.base = Base(b)
      BY <1>2, <3>2 DEF Block
    <3>4. /\ after.index = block.index /\ after.marks = block.marks \ {i}
          /\ after.allowDiscontinuity = block.allowDiscontinuity
          /\ after.queued = block.queued
      BY <3>2 DEF Block
    <3>5. sent <= b + Late
      BY <1>2, QueueAssumption DEF Coming
    <3> QED
      BY <2>2, <3>2, <3>3, <3>4, <3>5 DEF Untouched
  <2> QED
    BY <1>6, <2>1, <2>2
<1> HIDE DEF after
<1>11. t \in Seq(Block) /\ Placed(blocks, p, d, b, t) /\ t[p] = after
  <2>1. CASE d = 0
    <3>1. t = Replacing(blocks, p, after)
      BY <1>5, <1>7, <2>1 DEF Replacing
    <3>2. /\ t \in Seq(Block) /\ Len(t) = Len(blocks) /\ t[p] = after
          /\ \A j \in 1 .. Len(blocks) : j # p => t[j] = blocks[j]
      <4>1. blocks \in Seq(Block) /\ p \in 1 .. Len(blocks) /\ after \in Block
        BY <1>1, <1>7, <1>10, <2>1
      <4>2. Replacing(blocks, p, after) \in Seq(Block)
        BY ONLY <4>1, Replaced
      <4>3. /\ Len(Replacing(blocks, p, after)) = Len(blocks)
            /\ Replacing(blocks, p, after)[p] = after
        BY ONLY <4>1, Replaced
      <4>4. \A j \in 1 .. Len(blocks) :
                j # p => Replacing(blocks, p, after)[j] = blocks[j]
        BY ONLY <4>1, Replaced
      <4> QED
        BY <3>1, <4>2, <4>3, <4>4
    <3>3. \A j \in 1 .. Len(t) : /\ j < p => t[j] = blocks[j]
                                 /\ p < j => t[j] = blocks[j - d]
      BY <1>2, <1>4, <2>1, <3>2
    <3> QED
      BY <1>2, <1>4, <1>6, <2>1, <3>2, <3>3 DEF Placed
  <2>2. CASE d = 1
    <3>1. t = Inserting(blocks, p, after)
      BY <1>5, <1>8, <2>2 DEF Inserting
    <3>2. /\ t \in Seq(Block) /\ Len(t) = Len(blocks) + 1 /\ t[p] = after
          /\ \A j \in 1 .. Len(blocks) + 1 : /\ j < p => t[j] = blocks[j]
                                             /\ p < j => t[j] = blocks[j - 1]
      <4>1. blocks \in Seq(Block) /\ p \in 1 .. Len(blocks) + 1 /\ after \in Block
        BY <1>1, <1>4, <1>10, <2>2
      <4>2. Inserting(blocks, p, after) \in Seq(Block)
        BY ONLY <4>1, Inserted
      <4>3. /\ Len(Inserting(blocks, p, after)) = Len(blocks) + 1
            /\ Inserting(blocks, p, after)[p] = after
        BY ONLY <4>1, Inserted
      <4>4. \A j \in 1 .. Len(blocks) + 1 :
                /\ j < p => Inserting(blocks, p, after)[j] = blocks[j]
                /\ p < j => Inserting(blocks, p, after)[j] = blocks[j - 1]
        BY ONLY <4>1, Inserted
      <4> QED
        BY <3>1, <4>2, <4>3, <4>4
    <3> QED
      BY <1>2, <1>4, <1>6, <2>2, <3>2 DEF Placed
  <2> QED
    BY <1>6, <2>1, <2>2
<1>12. Owner(t[p]) = b /\ OfOne(t[p]) /\ t[p].from = {b}
  BY <1>10, <1>11, OwnerOfSingle, ZenonT(30) DEF OfOne
<1>13. b = o \/ Untouched(t[p])
  BY <1>6, <1>10, <1>11 DEF Untouched
<1>14. QueueFrom(o, t)
  BY <1>1, <1>2, <1>3, <1>11, <1>12, <1>13, PlacedInOrder
<1> QED
  BY <1>3, <1>7, <1>10, <1>11, <1>12, <1>13, <1>14

\* The list with the packet in it ends with the newest block heard of.
LEMMA EndsAre ==
    ASSUME NEW o, NEW b, Coming(o, b), o <= b, NEW p, NEW d,
           NEW u \in Seq(Block), Placed(blocks, p, d, b, u), Owner(u[p]) = b
    PROVE  /\ u # <<>> /\ p \in 1 .. Len(u)
           /\ Owner(u[Len(u)]) = IF newest < b THEN b ELSE newest
           /\ blocks = <<>> => newest < b /\ Len(u) = 1
           /\ p = 1 /\ blocks # <<>> => b <= Owner(blocks[1])
           /\ p # 1 => /\ blocks # <<>> /\ u[1] = blocks[1]
                       /\ Owner(blocks[1]) < b
<1>1. blocks \in Seq(Block) /\ QueueFrom(o, blocks)
  BY DEF Coming, TypeOK, Holds
<1>2. o \in Nat /\ b \in Nat /\ newest \in Nat
  BY ListIsNear
<1>3. /\ p \in 1 .. Len(u) /\ u # <<>>
      /\ p # 1 => blocks # <<>> /\ u[1] = blocks[1]
  BY <1>1, PlacedIsSeq
<1>4. /\ blocks = <<>> => Owner(u[Len(u)]) = b /\ Len(u) = 1
      /\ blocks # <<>> => Owner(u[Len(u)]) = IF Owner(blocks[Len(blocks)]) < b
                             THEN b ELSE Owner(blocks[Len(blocks)])
      /\ p = 1 /\ blocks # <<>> => b <= Owner(blocks[1])
      /\ p # 1 => Owner(blocks[1]) < b
  BY <1>1, <1>2, PlacedEnds
<1>5. IF blocks = <<>> THEN o = newest + 1
                       ELSE Owner(blocks[Len(blocks)]) = newest
  BY DEF Coming, KeepsUp
<1>6. blocks = <<>> => newest < b
  BY <1>2, <1>5
<1> QED
  BY <1>3, <1>4, <1>5, <1>6

\* The list after the block of the packet was changed.
LEMMA ChangedIs ==
    ASSUME NEW o, NEW b, Coming(o, b), o <= b, NEW p, NEW d,
           NEW t \in Seq(Block), Placed(blocks, p, d, b, t),
           NEW x \in Block, OfOne(x), Owner(x) = b, b = o \/ Untouched(x),
           NEW u, u = [t EXCEPT ![p] = x]
    PROVE  /\ u \in Seq(Block) /\ Placed(blocks, p, d, b, u) /\ u[p] = x
           /\ QueueFrom(o, u)
<1>1. blocks \in Seq(Block) /\ QueueFrom(o, blocks)
  BY DEF Coming, TypeOK, Holds
<1>2. o \in Nat /\ b \in Nat
  BY ListIsNear
<1>3. u \in Seq(Block) /\ Placed(blocks, p, d, b, u) /\ u[p] = x
  <2>1. p \in 1 .. Len(t)
    BY <1>1, PlacedIsSeq
  <2>2. /\ u \in Seq(Block) /\ Len(u) = Len(t) /\ u[p] = x
        /\ \A j \in 1 .. Len(t) : j # p => u[j] = t[j]
    BY <2>1, Updated
  <2> QED
    BY <1>1, <2>2, PlacedAgain
<1>4. QueueFrom(o, u)
  BY <1>1, <1>2, <1>3, PlacedInOrder
<1> QED
  BY <1>3, <1>4

LEMMA BlockFields ==
    ASSUME NEW block \in Block
    PROVE  /\ block.base \in Number /\ block.index \in Data
           /\ block.index \in Nat /\ block.index < D
           /\ block.marks \subseteq Shard /\ block.from \subseteq Nat
           /\ block.allowDiscontinuity \in BOOLEAN
  BY QueueAssumption DEF Block, Data

LEMMA ExpectedIs ==
    ASSUME NEW bs \in Seq(Block), NEW o \in Nat
    PROVE  \E i \in Data :
              /\ Expected(o, bs) = D * o + i
              /\ i = IF bs # <<>> /\ Owner(bs[1]) = o THEN bs[1].index ELSE 0
<1>1. bs # <<>> => bs[1] \in Block
  BY Nonempty
<1>2. bs # <<>> => bs[1].index \in Data
  BY <1>1, BlockFields
<1>3. 0 \in Data
  BY QueueAssumption DEF Data
<1> QED
  BY <1>2, <1>3 DEF Expected

\* The number waited for is that of the packet waited for, as long as it is
\* compared with a block in reach.
LEMMA WaitedFor ==
    ASSUME TypeOK, WithinHalfLap, NEW o \in Nat, Holds(o), NEW h \in Nat,
           h - o <= Reach, o - h <= Reach
    PROVE  /\ Before(nextRtpSequenceNumber, Base(h)) <=> o < h
           /\ Before(nextRtpSequenceNumber, Base(h) + D) <=> o <= h
           /\ \A j \in Data : nextRtpSequenceNumber = Base(h) + j
                                <=> o = h /\ Expected(o, blocks) = D * o + j
<1>1. blocks \in Seq(Block)
  BY DEF TypeOK
<1>2. PICK i \in Data : Expected(o, blocks) = D * o + i
  BY <1>1, ExpectedIs
<1>3. nextRtpSequenceNumber = (D * o + i) % M
  BY <1>2 DEF Holds
<1>4. Reach \in Nat /\ D * (Reach + 1) <= Half
  BY ReachIsNear
<1> DEFINE X == nextRtpSequenceNumber
<1>5. X = (D * o + i) % M
  BY <1>3
<1> HIDE DEF X
<1>6. /\ Before(X, Base(h)) <=> o < h
      /\ Before(X, Base(h) + D) <=> o <= h
      /\ \A j \in Data : X = Base(h) + j <=> o = h /\ i = j
  BY <1>4, <1>5, NearPackets
<1>7. \A j \in Data : D * o + i = D * o + j <=> i = j
  <2>1. D * o \in Int /\ \A j \in Data : j \in Int
    BY QueueAssumption DEF Data
  <2> QED
    BY <2>1
<1> QED
  BY <1>2, <1>6, <1>7 DEF X

\* The packet of block o waited for is at the index of the head.
LEMMA NextIsAtHead ==
    ASSUME NEW o, NEW b, Coming(o, b), NEW j \in Data, Current(b),
           Base(b) + j = nextRtpSequenceNumber
    PROVE  b = o /\ Expected(o, blocks) = D * o + j
<1>1. /\ o \in Nat /\ b \in Nat /\ b - o <= Reach /\ o - b <= Reach
  BY ListIsNear
<1> QED
  BY <1>1, WaitedFor DEF Coming

LEMMA CompletedIs ==
    ASSUME NEW block \in Block
    PROVE  /\ Completed(block) \in Block
           /\ Completed(block).from = block.from
           /\ Completed(block).base = block.base
           /\ Completed(block).queued = block.queued
           /\ Completed(block).index = block.index
           /\ Completed(block).allowDiscontinuity = block.allowDiscontinuity
           /\ Completed(block).marks \subseteq block.marks
<1>1. CASE Cardinality(Shard \ block.marks) >= D
  <2>1. Completed(block) =
          [block EXCEPT !.marks = @ \ Data, !.fullyReassembled = TRUE]
    BY <1>1 DEF Completed
  <2> QED
    BY <2>1, ZenonT(30) DEF Block
<1>2. CASE ~(Cardinality(Shard \ block.marks) >= D)
  BY <1>2 DEF Completed
<1> QED
  BY <1>1, <1>2

-----------------------------------------------------------------------------
(* The packet that comes, as far as the network and the host go. *)

LEMMA ArrivalIs ==
    ASSUME TypeOK, sent - newest <= Outage, NEW b, NEW i, Arrives(b, i)
    PROVE  /\ sent' = sent /\ sent' \in Nat /\ sent' - newest' <= Outage
           /\ b \in FirstBlock .. sent /\ b >= sent - Late /\ b \in Nat
           /\ i \in Shard /\ queueStatus # "ready"
           /\ newest' = IF newest < b THEN b ELSE newest
           /\ newest' \in FirstBlock .. sent' /\ lost' \in Nat
           /\ blocks = <<>> => lost' = 0
           /\ blocks # <<>> =>
                 lost' = lost + (IF newest < b THEN b - 1 - newest ELSE 0)
<1>1. /\ b \in FirstBlock .. sent /\ b >= sent - Late /\ i \in Shard
      /\ queueStatus # "ready" /\ sent' = sent
      /\ newest' = IF b > newest THEN b ELSE newest
      /\ lost' = IF blocks = <<>> THEN 0 ELSE lost + PassedOver(b)
  BY DEF Arrives
<1>2. /\ sent \in Nat /\ newest \in FirstBlock .. sent /\ lost \in Nat
      /\ FirstBlock \in Nat
  BY QueueAssumption DEF TypeOK
<1>3. PassedOver(b) = IF newest < b THEN b - 1 - newest ELSE 0
  <2>1. newest + 1 \in Int /\ b - 1 \in Int
    BY <1>1, <1>2
  <2>2. Cardinality(newest + 1 .. b - 1) =
          IF newest + 1 > b - 1 THEN 0 ELSE (b - 1) - (newest + 1) + 1
    BY <2>1, FS_Interval
  <2> QED
    BY <1>1, <1>2, <2>2 DEF PassedOver
<1>4. newest' = (IF newest < b THEN b ELSE newest) /\ newest' \in FirstBlock .. sent'
  BY <1>1, <1>2
<1>5. sent' - newest' <= Outage
  BY <1>1, <1>2, <1>4, QueueAssumption
<1>6. lost' \in Nat
  BY <1>1, <1>2, <1>3
<1> QED
  BY <1>1, <1>2, <1>3, <1>4, <1>5, <1>6

LEMMA OrderIsTracked ==
    ASSUME TypeOK, NEW b \in Nat, NEW i \in Shard, TrackOrder(b, i)
    PROVE  oos' \in [last : Number, seen : BOOLEAN]
<1>1. oos \in [last : Number, seen : BOOLEAN]
  BY DEF TypeOK
<1>2. CASE i \in Data
  <2>1. i \in 0 .. D /\ i < D
    BY <1>2, QueueAssumption DEF Data
  <2>2. Base(b) + i \in Number
    BY <2>1, BaseStandsFor
  <2> QED
    BY <1>1, <1>2, <2>2 DEF TrackOrder, OosAfter, Before
<1>3. CASE i \notin Data
  BY <1>1, <1>3 DEF TrackOrder
<1> QED
  BY <1>2, <1>3

-----------------------------------------------------------------------------
(* The steps that leave the list as it is. *)

LEMMA BlockNumber ==
    ASSUME NEW b \in Nat
    PROVE  D * b \in Nat
  BY QueueAssumption

LEMMA WaitingIsSynchronized ==
    ASSUME StartsClear, TypeOK, NEW o \in FirstBlock + 1 .. newest + 1,
           Holds(o), KeepsUp(o)
    PROVE  ~Unsynchronized
<1> SUFFICES ASSUME synchronizing PROVE oldestRtpBaseSequenceNumber # 0
  BY DEF Unsynchronized
<1>1. o <= FirstBlock + 2 * Outage /\ FirstBlock \in Nat /\ o \in Int
  BY QueueAssumption DEF KeepsUp, TypeOK
<1>2. o \in FirstBlock + 1 .. FirstBlock + 2 * Outage
  BY <1>1, QueueAssumption
<1>3. Base(o) # 0
  BY <1>2 DEF StartsClear
<1> QED
  BY <1>3 DEF Holds

\* Once it is synchronized the queue waits for a block.
LEMMA Waits ==
    ASSUME IInv, ~incompatibleServer, ~Unsynchronized
    PROVE  \E o \in FirstBlock + 1 .. newest + 1 : Holds(o) /\ KeepsUp(o)
  BY DEF IInv, Unheard, Unsynchronized, Waiting

LEMMA HoldsStill ==
    ASSUME TypeOK, NEW o \in Nat, Holds(o), UNCHANGED queue,
           lost' \in Nat, blocks # <<>> => lost' >= lost
    PROVE  Holds(o)'
<1>1. blocks \in Seq(Block) /\ lost \in Nat /\ Keep \in Nat
  BY KeepIsEnough DEF TypeOK
<1>2. \A k \in 1 .. Len(blocks) : Owner(blocks[k]) - o <= Keep + lost + 1
  BY DEF Holds
<1>3. ASSUME NEW k \in 1 .. Len(blocks)
      PROVE  Owner(blocks[k]) - o <= Keep + lost' + 1
  <2>1. Owner(blocks[k]) \in Nat
    BY <1>1, OwnersAreNumbers DEF Holds
  <2>2. blocks # <<>>
    BY <1>1, Nonempty
  <2> QED
    BY <1>1, <1>2, <2>1, <2>2
<1> QED
  BY <1>3 DEF Holds, queue

LEMMA SendBlockKeeps ==
    ASSUME IInv, SendBlock
    PROVE  IInv'
<1> USE DEF SendBlock, queue
<1>1. TypeOK'
  BY DEF IInv, TypeOK
<1>2. (sent - newest <= Outage)'
  BY QueueAssumption DEF IInv, TypeOK
<1>3. Unheard => Unheard'
  BY DEF Unheard
<1>4. ASSUME NEW o, Waiting(o) PROVE Waiting(o)'
  BY <1>4 DEF Waiting, Holds, KeepsUp, GivingUp
<1> QED
  BY <1>1, <1>2, <1>3, <1>4 DEF IInv

LEMMA PassThroughKeeps ==
    ASSUME IInv, NEW b, NEW i, PassThrough(b, i)
    PROVE  IInv'
<1>1. TypeOK /\ sent - newest <= Outage /\ incompatibleServer
  BY DEF IInv, PassThrough
<1>2. /\ Arrives(b, i) /\ UNCHANGED <<queue, oos, incompatibleServer>>
      /\ IF i \in Data THEN heard' = D * b + i /\ queueStatus' = "now"
                       ELSE queueStatus' = "none" /\ UNCHANGED heard
  BY DEF PassThrough
<1>3. /\ sent' \in Nat /\ sent' - newest' <= Outage /\ b \in Nat
      /\ newest' = IF newest < b THEN b ELSE newest
      /\ newest' \in FirstBlock .. sent' /\ lost' \in Nat
      /\ blocks # <<>> =>
            lost' = lost + (IF newest < b THEN b - 1 - newest ELSE 0)
  BY <1>1, <1>2, ArrivalIs
<1>4. lost \in Nat /\ newest \in Nat /\ FirstBlock \in Nat
  BY <1>1, QueueAssumption DEF TypeOK
<1>5. heard' \in Nat \cup {-1} /\ queueStatus' \in {"now", "none"}
  <2>1. CASE i \in Data
    <3>1. i \in Nat /\ D * b \in Nat
      BY <1>3, <2>1, BlockNumber, QueueAssumption DEF Data
    <3> QED
      BY <1>2, <2>1, <3>1
  <2>2. CASE i \notin Data
    BY <1>1, <1>2, <2>2 DEF TypeOK
  <2> QED
    BY <2>1, <2>2
<1>6. TypeOK'
  BY <1>1, <1>2, <1>3, <1>5 DEF TypeOK, queue
<1>7. PICK o \in FirstBlock + 1 .. newest + 1 : Waiting(o)
  BY <1>1 DEF IInv, Unheard
<1>8. Holds(o)'
  <2>1. o \in Nat
    BY <1>4
  <2>2. blocks # <<>> => lost' >= lost
    BY <1>3, <1>4
  <2> QED
    BY <1>1, <1>2, <1>3, <1>7, <2>1, <2>2, HoldsStill DEF Waiting
<1>9. o \in FirstBlock + 1 .. newest' + 1
  BY <1>3, <1>4
<1>10. incompatibleServer'
  BY <1>1, <1>2
<1> QED
  BY <1>3, <1>5, <1>6, <1>8, <1>9, <1>10 DEF IInv, Waiting

LEMMA SynchronizeKeeps ==
    ASSUME StartsClear, IInv, NEW b, NEW i, Synchronize(b, i)
    PROVE  IInv'
<1>1. /\ TypeOK /\ sent - newest <= Outage
      /\ ~incompatibleServer /\ Unsynchronized
  BY DEF IInv, Synchronize
<1>2. Unheard
  BY <1>1, WaitingIsSynchronized DEF IInv, Waiting
<1>3. /\ Arrives(b, i) /\ TrackOrder(b, i)
      /\ nextRtpSequenceNumber' = (Base(b) + D) % M
      /\ oldestRtpBaseSequenceNumber' = (Base(b) + D) % M
      /\ queueStatus' = "none"
      /\ UNCHANGED <<blocks, synchronizing, incompatibleServer, heard>>
  BY DEF Synchronize
<1>4. /\ sent' = sent /\ sent' \in Nat /\ sent' - newest' <= Outage
      /\ b \in FirstBlock .. sent /\ b \in Nat /\ i \in Shard
      /\ newest' = IF newest < b THEN b ELSE newest
      /\ newest' \in FirstBlock .. sent' /\ lost' \in Nat
      /\ blocks = <<>> => lost' = 0
  BY <1>1, <1>3, ArrivalIs
<1>5. /\ FirstBlock \in Nat /\ Outage \in Nat /\ Outage >= 1
      /\ newest = FirstBlock /\ blocks = <<>> /\ heard = -1
  BY <1>2, QueueAssumption DEF Unheard
<1> DEFINE o == b + 1
<1>6. newest' = b /\ o \in FirstBlock + 1 .. newest' + 1 /\ o \in Nat
  BY <1>4, <1>5
<1>7. (Base(b) + D) % M = Base(o) /\ Base(o) = (D * o) % M /\ D * o \in Nat
  <2>1. D * b \in Int /\ D \in Int /\ D * (b + 1) = D * b + D
    BY <1>4, NextBlock, QueueAssumption
  <2>2. (((D * b) % M) + D) % M = (D * b + D) % M
    BY <2>1, RemainderOfSum
  <2> QED
    BY <1>6, <2>1, <2>2, BlockNumber DEF Base
<1>8. Base(o) \in Number
  BY <1>7, RemainderStandsFor
<1>9. TypeOK'
  <2>1. oos' \in [last : Number, seen : BOOLEAN]
    BY <1>1, <1>3, <1>4, OrderIsTracked
  <2> QED
    BY <1>1, <1>3, <1>4, <1>7, <1>8, <2>1 DEF TypeOK
<1>10. Expected(o, <<>>) = D * o
  BY <1>7 DEF Expected
<1> HIDE DEF o
<1>11. Len(<<>>) = 0
  OBVIOUS
<1>12. Holds(o)'
  BY <1>3, <1>5, <1>7, <1>10, <1>11 DEF Holds, QueueFrom
<1>13. KeepsUp(o)'
  <2>1. newest' - o <= Keep + lost' /\ o = newest' + 1
    <3>1. b \in Nat /\ newest' = b /\ lost' = 0 /\ Keep \in Nat
      BY <1>4, <1>5, <1>6, KeepIsEnough
    <3> QED
      BY ONLY <3>1 DEF o
  <2>2. o <= FirstBlock + 2 * Outage /\ newest' <= FirstBlock + Outage
    BY <1>1, <1>4, <1>5, <1>6 DEF o, TypeOK
  <2>3. heard' < Expected(o, blocks')
    BY <1>3, <1>5, <1>7, <1>10
  <2> QED
    BY <1>3, <1>5, <2>1, <2>2, <2>3 DEF KeepsUp, GivingUp, Ready
<1> QED
  BY <1>1, <1>3, <1>4, <1>6, <1>9, <1>12, <1>13 DEF IInv, Waiting

\* A packet of a block not heard of yet is not turned away.
LEMMA RejectedIsHeardOf ==
    ASSUME StartsClear, NEW o, NEW b, Coming(o, b), NEW i \in Shard,
           Current(b) => Fits(b, i) /\ ~Missing(b, i)
    PROVE  b <= newest
<1> SUFFICES ASSUME newest < b PROVE FALSE
  BY ListIsNear
<1>1. /\ o \in FirstBlock + 1 .. newest + 1 /\ o \in Nat /\ b \in Nat
      /\ newest \in Nat /\ b - o <= Reach /\ o - b <= Reach
      /\ \A k \in 1 .. Len(blocks) : Owner(blocks[k]) \in Nat
                                      /\ Owner(blocks[k]) <= newest
  BY ListIsNear DEF Coming
<1>2. Current(b)
  <2>1. Reach \in Nat /\ D * Reach <= Half
    BY ReachIsNear DEF Coming
  <2>2. o <= b
    BY <1>1
  <2>3. ~Before(Base(b), Base(o))
    BY <1>1, <2>1, <2>2, NearBlocks
  <2>4. ~Unsynchronized
    BY WaitingIsSynchronized DEF Coming
  <2> QED
    BY <2>3, <2>4 DEF Current, Coming, Holds
<1>3. ~Exists(Position(Base(b)), Base(b))
  <2> SUFFICES ASSUME Exists(Position(Base(b)), Base(b)) PROVE FALSE
    OBVIOUS
  <2> DEFINE p == Position(Base(b))
             d == IF Exists(p, Base(b)) THEN 0 ELSE 1
  <2>1. p \in 1 .. Len(blocks) + d /\ Owner(blocks[p]) = b /\ d = 0
    BY PositionIs
  <2>2. p \in 1 .. Len(blocks)
    <3>1. Len(blocks) \in Nat
      BY Nonempty DEF Coming, TypeOK
    <3> QED
      BY <2>1, <3>1
  <2> QED
    BY <1>1, <2>1, <2>2
<1> QED
  BY <1>2, <1>3 DEF Missing

LEMMA RejectKeeps ==
    ASSUME StartsClear, WithinHalfLap, IInv, NEW b, NEW i, Reject(b, i)
    PROVE  IInv'
<1>1. TypeOK /\ sent - newest <= Outage /\ ~incompatibleServer /\ ~Unsynchronized
  BY DEF IInv, Reject
<1>2. /\ Arrives(b, i) /\ TrackOrder(b, i) /\ queueStatus' = "none"
      /\ UNCHANGED <<queue, incompatibleServer, heard>>
      /\ Current(b) => Fits(b, i) /\ ~Missing(b, i)
  BY DEF Reject
<1>3. /\ sent' = sent /\ sent' \in Nat /\ sent' - newest' <= Outage
      /\ b \in FirstBlock .. sent /\ b \in Nat /\ b >= sent - Late
      /\ i \in Shard /\ queueStatus # "ready"
      /\ newest' = IF newest < b THEN b ELSE newest
      /\ newest' \in FirstBlock .. sent' /\ lost' \in Nat
      /\ blocks = <<>> => lost' = 0
      /\ blocks # <<>> =>
            lost' = lost + (IF newest < b THEN b - 1 - newest ELSE 0)
  BY <1>1, <1>2, ArrivalIs
<1>4. PICK o \in FirstBlock + 1 .. newest + 1 : Holds(o) /\ KeepsUp(o)
  BY <1>1, Waits
<1>5. lost \in Nat /\ newest \in Nat /\ FirstBlock \in Nat /\ o \in Nat
  BY <1>1, QueueAssumption DEF TypeOK
<1>6. b <= newest
  BY <1>1, <1>2, <1>3, <1>4, RejectedIsHeardOf DEF Coming
<1>7. newest' = newest /\ (blocks # <<>> => lost' = lost)
  BY <1>3, <1>5, <1>6
<1>8. TypeOK'
  <2>1. oos' \in [last : Number, seen : BOOLEAN]
    BY <1>1, <1>2, <1>3, OrderIsTracked
  <2> QED
    BY <1>1, <1>2, <1>3, <2>1 DEF TypeOK, queue
<1>9. Holds(o)'
  BY <1>1, <1>2, <1>3, <1>4, <1>5, <1>7, HoldsStill
<1>10. KeepsUp(o)'
  <2>1. newest' - o <= IF GivingUp' THEN Keep + lost' + 1 ELSE Keep + lost'
    <3>1. blocks = <<>> => o = newest + 1
      BY <1>4 DEF KeepsUp
    <3>2. newest - o <= IF GivingUp THEN Keep + lost + 1 ELSE Keep + lost
      BY <1>4 DEF KeepsUp
    <3>3. GivingUp' = GivingUp
      BY <1>2 DEF GivingUp, queue
    <3>4. /\ Keep \in Nat /\ lost \in Nat /\ newest \in Nat
          /\ o \in Nat /\ newest' = newest
          /\ blocks = <<>> => lost' = 0
          /\ blocks # <<>> => lost' = lost
      BY <1>3, <1>5, <1>7, KeepIsEnough
    <3>5. CASE blocks = <<>>
      <4>1. newest' - o <= Keep + lost' /\ newest' - o <= Keep + lost' + 1
        BY <3>1, <3>4, <3>5
      <4> QED
        BY <4>1
    <3>6. CASE blocks # <<>>
      BY <3>2, <3>3, <3>4, <3>6
    <3> QED
      BY <3>5, <3>6
  <2>2. GivingUp' <=> GivingUp
    BY <1>2 DEF GivingUp, queue
  <2> QED
    BY <1>2, <1>3, <1>4, <1>7, <2>1, <2>2 DEF KeepsUp, queue
<1> QED
  BY <1>1, <1>2, <1>3, <1>4, <1>7, <1>8, <1>9, <1>10 DEF IInv, Waiting

LEMMA SizeMismatchKeeps ==
    ASSUME IInv, NEW b, NEW i, SizeMismatch(b, i)
    PROVE  IInv'
<1>1. TypeOK /\ sent - newest <= Outage /\ ~incompatibleServer /\ ~Unsynchronized
  BY DEF IInv, SizeMismatch, Current
<1>2. /\ Arrives(b, i) /\ TrackOrder(b, i) /\ queueStatus' = "none"
      /\ incompatibleServer' = TRUE /\ UNCHANGED <<queue, heard>>
  BY DEF SizeMismatch
<1>3. /\ sent' = sent /\ sent' \in Nat /\ sent' - newest' <= Outage
      /\ b \in Nat /\ i \in Shard
      /\ newest' = IF newest < b THEN b ELSE newest
      /\ newest' \in FirstBlock .. sent' /\ lost' \in Nat
      /\ blocks # <<>> =>
            lost' = lost + (IF newest < b THEN b - 1 - newest ELSE 0)
  BY <1>1, <1>2, ArrivalIs
<1>4. PICK o \in FirstBlock + 1 .. newest + 1 : Holds(o) /\ KeepsUp(o)
  BY <1>1, Waits
<1>5. lost \in Nat /\ newest \in Nat /\ FirstBlock \in Nat /\ o \in Nat
  BY <1>1, QueueAssumption DEF TypeOK
<1>6. TypeOK'
  <2>1. oos' \in [last : Number, seen : BOOLEAN]
    BY <1>1, <1>2, <1>3, OrderIsTracked
  <2> QED
    BY <1>1, <1>2, <1>3, <2>1 DEF TypeOK, queue
<1>7. blocks # <<>> => lost' >= lost
  BY <1>3, <1>5
<1>8. Holds(o)'
  BY <1>1, <1>2, <1>3, <1>4, <1>5, <1>7, HoldsStill
<1>9. o \in FirstBlock + 1 .. newest' + 1
  BY <1>3, <1>5
<1> QED
  BY <1>2, <1>3, <1>6, <1>8, <1>9 DEF IInv, Waiting

-----------------------------------------------------------------------------
(* The packet waited for is handed on. *)

\* No block in the list is too far from the one waited for.
LEMMA ListIsClose ==
    ASSUME NEW n \in Nat, NEW s \in Seq(Block), NEW w, NEW c \in Int,
           QueueFrom(n, s), s # <<>> => Owner(s[Len(s)]) = w, w - n <= c
    PROVE  \A k \in 1 .. Len(s) : Owner(s[k]) - n <= c
<1> SUFFICES ASSUME NEW k \in 1 .. Len(s) PROVE Owner(s[k]) - n <= c
  OBVIOUS
<1>1. s # <<>>
  BY Nonempty
<1>2. Owner(s[k]) <= w /\ Len(s) \in 1 .. Len(s)
  BY <1>1, LastIsNewest
<1>3. Owner(s[k]) \in Nat /\ w \in Nat
  BY <1>1, <1>2, OwnersAreNumbers
<1> QED
  BY <1>2, <1>3

\* What a list is when the packet at its head has been handed on, and the head
\* freed when that was its last one.
LEMMA HeadSpent ==
    ASSUME NEW o \in Nat, NEW t \in Seq(Block), t # <<>>, QueueFrom(o, t),
           Owner(t[1]) = o, t[1].index = D - 1
    PROVE  /\ Tail(Stepped(t)) \in Seq(Block) /\ Tail(Stepped(t)) = Tail(t)
           /\ QueueFrom(o + 1, Tail(t)) /\ o + 1 \in Nat
           /\ Expected(o + 1, Tail(t)) = D * o + t[1].index + 1
           /\ Tail(t) # <<>> => /\ ~Tail(t)[1].allowDiscontinuity
                               /\ Owner(Tail(t)[Len(Tail(t))]) = Owner(t[Len(t)])
           /\ Tail(t) = <<>> => Owner(t[Len(t)]) = o
<1>1. /\ Tail(t) \in Seq(Block) /\ QueueFrom(o + 1, Tail(t))
      /\ \A k \in 1 .. Len(Tail(t)) : Untouched(Tail(t)[k])
      /\ Tail(t) = <<>> => Owner(t[Len(t)]) = o
      /\ Tail(t) # <<>> => Owner(Tail(t)[Len(Tail(t))]) = Owner(t[Len(t)])
  BY HeadFreed
<1>2. Tail(t) # <<>> => Untouched(Tail(t)[1])
  BY <1>1, Nonempty
<1>3. Tail(Stepped(t)) = Tail(t)
  BY SteppedIs
<1>4. D * o \in Nat /\ D * (o + 1) = D * o + D /\ D \in Nat
  BY BlockNumber, NextBlock, QueueAssumption
<1>5. Expected(o + 1, Tail(t)) = D * (o + 1) + 0
  BY <1>2 DEF Expected, Untouched
<1>6. D * (o + 1) + 0 = D * o + t[1].index + 1
  BY <1>4
<1>7. Tail(t) # <<>> => ~Tail(t)[1].allowDiscontinuity
  BY <1>2 DEF Untouched
<1>8. o + 1 \in Nat
  OBVIOUS
<1>9. Expected(o + 1, Tail(t)) = D * o + t[1].index + 1
  BY ONLY <1>5, <1>6
<1> QED
  BY ONLY <1>1, <1>3, <1>7, <1>8, <1>9

LEMMA HeadKept ==
    ASSUME NEW o \in Nat, NEW t \in Seq(Block), t # <<>>, QueueFrom(o, t),
           Owner(t[1]) = o, t[1].index # D - 1
    PROVE  /\ Stepped(t) \in Seq(Block) /\ Stepped(t) # <<>>
           /\ QueueFrom(o, Stepped(t)) /\ Owner(Stepped(t)[1]) = o
           /\ Expected(o, Stepped(t)) = D * o + t[1].index + 1
           /\ Stepped(t)[1].allowDiscontinuity = t[1].allowDiscontinuity
           /\ Len(Stepped(t)) = Len(t)
           /\ Owner(Stepped(t)[Len(t)]) = Owner(t[Len(t)])
<1>1. 1 \in 1 .. Len(t) /\ Len(t) \in Nat /\ t[1] \in Block
  BY Nonempty
<1>2. /\ Len(Stepped(t)) = Len(t)
      /\ \A k \in 1 .. Len(t) : k # 1 => Stepped(t)[k] = t[k]
      /\ Stepped(t)[1].base = t[1].base
      /\ Stepped(t)[1].from = t[1].from
      /\ Stepped(t)[1].queued = t[1].queued
      /\ Stepped(t)[1].index = t[1].index + 1
      /\ Stepped(t)[1].allowDiscontinuity = t[1].allowDiscontinuity
      /\ Stepped(t) \in Seq(Block) /\ Stepped(t)[1] \in Block
  BY SteppedIs
<1>3. /\ Stepped(t) # <<>> /\ QueueFrom(o, Stepped(t))
      /\ Owner(Stepped(t)[1]) = o
      /\ \A k \in 1 .. Len(t) : Owner(Stepped(t)[k]) = Owner(t[k])
  BY <1>2, HeadChanged
<1>4. Owner(Stepped(t)[Len(t)]) = Owner(t[Len(t)])
  <2>1. Len(t) \in 1 .. Len(t)
    BY <1>1
  <2> QED
    BY <1>3, <2>1
<1>5. Expected(o, Stepped(t)) = D * o + (t[1].index + 1)
  BY <1>2, <1>3 DEF Expected
<1>6. D * o + (t[1].index + 1) = D * o + t[1].index + 1
  <2>1. D * o \in Nat /\ t[1].index \in Nat
    BY <1>1, BlockFields, BlockNumber
  <2> QED
    BY ONLY <2>1
<1>7. Expected(o, Stepped(t)) = D * o + t[1].index + 1
  BY ONLY <1>5, <1>6
<1> QED
  BY ONLY <1>2, <1>3, <1>4, <1>7

\* The block waited for when the packet at the head of t has been handed on.
After(o, t) == IF t[1].index = D - 1 THEN o + 1 ELSE o

LEMMA HeadMoved ==
    ASSUME NEW o \in Nat, NEW t \in Seq(Block), t # <<>>, QueueFrom(o, t),
           Owner(t[1]) = o, ReleaseHead(Stepped(t), t[1].index = D - 1),
           nextRtpSequenceNumber' = (D * o + t[1].index + 1) % M,
           oldestRtpBaseSequenceNumber = Base(o), synchronizing \in BOOLEAN,
           lost' \in Nat, Owner(t[Len(t)]) - o <= Keep + lost' + 1,
           NEW n, n = After(o, t)
    PROVE  /\ blocks' \in Seq(Block) /\ n \in Nat
           /\ o <= n /\ n <= Owner(t[Len(t)]) + 1
           /\ oldestRtpBaseSequenceNumber' \in Number
           /\ nextRtpSequenceNumber' \in Number /\ synchronizing' \in BOOLEAN
           /\ Holds(n)'
           /\ Expected(n, blocks') = D * o + t[1].index + 1
           /\ IF blocks' = <<>>
              THEN n = Owner(t[Len(t)]) + 1
              ELSE Owner(blocks'[Len(blocks')]) = Owner(t[Len(t)])
           /\ n = o =>
                 /\ blocks' # <<>> /\ Owner(blocks'[1]) = o
                 /\ blocks'[1].allowDiscontinuity = t[1].allowDiscontinuity
                 /\ synchronizing' = synchronizing
           /\ n # o =>
                 ~synchronizing' /\ ~GivingUp' /\ n = o + 1
<1> DEFINE l == lost'
           w == Owner(t[Len(t)])
<1>0. l \in Nat /\ w \in Nat /\ w - o <= Keep + l + 1
  <2>1. Len(t) \in 1 .. Len(t)
    BY Nonempty
  <2> QED
    BY <2>1, OwnersAreNumbers
<1> HIDE DEF l
<1>1. /\ n \in Nat /\ o <= n /\ o <= w
      /\ t[1].index = D - 1 <=> n = o + 1
      /\ t[1].index # D - 1 <=> n = o
  <2>1. o <= w
    <3>1. 1 \in 1 .. Len(t)
      BY Nonempty
    <3> QED
      BY <3>1, Nonempty, LastIsNewest
  <2> QED
    BY <2>1 DEF After
<1> HIDE DEF w
<1>2. t[1].index \in Nat /\ D * o \in Nat
  <2>1. t[1] \in Block
    BY Nonempty
  <2> QED
    BY <2>1, BlockFields, BlockNumber
<1>3. nextRtpSequenceNumber' \in Number
  <2>1. D * o + t[1].index + 1 \in Int
    BY <1>2
  <2> QED
    BY <2>1, Quotient
<1>4. Base(o) \in Number
  <2>1. o \in Int /\ 0 \in 0 .. D
    BY QueueAssumption
  <2> QED
    BY <2>1, BaseStandsFor
<1>5. /\ blocks' \in Seq(Block) /\ QueueFrom(n, blocks')
      /\ Expected(n, blocks') = D * o + t[1].index + 1
      /\ oldestRtpBaseSequenceNumber' = Base(n)
      /\ oldestRtpBaseSequenceNumber' \in Number /\ synchronizing' \in BOOLEAN
      /\ IF blocks' = <<>> THEN n = w + 1
                           ELSE Owner(blocks'[Len(blocks')]) = w
      /\ n = o => /\ blocks' # <<>> /\ Owner(blocks'[1]) = o
                  /\ blocks'[1].allowDiscontinuity = t[1].allowDiscontinuity
                  /\ synchronizing' = synchronizing
      /\ n # o => ~synchronizing' /\ ~GivingUp'
  <2>1. CASE t[1].index = D - 1
    <3>1. /\ blocks' = Tail(t) /\ synchronizing' = FALSE
          /\ oldestRtpBaseSequenceNumber' = (Stepped(t)[1].base + D) % M
      BY <2>1, SteppedIs DEF ReleaseHead
    <3>2. /\ Tail(t) \in Seq(Block) /\ QueueFrom(o + 1, Tail(t))
          /\ Expected(o + 1, Tail(t)) = D * o + t[1].index + 1
          /\ Tail(t) # <<>> => /\ ~Tail(t)[1].allowDiscontinuity
                               /\ Owner(Tail(t)[Len(Tail(t))]) = w
          /\ Tail(t) = <<>> => w = o
      BY <2>1, HeadSpent DEF w
    <3>3. Stepped(t)[1].base = Base(o)
      <4>1. 1 \in 1 .. Len(t)
        BY Nonempty
      <4> QED
        BY <4>1, SteppedIs DEF QueueFrom, OfOne
    <3>4. (Base(o) + D) % M = Base(o + 1)
      <4>1. D * o \in Int /\ D \in Int /\ D * (o + 1) = D * o + D
        BY <1>2, NextBlock, QueueAssumption
      <4> QED
        BY <4>1, RemainderOfSum DEF Base
    <3>5. Base(o + 1) \in Number
      <4>1. o + 1 \in Int
        OBVIOUS
      <4> QED
        BY <4>1, BaseStandsFor, QueueAssumption
    <3>6. n = o + 1
      BY <1>1, <2>1
    <3>7. ~GivingUp'
      BY <3>1, <3>2 DEF GivingUp
    <3> QED
      BY <1>1, <2>1, <3>1, <3>2, <3>3, <3>4, <3>5, <3>6, <3>7
  <2>2. CASE t[1].index # D - 1
    <3>1. /\ blocks' = Stepped(t) /\ synchronizing' = synchronizing
          /\ oldestRtpBaseSequenceNumber' = oldestRtpBaseSequenceNumber
      BY <2>2 DEF ReleaseHead
    <3>2. /\ Stepped(t) \in Seq(Block) /\ Stepped(t) # <<>>
          /\ QueueFrom(o, Stepped(t)) /\ Owner(Stepped(t)[1]) = o
          /\ Expected(o, Stepped(t)) = D * o + t[1].index + 1
          /\ Stepped(t)[1].allowDiscontinuity = t[1].allowDiscontinuity
          /\ Len(Stepped(t)) = Len(t)
          /\ Owner(Stepped(t)[Len(t)]) = w
      BY <2>2, HeadKept DEF w
    <3> QED
      BY <1>1, <1>4, <2>2, <3>1, <3>2
  <2> QED
    BY <2>1, <2>2
<1>6. n <= w + 1
  BY <1>0, <1>1
<1>7. \A k \in 1 .. Len(blocks') : Owner(blocks'[k]) - n <= Keep + lost' + 1
  <2> DEFINE c == Keep + l + 1
  <2>1. c \in Int /\ w - n <= c
    BY <1>0, <1>1, KeepIsEnough
  <2>2. c = Keep + lost' + 1
    BY DEF l
  <2> HIDE DEF c
  <2>3. \A k \in 1 .. Len(blocks') : Owner(blocks'[k]) - n <= c
    BY <1>0, <1>1, <1>5, <2>1, ListIsClose
  <2> QED
    BY <2>2, <2>3
<1>8. Holds(n)'
  BY <1>5, <1>7 DEF Holds
<1>9. n # o => n = o + 1
  BY <1>1
<1> QED
  BY ONLY <1>1, <1>3, <1>5, <1>6, <1>8, <1>9 DEF w

-----------------------------------------------------------------------------
(* The receive thread takes what is ready. *)

\* The head that is returned is the block waited for.
LEMMA ReadyHeadIs ==
    ASSUME WithinHalfLap, IInv, queueStatus = "ready",
           Ready(blocks, nextRtpSequenceNumber)
    PROVE  /\ ~incompatibleServer /\ blocks # <<>>
           /\ \E o \in FirstBlock + 1 .. newest + 1 :
                 /\ Holds(o) /\ KeepsUp(o) /\ Owner(blocks[1]) = o
                 /\ Expected(o, blocks) = D * o + blocks[1].index
<1>1. TypeOK /\ ~incompatibleServer /\ ~Unheard
  BY DEF IInv, Unheard
<1>2. PICK o \in FirstBlock + 1 .. newest + 1 : Holds(o) /\ KeepsUp(o)
  BY <1>1 DEF IInv, Waiting
<1>3. blocks # <<>> /\ blocks \in Seq(Block)
  BY <1>1 DEF Ready, TypeOK
<1>4. 1 \in 1 .. Len(blocks) /\ blocks[1] \in Block
  BY <1>3, Nonempty
<1>5. o \in Nat /\ newest \in Nat /\ lost \in Nat /\ Outage \in Nat
  BY <1>1, QueueAssumption DEF TypeOK
<1> DEFINE h == Owner(blocks[1])
<1>6. /\ h \in Nat /\ o <= h /\ blocks[1].base = Base(h)
      /\ h - o <= Keep + lost + 1 /\ (h = o \/ Untouched(blocks[1]))
  BY <1>2, <1>3, <1>4, OwnersAreNumbers DEF Holds, QueueFrom, OfOne
<1> HIDE DEF h
<1>7. h = o
  <2>1. CASE blocks[1].allowDiscontinuity
    BY <1>6, <2>1 DEF Untouched
  <2>2. CASE blocks[1].base + blocks[1].index = nextRtpSequenceNumber
    <3>1. h - o <= Reach /\ o - h <= Reach
      BY <1>5, <1>6, KeepIsEnough DEF Reach
    <3>2. blocks[1].index \in Data
      BY <1>4, BlockFields
    <3>3. \A j \in Data : nextRtpSequenceNumber = Base(h) + j
                             <=> o = h /\ Expected(o, blocks) = D * o + j
      BY <1>1, <1>2, <1>5, <1>6, <3>1, WaitedFor
    <3> QED
      BY <1>6, <2>2, <3>2, <3>3
  <2> QED
    BY <2>1, <2>2 DEF Ready
<1>8. Expected(o, blocks) = D * o + blocks[1].index
  BY <1>3, <1>7 DEF Expected, h
<1> QED
  BY <1>1, <1>2, <1>3, <1>7, <1>8 DEF h

LEMMA TakenKeeps ==
    ASSUME WithinHalfLap, IInv, queueStatus = "ready",
           Ready(blocks, nextRtpSequenceNumber),
           nextRtpSequenceNumber' = (nextRtpSequenceNumber + 1) % M,
           ReleaseHead(Returned, Returned[1].index = D),
           UNCHANGED <<oos, incompatibleServer, queueStatus, sent, newest, lost>>,
           \A o \in Nat : Owner(blocks[1]) = o =>
                heard' \in {heard, D * o + blocks[1].index}
    PROVE  IInv'
<1>1. /\ TypeOK /\ ~incompatibleServer /\ blocks # <<>>
      /\ sent - newest <= Outage
  BY ReadyHeadIs DEF IInv
<1>2. PICK o \in FirstBlock + 1 .. newest + 1 :
            /\ Holds(o) /\ KeepsUp(o) /\ Owner(blocks[1]) = o
            /\ Expected(o, blocks) = D * o + blocks[1].index
  BY ReadyHeadIs
<1>3. /\ o \in Nat /\ newest \in Nat /\ lost \in Nat /\ FirstBlock \in Nat
      /\ blocks \in Seq(Block) /\ sent \in Nat /\ heard \in Nat \cup {-1}
      /\ synchronizing \in BOOLEAN /\ newest \in FirstBlock .. sent
  BY <1>1, QueueAssumption DEF TypeOK
<1>4. 1 \in 1 .. Len(blocks) /\ blocks[1] \in Block
  BY <1>1, <1>3, Nonempty
<1>5. /\ blocks[1].index \in Nat /\ D * o \in Nat /\ D \in Nat
      /\ blocks[1].index \in Data
  BY <1>3, <1>4, BlockFields, BlockNumber, QueueAssumption
<1>6. Returned = Stepped(blocks) /\ Returned[1].index = blocks[1].index + 1
  <2>1. Returned = Stepped(blocks)
    BY DEF Returned, Stepped
  <2> QED
    BY <1>1, <1>3, <2>1, SteppedIs
<1>7. ReleaseHead(Stepped(blocks), blocks[1].index = D - 1)
  <2>1. Returned[1].index = D <=> blocks[1].index = D - 1
    BY <1>5, <1>6
  <2> QED
    BY <1>6, <2>1 DEF ReleaseHead
<1>8. nextRtpSequenceNumber' = (D * o + blocks[1].index + 1) % M
  <2> DEFINE x == D * o + blocks[1].index
  <2>1. x \in Int /\ nextRtpSequenceNumber = x % M
    BY <1>2, <1>5 DEF Holds
  <2> HIDE DEF x
  <2>2. ((x % M) + 1) % M = (x + 1) % M
    BY <2>1, RemainderOfSum
  <2>3. nextRtpSequenceNumber' = (x + 1) % M
    BY <2>1, <2>2
  <2> QED
    BY <2>3 DEF x
<1>9. QueueFrom(o, blocks) /\ oldestRtpBaseSequenceNumber = Base(o)
  BY <1>2 DEF Holds
<1>10. /\ Owner(blocks[Len(blocks)]) = newest /\ newest - o <= Keep + lost + 1
       /\ ~blocks[1].allowDiscontinuity => newest - o <= Keep + lost
       /\ synchronizing => o <= FirstBlock + 2 * Outage
       /\ heard < D * o + blocks[1].index
  <2>1. newest - o <= IF GivingUp THEN Keep + lost + 1 ELSE Keep + lost
    BY <1>2 DEF KeepsUp
  <2>2. GivingUp <=> blocks[1].allowDiscontinuity
    BY <1>1 DEF GivingUp
  <2>3. newest - o <= Keep + lost => newest - o <= Keep + lost + 1
    BY <1>3, KeepIsEnough
  <2> QED
    BY <1>1, <1>2, <2>1, <2>2, <2>3 DEF KeepsUp
<1> PICK n : n = After(o, blocks)
  OBVIOUS
<1>11. /\ blocks' \in Seq(Block) /\ n \in Nat /\ o <= n /\ n <= newest + 1
       /\ oldestRtpBaseSequenceNumber' \in Number
       /\ nextRtpSequenceNumber' \in Number /\ synchronizing' \in BOOLEAN
       /\ Holds(n)' /\ Expected(n, blocks') = D * o + blocks[1].index + 1
       /\ IF blocks' = <<>> THEN n = newest + 1
                            ELSE Owner(blocks'[Len(blocks')]) = newest
       /\ n = o => /\ blocks' # <<>> /\ Owner(blocks'[1]) = o
                   /\ blocks'[1].allowDiscontinuity = blocks[1].allowDiscontinuity
                   /\ synchronizing' = synchronizing
       /\ n # o => ~synchronizing' /\ ~GivingUp' /\ n = o + 1
  <2>1. lost' \in Nat /\ Owner(blocks[Len(blocks)]) - o <= Keep + lost' + 1
    BY <1>3, <1>10
  <2>2. /\ blocks # <<>> /\ Owner(blocks[1]) = o
        /\ Owner(blocks[Len(blocks)]) = newest
    BY <1>1, <1>2, <1>10
  <2> QED
    BY ONLY <1>3, <1>7, <1>8, <1>9, <2>1, <2>2, n = After(o, blocks),
            HeadMoved
<1>12. heard' \in Nat \cup {-1} /\ heard' < Expected(n, blocks')
  <2>1. heard' \in {heard, D * o + blocks[1].index}
    BY <1>2, <1>3
  <2>2. Expected(n, blocks') = D * o + blocks[1].index + 1
    BY <1>11
  <2>3. heard < D * o + blocks[1].index
    BY <1>10
  <2>4. D * o + blocks[1].index \in Nat
    BY <1>5
  <2> QED
    BY ONLY <1>3, <2>1, <2>2, <2>3, <2>4
<1>13. newest' - n <= IF GivingUp' THEN Keep + lost' + 1 ELSE Keep + lost'
  <2>1. newest' = newest /\ lost' = lost /\ Keep \in Nat
    BY KeepIsEnough
  <2>2. CASE n = o
    <3>1. GivingUp' => blocks[1].allowDiscontinuity
      BY <1>11, <2>2 DEF GivingUp
    <3>2. newest - n <= Keep + lost + 1
      BY <1>10, <2>2
    <3>3. ~blocks[1].allowDiscontinuity => newest - n <= Keep + lost
      BY <1>10, <2>2
    <3>4. ~GivingUp' => newest - n <= Keep + lost
      BY <1>11, <2>2, <3>3 DEF GivingUp
    <3> QED
      BY <2>1, <3>2, <3>4
  <2>3. CASE n # o
    <3>1. newest - n <= Keep + lost
      BY <1>3, <1>10, <1>11, <2>1, <2>3
    <3> QED
      BY <1>11, <2>1, <2>3, <3>1
  <2> QED
    BY <2>2, <2>3
<1>14. KeepsUp(n)'
  <2>1. synchronizing' => /\ n <= FirstBlock + 2 * Outage /\ blocks' # <<>>
                          /\ Owner(blocks'[1]) = n
    BY <1>10, <1>11
  <2>2. newest' = newest /\ queueStatus' = "ready"
    OBVIOUS
  <2> QED
    BY ONLY <1>11, <1>12, <1>13, <2>1, <2>2 DEF KeepsUp
<1>15. TypeOK'
  BY <1>1, <1>3, <1>11, <1>12 DEF TypeOK
<1>16. n \in FirstBlock + 1 .. newest' + 1
  <2>1. o >= FirstBlock + 1
    BY <1>2, <1>3
  <2> QED
    BY <1>3, <1>11, <2>1
<1>17. Holds(n)' /\ sent' - newest' <= Outage /\ ~incompatibleServer'
  BY <1>1, <1>11
<1> QED
  BY ONLY <1>14, <1>15, <1>16, <1>17 DEF IInv, Waiting

LEMMA ConcealKeeps ==
    ASSUME WithinHalfLap, IInv, Conceal
    PROVE  IInv'
<1>1. Ready(blocks, nextRtpSequenceNumber)
  BY DEF Conceal, Ready
<1>2. \A o \in Nat : Owner(blocks[1]) = o =>
         heard' \in {heard, D * o + blocks[1].index}
  BY DEF Conceal
<1> QED
  BY <1>1, <1>2, TakenKeeps DEF Conceal

LEMMA DeliverKeeps ==
    ASSUME WithinHalfLap, IInv, Deliver
    PROVE  IInv'
<1>1. \A o \in Nat : Owner(blocks[1]) = o =>
         heard' \in {heard, D * o + blocks[1].index}
  BY DEF Deliver, Owner
<1> QED
  BY <1>1, TakenKeeps DEF Deliver

LEMMA DrainedKeeps ==
    ASSUME IInv, Drained
    PROVE  IInv'
<1>1. /\ queueStatus = "ready" /\ ~Ready(blocks, nextRtpSequenceNumber)
      /\ queueStatus' = "none"
      /\ UNCHANGED <<queue, oos, incompatibleServer, sent, newest, lost, heard>>
  BY DEF Drained
<1>2. TypeOK /\ ~incompatibleServer /\ ~Unheard /\ sent - newest <= Outage
  BY <1>1 DEF IInv, Unheard
<1>3. PICK o \in FirstBlock + 1 .. newest + 1 : Holds(o) /\ KeepsUp(o)
  BY <1>2 DEF IInv, Waiting
<1>4. ~GivingUp
  BY <1>1 DEF GivingUp, Ready
<1>5. KeepsUp(o)'
  BY <1>1, <1>3, <1>4 DEF KeepsUp, GivingUp, Ready, queue
<1>6. Holds(o)' /\ TypeOK'
  BY <1>1, <1>2, <1>3 DEF Holds, TypeOK, queue
<1> QED
  BY <1>1, <1>2, <1>5, <1>6 DEF IInv, Waiting

-----------------------------------------------------------------------------
(* The packet that comes is the one waited for. *)

\* What is stored of the packet waited for is the head of the list.
LEMMA ComesFirst ==
    ASSUME NEW o, Coming(o, o), NEW i \in Data, Accepts(o, i),
           Base(o) + i = nextRtpSequenceNumber
    PROVE  /\ Stored(o, i) \in Seq(Block) /\ Stored(o, i) # <<>>
           /\ QueueFrom(o, Stored(o, i)) /\ Position(Base(o)) = 1
           /\ Owner(Stored(o, i)[1]) = o /\ Stored(o, i)[1].index = i
           /\ ~GivingUp => ~Stored(o, i)[1].allowDiscontinuity
           /\ Owner(Stored(o, i)[Len(Stored(o, i))])
                = IF newest < o THEN o ELSE newest
<1> DEFINE p == Position(Base(o))
           d == IF Exists(p, Base(o)) THEN 0 ELSE 1
           t == Stored(o, i)
<1>1. i \in Shard /\ i \in Nat /\ o \in Nat /\ D * o \in Nat
  BY ListIsNear, BlockNumber, QueueAssumption DEF Data, Shard
<1>2. Current(o) /\ Expected(o, blocks) = D * o + i
  BY NextIsAtHead DEF Accepts
<1>3. /\ t \in Seq(Block) /\ Placed(blocks, p, d, o, t)
      /\ OfOne(t[p]) /\ Owner(t[p]) = o /\ QueueFrom(o, t)
      /\ d = 0 => /\ t[p].index = blocks[p].index
                  /\ t[p].allowDiscontinuity = blocks[p].allowDiscontinuity
      /\ d = 1 => Untouched(t[p])
  BY <1>1, StoredIs
<1>4. /\ p \in 1 .. Len(blocks) + d
      /\ d = 0 => Owner(blocks[p]) = o
      /\ d = 1 => \A k \in 1 .. Len(blocks) : Owner(blocks[k]) # o
  BY PositionIs
<1>5. d \in {0, 1}
  OBVIOUS
<1> HIDE DEF p, d, t
<1>6. /\ t # <<>> /\ (p # 1 => blocks # <<>> /\ Owner(blocks[1]) < o)
      /\ Owner(t[Len(t)]) = IF newest < o THEN o ELSE newest
  BY <1>1, <1>3, EndsAre
<1>7. blocks \in Seq(Block) /\ Len(blocks) \in Nat
  BY Nonempty DEF Coming, TypeOK
<1>8. blocks # <<>> => 1 \in 1 .. Len(blocks) /\ o <= Owner(blocks[1])
                       /\ Owner(blocks[1]) \in Nat
  <2>1. blocks # <<>> => 1 \in 1 .. Len(blocks)
    BY <1>7, Nonempty
  <2> QED
    BY <2>1, ListIsNear
<1>9. p = 1
  BY <1>1, <1>6, <1>8
<1>10. t[1].index = i /\ (~GivingUp => ~t[1].allowDiscontinuity)
  <2>1. CASE d = 0
    <3>1. blocks # <<>> /\ Owner(blocks[1]) = o
      BY <1>4, <1>7, <1>9, <2>1, Nonempty
    <3>2. blocks[1].index \in Nat
      BY <1>7, <1>8, <3>1, BlockFields, Nonempty
    <3>3. Expected(o, blocks) = D * o + blocks[1].index
      BY <3>1 DEF Expected
    <3>4. blocks[1].index = i
      BY <1>1, <1>2, <3>2, <3>3
    <3> QED
      BY <1>3, <1>9, <2>1, <3>1, <3>4 DEF GivingUp
  <2>2. CASE d = 1
    <3>1. ~(blocks # <<>> /\ Owner(blocks[1]) = o)
      BY <1>4, <1>8, <2>2
    <3>2. Expected(o, blocks) = D * o + 0
      BY <3>1 DEF Expected
    <3>3. i = 0
      BY <1>1, <1>2, <3>2
    <3> QED
      BY <1>3, <1>9, <2>2, <3>3 DEF Untouched
  <2> QED
    BY <1>5, <2>1, <2>2
<1>11. Owner(t[1]) = o
  BY <1>3, <1>9
<1> QED
  BY <1>3, <1>6, <1>9, <1>10, <1>11 DEF t, p

LEMMA HandleNowKeeps ==
    ASSUME StartsClear, WithinHalfLap, IInv, NEW b, NEW i, HandleNow(b, i)
    PROVE  IInv'
<1>1. /\ TypeOK /\ sent - newest <= Outage /\ ~incompatibleServer
      /\ ~Unsynchronized /\ Accepts(b, i) /\ Current(b)
  BY DEF IInv, HandleNow, Accepts, Current
<1>2. /\ Arrives(b, i) /\ TrackOrder(b, i) /\ queueStatus' = "now"
      /\ i \in Data /\ Base(b) + i = nextRtpSequenceNumber
      /\ nextRtpSequenceNumber' = (Base(b) + i + 1) % M
      /\ ReleaseHead([Stored(b, i) EXCEPT
                          ![Position(Base(b))].index = @ + 1], i = D - 1)
      /\ heard' = D * b + i /\ UNCHANGED incompatibleServer
  BY DEF HandleNow
<1>3. /\ sent' = sent /\ sent' \in Nat /\ sent' - newest' <= Outage
      /\ b \in FirstBlock .. sent /\ b \in Nat /\ b >= sent - Late
      /\ i \in Shard /\ queueStatus # "ready"
      /\ newest' = IF newest < b THEN b ELSE newest
      /\ newest' \in FirstBlock .. sent' /\ lost' \in Nat
  BY <1>1, <1>2, ArrivalIs
<1>4. PICK o \in FirstBlock + 1 .. newest + 1 : Holds(o) /\ KeepsUp(o)
  BY <1>1, Waits
<1>5. /\ newest \in Nat /\ FirstBlock \in Nat /\ o \in Nat /\ Late \in Nat
      /\ sent \in Nat
  BY <1>1, QueueAssumption DEF TypeOK
<1>6. Coming(o, b)
  BY <1>1, <1>3, <1>4 DEF Coming
<1>7. b = o
  BY <1>1, <1>2, <1>6, NextIsAtHead
<1> DEFINE t == Stored(o, i)
<1>8. /\ t \in Seq(Block) /\ t # <<>> /\ QueueFrom(o, t)
      /\ Position(Base(o)) = 1 /\ Owner(t[1]) = o /\ t[1].index = i
      /\ ~GivingUp => ~t[1].allowDiscontinuity
      /\ Owner(t[Len(t)]) = IF newest < o THEN o ELSE newest
  BY <1>1, <1>2, <1>6, <1>7, ComesFirst
<1>9. ReleaseHead(Stepped(t), t[1].index = D - 1)
  <2>1. ReleaseHead([t EXCEPT ![1].index = @ + 1], i = D - 1)
    BY <1>2, <1>7, <1>8
  <2>2. [t EXCEPT ![1].index = @ + 1] = Stepped(t)
    BY DEF Stepped
  <2> HIDE DEF t
  <2> QED
    BY <1>8, <2>1, <2>2
<1> HIDE DEF t
<1>10. /\ i \in Nat /\ D * o \in Nat
  BY <1>2, <1>5, BlockNumber, QueueAssumption DEF Data
<1>11. nextRtpSequenceNumber' = (D * o + t[1].index + 1) % M
  <2>1. (((D * o) % M) + (i + 1)) % M = (D * o + (i + 1)) % M
    <3>1. D * o \in Int /\ i + 1 \in Int
      BY <1>10
    <3> QED
      BY <3>1, RemainderOfSum
  <2>2. ((D * o) % M) + i + 1 = ((D * o) % M) + (i + 1)
    <3>1. (D * o) % M \in Nat
      BY <1>10, QueueAssumption
    <3> QED
      BY <1>10, <3>1
  <2>3. D * o + (i + 1) = D * o + i + 1
    BY <1>10
  <2>4. nextRtpSequenceNumber' = (((D * o) % M) + i + 1) % M
    BY <1>2, <1>7 DEF Base
  <2> QED
    BY ONLY <1>8, <2>1, <2>2, <2>3, <2>4
<1>12. Owner(t[Len(t)]) = newest' /\ newest' - o <= Late
  BY <1>3, <1>5, <1>7, <1>8
<1>13. PICK n : n = After(o, t)
  OBVIOUS
<1>14. /\ blocks' \in Seq(Block) /\ n \in Nat /\ o <= n /\ n <= newest' + 1
       /\ oldestRtpBaseSequenceNumber' \in Number
       /\ nextRtpSequenceNumber' \in Number /\ synchronizing' \in BOOLEAN
       /\ Holds(n)' /\ Expected(n, blocks') = D * o + t[1].index + 1
       /\ IF blocks' = <<>> THEN n = newest' + 1
                            ELSE Owner(blocks'[Len(blocks')]) = newest'
       /\ n = o => /\ blocks' # <<>> /\ Owner(blocks'[1]) = o
                   /\ blocks'[1].allowDiscontinuity = t[1].allowDiscontinuity
                   /\ synchronizing' = synchronizing
       /\ n # o => ~synchronizing' /\ ~GivingUp' /\ n = o + 1
  <2>1. /\ oldestRtpBaseSequenceNumber = Base(o) /\ synchronizing \in BOOLEAN
    BY <1>1, <1>4 DEF Holds, TypeOK
  <2> DEFINE l == lost'
  <2>2. l \in Nat /\ Owner(t[Len(t)]) - o <= Keep + l + 1
    <3> DEFINE w == newest'
    <3>1. w - o <= Late /\ w \in Nat /\ o \in Nat /\ l \in Nat /\ Late \in Nat
      BY <1>3, <1>5, <1>12
    <3> HIDE DEF w, l
    <3>2. w - o <= Keep + l + 1
      BY <3>1, KeepIsEnough
    <3> QED
      BY <1>12, <3>1, <3>2 DEF w
  <2>3. lost' \in Nat /\ Owner(t[Len(t)]) - o <= Keep + lost' + 1
    BY <2>2
  <2> HIDE DEF l
  <2>4. /\ t \in Seq(Block) /\ t # <<>> /\ QueueFrom(o, t) /\ Owner(t[1]) = o
    BY <1>8
  <2>5. /\ blocks' \in Seq(Block) /\ n \in Nat /\ o <= n
        /\ n <= Owner(t[Len(t)]) + 1
        /\ oldestRtpBaseSequenceNumber' \in Number
        /\ nextRtpSequenceNumber' \in Number /\ synchronizing' \in BOOLEAN
        /\ Holds(n)' /\ Expected(n, blocks') = D * o + t[1].index + 1
        /\ IF blocks' = <<>>
           THEN n = Owner(t[Len(t)]) + 1
           ELSE Owner(blocks'[Len(blocks')]) = Owner(t[Len(t)])
        /\ n = o => /\ blocks' # <<>> /\ Owner(blocks'[1]) = o
                    /\ blocks'[1].allowDiscontinuity = t[1].allowDiscontinuity
                    /\ synchronizing' = synchronizing
        /\ n # o => ~synchronizing' /\ ~GivingUp' /\ n = o + 1
    BY ONLY <1>5, <1>9, <1>11, <1>13, <2>1, <2>3, <2>4, HeadMoved
  <2> QED
    BY ONLY <1>12, <2>5
<1>15. ~GivingUp'
  <2>1. ~GivingUp
    BY <1>3, <1>4 DEF KeepsUp
  <2> QED
    BY <1>8, <1>14, <2>1 DEF GivingUp
<1>16. heard' \in Nat /\ heard' < Expected(n, blocks')
  <2>1. heard' = D * o + i /\ Expected(n, blocks') = D * o + i + 1
    BY <1>2, <1>7, <1>8, <1>14
  <2> QED
    BY ONLY <1>10, <2>1
<1>17. newest' - n <= Late /\ newest' - n <= Keep + lost'
  <2> DEFINE w == newest'
             l == lost'
  <2>1. /\ w - o <= Late /\ w \in Nat /\ o \in Nat /\ l \in Nat
        /\ Late \in Nat /\ n \in Nat /\ o <= n
    BY <1>3, <1>5, <1>12, <1>14
  <2> HIDE DEF w, l
  <2>2. w - n <= Late /\ w - n <= Keep + l
    BY <2>1, KeepIsEnough
  <2> QED
    BY <2>2 DEF w, l
<1>18. synchronizing' => /\ n <= FirstBlock + 2 * Outage /\ blocks' # <<>>
                         /\ Owner(blocks'[1]) = n
  <2>1. synchronizing => o <= FirstBlock + 2 * Outage
    BY <1>4 DEF KeepsUp
  <2> QED
    BY <1>14, <2>1
<1>19. KeepsUp(n)'
  BY ONLY <1>14, <1>15, <1>16, <1>17, <1>18 DEF KeepsUp
<1>20. TypeOK'
  <2>1. oos' \in [last : Number, seen : BOOLEAN]
    BY <1>1, <1>2, <1>3, OrderIsTracked
  <2>2. incompatibleServer' \in BOOLEAN
    BY <1>1, <1>2 DEF TypeOK
  <2> QED
    BY ONLY <1>2, <1>3, <1>14, <1>16, <2>1, <2>2 DEF TypeOK
<1>21. n \in FirstBlock + 1 .. newest' + 1
  <2>1. o >= FirstBlock + 1
    BY <1>4, <1>5
  <2>2. newest' \in Nat
    BY <1>3, <1>5
  <2> QED
    BY <1>5, <1>14, <2>1, <2>2
<1>22. ~incompatibleServer'
  BY <1>1, <1>2
<1> QED
  BY ONLY <1>3, <1>14, <1>19, <1>20, <1>21, <1>22 DEF IInv, Waiting

-----------------------------------------------------------------------------
(* Any other packet is stored. *)

\* The list with the packet stored, and its block rebuilt when it can be.
Kept(b, i) == [Stored(b, i) EXCEPT ![Position(Base(b))] = Completed(@)]

\* Storing a packet leaves the packet waited for and whether the head is given
\* up as they are.
LEMMA KeptIs ==
    ASSUME NEW o, NEW b, Coming(o, b), NEW i \in Shard, Accepts(b, i)
    PROVE  /\ Kept(b, i) \in Seq(Block) /\ Kept(b, i) # <<>> /\ o <= b
           /\ QueueFrom(o, Kept(b, i))
           /\ Expected(o, Kept(b, i)) = Expected(o, blocks)
           /\ ~GivingUp => ~Kept(b, i)[1].allowDiscontinuity
           /\ Owner(Kept(b, i)[Len(Kept(b, i))])
                = IF newest < b THEN b ELSE newest
           /\ blocks = <<>> => /\ newest < b /\ Len(Kept(b, i)) = 1
                               /\ Owner(Kept(b, i)[1]) = b
           /\ \/ /\ Owner(Kept(b, i)[1]) = b
                 /\ blocks # <<>> => b <= Owner(blocks[1])
              \/ /\ blocks # <<>> /\ Kept(b, i)[1] = blocks[1]
                 /\ Owner(blocks[1]) < b
<1> DEFINE p == Position(Base(b))
           d == IF Exists(p, Base(b)) THEN 0 ELSE 1
           t == Stored(b, i)
           x == Completed(t[p])
           u == [t EXCEPT ![p] = x]
<1>1. o \in Nat /\ b \in Nat /\ blocks \in Seq(Block) /\ Len(blocks) \in Nat
  BY ListIsNear, Nonempty DEF Coming, TypeOK
<1>2. /\ t \in Seq(Block) /\ Placed(blocks, p, d, b, t)
      /\ OfOne(t[p]) /\ Owner(t[p]) = b /\ o <= b
      /\ b = o \/ Untouched(t[p])
      /\ d = 0 => /\ t[p].index = blocks[p].index
                  /\ t[p].allowDiscontinuity = blocks[p].allowDiscontinuity
      /\ d = 1 => Untouched(t[p])
  BY StoredIs
<1>3. /\ p \in 1 .. Len(blocks) + d
      /\ d = 0 => Owner(blocks[p]) = b
      /\ d = 1 => \A k \in 1 .. Len(blocks) : Owner(blocks[k]) # b
  BY PositionIs
<1>4. d \in {0, 1} /\ Kept(b, i) = u
  BY DEF Kept
<1> HIDE DEF p, d, t
<1>5. t[p] \in Block
  <2>1. p \in 1 .. Len(t)
    BY <1>1, <1>2, PlacedIsSeq
  <2> QED
    BY <1>2, <2>1, Nonempty
<1>6. /\ x \in Block /\ OfOne(x) /\ Owner(x) = b
      /\ b = o \/ Untouched(x)
      /\ d = 0 => /\ x.index = blocks[p].index
                  /\ x.allowDiscontinuity = blocks[p].allowDiscontinuity
      /\ d = 1 => Untouched(x)
  <2> DEFINE block == t[p]
  <2>1. /\ block \in Block /\ OfOne(block) /\ Owner(block) = b
        /\ b = o \/ Untouched(block)
    BY <1>2, <1>5
  <2>2. x = Completed(block)
    OBVIOUS
  <2> HIDE DEF block, x
  <2>3. /\ x \in Block /\ x.from = block.from /\ x.base = block.base
        /\ x.index = block.index /\ x.queued = block.queued
        /\ x.allowDiscontinuity = block.allowDiscontinuity
    BY <2>1, <2>2, CompletedIs
  <2>4. Owner(x) = Owner(block) /\ OfOne(x)
    BY <2>1, <2>3 DEF Owner, OfOne
  <2> QED
    BY <1>2, <2>1, <2>3, <2>4 DEF block, Untouched
<1> HIDE DEF x
<1>7. /\ u \in Seq(Block) /\ Placed(blocks, p, d, b, u) /\ u[p] = x
      /\ QueueFrom(o, u)
  BY <1>2, <1>6, ChangedIs
<1> HIDE DEF u
<1>8. /\ u # <<>>
      /\ Owner(u[Len(u)]) = IF newest < b THEN b ELSE newest
      /\ blocks = <<>> => newest < b /\ Len(u) = 1
      /\ p = 1 /\ blocks # <<>> => b <= Owner(blocks[1])
      /\ p # 1 => /\ blocks # <<>> /\ u[1] = blocks[1]
                  /\ Owner(blocks[1]) < b
  BY <1>2, <1>6, <1>7, EndsAre
<1>9. Expected(o, u) = Expected(o, blocks)
  <2>1. CASE p # 1
    BY <1>8, <2>1 DEF Expected
  <2>2. CASE p = 1 /\ d = 0
    <3>1. blocks # <<>>
      BY <1>1, <1>3, <2>2, Nonempty
    <3> QED
      BY <1>3, <1>6, <1>7, <1>8, <2>2, <3>1 DEF Expected
  <2>3. CASE p = 1 /\ d = 1
    <3>1. Expected(o, u) = D * o + 0
      BY <1>6, <1>7, <2>3 DEF Expected, Untouched
    <3>2. blocks # <<>> => Owner(blocks[1]) # o
      <4>1. blocks # <<>> => 1 \in 1 .. Len(blocks)
        BY <1>1, Nonempty
      <4>2. blocks # <<>> => Owner(blocks[1]) \in Nat /\ Owner(blocks[1]) # b
        BY <1>3, <2>3, <4>1, ListIsNear
      <4> QED
        BY <1>1, <1>2, <1>8, <2>3, <4>2
    <3>3. Expected(o, blocks) = D * o + 0
      BY <3>2 DEF Expected
    <3> QED
      BY <3>1, <3>3
  <2> QED
    BY <1>4, <2>1, <2>2, <2>3
<1>10. ~GivingUp => ~u[1].allowDiscontinuity
  <2>1. CASE p # 1
    BY <1>8, <2>1 DEF GivingUp
  <2>2. CASE p = 1 /\ d = 0
    <3>1. blocks # <<>>
      BY <1>1, <1>3, <2>2, Nonempty
    <3> QED
      BY <1>6, <1>7, <2>2, <3>1 DEF GivingUp
  <2>3. CASE p = 1 /\ d = 1
    BY <1>6, <1>7, <2>3 DEF Untouched
  <2> QED
    BY <1>4, <2>1, <2>2, <2>3
<1>11. p = 1 => Owner(u[1]) = b
  BY <1>6, <1>7
<1> QED
  BY ONLY <1>2, <1>4, <1>7, <1>8, <1>9, <1>10, <1>11

\* The queue waits for block n with the list s.
LEMMA HoldsNext ==
    ASSUME NEW n \in Nat, NEW s \in Seq(Block), s # <<>>, blocks' = s,
           QueueFrom(n, s), oldestRtpBaseSequenceNumber' = Base(n),
           nextRtpSequenceNumber' = Expected(n, s) % M,
           NEW l \in Nat, lost' = l, Owner(s[Len(s)]) - n <= Keep + l + 1
    PROVE  Holds(n)'
<1> DEFINE c == Keep + l + 1
           w == Owner(s[Len(s)])
<1>1. c \in Int
  BY KeepIsEnough
<1>2. c = Keep + lost' + 1 /\ w - n <= c
  OBVIOUS
<1> HIDE DEF c, w
<1>3. s # <<>> => Owner(s[Len(s)]) = w
  BY DEF w
<1>4. \A k \in 1 .. Len(s) : Owner(s[k]) - n <= c
  BY <1>1, <1>2, <1>3, ListIsClose
<1> QED
  BY <1>2, <1>4 DEF Holds

\* What is known when a packet of block b has been put into the list, u: h is
\* the block at its head.
Storing(o, b, u, h) ==
    /\ Coming(o, b) /\ o <= b
    /\ u \in Seq(Block) /\ u # <<>> /\ QueueFrom(o, u)
    /\ Expected(o, u) = Expected(o, blocks)
    /\ ~u[1].allowDiscontinuity /\ h = Owner(u[1])
    /\ Owner(u[Len(u)]) = IF newest < b THEN b ELSE newest
    /\ blocks = <<>> => newest < b /\ Len(u) = 1 /\ h = b
    /\ \/ h = b /\ (blocks # <<>> => b <= Owner(blocks[1]))
       \/ blocks # <<>> /\ u[1] = blocks[1] /\ Owner(blocks[1]) < b

\* The newest block heard of, and the blocks passed over, after the packet.
Heard(b, w, l) ==
    /\ w \in Nat /\ l \in Nat /\ w <= sent
    /\ w = IF newest < b THEN b ELSE newest
    /\ blocks = <<>> => l = 0
    /\ blocks # <<>> => l = lost + (IF newest < b THEN b - 1 - newest ELSE 0)

\* Whether the head holds the packet waited for, or the queue is ahead of it.
LEMMA StoringIs ==
    ASSUME NEW o, NEW b, NEW u, NEW h, Storing(o, b, u, h), NEW w, NEW l,
           Heard(b, w, l), ~GivingUp
    PROVE  /\ o \in Nat /\ b \in Nat /\ h \in Nat /\ o <= h /\ h <= w
           /\ w \in Nat /\ l \in Nat /\ newest \in Nat /\ lost \in Nat
           /\ u[1].base = Base(h) /\ u[1] \in Block /\ u[1].from = {h}
           /\ h = o \/ Untouched(u[1])
           /\ Owner(u[Len(u)]) = w
           /\ Before(nextRtpSequenceNumber, u[1].base) <=> o < h
           /\ Ready(u, nextRtpSequenceNumber) => h = o
           /\ Expected(o, blocks) < D * (o + 1)
           /\ nextRtpSequenceNumber = Expected(o, blocks) % M
           /\ oldestRtpBaseSequenceNumber = Base(o)
<1>1. /\ u \in Seq(Block) /\ u # <<>> /\ QueueFrom(o, u) /\ Coming(o, b)
      /\ h = Owner(u[1]) /\ ~u[1].allowDiscontinuity
  BY DEF Storing
<1>2. /\ o \in Nat /\ b \in Nat /\ newest \in Nat
      /\ b - o <= Reach /\ o - b <= Reach
  BY <1>1, ListIsNear
<1>3. TypeOK /\ WithinHalfLap /\ Holds(o) /\ o \in FirstBlock + 1 .. newest + 1
  BY <1>1 DEF Coming
<1>4. 1 \in 1 .. Len(u) /\ Len(u) \in 1 .. Len(u) /\ u[1] \in Block
  BY <1>1, Nonempty
<1>5. /\ w \in Nat /\ l \in Nat /\ Owner(u[Len(u)]) = w
      /\ w = b \/ w = newest
  BY DEF Storing, Heard
<1>6. /\ h \in Nat /\ o <= h /\ u[1].base = Base(h) /\ u[1].from = {h}
      /\ h = o \/ Untouched(u[1])
  BY <1>1, <1>2, <1>4, OwnersAreNumbers DEF QueueFrom, OfOne
<1>7. h <= w
  BY <1>1, <1>2, <1>4, <1>5, LastIsNewest
<1>8. newest - o <= Reach
  <2>1. newest - o <= Keep + lost + 1
    <3>1. newest - o <= Keep + lost \/ newest - o <= Keep + lost + 1
      BY <1>1 DEF Coming, KeepsUp
    <3> QED
      BY <1>2, <1>3, <3>1, KeepIsEnough DEF TypeOK
  <2> QED
    BY <1>2, <1>3, <2>1, KeepIsEnough, QueueAssumption DEF Reach, TypeOK
<1>9. h - o <= Reach /\ o - h <= Reach
  <2>1. Reach \in Nat
    BY <1>3, ReachIsNear
  <2> QED
    BY <1>2, <1>5, <1>6, <1>7, <1>8, <2>1
<1>10. /\ Before(nextRtpSequenceNumber, Base(h)) <=> o < h
       /\ \A j \in Data : nextRtpSequenceNumber = Base(h) + j
                             <=> o = h /\ Expected(o, blocks) = D * o + j
  BY <1>2, <1>3, <1>6, <1>9, WaitedFor
<1>11. Ready(u, nextRtpSequenceNumber) => h = o
  <2>1. u[1].index \in Data
    BY <1>4, BlockFields
  <2>2. Ready(u, nextRtpSequenceNumber)
          => Base(h) + u[1].index = nextRtpSequenceNumber
    BY <1>1, <1>6 DEF Ready
  <2> QED
    BY <1>10, <2>1, <2>2
<1>12. Expected(o, blocks) < D * (o + 1)
  <2>1. PICK i \in Data : Expected(o, blocks) = D * o + i
    BY <1>2, <1>3, ExpectedIs DEF TypeOK
  <2>2. i \in Nat /\ i < D /\ D \in Nat
    BY QueueAssumption DEF Data
  <2>3. D * o \in Nat /\ D * (o + 1) = D * o + D
    BY <1>2, BlockNumber, NextBlock
  <2> QED
    BY ONLY <2>1, <2>2, <2>3
<1>13. /\ nextRtpSequenceNumber = Expected(o, blocks) % M
       /\ oldestRtpBaseSequenceNumber = Base(o)
  BY <1>3 DEF Holds
<1>14. lost \in Nat
  BY <1>3 DEF TypeOK
<1>15. Before(nextRtpSequenceNumber, u[1].base) <=> o < h
  BY <1>6, <1>10
<1> QED
  BY ONLY <1>2, <1>4, <1>5, <1>6, <1>7, <1>11, <1>12, <1>13, <1>14, <1>15

\* A packet does not put the queue further behind than by the blocks passed
\* over and one more.
LEMMA StoringLags ==
    ASSUME NEW o, NEW b, NEW u, NEW h, Storing(o, b, u, h), NEW w, NEW l,
           Heard(b, w, l), ~GivingUp
    PROVE  /\ blocks # <<>> => w - l <= newest - lost + 1
           /\ blocks = <<>> => w = h /\ l = 0
           /\ blocks # <<>> => w - o <= Keep + l + 1
           /\ b - o <= w - o /\ w - b <= Late
<1>1. /\ o \in Nat /\ b \in Nat /\ h \in Nat /\ w \in Nat /\ l \in Nat
      /\ newest \in Nat /\ lost \in Nat
  BY StoringIs
<1>2. /\ w <= sent /\ w = IF newest < b THEN b ELSE newest
      /\ blocks = <<>> => l = 0
      /\ blocks # <<>> => l = lost + (IF newest < b THEN b - 1 - newest ELSE 0)
  BY DEF Heard
<1>3. /\ blocks = <<>> => newest < b /\ h = b
      /\ b >= sent - Late /\ sent \in Nat /\ Late \in Nat
  BY QueueAssumption DEF Storing, Coming, TypeOK
<1>4. newest - o <= Keep + lost
  BY DEF Storing, Coming, KeepsUp
<1>5. blocks # <<>> => w - l <= newest - lost + 1
  BY <1>1, <1>2
<1>6. blocks # <<>> => w - o <= Keep + l + 1
  BY <1>1, <1>4, <1>5, KeepIsEnough
<1>7. b - o <= w - o /\ w - b <= Late
  BY <1>1, <1>2, <1>3
<1> QED
  BY <1>1, <1>2, <1>3, <1>5, <1>6, <1>7

\* The next packet is ready: it was before, or it is the one that came.
LEMMA StoreReady ==
    ASSUME NEW o, NEW b, NEW u, NEW h, Storing(o, b, u, h), NEW w, NEW l,
           Heard(b, w, l), ~GivingUp, queueStatus # "ready",
           Ready(u, nextRtpSequenceNumber), blocks' = u,
           newest' = w, lost' = l, queueStatus' = "ready",
           UNCHANGED <<nextRtpSequenceNumber, oldestRtpBaseSequenceNumber,
                       synchronizing, heard>>
    PROVE  Holds(o)' /\ KeepsUp(o)'
<1>1. /\ o \in Nat /\ b \in Nat /\ h = o /\ w \in Nat /\ l \in Nat
      /\ newest \in Nat /\ lost \in Nat /\ Owner(u[Len(u)]) = w
      /\ nextRtpSequenceNumber = Expected(o, blocks) % M
      /\ oldestRtpBaseSequenceNumber = Base(o)
  BY StoringIs
<1>2. /\ u \in Seq(Block) /\ u # <<>> /\ QueueFrom(o, u)
      /\ Expected(o, u) = Expected(o, blocks) /\ ~u[1].allowDiscontinuity
      /\ Owner(u[1]) = h /\ KeepsUp(o)
  BY DEF Storing, Coming
<1>3. w - o <= Keep + l
  <2>1. \/ h = b
        \/ blocks # <<>> /\ u[1] = blocks[1]
    BY DEF Storing
  <2>2. CASE h = b
    <3>1. w - b <= Late
      BY StoringLags
    <3> QED
      BY <1>1, <2>2, <3>1, KeepIsEnough, QueueAssumption
  <2>3. CASE blocks # <<>> /\ u[1] = blocks[1]
    <3>1. Ready(blocks, nextRtpSequenceNumber)
      BY <2>3 DEF Ready
    <3>2. newest - o <= Late
      BY <1>2, <3>1 DEF KeepsUp
    <3>3. w - l <= newest - lost + 1
      BY <2>3, StoringLags
    <3> QED
      BY <1>1, <3>2, <3>3, KeepIsEnough, QueueAssumption
  <2> QED
    BY <2>1, <2>2, <2>3
<1>4. Holds(o)'
  <2>1. w - o <= Keep + l + 1
    BY <1>1, <1>3, KeepIsEnough
  <2> QED
    BY <1>1, <1>2, <2>1, HoldsNext
<1>5. ~GivingUp' /\ newest' - o <= Keep + lost'
  BY <1>2, <1>3 DEF GivingUp
<1>6. KeepsUp(o)'
  <2>1. heard' < Expected(o, blocks')
    BY <1>2 DEF KeepsUp
  <2>2. synchronizing' => o <= FirstBlock + 2 * Outage
    BY <1>2 DEF KeepsUp
  <2>3. /\ blocks' # <<>> /\ Owner(blocks'[1]) = o
        /\ Owner(blocks'[Len(blocks')]) = newest'
    BY <1>1, <1>2
  <2> QED
    BY ONLY <1>5, <2>1, <2>2, <2>3, queueStatus' = "ready" DEF KeepsUp
<1> QED
  BY <1>4, <1>6

\* Nothing of the block waited for is there: the queue starts over at the head.
LEMMA StoreRestarts ==
    ASSUME NEW o, NEW b, NEW u, NEW h, Storing(o, b, u, h), NEW w, NEW l,
           Heard(b, w, l), ~GivingUp, queueStatus # "ready",
           Before(nextRtpSequenceNumber, u[1].base), blocks' = u,
           newest' = w, lost' = l,
           nextRtpSequenceNumber' = u[1].base,
           oldestRtpBaseSequenceNumber' = u[1].base,
           queueStatus' = Status(u, u[1].base),
           UNCHANGED <<synchronizing, heard>>
    PROVE  Holds(h)' /\ KeepsUp(h)'
<1>1. /\ o \in Nat /\ b \in Nat /\ h \in Nat /\ w \in Nat /\ l \in Nat
      /\ o < h /\ newest \in Nat /\ lost \in Nat /\ Owner(u[Len(u)]) = w
      /\ u[1].base = Base(h) /\ u[1] \in Block /\ u[1].from = {h}
      /\ Untouched(u[1]) /\ Expected(o, blocks) < D * (o + 1)
  BY StoringIs
<1>2. /\ u \in Seq(Block) /\ u # <<>> /\ QueueFrom(o, u)
      /\ ~u[1].allowDiscontinuity /\ Owner(u[1]) = h /\ KeepsUp(o)
  BY DEF Storing, Coming
<1>3. QueueFrom(h, u)
  <2>1. ASSUME NEW k \in 1 .. Len(u)
        PROVE  OfOne(u[k]) /\ h <= Owner(u[k]) /\ Untouched(u[k])
    <3>1. Owner(u[k]) \in Nat /\ Len(u) \in Nat /\ 1 \in 1 .. Len(u)
      BY <1>2, OwnersAreNumbers, Nonempty
    <3>2. OfOne(u[k]) /\ (Owner(u[k]) = o \/ Untouched(u[k]))
      BY <1>2 DEF QueueFrom
    <3>3. 1 < k => h < Owner(u[k])
      BY <1>2, <3>1 DEF QueueFrom
    <3>4. k = 1 => h = Owner(u[k])
      BY <1>2
    <3>5. h <= Owner(u[k])
      BY <1>1, <3>1, <3>3, <3>4
    <3> QED
      BY <1>1, <3>1, <3>2, <3>5
  <2> QED
    BY <1>2, <2>1 DEF QueueFrom
<1>4. /\ Expected(h, u) = D * h /\ D * h \in Nat
      /\ D * (o + 1) <= D * h
  <2>1. D * h \in Nat
    BY <1>1, BlockNumber
  <2>2. Expected(h, u) = D * h + 0
    BY <1>1, <1>2 DEF Expected, Untouched
  <2>3. D * (o + 1) <= D * h
    <3>1. D * (o + 1) = D * o + D /\ D * o + D <= D * h
      BY <1>1, NextBlock, BlocksDoNotOverlap
    <3> QED
      BY <3>1
  <2> QED
    BY <2>1, <2>2, <2>3
<1>5. w - h <= Keep + l
  <2>1. blocks = <<>> => w = h /\ l = 0
    BY StoringLags
  <2>2. blocks # <<>> => w - o <= Keep + l + 1
    BY StoringLags
  <2> QED
    BY <1>1, <2>1, <2>2, KeepIsEnough
<1>6. Holds(h)'
  <2>1. w - h <= Keep + l + 1
    BY <1>1, <1>5, KeepIsEnough
  <2>2. Base(h) = Expected(h, u) % M
    BY <1>4 DEF Base
  <2> QED
    BY <1>1, <1>2, <1>3, <2>1, <2>2, HoldsNext
<1>7. ~GivingUp' /\ newest' - h <= Keep + lost'
  BY <1>2, <1>5 DEF GivingUp
<1>8. heard' < Expected(h, blocks')
  <2>1. heard < Expected(o, blocks) /\ heard' = heard
    BY <1>2 DEF KeepsUp
  <2>2. \E i \in Data : Expected(o, blocks) = D * o + i
    BY <1>1, ExpectedIs DEF Storing, Coming, TypeOK
  <2>3. Expected(o, blocks) \in Int /\ heard \in Int
    <3>1. D * o \in Nat /\ \A i \in Data : i \in Nat
      BY <1>1, BlockNumber, QueueAssumption DEF Data
    <3>2. heard \in Int
      BY DEF Storing, Coming, TypeOK
    <3> QED
      BY <2>2, <3>1, <3>2
  <2>4. Expected(h, blocks') = D * h /\ D * (o + 1) \in Int
    <3>1. D * (o + 1) \in Int
      BY <1>1, BlockNumber
    <3> QED
      BY <1>4, <3>1
  <2> QED
    BY <1>1, <1>4, <2>1, <2>3, <2>4
<1>9. synchronizing' => h <= FirstBlock + 2 * Outage
  <2> SUFFICES ASSUME synchronizing PROVE h <= FirstBlock + 2 * Outage
    OBVIOUS
  <2>1. /\ blocks = <<>> => newest <= FirstBlock + Outage
        /\ blocks # <<>> => Owner(blocks[1]) = o
    BY <1>2 DEF KeepsUp
  <2>2. blocks = <<>>
    <3>1. \/ h = b /\ (blocks # <<>> => b <= Owner(blocks[1]))
          \/ blocks # <<>> /\ u[1] = blocks[1]
      BY DEF Storing
    <3> QED
      BY <1>1, <1>2, <2>1, <3>1
  <2>3. h = b /\ b <= sent /\ sent - newest <= Outage
    BY <2>2 DEF Storing, Coming
  <2>4. sent \in Nat /\ FirstBlock \in Nat /\ Outage \in Nat
    BY QueueAssumption DEF Storing, Coming, TypeOK
  <2> QED
    BY <1>1, <2>1, <2>2, <2>3, <2>4
<1>10. KeepsUp(h)'
  <2>1. /\ blocks' # <<>> /\ Owner(blocks'[1]) = h
        /\ Owner(blocks'[Len(blocks')]) = newest'
    BY <1>1, <1>2
  <2>2. queueStatus' # "ready" => ~Ready(blocks', nextRtpSequenceNumber')
    BY DEF Status
  <2> QED
    BY ONLY <1>7, <1>8, <1>9, <2>1, <2>2 DEF KeepsUp
<1> QED
  BY <1>6, <1>10

\* The head is given up: its block is read from the packet waited for on.
LEMMA StoreGivesUp ==
    ASSUME NEW o, NEW b, NEW u, NEW h, Storing(o, b, u, h), NEW w, NEW l,
           Heard(b, w, l), ~GivingUp, queueStatus # "ready",
           ~Before(nextRtpSequenceNumber, u[1].base), Len(u) > 1,
           blocks' = [u EXCEPT ![1].allowDiscontinuity = TRUE],
           newest' = w, lost' = l, queueStatus' = "ready",
           UNCHANGED <<nextRtpSequenceNumber, oldestRtpBaseSequenceNumber,
                       synchronizing, heard>>
    PROVE  blocks' \in Seq(Block) /\ Holds(o)' /\ KeepsUp(o)'
<1>1. /\ o \in Nat /\ h = o /\ w \in Nat /\ l \in Nat
      /\ Owner(u[Len(u)]) = w /\ u[1] \in Block
      /\ nextRtpSequenceNumber = Expected(o, blocks) % M
      /\ oldestRtpBaseSequenceNumber = Base(o)
  BY StoringIs
<1>2. /\ u \in Seq(Block) /\ u # <<>> /\ QueueFrom(o, u)
      /\ Expected(o, u) = Expected(o, blocks)
      /\ Owner(u[1]) = o /\ KeepsUp(o)
  BY <1>1 DEF Storing, Coming
<1> DEFINE x == [u[1] EXCEPT !.allowDiscontinuity = TRUE]
           s == [u EXCEPT ![1] = x]
<1>3. /\ x \in Block /\ x.from = u[1].from /\ x.base = u[1].base
      /\ x.index = u[1].index /\ x.queued = u[1].queued
  BY <1>1 DEF Block
<1>4. blocks' = s
  OBVIOUS
<1> HIDE DEF x
<1>5. /\ s \in Seq(Block) /\ Len(s) = Len(u) /\ s[1] = x
      /\ \A k \in 1 .. Len(u) : k # 1 => s[k] = u[k]
  <2>1. 1 \in 1 .. Len(u)
    BY <1>2, Nonempty
  <2> QED
    BY <1>2, <1>3, <2>1, Updated
<1> HIDE DEF s
<1>6. /\ s # <<>> /\ QueueFrom(o, s) /\ Owner(s[1]) = o
      /\ \A k \in 1 .. Len(u) : Owner(s[k]) = Owner(u[k])
  BY <1>1, <1>2, <1>3, <1>5, HeadChanged
<1>7. Expected(o, s) = Expected(o, blocks)
  BY <1>2, <1>3, <1>5, <1>6 DEF Expected
<1>8. Owner(s[Len(s)]) = w
  <2>1. Len(u) \in 1 .. Len(u)
    BY <1>2, Nonempty
  <2> QED
    BY <1>1, <1>5, <1>6, <2>1
<1>9. w - o <= Keep + l + 1
  <2>1. blocks # <<>>
    BY DEF Storing
  <2> QED
    BY <2>1, StoringLags
<1>10. Holds(o)'
  BY <1>1, <1>4, <1>5, <1>6, <1>7, <1>8, <1>9, HoldsNext
<1>11. newest' - o <= IF GivingUp' THEN Keep + lost' + 1 ELSE Keep + lost'
  <2>1. x.allowDiscontinuity
    BY <1>1 DEF x, Block
  <2>2. GivingUp'
    BY <1>4, <1>5, <1>6, <2>1 DEF GivingUp
  <2> QED
    BY <1>9, <2>2
<1>12. KeepsUp(o)'
  <2>1. heard' < Expected(o, blocks')
    BY <1>2, <1>4, <1>7 DEF KeepsUp
  <2>2. synchronizing' => o <= FirstBlock + 2 * Outage
    BY <1>2 DEF KeepsUp
  <2>3. /\ blocks' # <<>> /\ Owner(blocks'[1]) = o
        /\ Owner(blocks'[Len(blocks')]) = newest'
    BY <1>4, <1>6, <1>8
  <2> QED
    BY ONLY <1>11, <2>1, <2>2, <2>3, queueStatus' = "ready" DEF KeepsUp
<1> QED
  BY <1>4, <1>5, <1>10, <1>12

\* The queue goes on waiting: for the only block it has, or not yet for long.
LEMMA StoreWaits ==
    ASSUME NEW o, NEW b, NEW u, NEW h, Storing(o, b, u, h), NEW w, NEW l,
           Heard(b, w, l), ~GivingUp, queueStatus # "ready",
           ~Ready(u, nextRtpSequenceNumber),
           ~Before(nextRtpSequenceNumber, u[1].base), NEW waited,
           Len(u) = 1 \/ ~Waited(u[1], waited), blocks' = u,
           newest' = w, lost' = l, queueStatus' = "none",
           UNCHANGED <<nextRtpSequenceNumber, oldestRtpBaseSequenceNumber,
                       synchronizing, heard>>
    PROVE  Holds(o)' /\ KeepsUp(o)'
<1>1. /\ o \in Nat /\ h = o /\ w \in Nat /\ l \in Nat
      /\ Owner(u[Len(u)]) = w /\ u[1].from = {h}
      /\ nextRtpSequenceNumber = Expected(o, blocks) % M
      /\ oldestRtpBaseSequenceNumber = Base(o)
  BY StoringIs
<1>2. /\ u \in Seq(Block) /\ u # <<>> /\ QueueFrom(o, u)
      /\ Expected(o, u) = Expected(o, blocks) /\ ~u[1].allowDiscontinuity
      /\ Owner(u[1]) = o /\ KeepsUp(o)
  BY <1>1 DEF Storing, Coming
<1>3. w - o <= Keep + l
  <2>1. CASE Len(u) = 1
    <3>1. w = o
      BY <1>1, <1>2, <2>1
    <3> QED
      BY <1>1, <3>1, KeepIsEnough
  <2>2. CASE ~Waited(u[1], waited)
    <3>1. ~(sent - u[1].queued > Patience)
      BY <2>2 DEF Waited
    <3>2. w <= sent /\ sent \in Nat
      BY DEF Heard, Storing, Coming, TypeOK
    <3>3. u[1].queued \in Nat /\ u[1].queued <= o + Late
      <4>1. 1 \in 1 .. Len(u) /\ u[1] \in Block
        BY <1>2, Nonempty
      <4>2. u[1].queued <= Owner(u[1]) + Late
        BY <1>2, <4>1 DEF QueueFrom, OfOne
      <4> QED
        BY <1>2, <4>1, <4>2 DEF Block
    <3>4. Keep = Late + Patience
      BY DEF Keep
    <3> QED
      BY <1>1, <3>1, <3>2, <3>3, <3>4, QueueAssumption
  <2> QED
    BY <2>1, <2>2
<1>4. Holds(o)'
  <2>1. w - o <= Keep + l + 1
    BY <1>1, <1>3, KeepIsEnough
  <2> QED
    BY <1>1, <1>2, <2>1, HoldsNext
<1>5. /\ ~GivingUp' /\ newest' - o <= Keep + lost'
      /\ ~Ready(blocks', nextRtpSequenceNumber')
  BY <1>2, <1>3 DEF GivingUp
<1>6. KeepsUp(o)'
  <2>1. heard' < Expected(o, blocks')
    BY <1>2 DEF KeepsUp
  <2>2. synchronizing' => o <= FirstBlock + 2 * Outage
    BY <1>2 DEF KeepsUp
  <2>3. /\ blocks' # <<>> /\ Owner(blocks'[1]) = o
        /\ Owner(blocks'[Len(blocks')]) = newest'
    BY <1>1, <1>2
  <2> QED
    BY ONLY <1>5, <2>1, <2>2, <2>3 DEF KeepsUp
<1> QED
  BY <1>4, <1>6

\* What Store does with the list, the packet in it.
LEMMA StoreIs ==
    ASSUME NEW b, NEW i, Store(b, i)
    PROVE  /\ Arrives(b, i) /\ TrackOrder(b, i) /\ Accepts(b, i)
           /\ ~incompatibleServer /\ Current(b)
           /\ UNCHANGED <<synchronizing, incompatibleServer, heard>>
           /\ IF Ready(Kept(b, i), nextRtpSequenceNumber)
              THEN /\ blocks' = Kept(b, i) /\ queueStatus' = "ready"
                   /\ UNCHANGED <<nextRtpSequenceNumber,
                                  oldestRtpBaseSequenceNumber>>
              ELSE \E waited \in BOOLEAN :
                       HandleMissingPackets(Kept(b, i), waited)
  BY DEF Store, Kept, Accepts

LEMMA StoreKeeps ==
    ASSUME StartsClear, WithinHalfLap, IInv, NEW b, NEW i, Store(b, i)
    PROVE  IInv'
<1>1. /\ TypeOK /\ sent - newest <= Outage /\ ~Unsynchronized
      /\ Arrives(b, i) /\ TrackOrder(b, i) /\ Accepts(b, i)
      /\ ~incompatibleServer /\ Current(b)
      /\ UNCHANGED <<synchronizing, incompatibleServer, heard>>
  BY StoreIs DEF IInv, Current
<1>2. /\ sent' = sent /\ sent' \in Nat /\ sent' - newest' <= Outage
      /\ b \in FirstBlock .. sent /\ b \in Nat /\ b >= sent - Late
      /\ i \in Shard /\ queueStatus # "ready"
      /\ newest' = IF newest < b THEN b ELSE newest
      /\ newest' \in FirstBlock .. sent' /\ lost' \in Nat
      /\ blocks = <<>> => lost' = 0
      /\ blocks # <<>> =>
            lost' = lost + (IF newest < b THEN b - 1 - newest ELSE 0)
  BY <1>1, ArrivalIs
<1>3. PICK o \in FirstBlock + 1 .. newest + 1 : Holds(o) /\ KeepsUp(o)
  BY <1>1, Waits
<1>4. /\ newest \in Nat /\ FirstBlock \in Nat /\ o \in Nat /\ sent \in Nat
      /\ o >= FirstBlock + 1
  BY <1>1, <1>3, QueueAssumption DEF TypeOK
<1>5. Coming(o, b) /\ ~GivingUp
  BY <1>1, <1>2, <1>3 DEF Coming, KeepsUp
<1>6. PICK u : u = Kept(b, i)
  OBVIOUS
<1>7. PICK h : h = Owner(u[1])
  OBVIOUS
<1>8. PICK w, l : w = newest' /\ l = lost'
  OBVIOUS
<1>9. Storing(o, b, u, h) /\ u \in Seq(Block)
  <2>1. /\ u \in Seq(Block) /\ u # <<>> /\ o <= b
        /\ QueueFrom(o, u) /\ Expected(o, u) = Expected(o, blocks)
        /\ ~GivingUp => ~u[1].allowDiscontinuity
        /\ Owner(u[Len(u)]) = IF newest < b THEN b ELSE newest
        /\ blocks = <<>> => newest < b /\ Len(u) = 1 /\ Owner(u[1]) = b
        /\ \/ /\ Owner(u[1]) = b
              /\ blocks # <<>> => b <= Owner(blocks[1])
           \/ blocks # <<>> /\ u[1] = blocks[1] /\ Owner(blocks[1]) < b
    BY ONLY <1>1, <1>2, <1>5, <1>6, KeptIs
  <2> QED
    BY <1>5, <1>7, <2>1 DEF Storing
<1>10. Heard(b, w, l)
  BY <1>2, <1>4, <1>8 DEF Heard
<1>11. h \in Nat /\ o <= h /\ h <= w /\ u[1].base = Base(h) /\ o <= w
  BY <1>5, <1>9, <1>10, StoringIs
<1>12. Base(h) \in Number
  <2>1. h \in Int /\ 0 \in 0 .. D
    BY <1>11, QueueAssumption
  <2> QED
    BY <2>1, BaseStandsFor
<1>13. /\ blocks' \in Seq(Block) /\ nextRtpSequenceNumber' \in Number
       /\ oldestRtpBaseSequenceNumber' \in Number
       /\ queueStatus' \in {"none", "ready"}
       /\ \E n \in {o, h} : Holds(n)' /\ KeepsUp(n)'
  <2>0. /\ nextRtpSequenceNumber \in Number
        /\ oldestRtpBaseSequenceNumber \in Number
        /\ newest' = w /\ lost' = l
    BY <1>1, <1>8 DEF TypeOK
  <2>1. CASE Ready(u, nextRtpSequenceNumber)
    <3>1. /\ blocks' = u /\ queueStatus' = "ready"
          /\ UNCHANGED <<nextRtpSequenceNumber, oldestRtpBaseSequenceNumber>>
      BY <1>6, <2>1, StoreIs
    <3>2. Holds(o)' /\ KeepsUp(o)'
      BY <1>1, <1>2, <1>5, <1>9, <1>10, <2>0, <2>1, <3>1, StoreReady
    <3> QED
      BY <1>9, <2>0, <3>1, <3>2
  <2>2. CASE ~Ready(u, nextRtpSequenceNumber)
    <3>1. PICK waited \in BOOLEAN : HandleMissingPackets(u, waited)
      BY <1>6, <2>2, StoreIs
    <3>2. CASE /\ Before(nextRtpSequenceNumber, u[1].base) /\ blocks' = u
               /\ nextRtpSequenceNumber' = u[1].base
               /\ oldestRtpBaseSequenceNumber' = u[1].base
               /\ queueStatus' = Status(u, u[1].base)
      <4>1. Holds(h)' /\ KeepsUp(h)'
        BY <1>1, <1>2, <1>5, <1>9, <1>10, <2>0, <3>2, StoreRestarts
      <4> QED
        BY <1>9, <1>11, <1>12, <3>2, <4>1 DEF Status
    <3>3. CASE /\ ~Before(nextRtpSequenceNumber, u[1].base) /\ Len(u) > 1
               /\ blocks' = [u EXCEPT ![1].allowDiscontinuity = TRUE]
               /\ queueStatus' = "ready"
               /\ UNCHANGED <<nextRtpSequenceNumber,
                              oldestRtpBaseSequenceNumber>>
      <4>1. blocks' \in Seq(Block) /\ Holds(o)' /\ KeepsUp(o)'
        BY <1>1, <1>2, <1>5, <1>9, <1>10, <2>0, <3>3, StoreGivesUp
      <4> QED
        BY <2>0, <3>3, <4>1
    <3>4. CASE /\ ~Before(nextRtpSequenceNumber, u[1].base)
               /\ Len(u) = 1 \/ ~Waited(u[1], waited)
               /\ blocks' = u /\ queueStatus' = "none"
               /\ UNCHANGED <<nextRtpSequenceNumber,
                              oldestRtpBaseSequenceNumber>>
      <4>1. Holds(o)' /\ KeepsUp(o)'
        BY <1>1, <1>2, <1>5, <1>9, <1>10, <2>0, <2>2, <3>4, StoreWaits
      <4> QED
        BY <1>9, <2>0, <3>4, <4>1
    <3> QED
      BY <3>1, <3>2, <3>3, <3>4 DEF HandleMissingPackets
  <2> QED
    BY <2>1, <2>2
<1>14. TypeOK'
  <2>1. oos' \in [last : Number, seen : BOOLEAN]
    BY <1>1, <1>2, OrderIsTracked
  <2> QED
    BY <1>1, <1>2, <1>13, <2>1 DEF TypeOK
<1>15. ASSUME NEW n \in {o, h} PROVE n \in FirstBlock + 1 .. newest' + 1
  <2>1. w \in Nat /\ newest' = w
    BY <1>8, <1>10 DEF Heard
  <2>2. n \in Nat /\ FirstBlock + 1 <= n /\ n <= w + 1
    BY <1>4, <1>11, <2>1
  <2>3. n \in FirstBlock + 1 .. w + 1
    BY <1>4, <2>1, <2>2
  <2> QED
    BY <2>1, <2>3
<1>16. ~incompatibleServer'
  BY <1>1
<1>17. PICK n \in {o, h} : Holds(n)' /\ KeepsUp(n)'
  BY <1>13
<1>18. n \in FirstBlock + 1 .. newest' + 1
  BY <1>15
<1> QED
  BY ONLY <1>2, <1>14, <1>16, <1>17, <1>18 DEF IInv, Waiting

-----------------------------------------------------------------------------
(* The inductive invariant holds, and what follows from it. *)

LEMMA InitIsUnheard ==
    ASSUME Init
    PROVE  IInv
<1>1. blocks = <<>> /\ <<>> \in Seq(Block)
  BY EmptySeq DEF Init, RtpaInitializeQueue
<1>2. 0 \in Number /\ FirstBlock \in Nat /\ FirstBlock \in FirstBlock .. FirstBlock
  BY QueueAssumption DEF Number
<1>3. TypeOK
  BY <1>1, <1>2 DEF Init, RtpaInitializeQueue, TypeOK
<1>4. sent - newest <= Outage
  BY <1>2, QueueAssumption DEF Init
<1>5. Unheard
  BY DEF Init, RtpaInitializeQueue, Unheard
<1> QED
  BY <1>3, <1>4, <1>5 DEF IInv, Unheard

LEMMA NextKeeps ==
    ASSUME StartsClear, WithinHalfLap, IInv, [Next]_vars
    PROVE  IInv'
<1>1. CASE SendBlock
  BY <1>1, SendBlockKeeps
<1>2. CASE \E b \in sent - Late .. sent, i \in Shard : RtpaAddPacket(b, i)
  <2>1. PICK b \in sent - Late .. sent, i \in Shard : RtpaAddPacket(b, i)
    BY <1>2
  <2>2. CASE PassThrough(b, i)
    BY <2>2, PassThroughKeeps
  <2>3. CASE Synchronize(b, i)
    BY <2>3, SynchronizeKeeps
  <2>4. CASE Reject(b, i)
    BY <2>4, RejectKeeps
  <2>5. CASE SizeMismatch(b, i)
    BY <2>5, SizeMismatchKeeps
  <2>6. CASE HandleNow(b, i)
    BY <2>6, HandleNowKeeps
  <2>7. CASE Store(b, i)
    BY <2>7, StoreKeeps
  <2> QED
    BY <2>1, <2>2, <2>3, <2>4, <2>5, <2>6, <2>7 DEF RtpaAddPacket
<1>3. CASE Conceal
  BY <1>3, ConcealKeeps
<1>4. CASE Deliver
  BY <1>4, DeliverKeeps
<1>5. CASE Drained
  BY <1>5, DrainedKeeps
<1>6. CASE UNCHANGED vars
  <2>1. TypeOK'
    BY <1>6 DEF vars, queue, IInv, TypeOK
  <2>2. Unheard => Unheard'
    BY <1>6 DEF vars, queue, Unheard
  <2>3. ASSUME NEW o, Waiting(o) PROVE Waiting(o)'
    BY <1>6, <2>3 DEF vars, queue, Waiting, Holds, KeepsUp, GivingUp
  <2> QED
    BY <1>6, <2>1, <2>2, <2>3 DEF vars, queue, IInv
<1> QED
  BY <1>1, <1>2, <1>3, <1>4, <1>5, <1>6 DEF Next, RtpaGetQueuedPacket

\* The blocks of the list, whether or not the host keeps to the rules.
LEMMA ListIsHeld ==
    ASSUME TypeOK, WithinHalfLap, NEW o \in FirstBlock + 1 .. newest + 1,
           Holds(o), NEW k \in 1 .. Len(blocks), NEW h, h = Owner(blocks[k])
    PROVE  /\ h \in Nat /\ o \in Nat /\ o <= h /\ h - o <= Reach /\ o - h <= Reach
           /\ blocks[k].base = Base(h) /\ blocks[k].from = {h}
           /\ h = o \/ Untouched(blocks[k])
           /\ blocks[k].index \in Data
           /\ \A j \in 1 .. Len(blocks) : j < k => Owner(blocks[j]) < h
<1>1. /\ o \in Nat /\ blocks \in Seq(Block) /\ lost \in Nat /\ Keep \in Nat
      /\ Outage \in Nat /\ Reach \in Nat
  BY KeepIsEnough, ReachIsNear, QueueAssumption DEF TypeOK
<1>2. h \in Nat
  BY <1>1, OwnersAreNumbers DEF Holds
<1>3. /\ o <= h /\ h - o <= Keep + lost + 1 /\ OfOne(blocks[k])
      /\ h = o \/ Untouched(blocks[k])
      /\ \A j \in 1 .. Len(blocks) : j < k => Owner(blocks[j]) < h
  BY DEF Holds, QueueFrom
<1>4. h - o <= Reach /\ o - h <= Reach
  BY <1>1, <1>2, <1>3 DEF Reach
<1>5. blocks[k].index \in Data
  BY <1>1, Nonempty, BlockFields
<1> QED
  BY <1>1, <1>2, <1>3, <1>4, <1>5 DEF OfOne

LEMMA SoundWhileWaiting ==
    ASSUME TypeOK, WithinHalfLap, NEW o \in FirstBlock + 1 .. newest + 1,
           Holds(o)
    PROVE  QueueIsSound
<1>1. /\ blocks \in Seq(Block) /\ Len(blocks) \in Nat
      /\ DOMAIN blocks = 1 .. Len(blocks)
      /\ blocks # <<>> => 1 \in 1 .. Len(blocks)
  BY Nonempty DEF TypeOK
<1>2. o \in Nat /\ Reach \in Nat /\ D * Reach <= Half
  BY ReachIsNear, QueueAssumption DEF TypeOK
<1>3. oldestRtpBaseSequenceNumber = Base(o)
  BY DEF Holds
<1>4. ~Before(nextRtpSequenceNumber, oldestRtpBaseSequenceNumber)
  <2>1. o - o <= Reach
    BY <1>2
  <2>2. Before(nextRtpSequenceNumber, Base(o)) <=> o < o
    BY <1>2, <2>1, WaitedFor
  <2> QED
    BY <1>2, <1>3, <2>2
<1>5. ASSUME blocks # <<>>
      PROVE  /\ Before(nextRtpSequenceNumber, blocks[1].base + D)
             /\ ~Before(blocks[1].base, oldestRtpBaseSequenceNumber)
             /\ blocks[1].allowDiscontinuity =>
                   blocks[1].base + blocks[1].index = nextRtpSequenceNumber
  <2>0. PICK h : h = Owner(blocks[1])
    OBVIOUS
  <2>1. /\ h \in Nat /\ o <= h /\ h - o <= Reach /\ o - h <= Reach
        /\ blocks[1].base = Base(h) /\ blocks[1].index \in Data
        /\ h = o \/ Untouched(blocks[1])
    BY <1>1, <1>5, <2>0, ListIsHeld
  <2>2. /\ Before(nextRtpSequenceNumber, Base(h) + D) <=> o <= h
        /\ \A j \in Data : nextRtpSequenceNumber = Base(h) + j
                             <=> o = h /\ Expected(o, blocks) = D * o + j
    BY <1>2, <2>1, WaitedFor
  <2>3. Before(Base(h), Base(o)) <=> h < o
    BY <1>2, <2>1, NearBlocks
  <2>4. blocks[1].allowDiscontinuity =>
          o = h /\ Expected(o, blocks) = D * o + blocks[1].index
    BY <1>5, <2>0, <2>1 DEF Untouched, Expected
  <2>5. Before(nextRtpSequenceNumber, blocks[1].base + D)
    BY <2>1, <2>2
  <2>6. ~Before(blocks[1].base, oldestRtpBaseSequenceNumber)
    BY <1>2, <1>3, <2>1, <2>3
  <2>7. blocks[1].allowDiscontinuity =>
          Base(h) + blocks[1].index = nextRtpSequenceNumber
    BY <2>1, <2>2, <2>4
  <2> QED
    BY <2>1, <2>5, <2>6, <2>7
<1>6. ASSUME NEW k \in 1 .. Len(blocks) - 1
      PROVE  Before(blocks[k].base, blocks[k + 1].base)
  <2>0. PICK g, h : g = Owner(blocks[k]) /\ h = Owner(blocks[k + 1])
    OBVIOUS
  <2>1. k \in 1 .. Len(blocks) /\ k + 1 \in 1 .. Len(blocks) /\ k < k + 1
    BY <1>1
  <2>2. g \in Nat /\ o <= g /\ blocks[k].base = Base(g) /\ g - o <= Reach
    BY <2>0, <2>1, ListIsHeld
  <2>3. /\ h \in Nat /\ o <= h /\ blocks[k + 1].base = Base(h) /\ h - o <= Reach
        /\ \A j \in 1 .. Len(blocks) : j < k + 1 => Owner(blocks[j]) < h
    BY <2>0, <2>1, ListIsHeld
  <2>4. g < h /\ g - h <= Reach /\ h - g <= Reach
    BY <1>2, <2>0, <2>1, <2>2, <2>3
  <2>5. Before(Base(g), Base(h)) <=> g < h
    BY <1>2, <2>2, <2>3, <2>4, NearBlocks
  <2> QED
    BY <2>2, <2>3, <2>4, <2>5
<1>7. ASSUME NEW k \in 1 .. Len(blocks),
             nextRtpSequenceNumber \in blocks[k].base .. blocks[k].base + D - 1
      PROVE  k = 1
  <2>0. PICK h : h = Owner(blocks[k])
    OBVIOUS
  <2>1. /\ h \in Nat /\ o <= h /\ h - o <= Reach /\ o - h <= Reach
        /\ blocks[k].base = Base(h)
        /\ \A j \in 1 .. Len(blocks) : j < k => Owner(blocks[j]) < h
    BY <2>0, ListIsHeld
  <2>2. Base(h) \in Int /\ D \in Nat
    BY <2>1, QueueAssumption DEF Base
  <2>3. PICK j \in Data : nextRtpSequenceNumber = Base(h) + j
    <3> DEFINE j == nextRtpSequenceNumber - Base(h)
    <3>1. nextRtpSequenceNumber \in Base(h) .. Base(h) + D - 1
      BY <1>7, <2>1
    <3>2. j \in Data /\ nextRtpSequenceNumber = Base(h) + j
      BY <2>2, <3>1 DEF Data
    <3> QED
      BY <3>2
  <2>4. o = h
    BY <1>2, <2>1, <2>3, WaitedFor
  <2>5. 1 < k => Owner(blocks[1]) < o /\ o <= Owner(blocks[1])
    BY <1>1, <2>1, <2>4 DEF Holds, QueueFrom
  <2>6. Owner(blocks[1]) \in Nat
    <3>1. 1 \in 1 .. Len(blocks)
      BY <1>1
    <3> QED
      BY <1>1, <3>1, OwnersAreNumbers DEF Holds
  <2> QED
    BY <1>1, <1>2, <2>5, <2>6
<1>8. ASSUME NEW k \in 1 .. Len(blocks)
      PROVE  \E b \in blocks[k].from : /\ blocks[k].from = {b}
                                       /\ blocks[k].base = Base(b)
  BY DEF Holds, QueueFrom, OfOne
<1>9. QueueIsConsistent
  BY <1>4, <1>5, <1>6 DEF QueueIsConsistent
<1>10. HeadIsNext
  BY <1>1, <1>5, <1>7 DEF HeadIsNext
<1>11. BlocksArePure
  BY <1>1, <1>8 DEF BlocksArePure
<1> QED
  BY <1>9, <1>10, <1>11 DEF QueueIsSound

LEMMA InvariantIsSound ==
    ASSUME WithinHalfLap, IInv
    PROVE  QueueIsSound
<1>1. CASE Unheard
  <2>1. /\ TypeOK /\ blocks = <<>> /\ synchronizing /\ Len(<<>>) = 0
        /\ DOMAIN <<>> = 1 .. 0
    BY <1>1 DEF IInv, Unheard
  <2>2. QueueIsConsistent
    BY <2>1 DEF QueueIsConsistent
  <2>3. HeadIsNext /\ BlocksArePure
    BY <2>1 DEF HeadIsNext, BlocksArePure
  <2> QED
    BY <2>1, <2>2, <2>3 DEF QueueIsSound
<1>2. CASE \E o \in FirstBlock + 1 .. newest + 1 : Waiting(o)
  BY <1>2, SoundWhileWaiting DEF IInv, Waiting
<1> QED
  BY <1>1, <1>2 DEF IInv

LEMMA InvariantTakesFresh ==
    ASSUME WithinHalfLap, IInv
    PROVE  FreshIsTaken
<1> SUFFICES ASSUME ~Unsynchronized, ~incompatibleServer,
                    NEW b \in newest + 1 .. sent
             PROVE  ~Before(Base(b), oldestRtpBaseSequenceNumber)
  BY DEF FreshIsTaken
<1>1. PICK o \in FirstBlock + 1 .. newest + 1 : Holds(o) /\ KeepsUp(o)
  BY Waits
<1>2. /\ newest \in Nat /\ sent \in Nat /\ lost \in Nat /\ o \in Nat
      /\ b \in Nat /\ sent - newest <= Outage /\ Outage \in Nat
  BY QueueAssumption DEF IInv, TypeOK
<1>3. newest - o <= Keep + lost + 1
  <2>1. newest - o <= Keep + lost \/ newest - o <= Keep + lost + 1
    BY <1>1 DEF KeepsUp
  <2> QED
    BY <1>2, <2>1, KeepIsEnough
<1>4. /\ o <= b /\ b - o <= Reach /\ o - b <= Reach
      /\ Reach \in Nat /\ D * Reach <= Half
  <2>1. Reach \in Nat /\ D * Reach <= Half
    BY ReachIsNear DEF IInv
  <2>2. b - o <= Reach
    BY <1>2, <1>3, KeepIsEnough DEF Reach
  <2> QED
    BY <1>2, <2>1, <2>2
<1>5. Before(Base(b), Base(o)) <=> b < o
  BY <1>2, <1>4, NearBlocks
<1> QED
  BY <1>1, <1>2, <1>4, <1>5 DEF Holds

LEMMA InvariantKeepsUp ==
    ASSUME WithinHalfLap, IInv
    PROVE  HeadIsRecent
<1> SUFFICES ASSUME blocks # <<>>, queueStatus # "ready", ~incompatibleServer,
                    NEW b \in blocks[1].from
             PROVE  newest - b <= Keep + lost
  BY DEF HeadIsRecent
<1>1. PICK o \in FirstBlock + 1 .. newest + 1 : Holds(o) /\ KeepsUp(o)
  BY DEF IInv, Unheard, Waiting
<1>2. TypeOK /\ newest \in Nat /\ lost \in Nat /\ Keep \in Nat
  BY KeepIsEnough, QueueAssumption DEF IInv, TypeOK
<1>3. 1 \in 1 .. Len(blocks)
  BY <1>2, Nonempty DEF TypeOK
<1>4. b \in Nat /\ o \in Nat /\ o <= b
  <2>1. PICK h : h = Owner(blocks[1])
    OBVIOUS
  <2>2. h \in Nat /\ o \in Nat /\ o <= h /\ blocks[1].from = {h}
    BY <1>1, <1>2, <1>3, <2>1, ListIsHeld
  <2> QED
    BY <2>2
<1>5. newest - o <= Keep + lost
  BY <1>1 DEF KeepsUp
<1> QED
  BY <1>2, <1>4, <1>5

\* While no two blocks in use are half a lap apart, what the assertions of the
\* code check of the queue holds, a block is rebuilt from packets of one block
\* of the host only, and every variable has its type: for every size of a
\* block, every number of parity packets, every lateness and every outage.
THEOREM SoundQueue ==
    ASSUME StartsClear
    PROVE  Spec /\ []WithinHalfLap => []QueueIsSound
<1>1. Init => IInv
  BY InitIsUnheard
<1>2. WithinHalfLap /\ IInv /\ [Next]_vars => IInv'
  BY NextKeeps
<1>3. WithinHalfLap /\ IInv => QueueIsSound
  BY InvariantIsSound
<1> QED
  BY <1>1, <1>2, <1>3, PTL DEF Spec

\* While no two blocks in use are half a lap apart, a packet of a block the
\* queue has heard nothing of is not turned away as late, whatever was lost
\* before it.
THEOREM FreshTaken ==
    ASSUME StartsClear
    PROVE  Spec /\ []WithinHalfLap => []FreshIsTaken
<1>1. Init => IInv
  BY InitIsUnheard
<1>2. WithinHalfLap /\ IInv /\ [Next]_vars => IInv'
  BY NextKeeps
<1>3. WithinHalfLap /\ IInv => FreshIsTaken
  BY InvariantTakesFresh
<1> QED
  BY <1>1, <1>2, <1>3, PTL DEF Spec

\* While no two blocks in use are half a lap apart, the block the queue waits
\* for is at most Keep blocks, and those lost whole, behind the newest it has
\* heard of.
THEOREM KeepingUp ==
    ASSUME StartsClear
    PROVE  Spec /\ []WithinHalfLap => []HeadIsRecent
<1>1. Init => IInv
  BY InitIsUnheard
<1>2. WithinHalfLap /\ IInv /\ [Next]_vars => IInv'
  BY NextKeeps
<1>3. WithinHalfLap /\ IInv => HeadIsRecent
  BY InvariantKeepsUp
<1> QED
  BY <1>1, <1>2, <1>3, PTL DEF Spec

-----------------------------------------------------------------------------
(* What a step does with the packets. *)

LEMMA StepInOrder ==
    ASSUME WithinHalfLap, IInv, [Next]_vars, heard' # heard,
           ~incompatibleServer
    PROVE  heard' > heard
<1>1. CASE SendBlock
  BY <1>1 DEF SendBlock
<1>2. CASE \E b \in sent - Late .. sent, i \in Shard : RtpaAddPacket(b, i)
  <2>1. PICK b \in sent - Late .. sent, i \in Shard : RtpaAddPacket(b, i)
    BY <1>2
  <2>2. HandleNow(b, i)
    BY <2>1 DEF RtpaAddPacket, PassThrough, Synchronize, Reject, SizeMismatch,
                Store
  <2>3. /\ Accepts(b, i) /\ Current(b) /\ Arrives(b, i) /\ i \in Data
        /\ Base(b) + i = nextRtpSequenceNumber /\ heard' = D * b + i
    BY <2>2 DEF HandleNow, Accepts
  <2>4. /\ TypeOK /\ sent - newest <= Outage
        /\ b \in FirstBlock .. sent /\ b >= sent - Late
    BY <2>3, ArrivalIs DEF IInv
  <2>5. PICK o \in FirstBlock + 1 .. newest + 1 : Holds(o) /\ KeepsUp(o)
    BY <2>3, Waits DEF Current
  <2>6. Coming(o, b)
    BY <2>4, <2>5 DEF Coming
  <2>7. b = o /\ Expected(o, blocks) = D * o + i
    BY <2>3, <2>6, NextIsAtHead
  <2>8. heard < Expected(o, blocks)
    BY <2>5 DEF KeepsUp
  <2>9. D * o \in Nat /\ i \in Nat /\ heard \in Int
    <3>1. o \in Nat
      BY <2>6, ListIsNear
    <3> QED
      BY <2>3, <2>4, <3>1, BlockNumber, QueueAssumption DEF TypeOK, Data
  <2>10. heard' = D * o + i
    BY <2>3, <2>7
  <2> QED
    BY ONLY <2>7, <2>8, <2>9, <2>10
<1>3. CASE Conceal
  BY <1>3 DEF Conceal
<1>4. CASE Deliver
  <2>1. /\ queueStatus = "ready" /\ Ready(blocks, nextRtpSequenceNumber)
        /\ heard' = D * Owner(blocks[1]) + blocks[1].index
    BY <1>4 DEF Deliver, Owner
  <2>2. PICK o \in FirstBlock + 1 .. newest + 1 :
            /\ Holds(o) /\ KeepsUp(o) /\ Owner(blocks[1]) = o
            /\ Expected(o, blocks) = D * o + blocks[1].index
    BY <2>1, ReadyHeadIs
  <2>3. heard < heard'
    BY <2>1, <2>2 DEF KeepsUp
  <2>4. heard \in Int /\ heard' \in Int
    <3>1. o \in Nat /\ blocks \in Seq(Block) /\ blocks # <<>> /\ heard \in Int
      BY <2>1, ReadyHeadIs, QueueAssumption DEF IInv, TypeOK
    <3>2. blocks[1].index \in Nat
      BY <3>1, Nonempty, BlockFields
    <3>3. D * o \in Nat
      BY <3>1, BlockNumber
    <3> QED
      BY <2>1, <2>2, <3>1, <3>2, <3>3
  <2> QED
    BY ONLY <2>3, <2>4
<1>5. CASE Drained
  BY <1>5 DEF Drained
<1>6. CASE UNCHANGED vars
  BY <1>6 DEF vars
<1> QED
  BY <1>1, <1>2, <1>3, <1>4, <1>5, <1>6 DEF Next, RtpaGetQueuedPacket

\* The data packet x is in the list, and not handed on yet.
IsHeld(bs, x) ==
    \E k \in 1 .. Len(bs) : \E b \in bs[k].from, j \in Data :
        bs[k].index <= j /\ j \notin bs[k].marks /\ x = D * b + j

\* Held, of any list.
HeldIn(bs) == UNION {{D * b + i : b \in bs[k].from,
                      i \in {j \in Data : /\ j >= bs[k].index
                                          /\ j \notin bs[k].marks}} :
                      k \in DOMAIN bs}

LEMMA HeldIs ==
    ASSUME NEW bs \in Seq(Block), NEW x
    PROVE  x \in HeldIn(bs) <=> IsHeld(bs, x)
<1>1. DOMAIN bs = 1 .. Len(bs)
  BY Nonempty
<1>2. \A k \in 1 .. Len(bs) : bs[k].index \in Nat
  BY Nonempty, BlockFields
<1>3. \A j \in Data : j \in Nat
  BY QueueAssumption DEF Data
<1>4. \A k \in 1 .. Len(bs), j \in Data :
          j >= bs[k].index <=> bs[k].index <= j
  BY <1>2, <1>3
<1> QED
  BY <1>1, <1>4 DEF HeldIn, IsHeld

\* A list with every block of another one, and no less of it, holds as much.
LEMMA HeldStill ==
    ASSUME NEW bs, NEW cs, NEW x, IsHeld(bs, x),
           \A k \in 1 .. Len(bs) : \E m \in 1 .. Len(cs) :
               /\ cs[m].from = bs[k].from /\ cs[m].index = bs[k].index
               /\ cs[m].marks \subseteq bs[k].marks
    PROVE  IsHeld(cs, x)
<1>1. PICK k \in 1 .. Len(bs) : \E b \in bs[k].from, j \in Data :
          bs[k].index <= j /\ j \notin bs[k].marks /\ x = D * b + j
  BY DEF IsHeld
<1>2. PICK b \in bs[k].from, j \in Data :
          bs[k].index <= j /\ j \notin bs[k].marks /\ x = D * b + j
  BY <1>1
<1>3. PICK m \in 1 .. Len(cs) :
          /\ cs[m].from = bs[k].from /\ cs[m].index = bs[k].index
          /\ cs[m].marks \subseteq bs[k].marks
  OBVIOUS
<1>4. /\ b \in cs[m].from /\ cs[m].index <= j /\ j \notin cs[m].marks
      /\ x = D * b + j
  BY <1>2, <1>3
<1> QED
  BY <1>4 DEF IsHeld

\* The head is handed on: it holds what it did, but for the packet at its index.
LEMMA HeldOrHandedOn ==
    ASSUME NEW t \in Seq(Block), t # <<>>, NEW x, IsHeld(t, x),
           ReleaseHead(Stepped(t), t[1].index = D - 1)
    PROVE  \/ IsHeld(blocks', x)
           \/ t[1].index \notin t[1].marks
              /\ \E b \in t[1].from : x = D * b + t[1].index
<1>1. PICK k \in 1 .. Len(t) : \E b \in t[k].from, j \in Data :
          t[k].index <= j /\ j \notin t[k].marks /\ x = D * b + j
  BY DEF IsHeld
<1>2. PICK b \in t[k].from, j \in Data :
          t[k].index <= j /\ j \notin t[k].marks /\ x = D * b + j
  BY <1>1
<1>3. /\ Len(Stepped(t)) = Len(t) /\ Tail(Stepped(t)) = Tail(t)
      /\ \A m \in 1 .. Len(t) : m # 1 => Stepped(t)[m] = t[m]
      /\ Stepped(t)[1].from = t[1].from /\ Stepped(t)[1].marks = t[1].marks
      /\ Stepped(t)[1].index = t[1].index + 1
  BY SteppedIs
<1>4. 1 \in 1 .. Len(t) /\ Len(t) \in Nat /\ t[1].index \in Nat /\ t[1] \in Block
  BY Nonempty, BlockFields
<1>5. j \in Nat /\ j < D /\ D \in Nat
  BY QueueAssumption DEF Data
<1>6. CASE k = 1 /\ j = t[1].index
  BY <1>2, <1>6
<1>7. CASE k = 1 /\ j # t[1].index
  <2>1. t[1].index + 1 <= j /\ t[1].index # D - 1
    BY <1>2, <1>4, <1>5, <1>7
  <2>2. blocks' = Stepped(t)
    BY <2>1 DEF ReleaseHead
  <2> DEFINE s == Stepped(t)
  <2>3. /\ 1 \in 1 .. Len(s) /\ b \in s[1].from /\ s[1].index <= j
        /\ j \notin s[1].marks /\ x = D * b + j
    BY <1>2, <1>3, <1>4, <1>7, <2>1
  <2> HIDE DEF s
  <2>4. IsHeld(s, x)
    BY <2>3 DEF IsHeld
  <2> QED
    BY <2>2, <2>4 DEF s
<1>8. CASE k # 1 /\ t[1].index # D - 1
  <2>2. blocks' = Stepped(t)
    BY <1>8 DEF ReleaseHead
  <2> DEFINE s == Stepped(t)
  <2>3. /\ k \in 1 .. Len(s) /\ b \in s[k].from /\ s[k].index <= j
        /\ j \notin s[k].marks /\ x = D * b + j
    BY <1>2, <1>3, <1>8
  <2> HIDE DEF s
  <2>4. IsHeld(s, x)
    BY <2>3 DEF IsHeld
  <2> QED
    BY <2>2, <2>4 DEF s
<1>9. CASE k # 1 /\ t[1].index = D - 1
  <2>2. blocks' = Tail(t)
    BY <1>3, <1>9 DEF ReleaseHead
  <2>3. /\ Len(Tail(t)) = Len(t) - 1
        /\ \A m \in 1 .. Len(Tail(t)) : Tail(t)[m] = t[m + 1]
    BY HeadTailProperties
  <2> DEFINE s == Tail(t)
             m == k - 1
  <2>4. m \in 1 .. Len(s) /\ m + 1 = k
    BY <1>4, <1>9, <2>3
  <2>5. /\ b \in s[m].from /\ s[m].index <= j
        /\ j \notin s[m].marks /\ x = D * b + j
    BY <1>2, <2>3, <2>4
  <2> HIDE DEF s, m
  <2>6. IsHeld(s, x)
    BY <2>4, <2>5 DEF IsHeld
  <2> QED
    BY <2>2, <2>6 DEF s
<1> QED
  BY <1>6, <1>7, <1>8, <1>9

LEMMA StoredHolds ==
    ASSUME NEW o, NEW b, Coming(o, b), NEW i \in Shard, Accepts(b, i), NEW x,
           IsHeld(blocks, x)
    PROVE  IsHeld(Stored(b, i), x)
<1> DEFINE p == Position(Base(b))
           d == IF Exists(p, Base(b)) THEN 0 ELSE 1
           t == Stored(b, i)
<1>1. /\ t \in Seq(Block) /\ Placed(blocks, p, d, b, t) /\ t[p].from = {b}
      /\ d = 0 => /\ t[p].index = blocks[p].index
                  /\ t[p].marks = blocks[p].marks \ {i}
                  /\ blocks[p].from = {b}
  BY StoredIs
<1>2. blocks \in Seq(Block)
  BY DEF Coming, TypeOK
<1> HIDE DEF p, d, t
<1>3. p \in 1 .. Len(t)
  BY <1>1, <1>2, PlacedIsSeq
<1>4. ASSUME NEW k \in 1 .. Len(blocks)
      PROVE  \E m \in 1 .. Len(t) :
               /\ t[m].from = blocks[k].from /\ t[m].index = blocks[k].index
               /\ t[m].marks \subseteq blocks[k].marks
  <2>1. \/ \E m \in 1 .. Len(t) : m # p /\ t[m] = blocks[k]
        \/ d = 0 /\ k = p
    BY <1>1, <1>2, PlacedKeeps
  <2>2. CASE \E m \in 1 .. Len(t) : m # p /\ t[m] = blocks[k]
    BY <2>2
  <2>3. CASE d = 0 /\ k = p
    <3>1. /\ t[p].from = blocks[k].from /\ t[p].index = blocks[k].index
          /\ t[p].marks \subseteq blocks[k].marks
      BY <1>1, <2>3
    <3> QED
      BY <1>3, <3>1
  <2> QED
    BY <2>1, <2>2, <2>3
<1>5. IsHeld(t, x)
  BY <1>4, HeldStill
<1> QED
  BY <1>5 DEF t

LEMMA KeptHolds ==
    ASSUME NEW o, NEW b, Coming(o, b), NEW i \in Shard, Accepts(b, i), NEW x,
           IsHeld(blocks, x)
    PROVE  IsHeld(Kept(b, i), x)
<1> DEFINE p == Position(Base(b))
           d == IF Exists(p, Base(b)) THEN 0 ELSE 1
           t == Stored(b, i)
           u == Kept(b, i)
<1>1. t \in Seq(Block) /\ Placed(blocks, p, d, b, t) /\ blocks \in Seq(Block)
  BY StoredIs DEF Coming, TypeOK
<1>2. IsHeld(t, x)
  BY StoredHolds
<1>3. u = [t EXCEPT ![p] = Completed(t[p])]
  BY DEF Kept
<1> HIDE DEF p, d, t, u
<1>4. p \in 1 .. Len(t)
  BY <1>1, PlacedIsSeq
<1>5. t[p] \in Block
  BY <1>1, <1>4, ElementOfSeq
<1> DEFINE y == Completed(t[p])
<1>6. /\ y \in Block /\ y.from = t[p].from /\ y.index = t[p].index
      /\ y.marks \subseteq t[p].marks
  BY <1>5, CompletedIs
<1> HIDE DEF y
<1>7. u = [t EXCEPT ![p] = y]
  BY <1>3 DEF y
<1>8. /\ Len(u) = Len(t) /\ u[p] = y
      /\ \A k \in 1 .. Len(t) : k # p => u[k] = t[k]
  BY <1>1, <1>4, <1>6, <1>7, Updated
<1>9. ASSUME NEW k \in 1 .. Len(t)
      PROVE  \E m \in 1 .. Len(u) :
               /\ u[m].from = t[k].from /\ u[m].index = t[k].index
               /\ u[m].marks \subseteq t[k].marks
  <2>1. k \in 1 .. Len(u)
    BY <1>8
  <2>2. u[k].from = t[k].from /\ u[k].index = t[k].index
        /\ u[k].marks \subseteq t[k].marks
    BY <1>6, <1>8
  <2> QED
    BY <2>1, <2>2
<1>10. IsHeld(u, x)
  BY <1>2, <1>9, HeldStill
<1> QED
  BY <1>10 DEF u

LEMMA GivenUpHolds ==
    ASSUME NEW u \in Seq(Block), u # <<>>, NEW x, IsHeld(u, x)
    PROVE  IsHeld([u EXCEPT ![1].allowDiscontinuity = TRUE], x)
<1> DEFINE y == [u[1] EXCEPT !.allowDiscontinuity = TRUE]
           s == [u EXCEPT ![1] = y]
<1>1. 1 \in 1 .. Len(u) /\ u[1] \in Block
  BY Nonempty
<1>2. /\ y \in Block /\ y.from = u[1].from /\ y.index = u[1].index
      /\ y.marks = u[1].marks
  BY <1>1 DEF Block
<1>3. [u EXCEPT ![1].allowDiscontinuity = TRUE] = s
  OBVIOUS
<1> HIDE DEF y
<1>4. /\ Len(s) = Len(u) /\ s[1] = y
      /\ \A k \in 1 .. Len(u) : k # 1 => s[k] = u[k]
  BY <1>1, <1>2, Updated
<1> HIDE DEF s
<1>5. ASSUME NEW k \in 1 .. Len(u)
      PROVE  \E m \in 1 .. Len(s) :
               /\ s[m].from = u[k].from /\ s[m].index = u[k].index
               /\ s[m].marks \subseteq u[k].marks
  <2>1. k \in 1 .. Len(s)
    BY <1>4
  <2>2. s[k].from = u[k].from /\ s[k].index = u[k].index
        /\ s[k].marks \subseteq u[k].marks
    BY <1>2, <1>4
  <2> QED
    BY <2>1, <2>2
<1>6. IsHeld(s, x)
  BY <1>5, HeldStill
<1> QED
  BY <1>3, <1>6

\* A step of a packet: what the list held it holds, or the packet is heard.
LEMMA ArrivalLosesNothing ==
    ASSUME WithinHalfLap, IInv, NEW b, NEW i, RtpaAddPacket(b, i), NEW x,
           IsHeld(blocks, x)
    PROVE  IsHeld(blocks', x) \/ x = heard'
<1>1. CASE PassThrough(b, i)
  BY <1>1 DEF PassThrough, queue
<1>2. CASE Synchronize(b, i)
  BY <1>2 DEF Synchronize
<1>3. CASE Reject(b, i)
  BY <1>3 DEF Reject, queue
<1>4. CASE SizeMismatch(b, i)
  BY <1>4 DEF SizeMismatch, queue
<1>5. ASSUME Arrives(b, i), Accepts(b, i), ~incompatibleServer
      PROVE  \E o \in Nat : Coming(o, b) /\ i \in Shard
  <2>1. /\ TypeOK /\ sent - newest <= Outage /\ i \in Shard
        /\ b \in FirstBlock .. sent /\ b >= sent - Late
    BY <1>5, ArrivalIs DEF IInv
  <2>2. PICK o \in FirstBlock + 1 .. newest + 1 : Holds(o) /\ KeepsUp(o)
    BY <1>5, Waits DEF Accepts, Current
  <2>3. Coming(o, b)
    BY <2>1, <2>2 DEF Coming
  <2>4. o \in Nat
    BY <2>3, ListIsNear
  <2> QED
    BY <2>1, <2>3, <2>4
<1>6. CASE HandleNow(b, i)
  <2>1. /\ Accepts(b, i) /\ Current(b) /\ Arrives(b, i) /\ i \in Data
        /\ ~incompatibleServer /\ Base(b) + i = nextRtpSequenceNumber
        /\ heard' = D * b + i
        /\ ReleaseHead([Stored(b, i) EXCEPT
                            ![Position(Base(b))].index = @ + 1], i = D - 1)
    BY <1>6 DEF HandleNow, Accepts
  <2>2. PICK o \in Nat : Coming(o, b) /\ i \in Shard
    BY <1>5, <2>1
  <2>3. b = o
    BY <2>1, <2>2, NextIsAtHead
  <2> DEFINE t == Stored(o, i)
  <2>4. /\ t \in Seq(Block) /\ t # <<>> /\ QueueFrom(o, t)
        /\ Position(Base(o)) = 1 /\ Owner(t[1]) = o /\ t[1].index = i
    BY <2>1, <2>2, <2>3, ComesFirst
  <2>5. IsHeld(t, x)
    BY <2>1, <2>2, <2>3, StoredHolds
  <2>6. ReleaseHead(Stepped(t), t[1].index = D - 1)
    <3>1. ReleaseHead([t EXCEPT ![1].index = @ + 1], i = D - 1)
      BY <2>1, <2>3, <2>4
    <3>2. [t EXCEPT ![1].index = @ + 1] = Stepped(t)
      BY DEF Stepped
    <3> HIDE DEF t
    <3> QED
      BY <2>4, <3>1, <3>2
  <2> HIDE DEF t
  <2>7. t[1].from = {o}
    <3>1. 1 \in 1 .. Len(t)
      BY <2>4, Nonempty
    <3> QED
      BY <2>4, <3>1 DEF QueueFrom, OfOne
  <2>8. \/ IsHeld(blocks', x)
        \/ \E a \in t[1].from : x = D * a + t[1].index
    BY <2>4, <2>5, <2>6, HeldOrHandedOn
  <2> QED
    BY <2>1, <2>3, <2>4, <2>7, <2>8
<1>7. CASE Store(b, i)
  <2>1. Arrives(b, i) /\ Accepts(b, i) /\ ~incompatibleServer
    BY <1>7, StoreIs
  <2>2. PICK o \in Nat : Coming(o, b) /\ i \in Shard
    BY <1>5, <2>1
  <2>3. PICK u : u = Kept(b, i)
    OBVIOUS
  <2>4. u \in Seq(Block) /\ u # <<>> /\ IsHeld(u, x)
    BY <2>1, <2>2, <2>3, KeptIs, KeptHolds
  <2>5. \/ blocks' = u
        \/ blocks' = [u EXCEPT ![1].allowDiscontinuity = TRUE]
    BY <1>7, <2>3, StoreIs DEF HandleMissingPackets
  <2> QED
    BY <2>4, <2>5, GivenUpHolds
<1> QED
  BY <1>1, <1>2, <1>3, <1>4, <1>6, <1>7 DEF RtpaAddPacket

LEMMA TakingLosesNothing ==
    ASSUME IInv, Conceal \/ Deliver, NEW x, IsHeld(blocks, x), WithinHalfLap
    PROVE  IsHeld(blocks', x) \/ x = heard'
<1>1. /\ queueStatus = "ready" /\ Ready(blocks, nextRtpSequenceNumber)
      /\ blocks # <<>> /\ blocks \in Seq(Block)
      /\ ReleaseHead(Returned, Returned[1].index = D)
  BY DEF Conceal, Deliver, Ready, IInv, TypeOK
<1>2. PICK o \in FirstBlock + 1 .. newest + 1 :
          Holds(o) /\ Owner(blocks[1]) = o
  BY <1>1, ReadyHeadIs
<1>3. 1 \in 1 .. Len(blocks) /\ blocks[1].index \in Nat
  BY <1>1, Nonempty, BlockFields
<1>4. blocks[1].from = {o}
  BY <1>2, <1>3 DEF Holds, QueueFrom, OfOne
<1>5. Returned = Stepped(blocks) /\ Returned[1].index = blocks[1].index + 1
  <2>1. Returned = Stepped(blocks)
    BY DEF Returned, Stepped
  <2> QED
    BY <1>1, <2>1, SteppedIs
<1>6. ReleaseHead(Stepped(blocks), blocks[1].index = D - 1)
  <2>1. Returned[1].index = D <=> blocks[1].index = D - 1
    BY <1>3, <1>5, QueueAssumption
  <2> QED
    BY <1>1, <1>5, <2>1 DEF ReleaseHead
<1>7. \/ IsHeld(blocks', x)
      \/ blocks[1].index \notin blocks[1].marks
         /\ \E b \in blocks[1].from : x = D * b + blocks[1].index
  BY <1>1, <1>6, HeldOrHandedOn
<1>8. CASE Conceal
  BY <1>7, <1>8 DEF Conceal
<1>9. CASE Deliver
  <2>1. heard' = D * o + blocks[1].index
    BY <1>2, <1>9 DEF Deliver, Owner
  <2> QED
    BY <1>4, <1>7, <2>1
<1> QED
  BY <1>8, <1>9

LEMMA StepLosesNothing ==
    ASSUME StartsClear, WithinHalfLap, IInv, [Next]_vars
    PROVE  Held \ Held' \subseteq {heard'}
<1>1. blocks \in Seq(Block) /\ blocks' \in Seq(Block)
  BY NextKeeps DEF IInv, TypeOK
<1>2. Held = HeldIn(blocks) /\ Held' = HeldIn(blocks')
  BY DEF Held, HeldIn
<1>3. ASSUME NEW x, IsHeld(blocks, x) PROVE IsHeld(blocks', x) \/ x = heard'
  <2>1. CASE SendBlock \/ Drained \/ UNCHANGED vars
    <3>1. blocks' = blocks
      BY <2>1 DEF SendBlock, Drained, vars, queue
    <3> QED
      BY <1>3, <3>1
  <2>2. CASE \E b \in sent - Late .. sent, i \in Shard : RtpaAddPacket(b, i)
    BY <1>3, <2>2, ArrivalLosesNothing
  <2>3. CASE Conceal \/ Deliver
    BY <1>3, <2>3, TakingLosesNothing
  <2> QED
    BY <2>1, <2>2, <2>3 DEF Next, RtpaGetQueuedPacket
<1>4. \A x : x \in HeldIn(blocks) => x \in HeldIn(blocks') \/ x = heard'
  BY <1>1, <1>3, HeldIs
<1> QED
  BY <1>2, <1>4

\* While no two blocks in use are half a lap apart, the packets reach the
\* decoder in the order they were recorded, none of them twice.
THEOREM InOrder ==
    ASSUME StartsClear
    PROVE  Spec /\ []WithinHalfLap => PlayedInOrder
<1>1. Init => IInv
  BY InitIsUnheard
<1>2. WithinHalfLap /\ IInv /\ [Next]_vars => IInv'
  BY NextKeeps
<1>3. WithinHalfLap /\ IInv /\ [Next]_vars
        => [heard' # heard /\ ~incompatibleServer => heard' > heard]_vars
  BY StepInOrder
<1> QED
  BY <1>1, <1>2, <1>3, PTL DEF Spec, PlayedInOrder

\* While no two blocks in use are half a lap apart, a packet that is stored
\* leaves the queue for the decoder only.
THEOREM NothingLost ==
    ASSUME StartsClear
    PROVE  Spec /\ []WithinHalfLap => NothingStoredIsLost
<1>1. Init => IInv
  BY InitIsUnheard
<1>2. WithinHalfLap /\ IInv /\ [Next]_vars => IInv'
  BY NextKeeps
<1>3. WithinHalfLap /\ IInv /\ [Next]_vars
        => [Held \ Held' \subseteq {heard'}]_vars
  BY StepLosesNothing
<1> QED
  BY <1>1, <1>2, <1>3, PTL DEF Spec, NothingStoredIsLost

-----------------------------------------------------------------------------
(* A stream in which the hypothesis holds whatever is lost. *)

\* All the blocks the host sends, and as many as the queue can be behind, are
\* within half a lap: with the program's numbers 160 seconds of audio from any
\* point on, across the wrap too.
ShortStream ==
    /\ FirstBlock <= MaxBlock
    /\ D * (Keep + (MaxBlock - FirstBlock) + Outage + 2) <= Half

LostAreSent ==
    /\ sent \in FirstBlock .. MaxBlock /\ newest \in FirstBlock .. sent
    /\ lost \in 0 .. newest - FirstBlock

LEMMA ArrivalLosesSent ==
    ASSUME LostAreSent, NEW b, NEW i, Arrives(b, i)
    PROVE  LostAreSent'
<1>1. /\ FirstBlock \in Nat /\ sent \in Nat /\ newest \in Nat /\ lost \in Nat
      /\ sent <= MaxBlock /\ newest <= sent /\ FirstBlock <= newest
      /\ lost <= newest - FirstBlock /\ MaxBlock \in Nat
  BY QueueAssumption DEF LostAreSent
<1>2. /\ b \in FirstBlock .. sent /\ sent' = sent
      /\ newest' = IF b > newest THEN b ELSE newest
      /\ lost' = IF blocks = <<>> THEN 0 ELSE lost + PassedOver(b)
  BY DEF Arrives
<1>3. PassedOver(b) = IF newest < b THEN b - 1 - newest ELSE 0
  <2>1. Cardinality(newest + 1 .. b - 1) =
          IF newest + 1 > b - 1 THEN 0 ELSE (b - 1) - (newest + 1) + 1
    BY <1>1, <1>2, FS_Interval
  <2> QED
    BY <1>1, <1>2, <2>1 DEF PassedOver
<1>4. PICK w, l : w = newest' /\ l = lost'
  OBVIOUS
<1>5. /\ w \in FirstBlock .. sent /\ l \in 0 .. w - FirstBlock
  BY <1>1, <1>2, <1>3, <1>4
<1> QED
  BY <1>2, <1>4, <1>5 DEF LostAreSent

LEMMA ShortStreamIsNear ==
    ASSUME ShortStream, LostAreSent
    PROVE  WithinHalfLap
<1> DEFINE c == Keep + (MaxBlock - FirstBlock) + Outage + 2
<1>1. /\ Keep \in Nat /\ Outage \in Nat /\ FirstBlock \in Nat /\ MaxBlock \in Nat
      /\ lost \in Nat /\ lost <= MaxBlock - FirstBlock
  BY KeepIsEnough, QueueAssumption DEF LostAreSent
<1>2. Reach + 1 \in Int /\ c \in Int /\ Reach + 1 - 0 <= c
  BY <1>1 DEF Reach
<1>3. D * c <= Half
  BY DEF ShortStream
<1> HIDE DEF c
<1>4. D * (Reach + 1) - D * 0 <= D * c /\ D * (Reach + 1) \in Int /\ D * c \in Int
  BY <1>2, DistanceOfBlocks
<1>5. D * 0 = 0 /\ Half \in Nat
  BY HalfIsHalf, QueueAssumption
<1>6. D * (Reach + 1) <= Half
  BY <1>3, <1>4, <1>5
<1> QED
  BY <1>6 DEF WithinHalfLap

\* In a short stream, from whatever point and whatever the network does with
\* it, everything proved of the queue holds with no condition on the behaviour.
THEOREM ShortStreamIsSound ==
    ASSUME StartsClear, ShortStream
    PROVE  Spec => /\ []QueueIsSound /\ []FreshIsTaken /\ []HeadIsRecent
                   /\ PlayedInOrder /\ NothingStoredIsLost
<1>1. Init => LostAreSent
  BY QueueAssumption DEF Init, LostAreSent, ShortStream
<1>2. LostAreSent /\ [Next]_vars => LostAreSent'
  <2> SUFFICES ASSUME LostAreSent, [Next]_vars PROVE LostAreSent'
    OBVIOUS
  <2>1. CASE SendBlock
    BY <2>1, QueueAssumption DEF SendBlock, LostAreSent
  <2>2. CASE \E b \in sent - Late .. sent, i \in Shard : RtpaAddPacket(b, i)
    <3>1. PICK b \in sent - Late .. sent, i \in Shard : RtpaAddPacket(b, i)
      BY <2>2
    <3>2. Arrives(b, i)
      BY <3>1 DEF RtpaAddPacket, PassThrough, Synchronize, Reject, SizeMismatch,
                  HandleNow, Store
    <3> QED
      BY <3>2, ArrivalLosesSent
  <2>3. CASE RtpaGetQueuedPacket \/ UNCHANGED vars
    BY <2>3 DEF RtpaGetQueuedPacket, Conceal, Deliver, Drained, vars,
                LostAreSent
  <2> QED
    BY <2>1, <2>2, <2>3 DEF Next
<1>3. LostAreSent => WithinHalfLap
  BY ShortStreamIsNear
<1>4. Spec => []WithinHalfLap
  BY <1>1, <1>2, <1>3, PTL DEF Spec
<1>5. /\ Spec /\ []WithinHalfLap => []QueueIsSound
      /\ Spec /\ []WithinHalfLap => []FreshIsTaken
      /\ Spec /\ []WithinHalfLap => []HeadIsRecent
      /\ Spec /\ []WithinHalfLap => PlayedInOrder
      /\ Spec /\ []WithinHalfLap => NothingStoredIsLost
  BY SoundQueue, FreshTaken, KeepingUp, InOrder, NothingLost
<1> QED
  BY <1>4, <1>5

=============================================================================
