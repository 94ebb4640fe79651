------------------------- MODULE RtpAudioQueueLemmas -------------------------
(***************************************************************************)
(* What the proofs about the audio queue (module RtpAudioQueueProofs) rest *)
(* on: the numbers of a packet and of a block, which are taken modulo M,   *)
(* and the list of blocks.                                                 *)
(*                                                                         *)
(* A number X stands for the unwrapped number x when the two are congruent *)
(* modulo M.  As long as two unwrapped numbers are less than half a lap    *)
(* apart, Before and equality of what stands for them tell their order.    *)
(***************************************************************************)
EXTENDS RtpAudioQueue, SequenceTheorems, WellFoundedInduction, TLAPS

Half == (M - 1) \div 2

StandsFor(X, x) == \E q \in Int : X = x + M * q

\* The host's block a stored one is put together from.
Owner(block) == CHOOSE b \in block.from : TRUE

\* Put together from that block alone, and queued while packets of it could
\* still come: not more than Late blocks after it.
OfOne(block) ==
    /\ block.from = {Owner(block)} /\ block.base = Base(Owner(block))
    /\ block.queued <= Owner(block) + Late

Untouched(block) == block.index = 0 /\ ~block.allowDiscontinuity

\* The list holds blocks of the host from o on, in order, and nothing of a
\* later block than o has been returned or given up.
QueueFrom(o, bs) ==
    /\ \A k \in 1 .. Len(bs) : /\ OfOne(bs[k]) /\ o <= Owner(bs[k])
                               /\ Owner(bs[k]) = o \/ Untouched(bs[k])
    /\ \A j, k \in 1 .. Len(bs) : j < k => Owner(bs[j]) < Owner(bs[k])

\* The list t is bs with a block of the host's block b at p, before (d = 1) or
\* in place of (d = 0) the block there.
Placed(bs, p, d, b, t) ==
    /\ d \in {0, 1} /\ p \in 1 .. Len(bs) + d /\ Len(t) = Len(bs) + d
    /\ \A j \in 1 .. Len(t) : /\ j < p => t[j] = bs[j]
                              /\ p < j => t[j] = bs[j - d]
    /\ \A k \in 1 .. Len(bs) : /\ k < p => Owner(bs[k]) < b
                               /\ p - d < k => b < Owner(bs[k])
    /\ d = 0 => Owner(bs[p]) = b

-----------------------------------------------------------------------------
(* Arithmetic modulo M. *)

LEMMA HalfIsHalf == Half \in Nat /\ 2 * Half < M
  BY QueueAssumption DEF Half

LEMMA Quotient ==
    ASSUME NEW x \in Int
    PROVE  x % M \in Number /\ \E q \in Int : x = M * q + (x % M)
<1>1. x % M \in Number
  BY QueueAssumption DEF Number
<1>2. x = M * (x \div M) + (x % M) /\ x \div M \in Int
  BY QueueAssumption
<1> QED
  BY <1>1, <1>2

LEMMA RemainderIsUnique ==
    ASSUME NEW x \in Int, NEW q \in Int, NEW r \in Number, x = M * q + r
    PROVE  r = x % M
  BY QueueAssumption DEF Number

LEMMA SmallRemainder ==
    ASSUME NEW z \in Int
    PROVE  /\ z \in 0 .. M - 1 => z % M = z
           /\ z \in -M .. -1 => z % M = z + M
<1>1. ASSUME z \in 0 .. M - 1 PROVE z % M = z
  <2>1. z \in Number /\ z = M * 0 + z
    BY <1>1, QueueAssumption DEF Number
  <2> QED
    BY <2>1, RemainderIsUnique
<1>2. ASSUME z \in -M .. -1 PROVE z % M = z + M
  <2>1. z + M \in Number /\ z = M * (-1) + (z + M)
    BY <1>2, QueueAssumption DEF Number
  <2> QED
    BY <2>1, RemainderIsUnique
<1> QED
  BY <1>1, <1>2

LEMMA SameRemainder ==
    ASSUME NEW x \in Int, NEW X \in Int, StandsFor(X, x)
    PROVE  X % M = x % M
<1>1. PICK q \in Int : X = x + M * q
  BY DEF StandsFor
<1>2. PICK p \in Int : x = M * p + (x % M)
  BY Quotient
<1>3. x % M \in Number
  BY Quotient
<1>4. X = M * (p + q) + (x % M)
  BY <1>1, <1>2, <1>3, QueueAssumption DEF Number
<1>5. p + q \in Int
  OBVIOUS
<1> QED
  BY <1>3, <1>4, <1>5, RemainderIsUnique

LEMMA RemainderStandsFor ==
    ASSUME NEW x \in Int
    PROVE  x % M \in Number /\ StandsFor(x % M, x)
<1>1. PICK q \in Int : x = M * q + (x % M)
  BY Quotient
<1>2. x % M \in Number
  BY Quotient
<1>3. x % M = x + M * (-q) /\ -q \in Int
  BY <1>1, <1>2, QueueAssumption DEF Number
<1> QED
  BY <1>2, <1>3 DEF StandsFor

LEMMA DifferenceStandsFor ==
    ASSUME NEW x \in Int, NEW X \in Int, NEW y \in Int, NEW Y \in Int,
           StandsFor(X, x), StandsFor(Y, y)
    PROVE  StandsFor(X - Y, x - y)
<1>1. PICK q \in Int : X = x + M * q
  BY DEF StandsFor
<1>2. PICK p \in Int : Y = y + M * p
  BY DEF StandsFor
<1>3. X - Y = (x - y) + M * (q - p) /\ q - p \in Int
  BY <1>1, <1>2, QueueAssumption
<1> QED
  BY <1>3 DEF StandsFor

LEMMA SumStandsFor ==
    ASSUME NEW x \in Int, NEW X \in Int, NEW c \in Int, StandsFor(X, x)
    PROVE  StandsFor(X + c, x + c)
<1>1. PICK q \in Int : X = x + M * q
  BY DEF StandsFor
<1>2. X + c = (x + c) + M * q
  BY <1>1, QueueAssumption
<1> QED
  BY <1>2 DEF StandsFor

\* Adding to a remainder and taking the remainder again.
LEMMA RemainderOfSum ==
    ASSUME NEW x \in Int, NEW c \in Int
    PROVE  ((x % M) + c) % M = (x + c) % M
<1>1. x % M \in Int
  BY RemainderStandsFor, QueueAssumption DEF Number
<1>2. StandsFor((x % M) + c, x + c)
  BY <1>1, RemainderStandsFor, SumStandsFor
<1> QED
  BY <1>1, <1>2, SameRemainder

\* The order of two numbers less than half a lap apart.
LEMMA BeforeIsLess ==
    ASSUME NEW x \in Int, NEW X \in Int, NEW y \in Int, NEW Y \in Int,
           StandsFor(X, x), StandsFor(Y, y), x - y <= Half, y - x <= Half
    PROVE  Before(X, Y) <=> x < y
<1>1. (X - Y) % M = (x - y) % M
  BY DifferenceStandsFor, SameRemainder
<1>2. Half \in Nat /\ 2 * Half < M
  BY HalfIsHalf
<1>3. x >= y => (x - y) % M = x - y
  BY <1>2, SmallRemainder, QueueAssumption
<1>4. x < y => (x - y) % M = x - y + M
  BY <1>2, SmallRemainder, QueueAssumption
<1> QED
  BY <1>1, <1>2, <1>3, <1>4, QueueAssumption DEF Before, Half

LEMMA EqualIsEqual ==
    ASSUME NEW x \in Int, NEW X \in Number, NEW y \in Int, NEW Y \in Number,
           StandsFor(X, x), StandsFor(Y, y), x - y <= Half, y - x <= Half
    PROVE  X = Y <=> x = y
<1>1. X \in Int /\ Y \in Int
  BY QueueAssumption DEF Number
<1>2. (X - Y) % M = (x - y) % M
  BY <1>1, DifferenceStandsFor, SameRemainder
<1>3. Half \in Nat /\ 2 * Half < M
  BY HalfIsHalf
<1>4. x >= y => (x - y) % M = x - y
  BY <1>3, SmallRemainder, QueueAssumption
<1>5. x < y => (x - y) % M = x - y + M
  BY <1>3, SmallRemainder, QueueAssumption
<1>6. X >= Y => (X - Y) % M = X - Y
  BY <1>3, SmallRemainder, QueueAssumption DEF Number
<1>7. X < Y => (X - Y) % M = X - Y + M
  BY <1>3, SmallRemainder, QueueAssumption DEF Number
<1> QED
  BY <1>1, <1>2, <1>3, <1>4, <1>5, <1>6, <1>7, QueueAssumption DEF Number

-----------------------------------------------------------------------------
(* Blocks and the packets in them. *)

\* The first packet of a block comes after the last of an earlier one.
LEMMA BlocksDoNotOverlap ==
    ASSUME NEW a \in Int, NEW b \in Int, a < b
    PROVE  D * a \in Int /\ D * b \in Int /\ D * a + D <= D * b
<1>1. b = a + 1 + (b - a - 1) /\ b - a - 1 \in Nat
  OBVIOUS
<1>2. \A c \in Nat : D * (a + 1 + c) >= D * a + D
  BY QueueAssumption
<1> QED
  BY <1>1, <1>2, QueueAssumption

LEMMA DistanceOfBlocks ==
    ASSUME NEW a \in Int, NEW b \in Int, NEW s \in Int, a - b <= s
    PROVE  D * a \in Int /\ D * b \in Int /\ D * s \in Int
           /\ D * a - D * b <= D * s
<1>1. D * a - D * b = D * (a - b) /\ a - b \in Int
  BY QueueAssumption
<1>2. a - b = s \/ D * (a - b) + D <= D * s
  BY <1>1, BlocksDoNotOverlap
<1> QED
  BY <1>1, <1>2, QueueAssumption

LEMMA NextBlock ==
    ASSUME NEW a \in Int
    PROVE  D * (a + 1) = D * a + D /\ D * a \in Int
  BY QueueAssumption

\* A lap is a whole number of blocks, so no block goes across the wrap.
LEMMA BaseStandsFor ==
    ASSUME NEW b \in Int, NEW i \in 0 .. D
    PROVE  /\ Base(b) \in Number /\ Base(b) + D <= M
           /\ StandsFor(Base(b) + i, D * b + i)
           /\ i < D => Base(b) + i \in Number
<1>1. PICK m \in Int : M = D * m
  BY QueueAssumption
<1>2. D * b \in Int /\ D \in Nat /\ D # 0 /\ M \in Nat /\ M # 0
  BY QueueAssumption
<1>3. Base(b) \in Number /\ \E q \in Int : D * b = M * q + Base(b)
  BY <1>2, Quotient DEF Base
<1>4. PICK q \in Int : D * b = M * q + Base(b)
  BY <1>3
<1>5. Base(b) \in Int /\ m * q \in Int
  BY <1>2, <1>3 DEF Number
<1> HIDE DEF Base
<1>6. Base(b) = D * (b - m * q)
  <2>1. Base(b) = D * b - (D * m) * q
    BY <1>1, <1>4, <1>5, <1>2
  <2>2. (D * m) * q = D * (m * q)
    BY <1>2
  <2>3. D * b - D * (m * q) = D * (b - m * q)
    BY <1>2, <1>5
  <2> QED
    BY <2>1, <2>2, <2>3
<1>7. D * (b - m * q) + D <= D * m
  <2> DEFINE c == b - m * q
  <2>1. c \in Int /\ D * c < D * m /\ D * c \in Int /\ D * m \in Int
    BY <1>1, <1>3, <1>5, <1>6, <1>2 DEF Number
  <2> HIDE DEF c
  <2>2. ~ m < c
    BY <2>1, <1>2, BlocksDoNotOverlap
  <2>3. m # c
    BY <2>1, <1>2
  <2>4. c < m
    BY <2>1, <2>2, <2>3
  <2>5. D * c + D <= D * m
    BY <2>1, <2>4, BlocksDoNotOverlap
  <2> QED
    BY <2>5 DEF c
<1>8. Base(b) + D <= M
  BY <1>1, <1>6, <1>7
<1>9. StandsFor(Base(b) + i, D * b + i)
  <2>1. M * (-q) = -(M * q) /\ M * q \in Int
    BY <1>2
  <2>2. Base(b) + i = D * b + i + M * (-q) /\ -q \in Int
    BY <1>2, <1>4, <1>5, <2>1
  <2> QED
    BY <2>2 DEF StandsFor
<1>10. i < D => Base(b) + i \in Number
  BY <1>2, <1>3, <1>8 DEF Number
<1> QED
  BY <1>3, <1>8, <1>9, <1>10

LEMMA NearBlocks ==
    ASSUME NEW s \in Int, D * s <= Half, NEW a \in Int, NEW b \in Int,
           a - b <= s, b - a <= s
    PROVE  /\ Before(Base(a), Base(b)) <=> a < b
           /\ Base(a) = Base(b) <=> a = b
<1>1. /\ D * a \in Int /\ D * b \in Int /\ D * s \in Int
      /\ D * a - D * b <= D * s /\ D * b - D * a <= D * s
  BY DistanceOfBlocks
<1>2. /\ Base(a) \in Number /\ StandsFor(Base(a), D * a)
      /\ Base(b) \in Number /\ StandsFor(Base(b), D * b)
  <2>1. D * a \in Int /\ D * b \in Int
    BY <1>1
  <2> QED
    BY <2>1, RemainderStandsFor DEF Base
<1>3. Base(a) \in Int /\ Base(b) \in Int
  BY <1>2, QueueAssumption DEF Number
<1>4. D * a - D * b <= Half /\ D * b - D * a <= Half
  BY <1>1, HalfIsHalf
<1>5. /\ a < b => D * a + D <= D * b
      /\ b < a => D * b + D <= D * a
  BY BlocksDoNotOverlap
<1>6. (a < b <=> D * a < D * b) /\ (a = b <=> D * a = D * b)
  BY <1>1, <1>5, QueueAssumption
<1>7. Before(Base(a), Base(b)) <=> D * a < D * b
  BY <1>1, <1>2, <1>3, <1>4, BeforeIsLess
<1>8. Base(a) = Base(b) <=> D * a = D * b
  BY <1>1, <1>2, <1>4, EqualIsEqual
<1> QED
  BY <1>6, <1>7, <1>8

\* The packet X stands for is packet i of block a.
LEMMA NearPackets ==
    ASSUME NEW s \in Int, D * (s + 1) <= Half, NEW a \in Int, NEW b \in Int,
           a - b <= s, b - a <= s, NEW i \in Data, NEW X, X = (D * a + i) % M
    PROVE  /\ X \in Number
           /\ Before(X, Base(b)) <=> a < b
           /\ Before(X, Base(b) + D) <=> a <= b
           /\ \A j \in Data : X = Base(b) + j <=> a = b /\ i = j
<1>1. /\ D * a \in Int /\ D * b \in Int /\ D * s \in Int
      /\ D * a - D * b <= D * s /\ D * b - D * a <= D * s
  BY DistanceOfBlocks
<1>2. D * s + D <= Half
  BY NextBlock
<1>3. i \in Int /\ 0 <= i /\ i < D /\ D \in Nat
  BY QueueAssumption DEF Data
<1>4. X \in Number /\ StandsFor(X, D * a + i)
  <2>1. D * a + i \in Int
    BY <1>1, <1>3
  <2> QED
    BY <2>1, RemainderStandsFor
<1>5. X \in Int
  BY <1>4, QueueAssumption DEF Number
<1>6. /\ a < b => D * a + D <= D * b
      /\ b < a => D * b + D <= D * a
  BY BlocksDoNotOverlap
<1>7. Half \in Nat
  BY HalfIsHalf
<1>8. ASSUME NEW j \in 0 .. D
      PROVE  Before(X, Base(b) + j) <=> D * a + i < D * b + j
  <2>0. StandsFor(Base(b) + j, D * b + j) /\ Base(b) \in Number
    BY BaseStandsFor
  <2>1. Base(b) + j \in Int
    BY <2>0, <1>3, QueueAssumption DEF Number
  <2>2. /\ D * a + i \in Int /\ D * b + j \in Int
        /\ (D * a + i) - (D * b + j) <= Half /\ (D * b + j) - (D * a + i) <= Half
    BY <1>1, <1>2, <1>3, <1>7
  <2> QED
    BY <1>4, <1>5, <2>0, <2>1, <2>2, BeforeIsLess
<1>9. ASSUME NEW j \in Data
      PROVE  X = Base(b) + j <=> D * a + i = D * b + j
  <2>1. j \in 0 .. D /\ j < D
    BY <1>3 DEF Data
  <2>2. StandsFor(Base(b) + j, D * b + j) /\ Base(b) + j \in Number
    BY <2>1, BaseStandsFor
  <2>3. /\ D * a + i \in Int /\ D * b + j \in Int
        /\ (D * a + i) - (D * b + j) <= Half /\ (D * b + j) - (D * a + i) <= Half
    BY <1>1, <1>2, <1>3, <1>7, <2>1
  <2> DEFINE Y == Base(b) + j
             x == D * a + i
             y == D * b + j
  <2>4. x \in Int /\ y \in Int /\ x - y <= Half /\ y - x <= Half
    BY <2>3
  <2>5. StandsFor(Y, y) /\ Y \in Number /\ StandsFor(X, x) /\ X \in Number
    BY <1>4, <2>2
  <2> HIDE DEF x, y, Y
  <2>6. X = Y <=> x = y
    BY <2>4, <2>5, EqualIsEqual
  <2> QED
    BY <2>6 DEF x, y, Y
<1>10. Before(X, Base(b)) <=> a < b
  <2>1. Before(X, Base(b) + 0) <=> D * a + i < D * b + 0
    BY <1>8, <1>3
  <2>2. Base(b) + 0 = Base(b)
    BY <1>3, BaseStandsFor, QueueAssumption DEF Number
  <2>3. D * a + i < D * b + 0 <=> a < b
    BY <1>1, <1>3, <1>6
  <2> QED
    BY <2>1, <2>2, <2>3
<1>11. Before(X, Base(b) + D) <=> a <= b
  <2>1. Before(X, Base(b) + D) <=> D * a + i < D * b + D
    BY <1>8, <1>3
  <2>2. D * a + i < D * b + D <=> a <= b
    BY <1>1, <1>3, <1>6
  <2> QED
    BY <2>1, <2>2
<1>12. ASSUME NEW j \in Data PROVE X = Base(b) + j <=> a = b /\ i = j
  <2>1. j \in Int /\ 0 <= j /\ j < D
    BY <1>3 DEF Data
  <2>2. D * a + i = D * b + j <=> a = b /\ i = j
    BY <1>1, <1>3, <1>6, <2>1
  <2> QED
    BY <1>9, <2>2
<1> QED
  BY <1>4, <1>10, <1>11, <1>12

-----------------------------------------------------------------------------
(* Sequences. *)

LEMMA LeastOfNaturals ==
    ASSUME NEW T, T \subseteq Nat, T # {}
    PROVE  \E x \in T : \A y \in T : x <= y
<1> DEFINE R == OpToRel(<, Nat)
<1>1. IsWellFoundedOn(R, Nat)
  BY NatLessThanWellFounded
<1>2. \A x, y \in Nat : x < y => <<x, y>> \in R
  BY DEF OpToRel
<1> HIDE DEF R
<1>0. T \subseteq Nat /\ T # {}
  OBVIOUS
<1>3. PICK x \in T : \A y \in T : ~ (<<y, x>> \in R)
  BY <1>0, <1>1, WFMin
<1>4. ASSUME NEW y \in T PROVE x <= y
  <2>1. x \in Nat /\ y \in Nat /\ ~ (<<y, x>> \in R)
    BY <1>3
  <2>2. ~ (y < x)
    BY <1>2, <2>1
  <2> QED
    BY <2>1, <2>2
<1> QED
  BY <1>4

\* A sequence with x in place of its k-th element, or before it.
Replacing(s, k, x) == SubSeq(s, 1, k - 1) \o <<x>> \o SubSeq(s, k + 1, Len(s))
Inserting(s, k, x) == SubSeq(s, 1, k - 1) \o <<x>> \o SubSeq(s, k, Len(s))

\* A part of a sequence.
LEMMA PartOf ==
    ASSUME NEW S, NEW s \in Seq(S), NEW m \in 1 .. Len(s) + 1,
           NEW n \in m - 1 .. Len(s)
    PROVE  /\ SubSeq(s, m, n) \in Seq(S) /\ Len(SubSeq(s, m, n)) = n - m + 1
           /\ \A j \in 1 .. n - m + 1 : SubSeq(s, m, n)[j] = s[m + j - 1]
<1>1. Len(s) \in Nat /\ \A j \in 1 .. Len(s) : s[j] \in S
  BY ElementOfSeq, LenProperties
<1>2. m \in Int /\ n \in Int /\ m >= 1 /\ m - 1 <= n /\ n <= Len(s)
  BY <1>1
<1>3. \A j \in m .. n : s[j] \in S
  BY <1>1, <1>2
<1>4. /\ SubSeq(s, m, n) \in Seq(S)
      /\ Len(SubSeq(s, m, n)) = IF m <= n THEN n - m + 1 ELSE 0
      /\ \A j \in 1 .. n - m + 1 : SubSeq(s, m, n)[j] = s[m + j - 1]
  BY <1>2, <1>3, SubSeqProperties
<1>5. (IF m <= n THEN n - m + 1 ELSE 0) = n - m + 1
  BY <1>2
<1> QED
  BY <1>4, <1>5

\* One element between two parts.
LEMMA Between ==
    ASSUME NEW S, NEW a \in Seq(S), NEW c \in Seq(S), NEW x \in S,
           NEW t, t = a \o <<x>> \o c
    PROVE  /\ t \in Seq(S) /\ Len(t) = Len(a) + 1 + Len(c)
           /\ \A j \in 1 .. Len(a) : t[j] = a[j]
           /\ t[Len(a) + 1] = x
           /\ \A j \in 1 .. Len(c) : t[Len(a) + 1 + j] = c[j]
<1> DEFINE one == <<x>>
           ax  == a \o one
           m   == Len(a)
           n   == Len(c)
<1>0. t = ax \o c
  OBVIOUS
<1>1. one \in Seq(S) /\ Len(one) = 1 /\ one[1] = x
  OBVIOUS
<1>2. m \in Nat /\ n \in Nat
  BY LenProperties
<1> HIDE DEF one
<1>3. /\ ax \in Seq(S) /\ Len(ax) = m + 1
      /\ \A j \in 1 .. m + 1 : ax[j] = IF j <= m THEN a[j] ELSE one[j - m]
  BY <1>1, ConcatProperties
<1> HIDE DEF ax
<1>4. /\ t \in Seq(S) /\ Len(t) = Len(ax) + n
      /\ \A j \in 1 .. Len(ax) + n :
            t[j] = IF j <= Len(ax) THEN ax[j] ELSE c[j - Len(ax)]
  BY <1>0, <1>3, ConcatProperties
<1> HIDE DEF m, n
<1>5. /\ Len(t) = m + 1 + n
      /\ \A j \in 1 .. m + 1 + n :
            t[j] = IF j <= m + 1 THEN ax[j] ELSE c[j - (m + 1)]
  BY <1>3, <1>4
<1>6. ASSUME NEW j \in 1 .. m PROVE t[j] = a[j]
  <2>1. j \in 1 .. m + 1 + n /\ j <= m + 1 /\ j \in 1 .. m + 1 /\ j <= m
    BY <1>2
  <2> QED
    BY <1>3, <1>5, <2>1
<1>7. t[m + 1] = x
  <2>1. /\ m + 1 \in 1 .. m + 1 + n /\ m + 1 <= m + 1 /\ m + 1 \in 1 .. m + 1
        /\ ~ (m + 1 <= m) /\ (m + 1) - m = 1
    BY <1>2
  <2>2. t[m + 1] = ax[m + 1]
    BY <1>5, <2>1
  <2>3. ax[m + 1] = one[1]
    BY <1>3, <2>1
  <2> QED
    BY <1>1, <2>2, <2>3
<1>8. ASSUME NEW j \in 1 .. n PROVE t[m + 1 + j] = c[j]
  <2>1. /\ m + 1 + j \in 1 .. m + 1 + n /\ ~ (m + 1 + j <= m + 1)
        /\ (m + 1 + j) - (m + 1) = j
    BY <1>2
  <2>2. t[m + 1 + j] = c[(m + 1 + j) - (m + 1)]
    BY <1>5, <2>1
  <2> QED
    BY <2>1, <2>2
<1>9. t \in Seq(S)
  BY <1>4
<1> QED
  BY <1>5, <1>6, <1>7, <1>8, <1>9 DEF m, n

LEMMA Replaced ==
    ASSUME NEW S, NEW s \in Seq(S), NEW k \in 1 .. Len(s), NEW x \in S
    PROVE  /\ Replacing(s, k, x) \in Seq(S) /\ Len(Replacing(s, k, x)) = Len(s) /\ Replacing(s, k, x)[k] = x
           /\ \A j \in 1 .. Len(s) : j # k => Replacing(s, k, x)[j] = s[j]
<1> DEFINE t == Replacing(s, k, x)
           a == SubSeq(s, 1, k - 1)
           c == SubSeq(s, k + 1, Len(s))
           l == Len(s)
<1>1. l \in Nat /\ k \in 1 .. l
  BY LenProperties
<1>2. /\ a \in Seq(S) /\ Len(a) = (k - 1) - 1 + 1
      /\ \A j \in 1 .. (k - 1) - 1 + 1 : a[j] = s[1 + j - 1]
  <2>1. 1 \in 1 .. Len(s) + 1 /\ k - 1 \in 1 - 1 .. Len(s)
    BY <1>1
  <2> QED
    BY <2>1, PartOf
<1>3. /\ c \in Seq(S) /\ Len(c) = Len(s) - (k + 1) + 1
      /\ \A j \in 1 .. Len(s) - (k + 1) + 1 : c[j] = s[k + 1 + j - 1]
  <2>1. k + 1 \in 1 .. Len(s) + 1 /\ Len(s) \in k + 1 - 1 .. Len(s)
    BY <1>1
  <2> QED
    BY <2>1, PartOf
<1> HIDE DEF a, c
<1>4. /\ t \in Seq(S) /\ Len(t) = Len(a) + 1 + Len(c)
      /\ \A j \in 1 .. Len(a) : t[j] = a[j]
      /\ t[Len(a) + 1] = x
      /\ \A j \in 1 .. Len(c) : t[Len(a) + 1 + j] = c[j]
  <2>1. t = a \o <<x>> \o c
    BY DEF a, c, Replacing
  <2>2. a \in Seq(S) /\ c \in Seq(S) /\ x \in S
    BY <1>2, <1>3
  <2> HIDE DEF l
  <2> QED
    BY ONLY <2>1, <2>2, Between
<1> HIDE DEF l, t
<1>5. Len(a) = k - 1 /\ Len(c) = l - k
  BY <1>1, <1>2, <1>3 DEF l
<1>6. Len(t) = l /\ t[k] = x
  <2>1. Len(a) + 1 + Len(c) = l /\ Len(a) + 1 = k
    BY <1>1, <1>5
  <2> QED
    BY <1>4, <2>1
<1>7. ASSUME NEW j \in 1 .. l, j # k PROVE t[j] = s[j]
  <2>0. j \in Int /\ k \in Int
    BY <1>1
  <2>1. CASE j < k
    <3>1. j \in 1 .. Len(a) /\ j \in 1 .. (k - 1) - 1 + 1 /\ 1 + j - 1 = j
      BY <1>1, <1>5, <2>1
    <3>2. t[j] = a[j] /\ a[j] = s[1 + j - 1]
      BY <1>2, <1>4, <3>1
    <3> QED
      BY <3>1, <3>2
  <2>2. CASE j > k
    <3>1. /\ j - k \in 1 .. Len(c) /\ j - k \in 1 .. Len(s) - (k + 1) + 1
          /\ Len(a) + 1 + (j - k) = j /\ k + 1 + (j - k) - 1 = j
      BY <1>1, <1>5, <2>2 DEF l
    <3>2. t[Len(a) + 1 + (j - k)] = c[j - k] /\ c[j - k] = s[k + 1 + (j - k) - 1]
      BY <1>3, <1>4, <3>1
    <3> QED
      BY <3>1, <3>2
  <2>3. j < k \/ j > k
    BY <1>7, <2>0
  <2> QED
    BY <2>1, <2>2, <2>3
<1> QED
  BY <1>4, <1>6, <1>7 DEF l, t

LEMMA Inserted ==
    ASSUME NEW S, NEW s \in Seq(S), NEW k \in 1 .. Len(s) + 1, NEW x \in S
    PROVE  /\ Inserting(s, k, x) \in Seq(S) /\ Len(Inserting(s, k, x)) = Len(s) + 1 /\ Inserting(s, k, x)[k] = x
           /\ \A j \in 1 .. Len(s) + 1 :
                 /\ j < k => Inserting(s, k, x)[j] = s[j]
                 /\ k < j => Inserting(s, k, x)[j] = s[j - 1]
<1> DEFINE t == Inserting(s, k, x)
           a == SubSeq(s, 1, k - 1)
           c == SubSeq(s, k, Len(s))
           l == Len(s)
<1>1. l \in Nat /\ k \in 1 .. l + 1
  BY LenProperties
<1>2. /\ a \in Seq(S) /\ Len(a) = (k - 1) - 1 + 1
      /\ \A j \in 1 .. (k - 1) - 1 + 1 : a[j] = s[1 + j - 1]
  <2>1. 1 \in 1 .. Len(s) + 1 /\ k - 1 \in 1 - 1 .. Len(s)
    BY <1>1
  <2> QED
    BY <2>1, PartOf
<1>3. /\ c \in Seq(S) /\ Len(c) = Len(s) - k + 1
      /\ \A j \in 1 .. Len(s) - k + 1 : c[j] = s[k + j - 1]
  <2>1. k \in 1 .. Len(s) + 1 /\ Len(s) \in k - 1 .. Len(s)
    BY <1>1
  <2> QED
    BY <2>1, PartOf
<1> HIDE DEF a, c
<1>4. /\ t \in Seq(S) /\ Len(t) = Len(a) + 1 + Len(c)
      /\ \A j \in 1 .. Len(a) : t[j] = a[j]
      /\ t[Len(a) + 1] = x
      /\ \A j \in 1 .. Len(c) : t[Len(a) + 1 + j] = c[j]
  <2>1. t = a \o <<x>> \o c
    BY DEF a, c, Inserting
  <2>2. a \in Seq(S) /\ c \in Seq(S) /\ x \in S
    BY <1>2, <1>3
  <2> HIDE DEF l
  <2> QED
    BY ONLY <2>1, <2>2, Between
<1> HIDE DEF l, t
<1>5. Len(a) = k - 1 /\ Len(c) = l - k + 1
  BY <1>1, <1>2, <1>3 DEF l
<1>6. Len(t) = l + 1 /\ t[k] = x
  <2>1. Len(a) + 1 + Len(c) = l + 1 /\ Len(a) + 1 = k
    BY <1>1, <1>5
  <2> QED
    BY <1>4, <2>1
<1>7. ASSUME NEW j \in 1 .. l + 1, j < k PROVE t[j] = s[j]
  <2>1. j \in 1 .. Len(a) /\ j \in 1 .. (k - 1) - 1 + 1 /\ 1 + j - 1 = j
    BY <1>1, <1>5, <1>7
  <2>2. t[j] = a[j] /\ a[j] = s[1 + j - 1]
    BY <1>2, <1>4, <2>1
  <2> QED
    BY <2>1, <2>2
<1>8. ASSUME NEW j \in 1 .. l + 1, k < j PROVE t[j] = s[j - 1]
  <2>1. /\ j - k \in 1 .. Len(c) /\ j - k \in 1 .. Len(s) - k + 1
        /\ Len(a) + 1 + (j - k) = j /\ k + (j - k) - 1 = j - 1
    BY <1>1, <1>5, <1>8 DEF l
  <2>2. t[Len(a) + 1 + (j - k)] = c[j - k] /\ c[j - k] = s[k + (j - k) - 1]
    BY <1>3, <1>4, <2>1
  <2> QED
    BY <2>1, <2>2
<1> QED
  BY <1>4, <1>6, <1>7, <1>8 DEF l, t

LEMMA Updated ==
    ASSUME NEW S, NEW s \in Seq(S), NEW k \in 1 .. Len(s), NEW x \in S,
           NEW t, t = [s EXCEPT ![k] = x]
    PROVE  /\ t \in Seq(S) /\ Len(t) = Len(s) /\ t[k] = x
           /\ \A j \in 1 .. Len(s) : j # k => t[j] = s[j]
  BY ExceptSeq

LEMMA Nonempty ==
    ASSUME NEW S, NEW s \in Seq(S)
    PROVE  /\ Len(s) \in Nat /\ DOMAIN s = 1 .. Len(s)
           /\ s = <<>> <=> Len(s) = 0
           /\ s # <<>> <=> 1 \in 1 .. Len(s)
           /\ \A k \in 1 .. Len(s) : s[k] \in S
<1>1. Len(s) \in Nat /\ DOMAIN s = 1 .. Len(s)
  BY LenProperties
<1>2. s = <<>> <=> Len(s) = 0
  BY EmptySeq
<1>3. s # <<>> <=> 1 \in 1 .. Len(s)
  BY <1>1, <1>2
<1> QED
  BY <1>1, <1>2, <1>3, ElementOfSeq

LEMMA TailOf ==
    ASSUME NEW S, NEW s \in Seq(S), s # <<>>, NEW t, t = Tail(s)
    PROVE  /\ t \in Seq(S) /\ Len(t) = Len(s) - 1
           /\ \A j \in 1 .. Len(t) : t[j] = s[j + 1]
  BY HeadTailProperties

\* What is written to the head does not matter once it is freed.
LEMMA TailIsKept ==
    ASSUME NEW S, NEW s \in Seq(S), s # <<>>, NEW x
    PROVE  Tail([s EXCEPT ![1] = x]) = Tail(s)
<1> DEFINE T == S \cup {x}
           t == [s EXCEPT ![1] = x]
<1>1. s \in Seq(T) /\ x \in T
  BY SeqMonotonic
<1>2. 1 \in 1 .. Len(s)
  BY Nonempty
<1> HIDE DEF T
<1>3. /\ t \in Seq(T) /\ Len(t) = Len(s)
      /\ \A j \in 1 .. Len(s) : j # 1 => t[j] = s[j]
  BY <1>1, <1>2, Updated
<1>4. t # <<>>
  BY <1>1, <1>2, <1>3, Nonempty
<1> DEFINE u == Tail(t)
           v == Tail(s)
<1>5. u \in Seq(T) /\ Len(u) = Len(t) - 1 /\ \A j \in 1 .. Len(u) : u[j] = t[j + 1]
  BY <1>3, <1>4, TailOf
<1>6. v \in Seq(T) /\ Len(v) = Len(s) - 1 /\ \A j \in 1 .. Len(v) : v[j] = s[j + 1]
  BY <1>1, TailOf
<1>7. Len(s) \in Nat
  BY LenProperties
<1> HIDE DEF u, v, t
<1>8. ASSUME NEW j \in 1 .. Len(u) PROVE u[j] = v[j]
  <2>1. j \in 1 .. Len(v) /\ j + 1 \in 1 .. Len(s) /\ j + 1 # 1
    BY <1>3, <1>5, <1>6, <1>7
  <2> QED
    BY <1>3, <1>5, <1>6, <2>1
<1>9. u = v
  BY <1>3, <1>5, <1>6, <1>8, SeqEqual
<1> QED
  BY <1>9 DEF u, v, t

-----------------------------------------------------------------------------
(* The list of blocks. *)

LEMMA PlacedIsSeq ==
    ASSUME NEW bs \in Seq(Block), NEW t \in Seq(Block), NEW p, NEW d, NEW b,
           Placed(bs, p, d, b, t)
    PROVE  /\ p \in 1 .. Len(t) /\ t # <<>>
           /\ p # 1 => bs # <<>> /\ t[1] = bs[1]
           /\ Len(bs) \in Nat /\ d \in {0, 1} /\ p \in Int
<1>1. Len(bs) \in Nat /\ Len(t) \in Nat
  BY LenProperties
<1>2. /\ d \in {0, 1} /\ p \in 1 .. Len(bs) + d /\ Len(t) = Len(bs) + d
      /\ \A j \in 1 .. Len(t) : j < p => t[j] = bs[j]
  BY DEF Placed
<1>3. p \in 1 .. Len(t) /\ 1 \in 1 .. Len(t) /\ p \in Int
  BY <1>1, <1>2
<1>4. t # <<>>
  BY <1>3, Nonempty
<1>5. ASSUME p # 1 PROVE bs # <<>> /\ t[1] = bs[1]
  <2>1. 1 < p /\ Len(bs) # 0
    BY <1>1, <1>2, <1>3, <1>5
  <2> QED
    BY <1>2, <1>3, <2>1, Nonempty
<1> QED
  BY <1>1, <1>2, <1>3, <1>4, <1>5

\* A list with a block of the host's put in its place is in order again.
LEMMA PlacedInOrder ==
    ASSUME NEW bs \in Seq(Block), NEW t \in Seq(Block), NEW p, NEW d,
           NEW b \in Nat, NEW o \in Nat, Placed(bs, p, d, b, t),
           QueueFrom(o, bs), OfOne(t[p]), Owner(t[p]) = b, o <= b,
           b = o \/ Untouched(t[p])
    PROVE  QueueFrom(o, t)
<1>1. Len(bs) \in Nat /\ Len(t) \in Nat
  BY LenProperties
<1>2. /\ d \in {0, 1} /\ p \in 1 .. Len(bs) + d /\ Len(t) = Len(bs) + d
      /\ \A j \in 1 .. Len(t) : /\ j < p => t[j] = bs[j]
                                /\ p < j => t[j] = bs[j - d]
      /\ \A k \in 1 .. Len(bs) : /\ k < p => Owner(bs[k]) < b
                                 /\ p - d < k => b < Owner(bs[k])
  BY DEF Placed
<1>3. /\ \A k \in 1 .. Len(bs) : /\ OfOne(bs[k]) /\ o <= Owner(bs[k])
                                 /\ Owner(bs[k]) = o \/ Untouched(bs[k])
      /\ \A j, k \in 1 .. Len(bs) : j < k => Owner(bs[j]) < Owner(bs[k])
  BY DEF QueueFrom
<1>4. ASSUME NEW j \in 1 .. Len(t), j < p
      PROVE  j \in 1 .. Len(bs) /\ t[j] = bs[j] /\ Owner(t[j]) < b
  <2>1. j \in 1 .. Len(bs)
    BY <1>1, <1>2, <1>4
  <2> QED
    BY <1>2, <1>4, <2>1
<1>5. ASSUME NEW j \in 1 .. Len(t), p < j
      PROVE  /\ j - d \in 1 .. Len(bs) /\ t[j] = bs[j - d]
             /\ b < Owner(t[j])
  <2>1. j - d \in 1 .. Len(bs) /\ p - d < j - d
    BY <1>1, <1>2, <1>5
  <2> QED
    BY <1>2, <1>5, <2>1
<1>6. ASSUME NEW j \in 1 .. Len(t)
      PROVE  /\ OfOne(t[j]) /\ o <= Owner(t[j])
             /\ Owner(t[j]) = o \/ Untouched(t[j])
  <2>1. CASE j < p
    BY <1>3, <1>4, <2>1
  <2>2. CASE p < j
    BY <1>3, <1>5, <2>2
  <2>3. CASE j = p
    BY <2>3
  <2>4. j < p \/ p < j \/ j = p
    BY <1>1, <1>2
  <2> QED
    BY <2>1, <2>2, <2>3, <2>4
<1>7. ASSUME NEW j \in 1 .. Len(t), NEW k \in 1 .. Len(t), j < k
      PROVE  Owner(t[j]) < Owner(t[k])
  <2>1. CASE k < p
    <3>1. j < p
      BY <1>1, <1>2, <1>7, <2>1
    <3> QED
      BY <1>3, <1>4, <1>7, <2>1, <3>1
  <2>2. CASE k = p
    BY <1>4, <1>7, <2>2
  <2>3. CASE j = p
    BY <1>5, <1>7, <2>3
  <2>4. CASE p < j
    <3>1. p < k /\ j - d < k - d
      BY <1>1, <1>2, <1>7, <2>4
    <3> QED
      BY <1>3, <1>5, <2>4, <3>1
  <2>5. CASE j < p /\ p < k
    <3>1. /\ j \in 1 .. Len(bs) /\ k - d \in 1 .. Len(bs) /\ j < k - d
          /\ t[j] = bs[j] /\ t[k] = bs[k - d]
      BY <1>1, <1>2, <1>4, <1>5, <2>5
    <3> QED
      BY <1>3, <3>1
  <2>6. k < p \/ k = p \/ j = p \/ p < j \/ (j < p /\ p < k)
    BY <1>1, <1>2, <1>7
  <2> QED
    BY <2>1, <2>2, <2>3, <2>4, <2>5, <2>6
<1> QED
  BY <1>6, <1>7 DEF QueueFrom

LEMMA OwnerOfSingle ==
    ASSUME NEW block, NEW b, block.from = {b}
    PROVE  Owner(block) = b
  BY DEF Owner

LEMMA OwnersAreNumbers ==
    ASSUME NEW bs \in Seq(Block), NEW o, QueueFrom(o, bs), NEW k \in 1 .. Len(bs)
    PROVE  Owner(bs[k]) \in Nat
<1>1. bs[k] \in Block
  BY ElementOfSeq
<1>2. OfOne(bs[k])
  BY DEF QueueFrom
<1>3. bs[k].from \subseteq Nat /\ bs[k].from = {Owner(bs[k])}
  BY <1>1, <1>2 DEF Block, OfOne
<1> QED
  BY <1>3

LEMMA PlacedAgain ==
    ASSUME NEW bs \in Seq(Block), NEW t \in Seq(Block), NEW p, NEW d, NEW b,
           Placed(bs, p, d, b, t), NEW u, Len(u) = Len(t),
           \A j \in 1 .. Len(t) : j # p => u[j] = t[j]
    PROVE  Placed(bs, p, d, b, u)
<1>1. p \in 1 .. Len(t) /\ p \in Int
  BY PlacedIsSeq
<1>2. ASSUME NEW j \in 1 .. Len(u)
      PROVE  j < p => u[j] = bs[j]
  BY <1>1 DEF Placed
<1>3. ASSUME NEW j \in 1 .. Len(u)
      PROVE  p < j => u[j] = bs[j - d]
  BY <1>1 DEF Placed
<1> QED
  BY <1>2, <1>3 DEF Placed

\* The head and the last block of the list a block was put into.
LEMMA PlacedEnds ==
    ASSUME NEW bs \in Seq(Block), NEW t \in Seq(Block), NEW p, NEW d,
           NEW b \in Nat, NEW o \in Nat, Placed(bs, p, d, b, t),
           QueueFrom(o, bs), Owner(t[p]) = b
    PROVE  /\ bs = <<>> => Owner(t[Len(t)]) = b /\ Len(t) = 1
           /\ bs # <<>> => Owner(t[Len(t)]) = IF Owner(bs[Len(bs)]) < b
                              THEN b ELSE Owner(bs[Len(bs)])
           /\ p = 1 /\ bs # <<>> => b <= Owner(bs[1])
           /\ p # 1 => Owner(bs[1]) < b
<1> DEFINE m == Len(bs)
           n == Len(t)
<1>1. m \in Nat /\ n \in Nat /\ (bs = <<>> <=> m = 0)
  BY Nonempty
<1>2. /\ d \in {0, 1} /\ p \in 1 .. m + d /\ n = m + d
      /\ \A j \in 1 .. n : /\ j < p => t[j] = bs[j]
                          /\ p < j => t[j] = bs[j - d]
      /\ \A k \in 1 .. m : /\ k < p => Owner(bs[k]) < b
                          /\ p - d < k => b < Owner(bs[k])
      /\ d = 0 => Owner(bs[p]) = b
  BY DEF Placed
<1>3. \A k \in 1 .. m : Owner(bs[k]) \in Nat
  BY OwnersAreNumbers
<1>7. \A k \in 1 .. m : k < p => Owner(bs[k]) < b
  BY DEF Placed
<1> HIDE DEF m, n
<1>4. n >= 1 /\ p \in Int
  BY <1>1, <1>2
<1>5. CASE m = 0
  <2>1. p = 1 /\ n = 1
    BY <1>1, <1>2, <1>5
  <2> QED
    BY <1>1, <1>5, <2>1 DEF m, n
<1>6. CASE m # 0
  <2>1. m \in 1 .. m /\ 1 \in 1 .. m /\ n \in 1 .. n
    BY <1>1, <1>4, <1>6
  <2>2. ASSUME p = n
        PROVE  Owner(t[n]) = IF Owner(bs[m]) < b THEN b ELSE Owner(bs[m])
    <3>1. Owner(t[n]) = b
      BY <2>2
    <3>2. d = 0 => Owner(bs[m]) = b
      BY <1>1, <1>2, <2>2
    <3>3. d = 1 => Owner(bs[m]) < b
      <4>1. d = 1 => m < p
        BY <1>1, <1>2, <2>2
      <4> QED
        BY <1>7, <2>1, <4>1
    <3>4. Owner(bs[m]) < b \/ Owner(bs[m]) = b
      BY <1>2, <3>2, <3>3
    <3> QED
      BY <1>3, <2>1, <3>1, <3>4
  <2>3. ASSUME p < n
        PROVE  Owner(t[n]) = IF Owner(bs[m]) < b THEN b ELSE Owner(bs[m])
    <3>1. t[n] = bs[n - d] /\ n - d = m /\ p - d < m
      BY <1>1, <1>2, <2>1, <2>3
    <3>2. b < Owner(bs[m]) /\ Owner(t[n]) = Owner(bs[m])
      BY <1>2, <2>1, <3>1
    <3> QED
      BY <1>3, <2>1, <3>2
  <2>4. p = n \/ p < n
    BY <1>1, <1>2
  <2>5. p = 1 => b <= Owner(bs[1])
    <3>1. p = 1 /\ d = 0 => Owner(bs[1]) = b
      BY <1>2
    <3>2. p = 1 /\ d = 1 => b < Owner(bs[1])
      <4>1. p = 1 /\ d = 1 => p - d < 1
        OBVIOUS
      <4> QED
        BY <1>2, <2>1, <4>1
    <3> QED
      BY <1>2, <1>3, <2>1, <3>1, <3>2
  <2>6. p # 1 => Owner(bs[1]) < b
    <3>1. p # 1 => 1 < p
      BY <1>1, <1>2
    <3> QED
      BY <1>7, <2>1, <3>1
  <2>7. Owner(t[n]) = IF Owner(bs[m]) < b THEN b ELSE Owner(bs[m])
    BY <2>2, <2>3, <2>4
  <2> QED
    BY <1>1, <1>6, <2>5, <2>6, <2>7 DEF m, n
<1> QED
  BY <1>5, <1>6

\* Every other block of the list is still in it.
LEMMA PlacedKeeps ==
    ASSUME NEW bs \in Seq(Block), NEW t \in Seq(Block), NEW p, NEW d, NEW b,
           Placed(bs, p, d, b, t), NEW k \in 1 .. Len(bs)
    PROVE  \/ \E m \in 1 .. Len(t) : m # p /\ t[m] = bs[k]
           \/ d = 0 /\ k = p
<1>1. Len(bs) \in Nat /\ Len(t) \in Nat
  BY LenProperties
<1>2. /\ d \in {0, 1} /\ p \in 1 .. Len(bs) + d /\ Len(t) = Len(bs) + d
      /\ \A j \in 1 .. Len(t) : /\ j < p => t[j] = bs[j]
                                /\ p < j => t[j] = bs[j - d]
  BY DEF Placed
<1>3. CASE k < p
  <2>1. k \in 1 .. Len(t) /\ k # p /\ t[k] = bs[k]
    BY <1>1, <1>2, <1>3
  <2> QED
    BY <2>1
<1>4. CASE ~(k < p) /\ ~(d = 0 /\ k = p)
  <2>1. k + d \in 1 .. Len(t) /\ p < k + d /\ (k + d) - d = k
    BY <1>1, <1>2, <1>4
  <2>2. t[k + d] = bs[k] /\ k + d # p
    BY <1>1, <1>2, <2>1
  <2> QED
    BY <2>1, <2>2
<1> QED
  BY <1>3, <1>4

\* The list without its head, when that is the block waited for.
LEMMA HeadFreed ==
    ASSUME NEW bs \in Seq(Block), NEW o \in Nat, QueueFrom(o, bs), bs # <<>>,
           Owner(bs[1]) = o
    PROVE  /\ Tail(bs) \in Seq(Block) /\ QueueFrom(o + 1, Tail(bs))
           /\ Len(Tail(bs)) = Len(bs) - 1
           /\ \A k \in 1 .. Len(Tail(bs)) :
                 /\ k + 1 \in 1 .. Len(bs) /\ Tail(bs)[k] = bs[k + 1]
                 /\ o + 1 <= Owner(Tail(bs)[k]) /\ Untouched(Tail(bs)[k])
           /\ Tail(bs) = <<>> => Owner(bs[Len(bs)]) = o
           /\ Tail(bs) # <<>> =>
                 Owner(Tail(bs)[Len(Tail(bs))]) = Owner(bs[Len(bs)])
<1> DEFINE t == Tail(bs)
<1>1. Len(bs) \in Nat /\ Len(bs) # 0
  BY Nonempty
<1>2. /\ t \in Seq(Block) /\ Len(t) = Len(bs) - 1
      /\ \A j \in 1 .. Len(t) : t[j] = bs[j + 1]
  BY TailOf
<1> HIDE DEF t
<1>3. /\ \A k \in 1 .. Len(bs) : /\ OfOne(bs[k]) /\ o <= Owner(bs[k])
                                 /\ Owner(bs[k]) = o \/ Untouched(bs[k])
      /\ \A j, k \in 1 .. Len(bs) : j < k => Owner(bs[j]) < Owner(bs[k])
  BY DEF QueueFrom
<1>4. \A k \in 1 .. Len(bs) : Owner(bs[k]) \in Nat
  BY OwnersAreNumbers
<1>5. ASSUME NEW k \in 1 .. Len(t)
      PROVE  /\ k + 1 \in 1 .. Len(bs) /\ t[k] = bs[k + 1]
             /\ o < Owner(t[k]) /\ OfOne(t[k]) /\ Untouched(t[k])
             /\ Owner(t[k]) \in Nat
  <2>1. k + 1 \in 1 .. Len(bs) /\ 1 \in 1 .. Len(bs) /\ 1 < k + 1
    BY <1>1, <1>2
  <2>2. Owner(bs[1]) < Owner(bs[k + 1])
    BY <1>3, <2>1
  <2> QED
    BY <1>2, <1>3, <1>4, <2>1, <2>2
<1>6. ASSUME NEW j \in 1 .. Len(t), NEW k \in 1 .. Len(t), j < k
      PROVE  Owner(t[j]) < Owner(t[k])
  <2>1. /\ j + 1 \in 1 .. Len(bs) /\ k + 1 \in 1 .. Len(bs) /\ j + 1 < k + 1
        /\ t[j] = bs[j + 1] /\ t[k] = bs[k + 1]
    BY <1>5, <1>6
  <2> QED
    BY <1>3, <2>1
<1>7. QueueFrom(o + 1, t)
  <2>1. \A k \in 1 .. Len(t) : o + 1 <= Owner(t[k])
    BY <1>5
  <2> QED
    BY <1>5, <1>6, <2>1 DEF QueueFrom
<1>8. t = <<>> => Owner(bs[Len(bs)]) = o
  <2>0. t = <<>> => Len(t) = 0
    BY <1>2, Nonempty
  <2>1. t = <<>> => Len(bs) = 1
    BY <1>1, <1>2, <2>0
  <2> QED
    BY <2>1
<1>9. t # <<>> => Owner(t[Len(t)]) = Owner(bs[Len(bs)])
  <2>1. t # <<>> => Len(t) \in 1 .. Len(t) /\ Len(t) + 1 = Len(bs)
    BY <1>1, <1>2, Nonempty
  <2> QED
    BY <1>2, <2>1
<1> QED
  BY <1>2, <1>5, <1>7, <1>8, <1>9 DEF t

LEMMA LastIsNewest ==
    ASSUME NEW bs \in Seq(Block), NEW o, QueueFrom(o, bs), NEW k \in 1 .. Len(bs)
    PROVE  /\ Len(bs) \in 1 .. Len(bs)
           /\ Owner(bs[k]) <= Owner(bs[Len(bs)])
           /\ o <= Owner(bs[k])
<1>1. Len(bs) \in Nat
  BY LenProperties
<1>2. Len(bs) \in 1 .. Len(bs) /\ (k < Len(bs) \/ k = Len(bs))
  BY <1>1
<1>3. Owner(bs[k]) \in Nat /\ Owner(bs[Len(bs)]) \in Nat
  BY <1>2, OwnersAreNumbers
<1>4. k < Len(bs) => Owner(bs[k]) < Owner(bs[Len(bs)])
  BY <1>2 DEF QueueFrom
<1>5. o <= Owner(bs[k])
  BY DEF QueueFrom
<1> QED
  BY <1>2, <1>3, <1>4, <1>5

\* The head of the list, when it is the block waited for, is changed.
LEMMA HeadChanged ==
    ASSUME NEW bs \in Seq(Block), NEW o \in Nat, QueueFrom(o, bs), bs # <<>>,
           Owner(bs[1]) = o, NEW x \in Block,
           x.from = bs[1].from, x.base = bs[1].base, x.queued = bs[1].queued,
           NEW u \in Seq(Block), Len(u) = Len(bs), u[1] = x,
           \A k \in 1 .. Len(bs) : k # 1 => u[k] = bs[k]
    PROVE  /\ u # <<>> /\ QueueFrom(o, u) /\ Owner(u[1]) = o
           /\ \A k \in 1 .. Len(bs) : Owner(u[k]) = Owner(bs[k])
<1>1. 1 \in 1 .. Len(bs) /\ Len(bs) \in Nat
  BY Nonempty
<1>2. /\ u \in Seq(Block) /\ Len(u) = Len(bs) /\ u[1] = x
      /\ \A j \in 1 .. Len(bs) : j # 1 => u[j] = bs[j]
  OBVIOUS
<1>3. u # <<>>
  BY <1>1, <1>2, Nonempty
<1>4. \A k \in 1 .. Len(bs) : Owner(bs[k]) \in Nat
  BY OwnersAreNumbers
<1>5. /\ \A k \in 1 .. Len(bs) : /\ OfOne(bs[k]) /\ o <= Owner(bs[k])
                                 /\ Owner(bs[k]) = o \/ Untouched(bs[k])
      /\ \A j, k \in 1 .. Len(bs) : j < k => Owner(bs[j]) < Owner(bs[k])
  BY DEF QueueFrom
<1>6. Owner(x) = o /\ OfOne(x)
  BY <1>1, <1>5 DEF Owner, OfOne
<1>7. ASSUME NEW k \in 1 .. Len(bs) PROVE Owner(u[k]) = Owner(bs[k])
  BY <1>2, <1>6
<1>8. QueueFrom(o, u)
  <2>1. ASSUME NEW k \in 1 .. Len(u)
        PROVE  /\ OfOne(u[k]) /\ o <= Owner(u[k])
               /\ Owner(u[k]) = o \/ Untouched(u[k])
    <3>1. CASE k = 1
      BY <1>2, <1>6, <3>1
    <3>2. CASE k # 1
      BY <1>2, <1>5, <3>2
    <3> QED
      BY <3>1, <3>2
  <2>2. ASSUME NEW j \in 1 .. Len(u), NEW k \in 1 .. Len(u), j < k
        PROVE  Owner(u[j]) < Owner(u[k])
    <3>1. Owner(u[j]) = Owner(bs[j]) /\ Owner(u[k]) = Owner(bs[k])
      BY <1>2, <1>7
    <3>2. Owner(bs[j]) < Owner(bs[k])
      BY <1>2, <1>5, <2>2
    <3> QED
      BY <3>1, <3>2
  <2> QED
    BY <2>1, <2>2 DEF QueueFrom
<1> QED
  BY <1>2, <1>3, <1>6, <1>7, <1>8


\* The list after the packet at its head was handed on.
Stepped(bs) == [bs EXCEPT ![1].index = @ + 1]

LEMMA SteppedIs ==
    ASSUME NEW bs \in Seq(Block), bs # <<>>
    PROVE  /\ Len(Stepped(bs)) = Len(bs) /\ Tail(Stepped(bs)) = Tail(bs)
           /\ \A k \in 1 .. Len(bs) : k # 1 => Stepped(bs)[k] = bs[k]
           /\ Stepped(bs)[1] = [bs[1] EXCEPT !.index = @ + 1]
           /\ Stepped(bs)[1].base = bs[1].base
           /\ Stepped(bs)[1].from = bs[1].from
           /\ Stepped(bs)[1].queued = bs[1].queued
           /\ Stepped(bs)[1].marks = bs[1].marks
           /\ Stepped(bs)[1].index = bs[1].index + 1
           /\ Stepped(bs)[1].allowDiscontinuity = bs[1].allowDiscontinuity
           /\ bs[1].index # D - 1 => Stepped(bs) \in Seq(Block)
                                      /\ Stepped(bs)[1] \in Block
<1> DEFINE x == [bs[1] EXCEPT !.index = @ + 1]
           AnyBlock == [base : Number, size : {1, 2}, queued : Nat,
                        marks : SUBSET Shard, index : Nat,
                        allowDiscontinuity : BOOLEAN,
                        fullyReassembled : BOOLEAN, from : SUBSET Nat]
<1>1. 1 \in 1 .. Len(bs) /\ bs[1] \in Block
  BY Nonempty
<1>2. Block \subseteq AnyBlock
  BY QueueAssumption DEF Block, Data
<1>3. bs \in Seq(AnyBlock)
  BY <1>2, SeqMonotonic
<1>4. x \in AnyBlock
  <2>1. bs[1] \in AnyBlock /\ bs[1].index + 1 \in Nat
    BY <1>1, <1>2
  <2> QED
    BY <2>1
<1>5. /\ x.base = bs[1].base /\ x.from = bs[1].from /\ x.marks = bs[1].marks
      /\ x.index = bs[1].index + 1 /\ x.queued = bs[1].queued
      /\ x.allowDiscontinuity = bs[1].allowDiscontinuity
  BY <1>1 DEF Block
<1>6. bs[1].index # D - 1 => x \in Block
  <2>1. bs[1].index \in Data
    BY <1>1 DEF Block
  <2>2. bs[1].index # D - 1 => bs[1].index + 1 \in Data
    BY <2>1, QueueAssumption DEF Data
  <2> QED
    BY <1>1, <2>2 DEF Block
<1>7. Stepped(bs) = [bs EXCEPT ![1] = x]
  BY DEF Stepped
<1> HIDE DEF x, AnyBlock
<1>8. /\ Len([bs EXCEPT ![1] = x]) = Len(bs)
      /\ \A j \in 1 .. Len(bs) :
            [bs EXCEPT ![1] = x][j] = IF j = 1 THEN x ELSE bs[j]
  BY ONLY <1>1, <1>3, <1>4, ExceptSeq
<1>9. Tail([bs EXCEPT ![1] = x]) = Tail(bs)
  BY ONLY bs \in Seq(Block), bs # <<>>, TailIsKept
<1>10. x \in Block => [bs EXCEPT ![1] = x] \in Seq(Block)
  BY ONLY <1>1, bs \in Seq(Block), ExceptSeq
<1>11. Stepped(bs)[1] = x
  BY <1>1, <1>7, <1>8
<1> QED
  BY <1>5, <1>6, <1>7, <1>8, <1>9, <1>10, <1>11 DEF x

=============================================================================
