--------------------------- MODULE RgxChunkerProofs ---------------------------
(***************************************************************************)
(* The chunks of a file tile it, their sizes are in range, the rolling     *)
(* hash looks at the last bytes, and what it makes of them is their hash   *)
(* from nothing, so that each cut is one that the content behind the cut   *)
(* before calls for: for every file, window, mask and size.                *)
(*                                                                         *)
(* What FreshHash computes is shown by induction over the naturals, as a   *)
(* statement about a set of them (SetInduction).                           *)
(***************************************************************************)
EXTENDS RgxChunker, WellFoundedInduction, TLAPS

\* One step of a position around a ring.
LEMMA RingStep ==
  ASSUME NEW n \in Nat \ {0}, NEW x \in 0..n
  PROVE  x % n = IF x = n THEN 0 ELSE x
OBVIOUS

\* The position after p.
LEMMA NextPosition ==
  ASSUME NEW p \in 0..(WindowSize - 1)
  PROVE  (p + 1) % WindowSize = IF p = WindowSize - 1 THEN 0 ELSE p + 1
<1> DEFINE n == WindowSize
<1>1. n \in Nat \ {0}
  BY ChunkerAssumption
<1>2. p + 1 \in 0..n
  BY <1>1
<1>3. (p + 1) % n = IF p + 1 = n THEN 0 ELSE p + 1
  BY <1>1, <1>2, RingStep
<1> QED
  BY <1>1, <1>3

\* Rotation and exclusive or stay within a word.
LEMMA WordsClosed ==
  /\ \A u, v \in Words : Xor(u, v) \in Words
  /\ \A u \in Words, n \in Nat : RotateLeft(u, n) \in Words
<1>1. \A u, v \in Words : Xor(u, v) \in Words
  BY DEF Xor, Words
<1>2. ASSUME NEW u \in Words, NEW n \in Nat PROVE RotateLeft(u, n) \in Words
  <2>1. \A b \in u : (b + n) % WordBits \in 0..(WordBits - 1)
    BY ChunkerAssumption DEF Words
  <2> QED
    BY <2>1 DEF RotateLeft, Words
<1> QED
  BY <1>1, <1>2

\* Pushing a byte takes a ring to a ring and puts the byte at its position.
LEMMA PushType ==
  ASSUME NEW h \in Rings, NEW byte \in Byte
  PROVE  /\ Push(h, byte) \in Rings
         /\ Push(h, byte).window = [h.window EXCEPT ![h.position] = byte]
         /\ Push(h, byte).position = IF h.position = WindowSize - 1 THEN 0 ELSE h.position + 1
         /\ Push(h, byte).filled = IF h.filled < WindowSize THEN h.filled + 1 ELSE h.filled
<1> DEFINE rolled == Xor(RotateLeft(h.state, 1), GearValue[byte])
           outgoing == h.window[h.position]
           left == Xor(rolled, RotateLeft(GearValue[outgoing], WindowSize % WordBits))
<1>1. GearValue[byte] \in Words /\ GearValue[outgoing] \in Words
  BY ChunkerAssumption DEF Words, Rings
<1>2. rolled \in Words
  BY <1>1, WordsClosed DEF Rings
<1>3. WindowSize % WordBits \in Nat
  BY ChunkerAssumption
<1>4. left \in Words
  BY <1>1, <1>2, <1>3, WordsClosed
<1>5. (h.position + 1) % WindowSize = IF h.position = WindowSize - 1 THEN 0 ELSE h.position + 1
  BY NextPosition DEF Rings
<1> HIDE DEF rolled, left
<1>6. Push(h, byte) =
        [state |-> IF h.filled < WindowSize THEN rolled ELSE left,
         window |-> [h.window EXCEPT ![h.position] = byte],
         position |-> (h.position + 1) % WindowSize,
         filled |-> IF h.filled < WindowSize THEN h.filled + 1 ELSE h.filled]
  BY DEF Push, rolled, left
<1> QED
  BY <1>2, <1>4, <1>5, <1>6, ChunkerAssumption DEF Rings

-----------------------------------------------------------------------------
(* The invariant.  `start` is where the last cut was, and the bytes behind it *)
(* are too few for a cut that was due.                                        *)

LEMMA InitInv == Init => ChunkerInv
<1> SUFFICES ASSUME Init PROVE ChunkerInv
  OBVIOUS
<1> USE DEF Init
<1>1. text \in Seq(Byte)
  OBVIOUS
<1>2. rolling \in Rings
  BY ChunkerAssumption DEF EmptyRing, Rings, Words
<1>3. TypeOK
  BY <1>1, <1>2 DEF TypeOK
<1>4. ChunksTile
  BY DEF ChunksTile, From
<1>5. SizesInRange
  BY ChunkerAssumption DEF SizesInRange
<1>6. WindowIsRecent
  BY ChunkerAssumption DEF WindowIsRecent, EmptyRing
<1> QED
  BY <1>3, <1>4, <1>5, <1>6 DEF ChunkerInv

\* Handing on the chunk that ends at `to`.
LEMMA HandOn ==
  ASSUME ChunkerInv, NEW to \in Nat, start < to, cuts' = Append(cuts, to), start' = to,
         NEW n, n = Len(cuts)
  PROVE  /\ \A k \in 1..n : cuts'[k] = cuts[k] /\ From(k)' = From(k)
         /\ DOMAIN cuts = 1..n /\ DOMAIN cuts' = 1..(n + 1)
         /\ n \in Nat /\ Len(cuts') = n + 1
         /\ cuts'[n + 1] = to
         /\ From(n + 1)' = start
         /\ From(n + 2)' = to
<1> USE DEF ChunkerInv, TypeOK
<1>1. cuts \in Seq(Nat)
  OBVIOUS
<1>2. /\ n \in Nat /\ Len(cuts') = n + 1
      /\ DOMAIN cuts = 1..n /\ DOMAIN cuts' = 1..(n + 1)
      /\ \A k \in 1..n : cuts'[k] = cuts[k]
      /\ cuts'[n + 1] = to
  BY <1>1
<1>3. \A k \in 1..(n + 1) : From(k)' = From(k)
  BY <1>2 DEF From
<1>4. From(n + 1)' = start
  BY <1>2, <1>3 DEF ChunksTile
<1>5. From(n + 2)' = to
  <2>1. n + 2 # 1 /\ (n + 2) - 1 = n + 1
    BY <1>2
  <2> QED
    BY <1>2, <2>1 DEF From
<1> QED
  BY <1>2, <1>3, <1>4, <1>5

\* Where the byte k places before position pos stands.
Place(pos, k) == IF pos - 1 - k >= 0 THEN pos - 1 - k ELSE pos - 1 - k + WindowSize

\* One place further back once the position has moved on.
LEMMA PlaceStep ==
  ASSUME NEW pos \in 0..(WindowSize - 1), NEW k \in 1..(WindowSize - 1)
  PROVE  LET next == IF pos = WindowSize - 1 THEN 0 ELSE pos + 1 IN
         /\ Place(next, k) = Place(pos, k - 1)
         /\ Place(next, k) \in 0..(WindowSize - 1)
         /\ Place(next, k) # pos
         /\ Place(next, 0) = pos
BY ChunkerAssumption DEF Place

\* The ring after one more byte.
LEMMA WindowFollows ==
  ASSUME ChunkerInv, taken < fetched, taken' = taken + 1, text' = text,
         rolling' = Push(rolling, text[taken'])
  PROVE  WindowIsRecent' /\ rolling' \in Rings
<1> USE DEF ChunkerInv, TypeOK
<1>1. text[taken'] \in Byte
  OBVIOUS
<1>2. /\ rolling' \in Rings
      /\ rolling'.window = [rolling.window EXCEPT ![rolling.position] = text[taken']]
      /\ rolling'.position =
           IF rolling.position = WindowSize - 1 THEN 0 ELSE rolling.position + 1
      /\ rolling'.filled = IF rolling.filled < WindowSize THEN rolling.filled + 1 ELSE rolling.filled
  BY <1>1, PushType
<1>3. rolling'.filled = (IF taken' < WindowSize THEN taken' ELSE WindowSize)
  BY <1>2, ChunkerAssumption DEF WindowIsRecent
<1>4. ASSUME NEW k \in 0..(rolling'.filled - 1)
      PROVE  rolling'.window[Place(rolling'.position, k)] = text[taken' - k]
  <2>1. CASE k = 0
    <3>1. Place(rolling'.position, k) = rolling.position
      BY <2>1, <1>2, ChunkerAssumption DEF Rings, Place
    <3> QED
      BY <3>1, <2>1, <1>2, ChunkerAssumption DEF Rings
  <2>2. CASE k > 0
    <3>1. k - 1 \in 0..(rolling.filled - 1)
      BY <2>2, <1>2, ChunkerAssumption DEF Rings
    <3>2. rolling.window[Place(rolling.position, k - 1)] = text[taken - (k - 1)]
      BY <3>1 DEF WindowIsRecent, Place
    <3>3. rolling.position \in 0..(WindowSize - 1) /\ k \in 1..(WindowSize - 1)
      BY <2>2, <1>2, ChunkerAssumption DEF Rings
    <3>4. /\ Place(rolling'.position, k) = Place(rolling.position, k - 1)
          /\ Place(rolling'.position, k) \in 0..(WindowSize - 1)
          /\ Place(rolling'.position, k) # rolling.position
      BY <3>3, <1>2, PlaceStep
    <3>5. rolling.window \in [0..(WindowSize - 1) -> Byte]
      BY DEF Rings
    <3>6. rolling'.window[Place(rolling'.position, k)] = rolling.window[Place(rolling.position, k - 1)]
      BY <3>4, <3>5, <1>2
    <3>7. taken - (k - 1) = taken' - k
      BY <3>3
    <3> QED
      BY <3>2, <3>6, <3>7
  <2> QED
    BY <2>1, <2>2
<1> QED
  BY <1>2, <1>3, <1>4 DEF WindowIsRecent, Place

\* Each step keeps the invariant.  A byte that makes a chunk of the maximum
\* size is always cut at, so that what is being collected stays below it.
LEMMA NextInv == ChunkerInv /\ [Next]_vars => ChunkerInv'
<1> SUFFICES ASSUME ChunkerInv, [Next]_vars PROVE ChunkerInv'
  OBVIOUS
<1> USE DEF ChunkerInv
<1>1. CASE Fetch
  <2>1. TypeOK'
    BY <1>1 DEF Fetch, TypeOK, Rings, Words
  <2>2. ChunksTile' /\ SizesInRange' /\ WindowIsRecent'
    BY <1>1 DEF Fetch, ChunksTile, SizesInRange, WindowIsRecent, From
  <2> QED
    BY <2>1, <2>2
<1>2. CASE TakeByte
  <2>1. WindowIsRecent' /\ rolling' \in Rings
    BY <1>2, WindowFollows DEF TakeByte
  <2>2. CASE start' = taken' /\ cuts' = Append(cuts, taken') /\ ShouldCut(rolling'.state, taken' - start)
    <3>0. PICK n : n = Len(cuts)
      OBVIOUS
    <3>1. start < taken' /\ taken' \in Nat
      BY <1>2 DEF TakeByte, TypeOK
    <3>2. /\ \A k \in 1..n : cuts'[k] = cuts[k] /\ From(k)' = From(k)
          /\ DOMAIN cuts = 1..n /\ DOMAIN cuts' = 1..(n + 1)
          /\ n \in Nat /\ Len(cuts') = n + 1
          /\ cuts'[n + 1] = taken'
          /\ From(n + 1)' = start
          /\ From(n + 2)' = taken'
      BY <3>0, <2>2, <3>1, HandOn
    <3>3. TypeOK'
      BY <1>2, <2>1, <2>2, <3>1 DEF TakeByte, TypeOK
    <3>4. ChunksTile'
      <4>1. \A k \in 1..(n + 1) : From(k)' < cuts'[k]
        BY <3>0, <3>1, <3>2 DEF ChunksTile
      <4>2. start' = From(Len(cuts) + 1)'
        <5>1. Len(cuts') + 1 = n + 2
          BY <3>2
        <5> QED
          BY <2>2, <3>2, <5>1 DEF From
      <4> QED
        BY <1>2, <3>2, <4>1, <4>2 DEF TakeByte, ChunksTile
    <3>5. taken' - start \in MinChunkSize..MaxChunkSize
      BY <1>2, <2>2, ChunkerAssumption DEF TakeByte, SizesInRange, ShouldCut, TypeOK
    <3>6. SizesInRange'
      BY <3>0, <1>2, <2>2, <3>2, <3>5, ChunkerAssumption DEF TakeByte, SizesInRange, TypeOK
    <3> QED
      BY <2>1, <3>3, <3>4, <3>6
  <2>3. CASE UNCHANGED <<start, cuts>> /\ ~ShouldCut(rolling'.state, taken' - start)
    <3>1. TypeOK'
      BY <1>2, <2>1, <2>3 DEF TakeByte, TypeOK
    <3>2. ChunksTile'
      BY <1>2, <2>3 DEF TakeByte, ChunksTile, From
    <3>3. taken' - start < MaxChunkSize
      BY <1>2, <2>3, ChunkerAssumption DEF TakeByte, ShouldCut, TypeOK
    <3>4. SizesInRange'
      BY <1>2, <2>3, <3>3 DEF TakeByte, SizesInRange, From
    <3> QED
      BY <2>1, <3>1, <3>2, <3>4
  <2> QED
    BY <1>2, <2>2, <2>3 DEF TakeByte
<1>3. CASE End
  <2>1. WindowIsRecent'
    BY <1>3 DEF End, WindowIsRecent
  <2>2. CASE start < taken /\ start' = taken /\ cuts' = Append(cuts, taken)
    <3>0. PICK n : n = Len(cuts)
      OBVIOUS
    <3>1. /\ \A k \in 1..n : cuts'[k] = cuts[k] /\ From(k)' = From(k)
          /\ DOMAIN cuts = 1..n /\ DOMAIN cuts' = 1..(n + 1)
          /\ n \in Nat /\ Len(cuts') = n + 1
          /\ cuts'[n + 1] = taken
          /\ From(n + 1)' = start
          /\ From(n + 2)' = taken
      BY <3>0, <2>2, HandOn DEF TypeOK
    <3>2. TypeOK'
      BY <1>3, <2>2 DEF End, TypeOK, Rings, Words
    <3>3. ChunksTile'
      <4>1. \A k \in 1..(n + 1) : From(k)' < cuts'[k]
        BY <3>0, <2>2, <3>1 DEF ChunksTile
      <4>2. start' = From(Len(cuts) + 1)'
        <5>1. Len(cuts') + 1 = n + 2
          BY <3>1
        <5> QED
          BY <2>2, <3>1, <5>1 DEF From
      <4> QED
        BY <1>3, <2>2, <3>1, <4>1, <4>2 DEF End, ChunksTile
    <3>4. SizesInRange'
      BY <3>0, <1>3, <2>2, <3>1, ChunkerAssumption DEF End, SizesInRange, TypeOK
    <3> QED
      BY <2>1, <3>2, <3>3, <3>4
  <2>3. CASE ~(start < taken) /\ UNCHANGED <<start, cuts>>
    BY <1>3, <2>1, <2>3 DEF End, TypeOK, ChunksTile, SizesInRange, From, Rings, Words
  <2> QED
    BY <1>3, <2>2, <2>3 DEF End
<1>4. CASE IoError
  BY <1>4 DEF IoError, TypeOK, ChunksTile, SizesInRange, WindowIsRecent, From, Rings, Words
<1>5. CASE UNCHANGED vars
  BY <1>5 DEF vars, TypeOK, ChunksTile, SizesInRange, WindowIsRecent, From, Rings, Words
<1> QED
  BY <1>1, <1>2, <1>3, <1>4, <1>5 DEF Next

\* All that the chunker keeps of the file holds throughout, for any window,
\* sizes, mask, values and file.
THEOREM ChunkerInvariant == Spec => []ChunkerInv
<1> QED
  BY InitInv, NextInv, PTL DEF Spec

\* Type correctness.
THEOREM ChunkerTypeOK == Spec => []TypeOK
<1>1. ChunkerInv => TypeOK
  BY DEF ChunkerInv
<1> QED
  BY <1>1, ChunkerInvariant, PTL

\* The chunks handed on are the file, every byte once and in order.
THEOREM ChunkerTiles == Spec => []ChunksTile
<1>1. ChunkerInv => ChunksTile
  BY DEF ChunkerInv
<1> QED
  BY <1>1, ChunkerInvariant, PTL

\* No chunk exceeds the maximum and only the last is below the minimum.
THEOREM ChunkerSizesInRange == Spec => []SizesInRange
<1>1. ChunkerInv => SizesInRange
  BY DEF ChunkerInv
<1> QED
  BY <1>1, ChunkerInvariant, PTL

\* What leaves the rolling hash is the byte pushed WindowSize pushes ago.
THEOREM ChunkerWindowIsRecent == Spec => []WindowIsRecent
<1>1. ChunkerInv => WindowIsRecent
  BY DEF ChunkerInv
<1> QED
  BY <1>1, ChunkerInvariant, PTL

-----------------------------------------------------------------------------
(* Arithmetic, and the hash of a sequence from nothing.                       *)

\* Division with remainder.
LEMMA DivMod ==
  ASSUME NEW k \in Nat, NEW n \in Nat \ {0}
  PROVE  k = n * (k \div n) + (k % n) /\ (k % n) \in 0..(n-1) /\ k \div n \in Nat
OBVIOUS
\* A multiple is no smaller.
LEMMA Mult ==
  ASSUME NEW n \in Nat \ {0}, NEW d \in Int, d >= 1
  PROVE  n * d >= n
OBVIOUS
\* The remainder is the only one.
LEMMA Unique ==
  ASSUME NEW n \in Nat \ {0}, NEW q1 \in Nat, NEW q2 \in Nat, NEW r1 \in 0..(n-1), NEW r2 \in 0..(n-1),
         n * q1 + r1 = n * q2 + r2
  PROVE  r1 = r2
<1>1. CASE q1 = q2
  BY <1>1
<1>2. CASE q1 > q2
  <2>1. n * (q1 - q2) >= n
    BY <1>2, Mult
  <2>2. n * q1 = n * q2 + n * (q1 - q2)
    OBVIOUS
  <2> QED BY <2>1, <2>2
<1>3. CASE q2 > q1
  <2>1. n * (q2 - q1) >= n
    BY <1>3, Mult
  <2>2. n * q2 = n * q1 + n * (q2 - q1)
    OBVIOUS
  <2> QED BY <2>1, <2>2
<1> QED BY <1>1, <1>2, <1>3
\* The remainder of the next number.
LEMMA ModStep ==
  ASSUME NEW k \in Nat, NEW n \in Nat \ {0}
  PROVE  ((k + 1) % n) = IF (k % n) = n - 1 THEN 0 ELSE (k % n) + 1
<1>1. k = n * (k \div n) + (k % n) /\ (k % n) \in 0..(n-1) /\ k \div n \in Nat
  BY DivMod
<1>2. k + 1 = n * ((k + 1) \div n) + ((k + 1) % n) /\ ((k + 1) % n) \in 0..(n-1) /\ (k + 1) \div n \in Nat
  <2>1. PICK j \in Nat : j = k + 1
    OBVIOUS
  <2>2. j = n * (j \div n) + (j % n) /\ (j % n) \in 0..(n-1) /\ j \div n \in Nat
    BY DivMod
  <2> QED
    BY <2>1, <2>2
<1>3. CASE (k % n) = n - 1
  <2>1. n * ((k \div n) + 1) = n * (k \div n) + n
    BY <1>1
  <2>2. k + 1 = n * ((k \div n) + 1) + 0
    BY <1>1, <1>3, <2>1
  <2>3. ((k + 1) % n) = 0
    BY <1>1, <1>2, <2>2, Unique
  <2> QED BY <1>3, <2>3
<1>4. CASE (k % n) # n - 1
  <2>1. (k % n) + 1 \in 0..(n - 1)
    BY <1>1, <1>4
  <2>2. k + 1 = n * (k \div n) + ((k % n) + 1)
    BY <1>1
  <2>3. ((k + 1) % n) = (k % n) + 1
    BY <1>1, <1>2, <2>1, <2>2, Unique
  <2> QED BY <1>4, <2>3
<1> QED BY <1>3, <1>4

\* A set of naturals that is not empty has a least member.
LEMMA LeastElement ==
  ASSUME NEW T, T \subseteq Nat, T # {}
  PROVE  \E x \in T : \A y \in T : x <= y
<1>1. \E x \in T : \A y \in T : ~ (<<y, x>> \in OpToRel(<, Nat))
  BY NatLessThanWellFounded, WFMin
<1>2. PICK x \in T : \A y \in T : ~ (<<y, x>> \in OpToRel(<, Nat))
  BY <1>1
<1>3. ASSUME NEW y \in T PROVE x <= y
  <2>1. ~ (<<y, x>> \in OpToRel(<, Nat))
    BY <1>2
  <2>2. x \in Nat /\ y \in Nat
    OBVIOUS
  <2>3. ~(y < x)
    BY <2>1, <2>2 DEF OpToRel
  <2> QED
    BY <2>2, <2>3
<1> QED
  BY <1>3

\* Induction, over a set of naturals.
LEMMA SetInduction ==
  ASSUME NEW S, S \subseteq Nat, 0 \in S, \A n \in S : n + 1 \in S
  PROVE  S = Nat
<1>1. SUFFICES ASSUME Nat \ S # {} PROVE FALSE
  OBVIOUS
<1>2. PICK x \in Nat \ S : \A y \in Nat \ S : x <= y
  BY <1>1, LeastElement
<1>3. x # 0 /\ x - 1 \in Nat
  BY <1>2
<1>4. x - 1 \in S
  BY <1>2, <1>3
<1> QED
  BY <1>2, <1>3, <1>4

\* Once around a ring at most.
LEMMA ModSmall ==
  ASSUME NEW n \in Nat \ {0}, NEW x \in 0..(2 * n - 1)
  PROVE  (x % n) = IF x < n THEN x ELSE x - n
<1>1. x = n * (x \div n) + (x % n) /\ (x % n) \in 0..(n - 1) /\ x \div n \in Nat
  <2>1. PICK y \in Nat : y = x
    OBVIOUS
  <2> QED
    BY <2>1, DivMod
<1>2. CASE x < n
  <2>1. x = n * 0 + x /\ x \in 0..(n - 1)
    BY <1>2
  <2> QED
    BY <1>1, <1>2, <2>1, Unique
<1>3. CASE ~(x < n)
  <2>1. x = n * 1 + (x - n) /\ x - n \in 0..(n - 1)
    BY <1>3
  <2> QED
    BY <1>1, <1>3, <2>1, Unique
<1> QED
  BY <1>2, <1>3

\* A rotation goes through exclusive or, since no two bits of a word meet.
LEMMA RotateXor ==
  ASSUME NEW u \in Words, NEW v \in Words
  PROVE  RotateLeft(Xor(u, v), 1) = Xor(RotateLeft(u, 1), RotateLeft(v, 1))
<1> DEFINE next(b) == (b + 1) % WordBits
<1>0. WordBits \in Nat \ {0}
  BY ChunkerAssumption
<1>1. ASSUME NEW b \in 0..(WordBits - 1)
      PROVE  next(b) = IF b + 1 < WordBits THEN b + 1 ELSE 0
  <2>1. b + 1 \in 0..(2 * WordBits - 1)
    BY <1>0
  <2>2. ((b + 1) % WordBits) = IF b + 1 < WordBits THEN b + 1 ELSE b + 1 - WordBits
    <3>1. PICK x \in 0..(2 * WordBits - 1) : x = b + 1
      BY <2>1
    <3>2. (x % WordBits) = IF x < WordBits THEN x ELSE x - WordBits
      BY <1>0, ModSmall
    <3> QED
      BY <1>0, <2>1, <3>1, <3>2
  <2> QED
    BY <1>0, <2>2
<1> HIDE DEF next
<1>2. \A b, c \in 0..(WordBits - 1) : next(b) = next(c) => b = c
  BY <1>0, <1>1
<1>3. \A w : RotateLeft(w, 1) = {next(b) : b \in w}
  BY DEF RotateLeft, next
<1>4. \A b \in u : b \in 0..(WordBits - 1)
  BY DEF Words
<1>5. \A b \in v : b \in 0..(WordBits - 1)
  BY DEF Words
<1>6. ASSUME NEW x PROVE x \in RotateLeft(Xor(u, v), 1) <=> x \in Xor(RotateLeft(u, 1), RotateLeft(v, 1))
  <2>1. x \in RotateLeft(Xor(u, v), 1) <=> \E b \in Xor(u, v) : x = next(b)
    BY <1>3
  <2>2. x \in RotateLeft(u, 1) <=> \E b \in u : x = next(b)
    BY <1>3
  <2>3. x \in RotateLeft(v, 1) <=> \E b \in v : x = next(b)
    BY <1>3
  <2> QED
    BY <1>2, <1>4, <1>5, <2>1, <2>2, <2>3 DEF Xor
<1> QED
  BY <1>6

\* Rotations add up.
LEMMA RotateStep ==
  ASSUME NEW u \in Words, NEW k \in Nat
  PROVE  RotateLeft(RotateLeft(u, k % WordBits), 1) = RotateLeft(u, (k + 1) % WordBits)
<1> DEFINE c == k % WordBits
           d == (k + 1) % WordBits
<1>1. WordBits \in Nat \ {0} /\ c \in 0..(WordBits - 1) /\ d = IF c = WordBits - 1 THEN 0 ELSE c + 1
  BY ChunkerAssumption, DivMod, ModStep
<1> HIDE DEF c, d
<1>2. ASSUME NEW b \in u PROVE (((b + c) % WordBits) + 1) % WordBits = (b + d) % WordBits
  <2>0. b \in 0..(WordBits - 1)
    BY DEF Words
  <2>1. b + c \in 0..(2 * WordBits - 1) /\ b + d \in 0..(2 * WordBits - 1)
    BY <1>1, <2>0
  <2>2. /\ ((b + c) % WordBits) = IF b + c < WordBits THEN b + c ELSE b + c - WordBits
        /\ ((b + d) % WordBits) = IF b + d < WordBits THEN b + d ELSE b + d - WordBits
    <3>1. PICK x \in 0..(2 * WordBits - 1), y \in 0..(2 * WordBits - 1) : x = b + c /\ y = b + d
      BY <2>1
    <3>2. /\ (x % WordBits) = IF x < WordBits THEN x ELSE x - WordBits
          /\ (y % WordBits) = IF y < WordBits THEN y ELSE y - WordBits
      BY <1>1, ModSmall
    <3> QED
      BY <1>1, <2>0, <3>1, <3>2
  <2>3. ((b + c) % WordBits) + 1 \in 0..(2 * WordBits - 1)
    BY <1>1, <2>1, <2>2
  <2>4. ((((b + c) % WordBits) + 1) % WordBits) =
          IF ((b + c) % WordBits) + 1 < WordBits THEN ((b + c) % WordBits) + 1
          ELSE ((b + c) % WordBits) + 1 - WordBits
    <3>1. PICK x \in 0..(2 * WordBits - 1) : x = ((b + c) % WordBits) + 1
      BY <2>3
    <3>2. (x % WordBits) = IF x < WordBits THEN x ELSE x - WordBits
      BY <1>1, ModSmall
    <3> QED
      BY <1>1, <2>0, <3>1, <3>2
  <2> QED
    BY <1>1, <2>0, <2>2, <2>4
<1>3. RotateLeft(RotateLeft(u, c), 1) = {(((b + c) % WordBits) + 1) % WordBits : b \in u}
  BY DEF RotateLeft
<1> QED
  BY <1>2, <1>3 DEF RotateLeft, c, d

\* The function that FreshHash defines by recursion.
IsHash(s, h) ==
  h = [n \in 0..Len(s) |-> IF n = 0 THEN {} ELSE Xor(RotateLeft(h[n - 1], 1), GearValue[s[n]])]

\* FreshHash chooses it.
LEMMA FreshHashChoice ==
  ASSUME NEW s, NEW h, IsHash(s, h)
  PROVE  \E g : IsHash(s, g) /\ FreshHash(s) = g[Len(s)]
<1> DEFINE g == CHOOSE x : IsHash(s, x)
<1>1. IsHash(s, g)
  OBVIOUS
<1>2. FreshHash(s) = g[Len(s)]
  BY DEF FreshHash, IsHash
<1> QED
  BY <1>1, <1>2

\* A hash, byte by byte from nothing.
\* What one byte makes of a hash.
GearStep(u, b) == Xor(RotateLeft(u, 1), GearValue[b])

HashSteps(s, h, n) ==
  /\ h[0] = {} /\ \A k \in 0..n : h[k] \in Words
  /\ \A k \in 1..n : s[k] \in Byte /\ h[k] = GearStep(h[k - 1], s[k])

\* It is a word again.
LEMMA GearStepType ==
  ASSUME NEW u \in Words, NEW b \in Byte
  PROVE  GearStep(u, b) \in Words
BY WordsClosed, ChunkerAssumption DEF GearStep, Words

\* The function that FreshHash defines by recursion exists.
LEMMA HashExists ==
  ASSUME NEW s \in Seq(Byte)
  PROVE  \E h : IsHash(s, h)
<1> DEFINE Upto(m, h) == /\ h \in [0..m -> Words] /\ h[0] = {}
                         /\ \A k \in 1..m : h[k] = GearStep(h[k - 1], s[k])
           S == {m \in Nat : m <= Len(s) => \E h : Upto(m, h)}
<1>1. 0 \in S
  <2>1. Upto(0, [k \in 0..0 |-> {}])
    BY DEF Words
  <2> QED
    BY <2>1
<1>2. ASSUME NEW m \in S PROVE m + 1 \in S
  <2> SUFFICES ASSUME m + 1 <= Len(s) PROVE \E h : Upto(m + 1, h)
    OBVIOUS
  <2>1. PICK h : Upto(m, h)
    OBVIOUS
  <2> DEFINE g == [k \in 0..(m + 1) |-> IF k <= m THEN h[k] ELSE GearStep(h[m], s[m + 1])]
  <2>2. s[m + 1] \in Byte /\ h[m] \in Words
    BY <2>1
  <2>3. GearStep(h[m], s[m + 1]) \in Words
    BY <2>2, GearStepType
  <2>4. g \in [0..(m + 1) -> Words] /\ g[0] = {}
    BY <2>1, <2>3
  <2>5. ASSUME NEW k \in 1..(m + 1) PROVE g[k] = GearStep(g[k - 1], s[k])
    BY <2>1
  <2> QED
    BY <2>4, <2>5
<1> HIDE DEF Upto
<1>3. S = Nat
  BY <1>1, <1>2, SetInduction
<1>4. PICK h : Upto(Len(s), h)
  <2>1. Len(s) \in Nat /\ Len(s) <= Len(s)
    OBVIOUS
  <2>2. Len(s) \in {m \in Nat : m <= Len(s) => \E h : Upto(m, h)}
    BY <1>3, <2>1, Zenon
  <2> QED
    BY <2>1, <2>2
<1>5. \A n \in 0..Len(s) : h[n] = IF n = 0 THEN {} ELSE Xor(RotateLeft(h[n - 1], 1), GearValue[s[n]])
  BY <1>4 DEF Upto, GearStep
<1>6. h = [n \in 0..Len(s) |-> IF n = 0 THEN {} ELSE Xor(RotateLeft(h[n - 1], 1), GearValue[s[n]])]
  BY <1>4, <1>5 DEF Upto
<1> QED
  BY <1>6 DEF IsHash

\* FreshHash takes these steps.
LEMMA FreshHashSteps ==
  ASSUME NEW s \in Seq(Byte)
  PROVE  \E h : HashSteps(s, h, Len(s)) /\ FreshHash(s) = h[Len(s)]
<1>1. PICK h : IsHash(s, h) /\ FreshHash(s) = h[Len(s)]
  BY HashExists, FreshHashChoice
<1>2. ASSUME NEW k \in 0..Len(s)
      PROVE  h[k] = IF k = 0 THEN {} ELSE GearStep(h[k - 1], s[k])
  <2> DEFINE f == [n \in 0..Len(s) |-> IF n = 0 THEN {} ELSE GearStep(h[n - 1], s[n])]
  <2>1. h = f
    BY <1>1 DEF IsHash, GearStep
  <2>2. f[k] = IF k = 0 THEN {} ELSE GearStep(h[k - 1], s[k])
    OBVIOUS
  <2> QED
    BY <2>1, <2>2
<1> DEFINE S == {m \in Nat : m <= Len(s) => h[m] \in Words}
<1>3. 0 \in S
  BY <1>2 DEF Words
<1>4. ASSUME NEW m \in S PROVE m + 1 \in S
  <2> SUFFICES ASSUME m + 1 <= Len(s) PROVE h[m + 1] \in Words
    OBVIOUS
  <2>1. h[m + 1] = GearStep(h[m], s[m + 1]) /\ h[m] \in Words /\ s[m + 1] \in Byte
    BY <1>2
  <2> QED
    BY <2>1, GearStepType
<1>5. S = Nat
  BY <1>3, <1>4, SetInduction
<1>6. \A k \in 0..Len(s) : h[k] \in Words
  BY <1>5
<1>7. ASSUME NEW k \in 1..Len(s) PROVE s[k] \in Byte /\ h[k] = GearStep(h[k - 1], s[k])
  <2>1. k \in 0..Len(s) /\ k # 0
    OBVIOUS
  <2> QED
    BY <1>2, <2>1
<1>8. h[0] = {}
  <2>1. 0 \in 0..Len(s)
    OBVIOUS
  <2> QED
    BY <1>2, <2>1, Zenon
<1> QED
  BY <1>1, <1>6, <1>7, <1>8 DEF HashSteps

\* Equal bytes have equal hashes.
LEMMA HashOfEqual ==
  ASSUME NEW n \in Nat, NEW s, NEW t, NEW g, NEW h, HashSteps(s, g, n), HashSteps(t, h, n),
         \A k \in 1..n : s[k] = t[k]
  PROVE  g[n] = h[n]
<1> DEFINE S == {m \in Nat : m <= n => g[m] = h[m]}
<1>1. 0 \in S
  BY DEF HashSteps
<1>2. ASSUME NEW m \in S PROVE m + 1 \in S
  <2> SUFFICES ASSUME m + 1 <= n PROVE g[m + 1] = h[m + 1]
    OBVIOUS
  <2>1. m + 1 \in 1..n /\ (m + 1) - 1 = m /\ g[m] = h[m]
    OBVIOUS
  <2> QED
    BY <2>1 DEF HashSteps
<1>3. S = Nat
  BY <1>1, <1>2, SetInduction
<1> QED
  BY <1>3

\* What the first byte has left in the hash k bytes later.
Trace(b, k) == RotateLeft(GearValue[b], k % WordBits)

\* It rotates once for each byte.
LEMMA TraceStep ==
  ASSUME NEW b \in Byte, NEW k \in Nat
  PROVE  /\ Trace(b, k) \in Words
         /\ RotateLeft(Trace(b, k), 1) = Trace(b, k + 1)
         /\ Trace(b, 0) = GearValue[b]
<1>1. GearValue[b] \in Words /\ (k % WordBits) \in Nat
  BY ChunkerAssumption, DivMod DEF Words
<1>2. Trace(b, k) \in Words
  BY <1>1, WordsClosed DEF Trace
<1>3. RotateLeft(Trace(b, k), 1) = Trace(b, k + 1)
  BY <1>1, RotateStep DEF Trace
<1>4. Trace(b, 0) = GearValue[b]
  <2>1. WordBits \in Nat \ {0} /\ 0 \in 0..(2 * WordBits - 1)
    BY ChunkerAssumption
  <2>2. (0 % WordBits) = 0
    BY <2>1, ModSmall
  <2>3. ASSUME NEW c \in GearValue[b] PROVE (c + 0) % WordBits = c
    <3>1. c \in 0..(2 * WordBits - 1) /\ c < WordBits
      BY <1>1, <2>1 DEF Words
    <3>2. (c % WordBits) = c
      BY <2>1, <3>1, ModSmall
    <3> QED
      BY <3>1, <3>2
  <2>4. RotateLeft(GearValue[b], 0) = GearValue[b]
    BY <2>3 DEF RotateLeft
  <2> QED
    BY <2>2, <2>4 DEF Trace
<1> QED
  BY <1>2, <1>3, <1>4

\* A window that moves by one byte: the hashes differ by the trace of the byte
\* that is in front of the second.
LEMMA HashSlides ==
  ASSUME NEW n \in Nat \ {0}, NEW s, NEW t, NEW g, NEW h, HashSteps(s, g, n), HashSteps(t, h, n),
         \A k \in 1..(n - 1) : t[k] = s[k + 1]
  PROVE  g[n] = Xor(h[n - 1], Trace(s[1], n - 1))
<1> DEFINE S == {m \in Nat : m + 1 <= n => g[m + 1] = Xor(h[m], Trace(s[1], m))}
<1>0. s[1] \in Byte
  BY DEF HashSteps
<1>1. 0 \in S
  <2>1. g[1] = Xor(RotateLeft({}, 1), GearValue[s[1]]) /\ h[0] = {}
    <3>1. 1 \in 1..n /\ 1 - 1 = 0
      OBVIOUS
    <3>2. g[1] = GearStep(g[1 - 1], s[1])
      BY <3>1 DEF HashSteps
    <3> QED
      BY <3>1, <3>2 DEF HashSteps, GearStep
  <2>2. RotateLeft({}, 1) = {}
    BY DEF RotateLeft
  <2>3. Trace(s[1], 0) = GearValue[s[1]]
    BY <1>0, TraceStep
  <2>4. g[1] = Xor(h[0], Trace(s[1], 0))
    BY <2>1, <2>2, <2>3
  <2> QED
    BY <2>4
<1>2. ASSUME NEW m \in S PROVE m + 1 \in S
  <2> SUFFICES ASSUME (m + 1) + 1 <= n PROVE g[(m + 1) + 1] = Xor(h[m + 1], Trace(s[1], m + 1))
    OBVIOUS
  <2> DEFINE a == h[m]
             b == Trace(s[1], m)
             c == GearValue[t[m + 1]]
  <2>1. g[m + 1] = Xor(a, b)
    OBVIOUS
  <2>2. (m + 1) + 1 \in 1..n /\ m + 1 \in 1..(n - 1) /\ m \in Nat
        /\ ((m + 1) + 1) - 1 = m + 1 /\ (m + 1) - 1 = m
    OBVIOUS
  <2>3. g[(m + 1) + 1] = Xor(RotateLeft(g[m + 1], 1), c)
    BY <2>2 DEF HashSteps, GearStep
  <2>4. h[m + 1] = Xor(RotateLeft(a, 1), c)
    BY <2>2 DEF HashSteps, GearStep
  <2>5. a \in Words /\ b \in Words /\ RotateLeft(b, 1) = Trace(s[1], m + 1)
    BY <1>0, <2>2, TraceStep DEF HashSteps
  <2> HIDE DEF a, b, c
  <2>6. RotateLeft(g[m + 1], 1) = Xor(RotateLeft(a, 1), RotateLeft(b, 1))
    BY <2>1, <2>5, RotateXor
  <2>7. Xor(Xor(RotateLeft(a, 1), RotateLeft(b, 1)), c) = Xor(Xor(RotateLeft(a, 1), c), RotateLeft(b, 1))
    BY DEF Xor
  <2> QED
    BY <2>3, <2>4, <2>5, <2>6, <2>7
<1>3. S = Nat
  BY <1>1, <1>2, SetInduction
<1>4. n - 1 \in S /\ (n - 1) + 1 = n
  BY <1>3
<1> QED
  BY <1>4

\* One byte more.
LEMMA HashAppends ==
  ASSUME NEW s \in Seq(Byte), NEW t \in Seq(Byte), Len(t) = Len(s) + 1,
         \A k \in 1..Len(s) : t[k] = s[k]
  PROVE  FreshHash(t) = GearStep(FreshHash(s), t[Len(t)])
<1>1. PICK g : HashSteps(s, g, Len(s)) /\ FreshHash(s) = g[Len(s)]
  BY FreshHashSteps
<1>2. PICK h : HashSteps(t, h, Len(t)) /\ FreshHash(t) = h[Len(t)]
  BY FreshHashSteps
<1>3. HashSteps(t, h, Len(s))
  BY <1>2 DEF HashSteps
<1>4. g[Len(s)] = h[Len(s)]
  BY <1>1, <1>3, HashOfEqual
<1>5. Len(t) \in 1..Len(t) /\ Len(t) - 1 = Len(s)
  OBVIOUS
<1>6. h[Len(t)] = GearStep(h[Len(t) - 1], t[Len(t)])
  BY <1>2, <1>5 DEF HashSteps
<1> QED
  BY <1>1, <1>2, <1>4, <1>5, <1>6

\* One byte more and one less: what the byte that goes has left is taken out.
LEMMA HashDrops ==
  ASSUME NEW s \in Seq(Byte), NEW t \in Seq(Byte), NEW n \in Nat \ {0}, Len(s) = n, Len(t) = n,
         \A k \in 1..(n - 1) : t[k] = s[k + 1]
  PROVE  FreshHash(t) =
           Xor(GearStep(FreshHash(s), t[n]), RotateLeft(GearValue[s[1]], n % WordBits))
<1>1. PICK g : HashSteps(s, g, n) /\ FreshHash(s) = g[n]
  BY FreshHashSteps
<1>2. PICK h : HashSteps(t, h, n) /\ FreshHash(t) = h[n]
  BY FreshHashSteps
<1> DEFINE a == h[n - 1]
           b == Trace(s[1], n - 1)
           c == GearValue[t[n]]
<1>3. n \in 1..n /\ n - 1 \in 0..n /\ n - 1 \in Nat /\ (n - 1) + 1 = n /\ s[1] \in Byte
  OBVIOUS
<1>4. g[n] = Xor(a, b)
  BY <1>1, <1>2, HashSlides
<1>5. h[n] = Xor(RotateLeft(a, 1), c)
  BY <1>2, <1>3 DEF HashSteps, GearStep
<1>6. a \in Words
  BY <1>2, <1>3 DEF HashSteps
<1>7. b \in Words /\ RotateLeft(b, 1) = Trace(s[1], n)
  <2>1. PICK m \in Nat : m = n - 1
    BY <1>3
  <2>2. m + 1 = n
    BY <2>1
  <2> QED
    BY <1>3, <2>1, <2>2, TraceStep
<1> HIDE DEF a, b, c
<1>8. RotateLeft(g[n], 1) = Xor(RotateLeft(a, 1), RotateLeft(b, 1))
  BY <1>4, <1>6, <1>7, RotateXor
<1>9. Xor(Xor(Xor(RotateLeft(a, 1), RotateLeft(b, 1)), c), RotateLeft(b, 1)) = Xor(RotateLeft(a, 1), c)
  BY DEF Xor
<1>10. GearStep(g[n], t[n]) = Xor(Xor(RotateLeft(a, 1), RotateLeft(b, 1)), c)
  BY <1>8 DEF GearStep, c
<1>11. RotateLeft(b, 1) = RotateLeft(GearValue[s[1]], n % WordBits)
  BY <1>7 DEF Trace
<1> QED
  BY <1>1, <1>2, <1>5, <1>9, <1>10, <1>11

-----------------------------------------------------------------------------
(* Content alone decides.  The rolling hash is the hash of the window from    *)
(* nothing, and no cut was due among the bytes of the chunk so far.           *)

HashIsFresh == rolling.state = FreshHash(SubSeq(text, taken - rolling.filled + 1, taken))

Rest(a) == SubSeq(text, a + 1, Len(text))

Collecting ==
  pc = "read" => \A m \in 1..(taken - start) : m < MaxChunkSize /\ ~BoundaryAt(Rest(start), m)

LocalInv == ChunkerInv /\ HashIsFresh /\ Collecting /\ CutsAreLocal

\* What a part of a sequence is.
LEMMA Part ==
  ASSUME NEW T, NEW s \in Seq(T), NEW a \in Nat, NEW b \in Nat, a <= b, b <= Len(s)
  PROVE  /\ SubSeq(s, a + 1, b) \in Seq(T) /\ Len(SubSeq(s, a + 1, b)) = b - a
         /\ \A k \in 1..(b - a) : SubSeq(s, a + 1, b)[k] = s[a + k]
OBVIOUS

\* The hash follows the window.
LEMMA HashFollows ==
  ASSUME ChunkerInv, HashIsFresh, taken < fetched, taken' = taken + 1, text' = text,
         rolling' = Push(rolling, text[taken'])
  PROVE  HashIsFresh'
<1> DEFINE b == text[taken']
           gone == taken - rolling.filled
           s == SubSeq(text, gone + 1, taken)
<1>1. /\ text \in Seq(Byte) /\ taken \in Nat /\ taken + 1 <= Len(text) /\ rolling \in Rings
      /\ b \in Byte
  BY DEF ChunkerInv, TypeOK
<1>2. WindowSize \in Nat \ {0} /\ rolling.filled \in 0..WindowSize
  BY <1>1, ChunkerAssumption DEF Rings
<1>3. rolling.filled = (IF taken < WindowSize THEN taken ELSE WindowSize)
  BY DEF ChunkerInv, WindowIsRecent
<1>4. gone \in Nat /\ gone <= taken /\ taken - gone = rolling.filled
  BY <1>1, <1>2, <1>3
<1>5. /\ rolling'.filled = IF rolling.filled < WindowSize THEN rolling.filled + 1 ELSE rolling.filled
      /\ rolling'.state = IF rolling.filled < WindowSize THEN GearStep(rolling.state, b)
                          ELSE Xor(GearStep(rolling.state, b),
                                   RotateLeft(GearValue[rolling.window[rolling.position]],
                                              WindowSize % WordBits))
  BY DEF Push, GearStep
<1> HIDE DEF gone
<1>6. /\ s \in Seq(Byte) /\ Len(s) = rolling.filled
      /\ \A k \in 1..rolling.filled : s[k] = text[gone + k]
  BY <1>1, <1>4, Part
<1>7. rolling.state = FreshHash(s)
  BY DEF HashIsFresh, gone
<1>8. CASE rolling.filled < WindowSize
  <2> DEFINE t == SubSeq(text, gone + 1, taken + 1)
  <2>1. /\ t \in Seq(Byte) /\ Len(t) = rolling.filled + 1
        /\ \A k \in 1..(rolling.filled + 1) : t[k] = text[gone + k]
    <3>1. PICK u \in Nat : u = taken + 1
      BY <1>1
    <3>2. gone <= u /\ u <= Len(text) /\ u - gone = rolling.filled + 1
      BY <1>1, <1>2, <1>4, <3>1
    <3> QED
      BY <1>1, <1>4, <3>1, <3>2, Part
  <2>2. taken' - rolling'.filled = gone
    BY <1>1, <1>2, <1>4, <1>5, <1>8
  <2>3. t[Len(t)] = b
    <3>1. Len(t) \in 1..(rolling.filled + 1) /\ gone + Len(t) = taken'
      BY <1>1, <1>2, <1>4, <2>1
    <3> QED
      BY <2>1, <3>1
  <2>4. \A k \in 1..Len(s) : t[k] = s[k]
    BY <1>2, <1>6, <2>1
  <2> HIDE DEF s, t
  <2>5. FreshHash(t) = GearStep(FreshHash(s), t[Len(t)])
    BY <1>2, <1>6, <2>1, <2>4, HashAppends
  <2>6. rolling'.state = FreshHash(t)
    BY <1>5, <1>7, <1>8, <2>3, <2>5
  <2> QED
    BY <2>2, <2>6 DEF HashIsFresh, t
<1>9. CASE rolling.filled = WindowSize
  <2> DEFINE t == SubSeq(text, (gone + 1) + 1, taken + 1)
  <2>1. /\ t \in Seq(Byte) /\ Len(t) = WindowSize
        /\ \A k \in 1..WindowSize : t[k] = text[(gone + 1) + k]
    <3>1. PICK u \in Nat, v \in Nat : u = taken + 1 /\ v = gone + 1
      BY <1>1, <1>4
    <3>2. v <= u /\ u <= Len(text) /\ u - v = WindowSize
      BY <1>1, <1>2, <1>4, <1>9, <3>1
    <3> QED
      BY <1>1, <1>4, <3>1, <3>2, Part
  <2>2. taken' - rolling'.filled = gone + 1
    BY <1>1, <1>2, <1>4, <1>5, <1>9
  <2>3. t[WindowSize] = b
    <3>1. WindowSize \in 1..WindowSize /\ (gone + 1) + WindowSize = taken'
      BY <1>1, <1>2, <1>4, <1>9
    <3> QED
      BY <2>1, <3>1
  <2>4. \A k \in 1..(WindowSize - 1) : t[k] = s[k + 1]
    <3>1. ASSUME NEW k \in 1..(WindowSize - 1) PROVE t[k] = s[k + 1]
      <4>1. k \in 1..WindowSize /\ k + 1 \in 1..rolling.filled /\ (gone + 1) + k = gone + (k + 1)
        BY <1>2, <1>4, <1>9
      <4> QED
        BY <1>6, <2>1, <4>1
    <3> QED
      BY <3>1
  <2>5. s[1] = rolling.window[rolling.position]
    <3>1. /\ WindowSize - 1 \in 0..(rolling.filled - 1)
          /\ rolling.position \in 0..(WindowSize - 1)
      BY <1>1, <1>2, <1>9 DEF Rings
    <3>2. rolling.window[Place(rolling.position, WindowSize - 1)] = text[taken - (WindowSize - 1)]
      BY <3>1 DEF ChunkerInv, WindowIsRecent, Place
    <3>3. Place(rolling.position, WindowSize - 1) = rolling.position
      BY <1>2, <3>1 DEF Place
    <3>4. taken - (WindowSize - 1) = gone + 1 /\ 1 \in 1..rolling.filled
      BY <1>1, <1>2, <1>4, <1>9
    <3> QED
      BY <1>6, <3>2, <3>3, <3>4
  <2> HIDE DEF s, t
  <2>6. FreshHash(t) = Xor(GearStep(FreshHash(s), t[WindowSize]),
                           RotateLeft(GearValue[s[1]], WindowSize % WordBits))
    <3>1. /\ s \in Seq(Byte) /\ t \in Seq(Byte) /\ Len(s) = WindowSize /\ Len(t) = WindowSize
          /\ \A k \in 1..(WindowSize - 1) : t[k] = s[k + 1]
      BY <1>6, <1>9, <2>1, <2>4, Zenon
    <3> QED
      BY <1>2, <3>1, HashDrops
  <2>7. rolling'.state = FreshHash(t)
    <3>1. ~(rolling.filled < WindowSize)
      BY <1>2, <1>9
    <3>2. rolling'.state = Xor(GearStep(rolling.state, b),
                               RotateLeft(GearValue[rolling.window[rolling.position]],
                                          WindowSize % WordBits))
      BY <1>5, <3>1
    <3> QED
      BY <1>7, <2>3, <2>5, <2>6, <3>2, Zenon
  <2> QED
    BY <2>2, <2>7 DEF HashIsFresh, t
<1> QED
  BY <1>2, <1>8, <1>9

\* The bytes that a boundary behind m bytes looks at are those that were pushed last.
LEMMA RestWindow ==
  ASSUME NEW s \in Seq(Byte), NEW a \in Nat, NEW m \in Nat, a + m <= Len(s), WindowSize <= m
  PROVE  SubSeq(SubSeq(s, a + 1, Len(s)), m - WindowSize + 1, m)
           = SubSeq(s, (a + m) - WindowSize + 1, a + m)
<1>1. WindowSize \in Nat \ {0}
  BY ChunkerAssumption
<1> DEFINE r == SubSeq(s, a + 1, Len(s))
<1>2. r \in Seq(Byte) /\ Len(r) = Len(s) - a /\ \A k \in 1..(Len(s) - a) : r[k] = s[a + k]
  <2>1. a <= Len(s) /\ Len(s) \in Nat
    OBVIOUS
  <2> QED
    BY <2>1, Part
<1> HIDE DEF r
<1> DEFINE u == SubSeq(r, (m - WindowSize) + 1, m)
           v == SubSeq(s, ((a + m) - WindowSize) + 1, a + m)
<1>3. u \in Seq(Byte) /\ Len(u) = WindowSize /\ \A k \in 1..WindowSize : u[k] = r[(m - WindowSize) + k]
  <2>1. PICK c \in Nat : c = m - WindowSize
    BY <1>1
  <2>2. c <= m /\ m <= Len(r) /\ m - c = WindowSize
    BY <1>1, <1>2, <2>1
  <2>3. /\ SubSeq(r, c + 1, m) \in Seq(Byte) /\ Len(SubSeq(r, c + 1, m)) = WindowSize
        /\ \A k \in 1..WindowSize : SubSeq(r, c + 1, m)[k] = r[c + k]
    BY <1>2, <2>2, Part, SMTT(30)
  <2> QED
    BY <2>1, <2>3, Zenon
<1>4. v \in Seq(Byte) /\ Len(v) = WindowSize
      /\ \A k \in 1..WindowSize : v[k] = s[((a + m) - WindowSize) + k]
  <2>1. PICK c \in Nat, d \in Nat : c = (a + m) - WindowSize /\ d = a + m
    BY <1>1
  <2>2. c <= d /\ d <= Len(s) /\ d - c = WindowSize
    BY <1>1, <2>1
  <2> QED
    BY <2>1, <2>2, Part, SMTT(30)
<1>5. ASSUME NEW k \in 1..WindowSize PROVE u[k] = v[k]
  <2>1. (m - WindowSize) + k \in 1..(Len(s) - a)
    BY <1>1
  <2>2. a + ((m - WindowSize) + k) = ((a + m) - WindowSize) + k
    BY <1>1
  <2>3. r[(m - WindowSize) + k] = s[a + ((m - WindowSize) + k)]
    BY <1>2, <2>1
  <2> QED
    BY <1>3, <1>4, <2>2, <2>3
<1> HIDE DEF u, v
<1>6. u = v
  BY <1>3, <1>4, <1>5
<1> QED
  BY <1>6 DEF u, v, r

LEMMA InitLocal == Init => LocalInv
<1> SUFFICES ASSUME Init PROVE LocalInv
  OBVIOUS
<1>1. ChunkerInv
  BY InitInv
<1>2. text \in Seq(Byte) /\ taken = 0 /\ start = 0 /\ rolling = EmptyRing /\ cuts = <<>>
  BY <1>1 DEF Init, ChunkerInv, TypeOK
<1>3. HashIsFresh
  <2>1. SubSeq(text, 0 - 0 + 1, 0) = <<>>
    BY <1>2
  <2>2. PICK h : HashSteps(<<>>, h, Len(<<>>)) /\ FreshHash(<<>>) = h[Len(<<>>)]
    <3>1. <<>> \in Seq(Byte)
      OBVIOUS
    <3> QED
      BY <3>1, FreshHashSteps
  <2>3. FreshHash(<<>>) = {}
    BY <2>2 DEF HashSteps
  <2> QED
    BY <1>2, <2>1, <2>3 DEF HashIsFresh, EmptyRing
<1>4. Collecting /\ CutsAreLocal
  BY <1>2 DEF Collecting, CutsAreLocal
<1> QED
  BY <1>1, <1>3, <1>4 DEF LocalInv

\* Each step keeps it: a chunk is handed on at the first cut that its own
\* content has, and what the end hands on has none.
LEMMA NextLocal == LocalInv /\ [Next]_vars => LocalInv'
<1> SUFFICES ASSUME LocalInv, [Next]_vars PROVE LocalInv'
  OBVIOUS
<1> USE DEF LocalInv
<1>1. ChunkerInv'
  BY NextInv
<1>2. CASE TakeByte
  <2>1. HashIsFresh'
    BY <1>2, HashFollows DEF TakeByte
  <2>2. PICK m \in Nat : m = taken' - start
    BY <1>2 DEF TakeByte, ChunkerInv, TypeOK
  <2>3. m \in Nat \ {0} /\ m - 1 = taken - start /\ m <= MaxChunkSize /\ pc = "read" /\ pc' = "read"
        /\ text' = text
    BY <1>2, <2>2, ChunkerAssumption DEF TakeByte, ChunkerInv, TypeOK, SizesInRange
  <2>4. \A j \in 1..(m - 1) : j < MaxChunkSize /\ ~BoundaryAt(Rest(start), j)
    BY <2>3 DEF Collecting
  <2>5. ShouldCut(rolling'.state, m) <=> m >= MaxChunkSize \/ BoundaryAt(Rest(start), m)
    <3>1. /\ text' \in Seq(Byte) /\ start \in Nat /\ taken' \in Nat /\ start + m = taken'
          /\ taken' <= Len(text')
      BY <1>1, <2>2, <1>2 DEF ChunkerInv, TypeOK, TakeByte
    <3>2. ASSUME m >= MinChunkSize
          PROVE  FreshHash(SubSeq(Rest(start), m - WindowSize + 1, m)) = rolling'.state
      <4>1. WindowSize <= m /\ ~(taken' < WindowSize)
        BY <3>1, <3>2, ChunkerAssumption
      <4>2. rolling'.filled = WindowSize
        BY <1>1, <4>1 DEF ChunkerInv, WindowIsRecent
      <4>3. rolling'.state = FreshHash(SubSeq(text, taken' - WindowSize + 1, taken'))
        BY <2>1, <2>3, <4>2 DEF HashIsFresh
      <4>4. PICK d \in Nat : d = taken'
        BY <3>1
      <4>5. SubSeq(Rest(start), m - WindowSize + 1, m) = SubSeq(text, d - WindowSize + 1, d)
        BY <2>3, <3>1, <4>1, <4>4, RestWindow DEF Rest
      <4> QED
        BY <4>3, <4>4, <4>5
    <3> QED
      BY <3>2 DEF ShouldCut, BoundaryAt
  <2>6. CASE ShouldCut(rolling'.state, taken' - start)
    <3>0. PICK n : n = Len(cuts)
      OBVIOUS
    <3>1. start' = taken' /\ cuts' = Append(cuts, taken') /\ start < taken' /\ taken' \in Nat
      BY <1>2, <2>6 DEF TakeByte, ChunkerInv, TypeOK
    <3>2. /\ \A k \in 1..n : cuts'[k] = cuts[k] /\ From(k)' = From(k)
          /\ DOMAIN cuts = 1..n /\ DOMAIN cuts' = 1..(n + 1)
          /\ n \in Nat /\ Len(cuts') = n + 1
          /\ cuts'[n + 1] = taken'
          /\ From(n + 1)' = start
      BY <3>0, <3>1, HandOn
    <3>3. Collecting'
      <4>1. taken' - start' = 0
        <5>1. PICK d \in Nat : d = taken'
          BY <3>1
        <5>2. start' = d
          BY <1>2, <2>6, <5>1 DEF TakeByte
        <5>3. d - d = 0
          OBVIOUS
        <5> QED
          BY <5>1, <5>2, <5>3
      <4>2. 1..(taken' - start') = {}
        BY <4>1
      <4> QED
        BY <4>2 DEF Collecting
    <3>4. IsFirstCut(Rest(start), m)
      BY <2>2, <2>3, <2>4, <2>5, <2>6, ChunkerAssumption DEF IsFirstCut
    <3>5. ASSUME NEW k \in 1..n
          PROVE  IsFirstCut(SubSeq(text', From(k)' + 1, Len(text')), cuts'[k] - From(k)')
      BY <2>3, <3>2 DEF CutsAreLocal
    <3>6. IsFirstCut(SubSeq(text', From(n + 1)' + 1, Len(text')), cuts'[n + 1] - From(n + 1)')
      BY <2>2, <2>3, <3>2, <3>4 DEF Rest
    <3>7. \A k \in 1..(n + 1) :
            IsFirstCut(SubSeq(text', From(k)' + 1, Len(text')), cuts'[k] - From(k)')
      BY <3>2, <3>5, <3>6
    <3>8. CutsAreLocal'
      BY <2>3, <3>2, <3>7 DEF CutsAreLocal, From
    <3> QED
      BY <1>1, <2>1, <3>3, <3>8
  <2>7. CASE ~ShouldCut(rolling'.state, taken' - start)
    <3>1. UNCHANGED <<start, cuts>>
      BY <1>2, <2>7 DEF TakeByte
    <3>2. Collecting'
      <4>1. m < MaxChunkSize /\ ~BoundaryAt(Rest(start), m)
        BY <2>2, <2>5, <2>7, ChunkerAssumption
      <4>2. \A j \in 1..m : j < MaxChunkSize /\ ~BoundaryAt(Rest(start), j)
        BY <2>3, <2>4, <4>1
      <4>3. taken' - start' = m /\ SubSeq(text', start' + 1, Len(text')) = Rest(start)
        BY <2>2, <2>3, <3>1 DEF Rest
      <4> QED
        BY <4>2, <4>3 DEF Collecting, Rest
    <3>3. CutsAreLocal'
      BY <2>3, <3>1 DEF CutsAreLocal, From
    <3> QED
      BY <1>1, <2>1, <3>2, <3>3
  <2> QED
    BY <2>6, <2>7
<1>3. CASE End
  <2>1. HashIsFresh' /\ Collecting' /\ pc = "read" /\ pc' = "end" /\ text' = text
    BY <1>3 DEF End, HashIsFresh, Collecting
  <2>2. \A k \in DOMAIN cuts : IsFirstCut(Rest(From(k)), cuts[k] - From(k))
    BY <2>1 DEF CutsAreLocal, Rest
  <2>3. CASE start < taken
    <3>0. PICK n : n = Len(cuts)
      OBVIOUS
    <3>1. start' = taken /\ cuts' = Append(cuts, taken) /\ taken \in Nat /\ start \in Nat
      BY <1>3, <2>3 DEF End, ChunkerInv, TypeOK
    <3>2. /\ \A k \in 1..n : cuts'[k] = cuts[k] /\ From(k)' = From(k)
          /\ DOMAIN cuts = 1..n /\ DOMAIN cuts' = 1..(n + 1)
          /\ n \in Nat /\ Len(cuts') = n + 1
          /\ cuts'[n + 1] = taken
          /\ From(n + 1)' = start
      BY <3>0, <2>3, <3>1, HandOn
    <3>3. \A k \in 1..n : IsFirstCut(SubSeq(text', From(k)' + 1, Len(text')), cuts'[k] - From(k)')
      BY <2>1, <2>2, <3>2 DEF Rest
    <3>4. \A m \in 1..((taken - start) - 1) : ~IsFirstCut(Rest(start), m)
      <4>1. \A m \in 1..(taken - start) : m < MaxChunkSize /\ ~BoundaryAt(Rest(start), m)
        BY <2>1 DEF Collecting
      <4>2. ASSUME NEW m \in 1..((taken - start) - 1) PROVE m < MaxChunkSize /\ ~BoundaryAt(Rest(start), m)
        BY <3>1, <4>1
      <4>3. MaxChunkSize \in Nat
        BY ChunkerAssumption
      <4> QED
        BY <4>2, <4>3 DEF IsFirstCut
    <3>5. cuts'[n + 1] = Len(text')
      BY <1>3, <2>1, <3>2 DEF End
    <3>6. ASSUME NEW k \in DOMAIN cuts'
          PROVE IF pc' = "end" /\ k = Len(cuts') /\ cuts'[k] = Len(text')
                THEN \A m \in 1..((cuts'[k] - From(k)') - 1) :
                       ~IsFirstCut(SubSeq(text', From(k)' + 1, Len(text')), m)
                ELSE IsFirstCut(SubSeq(text', From(k)' + 1, Len(text')), cuts'[k] - From(k)')
      <4>1. CASE k = n + 1
        BY <2>1, <3>2, <3>4, <3>5, <4>1 DEF Rest
      <4>2. CASE k \in 1..n
        BY <3>2, <3>3, <4>2
      <4> QED
        BY <3>2, <4>1, <4>2
    <3>7. CutsAreLocal'
      BY <3>6 DEF CutsAreLocal, From
    <3> QED
      BY <1>1, <2>1, <3>7
  <2>4. CASE ~(start < taken)
    <3>1. cuts' = cuts
      BY <1>3, <2>4 DEF End
    <3>2. ASSUME NEW k \in DOMAIN cuts
          PROVE  \A m \in 1..((cuts[k] - From(k)) - 1) : ~IsFirstCut(Rest(From(k)), m)
      <4> DEFINE size == cuts[k] - From(k)
      <4>1. /\ IsFirstCut(Rest(From(k)), size)
            /\ size \in Int
        <5>1. cuts[k] \in Int /\ From(k) \in Int
          BY DEF ChunkerInv, TypeOK, From
        <5> QED
          BY <2>2, <5>1
      <4> HIDE DEF size
      <4>2. MaxChunkSize \in Nat
        BY ChunkerAssumption
      <4>3. \A m \in 1..(size - 1) : ~IsFirstCut(Rest(From(k)), m)
        BY <4>1, <4>2 DEF IsFirstCut
      <4> QED
        BY <4>3 DEF size
    <3>3. CutsAreLocal'
      BY <2>1, <2>2, <3>1, <3>2 DEF CutsAreLocal, From, Rest
    <3> QED
      BY <1>1, <2>1, <3>3
  <2> QED
    BY <2>3, <2>4
<1>4. CASE Fetch
  BY <1>1, <1>4 DEF Fetch, HashIsFresh, Collecting, CutsAreLocal, From, Rest
<1>5. CASE IoError
  BY <1>1, <1>5 DEF IoError, HashIsFresh, Collecting, CutsAreLocal, From, Rest
<1>6. CASE UNCHANGED vars
  BY <1>1, <1>6 DEF vars, HashIsFresh, Collecting, CutsAreLocal, From, Rest
<1> QED
  BY <1>2, <1>3, <1>4, <1>5, <1>6 DEF Next

\* Where a file is cut depends on what follows the cut before and on nothing
\* else: the rolling hash, never reset and fed by reads of any size, decides
\* as one that started at the chunk.
THEOREM ChunkerCutsAreLocal == Spec => []CutsAreLocal
<1>1. LocalInv => CutsAreLocal
  BY DEF LocalInv
<1> QED
  BY <1>1, InitLocal, NextLocal, PTL DEF Spec
================================================================================
