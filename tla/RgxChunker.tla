------------------------------ MODULE RgxChunker ------------------------------
(***************************************************************************)
(* Where a file is cut into chunks: chunker.rs, and the loop of pack_file  *)
(* in archive.rs that feeds it.  The file arrives in reads of any size,    *)
(* bytes go one by one through a rolling hash of the last WindowSize       *)
(* bytes, and a chunk ends where it is long enough and the hash has zeros  *)
(* under a mask, or where it is as long as chunks get.  The rolling hash   *)
(* goes on across the cuts of a file.                                      *)
(*                                                                         *)
(* A word is the set of its bits, so exclusive or is symmetric difference. *)
(***************************************************************************)
EXTENDS Integers, Sequences

CONSTANTS
  Byte, ZeroByte,
  WordBits,      \* 64
  WindowSize,    \* 64
  MinChunkSize, MaxChunkSize,
  BoundaryMask,  \* the bits that are zero at a boundary
  GearValue,     \* Byte -> word
  BufferSize,    \* of a read
  MaxText        \* bound: bytes in a file

ASSUME ChunkerAssumption ==
  /\ ZeroByte \in Byte
  /\ WordBits \in Nat \ {0} /\ BufferSize \in Nat \ {0} /\ MaxText \in Nat
  /\ WindowSize \in Nat \ {0}
  /\ MinChunkSize \in Nat /\ MaxChunkSize \in Nat
  /\ WindowSize <= MinChunkSize /\ MinChunkSize <= MaxChunkSize
  /\ BoundaryMask \subseteq 0..(WordBits - 1)
  /\ GearValue \in [Byte -> SUBSET (0..(WordBits - 1))]

VARIABLES
  text,      \* the bytes of the file
  fetched,   \* bytes read
  taken,     \* bytes of those that went through the loop
  rolling,   \* the rolling hash
  start,     \* where the chunk being collected starts
  cuts,      \* where each chunk that was handed on ends
  pc

vars == <<text, fetched, taken, rolling, start, cuts, pc>>

Words == SUBSET (0..(WordBits - 1))

-----------------------------------------------------------------------------
(* RollingHash *)

Xor(u, v) == (u \ v) \union (v \ u)
RotateLeft(u, n) == {(b + n) % WordBits : b \in u}

\* The window is a ring; what it holds at first never counts.
EmptyRing ==
  [state |-> {}, window |-> [i \in 0..(WindowSize - 1) |-> ZeroByte], position |-> 0, filled |-> 0]

\* Fault: the byte that leaves the window is the one before.
PushOffByOne(h, byte) ==
  LET rolled   == Xor(RotateLeft(h.state, 1), GearValue[byte])
      outgoing == h.window[(h.position + 1) % WindowSize]
  IN [state    |-> IF h.filled < WindowSize THEN rolled
                   ELSE Xor(rolled, RotateLeft(GearValue[outgoing], WindowSize % WordBits)),
      window   |-> [h.window EXCEPT ![h.position] = byte],
      position |-> (h.position + 1) % WindowSize,
      filled   |-> IF h.filled < WindowSize THEN h.filled + 1 ELSE h.filled]

\* Fault: a full window goes on being filled.
PushFillingOn(h, byte) ==
  LET rolled   == Xor(RotateLeft(h.state, 1), GearValue[byte])
      outgoing == h.window[h.position]
  IN [state    |-> IF h.filled < WindowSize THEN rolled
                   ELSE Xor(rolled, RotateLeft(GearValue[outgoing], WindowSize % WordBits)),
      window   |-> [h.window EXCEPT ![h.position] = byte],
      position |-> (h.position + 1) % WindowSize,
      filled   |-> h.filled + 1]

\* A full window gives up its oldest byte, whose value has been rotated once
\* for each byte since.
Push(h, byte) ==
  LET rolled   == Xor(RotateLeft(h.state, 1), GearValue[byte])
      outgoing == h.window[h.position]
  IN [state    |-> IF h.filled < WindowSize THEN rolled
                   ELSE Xor(rolled, RotateLeft(GearValue[outgoing], WindowSize % WordBits)),
      window   |-> [h.window EXCEPT ![h.position] = byte],
      position |-> (h.position + 1) % WindowSize,
      filled   |-> IF h.filled < WindowSize THEN h.filled + 1 ELSE h.filled]

\* Fault: the maximum is only noticed a byte later.
ShouldCutLate(state, len) ==
  len > MaxChunkSize \/ (len >= MinChunkSize /\ state \intersect BoundaryMask = {})

ShouldCut(state, len) ==
  len >= MaxChunkSize \/ (len >= MinChunkSize /\ state \intersect BoundaryMask = {})

-----------------------------------------------------------------------------
(* The loop of pack_file *)

Init ==
  /\ text \in UNION {[1..n -> Byte] : n \in 0..MaxText}
  /\ fetched = 0 /\ taken = 0 /\ start = 0 /\ cuts = <<>>
  /\ rolling = EmptyRing
  /\ pc = "read"

\* reader.read: some bytes, as many as it likes.
Fetch ==
  /\ pc = "read" /\ taken = fetched
  /\ \E n \in 1..BufferSize : fetched + n <= Len(text) /\ fetched' = fetched + n
  /\ UNCHANGED <<text, taken, rolling, start, cuts, pc>>

\* Fault: each chunk starts with a fresh hash.
TakeByteResetting ==
  /\ pc = "read" /\ taken < fetched
  /\ taken' = taken + 1
  /\ LET pushed == Push(rolling, text[taken']) IN
     IF ShouldCut(pushed.state, taken' - start)
     THEN start' = taken' /\ cuts' = Append(cuts, taken') /\ rolling' = EmptyRing
     ELSE rolling' = pushed /\ UNCHANGED <<start, cuts>>
  /\ UNCHANGED <<text, fetched, pc>>

\* One turn of the inner loop; a cut hands the chunk to
\* write_or_reference_chunk and clears it, and leaves the hash alone.
TakeByte ==
  /\ pc = "read" /\ taken < fetched
  /\ taken' = taken + 1
  /\ rolling' = Push(rolling, text[taken'])
  /\ IF ShouldCut(rolling'.state, taken' - start)
     THEN start' = taken' /\ cuts' = Append(cuts, taken')
     ELSE UNCHANGED <<start, cuts>>
  /\ UNCHANGED <<text, fetched, pc>>

\* Fault: the rest behind the last cut is forgotten.
EndForgettingRest ==
  /\ pc = "read" /\ taken = Len(text)
  /\ pc' = "end"
  /\ UNCHANGED <<text, fetched, taken, rolling, start, cuts>>

\* Nothing more to read: what there is of a chunk is the last one.
End ==
  /\ pc = "read" /\ taken = Len(text)
  /\ IF start < taken
     THEN start' = taken /\ cuts' = Append(cuts, taken)
     ELSE UNCHANGED <<start, cuts>>
  /\ pc' = "end"
  /\ UNCHANGED <<text, fetched, taken, rolling>>

\* A read or a write of the archive fails.
IoError ==
  /\ pc = "read"
  /\ pc' = "failed"
  /\ UNCHANGED <<text, fetched, taken, rolling, start, cuts>>

Next == Fetch \/ TakeByte \/ End \/ IoError

Spec == Init /\ [][Next]_vars

-----------------------------------------------------------------------------
(* Properties *)

Rings ==
  [state : Words, window : [0..(WindowSize - 1) -> Byte], position : 0..(WindowSize - 1),
   filled : 0..WindowSize]

TypeOK ==
  /\ text \in Seq(Byte)
  /\ fetched \in 0..Len(text) /\ taken \in 0..fetched /\ start \in 0..taken
  /\ rolling \in Rings
  /\ cuts \in Seq(1..taken)
  /\ pc \in {"read", "end", "failed"}

\* Where the k-th chunk starts.
From(k) == IF k = 1 THEN 0 ELSE cuts[k - 1]

\* The chunks are the file, each byte in one of them and in order: each
\* begins where the one before ended, none is empty, and what was taken and
\* is in no chunk is what is being collected.
ChunksTile ==
  /\ \A k \in DOMAIN cuts : From(k) < cuts[k]
  /\ start = From(Len(cuts) + 1)
  /\ pc = "end" => start = Len(text)

\* No chunk is longer than the reader accepts (MAX_CHUNK_SIZE), and only the
\* last of a file is shorter than the minimum.
SizesInRange ==
  /\ taken - start < MaxChunkSize \/ pc # "read"
  /\ \A k \in DOMAIN cuts :
       /\ cuts[k] - From(k) <= MaxChunkSize
       /\ cuts[k] - From(k) < MinChunkSize => k = Len(cuts) /\ pc = "end"

\* The ring holds the last bytes that were pushed, the latest one behind its
\* position and each one before that a place further back, so that what leaves
\* a full window is its oldest byte.
WindowIsRecent ==
  /\ rolling.filled = (IF taken < WindowSize THEN taken ELSE WindowSize)
  /\ \A k \in 0..(rolling.filled - 1) :
       LET p == rolling.position - 1 - k
       IN rolling.window[IF p >= 0 THEN p ELSE p + WindowSize] = text[taken - k]

\* All that the chunker keeps of the file while it goes through it, whatever
\* the sizes of the reads: types, chunks, sizes and the ring of the hash.
ChunkerInv == TypeOK /\ ChunksTile /\ SizesInRange /\ WindowIsRecent

-----------------------------------------------------------------------------
(* Content alone decides.  What a chunker that starts here makes of s:       *)

\* The hash of a sequence of at most WindowSize bytes, from nothing.
FreshHash(s) ==
  LET hash[n \in 0..Len(s)] ==
        IF n = 0 THEN {} ELSE Xor(RotateLeft(hash[n - 1], 1), GearValue[s[n]])
  IN hash[Len(s)]

BoundaryAt(s, n) ==
  n >= MinChunkSize /\ FreshHash(SubSeq(s, n - WindowSize + 1, n)) \intersect BoundaryMask = {}

IsFirstCut(s, n) ==
  /\ n = MaxChunkSize \/ BoundaryAt(s, n)
  /\ \A m \in 1..(n - 1) : m < MaxChunkSize /\ ~BoundaryAt(s, m)

\* Each chunk is what a chunker would make of the file if it began there:
\* neither the sizes of the reads nor anything in front of the chunk, though
\* the hash was never reset, has a say.  Equal data behind a cut is therefore
\* cut equally wherever it is in a file, which deduplication lives on.
CutsAreLocal ==
  \A k \in DOMAIN cuts :
    LET rest == SubSeq(text, From(k) + 1, Len(text))
        size == cuts[k] - From(k)
    IN IF pc = "end" /\ k = Len(cuts) /\ cuts[k] = Len(text)
       THEN \A m \in 1..(size - 1) : ~IsFirstCut(rest, m)
       ELSE IsFirstCut(rest, size)
================================================================================
