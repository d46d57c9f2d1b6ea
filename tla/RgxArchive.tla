------------------------------ MODULE RgxArchive ------------------------------
(***************************************************************************)
(* The inner RGX v0.2 archive: the records that src/src/format.rs encodes, *)
(* the file they are appended to, and the two path rules of                *)
(* src/src/archive.rs (the writer's and the reader's, which differ).       *)
(*                                                                         *)
(* An archive is a sequence of records.  Bytes are abstracted to what the  *)
(* reader can tell apart: a chunk stands for its bytes and for the BLAKE3  *)
(* digest of its bytes (the digest is taken as collision free), and the    *)
(* content of a file, hence its digest, is the sequence of its chunks.     *)
(***************************************************************************)
EXTENDS Integers, Sequences, FiniteSets, Functions

CONSTANTS
  Name,        \* path components
  Refused,     \* names both sides refuse: ".", "..", "", not UTF-8, over-long
  Backslashed, \* names with a backslash in them, which Unix allows
  Chunk,       \* distinct chunks of file data
  ChunkLen,    \* ChunkLen[c]: bytes of chunk c
  ZipLen,      \* ZipLen[c]: bytes of its Zstandard form
  Garbage,     \* bytes that no chunk hashes to
  MaxChunk,    \* chunker::MAX_CHUNK_SIZE
  MaxRefs,     \* MAX_CHUNKS_PER_FILE
  CounterMax   \* u64::MAX, the ceiling of every checked_add

ASSUME NameAssumption == Refused \subseteq Name /\ Backslashed \subseteq Name
ASSUME ChunkAssumption ==
  /\ ChunkLen \in [Chunk -> 1..MaxChunk]
  /\ ZipLen \in [Chunk -> Nat \ {0}]
  /\ Garbage \notin Chunk
ASSUME BoundAssumption ==
  MaxChunk \in Nat \ {0} /\ MaxRefs \in Nat /\ CounterMax \in Nat

VARIABLE archive   \* the records in the archive file, in file order

-----------------------------------------------------------------------------
(* Paths: non-empty sequences of components *)

Path == Seq(Name) \ {<<>>}
Parent(p) == SubSeq(p, 1, Len(p) - 1)

\* p is a proper ancestor directory of q.
IsAncestor(p, q) == Len(p) < Len(q) /\ p = SubSeq(q, 1, Len(p))

\* normalize_relative_path and checked_path_len accept p for storing.
Storable(p) == p # <<>> /\ \A i \in DOMAIN p : p[i] \notin Refused

\* read_path and validate_archive_path accept p: they also refuse backslashes.
Readable(p) == p # <<>> /\ \A i \in DOMAIN p : p[i] \notin Refused \union Backslashed

-----------------------------------------------------------------------------
(* Records *)

Header == [tag |-> "RGX"]
Torn   == [tag |-> "torn"]     \* a record cut short, or an unknown marker

\* A chunk is stored raw unless compression makes it smaller.
ChunkRecord(c) ==
  [tag |-> "CHNK", hash |-> c, data |-> c, size |-> ChunkLen[c],
   method  |-> IF ZipLen[c] < ChunkLen[c] THEN "zstd" ELSE "store",
   payload |-> IF ZipLen[c] < ChunkLen[c] THEN ZipLen[c] ELSE ChunkLen[c]]
DirectoryRecord(p) == [tag |-> "DIRE", path |-> p]
FileRecord(p, size, refs) ==
  [tag |-> "FILE", path |-> p, size |-> size, hash |-> refs, refs |-> refs]
FooterRecord(stats) == [tag |-> "RGXF", stats |-> stats]

CounterNames ==
  {"entries", "files", "directories", "unique_chunks", "chunk_references",
   "original_bytes", "stored_bytes", "deduplicated_bytes"}
ZeroStats == [n \in CounterNames |-> 0]

Add(counters, n, k) == [counters EXCEPT ![n] = @ + k]

\* Every counter is still below the ceiling at which checked_add bails.
Fits(counters) == \A n \in DOMAIN counters : counters[n] <= CounterMax

ChunkRecordType == [tag : {"CHNK"}, hash : Chunk, data : Chunk, size : Nat \ {0},
                    method : {"zstd", "store"}, payload : Nat \ {0}]
DirectoryRecordType == [tag : {"DIRE"}, path : Path]
FileRecordType == [tag : {"FILE"}, path : Path, size : Nat,
                   hash : Seq(Chunk), refs : Seq(Chunk)]
FooterType == [tag : {"RGXF"}, stats : [CounterNames -> Nat]]
\* What a writer puts into an archive (a damaged one may hold anything).
WrittenRecord == {Header, Torn} \union ChunkRecordType \union DirectoryRecordType
                   \union FileRecordType \union FooterType

\* The positions of the records with a given tag among the first n.
Tagged(t, n) == {i \in 1..n : archive[i].tag = t}
=============================================================================
