------------------------------- MODULE RgxPack -------------------------------
(***************************************************************************)
(* The archive writer: pack_to_writer, pack_file and                       *)
(* write_or_reference_chunk of src/src/archive.rs.                         *)
(*                                                                         *)
(* One run of the writer walks an input tree and appends records to        *)
(* `archive`.  The tree is the environment's: WalkDir may deliver any tree *)
(* (every directory before what it holds, every path once), a file may be  *)
(* cut into any chunks, and reading or writing may fail at any point.      *)
(***************************************************************************)
EXTENDS RgxArchive

CONSTANTS
  Root,       \* the last component of the input path
  MaxDepth,   \* bound: path components below the root
  MaxEntries  \* bound: entries of one tree

ASSUME WalkAssumption == Root \in Name /\ MaxDepth \in Nat /\ MaxEntries \in Nat

VARIABLES
  pc,      \* where pack_to_writer is
  walked,  \* paths WalkDir has delivered
  dirs,    \* those that are directories
  file,    \* the file being packed
  seen,    \* seen_chunks
  stats    \* PackStats

packVars == <<pc, walked, dirs, file, seen, stats>>
vars == <<archive, packVars>>

FileType == [path : Seq(Name), size : Nat, refs : Seq(Chunk)]
NoFile == [path |-> <<>>, size |-> 0, refs |-> <<>>]

PackInit ==
  /\ pc = "start"
  /\ walked = {} /\ dirs = {}
  /\ file = NoFile
  /\ seen = {}
  /\ stats = ZeroStats
Init == archive = <<>> /\ PackInit

\* Fault: the counters are added up without checked_add.
CountUnchecked(new, next) == stats' = new /\ pc' = next

\* checked_add on each counter: the run fails when one would overflow.
Count(new, next) ==
  IF Fits(new) THEN stats' = new /\ pc' = next
               ELSE stats' = stats /\ pc' = "failed"

-----------------------------------------------------------------------------
(* Starting *)

\* The input does not exist, or the level is outside 1..22.
RefuseInput ==
  /\ pc = "start"
  /\ pc' = "failed"
  /\ UNCHANGED <<archive, walked, dirs, file, seen, stats>>

WriteHeader ==
  /\ pc = "start"
  /\ pc' = "walk"
  /\ archive' = Append(archive, Header)
  /\ UNCHANGED <<walked, dirs, file, seen, stats>>

-----------------------------------------------------------------------------
(* Walking the tree *)

\* The paths WalkDir can deliver next: the input itself, then entries of
\* directories it has delivered.
Deliverable ==
  IF walked = {} THEN {<<Root>>}
  ELSE IF Cardinality(walked) < MaxEntries
       THEN {Append(d, n) : d \in {e \in dirs : Len(e) <= MaxDepth}, n \in Name} \ walked
       ELSE {}

WalkDirectory(p) ==
  /\ pc = "walk" /\ Storable(p)
  /\ archive' = Append(archive, DirectoryRecord(p))
  /\ walked' = walked \union {p}
  /\ dirs' = dirs \union {p}
  /\ Count(Add(Add(stats, "entries", 1), "directories", 1), "walk")
  /\ UNCHANGED <<file, seen>>

OpenFile(p) ==
  /\ pc = "walk" /\ Storable(p)
  /\ walked' = walked \union {p}
  /\ file' = [path |-> p, size |-> 0, refs |-> <<>>]
  /\ pc' = "file"
  /\ UNCHANGED <<archive, dirs, seen, stats>>

\* A symbolic link, a special file, a name that cannot be stored, or an
\* entry WalkDir or File::open cannot read.
RefuseEntry(p) ==
  /\ pc = "walk"
  /\ pc' = "failed"
  /\ walked' = walked \union {p}
  /\ UNCHANGED <<archive, dirs, file, seen, stats>>

-----------------------------------------------------------------------------
(* Packing one file *)

\* The checked_adds made before a chunk is written leave room for c.
Room(c) ==
  /\ file.size + ChunkLen[c] <= CounterMax
  /\ stats["chunk_references"] < CounterMax

\* Fault: a chunk is not entered in chunk_hashes.
ReferencedUnlisted(c) ==
  [path |-> file.path, size |-> file.size + ChunkLen[c], refs |-> file.refs]

Referenced(c) ==
  [path |-> file.path, size |-> file.size + ChunkLen[c], refs |-> Append(file.refs, c)]

\* Fault: what a reused chunk saves is counted as what it would occupy.
ReferenceChunkPayload(c) ==
  /\ pc = "file" /\ c \in seen /\ Room(c)
  /\ file' = Referenced(c)
  /\ Count(Add(Add(stats, "chunk_references", 1),
               "deduplicated_bytes", ChunkRecord(c).payload), "file")
  /\ UNCHANGED <<archive, walked, dirs, seen>>

\* write_or_reference_chunk: the chunk is already in the archive.
ReferenceChunk(c) ==
  /\ pc = "file" /\ c \in seen /\ Room(c)
  /\ file' = Referenced(c)
  /\ Count(Add(Add(stats, "chunk_references", 1), "deduplicated_bytes", ChunkLen[c]), "file")
  /\ UNCHANGED <<archive, walked, dirs, seen>>

\* Fault: a chunk is remembered as written before it is.
WriteChunkLater(c) ==
  /\ pc = "file" /\ c \notin seen /\ Room(c)
  /\ seen' = seen \union {c}
  /\ file' = Referenced(c)
  /\ Count(Add(Add(stats, "chunk_references", 1), "unique_chunks", 1), "file")
  /\ UNCHANGED <<archive, walked, dirs>>

\* Fault: a chunk that was written is forgotten.
WriteChunkForgotten(c) ==
  /\ pc = "file" /\ c \notin seen /\ Room(c)
  /\ file' = Referenced(c)
  /\ archive' = Append(archive, ChunkRecord(c))
  /\ Count(Add(Add(Add(stats, "chunk_references", 1), "unique_chunks", 1),
               "stored_bytes", ChunkRecord(c).payload), "file")
  /\ UNCHANGED <<walked, dirs, seen>>

\* write_or_reference_chunk: a chunk seen for the first time is written.
WriteChunk(c) ==
  /\ pc = "file" /\ c \notin seen /\ Room(c)
  /\ seen' = seen \union {c}
  /\ file' = Referenced(c)
  /\ archive' = Append(archive, ChunkRecord(c))
  /\ Count(Add(Add(Add(stats, "chunk_references", 1), "unique_chunks", 1),
               "stored_bytes", ChunkRecord(c).payload), "file")
  /\ UNCHANGED <<walked, dirs>>

\* Fault: the limit on the chunks of a file is not enforced.
CloseFileUnlimited ==
  /\ pc = "file"
  /\ archive' = Append(archive, FileRecord(file.path, file.size, file.refs))
  /\ Count(Add(Add(Add(stats, "entries", 1), "files", 1), "original_bytes", file.size), "walk")
  /\ file' = NoFile
  /\ UNCHANGED <<walked, dirs, seen>>

\* The end of the input file: too many chunks, or the FILE record.
CloseFile ==
  /\ pc = "file" /\ Len(file.refs) <= MaxRefs
  /\ archive' = Append(archive, FileRecord(file.path, file.size, file.refs))
  /\ Count(Add(Add(Add(stats, "entries", 1), "files", 1), "original_bytes", file.size), "walk")
  /\ file' = NoFile
  /\ UNCHANGED <<walked, dirs, seen>>

\* The checked_adds that come before anything is written: the file's size
\* and its chunk references; and the limit on chunks, checked at the end.
FileTooLarge ==
  /\ pc = "file"
  /\ \/ Len(file.refs) > MaxRefs
     \/ \E c \in Chunk : ~Room(c)
  /\ pc' = "failed"
  /\ UNCHANGED <<archive, walked, dirs, file, seen, stats>>

-----------------------------------------------------------------------------
(* Finishing and failing *)

\* WalkDir is exhausted: the footer is written and flushed.
WriteFooter ==
  /\ pc = "walk" /\ walked # {}
  /\ archive' = Append(archive, FooterRecord(stats))
  /\ pc' = "ok"
  /\ UNCHANGED <<walked, dirs, file, seen, stats>>

\* Reading the input fails, or the output refuses a write or the last flush:
\* what already reached the output stays there, the last record perhaps cut.
IoError ==
  /\ pc \in {"start", "walk", "file"}
  /\ pc' = "failed"
  /\ \/ archive' = archive
     \/ archive' = Append(archive, Torn)
     \/ pc = "walk" /\ walked # {} /\ archive' = Append(archive, FooterRecord(stats))
  /\ UNCHANGED <<walked, dirs, file, seen, stats>>

PackNext ==
  \/ RefuseInput
  \/ WriteHeader
  \/ \E p \in Deliverable : WalkDirectory(p) \/ OpenFile(p) \/ RefuseEntry(p)
  \/ \E c \in Chunk : ReferenceChunk(c) \/ WriteChunk(c)
  \/ CloseFile
  \/ FileTooLarge
  \/ WriteFooter
  \/ IoError

Spec == Init /\ [][PackNext]_vars

-----------------------------------------------------------------------------
(* Properties *)

\* The state has its types, and no counter of PackStats has passed the
\* ceiling that checked_add enforces.
TypeOK ==
  /\ archive \in Seq(WrittenRecord)
  /\ pc \in {"start", "walk", "file", "ok", "failed"}
  /\ dirs \subseteq walked /\ walked \subseteq Path
  /\ file \in FileType
  /\ pc = "file" => file.path # <<>>
  /\ seen \subseteq Chunk
  /\ stats \in [CounterNames -> 0..CounterMax]

\* A FILE record only names chunks whose CHNK record stands before it in the
\* archive, wherever packing stopped: a reader never meets a forward or an
\* unknown chunk reference in what pack wrote.
ReferencesResolve ==
  \A i \in Tagged("FILE", Len(archive)) : \A k \in DOMAIN archive[i].refs :
    \E j \in Tagged("CHNK", i - 1) : archive[j].hash = archive[i].refs[k]

\* Deduplication: the data of a chunk is written at most once, across all
\* the files of the tree.
ChunksOnce ==
  \A i, j \in Tagged("CHNK", Len(archive)) :
    archive[i].hash = archive[j].hash => i = j

\* No chunk is stored for nothing: each belongs to a FILE record or to the
\* file being packed, so a finished archive has no unreferenced chunk data.
NothingOrphaned ==
  \A i \in Tagged("CHNK", Len(archive)) :
    \/ archive[i].hash \in Range(file.refs)
    \/ \E j \in Tagged("FILE", Len(archive)) : archive[i].hash \in Range(archive[j].refs)

\* The CHNK records are just what the FILE records and the file in progress
\* need, each before its first use, wherever packing stopped.
ChunksMatchReferences == ReferencesResolve /\ ChunksOnce /\ NothingOrphaned

\* The byte counters balance at every point of the run: bytes written as
\* chunks plus bytes saved by reuse are the bytes of the files, packed or
\* being packed, and stored_bytes is what the payloads add up to.
ByteLedger ==
  LET chunks == Tagged("CHNK", Len(archive))
      Total(f) == SumFunction([i \in chunks |-> archive[i][f]])
  IN  pc # "failed" =>
        /\ Total("size") + stats["deduplicated_bytes"] = stats["original_bytes"] + file.size
        /\ Total("payload") = stats["stored_bytes"]
=============================================================================
