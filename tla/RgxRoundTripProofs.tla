------------------------- MODULE RgxRoundTripProofs -------------------------
(***************************************************************************)
(* Proofs about the archive writer and the archive reader, for every tree, *)
(* set of chunks, archive, bound and operation: each alone (Spec and       *)
(* ReadAlone), then together and under damage (RoundTripSpec).             *)
(*                                                                         *)
(* The writer: its types, the three structural facts the reader's scan     *)
(* depends on, and the ledger of bytes, with the lemmas on sums it needs.  *)
(*                                                                         *)
(* The reader: what the scan has gathered is a function of the records     *)
(* behind it (Gathered): the catalog, the statistics and what has been     *)
(* checked of a prefix.  At the footer this is what the format says of the *)
(* archive as a whole, and while the archive is well-formed no record of   *)
(* it is refused.  From the catalog follows what the plan holds, and from  *)
(* the plan what an extraction or a cat has delivered when it reports      *)
(* success.                                                                *)
(*                                                                         *)
(* Both: the writer only adds records behind those, and the footer last,   *)
(* so that all of this holds while it is at work.  It keeps its counters,  *)
(* its catalog and the places of its entries so that the records behind it *)
(* are what the scan accepts (Composing): what it has written is read.     *)
(*                                                                         *)
(* Damage: once storage strikes, nothing gathered can be relied on.  What  *)
(* holds then is what the digest of a file is compared with before it is   *)
(* handed out (Faithfully), and, as long as it struck once, that a file    *)
(* the scan misses is missed by the footer too (OneFaultInv).              *)
(***************************************************************************)
EXTENDS RgxRoundTrip, FiniteSetTheorems, WellFoundedInduction, SequenceTheorems, TLAPS

-----------------------------------------------------------------------------
(* Types *)

\* The records pack appends are records of the format.
LEMMA RecordTypes ==
  ASSUME NEW c \in Chunk, NEW p \in Path, NEW n \in Nat, NEW s \in Seq(Chunk),
         NEW t \in [CounterNames -> Nat]
  PROVE  /\ ChunkRecord(c) \in WrittenRecord
         /\ DirectoryRecord(p) \in WrittenRecord
         /\ FileRecord(p, n, s) \in WrittenRecord
         /\ FooterRecord(t) \in WrittenRecord
         /\ Header \in WrittenRecord /\ Torn \in WrittenRecord
<1>1. ChunkRecord(c) \in ChunkRecordType
  BY ChunkAssumption, BoundAssumption DEF ChunkRecord, ChunkRecordType
<1>2. DirectoryRecord(p) \in DirectoryRecordType
  BY DEF DirectoryRecord, DirectoryRecordType
<1>3. FileRecord(p, n, s) \in FileRecordType
  BY DEF FileRecord, FileRecordType, Path
<1>4. FooterRecord(t) \in FooterType
  BY DEF FooterRecord, FooterType
<1> QED BY <1>1, <1>2, <1>3, <1>4 DEF WrittenRecord

\* checked_add keeps the counters within their ceiling and stops the run
\* otherwise.
LEMMA CountTypes ==
  ASSUME stats \in [CounterNames -> 0..CounterMax],
         NEW new \in [CounterNames -> Nat],
         NEW next \in {"walk", "file"}, Count(new, next)
  PROVE  /\ stats' \in [CounterNames -> 0..CounterMax]
         /\ pc' \in {next, "failed"}
BY BoundAssumption DEF Count, Fits

\* Adding to a counter leaves a record of counters.
LEMMA AddTypes ==
  ASSUME NEW f \in [CounterNames -> Nat], NEW n \in CounterNames, NEW k \in Nat
  PROVE  Add(f, n, k) \in [CounterNames -> Nat]
BY DEF Add

\* What WalkDir delivers are paths: the root, or an entry of a directory.
LEMMA DeliverableTypes ==
  ASSUME dirs \subseteq Path
  PROVE  Deliverable \subseteq Path
<1>1. <<Root>> \in Path
  BY WalkAssumption DEF Path
<1>2. ASSUME NEW d \in dirs, NEW n \in Name
      PROVE  Append(d, n) \in Path
  BY <1>2 DEF Path
<1> SUFFICES ASSUME NEW p \in Deliverable PROVE p \in Path
  OBVIOUS
<1>3. p = <<Root>> \/ \E d \in dirs, n \in Name : p = Append(d, n)
  BY DEF Deliverable
<1> QED BY <1>1, <1>2, <1>3

\* The initial state has its types.
LEMMA InitTypes == Init => TypeOK
<1> SUFFICES ASSUME Init PROVE TypeOK
  OBVIOUS
<1>1. stats \in [CounterNames -> 0..CounterMax]
  BY BoundAssumption DEF Init, PackInit, ZeroStats
<1>2. file \in FileType
  BY DEF Init, PackInit, NoFile, FileType
<1> QED BY <1>1, <1>2 DEF Init, PackInit, TypeOK

\* Every step of the writer preserves the types.
LEMMA StepTypes == TypeOK /\ [PackNext]_vars => TypeOK'
<1> SUFFICES ASSUME TypeOK, [PackNext]_vars PROVE TypeOK'
  OBVIOUS
<1> USE DEF TypeOK
<1>0. /\ archive \in Seq(WrittenRecord)
      /\ ChunkLen \in [Chunk -> 1..MaxChunk] /\ MaxChunk \in Nat
      /\ stats \in [CounterNames -> Nat]
      /\ Header \in WrittenRecord /\ Torn \in WrittenRecord
  BY ChunkAssumption, BoundAssumption, RecordTypes DEF WrittenRecord
<1>a. ASSUME NEW rec \in WrittenRecord
      PROVE  Append(archive, rec) \in Seq(WrittenRecord)
  BY <1>0
<1>b. FooterRecord(stats) \in WrittenRecord
  BY <1>0 DEF FooterRecord, FooterType, WrittenRecord
<1>c. CounterNames = {"entries", "files", "directories", "unique_chunks", "chunk_references",
                      "original_bytes", "stored_bytes", "deduplicated_bytes"}
  BY DEF CounterNames
<1>p. Deliverable \subseteq Path
  BY DeliverableTypes
<1>1. CASE RefuseInput
  BY <1>1 DEF RefuseInput
<1>2. CASE WriteHeader
  BY <1>2, <1>0 DEF WriteHeader
<1>3. ASSUME NEW p \in Deliverable, WalkDirectory(p) PROVE TypeOK'
  <2>1. DirectoryRecord(p) \in WrittenRecord
    BY <1>p DEF WrittenRecord, DirectoryRecord, DirectoryRecordType
  <2>2. Add(Add(stats, "entries", 1), "directories", 1) \in [CounterNames -> Nat]
    BY <1>0, <1>c, AddTypes
  <2>3. stats' \in [CounterNames -> 0..CounterMax] /\ pc' \in {"walk", "failed"}
    BY <1>3, <2>2, CountTypes DEF WalkDirectory
  <2> QED BY <1>3, <1>a, <1>p, <2>1, <2>3 DEF WalkDirectory
<1>4. ASSUME NEW p \in Deliverable, OpenFile(p) PROVE TypeOK'
  <2>1. file' \in FileType
    BY <1>4, <1>p DEF OpenFile, FileType, Path
  <2> QED BY <1>4, <1>p, <2>1 DEF OpenFile, Path
<1>5. ASSUME NEW p \in Deliverable, RefuseEntry(p) PROVE TypeOK'
  BY <1>5, <1>p DEF RefuseEntry
<1>6. ASSUME NEW c \in Chunk
      PROVE  /\ ChunkLen[c] \in Nat
             /\ Referenced(c) \in FileType /\ Referenced(c).path = file.path
  <2>1. ChunkLen[c] \in Nat
    BY <1>6, <1>0
  <2> QED BY <1>6, <2>1 DEF Referenced, FileType
<1>7. ASSUME NEW c \in Chunk, ReferenceChunk(c) PROVE TypeOK'
  <2>1. Add(Add(stats, "chunk_references", 1), "deduplicated_bytes", ChunkLen[c])
          \in [CounterNames -> Nat]
    BY <1>0, <1>c, <1>6, AddTypes
  <2>2. stats' \in [CounterNames -> 0..CounterMax] /\ pc' \in {"file", "failed"}
    BY <1>7, <2>1, CountTypes DEF ReferenceChunk
  <2> QED BY <1>7, <1>6, <2>2 DEF ReferenceChunk
<1>8. ASSUME NEW c \in Chunk, WriteChunk(c) PROVE TypeOK'
  <2>1. ChunkRecord(c) \in ChunkRecordType
    BY ChunkAssumption, BoundAssumption DEF ChunkRecord, ChunkRecordType
  <2>2. ChunkRecord(c) \in WrittenRecord /\ ChunkRecord(c).payload \in Nat
    BY <2>1 DEF WrittenRecord, ChunkRecordType
  <2>3. Add(Add(Add(stats, "chunk_references", 1), "unique_chunks", 1),
            "stored_bytes", ChunkRecord(c).payload) \in [CounterNames -> Nat]
    BY <1>0, <1>c, <2>2, AddTypes
  <2>4. stats' \in [CounterNames -> 0..CounterMax] /\ pc' \in {"file", "failed"}
    BY <1>8, <2>3, CountTypes DEF WriteChunk
  <2> QED BY <1>8, <1>a, <1>6, <2>2, <2>4 DEF WriteChunk
<1>9. CASE CloseFile
  <2>1. FileRecord(file.path, file.size, file.refs) \in WrittenRecord
    BY <1>9 DEF CloseFile, FileRecord, FileRecordType, FileType, Path, WrittenRecord
  <2>2. Add(Add(Add(stats, "entries", 1), "files", 1), "original_bytes", file.size)
          \in [CounterNames -> Nat]
    <3>1. file.size \in Nat
      BY DEF FileType
    <3> QED BY <1>0, <1>c, <3>1, AddTypes
  <2>3. stats' \in [CounterNames -> 0..CounterMax] /\ pc' \in {"walk", "failed"}
    BY <1>9, <2>2, CountTypes DEF CloseFile
  <2>4. file' \in FileType
    BY <1>9 DEF CloseFile, NoFile, FileType
  <2> QED BY <1>9, <1>a, <2>1, <2>3, <2>4 DEF CloseFile
<1>10. CASE FileTooLarge
  BY <1>10 DEF FileTooLarge
<1>11. CASE WriteFooter
  BY <1>11, <1>a, <1>b DEF WriteFooter
<1>12. CASE IoError
  BY <1>12, <1>0, <1>a, <1>b DEF IoError
<1>13. CASE UNCHANGED vars
  BY <1>13 DEF vars, packVars
<1> QED
  BY <1>1, <1>2, <1>3, <1>4, <1>5, <1>7, <1>8, <1>9, <1>10, <1>11, <1>12, <1>13 DEF PackNext

\* Type correctness: for every tree and every value of the constants.
THEOREM TypeCorrect == Spec => []TypeOK
<1> QED BY InitTypes, StepTypes, PTL DEF Spec

-----------------------------------------------------------------------------
(* Structure.  ReferencesResolve, ChunksOnce and NothingOrphaned are not     *)
(* inductive alone: they hold because seen_chunks is exactly the set of the  *)
(* chunks written so far, and the file in progress only names such chunks.   *)

SeenIsWritten ==
  \A c \in Chunk :
    c \in seen <=> \E i \in Tagged("CHNK", Len(archive)) : archive[i].hash = c
InProgressSeen ==
  /\ Range(file.refs) \subseteq seen
  /\ pc # "file" => pc = "failed" \/ file.refs = <<>>
Structure ==
  /\ TypeOK
  /\ SeenIsWritten /\ InProgressSeen
  /\ ReferencesResolve /\ ChunksOnce /\ NothingOrphaned

\* Appending leaves the records before it where they were.
LEMMA AppendPositions ==
  ASSUME archive \in Seq(WrittenRecord), NEW rec, archive' = Append(archive, rec)
  PROVE  /\ Len(archive) \in Nat /\ Len(archive') = Len(archive) + 1
         /\ \A i \in 1..Len(archive) : archive'[i] = archive[i]
         /\ archive'[Len(archive) + 1] = rec
BY DEF WrittenRecord

\* What one more record does to the positions of a tag.
LEMMA AppendTagged ==
  ASSUME archive \in Seq(WrittenRecord), NEW rec, archive' = Append(archive, rec),
         NEW t
  PROVE  /\ \A n \in 0..Len(archive) : Tagged(t, n)' = Tagged(t, n)
         /\ Tagged(t, Len(archive))' =
              IF rec.tag = t THEN Tagged(t, Len(archive)) \union {Len(archive) + 1}
                             ELSE Tagged(t, Len(archive))
<1>1. /\ Len(archive) \in Nat /\ Len(archive') = Len(archive) + 1
      /\ \A i \in 1..Len(archive) : archive'[i] = archive[i]
      /\ archive'[Len(archive) + 1] = rec
  BY AppendPositions
<1>2. \A n \in 0..Len(archive) : {i \in 1..n : archive'[i].tag = t} = {i \in 1..n : archive[i].tag = t}
  BY <1>1
<1>3. {i \in 1..Len(archive) + 1 : archive'[i].tag = t} =
        IF rec.tag = t THEN {i \in 1..Len(archive) : archive[i].tag = t} \union {Len(archive) + 1}
                       ELSE {i \in 1..Len(archive) : archive[i].tag = t}
  BY <1>1
<1> QED BY <1>1, <1>2, <1>3 DEF Tagged

\* The references of one FILE record resolve.
Resolves(i) ==
  \A k \in DOMAIN archive[i].refs :
    \E j \in Tagged("CHNK", i - 1) : archive[j].hash = archive[i].refs[k]

\* The references of the records already there still resolve.
LEMMA ResolvedStays ==
  ASSUME archive \in Seq(WrittenRecord), NEW rec, archive' = Append(archive, rec),
         NEW i \in 1..Len(archive), Resolves(i)
  PROVE  Resolves(i)'
<1>1. /\ Len(archive) \in Nat
      /\ \A j \in 1..Len(archive) : archive'[j] = archive[j]
  BY AppendPositions
<1>2. i - 1 \in 0..Len(archive) /\ Tagged("CHNK", i - 1) \subseteq 1..Len(archive)
  BY <1>1 DEF Tagged
<1>3. Tagged("CHNK", i - 1)' = Tagged("CHNK", i - 1)
  BY <1>2, AppendTagged
<1> QED BY <1>1, <1>2, <1>3 DEF Resolves

\* Appending adds one element to the range of a sequence.
LEMMA RangeOfAppend ==
  ASSUME NEW S, NEW s \in Seq(S), NEW c
  PROVE  Range(Append(s, c)) = Range(s) \union {c}
<1>1. /\ Len(s) \in Nat /\ DOMAIN s = 1..Len(s)
      /\ DOMAIN Append(s, c) = 1..Len(s) + 1
      /\ \A i \in 1..Len(s) : Append(s, c)[i] = s[i]
      /\ Append(s, c)[Len(s) + 1] = c
  OBVIOUS
<1> QED BY <1>1 DEF Range

\* A record that is neither a chunk nor a file disturbs none of it.
LEMMA OtherRecord ==
  ASSUME Structure, TypeOK', NEW rec, rec.tag \notin {"CHNK", "FILE"},
         archive' = Append(archive, rec), UNCHANGED <<file, seen>>,
         InProgressSeen'
  PROVE  Structure'
<1> USE DEF Structure, TypeOK
<1>1. /\ Len(archive) \in Nat
      /\ \A i \in 1..Len(archive) : archive'[i] = archive[i]
  BY AppendPositions
<1>2. /\ Tagged("CHNK", Len(archive))' = Tagged("CHNK", Len(archive))
      /\ Tagged("FILE", Len(archive))' = Tagged("FILE", Len(archive))
      /\ \A n \in 0..Len(archive) : Tagged("CHNK", n)' = Tagged("CHNK", n)
  BY AppendTagged
<1>3. /\ Tagged("CHNK", Len(archive)) \subseteq 1..Len(archive)
      /\ Tagged("FILE", Len(archive)) \subseteq 1..Len(archive)
      /\ \A n \in 0..Len(archive) : Tagged("CHNK", n) \subseteq 1..Len(archive)
  BY <1>1 DEF Tagged
<1>4. SeenIsWritten'
  BY <1>1, <1>2, <1>3 DEF SeenIsWritten
<1>5. ReferencesResolve'
  BY <1>1, <1>2, <1>3 DEF ReferencesResolve
<1>6. ChunksOnce'
  BY <1>1, <1>2, <1>3 DEF ChunksOnce
<1>7. NothingOrphaned'
  BY <1>1, <1>2, <1>3 DEF NothingOrphaned
<1> QED BY <1>4, <1>5, <1>6, <1>7

\* A new chunk: it was not in the archive, and the file in progress names it.
LEMMA ChunkWritten ==
  ASSUME Structure, TypeOK', NEW c \in Chunk, WriteChunk(c)
  PROVE  Structure'
<1> USE DEF Structure, TypeOK
<1> DEFINE rec == ChunkRecord(c)
<1>0. /\ rec.tag = "CHNK" /\ rec.hash = c /\ c \notin seen
      /\ archive' = Append(archive, rec)
      /\ seen' = seen \union {c}
      /\ file'.refs = Append(file.refs, c)
      /\ pc' \in {"file", "failed"}
      /\ file.refs \in Seq(Chunk)
  BY DEF WriteChunk, ChunkRecord, Referenced, Count, FileType
<1> HIDE DEF rec
<1>1. /\ Len(archive) \in Nat
      /\ \A i \in 1..Len(archive) : archive'[i] = archive[i]
      /\ archive'[Len(archive) + 1] = rec
  BY <1>0, AppendPositions
<1>2. /\ Tagged("CHNK", Len(archive))' = Tagged("CHNK", Len(archive)) \union {Len(archive) + 1}
      /\ Tagged("FILE", Len(archive))' = Tagged("FILE", Len(archive))
      /\ \A n \in 0..Len(archive) : Tagged("CHNK", n)' = Tagged("CHNK", n)
  BY <1>0, AppendTagged
<1>3. /\ Tagged("CHNK", Len(archive)) \subseteq 1..Len(archive)
      /\ Tagged("FILE", Len(archive)) \subseteq 1..Len(archive)
      /\ \A n \in 0..Len(archive) : Tagged("CHNK", n) \subseteq 1..Len(archive)
  BY <1>1 DEF Tagged
<1>4. Range(file'.refs) = Range(file.refs) \union {c}
  BY <1>0, RangeOfAppend
<1>5. SeenIsWritten'
  BY <1>0, <1>1, <1>2, <1>3 DEF SeenIsWritten
<1>6. InProgressSeen'
  BY <1>0, <1>4 DEF InProgressSeen
<1>7. ReferencesResolve'
  <2>1. \A i \in Tagged("FILE", Len(archive)) : Resolves(i)'
    BY <1>0, <1>3, ResolvedStays DEF ReferencesResolve, Resolves
  <2> QED BY <1>2, <2>1 DEF ReferencesResolve, Resolves
<1>8. \A i \in Tagged("CHNK", Len(archive)) : archive[i].hash # c
  BY <1>0 DEF SeenIsWritten
<1>9. ChunksOnce'
  BY <1>0, <1>1, <1>2, <1>3, <1>8 DEF ChunksOnce
<1>10. NothingOrphaned'
  BY <1>0, <1>1, <1>2, <1>3, <1>4 DEF NothingOrphaned
<1> QED BY <1>5, <1>6, <1>7, <1>9, <1>10

\* The FILE record takes over the chunks of the file in progress.
LEMMA FileClosed ==
  ASSUME Structure, TypeOK', CloseFile
  PROVE  Structure'
<1> USE DEF Structure, TypeOK
<1> DEFINE rec == FileRecord(file.path, file.size, file.refs)
<1>0. /\ rec.tag = "FILE" /\ rec.refs = file.refs
      /\ archive' = Append(archive, rec)
      /\ seen' = seen /\ file'.refs = <<>>
      /\ file.refs \in Seq(Chunk)
  BY DEF CloseFile, FileRecord, NoFile, FileType
<1> HIDE DEF rec
<1>1. /\ Len(archive) \in Nat
      /\ \A i \in 1..Len(archive) : archive'[i] = archive[i]
      /\ archive'[Len(archive) + 1] = rec
  BY <1>0, AppendPositions
<1>2. /\ Tagged("CHNK", Len(archive))' = Tagged("CHNK", Len(archive))
      /\ Tagged("FILE", Len(archive))' = Tagged("FILE", Len(archive)) \union {Len(archive) + 1}
      /\ \A n \in 0..Len(archive) : Tagged("CHNK", n)' = Tagged("CHNK", n)
  BY <1>0, AppendTagged
<1>3. /\ Tagged("CHNK", Len(archive)) \subseteq 1..Len(archive)
      /\ Tagged("FILE", Len(archive)) \subseteq 1..Len(archive)
      /\ \A n \in 0..Len(archive) : Tagged("CHNK", n) \subseteq 1..Len(archive)
  BY <1>1 DEF Tagged
<1>4. SeenIsWritten'
  BY <1>0, <1>1, <1>2, <1>3 DEF SeenIsWritten
<1>5. InProgressSeen'
  BY <1>0 DEF InProgressSeen, Range
<1>6. ASSUME NEW k \in DOMAIN file.refs
      PROVE  \E j \in Tagged("CHNK", Len(archive)) : archive[j].hash = file.refs[k]
  <2>1. file.refs[k] \in seen /\ file.refs[k] \in Chunk
    BY <1>0, <1>6 DEF InProgressSeen, Range
  <2> QED BY <2>1 DEF SeenIsWritten
<1>7. ReferencesResolve'
  <2>1. \A i \in Tagged("FILE", Len(archive)) : Resolves(i)'
    BY <1>0, <1>3, ResolvedStays DEF ReferencesResolve, Resolves
  <2>2. PICK n \in Nat : n = Len(archive) + 1
    BY <1>1
  <2>3. Tagged("CHNK", n - 1)' = Tagged("CHNK", Len(archive)) /\ archive'[n] = rec
    BY <1>1, <1>2, <2>2
  <2>4. Resolves(n)'
    BY <1>0, <1>1, <1>3, <1>6, <2>3 DEF Resolves
  <2> QED BY <1>2, <2>1, <2>2, <2>4 DEF ReferencesResolve, Resolves
<1>8. ChunksOnce'
  BY <1>1, <1>2, <1>3 DEF ChunksOnce
<1>9. NothingOrphaned'
  BY <1>0, <1>1, <1>2, <1>3 DEF NothingOrphaned
<1> QED BY <1>4, <1>5, <1>7, <1>8, <1>9

\* Every step of the writer preserves the structure.
LEMMA StepStructure == Structure /\ [PackNext]_vars => Structure'
<1> SUFFICES ASSUME Structure, [PackNext]_vars PROVE Structure'
  OBVIOUS
<1>0. TypeOK'
  BY StepTypes DEF Structure
<1>a. /\ Header.tag = "RGX" /\ Torn.tag = "torn"
      /\ \A p : DirectoryRecord(p).tag = "DIRE"
      /\ \A s : FooterRecord(s).tag = "RGXF"
  BY DEF Header, Torn, DirectoryRecord, FooterRecord
\* Steps that leave the archive, seen_chunks and the references alone.
<1>b. ASSUME UNCHANGED <<archive, seen>>, Range(file.refs) \subseteq Range(file'.refs), InProgressSeen'
      PROVE  Structure'
  <2>1. \A t, n : Tagged(t, n)' = Tagged(t, n)
    BY <1>b DEF Tagged
  <2>2. SeenIsWritten'
    BY <1>b, <2>1 DEF Structure, SeenIsWritten
  <2>3. ReferencesResolve'
    BY <1>b, <2>1 DEF Structure, ReferencesResolve
  <2>4. ChunksOnce' /\ NothingOrphaned'
    BY <1>b, <2>1 DEF Structure, ChunksOnce, NothingOrphaned
  <2> QED BY <1>0, <1>b, <2>2, <2>3, <2>4 DEF Structure
<1>1. CASE RefuseInput
  BY <1>1, <1>b DEF RefuseInput, Structure, InProgressSeen
<1>2. CASE WriteHeader
  <2>1. InProgressSeen'
    BY <1>2 DEF WriteHeader, Structure, InProgressSeen
  <2> QED BY <1>2, <2>1, <1>0, <1>a, OtherRecord DEF WriteHeader
<1>3. ASSUME NEW p \in Deliverable, WalkDirectory(p) PROVE Structure'
  <2>1. InProgressSeen'
    BY <1>3 DEF WalkDirectory, Count, Structure, InProgressSeen
  <2> QED BY <1>3, <2>1, <1>0, <1>a, OtherRecord DEF WalkDirectory
<1>4. ASSUME NEW p \in Deliverable, OpenFile(p) PROVE Structure'
  <2>1. file'.refs = <<>> /\ file.refs = <<>>
    BY <1>4 DEF OpenFile, Structure, InProgressSeen
  <2>2. InProgressSeen'
    BY <1>4, <2>1 DEF OpenFile, Structure, InProgressSeen, Range
  <2> QED BY <1>4, <2>1, <2>2, <1>b DEF OpenFile
<1>5. ASSUME NEW p \in Deliverable, RefuseEntry(p) PROVE Structure'
  BY <1>5, <1>b DEF RefuseEntry, Structure, InProgressSeen
<1>6. ASSUME NEW c \in Chunk, ReferenceChunk(c) PROVE Structure'
  <2>1. file.refs \in Seq(Chunk) /\ file'.refs = Append(file.refs, c) /\ c \in seen
    BY <1>6 DEF ReferenceChunk, Referenced, Structure, TypeOK, FileType
  <2>2. Range(file'.refs) = Range(file.refs) \union {c}
    BY <2>1, RangeOfAppend
  <2>3. InProgressSeen'
    BY <1>6, <2>1, <2>2 DEF ReferenceChunk, Count, Structure, InProgressSeen
  <2> QED BY <1>6, <2>2, <2>3, <1>b DEF ReferenceChunk
<1>7. ASSUME NEW c \in Chunk, WriteChunk(c) PROVE Structure'
  BY <1>7, <1>0, ChunkWritten
<1>8. CASE CloseFile
  BY <1>8, <1>0, FileClosed
<1>9. CASE FileTooLarge
  BY <1>9, <1>b DEF FileTooLarge, Structure, InProgressSeen
<1>10. CASE WriteFooter
  <2>1. InProgressSeen'
    BY <1>10 DEF WriteFooter, Structure, InProgressSeen
  <2> QED BY <1>10, <2>1, <1>0, <1>a, OtherRecord DEF WriteFooter
<1>11. CASE IoError
  <2>1. InProgressSeen'
    BY <1>11 DEF IoError, Structure, InProgressSeen
  <2>2. CASE archive' = archive
    BY <1>11, <2>1, <2>2, <1>b DEF IoError
  <2>3. CASE archive' = Append(archive, Torn)
    BY <1>11, <2>1, <2>3, <1>0, <1>a, OtherRecord DEF IoError
  <2>4. CASE archive' = Append(archive, FooterRecord(stats))
    BY <1>11, <2>1, <2>4, <1>0, <1>a, OtherRecord DEF IoError
  <2> QED BY <1>11, <2>2, <2>3, <2>4 DEF IoError
<1>12. CASE UNCHANGED vars
  BY <1>12, <1>b DEF vars, packVars, Structure, InProgressSeen
<1> QED
  BY <1>1, <1>2, <1>3, <1>4, <1>5, <1>6, <1>7, <1>8, <1>9, <1>10, <1>11, <1>12 DEF PackNext

\* The structure holds of the empty archive.
LEMMA InitStructure == Init => Structure
<1> SUFFICES ASSUME Init PROVE Structure
  OBVIOUS
<1>1. archive = <<>> /\ seen = {} /\ file.refs = <<>> /\ pc = "start"
  BY DEF Init, PackInit, NoFile
<1>2. \A t : Tagged(t, Len(archive)) = {}
  BY <1>1 DEF Tagged
<1> QED
  BY <1>1, <1>2, InitTypes
  DEF Structure, SeenIsWritten, InProgressSeen, ReferencesResolve, ChunksOnce,
      NothingOrphaned, Range

\* The structure holds at every point of the writing.
LEMMA StructureHolds == Spec => []Structure
<1> QED BY InitStructure, StepStructure, PTL DEF Spec

\* Every chunk reference pack writes resolves to an earlier CHNK record.
THEOREM ReferencesAlwaysResolve == Spec => []ReferencesResolve
<1>1. Structure => ReferencesResolve
  BY DEF Structure
<1> QED BY <1>1, StructureHolds, PTL

\* No chunk is ever written twice.
THEOREM ChunksNeverRepeat == Spec => []ChunksOnce
<1>1. Structure => ChunksOnce
  BY DEF Structure
<1> QED BY <1>1, StructureHolds, PTL

\* No chunk is ever written that no file uses.
THEOREM ChunksNeverOrphaned == Spec => []NothingOrphaned
<1>1. Structure => NothingOrphaned
  BY DEF Structure
<1> QED BY <1>1, StructureHolds, PTL

\* The chunks written are exactly those needed, each once and in time.
THEOREM ChunksAlwaysMatchReferences == Spec => []ChunksMatchReferences
<1>1. ReferencesResolve /\ ChunksOnce /\ NothingOrphaned => ChunksMatchReferences
  BY DEF ChunksMatchReferences
<1> QED
  BY <1>1, ReferencesAlwaysResolve, ChunksNeverRepeat, ChunksNeverOrphaned, PTL

-----------------------------------------------------------------------------
(* Induction                                                                 *)

\* A set of naturals that is not empty has a least member.
LEMMA LeastElement ==
  ASSUME NEW T, T \subseteq Nat, T # {}
  PROVE  \E x \in T : \A y \in T : x <= y
<1>1. PICK x \in T : \A y \in T : ~ (<<y, x>> \in OpToRel(<, Nat))
  BY NatLessThanWellFounded, WFMin
<1>2. ASSUME NEW y \in T PROVE x <= y
  <2>1. ~ (<<y, x>> \in OpToRel(<, Nat))
    BY <1>1
  <2>2. x \in Nat /\ y \in Nat
    OBVIOUS
  <2>3. ~(y < x)
    BY <2>1, <2>2 DEF OpToRel
  <2> QED
    BY <2>2, <2>3
<1> QED
  BY <1>2

\* Induction, over a set of naturals.
LEMMA SetInduction ==
  ASSUME NEW S, S \subseteq Nat, 0 \in S, \A n \in S : n + 1 \in S
  PROVE  S = Nat
<1>1. SUFFICES ASSUME Nat \ S # {} PROVE FALSE
  OBVIOUS
<1>2. PICK x \in Nat \ S : \A y \in Nat \ S : x <= y
  BY <1>1, LeastElement
<1>3. x # 0 /\ x - 1 \in Nat
  BY <1>2
<1>4. x - 1 \in S
  BY <1>2, <1>3
<1> QED
  BY <1>2, <1>3, <1>4

-----------------------------------------------------------------------------
(* Sums.  SumFunction folds over a set it takes apart member by member.      *)

Pick(s) == CHOOSE x \in s : TRUE

\* The function that the fold defines by recursion.
IsFold(g, f) ==
  g = [s \in SUBSET (DOMAIN f) |-> IF s = {} THEN 0 ELSE f[Pick(s)] + g[s \ {Pick(s)}]]

\* SumFunction chooses it.
LEMMA SumChoice ==
  ASSUME NEW f, NEW g, IsFold(g, f)
  PROVE  \E h : IsFold(h, f) /\ SumFunction(f) = h[DOMAIN f]
<1> DEFINE h == CHOOSE x : IsFold(x, f)
<1>1. IsFold(h, f)
  OBVIOUS
<1>2. SumFunction(f) = h[DOMAIN f]
  BY DEF SumFunction, SumFunctionOnSet, FoldFunctionOnSet, MapThenFoldSet, IsFold, Pick
<1> QED
  BY <1>1, <1>2

\* What is left of a finite set has one member less.
LEMMA Smaller ==
  ASSUME NEW D, IsFiniteSet(D), NEW s \in SUBSET D, NEW x \in s
  PROVE  /\ IsFiniteSet(s) /\ Cardinality(s) \in Nat \ {0}
         /\ s \ {x} \in SUBSET D /\ Cardinality(s \ {x}) = Cardinality(s) - 1
<1>1. IsFiniteSet(s)
  BY FS_Subset
<1>2. Cardinality(s) \in Nat /\ (Cardinality(s) = 0 <=> s = {})
  BY <1>1, FS_CardinalityType, FS_EmptySet
<1>3. Cardinality(s \ {x}) = Cardinality(s) - 1
  BY <1>1, FS_RemoveElement
<1> QED
  BY <1>1, <1>2, <1>3

LEMMA FoldExists ==
  ASSUME NEW f, IsFiniteSet(DOMAIN f)
  PROVE  \E g : IsFold(g, f)
<1> DEFINE D == DOMAIN f
           Upto(m) == {s \in SUBSET D : Cardinality(s) <= m}
           Folds(g, m) == g = [s \in Upto(m) |-> IF s = {} THEN 0 ELSE f[Pick(s)] + g[s \ {Pick(s)}]]
           S == {m \in Nat : \E g : Folds(g, m)}
<1>0. \A s \in SUBSET D : Cardinality(s) \in Nat /\ (Cardinality(s) = 0 <=> s = {})
  BY FS_Subset, FS_CardinalityType, FS_EmptySet
<1>1. 0 \in S
  <2>1. Folds([s \in Upto(0) |-> 0], 0)
    BY <1>0
  <2> QED
    BY <2>1
<1>2. ASSUME NEW m \in S PROVE m + 1 \in S
  <2>1. PICK g : Folds(g, m)
    OBVIOUS
  <2> DEFINE Value(s) == IF s = {} THEN 0 ELSE f[Pick(s)] + g[s \ {Pick(s)}]
             h == [s \in Upto(m + 1) |-> Value(s)]
  <2>2. ASSUME NEW s \in Upto(m) PROVE g[s] = Value(s)
    <3> DEFINE F == [t \in Upto(m) |-> Value(t)]
    <3>1. g = F /\ F[s] = Value(s)
      BY <2>1
    <3> QED
      BY <3>1
  <2>3. ASSUME NEW s \in Upto(m + 1), s # {} PROVE g[s \ {Pick(s)}] = h[s \ {Pick(s)}]
    <3>1. Pick(s) \in s
      BY <2>3 DEF Pick
    <3>2. Cardinality(s \ {Pick(s)}) = Cardinality(s) - 1 /\ s \ {Pick(s)} \in SUBSET D
      BY <3>1, Smaller
    <3>3. s \ {Pick(s)} \in Upto(m) /\ s \ {Pick(s)} \in Upto(m + 1)
      BY <1>0, <3>2
    <3> HIDE DEF Value, Upto
    <3>4. h[s \ {Pick(s)}] = Value(s \ {Pick(s)})
      BY <3>3
    <3> QED
      BY <2>2, <3>3, <3>4
  <2>4. h = [s \in Upto(m + 1) |-> IF s = {} THEN 0 ELSE f[Pick(s)] + h[s \ {Pick(s)}]]
    <3> HIDE DEF Upto
    <3>1. ASSUME NEW s \in Upto(m + 1)
          PROVE  Value(s) = IF s = {} THEN 0 ELSE f[Pick(s)] + h[s \ {Pick(s)}]
      <4> HIDE DEF h
      <4> QED
        BY <2>3
    <3> HIDE DEF Value
    <3> QED
      BY <3>1
  <2>5. Folds(h, m + 1)
    BY <2>4
  <2> HIDE DEF Folds, h
  <2>6. m + 1 \in Nat
    OBVIOUS
  <2> QED
    BY <2>5, <2>6
<1> HIDE DEF Folds
<1>3. S = Nat
  BY <1>1, <1>2, SetInduction
<1>4. Cardinality(D) \in Nat
  BY FS_CardinalityType
<1>5. PICK g : Folds(g, Cardinality(D))
  BY <1>3, <1>4
<1>6. Upto(Cardinality(D)) = SUBSET D
  BY FS_Subset
<1> QED
  BY <1>5, <1>6 DEF Folds, IsFold

\* A fold, taken apart: at any member.
LEMMA FoldStep ==
  ASSUME NEW D, IsFiniteSet(D), NEW f \in [D -> Nat], NEW h, IsFold(h, f)
  PROVE  /\ h[{}] = 0
         /\ \A s \in SUBSET D : h[s] \in Nat /\ \A x \in s : h[s] = f[x] + h[s \ {x}]
<1> DEFINE Good(s) == h[s] \in Nat /\ \A x \in s : h[s] = f[x] + h[s \ {x}]
           S == {m \in Nat : \A s \in SUBSET D : Cardinality(s) <= m => Good(s)}
<1>0. \A s \in SUBSET D : h[s] = IF s = {} THEN 0 ELSE f[Pick(s)] + h[s \ {Pick(s)}]
  <2> DEFINE F == [s \in SUBSET D |-> IF s = {} THEN 0 ELSE f[Pick(s)] + h[s \ {Pick(s)}]]
  <2>1. h = F
    BY DEF IsFold
  <2>2. \A s \in SUBSET D : F[s] = IF s = {} THEN 0 ELSE f[Pick(s)] + h[s \ {Pick(s)}]
    OBVIOUS
  <2> HIDE DEF F
  <2> QED
    BY <2>1, <2>2
<1>1. h[{}] = 0
  BY <1>0
<1>2. 0 \in S
  <2>1. ASSUME NEW s \in SUBSET D, Cardinality(s) <= 0 PROVE s = {}
    BY <2>1, FS_Subset, FS_CardinalityType, FS_EmptySet
  <2> QED
    BY <1>1, <2>1
<1>3. ASSUME NEW m \in S PROVE m + 1 \in S
  <2>0. m + 1 \in Nat /\ Good({})
    BY <1>1
  <2> HIDE DEF Good
  <2> SUFFICES ASSUME NEW s \in SUBSET D, Cardinality(s) <= m + 1, s # {} PROVE Good(s)
    BY <2>0
  <2> USE DEF Good
  <2> DEFINE c == Pick(s)
  <2>1. c \in s
    BY DEF Pick
  <2>2. h[s] = f[c] + h[s \ {c}]
    BY <1>0
  <2> HIDE DEF c
  <2>3. ASSUME NEW x \in s PROVE /\ s \ {x} \in SUBSET D /\ Good(s \ {x})
    BY Smaller
  <2>4. h[s] \in Nat
    BY <2>1, <2>2, <2>3
  <2>5. ASSUME NEW x \in s, x # c PROVE h[s] = f[x] + h[s \ {x}]
    <3>1. h[s \ {c}] = f[x] + h[(s \ {c}) \ {x}]
      BY <2>1, <2>3, <2>5
    <3>2. h[s \ {x}] = f[c] + h[(s \ {x}) \ {c}]
      BY <2>1, <2>3, <2>5
    <3>3. (s \ {c}) \ {x} = (s \ {x}) \ {c}
      OBVIOUS
    <3>4. h[(s \ {x}) \ {c}] \in Nat
      <4>1. c \in s \ {x}
        BY <2>1, <2>5
      <4>2. (s \ {x}) \ {c} \in SUBSET D /\ Cardinality((s \ {x}) \ {c}) <= m
        <5>1. /\ s \ {x} \in SUBSET D /\ Cardinality(s \ {x}) = Cardinality(s) - 1
              /\ Cardinality(s) \in Nat
          BY Smaller
        <5>2. Cardinality((s \ {x}) \ {c}) = Cardinality(s \ {x}) - 1
          BY <4>1, <5>1, Smaller
        <5> QED
          BY <5>1, <5>2
      <4> QED
        BY <4>2
    <3>5. f[x] \in Nat /\ f[c] \in Nat
      BY <2>1
    <3>6. PICK z \in Nat : z = h[(s \ {x}) \ {c}]
      BY <3>4
    <3>7. h[s] = f[c] + (f[x] + z) /\ h[s \ {x}] = f[c] + z
      BY <2>2, <3>1, <3>2, <3>3, <3>6
    <3>8. f[c] + (f[x] + z) = f[x] + (f[c] + z)
      BY <3>5
    <3> QED
      BY <3>7, <3>8
  <2> QED
    BY <2>2, <2>4, <2>5
<1> HIDE DEF Good
<1>4. S = Nat
  BY <1>2, <1>3, SetInduction
<1>5. \A s \in SUBSET D : Good(s)
  BY <1>4, FS_Subset, FS_CardinalityType
<1> QED
  BY <1>1, <1>5 DEF Good

\* Folds of functions that agree on a set agree on its subsets.
LEMMA FoldAgree ==
  ASSUME NEW D, IsFiniteSet(D), NEW f \in [D -> Nat], NEW h, IsFold(h, f),
         NEW T \in SUBSET D, NEW g \in [T -> Nat], NEW k, IsFold(k, g), \A x \in T : f[x] = g[x]
  PROVE  h[T] = k[T]
<1>0. IsFiniteSet(T)
  BY FS_Subset
<1>1. /\ h[{}] = 0
      /\ \A s \in SUBSET D : h[s] \in Nat /\ \A x \in s : h[s] = f[x] + h[s \ {x}]
  BY FoldStep
<1>2. /\ k[{}] = 0
      /\ \A s \in SUBSET T : k[s] \in Nat /\ \A x \in s : k[s] = g[x] + k[s \ {x}]
  <2> QED
    BY ONLY <1>0, IsFold(k, g), g \in [T -> Nat], FoldStep
<1> DEFINE S == {m \in Nat : \A s \in SUBSET T : Cardinality(s) <= m => h[s] = k[s]}
<1>3. 0 \in S
  <2>1. ASSUME NEW s \in SUBSET T, Cardinality(s) <= 0 PROVE s = {}
    BY <1>0, <2>1, FS_Subset, FS_CardinalityType, FS_EmptySet
  <2> QED
    BY <1>1, <1>2, <2>1
<1>4. ASSUME NEW m \in S PROVE m + 1 \in S
  <2>0. m + 1 \in Nat /\ h[{}] = k[{}]
    BY <1>1, <1>2
  <2> SUFFICES ASSUME NEW s \in SUBSET T, Cardinality(s) <= m + 1, s # {} PROVE h[s] = k[s]
    BY <2>0
  <2>1. PICK x : x \in s
    OBVIOUS
  <2>2. s \ {x} \in SUBSET T /\ Cardinality(s \ {x}) = Cardinality(s) - 1 /\ Cardinality(s) \in Nat
    BY <1>0, <2>1, Smaller
  <2>3. h[s \ {x}] = k[s \ {x}]
    BY <2>2
  <2> QED
    BY <1>1, <1>2, <2>1, <2>3, ZenonT(60)
<1>5. S = Nat
  BY <1>3, <1>4, SetInduction
<1>6. Cardinality(T) \in Nat
  BY <1>0, FS_CardinalityType
<1> QED
  BY <1>5, <1>6

\* A sum, taken apart at any member.
LEMMA SumStep ==
  ASSUME NEW D, IsFiniteSet(D), NEW x \in D, NEW T, T = D \ {x},
         NEW f, f \in [D -> Nat], NEW g, g \in [T -> Nat], \A y \in T : g[y] = f[y]
  PROVE  SumFunction(f) = f[x] + SumFunction(g) /\ SumFunction(f) \in Nat /\ SumFunction(g) \in Nat
<1>0. DOMAIN f = D /\ DOMAIN g = D \ {x} /\ IsFiniteSet(D \ {x})
  BY FS_RemoveElement
<1>1. PICK h : IsFold(h, f) /\ SumFunction(f) = h[D]
  BY <1>0, FoldExists, SumChoice
<1>2. PICK k : IsFold(k, g) /\ SumFunction(g) = k[D \ {x}]
  BY <1>0, FoldExists, SumChoice
<1>3. h[D] \in Nat /\ h[D] = f[x] + h[D \ {x}] /\ h[D \ {x}] \in Nat
  <2>1. \A s \in SUBSET D : h[s] \in Nat /\ \A y \in s : h[s] = f[y] + h[s \ {y}]
    BY ONLY <1>1, IsFiniteSet(D), f \in [D -> Nat], FoldStep
  <2>2. D \in SUBSET D /\ D \ {x} \in SUBSET D /\ x \in D
    OBVIOUS
  <2> QED
    BY ONLY <2>1, <2>2
<1>4. h[D \ {x}] = k[D \ {x}]
  BY <1>0, <1>1, <1>2, FoldAgree
<1> QED
  BY <1>1, <1>2, <1>3, <1>4

\* The sum over nothing.
LEMMA SumEmpty ==
  ASSUME NEW f, DOMAIN f = {}
  PROVE  SumFunction(f) = 0
<1>0. DOMAIN f = {} /\ IsFiniteSet({})
  BY FS_EmptySet
<1>1. PICK h : IsFold(h, f) /\ SumFunction(f) = h[{}]
  BY <1>0, FoldExists, SumChoice
<1>2. h[{}] = 0
  <2> DEFINE F == [s \in SUBSET (DOMAIN f) |-> IF s = {} THEN 0 ELSE f[Pick(s)] + h[s \ {Pick(s)}]]
  <2>1. F[{}] = 0 /\ h = F
    BY <1>1 DEF IsFold
  <2> QED
    BY <2>1
<1> QED
  BY <1>1, <1>2

\* A sum of naturals is one.
LEMMA SumType ==
  ASSUME NEW D, IsFiniteSet(D), NEW f, f \in [D -> Nat]
  PROVE  SumFunction(f) \in Nat
<1>1. PICK h : IsFold(h, f) /\ SumFunction(f) = h[D]
  BY FoldExists, SumChoice
<1> QED
  BY <1>1, FoldStep

\* One more summand.
LEMMA SumAdded ==
  ASSUME NEW D, IsFiniteSet(D), NEW x, x \notin D, NEW E, E = D \union {x},
         NEW f, f \in [E -> Nat], NEW g, g \in [D -> Nat], \A y \in D : f[y] = g[y]
  PROVE  SumFunction(f) = SumFunction(g) + f[x] /\ SumFunction(g) \in Nat /\ f[x] \in Nat
<1>1. IsFiniteSet(E) /\ x \in E /\ D = E \ {x} /\ f[x] \in Nat
  BY FS_AddElement
<1>2. SumFunction(f) = f[x] + SumFunction(g) /\ SumFunction(g) \in Nat
  BY <1>1, SumStep
<1> QED
  BY <1>1, <1>2

\* Fewer and smaller summands.
LEMMA SumMonotone ==
  ASSUME NEW D, IsFiniteSet(D), NEW f, f \in [D -> Nat],
         NEW T \in SUBSET D, NEW g, g \in [T -> Nat], \A y \in T : g[y] <= f[y]
  PROVE  SumFunction(g) <= SumFunction(f)
<1> DEFINE Below(U) == \A V \in SUBSET U : \A k \in [V -> Nat], h \in [U -> Nat] :
                         (\A y \in V : k[y] <= h[y]) => SumFunction(k) <= SumFunction(h)
           S == {m \in Nat : \A U \in SUBSET D : Cardinality(U) <= m => Below(U)}
<1>1. 0 \in S
  <2>1. ASSUME NEW U \in SUBSET D, Cardinality(U) <= 0 PROVE U = {}
    BY <2>1, FS_Subset, FS_CardinalityType, FS_EmptySet
  <2>2. Below({})
    <3> SUFFICES ASSUME NEW V \in SUBSET {}, NEW k \in [V -> Nat], NEW h \in [{} -> Nat]
                 PROVE  SumFunction(k) <= SumFunction(h)
      OBVIOUS
    <3>1. V = {}
      OBVIOUS
    <3>2. SumFunction(k) = 0 /\ SumFunction(h) = 0
      BY <3>1, SumEmpty
    <3> QED
      BY <3>2
  <2> HIDE DEF Below
  <2> QED
    BY <2>1, <2>2
<1>2. ASSUME NEW m \in S PROVE m + 1 \in S
  <2> SUFFICES ASSUME NEW U \in SUBSET D, Cardinality(U) <= m + 1 PROVE Below(U)
    OBVIOUS
  <2> SUFFICES ASSUME NEW V \in SUBSET U, NEW k \in [V -> Nat], NEW h \in [U -> Nat],
                      \A y \in V : k[y] <= h[y]
               PROVE  SumFunction(k) <= SumFunction(h)
    OBVIOUS
  <2>0. IsFiniteSet(U) /\ IsFiniteSet(V)
    BY FS_Subset
  <2>1. CASE U = {}
    <3>1. V = {}
      BY <2>1
    <3>2. SumFunction(k) = 0 /\ SumFunction(h) = 0
      BY <2>1, <3>1, SumEmpty
    <3> QED
      BY <3>2
  <2>2. CASE U # {}
    <3>1. PICK x : x \in U
      BY <2>2
    <3> DEFINE h1 == [y \in U \ {x} |-> h[y]]
    <3>2. U \ {x} \in SUBSET D /\ Cardinality(U \ {x}) <= m
      BY <3>1, Smaller
    <3>3. Below(U \ {x})
      BY <3>2
    <3>4. /\ SumFunction(h) = h[x] + SumFunction(h1) /\ SumFunction(h1) \in Nat
          /\ h1 \in [U \ {x} -> Nat] /\ h[x] \in Nat
      <4>1. h1 \in [U \ {x} -> Nat] /\ h[x] \in Nat /\ \A y \in U \ {x} : h1[y] = h[y]
        BY <3>1
      <4> HIDE DEF h1
      <4> QED
        BY <2>0, <3>1, <4>1, SumStep
    <3>5. CASE x \in V
      <4> DEFINE k1 == [y \in V \ {x} |-> k[y]]
      <4>0. k1 \in [V \ {x} -> Nat] /\ k[x] \in Nat /\ \A y \in V \ {x} : k1[y] = k[y]
        BY <3>5
      <4> HIDE DEF k1
      <4>1. /\ SumFunction(k) = k[x] + SumFunction(k1) /\ SumFunction(k1) \in Nat
            /\ k1 \in [V \ {x} -> Nat] /\ k[x] \in Nat
        BY <2>0, <3>5, <4>0, SumStep
      <4>2. V \ {x} \in SUBSET (U \ {x}) /\ \A y \in V \ {x} : k1[y] <= h1[y]
        BY <4>0
      <4> HIDE DEF h1
      <4>3. SumFunction(k1) <= SumFunction(h1)
        BY <3>3, <3>4, <4>1, <4>2
      <4> QED
        BY <3>4, <3>5, <4>1, <4>3
    <3>6. CASE x \notin V
      <4>1. V \in SUBSET (U \ {x}) /\ \A y \in V : k[y] <= h1[y]
        BY <3>6
      <4> HIDE DEF h1
      <4>2. SumFunction(k) <= SumFunction(h1) /\ SumFunction(k) \in Nat
        BY <2>0, <3>3, <3>4, <4>1, SumType
      <4> QED
        BY <3>4, <4>2
    <3> QED
      BY <3>5, <3>6
  <2> QED
    BY <2>1, <2>2
<1>3. S = Nat
  <2> HIDE DEF Below
  <2> QED
    BY <1>1, <1>2, SetInduction
<1>4. Cardinality(D) \in Nat
  BY FS_CardinalityType
<1>5. Below(D)
  <2> HIDE DEF Below
  <2> QED
    BY <1>3, <1>4
<1> QED
  BY <1>5

\* Summands of at least one.
LEMMA SumCounts ==
  ASSUME NEW D, IsFiniteSet(D), NEW f, f \in [D -> Nat], \A y \in D : f[y] >= 1
  PROVE  Cardinality(D) <= SumFunction(f)
<1> DEFINE Many(U) == \A k \in [U -> Nat] :
                        (\A y \in U : k[y] >= 1) => Cardinality(U) <= SumFunction(k)
           S == {m \in Nat : \A U \in SUBSET D : Cardinality(U) <= m => Many(U)}
<1>1. 0 \in S
  <2>1. ASSUME NEW U \in SUBSET D, Cardinality(U) <= 0 PROVE U = {}
    BY <2>1, FS_Subset, FS_CardinalityType, FS_EmptySet
  <2>2. Many({})
    <3> SUFFICES ASSUME NEW k \in [{} -> Nat] PROVE Cardinality({}) <= SumFunction(k)
      OBVIOUS
    <3>1. SumFunction(k) = 0 /\ Cardinality({}) = 0
      BY SumEmpty, FS_EmptySet
    <3> QED
      BY <3>1
  <2> HIDE DEF Many
  <2> QED
    BY <2>1, <2>2
<1>2. ASSUME NEW m \in S PROVE m + 1 \in S
  <2> SUFFICES ASSUME NEW U \in SUBSET D, Cardinality(U) <= m + 1 PROVE Many(U)
    OBVIOUS
  <2> SUFFICES ASSUME NEW k \in [U -> Nat], \A y \in U : k[y] >= 1
               PROVE  Cardinality(U) <= SumFunction(k)
    OBVIOUS
  <2>0. IsFiniteSet(U)
    BY FS_Subset
  <2>1. CASE U = {}
    <3>1. SumFunction(k) = 0 /\ Cardinality(U) = 0
      BY <2>1, SumEmpty, FS_EmptySet
    <3> QED
      BY <3>1
  <2>2. CASE U # {}
    <3>1. PICK x : x \in U
      BY <2>2
    <3> DEFINE k1 == [y \in U \ {x} |-> k[y]]
    <3>2. /\ U \ {x} \in SUBSET D /\ Cardinality(U \ {x}) = Cardinality(U) - 1
          /\ Cardinality(U) \in Nat \ {0}
      BY <3>1, Smaller
    <3>3. Many(U \ {x})
      BY <3>2
    <3>4. /\ SumFunction(k) = k[x] + SumFunction(k1) /\ SumFunction(k1) \in Nat
          /\ k1 \in [U \ {x} -> Nat] /\ k[x] \in Nat /\ k[x] >= 1
      BY <2>0, <3>1, SumStep
    <3>5. \A y \in U \ {x} : k1[y] >= 1
      OBVIOUS
    <3> HIDE DEF k1
    <3>6. Cardinality(U \ {x}) <= SumFunction(k1)
      BY <3>3, <3>4, <3>5
    <3> QED
      BY <3>2, <3>4, <3>6
  <2> QED
    BY <2>1, <2>2
<1>3. S = Nat
  <2> HIDE DEF Many
  <2> QED
    BY <1>1, <1>2, SetInduction
<1>4. Cardinality(D) \in Nat
  BY FS_CardinalityType
<1>5. Many(D)
  <2> HIDE DEF Many
  <2> QED
    BY <1>3, <1>4
<1> QED
  BY <1>5

-----------------------------------------------------------------------------
(* The ledger of bytes.  Between two files nothing is pending.               *)

Sizes == [i \in Tagged("CHNK", Len(archive)) |-> archive[i].size]
Payloads == [i \in Tagged("CHNK", Len(archive)) |-> archive[i].payload]

Ledger ==
  /\ TypeOK
  /\ pc \in {"start", "walk", "ok"} => file.size = 0
  /\ pc # "failed" =>
       /\ SumFunction(Sizes) + stats["deduplicated_bytes"] = stats["original_bytes"] + file.size
       /\ SumFunction(Payloads) = stats["stored_bytes"]

\* The chunk records of a typed archive have sizes and payloads to add up.
LEMMA ChunkFields ==
  ASSUME archive \in Seq(WrittenRecord)
  PROVE  /\ Len(archive) \in Nat /\ IsFiniteSet(Tagged("CHNK", Len(archive)))
         /\ Tagged("CHNK", Len(archive)) \subseteq 1..Len(archive)
         /\ Sizes \in [Tagged("CHNK", Len(archive)) -> Nat]
         /\ Payloads \in [Tagged("CHNK", Len(archive)) -> Nat]
<1>1. Len(archive) \in Nat
  OBVIOUS
<1>2. Tagged("CHNK", Len(archive)) \subseteq 1..Len(archive)
  BY DEF Tagged
<1>3. IsFiniteSet(Tagged("CHNK", Len(archive)))
  <2>1. PICK n \in Nat : n = Len(archive)
    BY <1>1
  <2>2. IsFiniteSet(1..n)
    BY FS_Interval
  <2> QED
    BY <1>2, <2>1, <2>2, FS_Subset
<1>4. ASSUME NEW i \in Tagged("CHNK", Len(archive))
      PROVE  archive[i].size \in Nat /\ archive[i].payload \in Nat
  <2>1. archive[i] \in WrittenRecord /\ archive[i].tag = "CHNK"
    BY <1>1 DEF Tagged
  <2>2. archive[i] \in ChunkRecordType
    BY <2>1 DEF WrittenRecord, Header, Torn, DirectoryRecordType, FileRecordType, FooterType
  <2> QED
    BY <2>2 DEF ChunkRecordType
<1> QED
  BY <1>1, <1>2, <1>3, <1>4 DEF Sizes, Payloads

\* A record that is not a chunk adds nothing to the chunks' bytes.
LEMMA OtherBytes ==
  ASSUME archive \in Seq(WrittenRecord), NEW rec, rec.tag # "CHNK",
         archive' = Append(archive, rec)
  PROVE  Sizes' = Sizes /\ Payloads' = Payloads
<1>1. Tagged("CHNK", Len(archive))' = Tagged("CHNK", Len(archive))
  BY AppendTagged
<1>2. \A i \in Tagged("CHNK", Len(archive)) : archive'[i] = archive[i]
  BY AppendPositions, ChunkFields
<1> QED
  BY <1>1, <1>2 DEF Sizes, Payloads

\* A chunk adds its own.
LEMMA ChunkBytes ==
  ASSUME archive \in Seq(WrittenRecord), archive' \in Seq(WrittenRecord), NEW c \in Chunk,
         archive' = Append(archive, ChunkRecord(c))
  PROVE  /\ SumFunction(Sizes') = SumFunction(Sizes) + ChunkLen[c]
         /\ SumFunction(Payloads') = SumFunction(Payloads) + ChunkRecord(c).payload
         /\ SumFunction(Sizes) \in Nat /\ SumFunction(Payloads) \in Nat
<1> DEFINE rec == ChunkRecord(c)
           D == Tagged("CHNK", Len(archive))
           E == Tagged("CHNK", Len(archive))'
<1>0. rec.tag = "CHNK" /\ rec.size = ChunkLen[c]
  BY DEF ChunkRecord
<1> HIDE DEF rec
<1>1. E = D \union {Len(archive) + 1}
  BY <1>0, AppendTagged DEF rec
<1>2. /\ \A i \in D : archive'[i] = archive[i]
      /\ archive'[Len(archive) + 1] = rec
      /\ Len(archive) + 1 \notin D
  BY AppendPositions, ChunkFields DEF rec
<1>3. /\ Sizes \in [D -> Nat] /\ Payloads \in [D -> Nat] /\ IsFiniteSet(D)
      /\ Sizes' \in [E -> Nat] /\ Payloads' \in [E -> Nat]
  <2>1. Sizes \in [D -> Nat] /\ Payloads \in [D -> Nat] /\ IsFiniteSet(D)
    BY ChunkFields
  <2>2. \A i \in E : archive'[i].size \in Nat /\ archive'[i].payload \in Nat
    <3>1. \A i \in D : Sizes[i] = archive[i].size /\ Payloads[i] = archive[i].payload
      BY DEF Sizes, Payloads
    <3>2. rec.size \in Nat /\ rec.payload \in Nat
      BY ChunkAssumption, BoundAssumption DEF rec, ChunkRecord
    <3>3. ASSUME NEW i \in D PROVE archive[i].size \in Nat /\ archive[i].payload \in Nat
      <4>1. Sizes[i] \in Nat /\ Payloads[i] \in Nat
        BY <2>1
      <4> QED
        BY <3>1, <4>1
    <3> QED
      BY <1>1, <1>2, <3>2, <3>3
  <2> QED
    BY <2>1, <2>2 DEF Sizes, Payloads
<1>4. /\ \A i \in D : Sizes'[i] = Sizes[i] /\ Payloads'[i] = Payloads[i]
      /\ Sizes'[Len(archive) + 1] = rec.size /\ Payloads'[Len(archive) + 1] = rec.payload
  BY <1>1, <1>2 DEF Sizes, Payloads
<1>5. PICK S, P, S1, P1, x, T, U :
        /\ S = Sizes /\ P = Payloads /\ S1 = Sizes' /\ P1 = Payloads'
        /\ x = Len(archive) + 1 /\ T = D /\ U = E
  OBVIOUS
<1> HIDE DEF D, E
<1>6. /\ U = T \union {x} /\ x \notin T /\ IsFiniteSet(T)
      /\ S1 \in [U -> Nat] /\ P1 \in [U -> Nat] /\ S \in [T -> Nat] /\ P \in [T -> Nat]
      /\ \A i \in T : S1[i] = S[i]
      /\ \A i \in T : P1[i] = P[i]
  BY <1>1, <1>2, <1>3, <1>4, <1>5
<1>7. SumFunction(S1) = SumFunction(S) + S1[x] /\ SumFunction(S) \in Nat
  BY ONLY <1>6, SumAdded
<1>8. SumFunction(P1) = SumFunction(P) + P1[x] /\ SumFunction(P) \in Nat
  BY ONLY <1>6, SumAdded
<1> QED
  BY <1>0, <1>4, <1>5, <1>7, <1>8 DEF rec

\* Nothing written, nothing owed.
LEMMA InitLedger == Init => Ledger
<1> SUFFICES ASSUME Init PROVE Ledger
  OBVIOUS
<1>1. archive = <<>> /\ file.size = 0 /\ \A n \in CounterNames : stats[n] = 0
  BY DEF Init, PackInit, NoFile, ZeroStats
<1>2. Tagged("CHNK", Len(archive)) = {}
  BY <1>1 DEF Tagged
<1>3. SumFunction(Sizes) = 0 /\ SumFunction(Payloads) = 0
  BY <1>2, SumEmpty DEF Sizes, Payloads
<1> QED
  BY <1>1, <1>3, InitTypes DEF Ledger, CounterNames

\* Every step enters what it writes, reuses or closes on both sides.
LEMMA StepLedger == Ledger /\ [PackNext]_vars => Ledger'
<1> SUFFICES ASSUME Ledger, [PackNext]_vars PROVE Ledger'
  OBVIOUS
<1>0. TypeOK /\ TypeOK'
  BY StepTypes DEF Ledger
<1>a. /\ archive \in Seq(WrittenRecord) /\ archive' \in Seq(WrittenRecord)
      /\ stats \in [CounterNames -> Nat] /\ file.size \in Nat
  BY <1>0, BoundAssumption DEF TypeOK, FileType
<1>b. /\ Header.tag # "CHNK" /\ Torn.tag # "CHNK"
      /\ \A p : DirectoryRecord(p).tag # "CHNK"
      /\ \A s : FooterRecord(s).tag # "CHNK"
      /\ \A p, n, s : FileRecord(p, n, s).tag # "CHNK"
  BY DEF Header, Torn, DirectoryRecord, FooterRecord, FileRecord
<1>c. ASSUME archive' = archive PROVE Sizes' = Sizes /\ Payloads' = Payloads
  BY <1>c DEF Sizes, Payloads, Tagged
<1>d. SumFunction(Sizes) \in Nat /\ SumFunction(Payloads) \in Nat
  BY <1>a, ChunkFields, SumType
<1>e. CounterNames = {"entries", "files", "directories", "unique_chunks", "chunk_references",
                      "original_bytes", "stored_bytes", "deduplicated_bytes"}
  BY DEF CounterNames
<1>1. CASE RefuseInput
  BY <1>0, <1>1 DEF RefuseInput, Ledger
<1>2. CASE WriteHeader
  BY <1>0, <1>a, <1>b, <1>2, OtherBytes DEF WriteHeader, Ledger
<1>3. ASSUME NEW p \in Deliverable, WalkDirectory(p) PROVE Ledger'
  <2>1. Sizes' = Sizes /\ Payloads' = Payloads
    BY <1>a, <1>b, <1>3, OtherBytes DEF WalkDirectory
  <2> QED
    BY <1>0, <1>a, <1>e, <1>3, <2>1 DEF WalkDirectory, Count, Add, Ledger
<1>4. ASSUME NEW p \in Deliverable, OpenFile(p) PROVE Ledger'
  BY <1>0, <1>c, <1>4 DEF OpenFile, Ledger
<1>5. ASSUME NEW p \in Deliverable, RefuseEntry(p) PROVE Ledger'
  BY <1>0, <1>5 DEF RefuseEntry, Ledger
<1>6. ASSUME NEW c \in Chunk, ReferenceChunk(c) PROVE Ledger'
  <2>1. ChunkLen[c] \in Nat
    BY ChunkAssumption, BoundAssumption
  <2>2. file'.size = file.size + ChunkLen[c] /\ pc = "file" /\ pc' \in {"file", "failed"}
    BY <1>6 DEF ReferenceChunk, Referenced, Count
  <2>3. pc' # "failed" =>
          /\ stats'["deduplicated_bytes"] = stats["deduplicated_bytes"] + ChunkLen[c]
          /\ stats'["original_bytes"] = stats["original_bytes"]
          /\ stats'["stored_bytes"] = stats["stored_bytes"]
    BY <1>a, <1>e, <1>6 DEF ReferenceChunk, Count, Add
  <2>4. Sizes' = Sizes /\ Payloads' = Payloads
    BY <1>c, <1>6 DEF ReferenceChunk
  <2>5. stats["deduplicated_bytes"] \in Nat /\ stats["original_bytes"] \in Nat
    BY <1>a, <1>e
  <2>6. /\ SumFunction(Sizes) + stats["deduplicated_bytes"] = stats["original_bytes"] + file.size
        /\ SumFunction(Payloads) = stats["stored_bytes"]
    BY <2>2 DEF Ledger
  <2>7. PICK s \in Nat, d \in Nat, o \in Nat, f \in Nat, k \in Nat :
          /\ s = SumFunction(Sizes) /\ d = stats["deduplicated_bytes"]
          /\ o = stats["original_bytes"] /\ f = file.size /\ k = ChunkLen[c]
    BY <1>a, <1>d, <2>1, <2>5
  <2>8. s + (d + k) = o + (f + k)
    <3>1. s + d = o + f
      BY <2>6, <2>7
    <3> QED
      BY <3>1
  <2>9. pc' # "failed" =>
          /\ SumFunction(Sizes') + stats'["deduplicated_bytes"]
               = stats'["original_bytes"] + file'.size
          /\ SumFunction(Payloads') = stats'["stored_bytes"]
    BY <2>2, <2>3, <2>4, <2>6, <2>7, <2>8
  <2> QED
    BY <1>0, <2>2, <2>9 DEF Ledger
<1>7. ASSUME NEW c \in Chunk, WriteChunk(c) PROVE Ledger'
  <2>1. ChunkLen[c] \in Nat /\ ChunkRecord(c).payload \in Nat
    BY ChunkAssumption, BoundAssumption DEF ChunkRecord
  <2>2. file'.size = file.size + ChunkLen[c] /\ pc = "file" /\ pc' \in {"file", "failed"}
    BY <1>7 DEF WriteChunk, Referenced, Count
  <2>3. pc' # "failed" =>
          /\ stats'["deduplicated_bytes"] = stats["deduplicated_bytes"]
          /\ stats'["original_bytes"] = stats["original_bytes"]
          /\ stats'["stored_bytes"] = stats["stored_bytes"] + ChunkRecord(c).payload
    BY <1>a, <1>e, <1>7 DEF WriteChunk, Count, Add
  <2>4. /\ SumFunction(Sizes') = SumFunction(Sizes) + ChunkLen[c]
        /\ SumFunction(Payloads') = SumFunction(Payloads) + ChunkRecord(c).payload
    BY <1>a, <1>7, ChunkBytes DEF WriteChunk
  <2>5. /\ stats["deduplicated_bytes"] \in Nat /\ stats["original_bytes"] \in Nat
        /\ stats["stored_bytes"] \in Nat
    BY <1>a, <1>e
  <2>6. /\ SumFunction(Sizes) + stats["deduplicated_bytes"] = stats["original_bytes"] + file.size
        /\ SumFunction(Payloads) = stats["stored_bytes"]
    BY <2>2 DEF Ledger
  <2>7. PICK s \in Nat, d \in Nat, o \in Nat, f \in Nat, k \in Nat :
          /\ s = SumFunction(Sizes) /\ d = stats["deduplicated_bytes"]
          /\ o = stats["original_bytes"] /\ f = file.size /\ k = ChunkLen[c]
    BY <1>a, <1>d, <2>1, <2>5
  <2>8. (s + k) + d = o + (f + k)
    BY <2>6, <2>7
  <2>9. pc' # "failed" =>
          /\ SumFunction(Sizes') + stats'["deduplicated_bytes"]
               = stats'["original_bytes"] + file'.size
          /\ SumFunction(Payloads') = stats'["stored_bytes"]
    BY <2>2, <2>3, <2>4, <2>6, <2>7, <2>8
  <2> QED
    BY <1>0, <2>2, <2>9 DEF Ledger
<1>8. CASE CloseFile
  <2>1. Sizes' = Sizes /\ Payloads' = Payloads
    BY <1>a, <1>b, <1>8, OtherBytes DEF CloseFile
  <2>2. file'.size = 0 /\ pc = "file"
    BY <1>8 DEF CloseFile, NoFile
  <2>3. pc' # "failed" =>
          /\ stats'["deduplicated_bytes"] = stats["deduplicated_bytes"]
          /\ stats'["original_bytes"] = stats["original_bytes"] + file.size
          /\ stats'["stored_bytes"] = stats["stored_bytes"]
    BY <1>a, <1>e, <1>8 DEF CloseFile, Count, Add
  <2> QED
    BY <1>0, <1>a, <1>d, <1>e, <2>1, <2>2, <2>3 DEF Ledger
<1>9. CASE FileTooLarge
  BY <1>0, <1>9 DEF FileTooLarge, Ledger
<1>10. CASE WriteFooter
  BY <1>0, <1>a, <1>b, <1>10, OtherBytes DEF WriteFooter, Ledger
<1>11. CASE IoError
  BY <1>0, <1>11 DEF IoError, Ledger
<1>12. CASE UNCHANGED vars
  BY <1>0, <1>c, <1>12 DEF vars, packVars, Ledger
<1> QED
  BY <1>1, <1>2, <1>3, <1>4, <1>5, <1>6, <1>7, <1>8, <1>9, <1>10, <1>11, <1>12 DEF PackNext

\* The ledger balances throughout: what chunks hold and what reuse saved are
\* the bytes of the files, and stored_bytes is what the payloads add up to.
THEOREM ByteLedgerBalances == Spec => []ByteLedger
<1>1. Ledger => ByteLedger
  BY DEF Ledger, ByteLedger, Sizes, Payloads
<1> QED
  BY <1>1, InitLedger, StepLedger, PTL DEF Spec

-----------------------------------------------------------------------------
(* Records, and sums and counts over a prefix of them                        *)

ChunkStored ==
  [tag : {"CHNK"}, hash : Bytes, data : Bytes, size : Nat, method : {"zstd", "store"},
   payload : Nat]
FileStored ==
  [tag : {"FILE"}, path : Path, size : Nat, hash : Seq(Bytes), refs : Seq(Bytes)]

\* What the marker says of a record's fields.
LEMMA Stored ==
  ASSUME NEW r \in StoredRecord
  PROVE  /\ r.tag = "CHNK" => r \in ChunkStored
         /\ r.tag = "FILE" => r \in FileStored
         /\ r.tag = "DIRE" => r \in DirectoryRecordType
         /\ r.tag = "RGXF" => r \in FooterType
BY DEF StoredRecord, Header, Torn, DirectoryRecordType, FooterType, ChunkStored, FileStored

\* The same, of a record by its position.
LEMMA StoredAt ==
  ASSUME archive \in Seq(StoredRecord), NEW i \in 1..Len(archive)
  PROVE  /\ archive[i].tag = "CHNK" => archive[i] \in ChunkStored
         /\ archive[i].tag = "FILE" => archive[i] \in FileStored
         /\ archive[i].tag = "DIRE" => archive[i] \in DirectoryRecordType
         /\ archive[i].tag = "RGXF" => archive[i] \in FooterType
<1>1. archive[i] \in StoredRecord
  OBVIOUS
<1> QED
  BY <1>1, Stored

\* One record more.
LEMMA TaggedStep ==
  ASSUME NEW n \in Nat, NEW t
  PROVE  /\ Tagged(t, 0) = {}
         /\ Tagged(t, n + 1) =
              IF archive[n + 1].tag = t THEN Tagged(t, n) \union {n + 1} ELSE Tagged(t, n)
         /\ Tagged(t, n) \subseteq 1..n /\ n + 1 \notin Tagged(t, n)
         /\ IsFiniteSet(Tagged(t, n))
         /\ Cardinality(Tagged(t, n)) \in Nat
         /\ Cardinality(Tagged(t, n + 1)) =
              IF archive[n + 1].tag = t THEN Cardinality(Tagged(t, n)) + 1
                                        ELSE Cardinality(Tagged(t, n))
<1>1. /\ Tagged(t, 0) = {}
      /\ Tagged(t, n) \subseteq 1..n /\ n + 1 \notin Tagged(t, n)
  BY DEF Tagged
<1>2. Tagged(t, n + 1) =
        IF archive[n + 1].tag = t THEN Tagged(t, n) \union {n + 1} ELSE Tagged(t, n)
  BY DEF Tagged
<1>3. IsFiniteSet(Tagged(t, n))
  <2>1. IsFiniteSet(1..n)
    BY FS_Interval
  <2> QED
    BY <1>1, <2>1, FS_Subset
<1>4. Cardinality(Tagged(t, n)) \in Nat
  BY <1>3, FS_CardinalityType
<1>5. Cardinality(Tagged(t, n) \union {n + 1}) = Cardinality(Tagged(t, n)) + 1
  BY <1>1, <1>3, FS_AddElement
<1> QED
  BY <1>1, <1>2, <1>3, <1>4, <1>5

SumTo(v, t, n) == SumFunction([i \in Tagged(t, n) |-> v[i]])

\* A sum over a prefix, one record further.
LEMMA SumToStep ==
  ASSUME NEW n \in Nat, NEW t, NEW v, \A i \in Tagged(t, n + 1) : v[i] \in Nat
  PROVE  /\ SumTo(v, t, n) \in Nat
         /\ SumTo(v, t, n + 1) = IF archive[n + 1].tag = t THEN SumTo(v, t, n) + v[n + 1]
                                                           ELSE SumTo(v, t, n)
<1> DEFINE D == Tagged(t, n)
           E == Tagged(t, n + 1)
<1>1. /\ E = IF archive[n + 1].tag = t THEN D \union {n + 1} ELSE D
      /\ IsFiniteSet(D) /\ n + 1 \notin D
  BY TaggedStep
<1> HIDE DEF D, E
<1>2. PICK f, g, x : f = [i \in E |-> v[i]] /\ g = [i \in D |-> v[i]] /\ x = n + 1
  OBVIOUS
<1>3. SumTo(v, t, n + 1) = SumFunction(f) /\ SumTo(v, t, n) = SumFunction(g)
  BY <1>2 DEF SumTo, D, E
<1>4. \A i \in E : v[i] \in Nat
  BY DEF E
<1>5. g \in [D -> Nat] /\ SumFunction(g) \in Nat
  <2>1. g \in [D -> Nat]
    BY <1>1, <1>2, <1>4
  <2> QED
    BY <1>1, <2>1, SumType
<1>6. CASE archive[n + 1].tag = t
  <2>1. /\ E = D \union {x} /\ x \notin D /\ f \in [E -> Nat] /\ \A i \in D : f[i] = g[i]
        /\ f[x] = v[n + 1]
    BY <1>1, <1>2, <1>4, <1>6
  <2>2. PICK P, Q : P = D /\ Q = E
    OBVIOUS
  <2>3. /\ IsFiniteSet(P) /\ x \notin P /\ Q = P \union {x}
        /\ f \in [Q -> Nat] /\ g \in [P -> Nat] /\ \A i \in P : f[i] = g[i]
    BY <1>1, <1>5, <2>1, <2>2
  <2>4. SumFunction(f) = SumFunction(g) + f[x]
    BY ONLY <2>3, SumAdded, SMTT(60)
  <2> QED
    BY <1>3, <1>5, <1>6, <2>1, <2>4
<1>7. CASE archive[n + 1].tag # t
  <2>1. f = g
    BY <1>1, <1>2, <1>7
  <2> QED
    BY <1>3, <1>5, <1>7, <2>1
<1> QED
  BY <1>6, <1>7

\* A sum over no record.
LEMMA SumToNothing ==
  ASSUME NEW t, NEW v
  PROVE  SumTo(v, t, 0) = 0
<1>1. Tagged(t, 0) = {}
  BY DEF Tagged
<1>2. DOMAIN [i \in Tagged(t, 0) |-> v[i]] = {}
  BY <1>1
<1> QED
  BY <1>2, SumEmpty DEF SumTo

\* A longer prefix sums to no less.
LEMMA SumToMonotone ==
  ASSUME NEW n \in Nat, NEW m \in Nat, n <= m, NEW t, NEW v, \A i \in Tagged(t, m) : v[i] \in Nat
  PROVE  SumTo(v, t, n) <= SumTo(v, t, m) /\ SumTo(v, t, n) \in Nat /\ SumTo(v, t, m) \in Nat
<1> DEFINE T == Tagged(t, n)
           D == Tagged(t, m)
<1>1. T \in SUBSET D
  BY DEF Tagged
<1>2. IsFiniteSet(D) /\ IsFiniteSet(T)
  BY TaggedStep
<1>3. \A i \in D : v[i] \in Nat
  OBVIOUS
<1> HIDE DEF T, D
<1>4. PICK f, g : f = [i \in D |-> v[i]] /\ g = [i \in T |-> v[i]]
  OBVIOUS
<1>5. f \in [D -> Nat] /\ g \in [T -> Nat] /\ \A i \in T : g[i] <= f[i]
  BY <1>1, <1>3, <1>4
<1>6. SumFunction(g) <= SumFunction(f) /\ SumFunction(g) \in Nat /\ SumFunction(f) \in Nat
  BY <1>1, <1>2, <1>5, SumMonotone, SumType
<1> QED
  BY <1>4, <1>6 DEF SumTo, T, D

\* A longer prefix has no fewer records of a tag.
LEMMA CountMonotone ==
  ASSUME NEW n \in Nat, NEW m \in Nat, n <= m, NEW t
  PROVE  /\ Cardinality(Tagged(t, n)) <= Cardinality(Tagged(t, m))
         /\ Cardinality(Tagged(t, n)) \in Nat /\ Cardinality(Tagged(t, m)) \in Nat
<1>1. Tagged(t, n) \in SUBSET Tagged(t, m)
  BY DEF Tagged
<1>2. IsFiniteSet(Tagged(t, m)) /\ Cardinality(Tagged(t, n)) \in Nat /\ Cardinality(Tagged(t, m)) \in Nat
  BY TaggedStep
<1> QED
  BY <1>1, <1>2, FS_Subset

-----------------------------------------------------------------------------
(* The scan.  What the reader keeps is a function of the records behind it.  *)

SizeOf    == [i \in DOMAIN archive |-> archive[i].size]
PayloadOf == [i \in DOMAIN archive |-> archive[i].payload]
RefsOf    == [i \in DOMAIN archive |-> Len(archive[i].refs)]

\* A file whose references lead to chunk records before it, of its size.
FileFormed(i) ==
  /\ Len(archive[i].refs) <= MaxRefs
  /\ \E d \in [DOMAIN archive[i].refs -> 1..(i - 1)] :
       /\ \A k \in DOMAIN archive[i].refs : Defines(d[k], archive[i].refs[k])
       /\ archive[i].size = SumFunction([k \in DOMAIN archive[i].refs |-> archive[d[k]].size])

\* The first n records, as the format wants them.
PrefixFormed(n) ==
  /\ n >= 1 => archive[1] = Header
  /\ \A i \in Tagged("CHNK", n) :
       ChunkHeaderValid(archive[i]) /\ \A j \in 1..(i - 1) : ~Defines(j, archive[i].hash)
  /\ \A i \in Tagged("DIRE", n) \union Tagged("FILE", n) :
       /\ Readable(archive[i].path)
       /\ \A j \in Tagged("DIRE", n) \union Tagged("FILE", n) :
            j # i => archive[j].path # archive[i].path
  /\ \A i \in Tagged("FILE", n) : FileFormed(i)

\* The catalog the first n records make.
CatalogOf(n) ==
  /\ DOMAIN chunkMap = {archive[i].hash : i \in Tagged("CHNK", n)}
  /\ \A i \in Tagged("CHNK", n) :
       chunkMap[archive[i].hash] = [at |-> i, size |-> archive[i].size]
  /\ IsFiniteSet(DOMAIN chunkMap)
  /\ Cardinality(DOMAIN chunkMap) = Cardinality(Tagged("CHNK", n))
  /\ fileList \in Seq(FileStored)
  /\ Range(fileList) = {archive[i] : i \in Tagged("FILE", n)}
  /\ \A j, k \in DOMAIN fileList : j # k => fileList[j].path # fileList[k].path
  /\ dirSet = {archive[i].path : i \in Tagged("DIRE", n)}
  /\ referenced = UNION {Range(archive[i].refs) : i \in Tagged("FILE", n)}

\* The statistics of the first n records.
TallyOf(n) ==
  /\ tally \in [TallyNames -> 0..CounterMax]
  /\ tally["files"] = Cardinality(Tagged("FILE", n))
  /\ tally["directories"] = Cardinality(Tagged("DIRE", n))
  /\ tally["entries"] = tally["files"] + tally["directories"]
  /\ tally["chunk_references"] = SumTo(RefsOf, "FILE", n)
  /\ tally["original_bytes"] = SumTo(SizeOf, "FILE", n)
  /\ tally["referenced_logical"] = SumTo(SizeOf, "FILE", n)
  /\ tally["stored_bytes"] = SumTo(PayloadOf, "CHNK", n)
  /\ UniqueLogical = SumTo(SizeOf, "CHNK", n)

Gathered(n) == PrefixFormed(n) /\ CatalogOf(n) /\ TallyOf(n)

\* What is read is a record with its fields.
LEMMA Fields ==
  ASSUME archive \in Seq(StoredRecord), NEW n \in Nat, n <= Len(archive)
  PROVE  /\ \A i \in Tagged("CHNK", n) : archive[i] \in ChunkStored /\ i \in 1..n /\ i \in DOMAIN archive
         /\ \A i \in Tagged("FILE", n) : archive[i] \in FileStored /\ i \in 1..n /\ i \in DOMAIN archive
         /\ \A i \in Tagged("DIRE", n) :
              archive[i] \in DirectoryRecordType /\ i \in 1..n /\ i \in DOMAIN archive
<1>1. Len(archive) \in Nat /\ DOMAIN archive = 1..Len(archive)
  OBVIOUS
<1>2. \A t : \A i \in Tagged(t, n) :
        i \in 1..Len(archive) /\ i \in 1..n /\ archive[i].tag = t
  BY <1>1 DEF Tagged
<1> QED
  BY <1>1, <1>2, StoredAt

\* The fields that are summed are numbers.
LEMMA FieldValues ==
  ASSUME archive \in Seq(StoredRecord), NEW n \in Nat, n <= Len(archive)
  PROVE  /\ \A i \in Tagged("CHNK", n) : SizeOf[i] \in Nat /\ PayloadOf[i] \in Nat
         /\ \A i \in Tagged("FILE", n) : SizeOf[i] \in Nat /\ RefsOf[i] \in Nat
         /\ \A i \in Tagged("CHNK", n) : SizeOf[i] = archive[i].size /\ PayloadOf[i] = archive[i].payload
         /\ \A i \in Tagged("FILE", n) : SizeOf[i] = archive[i].size /\ RefsOf[i] = Len(archive[i].refs)
<1>1. ASSUME NEW i \in Tagged("CHNK", n)
      PROVE  /\ SizeOf[i] \in Nat /\ PayloadOf[i] \in Nat
             /\ SizeOf[i] = archive[i].size /\ PayloadOf[i] = archive[i].payload
  <2>1. archive[i] \in ChunkStored /\ i \in DOMAIN archive
    BY Fields
  <2> QED
    BY <2>1 DEF SizeOf, PayloadOf, ChunkStored
<1>2. ASSUME NEW i \in Tagged("FILE", n)
      PROVE  /\ SizeOf[i] \in Nat /\ RefsOf[i] \in Nat
             /\ SizeOf[i] = archive[i].size /\ RefsOf[i] = Len(archive[i].refs)
  <2>1. archive[i] \in FileStored /\ i \in DOMAIN archive
    BY Fields
  <2> QED
    BY <2>1 DEF SizeOf, RefsOf, FileStored
<1> QED
  BY <1>1, <1>2

\* The hash of a chunk record leads to it and nowhere else.
LEMMA OnlyDefinition ==
  ASSUME archive \in Seq(StoredRecord), NEW n \in Nat, n <= Len(archive), PrefixFormed(n),
         NEW i \in Tagged("CHNK", n), NEW j \in 1..n, Defines(j, archive[i].hash)
  PROVE  j = i
<1>1. i \in 1..n /\ j \in Tagged("CHNK", n) /\ archive[j].hash = archive[i].hash
  BY DEF Tagged, Defines
<1>2. ~(j \in 1..(i - 1))
  BY DEF PrefixFormed
<1>3. ~(i \in 1..(j - 1))
  BY <1>1 DEF PrefixFormed, Defines, Tagged
<1> QED
  BY <1>1, <1>2, <1>3

\* Records that stay where they are keep what was gathered from them.
LEMMA PrefixKept ==
  ASSUME archive \in Seq(StoredRecord), archive' \in Seq(StoredRecord), NEW n \in Nat,
         n <= Len(archive), n <= Len(archive'), \A i \in 1..n : archive'[i] = archive[i]
  PROVE  /\ \A t : \A m \in 0..n : Tagged(t, m)' = Tagged(t, m)
         /\ PrefixFormed(n) => PrefixFormed(n)'
         /\ SumTo(SizeOf, "FILE", n)' = SumTo(SizeOf, "FILE", n)
         /\ SumTo(SizeOf, "CHNK", n)' = SumTo(SizeOf, "CHNK", n)
         /\ SumTo(PayloadOf, "CHNK", n)' = SumTo(PayloadOf, "CHNK", n)
         /\ SumTo(RefsOf, "FILE", n)' = SumTo(RefsOf, "FILE", n)
<1>1. /\ Len(archive) \in Nat /\ DOMAIN archive = 1..Len(archive)
      /\ Len(archive') \in Nat /\ DOMAIN archive' = 1..Len(archive')
  OBVIOUS
<1>2. \A t : \A m \in 0..n : Tagged(t, m)' = Tagged(t, m) /\ Tagged(t, m) \subseteq 1..n
  BY DEF Tagged
<1>3. \A t : \A i \in Tagged(t, n) :
        SizeOf'[i] = SizeOf[i] /\ PayloadOf'[i] = PayloadOf[i] /\ RefsOf'[i] = RefsOf[i]
  BY <1>1, <1>2 DEF SizeOf, PayloadOf, RefsOf
<1>4. \A t : Tagged(t, n)' = Tagged(t, n)
  BY <1>2
<1>5. ASSUME NEW i \in 1..n, FileFormed(i) PROVE FileFormed(i)'
  <2>1. archive'[i] = archive[i] /\ \A j \in 1..(i - 1) : archive'[j] = archive[j]
    OBVIOUS
  <2>2. PICK d \in [DOMAIN archive[i].refs -> 1..(i - 1)] :
          /\ \A k \in DOMAIN archive[i].refs : Defines(d[k], archive[i].refs[k])
          /\ archive[i].size = SumFunction([k \in DOMAIN archive[i].refs |-> archive[d[k]].size])
    BY <1>5 DEF FileFormed
  <2>3. \A k \in DOMAIN archive[i].refs : Defines(d[k], archive[i].refs[k])'
    <3>1. \A k \in DOMAIN archive[i].refs : archive'[d[k]] = archive[d[k]]
      BY <2>1
    <3> QED
      BY <2>1, <2>2, <3>1 DEF Defines
  <2>4. [k \in DOMAIN archive[i].refs |-> archive[d[k]].size] =
          [k \in DOMAIN archive'[i].refs |-> archive'[d[k]].size]
    <3>1. \A k \in DOMAIN archive[i].refs : archive'[d[k]].size = archive[d[k]].size
      BY <2>1
    <3> QED
      BY <2>1, <3>1
  <2>5. archive'[i].size = SumFunction([k \in DOMAIN archive'[i].refs |-> archive'[d[k]].size])
    BY <2>1, <2>2, <2>4
  <2> QED
    BY <1>5, <2>1, <2>3, <2>5 DEF FileFormed
<1>6. ASSUME PrefixFormed(n) PROVE PrefixFormed(n)'
  <2>1. \A j \in 1..n : \A h : Defines(j, h)' <=> Defines(j, h)
    BY DEF Defines
  <2>2. \A t, i : i \in Tagged(t, n) => i \in 1..n /\ i \in Nat /\ archive'[i] = archive[i]
    BY <1>2, <1>4
  <2>3. (n >= 1 => archive[1] = Header)'
    BY <1>6 DEF PrefixFormed, Header
  <2>4. (\A i \in Tagged("CHNK", n) :
           ChunkHeaderValid(archive[i]) /\ \A j \in 1..(i - 1) : ~Defines(j, archive[i].hash))'
    <3>1. ASSUME NEW i \in Tagged("CHNK", n), NEW j \in 1..(i - 1)
          PROVE  ~(archive'[j].tag = "CHNK" /\ archive'[j].hash = archive'[i].hash)
      <4>1. j \in 1..n /\ archive'[j] = archive[j]
        BY <2>2
      <4>2. ~Defines(j, archive[i].hash)
        BY <1>6 DEF PrefixFormed
      <4> QED
        BY <2>2, <4>1, <4>2 DEF Defines
    <3>2. ASSUME NEW i \in Tagged("CHNK", n) PROVE ChunkHeaderValid(archive[i])'
      BY <1>6, <2>2 DEF PrefixFormed, ChunkHeaderValid
    <3> QED
      BY <1>4, <2>2, <3>1, <3>2 DEF Defines
  <2>5. (\A i \in Tagged("DIRE", n) \union Tagged("FILE", n) :
           /\ Readable(archive[i].path)
           /\ \A j \in Tagged("DIRE", n) \union Tagged("FILE", n) :
                j # i => archive[j].path # archive[i].path)'
    BY <1>4, <1>6, <2>2 DEF PrefixFormed, Readable
  <2>6. (\A i \in Tagged("FILE", n) : FileFormed(i))'
    BY <1>4, <1>5, <1>6, <2>2 DEF PrefixFormed
  <2> QED
    BY <2>3, <2>4, <2>5, <2>6 DEF PrefixFormed
<1> QED
  BY <1>2, <1>3, <1>4, <1>6 DEF SumTo

\* The statistics of the scan, by name.
LEMMA TallyNamesAre ==
  TallyNames = {"entries", "files", "directories", "chunk_references", "original_bytes",
                "stored_bytes", "referenced_logical"}
BY DEF TallyNames, CounterNames

\* Statistics that fit have the type of the tally.
LEMMA TallyFits ==
  ASSUME NEW f, f \in [TallyNames -> Nat], Fits(f)
  PROVE  f \in [TallyNames -> 0..CounterMax]
BY BoundAssumption DEF Fits

-----------------------------------------------------------------------------
(* One record more                                                           *)

\* A record outside the body, the header or the footer, adds nothing.
LEMMA NothingGathered ==
  ASSUME archive \in Seq(StoredRecord), NEW n \in Nat, n + 1 \in DOMAIN archive, Gathered(n),
         archive[n + 1].tag \notin {"CHNK", "DIRE", "FILE"}, n = 0 => archive[1] = Header
  PROVE  Gathered(n + 1)
<1>1. n + 1 <= Len(archive) /\ n <= Len(archive)
  OBVIOUS
<1>2. PICK m \in Nat : m = n + 1
  OBVIOUS
<1>3. \A t \in {"CHNK", "DIRE", "FILE"} : Tagged(t, m) = Tagged(t, n)
  BY <1>2, TaggedStep
<1>4. PrefixFormed(m)
  BY <1>2, <1>3 DEF Gathered, PrefixFormed
<1>5. CatalogOf(m)
  BY <1>3 DEF Gathered, CatalogOf
<1>6. TallyOf(m)
  BY <1>3 DEF Gathered, TallyOf, SumTo
<1> QED
  BY <1>2, <1>4, <1>5, <1>6 DEF Gathered

\* A directory record.
LEMMA DirectoryGathered ==
  ASSUME archive \in Seq(StoredRecord), NEW n \in Nat, n >= 1, n + 1 \in DOMAIN archive, Gathered(n),
         DirectoryAccepted(archive[n + 1]), UNCHANGED <<archive, chunkMap, referenced, fileList>>,
         dirSet' = dirSet \union {archive[n + 1].path}, tally' = DirectoryTally
  PROVE  Gathered(n + 1)'
<1>1. n + 1 <= Len(archive) /\ n <= Len(archive) /\ archive[n + 1].tag = "DIRE"
  BY DEF DirectoryAccepted
<1>2. PICK m \in Nat : m = n + 1
  OBVIOUS
<1>3. /\ Tagged("CHNK", m) = Tagged("CHNK", n) /\ Tagged("FILE", m) = Tagged("FILE", n)
      /\ Tagged("DIRE", m) = Tagged("DIRE", n) \union {m} /\ m \notin Tagged("DIRE", n)
      /\ Cardinality(Tagged("DIRE", m)) = Cardinality(Tagged("DIRE", n)) + 1
      /\ Cardinality(Tagged("DIRE", n)) \in Nat
  BY <1>1, <1>2, TaggedStep
<1>4. archive' \in Seq(StoredRecord) /\ m <= Len(archive) /\ m <= Len(archive')
      /\ \A i \in 1..m : archive'[i] = archive[i]
  BY <1>1, <1>2
<1>a. /\ \A t : Tagged(t, m)' = Tagged(t, m)
      /\ PrefixFormed(m) => PrefixFormed(m)'
      /\ SumTo(SizeOf, "FILE", m)' = SumTo(SizeOf, "FILE", m)
      /\ SumTo(SizeOf, "CHNK", m)' = SumTo(SizeOf, "CHNK", m)
      /\ SumTo(PayloadOf, "CHNK", m)' = SumTo(PayloadOf, "CHNK", m)
      /\ SumTo(RefsOf, "FILE", m)' = SumTo(RefsOf, "FILE", m)
  BY <1>4, PrefixKept
<1>5. Paths = {archive[i].path : i \in Tagged("DIRE", n) \union Tagged("FILE", n)}
  BY DEF Gathered, CatalogOf, Paths
<1>6. PrefixFormed(m)
  <2>1. Readable(archive[m].path)
        /\ \A i \in Tagged("DIRE", n) \union Tagged("FILE", n) : archive[i].path # archive[m].path
    BY <1>2, <1>5 DEF DirectoryAccepted, PathAccepted
  <2>2. archive[1] = Header
    BY DEF Gathered, PrefixFormed
  <2> QED
    BY <1>3, <2>1, <2>2 DEF Gathered, PrefixFormed
<1>7. PrefixFormed(m)'
  BY <1>a, <1>6
<1>8. CatalogOf(m)'
  <2>1. dirSet' = {archive[i].path : i \in Tagged("DIRE", m)}
    BY <1>2, <1>3 DEF Gathered, CatalogOf
  <2>2. (fileList \in Seq(FileStored))'
    BY DEF Gathered, CatalogOf, FileStored, Bytes, Path
  <2>3. (/\ DOMAIN chunkMap = {archive[i].hash : i \in Tagged("CHNK", m)}
         /\ \A i \in Tagged("CHNK", m) :
              chunkMap[archive[i].hash] = [at |-> i, size |-> archive[i].size])'
    BY <1>3, <1>a DEF Gathered, CatalogOf
  <2>4. (/\ IsFiniteSet(DOMAIN chunkMap)
         /\ Cardinality(DOMAIN chunkMap) = Cardinality(Tagged("CHNK", m)))'
    BY <1>3, <1>a DEF Gathered, CatalogOf
  <2>5. (/\ Range(fileList) = {archive[i] : i \in Tagged("FILE", m)}
         /\ \A j, k \in DOMAIN fileList : j # k => fileList[j].path # fileList[k].path)'
    BY <1>3, <1>a DEF Gathered, CatalogOf
  <2>6. (referenced = UNION {Range(archive[i].refs) : i \in Tagged("FILE", m)})'
    BY <1>3, <1>a DEF Gathered, CatalogOf
  <2>7. (dirSet = {archive[i].path : i \in Tagged("DIRE", m)})'
    BY <1>a, <2>1
  <2> QED
    BY <2>2, <2>3, <2>4, <2>5, <2>6, <2>7 DEF CatalogOf
<1>9. TallyOf(m)'
  <2>1. \A v : SumTo(v, "CHNK", m) = SumTo(v, "CHNK", n) /\ SumTo(v, "FILE", m) = SumTo(v, "FILE", n)
    BY <1>3 DEF SumTo
  <2>2. tally \in [TallyNames -> Nat] /\ "entries" \in TallyNames /\ "directories" \in TallyNames
    BY TallyNamesAre, BoundAssumption DEF Gathered, TallyOf
  <2>3. PICK f : f = Add(tally, "entries", 1)
    OBVIOUS
  <2>4. /\ f \in [TallyNames -> Nat] /\ f["entries"] = tally["entries"] + 1
        /\ \A c \in TallyNames \ {"entries"} : f[c] = tally[c]
    BY <2>2, <2>3 DEF Add
  <2>5. /\ tally' \in [TallyNames -> Nat] /\ tally'["directories"] = f["directories"] + 1
        /\ \A c \in TallyNames \ {"directories"} : tally'[c] = f[c]
    BY <2>2, <2>3, <2>4 DEF DirectoryTally, Add
  <2>6. tally' \in [TallyNames -> 0..CounterMax]
    BY <2>5, TallyFits DEF DirectoryAccepted
  <2>7. UniqueLogical' = UniqueLogical
    BY DEF UniqueLogical
  <2> QED
    BY <1>3, <1>a, <2>1, <2>2, <2>4, <2>5, <2>6, <2>7, TallyNamesAre DEF Gathered, TallyOf
<1> QED
  BY <1>2, <1>7, <1>8, <1>9 DEF Gathered

\* The statistics t, after a chunk stored as p bytes.
ChunkCounted(t, p, u) ==
  /\ u \in [TallyNames -> Nat]
  /\ u["stored_bytes"] = t["stored_bytes"] + p
  /\ \A c \in TallyNames \ {"stored_bytes"} : u[c] = t[c]

\* ChunkTally counts a chunk.
LEMMA ChunkTallied ==
  ASSUME NEW t, t \in [TallyNames -> Nat], NEW p, p \in Nat, NEW u, u = Add(t, "stored_bytes", p)
  PROVE  ChunkCounted(t, p, u)
BY TallyNamesAre DEF Add, ChunkCounted

\* The bytes of the catalog, one chunk further.
LEMMA UniqueGrows ==
  ASSUME IsFiniteSet(DOMAIN chunkMap), \A h \in DOMAIN chunkMap : chunkMap[h].size \in Nat,
         NEW c, c \notin DOMAIN chunkMap, NEW at, NEW size \in Nat,
         chunkMap' = [h \in DOMAIN chunkMap \union {c} |->
                        IF h = c THEN [at |-> at, size |-> size] ELSE chunkMap[h]]
  PROVE  UniqueLogical' = UniqueLogical + size /\ UniqueLogical \in Nat
<1>1. PICK D, E, f, g : /\ D = DOMAIN chunkMap /\ E = D \union {c}
                        /\ f = [h \in E |-> chunkMap'[h].size]
                        /\ g = [h \in D |-> chunkMap[h].size]
  OBVIOUS
<1>2. DOMAIN chunkMap' = E
  BY <1>1
<1>3. \A h \in E : chunkMap'[h] = IF h = c THEN [at |-> at, size |-> size] ELSE chunkMap[h]
  BY <1>1
<1>4. f[c] = size /\ \A h \in D : f[h] = g[h] /\ g[h] \in Nat
  BY <1>1, <1>3
<1>5. /\ f \in [E -> Nat] /\ g \in [D -> Nat] /\ IsFiniteSet(D) /\ c \notin D /\ E = D \union {c}
      /\ \A h \in D : f[h] = g[h]
  BY <1>1, <1>4
<1>6. SumFunction(f) = SumFunction(g) + f[c] /\ SumFunction(g) \in Nat
  BY ONLY <1>5, SumAdded
<1>7. UniqueLogical' = SumFunction(f) /\ UniqueLogical = SumFunction(g)
  BY <1>1, <1>2 DEF UniqueLogical
<1> QED
  BY <1>4, <1>6, <1>7

\* The bytes of the catalog are a number.
LEMMA UniqueCounted ==
  ASSUME archive \in Seq(StoredRecord), NEW n \in Nat, n <= Len(archive), Gathered(n)
  PROVE  UniqueLogical = SumTo(SizeOf, "CHNK", n) /\ UniqueLogical \in Nat
<1>1. \A i \in Tagged("CHNK", n) : SizeOf[i] \in Nat
  BY FieldValues
<1>2. SumTo(SizeOf, "CHNK", n) \in Nat
  BY <1>1, SumToMonotone
<1> QED
  BY <1>2 DEF Gathered, TallyOf

\* A chunk record.
LEMMA ChunkGathered ==
  ASSUME archive \in Seq(StoredRecord), NEW n \in Nat, n >= 1, n + 1 \in DOMAIN archive, Gathered(n),
         ChunkAccepted(archive[n + 1]), UNCHANGED <<archive, referenced, fileList, dirSet>>,
         chunkMap' = [h \in DOMAIN chunkMap \union {archive[n + 1].hash} |->
                        IF h = archive[n + 1].hash THEN [at |-> n + 1, size |-> archive[n + 1].size]
                                                   ELSE chunkMap[h]],
         tally' = ChunkTally(archive[n + 1])
  PROVE  Gathered(n + 1)'
<1>1. n + 1 <= Len(archive) /\ n <= Len(archive) /\ archive[n + 1].tag = "CHNK"
  BY DEF ChunkAccepted
<1>2. PICK m \in Nat : m = n + 1
  OBVIOUS
<1>3. /\ Tagged("DIRE", m) = Tagged("DIRE", n) /\ Tagged("FILE", m) = Tagged("FILE", n)
      /\ Tagged("CHNK", m) = Tagged("CHNK", n) \union {m} /\ m \notin Tagged("CHNK", n)
      /\ Cardinality(Tagged("CHNK", m)) = Cardinality(Tagged("CHNK", n)) + 1
      /\ Tagged("CHNK", n) \subseteq 1..n
  BY <1>1, <1>2, TaggedStep
<1>4. archive' \in Seq(StoredRecord) /\ m <= Len(archive) /\ m <= Len(archive')
      /\ \A i \in 1..m : archive'[i] = archive[i]
  BY <1>1, <1>2
<1>a. /\ \A t : Tagged(t, m)' = Tagged(t, m)
      /\ PrefixFormed(m) => PrefixFormed(m)'
      /\ SumTo(SizeOf, "FILE", m)' = SumTo(SizeOf, "FILE", m)
      /\ SumTo(SizeOf, "CHNK", m)' = SumTo(SizeOf, "CHNK", m)
      /\ SumTo(PayloadOf, "CHNK", m)' = SumTo(PayloadOf, "CHNK", m)
      /\ SumTo(RefsOf, "FILE", m)' = SumTo(RefsOf, "FILE", m)
  BY <1>4, PrefixKept
<1>5. /\ ChunkHeaderValid(archive[m])
      /\ archive[m].hash \notin DOMAIN chunkMap
      /\ \A i \in Tagged("CHNK", n) : archive[i].hash # archive[m].hash
  BY <1>2 DEF ChunkAccepted, Gathered, CatalogOf
<1>6. PrefixFormed(m)
  <2>1. \A j \in 1..(m - 1) : ~Defines(j, archive[m].hash)
    BY <1>2, <1>5 DEF Defines, Tagged
  <2>2. archive[1] = Header
    BY DEF Gathered, PrefixFormed
  <2> QED
    BY <1>3, <1>5, <2>1, <2>2 DEF Gathered, PrefixFormed
<1>7. PrefixFormed(m)'
  BY <1>a, <1>6
<1>8. CatalogOf(m)'
  <2>1. (/\ DOMAIN chunkMap = {archive[i].hash : i \in Tagged("CHNK", m)}
         /\ \A i \in Tagged("CHNK", m) :
              chunkMap[archive[i].hash] = [at |-> i, size |-> archive[i].size])'
    <3>1. DOMAIN chunkMap' = DOMAIN chunkMap \union {archive[m].hash}
      BY <1>2
    <3>2. ASSUME NEW i \in Tagged("CHNK", m)
          PROVE  chunkMap'[archive[i].hash] = [at |-> i, size |-> archive[i].size]
      <4>1. CASE i = m
        BY <1>2, <4>1
      <4>2. CASE i # m
        <5>1. i \in Tagged("CHNK", n) /\ archive[i].hash # archive[m].hash
              /\ archive[i].hash \in DOMAIN chunkMap
          BY <1>3, <1>5, <4>2 DEF Gathered, CatalogOf
        <5> QED
          BY <1>2, <5>1 DEF Gathered, CatalogOf
      <4> QED
        BY <4>1, <4>2
    <3>3. DOMAIN chunkMap = {archive[i].hash : i \in Tagged("CHNK", n)}
      BY DEF Gathered, CatalogOf
    <3>4. DOMAIN chunkMap' = {archive[i].hash : i \in Tagged("CHNK", m)}
      BY <1>3, <3>1, <3>3
    <3>5. archive' = archive /\ Tagged("CHNK", m)' = Tagged("CHNK", m)
      BY <1>a
    <3>6. (DOMAIN chunkMap = {archive[i].hash : i \in Tagged("CHNK", m)})'
      BY <3>4, <3>5
    <3>7. (\A i \in Tagged("CHNK", m) :
             chunkMap[archive[i].hash] = [at |-> i, size |-> archive[i].size])'
      BY <3>2, <3>5
    <3> QED
      BY <3>6, <3>7
  <2>2. (/\ IsFiniteSet(DOMAIN chunkMap)
         /\ Cardinality(DOMAIN chunkMap) = Cardinality(Tagged("CHNK", m)))'
    <3>1. PICK D, E, h : D = DOMAIN chunkMap /\ E = DOMAIN chunkMap' /\ h = archive[m].hash
      OBVIOUS
    <3>2. E = D \union {h} /\ h \notin D /\ IsFiniteSet(D)
          /\ Cardinality(D) = Cardinality(Tagged("CHNK", n))
      BY <1>2, <1>5, <3>1 DEF Gathered, CatalogOf
    <3>3. IsFiniteSet(E) /\ Cardinality(E) = Cardinality(D) + 1
      BY <3>2, FS_AddElement
    <3> QED
      BY <1>3, <1>a, <3>1, <3>2, <3>3
  <2>3. (fileList \in Seq(FileStored))'
    BY DEF Gathered, CatalogOf, FileStored, Bytes, Path
  <2>4. (/\ Range(fileList) = {archive[i] : i \in Tagged("FILE", m)}
         /\ \A j, k \in DOMAIN fileList : j # k => fileList[j].path # fileList[k].path)'
    BY <1>3, <1>a DEF Gathered, CatalogOf
  <2>5. (referenced = UNION {Range(archive[i].refs) : i \in Tagged("FILE", m)})'
    BY <1>3, <1>a DEF Gathered, CatalogOf
  <2>6. (dirSet = {archive[i].path : i \in Tagged("DIRE", m)})'
    BY <1>3, <1>a DEF Gathered, CatalogOf
  <2> QED
    BY <2>1, <2>2, <2>3, <2>4, <2>5, <2>6 DEF CatalogOf
<1>9. TallyOf(m)'
  <2>1. /\ \A v : SumTo(v, "FILE", m) = SumTo(v, "FILE", n)
        /\ archive[m].size \in Nat /\ archive[m].payload \in Nat
        /\ SumTo(SizeOf, "CHNK", m) = SumTo(SizeOf, "CHNK", n) + archive[m].size
        /\ SumTo(PayloadOf, "CHNK", m) = SumTo(PayloadOf, "CHNK", n) + archive[m].payload
    <3>1. /\ \A i \in Tagged("CHNK", m) : SizeOf[i] \in Nat /\ PayloadOf[i] \in Nat
          /\ SizeOf[m] = archive[m].size /\ PayloadOf[m] = archive[m].payload
      BY <1>3, <1>4, FieldValues
    <3>2. /\ SumTo(SizeOf, "CHNK", m) = SumTo(SizeOf, "CHNK", n) + SizeOf[m]
          /\ SumTo(PayloadOf, "CHNK", m) = SumTo(PayloadOf, "CHNK", n) + PayloadOf[m]
      BY <1>1, <1>2, <3>1, SumToStep
    <3> QED
      BY <1>3, <3>1, <3>2 DEF SumTo
  <2>2. tally \in [TallyNames -> Nat] /\ "stored_bytes" \in TallyNames
    BY TallyNamesAre, BoundAssumption DEF Gathered, TallyOf
  <2>3. ChunkCounted(tally, archive[m].payload, tally')
    <3>1. /\ tally \in [TallyNames -> Nat] /\ archive[m].payload \in Nat
          /\ tally' = Add(tally, "stored_bytes", archive[m].payload)
      BY <1>2, <2>1, <2>2 DEF ChunkTally
    <3> QED
      BY ONLY <3>1, ChunkTallied
  <2>4. tally' \in [TallyNames -> 0..CounterMax]
    BY <2>3, TallyFits DEF ChunkAccepted, ChunkCounted
  <2>5. UniqueLogical' = UniqueLogical + archive[m].size
    <3>1. IsFiniteSet(DOMAIN chunkMap) /\ archive[m].hash \notin DOMAIN chunkMap
      BY <1>5 DEF Gathered, CatalogOf
    <3>2. \A h \in DOMAIN chunkMap : chunkMap[h].size \in Nat
      <4> SUFFICES ASSUME NEW i \in Tagged("CHNK", n) PROVE chunkMap[archive[i].hash].size \in Nat
        BY DEF Gathered, CatalogOf
      <4>1. archive[i].size \in Nat
        BY <1>1, FieldValues
      <4>2. chunkMap[archive[i].hash] = [at |-> i, size |-> archive[i].size]
        BY DEF Gathered, CatalogOf
      <4> QED
        BY <4>1, <4>2
    <3>3. PICK c, size : c = archive[m].hash /\ size = archive[m].size /\ size \in Nat
      BY <2>1
    <3>4. chunkMap' = [h \in DOMAIN chunkMap \union {c} |->
                         IF h = c THEN [at |-> m, size |-> size] ELSE chunkMap[h]]
      BY <1>2, <3>3
    <3>5. c \notin DOMAIN chunkMap
      BY <3>1, <3>3
    <3>6. UniqueLogical' = UniqueLogical + size
      BY ONLY <3>1, <3>2, <3>3, <3>4, <3>5, UniqueGrows
    <3> QED
      BY <3>3, <3>6
  <2>6. UniqueLogical' = SumTo(SizeOf, "CHNK", m)'
    BY <1>a, <2>1, <2>5 DEF Gathered, TallyOf
  <2> QED
    BY <1>3, <1>a, <2>1, <2>2, <2>3, <2>4, <2>6, TallyNamesAre DEF Gathered, TallyOf, ChunkCounted
<1> QED
  BY <1>2, <1>7, <1>8, <1>9 DEF Gathered

\* The statistics t, after a file of s bytes and l references.
FileCounted(t, s, l, u) ==
  /\ u \in [TallyNames -> Nat]
  /\ u["files"] = t["files"] + 1 /\ u["directories"] = t["directories"]
  /\ u["entries"] = t["entries"] + 1
  /\ u["chunk_references"] = t["chunk_references"] + l
  /\ u["original_bytes"] = t["original_bytes"] + s
  /\ u["referenced_logical"] = t["referenced_logical"] + s
  /\ u["stored_bytes"] = t["stored_bytes"]

\* FileTally counts a file.
LEMMA FileTallied ==
  ASSUME NEW t, t \in [TallyNames -> Nat], NEW s, s \in Nat, NEW l, l \in Nat,
         NEW u, u = Add(Add(Add(Add(Add(t, "entries", 1), "files", 1), "original_bytes", s),
                            "chunk_references", l), "referenced_logical", s)
  PROVE  FileCounted(t, s, l, u)
<1>1. PICK f, g, h, e :
        /\ f = Add(t, "entries", 1) /\ g = Add(f, "files", 1)
        /\ h = Add(g, "original_bytes", s) /\ e = Add(h, "chunk_references", l)
  OBVIOUS
<1>3. /\ "entries" \in TallyNames /\ "files" \in TallyNames /\ "directories" \in TallyNames
      /\ "original_bytes" \in TallyNames /\ "chunk_references" \in TallyNames
      /\ "stored_bytes" \in TallyNames /\ "referenced_logical" \in TallyNames
  BY TallyNamesAre
<1>4. /\ f \in [TallyNames -> Nat] /\ f["entries"] = t["entries"] + 1
      /\ \A c \in TallyNames \ {"entries"} : f[c] = t[c]
  BY <1>1, <1>3 DEF Add
<1>5. /\ g \in [TallyNames -> Nat] /\ g["files"] = f["files"] + 1
      /\ \A c \in TallyNames \ {"files"} : g[c] = f[c]
  BY <1>1, <1>3, <1>4 DEF Add
<1>6. /\ h \in [TallyNames -> Nat] /\ h["original_bytes"] = g["original_bytes"] + s
      /\ \A c \in TallyNames \ {"original_bytes"} : h[c] = g[c]
  BY <1>1, <1>3, <1>5 DEF Add
<1>7. /\ e \in [TallyNames -> Nat] /\ e["chunk_references"] = h["chunk_references"] + l
      /\ \A c \in TallyNames \ {"chunk_references"} : e[c] = h[c]
  BY <1>1, <1>3, <1>6 DEF Add
<1>8. /\ u \in [TallyNames -> Nat] /\ u["referenced_logical"] = e["referenced_logical"] + s
      /\ \A c \in TallyNames \ {"referenced_logical"} : u[c] = e[c]
  <2>1. u = Add(e, "referenced_logical", s)
    BY <1>1
  <2> QED
    BY <1>3, <1>7, <2>1 DEF Add
<1> QED
  BY <1>3, <1>4, <1>5, <1>6, <1>7, <1>8 DEF FileCounted

\* A file record.
LEMMA FileGathered ==
  ASSUME archive \in Seq(StoredRecord), NEW n \in Nat, n >= 1, n + 1 \in DOMAIN archive, Gathered(n),
         FileAccepted(archive[n + 1]), UNCHANGED <<archive, chunkMap, dirSet>>,
         fileList' = Append(fileList, archive[n + 1]),
         referenced' = referenced \union Range(archive[n + 1].refs),
         tally' = FileTally(archive[n + 1])
  PROVE  Gathered(n + 1)'
<1>1. n + 1 <= Len(archive) /\ n <= Len(archive) /\ archive[n + 1].tag = "FILE"
  BY DEF FileAccepted
<1>2. PICK m \in Nat : m = n + 1
  OBVIOUS
<1>3. /\ Tagged("DIRE", m) = Tagged("DIRE", n) /\ Tagged("CHNK", m) = Tagged("CHNK", n)
      /\ Tagged("FILE", m) = Tagged("FILE", n) \union {m} /\ m \notin Tagged("FILE", n)
      /\ Cardinality(Tagged("FILE", m)) = Cardinality(Tagged("FILE", n)) + 1
      /\ Cardinality(Tagged("FILE", n)) \in Nat
      /\ Tagged("CHNK", n) \subseteq 1..n
  BY <1>1, <1>2, TaggedStep
<1>4. archive' \in Seq(StoredRecord) /\ m <= Len(archive) /\ m <= Len(archive')
      /\ \A i \in 1..m : archive'[i] = archive[i]
  BY <1>1, <1>2
<1>a. /\ \A t : Tagged(t, m)' = Tagged(t, m)
      /\ PrefixFormed(m) => PrefixFormed(m)'
      /\ SumTo(SizeOf, "FILE", m)' = SumTo(SizeOf, "FILE", m)
      /\ SumTo(SizeOf, "CHNK", m)' = SumTo(SizeOf, "CHNK", m)
      /\ SumTo(PayloadOf, "CHNK", m)' = SumTo(PayloadOf, "CHNK", m)
      /\ SumTo(RefsOf, "FILE", m)' = SumTo(RefsOf, "FILE", m)
  BY <1>4, PrefixKept
<1>b. archive[m] \in FileStored
  BY <1>3, <1>4, Fields
<1>5. Paths = {archive[i].path : i \in Tagged("DIRE", n) \union Tagged("FILE", n)}
  BY DEF Gathered, CatalogOf, Paths
<1>c. FileFormed(m)
  <2> DEFINE refs == archive[m].refs
             d == [k \in DOMAIN refs |-> chunkMap[refs[k]].at]
  <2>1. ASSUME NEW k \in DOMAIN refs
        PROVE  /\ d[k] \in 1..(m - 1) /\ Defines(d[k], refs[k])
               /\ chunkMap[refs[k]].size = archive[d[k]].size
    <3>1. refs[k] \in DOMAIN chunkMap
      BY <1>2 DEF FileAccepted, Range
    <3>2. PICK i \in Tagged("CHNK", n) : archive[i].hash = refs[k]
      BY <3>1 DEF Gathered, CatalogOf
    <3>3. chunkMap[refs[k]] = [at |-> i, size |-> archive[i].size]
      BY <3>2 DEF Gathered, CatalogOf
    <3>4. i \in 1..(m - 1) /\ archive[i].tag = "CHNK"
      BY <1>2, <1>3, <3>2 DEF Tagged
    <3>5. d[k] = i
      BY <3>3
    <3>6. Defines(i, refs[k]) /\ chunkMap[refs[k]].size = archive[i].size
      BY <3>2, <3>3, <3>4, SMTT(30) DEF Defines
    <3> HIDE DEF d
    <3> QED
      BY <3>4, <3>5, <3>6
  <2>2. [k \in DOMAIN refs |-> chunkMap[refs[k]].size] = [k \in DOMAIN refs |-> archive[d[k]].size]
    BY <2>1, ZenonT(60)
  <2>3. d \in [DOMAIN refs -> 1..(m - 1)]
    BY <2>1
  <2>4. Len(refs) <= MaxRefs /\ archive[m].size = SumFunction([k \in DOMAIN refs |-> chunkMap[refs[k]].size])
    BY <1>2 DEF FileAccepted, LogicalSize
  <2> HIDE DEF d
  <2> QED
    BY <2>1, <2>2, <2>3, <2>4 DEF FileFormed
<1>d. /\ Readable(archive[m].path)
      /\ \A i \in Tagged("DIRE", n) \union Tagged("FILE", n) : archive[i].path # archive[m].path
  BY <1>2, <1>5 DEF FileAccepted, PathAccepted
<1>6. PrefixFormed(m)
  <2>2. archive[1] = Header
    BY DEF Gathered, PrefixFormed
  <2> QED
    BY <1>3, <1>c, <1>d, <2>2 DEF Gathered, PrefixFormed
<1>7. PrefixFormed(m)'
  BY <1>a, <1>6
<1>8. CatalogOf(m)'
  <2>0. /\ fileList \in Seq(FileStored) /\ fileList' = Append(fileList, archive[m])
        /\ Range(fileList) = {archive[i] : i \in Tagged("FILE", n)}
        /\ \A j, k \in DOMAIN fileList : j # k => fileList[j].path # fileList[k].path
    BY <1>2 DEF Gathered, CatalogOf
  <2>1. (/\ DOMAIN chunkMap = {archive[i].hash : i \in Tagged("CHNK", m)}
         /\ \A i \in Tagged("CHNK", m) :
              chunkMap[archive[i].hash] = [at |-> i, size |-> archive[i].size])'
    BY <1>3, <1>a DEF Gathered, CatalogOf
  <2>2. (/\ IsFiniteSet(DOMAIN chunkMap)
         /\ Cardinality(DOMAIN chunkMap) = Cardinality(Tagged("CHNK", m)))'
    BY <1>3, <1>a DEF Gathered, CatalogOf
  <2>3. (fileList \in Seq(FileStored))'
    <3>1. fileList' \in Seq(FileStored)
      BY <1>b, <2>0
    <3> QED
      BY <3>1 DEF FileStored, Bytes, Path
  <2>4. (Range(fileList) = {archive[i] : i \in Tagged("FILE", m)})'
    <3>1. Range(Append(fileList, archive[m])) = Range(fileList) \union {archive[m]}
      BY <2>0, RangeOfAppend
    <3> QED
      BY <1>3, <1>a, <2>0, <3>1
  <2>5. (\A j, k \in DOMAIN fileList : j # k => fileList[j].path # fileList[k].path)'
    <3>1. /\ DOMAIN fileList = 1..Len(fileList) /\ Len(fileList) \in Nat
          /\ DOMAIN fileList' = 1..Len(fileList) + 1
          /\ fileList'[Len(fileList) + 1] = archive[m]
          /\ \A k \in DOMAIN fileList : fileList'[k] = fileList[k]
      BY <2>0
    <3>2. \A k \in DOMAIN fileList : fileList[k].path # archive[m].path
      <4> SUFFICES ASSUME NEW k \in DOMAIN fileList PROVE fileList[k].path # archive[m].path
        OBVIOUS
      <4>1. fileList[k] \in Range(fileList)
        BY DEF Range
      <4> QED
        BY <1>d, <2>0, <4>1
    <3> QED
      BY <2>0, <3>1, <3>2
  <2>6. (referenced = UNION {Range(archive[i].refs) : i \in Tagged("FILE", m)})'
    BY <1>2, <1>3, <1>a DEF Gathered, CatalogOf
  <2>7. (dirSet = {archive[i].path : i \in Tagged("DIRE", m)})'
    BY <1>3, <1>a DEF Gathered, CatalogOf
  <2> QED
    BY <2>1, <2>2, <2>3, <2>4, <2>5, <2>6, <2>7 DEF CatalogOf
<1>9. TallyOf(m)'
  <2>1. /\ \A v : SumTo(v, "CHNK", m) = SumTo(v, "CHNK", n)
        /\ archive[m].size \in Nat /\ Len(archive[m].refs) \in Nat
        /\ SumTo(SizeOf, "FILE", m) = SumTo(SizeOf, "FILE", n) + archive[m].size
        /\ SumTo(RefsOf, "FILE", m) = SumTo(RefsOf, "FILE", n) + Len(archive[m].refs)
    <3>1. /\ \A i \in Tagged("FILE", m) : SizeOf[i] \in Nat /\ RefsOf[i] \in Nat
          /\ SizeOf[m] = archive[m].size /\ RefsOf[m] = Len(archive[m].refs)
      BY <1>3, <1>4, FieldValues
    <3>2. SumTo(SizeOf, "FILE", m) = SumTo(SizeOf, "FILE", n) + SizeOf[m]
      BY <1>1, <1>2, <3>1, SumToStep, SMTT(30)
    <3>3. SumTo(RefsOf, "FILE", m) = SumTo(RefsOf, "FILE", n) + RefsOf[m]
      BY <1>1, <1>2, <3>1, SumToStep, SMTT(30)
    <3> QED
      BY <1>3, <3>1, <3>2, <3>3 DEF SumTo
  <2>2. /\ tally \in [TallyNames -> Nat]
        /\ "entries" \in TallyNames /\ "files" \in TallyNames /\ "directories" \in TallyNames
        /\ "original_bytes" \in TallyNames /\ "chunk_references" \in TallyNames
        /\ "stored_bytes" \in TallyNames /\ "referenced_logical" \in TallyNames
    BY TallyNamesAre, BoundAssumption DEF Gathered, TallyOf
  <2>10. /\ tally' \in [TallyNames -> Nat]
         /\ tally'["files"] = tally["files"] + 1 /\ tally'["directories"] = tally["directories"]
         /\ tally'["entries"] = tally["entries"] + 1
         /\ tally'["chunk_references"] = tally["chunk_references"] + Len(archive[m].refs)
         /\ tally'["original_bytes"] = tally["original_bytes"] + archive[m].size
         /\ tally'["referenced_logical"] = tally["referenced_logical"] + archive[m].size
         /\ tally'["stored_bytes"] = tally["stored_bytes"]
    <3>1. /\ archive[m].size \in Nat /\ Len(archive[m].refs) \in Nat /\ tally \in [TallyNames -> Nat]
          /\ tally' = Add(Add(Add(Add(Add(tally, "entries", 1), "files", 1),
                                  "original_bytes", archive[m].size),
                              "chunk_references", Len(archive[m].refs)),
                          "referenced_logical", archive[m].size)
      BY <1>2, <2>1, <2>2 DEF FileTally
    <3>2. FileCounted(tally, archive[m].size, Len(archive[m].refs), tally')
      BY ONLY <3>1, FileTallied
    <3> QED
      BY <3>2 DEF FileCounted
  <2>9. tally' \in [TallyNames -> 0..CounterMax]
    BY <2>10, TallyFits DEF FileAccepted
  <2>11. tally["files"] \in Nat /\ tally["directories"] \in Nat
    BY <2>2
  <2>12. TallyOf(n)
    BY DEF Gathered
  <2>13. (tally \in [TallyNames -> 0..CounterMax])'
    BY <2>9
  <2>14. (/\ tally["files"] = Cardinality(Tagged("FILE", m))
          /\ tally["directories"] = Cardinality(Tagged("DIRE", m))
          /\ tally["entries"] = tally["files"] + tally["directories"])'
    BY <1>3, <1>a, <2>10, <2>11, <2>12 DEF TallyOf
  <2>15. (/\ tally["chunk_references"] = SumTo(RefsOf, "FILE", m)
          /\ tally["original_bytes"] = SumTo(SizeOf, "FILE", m)
          /\ tally["referenced_logical"] = SumTo(SizeOf, "FILE", m)
          /\ tally["stored_bytes"] = SumTo(PayloadOf, "CHNK", m)
          /\ UniqueLogical = SumTo(SizeOf, "CHNK", m))'
    <3>1. UniqueLogical' = UniqueLogical
      BY DEF UniqueLogical
    <3> QED
      BY <1>a, <2>1, <2>10, <2>12, <3>1 DEF TallyOf
  <2> QED
    BY <2>13, <2>14, <2>15 DEF TallyOf
<1> QED
  BY <1>2, <1>7, <1>8, <1>9 DEF Gathered

-----------------------------------------------------------------------------
(* The subtraction that yields deduplicated_bytes                            *)

\* d names members of U for the members of K; b weighs what is in B, a what
\* is in A, and c the naming; nothing is in B but what is in A or is named.
Covering(K, U, s, d, A, B, a, b, c) ==
  /\ IsFiniteSet(K) /\ IsFiniteSet(A)
  /\ s \in [U -> Nat] /\ d \in [K -> U]
  /\ A \in SUBSET U /\ B \in SUBSET U
  /\ \A i \in B : i \in A \/ \E k \in K : d[k] = i
  /\ a \in [A -> Nat] /\ \A i \in A : a[i] = s[i]
  /\ b \in [B -> Nat] /\ \A i \in B : b[i] = s[i]
  /\ c \in [K -> Nat] /\ \A k \in K : c[k] = s[d[k]]

\* Then B weighs no more than A and the naming together.
LEMMA SumCover ==
  ASSUME NEW K, NEW U, NEW s, NEW d, NEW A, NEW B, NEW a, NEW b, NEW c,
         Covering(K, U, s, d, A, B, a, b, c)
  PROVE  IsFiniteSet(B) /\ SumFunction(b) <= SumFunction(a) + SumFunction(c)
<1> USE DEF Covering
<1> DEFINE Weight(V) == SumFunction([i \in V |-> s[i]])
           Naming(L) == SumFunction([k \in L |-> s[d[k]]])
           Covers(L) == \A V \in SUBSET U :
                          V \subseteq A \union {d[k] : k \in L} =>
                            IsFiniteSet(V) /\ Weight(V) <= Weight(A) + Naming(L)
           S == {m \in Nat : \A L \in SUBSET K : Cardinality(L) <= m => Covers(L)}
<1>0. /\ \A V \in SUBSET U : IsFiniteSet(V) => [i \in V |-> s[i]] \in [V -> Nat] /\ Weight(V) \in Nat
      /\ \A L \in SUBSET K : IsFiniteSet(L) /\ [k \in L |-> s[d[k]]] \in [L -> Nat] /\ Naming(L) \in Nat
  <2>1. ASSUME NEW V \in SUBSET U, IsFiniteSet(V)
        PROVE  [i \in V |-> s[i]] \in [V -> Nat] /\ Weight(V) \in Nat
    <3>1. [i \in V |-> s[i]] \in [V -> Nat]
      OBVIOUS
    <3>2. PICK f : f = [i \in V |-> s[i]]
      OBVIOUS
    <3>3. f \in [V -> Nat] /\ SumFunction(f) \in Nat
      BY <2>1, <3>1, <3>2, SumType
    <3> QED
      BY <3>1, <3>2, <3>3
  <2>2. ASSUME NEW L \in SUBSET K
        PROVE  IsFiniteSet(L) /\ [k \in L |-> s[d[k]]] \in [L -> Nat] /\ Naming(L) \in Nat
    <3>1. [k \in L |-> s[d[k]]] \in [L -> Nat] /\ IsFiniteSet(L)
      BY FS_Subset
    <3>2. PICK f : f = [k \in L |-> s[d[k]]]
      OBVIOUS
    <3>3. f \in [L -> Nat] /\ SumFunction(f) \in Nat
      BY <3>1, <3>2, SumType
    <3> QED
      BY <3>1, <3>2, <3>3
  <2> QED
    BY <2>1, <2>2
\* One member more in a set that is weighed, and one more naming.
<1>a. ASSUME NEW V \in SUBSET U, NEW x \in U, x \notin V, IsFiniteSet(V)
      PROVE  IsFiniteSet(V \union {x}) /\ Weight(V \union {x}) = Weight(V) + s[x]
  <2>1. PICK E, f, g : /\ E = V \union {x} /\ f = [i \in E |-> s[i]] /\ g = [i \in V |-> s[i]]
    OBVIOUS
  <2>2. /\ f \in [E -> Nat] /\ g \in [V -> Nat] /\ \A y \in V : f[y] = g[y]
        /\ f[x] = s[x] /\ x \notin V /\ E = V \union {x} /\ IsFiniteSet(V)
    BY <1>a, <2>1
  <2>3. SumFunction(f) = SumFunction(g) + f[x]
    BY ONLY <2>2, SumAdded
  <2>4. IsFiniteSet(E)
    BY <2>2, FS_AddElement
  <2> QED
    BY <2>1, <2>2, <2>3, <2>4
<1>b. ASSUME NEW L \in SUBSET K, NEW x \in L
      PROVE  Naming(L) = Naming(L \ {x}) + s[d[x]]
  <2>1. PICK D, f, g : D = L \ {x} /\ f = [k \in L |-> s[d[k]]] /\ g = [k \in D |-> s[d[k]]]
    OBVIOUS
  <2>2. /\ f \in [L -> Nat] /\ g \in [D -> Nat] /\ \A y \in D : f[y] = g[y]
        /\ f[x] = s[d[x]] /\ x \notin D /\ L = D \union {x} /\ IsFiniteSet(D)
    <3>1. IsFiniteSet(D)
      BY <2>1, FS_Subset
    <3> QED
      BY <2>1, <3>1
  <2>3. SumFunction(f) = SumFunction(g) + f[x]
    BY ONLY <2>2, SumAdded
  <2> QED
    BY <2>1, <2>2, <2>3
<1>1. 0 \in S
  <2>1. ASSUME NEW L \in SUBSET K, Cardinality(L) <= 0 PROVE L = {}
    <3>1. IsFiniteSet(L) /\ Cardinality(L) = 0
      BY <2>1, FS_Subset, FS_CardinalityType
    <3> QED
      BY <3>1, FS_EmptySet
  <2>2. Covers({})
    <3> SUFFICES ASSUME NEW V \in SUBSET U, V \subseteq A
                 PROVE  IsFiniteSet(V) /\ Weight(V) <= Weight(A) + Naming({})
      OBVIOUS
    <3>1. IsFiniteSet(V)
      BY FS_Subset
    <3>2. PICK f, g : f = [i \in A |-> s[i]] /\ g = [i \in V |-> s[i]]
      OBVIOUS
    <3>3. f \in [A -> Nat] /\ g \in [V -> Nat] /\ \A y \in V : g[y] <= f[y]
      BY <3>2
    <3>4. SumFunction(g) <= SumFunction(f)
      BY <3>3, SumMonotone
    <3>5. Weight(V) \in Nat /\ Weight(A) \in Nat /\ Naming({}) \in Nat
      BY <1>0, <3>1
    <3> QED
      BY <3>1, <3>2, <3>4, <3>5
  <2> HIDE DEF Covers
  <2> QED
    BY <2>1, <2>2
<1>2. ASSUME NEW m \in S PROVE m + 1 \in S
  <2> SUFFICES ASSUME NEW L \in SUBSET K, Cardinality(L) <= m + 1, L # {} PROVE Covers(L)
    <3> HIDE DEF Covers
    <3>1. m \in Nat /\ \A L \in SUBSET K : Cardinality(L) <= m => Covers(L)
      OBVIOUS
    <3>2. {} \in SUBSET K /\ Cardinality({}) <= m
      BY <3>1, FS_EmptySet
    <3>3. \A L \in SUBSET K : Cardinality(L) <= m + 1 => Covers(L)
      BY <3>1, <3>2
    <3>4. m + 1 \in Nat
      BY <3>1
    <3> QED
      BY <3>3, <3>4
  <2>1. PICK x : x \in L
    OBVIOUS
  <2>2. L \ {x} \in SUBSET K /\ Cardinality(L \ {x}) <= m
    BY <1>0, <2>1, Smaller
  <2>3. Covers(L \ {x})
    <3> HIDE DEF Covers
    <3> QED
      BY <2>2
  <2>4. /\ Naming(L) = Naming(L \ {x}) + s[d[x]] /\ s[d[x]] \in Nat /\ d[x] \in U
        /\ Naming(L \ {x}) \in Nat
    BY <1>0, <1>b, <2>1, <2>2
  <2> SUFFICES ASSUME NEW V \in SUBSET U, V \subseteq A \union {d[k] : k \in L}
               PROVE  IsFiniteSet(V) /\ Weight(V) <= Weight(A) + Naming(L)
    OBVIOUS
  <2>5. Weight(A) \in Nat
    BY <1>0
  <2> HIDE DEF Weight, Naming
  <2>6. PICK V1 \in SUBSET U : V1 = V \ {d[x]}
    OBVIOUS
  <2>7. V1 \subseteq A \union {d[k] : k \in L \ {x}} /\ d[x] \notin V1
    BY <2>6
  <2>8. IsFiniteSet(V1) /\ Weight(V1) <= Weight(A) + Naming(L \ {x})
    BY <2>3, <2>7
  <2>9. Weight(V1) \in Nat
    BY <1>0, <2>8
  <2>10. CASE d[x] \in V
    <3>1. V = V1 \union {d[x]}
      BY <2>6, <2>10
    <3>2. IsFiniteSet(V) /\ Weight(V) = Weight(V1) + s[d[x]]
      BY <1>a, <2>4, <2>7, <2>8, <3>1
    <3> QED
      BY <2>4, <2>5, <2>8, <2>9, <3>2
  <2>11. CASE d[x] \notin V
    <3>1. V = V1
      BY <2>6, <2>11
    <3> QED
      BY <2>4, <2>5, <2>8, <2>9, <3>1
  <2> QED
    BY <2>10, <2>11
<1>3. S = Nat
  <2> HIDE DEF Covers
  <2> QED
    BY <1>1, <1>2, SetInduction
<1>4. Cardinality(K) \in Nat
  BY FS_CardinalityType
<1>5. Covers(K)
  <2> HIDE DEF Covers
  <2> QED
    BY <1>3, <1>4
<1>6. a = [i \in A |-> s[i]] /\ b = [i \in B |-> s[i]] /\ c = [k \in K |-> s[d[k]]]
  OBVIOUS
<1>7. B \subseteq A \union {d[k] : k \in K}
  OBVIOUS
<1> QED
  BY <1>5, <1>6, <1>7

\* Every reference of the records read so far leads to a chunk in the catalog.
LEMMA ReferencesKnown ==
  ASSUME archive \in Seq(StoredRecord), NEW n \in Nat, n <= Len(archive), Gathered(n)
  PROVE  /\ referenced \subseteq DOMAIN chunkMap
         /\ \A j \in Tagged("FILE", n) : Range(archive[j].refs) \subseteq DOMAIN chunkMap
         /\ Cardinality(referenced) = Cardinality(DOMAIN chunkMap) => referenced = DOMAIN chunkMap
<1>1. ASSUME NEW j \in Tagged("FILE", n), NEW h \in Range(archive[j].refs)
      PROVE  h \in DOMAIN chunkMap
  <2>1. j \in 1..n
    BY DEF Tagged
  <2>2. PICK k \in DOMAIN archive[j].refs : h = archive[j].refs[k]
    BY <1>1 DEF Range
  <2>3. PICK i \in 1..(j - 1) : Defines(i, h)
    BY <2>2 DEF Gathered, PrefixFormed, FileFormed
  <2>4. i \in Tagged("CHNK", n) /\ archive[i].hash = h
    BY <2>1, <2>3 DEF Defines, Tagged
  <2> QED
    BY <2>4 DEF Gathered, CatalogOf
<1>2. referenced \subseteq DOMAIN chunkMap
  BY <1>1 DEF Gathered, CatalogOf
<1>3. ASSUME Cardinality(referenced) = Cardinality(DOMAIN chunkMap) PROVE referenced = DOMAIN chunkMap
  <2>1. IsFiniteSet(DOMAIN chunkMap)
    BY DEF Gathered, CatalogOf
  <2> QED
    BY <1>2, <1>3, <2>1, FS_Subset
<1> QED
  BY <1>1, <1>2, <1>3

\* The chunks that the files before m reference weigh no more than the files.
Named(m, n) ==
  {i \in Tagged("CHNK", n) : \E j \in Tagged("FILE", m) : archive[i].hash \in Range(archive[j].refs)}

\* The chunks that files name weigh no more than the files.
LEMMA NamedWeighLess ==
  ASSUME archive \in Seq(StoredRecord), NEW n \in Nat, n <= Len(archive), PrefixFormed(n)
  PROVE  SumFunction([i \in Named(n, n) |-> SizeOf[i]]) <= SumTo(SizeOf, "FILE", n)
<1> DEFINE Less(m) == /\ IsFiniteSet(Named(m, n))
                      /\ SumFunction([i \in Named(m, n) |-> SizeOf[i]]) <= SumTo(SizeOf, "FILE", m)
           S == {m \in Nat : m <= n => Less(m)}
<1>1. 0 \in S
  <2>1. Named(0, n) = {}
    BY DEF Named, Tagged
  <2>2. DOMAIN [i \in Named(0, n) |-> SizeOf[i]] = {}
    BY <2>1
  <2>3. SumFunction([i \in Named(0, n) |-> SizeOf[i]]) = 0
    BY <2>2, SumEmpty
  <2>4. IsFiniteSet(Named(0, n))
    BY <2>1, FS_EmptySet
  <2> QED
    BY <2>3, <2>4, SumToNothing
<1>2. ASSUME NEW m \in S PROVE m + 1 \in S
  <2> SUFFICES ASSUME m + 1 <= n PROVE Less(m + 1)
    OBVIOUS
  <2>1. m \in Nat /\ m <= Len(archive) /\ m + 1 <= Len(archive) /\ Less(m)
    OBVIOUS
  <2>2. PICK p \in Nat : p = m + 1
    OBVIOUS
  <2> HIDE DEF S
  <2>3. CASE archive[p].tag # "FILE"
    <3>1. Tagged("FILE", p) = Tagged("FILE", m)
      BY <2>1, <2>2, <2>3, TaggedStep
    <3>2. Named(p, n) = Named(m, n) /\ SumTo(SizeOf, "FILE", p) = SumTo(SizeOf, "FILE", m)
      BY <3>1 DEF Named, SumTo
    <3> QED
      BY <2>1, <2>2, <3>2
  <2>4. CASE archive[p].tag = "FILE"
    <3>0. /\ Tagged("FILE", p) = Tagged("FILE", m) \union {p}
          /\ p \in Tagged("FILE", n) /\ p <= Len(archive) /\ p <= n
      BY <2>1, <2>2, <2>4, TaggedStep DEF Tagged
    <3>1. FileFormed(p) /\ archive[p] \in FileStored
      BY <3>0, Fields DEF PrefixFormed
    <3>2. PICK d \in [DOMAIN archive[p].refs -> 1..(p - 1)] :
            /\ \A k \in DOMAIN archive[p].refs : Defines(d[k], archive[p].refs[k])
            /\ archive[p].size = SumFunction([k \in DOMAIN archive[p].refs |-> archive[d[k]].size])
      BY <3>1 DEF FileFormed
    <3>3. PICK K, U, s, A, V :
            /\ K = DOMAIN archive[p].refs /\ U = Tagged("CHNK", n) /\ s = [i \in U |-> SizeOf[i]]
            /\ A = Named(m, n) /\ V = Named(p, n)
      OBVIOUS
    <3>4. IsFiniteSet(K)
      <4>1. archive[p].refs \in Seq(Bytes)
        BY <3>1 DEF FileStored
      <4>2. PICK l \in Nat : K = 1..l
        BY <3>3, <4>1
      <4>3. IsFiniteSet(1..l)
        BY FS_Interval
      <4> QED
        BY <4>2, <4>3
    <3>5. \A i \in U : SizeOf[i] \in Nat /\ SizeOf[i] = archive[i].size
      BY <3>3, FieldValues
    <3>6. s \in [U -> Nat]
      BY <3>3, <3>5
    <3>7. d \in [K -> U]
      <4> SUFFICES ASSUME NEW k \in K PROVE d[k] \in U
        BY <3>2, <3>3
      <4>1. d[k] \in 1..(p - 1) /\ archive[d[k]].tag = "CHNK"
        BY <3>2, <3>3 DEF Defines
      <4> QED
        BY <3>0, <3>3, <4>1 DEF Tagged
    <3>8. A \in SUBSET U /\ IsFiniteSet(A) /\ V \in SUBSET U
      BY <2>1, <3>3 DEF Named
    <3>9. \A i \in V : i \in A \/ \E k \in K : d[k] = i
      <4> SUFFICES ASSUME NEW i \in V, i \notin A PROVE \E k \in K : d[k] = i
        OBVIOUS
      <4>1. i \in Tagged("CHNK", n) /\ archive[i].hash \in Range(archive[p].refs)
        BY <3>0, <3>3 DEF Named
      <4>2. PICK k \in K : archive[p].refs[k] = archive[i].hash
        BY <3>3, <4>1 DEF Range
      <4>3. Defines(d[k], archive[i].hash) /\ d[k] \in 1..n
        BY <3>0, <3>2, <3>3, <4>2
      <4>4. d[k] = i
        BY <4>1, <4>3, OnlyDefinition
      <4> QED
        BY <4>4
    <3>a. PICK a, b, c : /\ a = [i \in A |-> s[i]] /\ b = [i \in V |-> s[i]]
                         /\ c = [k \in K |-> s[d[k]]]
      OBVIOUS
    <3>b. /\ a \in [A -> Nat] /\ \A i \in A : a[i] = s[i]
          /\ b \in [V -> Nat] /\ \A i \in V : b[i] = s[i]
          /\ c \in [K -> Nat] /\ \A k \in K : c[k] = s[d[k]]
      BY <3>6, <3>7, <3>8, <3>a
    <3>c. Covering(K, U, s, d, A, V, a, b, c)
      BY <3>4, <3>6, <3>7, <3>8, <3>9, <3>b DEF Covering
    <3>10. IsFiniteSet(V) /\ SumFunction(b) <= SumFunction(a) + SumFunction(c)
      BY <3>c, SumCover
    <3>11. /\ [i \in V |-> s[i]] = [i \in Named(p, n) |-> SizeOf[i]]
           /\ [i \in A |-> s[i]] = [i \in Named(m, n) |-> SizeOf[i]]
           /\ [k \in K |-> s[d[k]]] = [k \in DOMAIN archive[p].refs |-> archive[d[k]].size]
      BY <3>3, <3>5, <3>7, <3>8
    <3>12. /\ SumTo(SizeOf, "FILE", p) = SumTo(SizeOf, "FILE", m) + archive[p].size
           /\ SumTo(SizeOf, "FILE", m) \in Nat /\ archive[p].size \in Nat
      <4>1. \A i \in Tagged("FILE", p) : SizeOf[i] \in Nat /\ SizeOf[i] = archive[i].size
        BY <3>0, FieldValues
      <4>2. SumTo(SizeOf, "FILE", p) = SumTo(SizeOf, "FILE", m) + SizeOf[p]
            /\ SumTo(SizeOf, "FILE", m) \in Nat
        BY <2>1, <2>2, <2>4, <4>1, SumToStep
      <4> QED
        BY <3>0, <4>1, <4>2
    <3>13. SumFunction(a) \in Nat /\ SumFunction(b) \in Nat
      <4>1. a \in [A -> Nat] /\ b \in [V -> Nat]
        BY <3>6, <3>8, <3>a
      <4> QED
        BY <3>8, <3>10, <4>1, SumType
    <3>14. SumFunction(a) <= SumTo(SizeOf, "FILE", m) /\ SumFunction(c) = archive[p].size
      BY <2>1, <3>2, <3>11, <3>a
    <3>15. SumFunction(b) <= SumTo(SizeOf, "FILE", p)
      BY <3>10, <3>12, <3>13, <3>14
    <3> QED
      BY <2>2, <3>3, <3>10, <3>11, <3>15, <3>a
  <2> QED
    BY <2>2, <2>3, <2>4
<1>3. S = Nat
  <2> HIDE DEF Less
  <2> QED
    BY <1>1, <1>2, SetInduction
<1> QED
  BY <1>3

\* The reader's subtraction: once every chunk is referenced, the bytes of the
\* references cover the bytes of the chunks.
LEMMA DedupCovered ==
  ASSUME archive \in Seq(StoredRecord), NEW n \in Nat, n <= Len(archive), Gathered(n)
  PROVE  DedupNotNegative
<1> SUFFICES ASSUME Cardinality(referenced) = Cardinality(DOMAIN chunkMap)
             PROVE  UniqueLogical <= tally["referenced_logical"]
  <2>1. tally \in [TallyNames -> Nat]
    BY BoundAssumption DEF Gathered, TallyOf
  <2>2. UniqueLogical \in Nat /\ tally["referenced_logical"] \in Nat
    BY <2>1, TallyNamesAre, UniqueCounted
  <2> QED
    BY <2>2 DEF DedupNotNegative
<1>1. referenced = DOMAIN chunkMap
  BY ReferencesKnown
<1>2. Named(n, n) = Tagged("CHNK", n)
  <2> SUFFICES ASSUME NEW i \in Tagged("CHNK", n)
               PROVE  \E j \in Tagged("FILE", n) : archive[i].hash \in Range(archive[j].refs)
    BY DEF Named
  <2>1. archive[i].hash \in DOMAIN chunkMap
    BY DEF Gathered, CatalogOf
  <2>2. archive[i].hash \in UNION {Range(archive[j].refs) : j \in Tagged("FILE", n)}
    BY <1>1, <2>1 DEF Gathered, CatalogOf
  <2> QED
    BY <2>2
<1>3. SumTo(SizeOf, "CHNK", n) <= SumTo(SizeOf, "FILE", n)
  BY <1>2, NamedWeighLess DEF SumTo, Gathered
<1> QED
  BY <1>3 DEF Gathered, TallyOf

-----------------------------------------------------------------------------
(* The verdict and the format.  One side looks forward from the catalog, the *)
(* other at the archive as a whole.                                          *)

\* Both ways of saying that a file's references lead to its chunks.
LEMMA FileFormedIsWellFormed ==
  ASSUME archive \in Seq(StoredRecord), NEW n \in Nat, n <= Len(archive), PrefixFormed(n),
         NEW i \in Tagged("FILE", n)
  PROVE  WellFormedFile(i)
<1> DEFINE refs == archive[i].refs
           Def(k) == CHOOSE j \in 1..(i - 1) : Defines(j, refs[k])
<1>1. i \in 1..n /\ FileFormed(i)
  BY DEF Tagged, PrefixFormed
<1>2. PICK d \in [DOMAIN refs -> 1..(i - 1)] :
        /\ \A k \in DOMAIN refs : Defines(d[k], refs[k])
        /\ archive[i].size = SumFunction([k \in DOMAIN refs |-> archive[d[k]].size])
  BY <1>1 DEF FileFormed
<1>3. ASSUME NEW k \in DOMAIN refs PROVE Def(k) = d[k]
  <2>1. d[k] \in 1..(i - 1) /\ Defines(d[k], refs[k])
    BY <1>2
  <2>2. Def(k) \in 1..(i - 1) /\ Defines(Def(k), refs[k])
    BY <2>1
  <2>3. /\ d[k] \in Tagged("CHNK", n) /\ archive[d[k]].hash = refs[k]
        /\ Def(k) \in 1..n
    BY <1>1, <2>1, <2>2 DEF Defines, Tagged
  <2> QED
    BY <2>2, <2>3, OnlyDefinition
<1>4. [k \in DOMAIN refs |-> archive[Def(k)].size] = [k \in DOMAIN refs |-> archive[d[k]].size]
  <2> HIDE DEF Def, refs
  <2> QED
    BY <1>3
<1>5. \A k \in DOMAIN refs : \E j \in 1..(i - 1) : Defines(j, refs[k])
  BY <1>2
<1>6. archive[i].size = SumFunction([k \in DOMAIN refs |-> archive[Def(k)].size])
  BY <1>2, <1>4
<1>7. Len(refs) <= MaxRefs
  BY <1>1 DEF FileFormed
<1> QED
  BY <1>5, <1>6, <1>7 DEF WellFormedFile

\* The other way round.
LEMMA WellFormedIsFileFormed ==
  ASSUME NEW i \in Nat, WellFormedFile(i)
  PROVE  FileFormed(i)
<1> DEFINE refs == archive[i].refs
           Def(k) == CHOOSE j \in 1..(i - 1) : Defines(j, refs[k])
           d == [k \in DOMAIN refs |-> Def(k)]
<1>1. /\ Len(refs) <= MaxRefs
      /\ \A k \in DOMAIN refs : \E j \in 1..(i - 1) : Defines(j, refs[k])
      /\ archive[i].size = SumFunction([k \in DOMAIN refs |-> archive[Def(k)].size])
  BY DEF WellFormedFile
<1>2. \A k \in DOMAIN refs : Def(k) \in 1..(i - 1) /\ Defines(Def(k), refs[k])
  BY <1>1
<1> HIDE DEF Def
<1>3. d \in [DOMAIN refs -> 1..(i - 1)] /\ \A k \in DOMAIN refs : Defines(d[k], refs[k])
  BY <1>2
<1>4. [k \in DOMAIN refs |-> archive[Def(k)].size] = [k \in DOMAIN refs |-> archive[d[k]].size]
  OBVIOUS
<1>5. archive[i].size = SumFunction([k \in DOMAIN refs |-> archive[d[k]].size])
  BY <1>1, <1>4
<1> HIDE DEF d
<1> QED
  BY <1>1, <1>3, <1>5 DEF FileFormed

\* What the format adds up over the whole archive.
LEMMA Totals ==
  ASSUME archive \in Seq(StoredRecord)
  PROVE  /\ Declared("size", "FILE") = SumTo(SizeOf, "FILE", Len(archive))
         /\ Declared("size", "CHNK") = SumTo(SizeOf, "CHNK", Len(archive))
         /\ Declared("payload", "CHNK") = SumTo(PayloadOf, "CHNK", Len(archive))
         /\ DeclaredRefs = SumTo(RefsOf, "FILE", Len(archive))
<1>1. Len(archive) \in Nat
  OBVIOUS
<1>2. PICK N \in Nat : N = Len(archive)
  BY <1>1
<1>3. /\ [i \in Tagged("FILE", N) |-> archive[i]["size"]] = [i \in Tagged("FILE", N) |-> SizeOf[i]]
      /\ [i \in Tagged("CHNK", N) |-> archive[i]["size"]] = [i \in Tagged("CHNK", N) |-> SizeOf[i]]
      /\ [i \in Tagged("CHNK", N) |-> archive[i]["payload"]]
           = [i \in Tagged("CHNK", N) |-> PayloadOf[i]]
      /\ [i \in Tagged("FILE", N) |-> Len(archive[i].refs)]
           = [i \in Tagged("FILE", N) |-> RefsOf[i]]
  BY <1>2, FieldValues
<1> QED
  BY <1>2, <1>3 DEF Declared, DeclaredRefs, SumTo

\* The statistics of the footer, by name.
LEMMA CounterNamesAre ==
  CounterNames = {"entries", "files", "directories", "unique_chunks", "chunk_references",
                  "original_bytes", "stored_bytes", "deduplicated_bytes"}
BY DEF CounterNames

\* The true statistics one by one.
LEMMA TrueStatsAre ==
  ASSUME archive \in Seq(StoredRecord), NEW N, N = Len(archive)
  PROVE  /\ DOMAIN TrueStats = CounterNames
         /\ TrueStats["files"] = Cardinality(Tagged("FILE", N))
         /\ TrueStats["directories"] = Cardinality(Tagged("DIRE", N))
         /\ TrueStats["entries"] = Cardinality(Tagged("FILE", N)) + Cardinality(Tagged("DIRE", N))
         /\ TrueStats["unique_chunks"] = Cardinality(Tagged("CHNK", N))
         /\ TrueStats["chunk_references"] = SumTo(RefsOf, "FILE", N)
         /\ TrueStats["original_bytes"] = SumTo(SizeOf, "FILE", N)
         /\ TrueStats["stored_bytes"] = SumTo(PayloadOf, "CHNK", N)
         /\ TrueStats["deduplicated_bytes"] = SumTo(SizeOf, "FILE", N) - SumTo(SizeOf, "CHNK", N)
BY Totals, CounterNamesAre DEF TrueStats

\* The statistics the reader expects one by one.
LEMMA ExpectedStatsAre ==
  /\ DOMAIN ExpectedStats = CounterNames
  /\ \A c \in {"files", "directories", "entries", "chunk_references", "original_bytes",
               "stored_bytes"} : ExpectedStats[c] = tally[c]
  /\ ExpectedStats["unique_chunks"] = Cardinality(DOMAIN chunkMap)
  /\ ExpectedStats["deduplicated_bytes"] = tally["referenced_logical"] - UniqueLogical
BY CounterNamesAre DEF ExpectedStats

\* The statistics of an archive are a function of their names.
LEMMA TrueStatsTable == TrueStats = [c \in CounterNames |-> TrueStats[c]]
<1> DEFINE T(c) ==
             CASE c = "files" -> Cardinality(Tagged("FILE", Len(archive)))
               [] c = "directories" -> Cardinality(Tagged("DIRE", Len(archive)))
               [] c = "entries" -> Cardinality(Tagged("FILE", Len(archive)))
                                     + Cardinality(Tagged("DIRE", Len(archive)))
               [] c = "unique_chunks" -> Cardinality(Tagged("CHNK", Len(archive)))
               [] c = "chunk_references" -> DeclaredRefs
               [] c = "original_bytes" -> Declared("size", "FILE")
               [] c = "stored_bytes" -> Declared("payload", "CHNK")
               [] c = "deduplicated_bytes" -> Declared("size", "FILE") - Declared("size", "CHNK")
<1>1. TrueStats = [c \in CounterNames |-> T(c)]
  BY DEF TrueStats
<1> HIDE DEF T
<1> QED
  BY <1>1

\* At the footer, the statistics of the catalog are those of the archive.
LEMMA StatsAgree ==
  ASSUME archive \in Seq(StoredRecord), NEW n \in Nat, n + 1 = Len(archive), Gathered(n),
         archive[n + 1].tag = "RGXF"
  PROVE  ExpectedStats = TrueStats
<1>1. PICK N \in Nat : N = n + 1
  OBVIOUS
<1>2. \A t \in {"CHNK", "DIRE", "FILE"} : Tagged(t, N) = Tagged(t, n)
  BY <1>1, TaggedStep
<1>3. \A v : \A t \in {"CHNK", "FILE"} : SumTo(v, t, N) = SumTo(v, t, n)
  BY <1>2 DEF SumTo
<1>4. TallyOf(n) /\ Cardinality(DOMAIN chunkMap) = Cardinality(Tagged("CHNK", n))
  BY DEF Gathered, CatalogOf
<1>5. ExpectedStats = [c \in CounterNames |-> ExpectedStats[c]]
  <2> DEFINE E(c) == CASE c = "unique_chunks" -> Cardinality(DOMAIN chunkMap)
                       [] c = "deduplicated_bytes" ->
                            tally["referenced_logical"] - UniqueLogical
                       [] OTHER -> tally[c]
  <2>1. ExpectedStats = [c \in CounterNames |-> E(c)]
    BY DEF ExpectedStats
  <2> HIDE DEF E
  <2> QED
    BY <2>1
<1>6. N = Len(archive)
  BY <1>1
<1>7. /\ TrueStats["files"] = tally["files"] /\ TrueStats["directories"] = tally["directories"]
      /\ TrueStats["entries"] = tally["entries"]
      /\ TrueStats["unique_chunks"] = Cardinality(DOMAIN chunkMap)
      /\ TrueStats["chunk_references"] = tally["chunk_references"]
      /\ TrueStats["original_bytes"] = tally["original_bytes"]
      /\ TrueStats["stored_bytes"] = tally["stored_bytes"]
      /\ TrueStats["deduplicated_bytes"] = tally["referenced_logical"] - UniqueLogical
  BY <1>2, <1>3, <1>4, <1>6, TrueStatsAre DEF TallyOf
<1>8. \A c \in CounterNames : ExpectedStats[c] = TrueStats[c]
  BY <1>7, ExpectedStatsAre, CounterNamesAre
<1> QED
  BY <1>5, <1>8, TrueStatsTable

\* The records before the footer are of the body.
BodyTo(n) == \A i \in 2..n : archive[i].tag \in {"CHNK", "DIRE", "FILE"}

\* Forward: an archive the scan accepts is what the format says.
LEMMA AcceptedIsWellFormed ==
  ASSUME archive \in Seq(StoredRecord), NEW n \in Nat, n >= 1, n + 1 = Len(archive), Gathered(n),
         BodyTo(n), pos = n + 1, FooterAccepted(archive[n + 1])
  PROVE  WellFormed
<1>1. PICK N \in Nat : N = n + 1
  OBVIOUS
<1>2. /\ N = Len(archive) /\ N >= 2 /\ n <= Len(archive) /\ archive[N].tag = "RGXF"
      /\ archive[N].stats = ExpectedStats /\ ExpectedStats["deduplicated_bytes"] >= 0
      /\ Cardinality(referenced) = Cardinality(DOMAIN chunkMap)
      /\ \A f \in Range(fileList), p \in Paths : ~IsAncestor(f.path, p)
  BY <1>1 DEF FooterAccepted
<1>3. \A t \in {"CHNK", "DIRE", "FILE"} : Tagged(t, N) = Tagged(t, n) /\ Tagged(t, n) \subseteq 1..n
  BY <1>1, <1>2, TaggedStep
<1>4. archive[1] = Header /\ PrefixFormed(n)
  BY DEF Gathered, PrefixFormed
<1>5. \A i \in 2..(N - 1) : archive[i].tag \in {"CHNK", "DIRE", "FILE"}
  BY <1>1 DEF BodyTo
<1>6. ASSUME NEW i \in Tagged("CHNK", N) PROVE WellFormedChunk(i)
  <2>1. i \in Tagged("CHNK", n) /\ i \in 1..n
    BY <1>3
  <2>2. ChunkHeaderValid(archive[i]) /\ \A j \in 1..(i - 1) : ~Defines(j, archive[i].hash)
    BY <1>4, <2>1 DEF PrefixFormed
  <2>3. archive[i].hash \in referenced
    <3>1. archive[i].hash \in DOMAIN chunkMap
      BY <2>1 DEF Gathered, CatalogOf
    <3> QED
      BY <1>2, <3>1, ReferencesKnown
  <2>4. PICK j \in Tagged("FILE", n) : archive[i].hash \in Range(archive[j].refs)
    BY <2>3 DEF Gathered, CatalogOf
  <2>5. PICK k \in DOMAIN archive[j].refs : archive[j].refs[k] = archive[i].hash
    BY <2>4 DEF Range
  <2>6. PICK g \in 1..(j - 1) : Defines(g, archive[i].hash)
    BY <1>4, <2>5 DEF PrefixFormed, FileFormed
  <2>7. j \in 1..n /\ g \in 1..n /\ archive[j].tag = "FILE"
    BY <2>6 DEF Tagged
  <2>8. g = i
    BY <1>2, <1>4, <2>1, <2>6, <2>7, OnlyDefinition
  <2>9. j \in (i + 1)..Len(archive)
    BY <1>1, <1>2, <2>6, <2>7, <2>8
  <2> QED
    BY <2>2, <2>4, <2>7, <2>9 DEF WellFormedChunk
<1>7. ASSUME NEW i \in Tagged("DIRE", N) \union Tagged("FILE", N) PROVE WellFormedPath(i)
  <2>1. /\ Tagged("DIRE", Len(archive)) = Tagged("DIRE", n)
        /\ Tagged("FILE", Len(archive)) = Tagged("FILE", n)
    BY <1>2, <1>3
  <2>2. i \in Tagged("DIRE", n) \union Tagged("FILE", n)
    BY <1>3
  <2>3. archive[i].path \in Paths
    BY <2>2 DEF Paths, Gathered, CatalogOf
  <2>4. \A j \in Tagged("FILE", n) : ~IsAncestor(archive[j].path, archive[i].path)
    <3> SUFFICES ASSUME NEW j \in Tagged("FILE", n)
                 PROVE  ~IsAncestor(archive[j].path, archive[i].path)
      OBVIOUS
    <3>1. archive[j] \in Range(fileList)
      BY DEF Gathered, CatalogOf
    <3> QED
      BY <1>2, <2>3, <3>1
  <2>5. /\ Readable(archive[i].path)
        /\ \A j \in Tagged("DIRE", n) \union Tagged("FILE", n) :
             j # i => archive[j].path # archive[i].path
    BY <1>4, <2>2 DEF PrefixFormed
  <2> QED
    BY <2>1, <2>4, <2>5 DEF WellFormedPath
<1>8. ASSUME NEW i \in Tagged("FILE", N) PROVE WellFormedFile(i)
  BY <1>2, <1>3, <1>4, FileFormedIsWellFormed
<1>9. archive[N].stats = TrueStats
  BY <1>1, <1>2, StatsAgree
<1>10. Fits(TrueStats)
  <2>1. TallyOf(n) /\ DOMAIN TrueStats = CounterNames /\ ExpectedStats = TrueStats
    BY <1>2, <1>9, TrueStatsAre DEF Gathered
  <2>2. \A c \in TallyNames : tally[c] \in 0..CounterMax
    BY <2>1 DEF TallyOf
  <2>3. \A c \in {"files", "directories", "entries", "chunk_references", "original_bytes",
                  "stored_bytes"} : TrueStats[c] <= CounterMax
    BY <2>1, <2>2, ExpectedStatsAre, TallyNamesAre, BoundAssumption
  <2>4. TrueStats["deduplicated_bytes"] <= CounterMax
    <3>1. /\ TrueStats["deduplicated_bytes"] = tally["referenced_logical"] - UniqueLogical
          /\ tally["referenced_logical"] \in 0..CounterMax /\ UniqueLogical \in Nat
      BY <1>2, <2>1, <2>2, ExpectedStatsAre, TallyNamesAre, UniqueCounted
    <3> QED
      BY <3>1, BoundAssumption
  <2>5. TrueStats["unique_chunks"] <= CounterMax
    <3>1. TrueStats["unique_chunks"] = Cardinality(Tagged("CHNK", n))
      BY <2>1, ExpectedStatsAre DEF Gathered, CatalogOf
    <3>2. PICK D, f : D = Tagged("CHNK", n) /\ f = [i \in D |-> PayloadOf[i]]
      OBVIOUS
    <3>3. \A i \in D : PayloadOf[i] \in Nat /\ PayloadOf[i] >= 1
      <4> SUFFICES ASSUME NEW i \in D PROVE PayloadOf[i] \in Nat /\ PayloadOf[i] >= 1
        OBVIOUS
      <4>1. archive[i] \in ChunkStored /\ PayloadOf[i] = archive[i].payload /\ PayloadOf[i] \in Nat
        BY <1>2, <3>2, Fields, FieldValues
      <4>2. ChunkHeaderValid(archive[i])
        BY <1>4, <3>2 DEF PrefixFormed
      <4>3. archive[i].size \in Nat /\ archive[i].payload \in Nat
            /\ archive[i].method \in {"zstd", "store"}
        BY <4>1 DEF ChunkStored
      <4>4. archive[i].payload >= 1
        BY <4>2, <4>3, BoundAssumption DEF ChunkHeaderValid
      <4> QED
        BY <4>1, <4>4
    <3>4. IsFiniteSet(D)
      BY <3>2, TaggedStep
    <3>5. f \in [D -> Nat] /\ \A i \in D : f[i] >= 1
      BY <3>2, <3>3
    <3>6. Cardinality(D) <= SumFunction(f) /\ SumFunction(f) \in Nat /\ Cardinality(D) \in Nat
      BY <3>4, <3>5, SumCounts, SumType, FS_CardinalityType
    <3>7. SumFunction(f) = tally["stored_bytes"]
      BY <2>1, <3>2 DEF TallyOf, SumTo
    <3>8. tally["stored_bytes"] <= CounterMax
      BY <2>2, TallyNamesAre, BoundAssumption
    <3> QED
      BY <3>1, <3>2, <3>6, <3>7, <3>8, BoundAssumption
  <2> QED
    BY <2>1, <2>3, <2>4, <2>5, CounterNamesAre DEF Fits
<1>11. /\ \A i \in Tagged("CHNK", Len(archive)) : WellFormedChunk(i)
       /\ \A i \in Tagged("DIRE", Len(archive)) \union Tagged("FILE", Len(archive)) : WellFormedPath(i)
       /\ \A i \in Tagged("FILE", Len(archive)) : WellFormedFile(i)
  BY <1>2, <1>6, <1>7, <1>8
<1>12. /\ Len(archive) >= 2
       /\ \A i \in 2..(Len(archive) - 1) : archive[i].tag \in {"CHNK", "DIRE", "FILE"}
       /\ archive[Len(archive)].tag = "RGXF" /\ archive[Len(archive)].stats = TrueStats
  BY <1>2, <1>5, <1>9
<1> QED
  BY <1>4, <1>10, <1>11, <1>12 DEF WellFormed

\* Every statistic of a part is within the whole's, which fits.
LEMMA TotalsFit ==
  ASSUME archive \in Seq(StoredRecord), WellFormed
  PROVE  LET N == Len(archive) IN
         /\ Cardinality(Tagged("FILE", N)) <= CounterMax
         /\ Cardinality(Tagged("DIRE", N)) <= CounterMax
         /\ Cardinality(Tagged("FILE", N)) + Cardinality(Tagged("DIRE", N)) <= CounterMax
         /\ SumTo(RefsOf, "FILE", N) <= CounterMax
         /\ SumTo(SizeOf, "FILE", N) <= CounterMax
         /\ SumTo(PayloadOf, "CHNK", N) <= CounterMax
         /\ SumTo(SizeOf, "CHNK", N) <= SumTo(SizeOf, "FILE", N)
<1>1. PICK N \in Nat : N = Len(archive)
  OBVIOUS
<1>2. /\ \A c \in CounterNames : TrueStats[c] <= CounterMax
      /\ archive[N].tag = "RGXF" /\ archive[N].stats = TrueStats /\ N >= 2
  BY <1>1, TrueStatsAre DEF WellFormed, Fits
<1>3. archive[N] \in FooterType
  BY <1>1, <1>2, StoredAt
<1>4. TrueStats["deduplicated_bytes"] >= 0
  BY <1>2, <1>3, CounterNamesAre DEF FooterType
<1>5. \A i \in Tagged("FILE", N) : SizeOf[i] \in Nat /\ RefsOf[i] \in Nat
  BY <1>1, FieldValues
<1>6. \A i \in Tagged("CHNK", N) : SizeOf[i] \in Nat /\ PayloadOf[i] \in Nat
  BY <1>1, FieldValues
<1>7. SumTo(SizeOf, "FILE", N) \in Nat /\ SumTo(SizeOf, "CHNK", N) \in Nat
  BY <1>5, <1>6, SumToMonotone
<1>8. /\ TrueStats["files"] <= CounterMax /\ TrueStats["directories"] <= CounterMax
      /\ TrueStats["entries"] <= CounterMax /\ TrueStats["chunk_references"] <= CounterMax
      /\ TrueStats["original_bytes"] <= CounterMax /\ TrueStats["stored_bytes"] <= CounterMax
  BY <1>2, CounterNamesAre
<1>9. SumTo(SizeOf, "CHNK", N) <= SumTo(SizeOf, "FILE", N)
  BY <1>1, <1>4, <1>7, TrueStatsAre
<1> QED
  BY <1>1, <1>8, <1>9, TrueStatsAre

\* What the format asks of record i, after those before it.
RecordFormed(i) ==
  /\ archive[i].tag = "CHNK" =>
       ChunkHeaderValid(archive[i]) /\ \A j \in 1..(i - 1) : ~Defines(j, archive[i].hash)
  /\ archive[i].tag \in {"DIRE", "FILE"} =>
       /\ Readable(archive[i].path)
       /\ \A j \in Tagged("DIRE", i - 1) \union Tagged("FILE", i - 1) :
            archive[j].path # archive[i].path
  /\ archive[i].tag = "FILE" => FileFormed(i)

\* No statistic of the first n records passes its ceiling.
Fitting(n) ==
  /\ Cardinality(Tagged("FILE", n)) + Cardinality(Tagged("DIRE", n)) <= CounterMax
  /\ SumTo(RefsOf, "FILE", n) <= CounterMax
  /\ SumTo(SizeOf, "FILE", n) <= CounterMax
  /\ SumTo(PayloadOf, "CHNK", n) <= CounterMax

\* Such a record passes the checks of the scan.
LEMMA FormedIsAccepted ==
  ASSUME archive \in Seq(StoredRecord), NEW n \in Nat, n >= 1, n + 1 <= Len(archive), Gathered(n),
         pos = n + 1, archive[n + 1].tag \in {"CHNK", "DIRE", "FILE"}, RecordFormed(n + 1),
         Fitting(n + 1)
  PROVE  Accepted(archive[pos])
<1>1. PICK m \in Nat : m = n + 1
  OBVIOUS
<1>4. m \in 1..Len(archive) /\ m <= Len(archive) /\ m = pos /\ m - 1 = n
  BY <1>1
<1>f. RecordFormed(m) /\ Fitting(m)
  BY <1>1
<1>t. \A t : Tagged(t, n) \subseteq 1..n /\ (archive[m].tag = t => m \in Tagged(t, m))
  BY <1>1 DEF Tagged
<1>0. archive[m].tag \in {"CHNK", "DIRE", "FILE"} /\ m # 1 /\ TallyOf(n)
  BY <1>1 DEF Gathered
<1>2. /\ tally \in [TallyNames -> Nat] /\ tally \in [TallyNames -> 0..CounterMax]
      /\ "entries" \in TallyNames /\ "files" \in TallyNames /\ "directories" \in TallyNames
      /\ "original_bytes" \in TallyNames /\ "chunk_references" \in TallyNames
      /\ "stored_bytes" \in TallyNames /\ "referenced_logical" \in TallyNames
  BY <1>0, TallyNamesAre, BoundAssumption DEF TallyOf
<1>3. ASSUME archive[m].tag \in {"DIRE", "FILE"} PROVE PathAccepted(archive[m].path)
  <2>1. /\ Readable(archive[m].path)
        /\ \A j \in Tagged("DIRE", n) \union Tagged("FILE", n) : archive[j].path # archive[m].path
    BY <1>3, <1>4, <1>f DEF RecordFormed
  <2>2. archive[m].path \notin Paths
    BY <2>1 DEF Gathered, CatalogOf, Paths
  <2> QED
    BY <2>1, <2>2 DEF PathAccepted
<1>5. CASE archive[m].tag = "CHNK"
  <2>1. ChunkHeaderValid(archive[m]) /\ \A j \in 1..n : ~Defines(j, archive[m].hash)
    BY <1>4, <1>5, <1>f DEF RecordFormed
  <2>2. archive[m].hash \notin DOMAIN chunkMap
    <3> SUFFICES ASSUME NEW i \in Tagged("CHNK", n), archive[i].hash = archive[m].hash PROVE FALSE
      BY DEF Gathered, CatalogOf
    <3>1. i \in 1..n /\ Defines(i, archive[m].hash)
      BY <1>t DEF Defines, Tagged
    <3> QED
      BY <2>1, <3>1
  <2>3. /\ \A i \in Tagged("CHNK", m) : PayloadOf[i] \in Nat
        /\ PayloadOf[m] = archive[m].payload /\ archive[m].payload \in Nat
    BY <1>4, <1>5, <1>t, FieldValues
  <2>4. SumTo(PayloadOf, "CHNK", m) = SumTo(PayloadOf, "CHNK", n) + archive[m].payload
    BY <1>1, <1>5, <2>3, SumToStep
  <2>5. PICK u : u = ChunkTally(archive[m])
    OBVIOUS
  <2>6. ChunkCounted(tally, archive[m].payload, u)
    <3>1. /\ tally \in [TallyNames -> Nat] /\ archive[m].payload \in Nat
          /\ u = Add(tally, "stored_bytes", archive[m].payload)
      BY <1>2, <2>3, <2>5 DEF ChunkTally
    <3> QED
      BY ONLY <3>1, ChunkTallied
  <2>7. u["stored_bytes"] <= CounterMax
    BY <1>0, <1>f, <2>4, <2>6 DEF ChunkCounted, TallyOf, Fitting
  <2>8. Fits(u)
    <3> SUFFICES ASSUME NEW c \in TallyNames PROVE u[c] <= CounterMax
      BY <2>6 DEF Fits, ChunkCounted
    <3>1. CASE c = "stored_bytes"
      BY <2>7, <3>1
    <3>2. CASE c # "stored_bytes"
      BY <1>2, <2>6, <3>2, BoundAssumption DEF ChunkCounted
    <3> QED
      BY <3>1, <3>2
  <2>9. ChunkAccepted(archive[m])
    BY <1>5, <2>1, <2>2, <2>5, <2>8 DEF ChunkAccepted
  <2> QED
    BY <1>0, <1>4, <2>9 DEF Accepted
<1>6. CASE archive[m].tag = "DIRE"
  <2>1. /\ Cardinality(Tagged("DIRE", m)) = Cardinality(Tagged("DIRE", n)) + 1
        /\ Cardinality(Tagged("FILE", m)) = Cardinality(Tagged("FILE", n))
        /\ Cardinality(Tagged("DIRE", n)) \in Nat /\ Cardinality(Tagged("FILE", n)) \in Nat
    BY <1>1, <1>6, TaggedStep
  <2>2. tally["entries"] + 1 <= CounterMax /\ tally["directories"] + 1 <= CounterMax
    BY <1>0, <1>f, <2>1, BoundAssumption DEF Fitting, TallyOf
  <2>3. PICK f, u : f = Add(tally, "entries", 1) /\ u = DirectoryTally
    OBVIOUS
  <2>4. /\ f \in [TallyNames -> Nat] /\ f["entries"] = tally["entries"] + 1
        /\ \A c \in TallyNames \ {"entries"} : f[c] = tally[c]
    BY <1>2, <2>3 DEF Add
  <2>5. /\ u \in [TallyNames -> Nat] /\ u["directories"] = f["directories"] + 1
        /\ \A c \in TallyNames \ {"directories"} : u[c] = f[c]
    <3>1. u = Add(f, "directories", 1)
      BY <2>3 DEF DirectoryTally
    <3>2. f \in [TallyNames -> Nat] /\ "directories" \in TallyNames
      BY <1>2, <2>4
    <3> QED
      BY ONLY <3>1, <3>2 DEF Add
  <2>6. Fits(u)
    <3> SUFFICES ASSUME NEW c \in TallyNames PROVE u[c] <= CounterMax
      BY <2>5 DEF Fits
    <3>1. CASE c \in {"entries", "directories"}
      BY <1>2, <2>2, <2>4, <2>5, <3>1
    <3>2. CASE c \notin {"entries", "directories"}
      BY <1>2, <2>4, <2>5, <3>2, BoundAssumption
    <3> QED
      BY <3>1, <3>2
  <2>7. DirectoryAccepted(archive[m])
    BY <1>3, <1>6, <2>3, <2>6 DEF DirectoryAccepted
  <2> QED
    BY <1>0, <1>4, <2>7 DEF Accepted
<1>7. CASE archive[m].tag = "FILE"
  <2>1. FileFormed(m)
    BY <1>7, <1>f DEF RecordFormed
  <2>2. PICK d \in [DOMAIN archive[m].refs -> 1..(m - 1)] :
          /\ \A k \in DOMAIN archive[m].refs : Defines(d[k], archive[m].refs[k])
          /\ archive[m].size = SumFunction([k \in DOMAIN archive[m].refs |-> archive[d[k]].size])
    BY <2>1 DEF FileFormed
  <2>3. ASSUME NEW k \in DOMAIN archive[m].refs
        PROVE  /\ archive[m].refs[k] \in DOMAIN chunkMap
               /\ chunkMap[archive[m].refs[k]].size = archive[d[k]].size
    <3>1. d[k] \in 1..n /\ Defines(d[k], archive[m].refs[k])
      BY <1>4, <2>2
    <3>2. d[k] \in Tagged("CHNK", n) /\ archive[d[k]].hash = archive[m].refs[k]
      BY <3>1 DEF Defines, Tagged
    <3>3. chunkMap[archive[d[k]].hash] = [at |-> d[k], size |-> archive[d[k]].size]
          /\ archive[d[k]].hash \in DOMAIN chunkMap
      BY <3>2 DEF Gathered, CatalogOf
    <3> QED
      BY <3>2, <3>3
  <2>4. Range(archive[m].refs) \subseteq DOMAIN chunkMap
    BY <2>3 DEF Range
  <2>5. LogicalSize(archive[m].refs) = archive[m].size
    <3>1. [k \in DOMAIN archive[m].refs |-> chunkMap[archive[m].refs[k]].size] =
            [k \in DOMAIN archive[m].refs |-> archive[d[k]].size]
      BY <2>3
    <3> QED
      BY <2>2, <3>1 DEF LogicalSize
  <2>6. /\ \A i \in Tagged("FILE", m) : SizeOf[i] \in Nat /\ RefsOf[i] \in Nat
        /\ SizeOf[m] = archive[m].size /\ RefsOf[m] = Len(archive[m].refs)
        /\ archive[m].size \in Nat /\ Len(archive[m].refs) \in Nat
    BY <1>4, <1>7, <1>t, FieldValues
  <2>7. SumTo(SizeOf, "FILE", m) = SumTo(SizeOf, "FILE", n) + archive[m].size
    BY <1>1, <1>7, <2>6, SumToStep, SMTT(30)
  <2>8. SumTo(RefsOf, "FILE", m) = SumTo(RefsOf, "FILE", n) + Len(archive[m].refs)
    BY <1>1, <1>7, <2>6, SumToStep
  <2>9. /\ Cardinality(Tagged("FILE", m)) = Cardinality(Tagged("FILE", n)) + 1
        /\ Cardinality(Tagged("DIRE", m)) = Cardinality(Tagged("DIRE", n))
        /\ Cardinality(Tagged("DIRE", n)) \in Nat /\ Cardinality(Tagged("FILE", n)) \in Nat
    BY <1>1, <1>7, TaggedStep
  <2>10. tally["entries"] + 1 <= CounterMax /\ tally["files"] + 1 <= CounterMax
    BY <1>0, <1>f, <2>9, BoundAssumption DEF Fitting, TallyOf
  <2>11. PICK u : u = FileTally(archive[m])
    OBVIOUS
  <2>12. /\ archive[m].size \in Nat /\ Len(archive[m].refs) \in Nat /\ tally \in [TallyNames -> Nat]
         /\ u = Add(Add(Add(Add(Add(tally, "entries", 1), "files", 1),
                                "original_bytes", archive[m].size),
                            "chunk_references", Len(archive[m].refs)),
                        "referenced_logical", archive[m].size)
    BY <1>2, <2>6, <2>11 DEF FileTally
  <2>13. FileCounted(tally, archive[m].size, Len(archive[m].refs), u)
    BY ONLY <2>12, FileTallied
  <2>14. /\ u["original_bytes"] = SumTo(SizeOf, "FILE", m)
         /\ u["referenced_logical"] = SumTo(SizeOf, "FILE", m)
         /\ u["chunk_references"] = SumTo(RefsOf, "FILE", m)
    BY <1>0, <2>7, <2>8, <2>13 DEF FileCounted, TallyOf
  <2>15. u["entries"] <= CounterMax /\ u["files"] <= CounterMax
    BY <2>10, <2>13 DEF FileCounted
  <2>16. u["directories"] <= CounterMax /\ u["stored_bytes"] <= CounterMax
    BY <1>2, <2>13, BoundAssumption DEF FileCounted
  <2>17. Fits(u)
    BY <1>f, <2>13, <2>14, <2>15, <2>16, TallyNamesAre DEF Fits, FileCounted, Fitting
  <2>18. FileAccepted(archive[m])
    BY <1>3, <1>7, <2>1, <2>4, <2>5, <2>11, <2>17 DEF FileAccepted, FileFormed
  <2> QED
    BY <1>0, <1>4, <2>18 DEF Accepted
<1> QED
  BY <1>0, <1>5, <1>6, <1>7

\* Backward: the scan goes on as long as the archive is what the format says.
LEMMA WellFormedIsAccepted ==
  ASSUME archive \in Seq(StoredRecord), NEW n \in Nat, n <= Len(archive), Gathered(n),
         BodyTo(n), pos = n + 1, WellFormed
  PROVE  pos \in DOMAIN archive /\ Accepted(archive[pos])
<1>1. PICK m \in Nat, N \in Nat : m = n + 1 /\ N = Len(archive)
  OBVIOUS
<1>2. /\ N >= 2 /\ archive[1] = Header /\ archive[N].tag = "RGXF" /\ archive[N].stats = TrueStats
      /\ \A i \in 2..(N - 1) : archive[i].tag \in {"CHNK", "DIRE", "FILE"}
      /\ \A i \in Tagged("CHNK", N) : WellFormedChunk(i)
      /\ \A i \in Tagged("DIRE", N) \union Tagged("FILE", N) : WellFormedPath(i)
      /\ \A i \in Tagged("FILE", N) : WellFormedFile(i)
  BY <1>1 DEF WellFormed
<1>3. n # N
  BY <1>1, <1>2 DEF BodyTo
<1>4. m \in 1..N /\ m <= Len(archive) /\ n <= N /\ m = pos /\ DOMAIN archive = 1..N
  BY <1>1, <1>3
<1>t. \A t : /\ Tagged(t, n) \subseteq Tagged(t, N) /\ Tagged(t, n) \subseteq 1..n
             /\ archive[m].tag = t => m \in Tagged(t, N)
  BY <1>1, <1>4 DEF Tagged
<1>5. CASE m = 1
  BY <1>2, <1>4, <1>5 DEF Accepted
<1>6. CASE m = N
  <2>1. archive[m].tag = "RGXF" /\ n + 1 = Len(archive)
    BY <1>1, <1>2, <1>6
  <2>2. ExpectedStats = TrueStats
    BY <1>1, <2>1, StatsAgree
  <2>3. archive[N] \in FooterType
    BY <1>1, <1>2, StoredAt
  <2>4. ExpectedStats["deduplicated_bytes"] >= 0
    BY <1>2, <2>2, <2>3, CounterNamesAre DEF FooterType
  <2>5. \A t \in {"CHNK", "DIRE", "FILE"} : Tagged(t, N) = Tagged(t, n)
    BY <1>1, <1>6, <2>1, TaggedStep
  <2>6. \A f \in Range(fileList), p \in Paths : ~IsAncestor(f.path, p)
    <3> SUFFICES ASSUME NEW f \in Range(fileList), NEW p \in Paths PROVE ~IsAncestor(f.path, p)
      OBVIOUS
    <3>1. PICK j \in Tagged("FILE", N) : f = archive[j]
      BY <2>5 DEF Gathered, CatalogOf
    <3>2. PICK i \in Tagged("DIRE", N) \union Tagged("FILE", N) : p = archive[i].path
      BY <2>5 DEF Gathered, CatalogOf, Paths
    <3>3. WellFormedPath(i)
      BY <1>2
    <3>4. CASE i # j
      BY <1>1, <3>1, <3>2, <3>3, <3>4 DEF WellFormedPath
    <3>5. CASE i = j
      <4>1. archive[j] \in FileStored
        BY <1>1, <3>1, Fields
      <4>2. Len(archive[j].path) \in Nat
        BY <4>1 DEF FileStored, Path
      <4> QED
        BY <3>1, <3>2, <3>5, <4>2 DEF IsAncestor
    <3> QED
      BY <3>4, <3>5
  <2>7. Cardinality(referenced) = Cardinality(DOMAIN chunkMap)
    <3>1. DOMAIN chunkMap \subseteq referenced
      <4> SUFFICES ASSUME NEW i \in Tagged("CHNK", N) PROVE archive[i].hash \in referenced
        BY <2>5 DEF Gathered, CatalogOf
      <4>1. PICK j \in (i + 1)..N : archive[j].tag = "FILE" /\ archive[i].hash \in Range(archive[j].refs)
        BY <1>1, <1>2 DEF WellFormedChunk
      <4>2. j \in Tagged("FILE", N)
        BY <4>1 DEF Tagged
      <4> QED
        BY <2>5, <4>1, <4>2 DEF Gathered, CatalogOf
    <3>2. referenced \subseteq DOMAIN chunkMap
      BY ReferencesKnown
    <3>3. referenced = DOMAIN chunkMap
      BY <3>1, <3>2
    <3> QED
      BY <3>3
  <2>8. UniqueLogical <= CounterMax
    <3>1. UniqueLogical = SumTo(SizeOf, "CHNK", N) /\ UniqueLogical \in Nat
      BY <1>1, <1>4, <2>5, UniqueCounted DEF SumTo
    <3>2. /\ SumTo(SizeOf, "FILE", N) <= CounterMax
          /\ SumTo(SizeOf, "CHNK", N) <= SumTo(SizeOf, "FILE", N)
      BY <1>1, TotalsFit
    <3>3. \A i \in Tagged("FILE", N) : SizeOf[i] \in Nat
      BY <1>1, FieldValues
    <3>4. SumTo(SizeOf, "FILE", N) \in Nat
      BY <1>1, <3>3, SumToMonotone
    <3> QED
      BY <3>1, <3>2, <3>4, BoundAssumption
  <2>9. FooterAccepted(archive[m])
    BY <1>1, <1>2, <1>4, <1>6, <2>1, <2>2, <2>4, <2>6, <2>7, <2>8 DEF FooterAccepted
  <2> QED
    BY <1>2, <1>4, <1>6, <2>9 DEF Accepted
<1>7. CASE m \in 2..(N - 1)
  <2>1. archive[m].tag \in {"CHNK", "DIRE", "FILE"} /\ n >= 1
    BY <1>1, <1>2, <1>7
  <2>2. RecordFormed(m)
    <3>1. ASSUME archive[m].tag = "CHNK"
          PROVE  ChunkHeaderValid(archive[m]) /\ \A j \in 1..(m - 1) : ~Defines(j, archive[m].hash)
      BY <1>2, <1>t, <3>1 DEF WellFormedChunk
    <3>2. ASSUME archive[m].tag \in {"DIRE", "FILE"}
          PROVE  /\ Readable(archive[m].path)
                 /\ \A i \in Tagged("DIRE", m - 1) \union Tagged("FILE", m - 1) :
                      archive[i].path # archive[m].path
      <4>1. WellFormedPath(m) /\ m - 1 = n
        BY <1>1, <1>2, <1>t, <3>2
      <4>2. ASSUME NEW i \in Tagged("DIRE", n) \union Tagged("FILE", n)
            PROVE  i # m /\ (i \in Tagged("DIRE", N) \/ i \in Tagged("FILE", N))
        BY <1>1, <1>t
      <4> QED
        BY <1>1, <4>1, <4>2 DEF WellFormedPath
    <3>3. ASSUME archive[m].tag = "FILE" PROVE FileFormed(m)
      BY <1>2, <1>t, <3>3, WellFormedIsFileFormed
    <3> QED
      BY <3>1, <3>2, <3>3 DEF RecordFormed
  <2>3. Fitting(m)
    <3>1. /\ \A i \in Tagged("CHNK", N) : PayloadOf[i] \in Nat
          /\ \A i \in Tagged("FILE", N) : SizeOf[i] \in Nat /\ RefsOf[i] \in Nat
      BY <1>1, FieldValues
    <3>2. /\ SumTo(PayloadOf, "CHNK", m) <= SumTo(PayloadOf, "CHNK", N)
          /\ SumTo(PayloadOf, "CHNK", m) \in Nat /\ SumTo(PayloadOf, "CHNK", N) \in Nat
      BY <1>4, <3>1, SumToMonotone
    <3>3. /\ SumTo(SizeOf, "FILE", m) <= SumTo(SizeOf, "FILE", N)
          /\ SumTo(RefsOf, "FILE", m) <= SumTo(RefsOf, "FILE", N)
          /\ SumTo(SizeOf, "FILE", m) \in Nat /\ SumTo(SizeOf, "FILE", N) \in Nat
          /\ SumTo(RefsOf, "FILE", m) \in Nat /\ SumTo(RefsOf, "FILE", N) \in Nat
      BY <1>4, <3>1, SumToMonotone
    <3>4. /\ Cardinality(Tagged("FILE", m)) <= Cardinality(Tagged("FILE", N))
          /\ Cardinality(Tagged("DIRE", m)) <= Cardinality(Tagged("DIRE", N))
          /\ Cardinality(Tagged("FILE", m)) \in Nat /\ Cardinality(Tagged("FILE", N)) \in Nat
          /\ Cardinality(Tagged("DIRE", m)) \in Nat /\ Cardinality(Tagged("DIRE", N)) \in Nat
      BY <1>4, CountMonotone
    <3>5. /\ Cardinality(Tagged("FILE", N)) + Cardinality(Tagged("DIRE", N)) <= CounterMax
          /\ SumTo(RefsOf, "FILE", N) <= CounterMax
          /\ SumTo(SizeOf, "FILE", N) <= CounterMax
          /\ SumTo(PayloadOf, "CHNK", N) <= CounterMax
      BY <1>1, TotalsFit
    <3>6. CounterMax \in Nat
      BY BoundAssumption
    <3>7. SumTo(PayloadOf, "CHNK", m) <= CounterMax
      BY <3>2, <3>5, <3>6
    <3>8. SumTo(SizeOf, "FILE", m) <= CounterMax /\ SumTo(RefsOf, "FILE", m) <= CounterMax
      BY <3>3, <3>5, <3>6
    <3>9. Cardinality(Tagged("FILE", m)) + Cardinality(Tagged("DIRE", m)) <= CounterMax
      BY <3>4, <3>5, <3>6
    <3> QED
      BY <3>7, <3>8, <3>9 DEF Fitting
  <2> QED
    BY <1>1, <1>4, <2>1, <2>2, <2>3, FormedIsAccepted
<1> QED
  BY <1>4, <1>5, <1>6, <1>7

-----------------------------------------------------------------------------
(* The invariant of the scan                                                 *)

Scanned(n) ==
  /\ pos = n + 1 /\ n <= Len(archive)
  /\ Gathered(n)
  /\ verdict = "none" => BodyTo(n)
  /\ verdict = "accepted" => n = Len(archive)

ScanInv ==
  /\ archive \in Seq(StoredRecord)
  /\ rpc \in {"idle", "scan", "plan", "mkdir", "files", "done"}
  /\ op \in OperationType
  /\ verdict \in {"none", "accepted", "rejected"}
  /\ outcome \in {"none", "ok", "error"}
  /\ \E n \in Nat : Scanned(n)
  /\ rpc \in {"idle", "scan"} => verdict = "none"
  /\ rpc \in {"plan", "mkdir", "files"} => verdict = "accepted"
  /\ verdict = "accepted" => WellFormed

Refusal == verdict = "rejected" => ~WellFormed

\* It holds before anything is read.
LEMMA ScanInitial == archive \in Seq(StoredRecord) /\ ReadInit => ScanInv
<1> SUFFICES ASSUME archive \in Seq(StoredRecord), ReadInit PROVE ScanInv
  OBVIOUS
<1>1. \A t : Tagged(t, 0) = {}
  BY DEF Tagged
<1>2. PrefixFormed(0)
  BY <1>1 DEF PrefixFormed
<1>3. CatalogOf(0)
  <2>1. Cardinality({}) = 0 /\ IsFiniteSet({}) /\ Cardinality(Tagged("CHNK", 0)) = 0
    BY <1>1, FS_EmptySet
  <2>2. DOMAIN chunkMap = {} /\ fileList = <<>> /\ dirSet = {} /\ referenced = {}
    BY DEF ReadInit
  <2>3. fileList \in Seq(FileStored) /\ Range(fileList) = {}
    BY <2>2 DEF Range
  <2>4. /\ DOMAIN chunkMap = {archive[i].hash : i \in Tagged("CHNK", 0)}
        /\ Range(fileList) = {archive[i] : i \in Tagged("FILE", 0)}
        /\ dirSet = {archive[i].path : i \in Tagged("DIRE", 0)}
        /\ referenced = UNION {Range(archive[i].refs) : i \in Tagged("FILE", 0)}
    BY <1>1, <2>2, <2>3
  <2>5. \A j, k \in DOMAIN fileList : j # k => fileList[j].path # fileList[k].path
    BY <2>2
  <2>6. \A i \in Tagged("CHNK", 0) : chunkMap[archive[i].hash] = [at |-> i, size |-> archive[i].size]
    BY <1>1
  <2> QED
    BY <2>1, <2>2, <2>3, <2>4, <2>5, <2>6 DEF CatalogOf
<1>4. TallyOf(0)
  <2>1. \A t : Cardinality(Tagged(t, 0)) = 0
    BY <1>1, FS_EmptySet
  <2>2. \A v, t : SumTo(v, t, 0) = 0
    BY SumToNothing
  <2>3. tally \in [TallyNames -> 0..CounterMax] /\ \A c \in TallyNames : tally[c] = 0
    BY BoundAssumption DEF ReadInit
  <2>4. UniqueLogical = 0
    <3>1. DOMAIN [h \in DOMAIN chunkMap |-> chunkMap[h].size] = {}
      BY DEF ReadInit
    <3> QED
      BY <3>1, SumEmpty DEF UniqueLogical
  <2> QED
    BY <2>1, <2>2, <2>3, <2>4, TallyNamesAre DEF TallyOf
<1>5. Scanned(0)
  <2>1. BodyTo(0) /\ pos = 0 + 1 /\ 0 <= Len(archive)
    BY DEF BodyTo, ReadInit
  <2> QED
    BY <1>2, <1>3, <1>4, <2>1 DEF Scanned, Gathered, ReadInit
<1>6. op \in OperationType
  BY DEF ReadInit, OperationType
<1> QED
  BY <1>5, <1>6 DEF ScanInv, ReadInit

\* What depends on the archive alone stays while the archive does.
LEMMA FormatKept ==
  ASSUME UNCHANGED archive
  PROVE  /\ WellFormed' <=> WellFormed
         /\ \A n : BodyTo(n)' <=> BodyTo(n)
<1>1. archive' = archive
  OBVIOUS
<1>2. \A t, n : Tagged(t, n)' = Tagged(t, n)
  BY <1>1 DEF Tagged
<1>3. \A i : WellFormedChunk(i)' <=> WellFormedChunk(i)
  BY <1>1 DEF WellFormedChunk, ChunkHeaderValid, Defines
<1>4. \A i : WellFormedPath(i)' <=> WellFormedPath(i)
  BY <1>1 DEF WellFormedPath, Readable, IsAncestor, Tagged
<1>5. \A i : WellFormedFile(i)' <=> WellFormedFile(i)
  BY <1>1 DEF WellFormedFile, Defines
<1>6. /\ TrueStats' = TrueStats /\ Fits(TrueStats)' = Fits(TrueStats)
      /\ Header' = Header
  BY <1>1 DEF TrueStats, Declared, DeclaredRefs, Tagged, Fits, CounterNames, Header
<1>7. WellFormed' <=> WellFormed
  BY <1>1, <1>2, <1>3, <1>4, <1>5, <1>6 DEF WellFormed
<1> QED
  BY <1>1, <1>7 DEF BodyTo

\* The catalog stays while nothing touches it or the records behind it.
LEMMA GatheredGrows ==
  ASSUME archive \in Seq(StoredRecord), archive' \in Seq(StoredRecord), NEW n \in Nat,
         n <= Len(archive), n <= Len(archive'), \A i \in 1..n : archive'[i] = archive[i],
         Gathered(n), UNCHANGED scanVars
  PROVE  Gathered(n)'
<1>0. /\ chunkMap' = chunkMap /\ referenced' = referenced
      /\ fileList' = fileList /\ dirSet' = dirSet /\ tally' = tally
  BY DEF scanVars
<1>1. /\ \A t : Tagged(t, n)' = Tagged(t, n)
      /\ PrefixFormed(n) => PrefixFormed(n)'
      /\ SumTo(SizeOf, "FILE", n)' = SumTo(SizeOf, "FILE", n)
      /\ SumTo(SizeOf, "CHNK", n)' = SumTo(SizeOf, "CHNK", n)
      /\ SumTo(PayloadOf, "CHNK", n)' = SumTo(PayloadOf, "CHNK", n)
      /\ SumTo(RefsOf, "FILE", n)' = SumTo(RefsOf, "FILE", n)
  BY PrefixKept
<1>2. \A t : \A i \in Tagged(t, n) : archive'[i] = archive[i]
  BY DEF Tagged
<1>3. CatalogOf(n)'
  <2>0. /\ \A i \in Tagged("CHNK", n) : archive'[i] = archive[i]
        /\ \A i \in Tagged("FILE", n) : archive'[i] = archive[i]
        /\ \A i \in Tagged("DIRE", n) : archive'[i] = archive[i]
        /\ Tagged("CHNK", n)' = Tagged("CHNK", n)
        /\ Tagged("FILE", n)' = Tagged("FILE", n)
        /\ Tagged("DIRE", n)' = Tagged("DIRE", n)
    BY <1>1, <1>2
  <2>1. (fileList \in Seq(FileStored))'
    BY <1>0 DEF Gathered, CatalogOf, FileStored, Bytes, Path
  <2>2. (/\ DOMAIN chunkMap = {archive[i].hash : i \in Tagged("CHNK", n)}
         /\ \A i \in Tagged("CHNK", n) :
              chunkMap[archive[i].hash] = [at |-> i, size |-> archive[i].size])'
    BY <1>0, <2>0 DEF Gathered, CatalogOf
  <2>3. (/\ IsFiniteSet(DOMAIN chunkMap)
         /\ Cardinality(DOMAIN chunkMap) = Cardinality(Tagged("CHNK", n)))'
    BY <1>0, <2>0 DEF Gathered, CatalogOf
  <2>4. (/\ Range(fileList) = {archive[i] : i \in Tagged("FILE", n)}
         /\ \A j, k \in DOMAIN fileList : j # k => fileList[j].path # fileList[k].path)'
    BY <1>0, <2>0 DEF Gathered, CatalogOf
  <2>5. (/\ referenced = UNION {Range(archive[i].refs) : i \in Tagged("FILE", n)}
         /\ dirSet = {archive[i].path : i \in Tagged("DIRE", n)})'
    BY <1>0, <2>0, SMTT(30) DEF Gathered, CatalogOf
  <2> QED
    BY <2>1, <2>2, <2>3, <2>4, <2>5 DEF CatalogOf
<1>4. TallyOf(n)'
  <2>1. UniqueLogical' = UniqueLogical
    BY <1>0 DEF UniqueLogical
  <2> QED
    BY <1>0, <1>1, <2>1, TallyNamesAre DEF Gathered, TallyOf, TallyNames, CounterNames
<1> QED
  BY <1>1, <1>3, <1>4 DEF Gathered

\* And while the archive stays, all of it does.
LEMMA GatheredKept ==
  ASSUME archive \in Seq(StoredRecord), NEW n \in Nat, n <= Len(archive), Gathered(n),
         UNCHANGED <<archive, scanVars>>
  PROVE  Gathered(n)'
<1>1. archive' = archive /\ UNCHANGED scanVars
  OBVIOUS
<1>2. archive' \in Seq(StoredRecord) /\ n <= Len(archive') /\ \A i \in 1..n : archive'[i] = archive[i]
  BY <1>1
<1> QED
  BY <1>1, <1>2, GatheredGrows

\* What does not scan leaves the catalog as it is.
LEMMA ScanRests ==
  ASSUME ScanInv, UNCHANGED <<archive, pos, scanVars, verdict>>,
         rpc' \in {"idle", "scan", "plan", "mkdir", "files", "done"},
         op' \in OperationType, outcome' \in {"none", "ok", "error"},
         rpc' \in {"idle", "scan"} => verdict = "none",
         rpc' \in {"plan", "mkdir", "files"} => verdict = "accepted"
  PROVE  ScanInv'
<1>0. archive' = archive /\ pos' = pos /\ verdict' = verdict
  OBVIOUS
<1>1. archive' \in Seq(StoredRecord)
  BY <1>0 DEF ScanInv
<1>2. PICK n \in Nat : Scanned(n)
  BY DEF ScanInv
<1>3. Gathered(n)'
  BY <1>2, GatheredKept DEF ScanInv, Scanned
<1>4. Scanned(n)'
  BY <1>0, <1>2, <1>3, FormatKept DEF Scanned
<1>5. WellFormed' <=> WellFormed
  BY <1>0, FormatKept
<1>6. (archive \in Seq(StoredRecord))'
  BY <1>1 DEF StoredRecord, Bytes, Header, Torn, DirectoryRecordType, FooterType, Path
<1>7. (op \in OperationType)'
  BY DEF OperationType
<1> QED
  BY <1>0, <1>4, <1>5, <1>6, <1>7 DEF ScanInv

\* The types the scan keeps, said of the next state.
LEMMA TypesNext ==
  ASSUME ScanInv, UNCHANGED <<archive, op>>
  PROVE  (archive \in Seq(StoredRecord))' /\ (op \in OperationType)'
BY DEF ScanInv, StoredRecord, Bytes, Header, Torn, DirectoryRecordType, FooterType, Path,
       OperationType

\* The header passes.
LEMMA ScanHeader ==
  ASSUME ScanInv, ReadHeader, UNCHANGED archive
  PROVE  ScanInv'
<1>0. /\ archive' = archive /\ rpc' = rpc /\ verdict' = verdict /\ outcome' = outcome /\ op' = op
      /\ pos = 1 /\ pos' = 2 /\ rpc = "scan" /\ 1 \in DOMAIN archive /\ archive[1] = Header
      /\ UNCHANGED <<archive, scanVars>>
  BY DEF ReadHeader, Advance
<1>1. PICK n \in Nat : Scanned(n)
  BY DEF ScanInv
<1>2. n = 0 /\ Gathered(0) /\ verdict = "none" /\ archive \in Seq(StoredRecord) /\ 1 <= Len(archive)
  BY <1>0, <1>1 DEF Scanned, ScanInv
<1>3. Gathered(1)
  <2>1. archive[0 + 1].tag \notin {"CHNK", "DIRE", "FILE"} /\ 0 + 1 \in DOMAIN archive
    BY <1>0 DEF Header
  <2>2. Gathered(0 + 1)
    BY <1>0, <1>2, <2>1, NothingGathered
  <2> QED
    BY <2>2
<1>4. Gathered(1)'
  BY <1>0, <1>2, <1>3, GatheredKept
<1>5. Scanned(1)'
  BY <1>0, <1>2, <1>4 DEF Scanned, BodyTo
<1>6. (archive \in Seq(StoredRecord))' /\ (op \in OperationType)'
  BY <1>0, TypesNext
<1> QED
  BY <1>0, <1>2, <1>5, <1>6 DEF ScanInv

\* A record of the body: what was gathered grows by one.
LEMMA ScanBody ==
  ASSUME ScanInv, Advance, pos > 1, UNCHANGED <<archive, rpc, verdict>>,
         archive[pos].tag \in {"CHNK", "DIRE", "FILE"},
         \A n \in Nat : pos = n + 1 /\ n >= 1 /\ n + 1 \in DOMAIN archive /\ Gathered(n)
                          => Gathered(n + 1)'
  PROVE  ScanInv'
<1>0. /\ archive' = archive /\ rpc' = rpc /\ verdict' = verdict /\ outcome' = outcome /\ op' = op
      /\ pos' = pos + 1 /\ rpc = "scan" /\ pos \in DOMAIN archive
  BY DEF Advance
<1>1. PICK n \in Nat : Scanned(n)
  BY DEF ScanInv
<1>2. /\ pos = n + 1 /\ Gathered(n) /\ verdict = "none" /\ archive \in Seq(StoredRecord)
      /\ BodyTo(n) /\ n >= 1 /\ n + 1 \in DOMAIN archive /\ n + 1 <= Len(archive)
  BY <1>0, <1>1 DEF Scanned, ScanInv
<1>3. Gathered(n + 1)'
  BY <1>2
<1>4. BodyTo(n + 1)
  BY <1>2 DEF BodyTo
<1>5. PICK m \in Nat : m = n + 1
  BY <1>2
<1>6. Gathered(m)' /\ BodyTo(m)'
  BY <1>0, <1>3, <1>4, <1>5, FormatKept
<1>7. Scanned(m)'
  BY <1>0, <1>2, <1>5, <1>6 DEF Scanned
<1>8. (archive \in Seq(StoredRecord))' /\ (op \in OperationType)'
  BY <1>0, TypesNext
<1> QED
  BY <1>0, <1>2, <1>7, <1>8 DEF ScanInv

\* The footer passes: the archive is what the format says.
LEMMA ScanFooterStep ==
  ASSUME ScanInv, ScanFooter, UNCHANGED archive
  PROVE  ScanInv'
<1>0. /\ archive' = archive /\ rpc = "scan" /\ rpc' = "plan" /\ verdict' = "accepted"
      /\ outcome' = outcome /\ op' = op /\ pos' = pos + 1 /\ pos \in DOMAIN archive /\ pos > 1
      /\ FooterAccepted(archive[pos]) /\ UNCHANGED <<archive, scanVars>>
  BY DEF ScanFooter, Advance
<1>1. PICK n \in Nat : Scanned(n)
  BY DEF ScanInv
<1>2. /\ pos = n + 1 /\ Gathered(n) /\ verdict = "none" /\ archive \in Seq(StoredRecord)
      /\ BodyTo(n) /\ n >= 1 /\ n + 1 \in DOMAIN archive /\ n + 1 <= Len(archive)
  BY <1>0, <1>1 DEF Scanned, ScanInv
<1>3. FooterAccepted(archive[n + 1]) /\ n + 1 = Len(archive) /\ archive[n + 1].tag = "RGXF"
  BY <1>0, <1>2 DEF FooterAccepted
<1>4. WellFormed
  BY <1>2, <1>3, AcceptedIsWellFormed
<1>5. Gathered(n + 1)
  BY <1>2, <1>3, NothingGathered
<1>6. PICK m \in Nat : m = n + 1
  BY <1>2
<1>7. Gathered(m)' /\ m <= Len(archive)
  BY <1>0, <1>2, <1>5, <1>6, GatheredKept
<1>8. Scanned(m)'
  BY <1>0, <1>2, <1>3, <1>6, <1>7 DEF Scanned
<1>9. (archive \in Seq(StoredRecord))' /\ (op \in OperationType)'
  BY <1>0, TypesNext
<1>10. WellFormed'
  BY <1>0, <1>4, FormatKept
<1> QED
  BY <1>0, <1>8, <1>9, <1>10 DEF ScanInv

\* A record is refused, or none is left: the archive is not.
LEMMA ScanRejectsStep ==
  ASSUME ScanInv, ScanRejects, UNCHANGED archive
  PROVE  ScanInv' /\ Refusal'
<1>0. /\ archive' = archive /\ rpc = "scan" /\ rpc' = "done" /\ verdict' = "rejected"
      /\ outcome' = "error" /\ op' = op /\ pos' = pos
      /\ pos \in DOMAIN archive => ~Accepted(archive[pos])
      /\ UNCHANGED <<archive, scanVars>>
  BY DEF ScanRejects, Fail
<1>1. PICK n \in Nat : Scanned(n)
  BY DEF ScanInv
<1>2. /\ pos = n + 1 /\ Gathered(n) /\ verdict = "none" /\ archive \in Seq(StoredRecord)
      /\ BodyTo(n) /\ n <= Len(archive)
  BY <1>0, <1>1 DEF Scanned, ScanInv
<1>3. Gathered(n)'
  BY <1>0, <1>2, GatheredKept
<1>4. Scanned(n)'
  BY <1>0, <1>2, <1>3 DEF Scanned
<1>5. (archive \in Seq(StoredRecord))' /\ (op \in OperationType)'
  BY <1>0, TypesNext
<1>6. ~WellFormed
  BY <1>0, <1>2, WellFormedIsAccepted
<1> QED
  BY <1>0, <1>4, <1>5, <1>6, FormatKept DEF ScanInv, Refusal

\* The scan's invariant lasts, whatever the operation does next.
LEMMA ScanInvStep ==
  ASSUME ScanInv, [ReadNext /\ UNCHANGED archive]_readingVars
  PROVE  ScanInv'
<1>0. CASE UNCHANGED readingVars
  <2>1. UNCHANGED <<archive, pos, scanVars, verdict>> /\ rpc' = rpc /\ op' = op /\ outcome' = outcome
    BY <1>0 DEF readingVars, readVars
  <2> QED
    BY <2>1, ScanRests DEF ScanInv
<1> SUFFICES ASSUME ReadNext, UNCHANGED archive PROVE ScanInv'
  BY <1>0
<1>1. ASSUME NEW o \in Operations, Open(o) PROVE ScanInv'
  BY <1>1, ScanRests, OperationAssumption DEF Open, ScanInv
<1>2. CASE ReadHeader
  BY <1>2, ScanHeader
<1>3. CASE ScanChunk
  <2>0. ChunkAccepted(archive[pos]) /\ Advance /\ pos > 1 /\ archive \in Seq(StoredRecord)
    BY <1>3 DEF ScanChunk, ScanInv
  <2>1. ASSUME NEW n \in Nat, pos = n + 1, n >= 1, n + 1 \in DOMAIN archive, Gathered(n)
        PROVE  Gathered(n + 1)'
    <3>1. /\ chunkMap' = [h \in DOMAIN chunkMap \union {archive[n + 1].hash} |->
                            IF h = archive[n + 1].hash
                            THEN [at |-> n + 1, size |-> archive[n + 1].size] ELSE chunkMap[h]]
          /\ tally' = ChunkTally(archive[n + 1]) /\ UNCHANGED <<archive, referenced, fileList, dirSet>>
      BY <1>3, <2>1 DEF ScanChunk
    <3> QED
      BY <2>0, <2>1, <3>1, ChunkGathered
  <2>2. archive[pos].tag = "CHNK" /\ UNCHANGED <<archive, rpc, verdict>>
    BY <1>3, <2>0 DEF ScanChunk, ChunkAccepted
  <2> QED
    BY <2>0, <2>1, <2>2, ScanBody
<1>4. CASE ScanDirectory
  <2>0. DirectoryAccepted(archive[pos]) /\ Advance /\ pos > 1 /\ archive \in Seq(StoredRecord)
    BY <1>4 DEF ScanDirectory, ScanInv
  <2>1. ASSUME NEW n \in Nat, pos = n + 1, n >= 1, n + 1 \in DOMAIN archive, Gathered(n)
        PROVE  Gathered(n + 1)'
    <3>1. /\ dirSet' = dirSet \union {archive[n + 1].path} /\ tally' = DirectoryTally
          /\ UNCHANGED <<archive, chunkMap, referenced, fileList>>
      BY <1>4, <2>1 DEF ScanDirectory
    <3> QED
      BY <2>0, <2>1, <3>1, DirectoryGathered
  <2>2. archive[pos].tag = "DIRE" /\ UNCHANGED <<archive, rpc, verdict>>
    BY <1>4, <2>0 DEF ScanDirectory, DirectoryAccepted
  <2> QED
    BY <2>0, <2>1, <2>2, ScanBody
<1>5. CASE ScanFile
  <2>0. FileAccepted(archive[pos]) /\ Advance /\ pos > 1 /\ archive \in Seq(StoredRecord)
    BY <1>5 DEF ScanFile, ScanInv
  <2>1. ASSUME NEW n \in Nat, pos = n + 1, n >= 1, n + 1 \in DOMAIN archive, Gathered(n)
        PROVE  Gathered(n + 1)'
    <3>1. /\ fileList' = Append(fileList, archive[n + 1])
          /\ referenced' = referenced \union Range(archive[n + 1].refs)
          /\ tally' = FileTally(archive[n + 1])
          /\ UNCHANGED <<archive, chunkMap, dirSet>>
      BY <1>5, <2>1 DEF ScanFile
    <3> QED
      BY <2>0, <2>1, <3>1, FileGathered
  <2>2. archive[pos].tag = "FILE" /\ UNCHANGED <<archive, rpc, verdict>>
    BY <1>5, <2>0 DEF ScanFile, FileAccepted
  <2> QED
    BY <2>0, <2>1, <2>2, ScanBody
<1>6. CASE ScanFooter
  BY <1>6, ScanFooterStep
<1>7. CASE ScanRejects
  BY <1>7, ScanRejectsStep
<1>8. CASE PlanStep
  <2>0. ScanInv /\ UNCHANGED archive /\ OperationType = OperationType
    OBVIOUS
  <2>1. /\ UNCHANGED <<pos, scanVars, verdict>> /\ op' = op /\ rpc' \in {"mkdir", "files", "done"}
        /\ rpc \in {"plan", "mkdir"} /\ outcome' \in {"none", "ok", "error"}
    BY <1>8 DEF PlanStep, ReportInfo, PlanFiles, NotFound, MakeDestination, MakeDirectories, Fail,
                Succeed, ScanInv
  <2> QED
    BY <2>1, ScanRests DEF ScanInv
<1>9. CASE FileStep
  <2>1. /\ UNCHANGED <<pos, scanVars, verdict>> /\ op' = op /\ rpc' \in {"files", "done"}
        /\ rpc = "files" /\ outcome' \in {"none", "ok", "error"}
    BY <1>9 DEF FileStep, StartEntry, ReadChunk, ChunkDamaged, FinishEntry, FileDamaged, ReportFiles,
                Rebuilding, Fail, Succeed, ScanInv
  <2> QED
    BY <2>1, ScanRests DEF ScanInv
<1>10. CASE ReadError
  BY <1>10, ScanRests DEF ReadError, Fail, ScanInv
<1> QED
  BY <1>1, <1>2, <1>3, <1>4, <1>5, <1>6, <1>7, <1>8, <1>9, <1>10 DEF ReadNext, ScanStep

\* A refusal stays justified.
LEMMA RefusalStep ==
  ASSUME ScanInv, Refusal, [ReadNext /\ UNCHANGED archive]_readingVars
  PROVE  Refusal'
<1>1. archive' = archive /\ UNCHANGED archive
  BY DEF readingVars
<1>2. CASE ReadNext /\ ScanRejects
  BY <1>1, <1>2, ScanRejectsStep
<1>3. CASE verdict' # "rejected"
  BY <1>3 DEF Refusal
<1>4. CASE verdict' = verdict
  BY <1>1, <1>4, FormatKept DEF Refusal
<1>5. (ScanRejects /\ ReadNext) \/ verdict' = "accepted" \/ verdict' = verdict
  <2>1. ASSUME ReadNext, ~ScanRejects PROVE verdict' = "accepted" \/ verdict' = verdict
    <3>1. CASE \E o \in Operations : Open(o)
      BY <3>1 DEF Open
    <3>2. CASE ScanStep
      BY <2>1, <3>2 DEF ScanStep, ReadHeader, ScanChunk, ScanDirectory, ScanFile, ScanFooter
    <3>3. CASE PlanStep
      BY <3>3 DEF PlanStep, ReportInfo, PlanFiles, NotFound, MakeDestination, MakeDirectories,
                  Succeed
    <3>4. CASE FileStep
      BY <3>4 DEF FileStep, StartEntry, ReadChunk, ChunkDamaged, FinishEntry, FileDamaged,
                  ReportFiles, Succeed
    <3>5. CASE ReadError
      BY <3>5 DEF ReadError
    <3> QED
      BY <2>1, <3>1, <3>2, <3>3, <3>4, <3>5 DEF ReadNext
  <2> QED
    BY <2>1 DEF readingVars, readVars
<1> QED
  BY <1>2, <1>3, <1>4, <1>5

\* The verdict of scan_archive_reader is that of the format: for archives of
\* any length, any limits and any order of records, what is accepted is
\* well-formed and what is refused is not.
THEOREM ScanDecidesTheFormat == ReadAlone => []ScanMatchesFormat
<1>1. archive \in Seq(StoredRecord) /\ ReadInit => ScanInv /\ Refusal
  BY ScanInitial DEF ReadInit, Refusal
<1>2. ScanInv /\ Refusal /\ [ReadNext /\ UNCHANGED archive]_readingVars => ScanInv' /\ Refusal'
  BY ScanInvStep, RefusalStep
<1>3. ScanInv /\ Refusal => ScanMatchesFormat
  BY DEF ScanInv, Refusal, ScanMatchesFormat
<1> QED
  BY <1>1, <1>2, <1>3, PTL DEF ReadAlone

-----------------------------------------------------------------------------
(* Paths and the wanted files                                                *)

\* A path is below another, or the same, when it starts with it.
LEMMA SelectedIsWanted ==
  ASSUME op \in OperationType, NEW p \in Path
  PROVE  Selected(p) <=> Wanted(p)
<1>1. op.sel \in Seq(Name) /\ p \in Seq(Name) /\ Len(op.sel) \in Nat /\ Len(p) \in Nat
  BY DEF OperationType, Path
<1>2. SubSeq(p, 1, Len(p)) = p
  BY <1>1, SubSeqFull
<1>3. SubSeq(p, 1, 0) = <<>>
  BY SubSeqEmpty
<1>4. CASE op.sel = <<>>
  BY <1>1, <1>3, <1>4 DEF Selected, Wanted
<1>5. CASE op.sel # <<>>
  <2>1. Len(op.sel) = Len(p) /\ SubSeq(p, 1, Len(op.sel)) = op.sel => p = op.sel
    BY <1>2
  <2> QED
    BY <1>1, <1>2, <1>5, <2>1 DEF Selected, Wanted, IsAncestor
<1> QED
  BY <1>4, <1>5

\* create_dir_all of a path makes the path and what is above it.
LEMMA ParentsAreAbove ==
  ASSUME NEW p \in Path
  PROVE  /\ \A d \in WithParents(p) : d = p \/ IsAncestor(d, p)
         /\ p \in WithParents(p)
         /\ \A d \in WithParents(Parent(p)) : IsAncestor(d, p)
<1>1. p \in Seq(Name) /\ Len(p) \in Nat \ {0} /\ DOMAIN p = 1..Len(p)
  BY DEF Path
<1>2. SubSeq(p, 1, Len(p)) = p
  BY <1>1, SubSeqFull
<1>3. ASSUME NEW n \in 1..Len(p) PROVE Len(SubSeq(p, 1, n)) = n
  <2>1. \A i \in 1..n : p[i] \in Name
    BY <1>1
  <2> QED
    BY <2>1, SubSeqProperties
<1>4. ASSUME NEW n \in 1..(Len(p) - 1) PROVE IsAncestor(SubSeq(p, 1, n), p)
  BY <1>1, <1>3, <1>4 DEF IsAncestor
<1>5. ASSUME NEW d \in WithParents(p) PROVE d = p \/ IsAncestor(d, p)
  <2>1. PICK n \in 1..Len(p) : d = SubSeq(p, 1, n)
    BY DEF WithParents
  <2>2. CASE n = Len(p)
    <3>1. d = p
      BY ONLY <1>2, <2>1, <2>2, Zenon
    <3> QED
      BY ONLY <3>1
  <2>3. CASE n # Len(p)
    <3>1. n \in 1..(Len(p) - 1)
      <4>1. PICK m \in Nat : m = Len(p)
        BY <1>1
      <4>2. n \in 1..m /\ n # m
        BY ONLY <2>1, <2>3, <4>1, Zenon
      <4> QED
        BY ONLY <4>1, <4>2, m \in Nat, SMTT(30)
    <3>2. IsAncestor(d, p)
      BY ONLY <1>4, <2>1, <3>1, Zenon
    <3> QED
      BY ONLY <3>2
  <2> QED
    BY <2>2, <2>3
<1>6. p \in WithParents(p)
  <2>1. Len(p) \in 1..Len(p)
    BY <1>1
  <2> QED
    BY ONLY <1>2, <2>1, Zenon DEF WithParents
<1>7. ASSUME NEW d \in WithParents(Parent(p)) PROVE IsAncestor(d, p)
  <2>1. PICK n \in 1..Len(Parent(p)) : d = SubSeq(Parent(p), 1, n)
    BY DEF WithParents
  <2>2. CASE Len(p) = 1
    <3>1. Parent(p) = <<>>
      BY <2>2, SubSeqEmpty DEF Parent
    <3> QED
      BY <2>1, <3>1
  <2>3. CASE Len(p) # 1
    <3>1. PICK m \in Nat : m = Len(p) - 1 /\ m \in 1..Len(p)
      <4>1. Len(p) - 1 \in Nat /\ Len(p) - 1 \in 1..Len(p)
        BY <1>1, <2>3
      <4> QED
        BY ONLY <4>1
    <3>2. Parent(p) = SubSeq(p, 1, m) /\ Len(Parent(p)) = m
      BY <1>3, <3>1 DEF Parent
    <3>3. SubSeq(SubSeq(p, 1, m), 1, n) = SubSeq(p, 1 + 1 - 1, 1 + n - 1)
      <4>1. 1 \in 1..Len(p) /\ 1 \in 1..(m - 1 + 1) /\ n \in 1..(m - 1 + 1)
        BY <2>1, <3>1, <3>2
      <4> QED
        BY <1>1, <3>1, <4>1, SubSeqOfSubSeq
    <3>4. d = SubSeq(p, 1, n) /\ n \in 1..(Len(p) - 1)
      BY <2>1, <3>1, <3>2, <3>3
    <3> QED
      BY <1>4, <3>4
  <2> QED
    BY <2>2, <2>3
<1> QED
  BY <1>5, <1>6, <1>7

\* The wanted files among the first n.
IsKept(g, N) ==
  g = [n \in 0..N |->
         IF n = 0 THEN <<>>
         ELSE IF Wanted(fileList[n].path) THEN Append(g[n - 1], fileList[n]) ELSE g[n - 1]]

\* There is a function that collects them.
LEMMA KeptExists ==
  ASSUME NEW N \in Nat
  PROVE  \E g : IsKept(g, N)
<1> DEFINE S == {m \in Nat : \E g : IsKept(g, m)}
<1>1. 0 \in S
  <2>1. IsKept([n \in 0..0 |-> <<>>], 0)
    BY DEF IsKept
  <2> QED
    BY <2>1
<1>2. ASSUME NEW m \in S PROVE m + 1 \in S
  <2>1. PICK g : IsKept(g, m)
    OBVIOUS
  <2> DEFINE Value(n) == IF n = 0 THEN <<>>
                         ELSE IF Wanted(fileList[n].path) THEN Append(g[n - 1], fileList[n])
                                                          ELSE g[n - 1]
             h == [n \in 0..(m + 1) |-> Value(n)]
  <2>2. ASSUME NEW n \in 0..m PROVE g[n] = Value(n)
    <3> DEFINE F == [k \in 0..m |-> Value(k)]
    <3>1. g = F /\ F[n] = Value(n)
      BY <2>1 DEF IsKept
    <3> QED
      BY <3>1
  <2>3. ASSUME NEW n \in 0..(m + 1), n # 0 PROVE g[n - 1] = h[n - 1]
    <3>1. n - 1 \in 0..m /\ n - 1 \in 0..(m + 1)
      BY <2>3
    <3> HIDE DEF Value
    <3>2. h[n - 1] = Value(n - 1)
      BY <3>1
    <3> QED
      BY <2>2, <3>1, <3>2
  <2>4. ASSUME NEW n \in 0..(m + 1)
        PROVE  Value(n) = IF n = 0 THEN <<>>
                          ELSE IF Wanted(fileList[n].path) THEN Append(h[n - 1], fileList[n])
                                                           ELSE h[n - 1]
    <3> HIDE DEF h
    <3> QED
      BY <2>3
  <2>5. IsKept(h, m + 1)
    <3> HIDE DEF Value
    <3> QED
      BY <2>4 DEF IsKept
  <2> HIDE DEF h
  <2>6. m + 1 \in Nat
    OBVIOUS
  <2> QED
    BY <2>5, <2>6
<1>3. S = Nat
  BY <1>1, <1>2, SetInduction
<1> QED
  BY <1>3

\* WantedFiles is its value at the end.
LEMMA WantedFilesKept ==
  ASSUME fileList \in Seq(FileStored)
  PROVE  \E g : IsKept(g, Len(fileList)) /\ WantedFiles = g[Len(fileList)]
<1> DEFINE h == CHOOSE g : IsKept(g, Len(fileList))
<1>1. Len(fileList) \in Nat
  OBVIOUS
<1>2. IsKept(h, Len(fileList))
  BY <1>1, KeptExists
<1>3. WantedFiles = h[Len(fileList)]
  BY DEF WantedFiles, IsKept
<1> QED
  BY <1>2, <1>3

\* The files of a sequence, no two with one path.
Files(s) == s \in Seq(FileStored) /\ \A j, k \in DOMAIN s : j # k => s[j].path # s[k].path

\* The files that are wanted are planned, each once.
LEMMA WantedFilesAre ==
  ASSUME Files(fileList)
  PROVE  /\ Files(WantedFiles)
         /\ Range(WantedFiles) = {f \in Range(fileList) : Wanted(f.path)}
<1>1. PICK g : IsKept(g, Len(fileList)) /\ WantedFiles = g[Len(fileList)]
  BY WantedFilesKept DEF Files
<1>2. PICK N \in Nat : N = Len(fileList)
  BY DEF Files
<1>3. /\ fileList \in Seq(FileStored) /\ DOMAIN fileList = 1..N
      /\ \A j, k \in 1..N : j # k => fileList[j].path # fileList[k].path
      /\ \A j \in 1..N : fileList[j] \in FileStored
  BY <1>2 DEF Files
<1>4. \A n \in 0..N :
        g[n] = IF n = 0 THEN <<>>
               ELSE IF Wanted(fileList[n].path) THEN Append(g[n - 1], fileList[n]) ELSE g[n - 1]
  <2> DEFINE F == [n \in 0..N |->
                     IF n = 0 THEN <<>>
                     ELSE IF Wanted(fileList[n].path) THEN Append(g[n - 1], fileList[n])
                                                      ELSE g[n - 1]]
  <2>1. g = F
    BY <1>1, <1>2 DEF IsKept
  <2>2. \A n \in 0..N : F[n] = IF n = 0 THEN <<>>
               ELSE IF Wanted(fileList[n].path) THEN Append(g[n - 1], fileList[n]) ELSE g[n - 1]
    OBVIOUS
  <2> HIDE DEF F
  <2> QED
    BY <2>1, <2>2
<1> DEFINE Those(n) == {fileList[k] : k \in {j \in 1..n : Wanted(fileList[j].path)}}
           Good(n) == Files(g[n]) /\ Range(g[n]) = Those(n)
           S == {n \in Nat : n <= N => Good(n)}
<1>5. 0 \in S
  <2>1. g[0] = <<>>
    BY <1>4
  <2>2. Range(<<>>) = {} /\ Those(0) = {}
    BY DEF Range
  <2>3. Files(<<>>)
    BY DEF Files
  <2> QED
    BY <2>1, <2>2, <2>3
<1>6. ASSUME NEW n \in S PROVE n + 1 \in S
  <2> SUFFICES ASSUME n + 1 <= N PROVE Good(n + 1)
    OBVIOUS
  <2>1. PICK m \in 1..N : m = n + 1
    BY <1>2
  <2>2. /\ Good(n) /\ m \in 0..N /\ m # 0 /\ m - 1 = n
        /\ g[m] = IF Wanted(fileList[m].path) THEN Append(g[n], fileList[m]) ELSE g[n]
    BY <1>4, <2>1
  <2>3. CASE ~Wanted(fileList[m].path)
    <3>1. Those(m) = Those(n)
      BY <2>1, <2>3
    <3> QED
      BY <2>1, <2>2, <2>3, <3>1
  <2>4. CASE Wanted(fileList[m].path)
    <3>1. Those(m) = Those(n) \union {fileList[m]}
      BY <2>1, <2>4
    <3>2. PICK s : s = g[n] /\ g[m] = Append(s, fileList[m]) /\ fileList[m] \in FileStored
      BY <1>3, <2>2, <2>4
    <3>3. Files(s) /\ Range(s) = Those(n)
      BY <2>2, <3>2
    <3>4. /\ s \in Seq(FileStored) /\ DOMAIN s = 1..Len(s) /\ Len(s) \in Nat
          /\ \A j \in 1..Len(s) : s[j] \in Range(s)
      BY <3>3 DEF Files, Range
    <3>5. \A j \in 1..Len(s) : s[j].path # fileList[m].path
      <4>1. ASSUME NEW j \in 1..Len(s) PROVE s[j].path # fileList[m].path
        <5>1. s[j] \in Those(n)
          BY <3>3, <3>4
        <5>2. PICK k \in 1..n : s[j] = fileList[k]
          BY <5>1
        <5>3. k \in 1..N /\ k # m
          BY <1>2, <2>1, <5>2
        <5> QED
          BY <1>3, <2>1, <5>2, <5>3
      <4> QED
        BY <4>1
    <3>6. PICK t : t = Append(s, fileList[m])
      OBVIOUS
    <3>7. /\ t \in Seq(FileStored) /\ DOMAIN t = 1..(Len(s) + 1)
          /\ \A j \in 1..Len(s) : t[j] = s[j]
          /\ t[Len(s) + 1] = fileList[m]
      BY <3>2, <3>4, <3>6
    <3>8. Range(t) = Range(s) \union {fileList[m]}
      <4>1. Range(t) = {t[j] : j \in 1..(Len(s) + 1)} /\ Range(s) = {s[j] : j \in 1..Len(s)}
        BY <3>4, <3>7 DEF Range
      <4>2. 1..(Len(s) + 1) = 1..Len(s) \union {Len(s) + 1}
        BY <3>4
      <4> QED
        BY <3>7, <4>1, <4>2
    <3>9. Files(t)
      <4>1. ASSUME NEW j \in DOMAIN t, NEW k \in DOMAIN t, j # k PROVE t[j].path # t[k].path
        <5>1. \A l \in DOMAIN t : l \in 1..Len(s) \/ l = Len(s) + 1
          BY <3>4, <3>7
        <5>2. CASE j \in 1..Len(s) /\ k \in 1..Len(s)
          BY <3>3, <3>4, <3>7, <4>1, <5>2 DEF Files
        <5>3. CASE j = Len(s) + 1 \/ k = Len(s) + 1
          BY <3>5, <3>7, <4>1, <5>1, <5>3
        <5> QED
          BY <4>1, <5>1, <5>2, <5>3
      <4> QED
        BY <3>7, <4>1 DEF Files
    <3> QED
      BY <2>1, <3>1, <3>2, <3>3, <3>6, <3>8, <3>9
  <2> QED
    BY <2>3, <2>4
<1>7. S = Nat
  <2> HIDE DEF S
  <2> QED
    BY <1>5, <1>6, SetInduction DEF S
<1>8. Good(N)
  BY <1>2, <1>7
<1>9. Those(N) = {f \in Range(fileList) : Wanted(f.path)}
  BY <1>3 DEF Range
<1> QED
  BY <1>1, <1>2, <1>8, <1>9

\* What an accepted archive's catalog holds.
LEMMA CatalogWhole ==
  ASSUME ScanInv, verdict = "accepted"
  PROVE  /\ Files(fileList)
         /\ Range(fileList) = {archive[i] : i \in Tagged("FILE", Len(archive))}
         /\ dirSet = {archive[i].path : i \in Tagged("DIRE", Len(archive))}
         /\ dirSet \subseteq Path
         /\ \A f \in Range(fileList) :
              /\ f \in FileStored /\ f.path \in Path /\ f.path \notin dirSet
              /\ \A p \in Paths : ~IsAncestor(f.path, p)
<1>1. PICK N \in Nat : Scanned(N)
  BY DEF ScanInv
<1>2. N = Len(archive) /\ Gathered(N) /\ archive \in Seq(StoredRecord) /\ WellFormed
  BY <1>1 DEF Scanned, ScanInv
<1>3. /\ Files(fileList)
      /\ Range(fileList) = {archive[i] : i \in Tagged("FILE", N)}
      /\ dirSet = {archive[i].path : i \in Tagged("DIRE", N)}
  BY <1>2 DEF Gathered, CatalogOf, Files
<1>4. /\ \A i \in Tagged("FILE", N) : archive[i] \in FileStored /\ archive[i].path \in Path
      /\ \A i \in Tagged("DIRE", N) : archive[i].path \in Path
  BY <1>2, Fields DEF FileStored, DirectoryRecordType
<1>5. \A i \in Tagged("DIRE", N) \union Tagged("FILE", N) : WellFormedPath(i)
  BY <1>2 DEF WellFormed
<1>6. Tagged("DIRE", N) \intersect Tagged("FILE", N) = {}
  BY DEF Tagged
<1>7. ASSUME NEW i \in Tagged("FILE", N) PROVE archive[i].path \notin dirSet
  BY <1>2, <1>3, <1>5, <1>6 DEF WellFormedPath
<1>8. ASSUME NEW i \in Tagged("FILE", N), NEW p \in Paths PROVE ~IsAncestor(archive[i].path, p)
  <2>1. PICK j \in Tagged("DIRE", N) \union Tagged("FILE", N) : p = archive[j].path
    BY <1>3 DEF Paths
  <2>2. CASE j = i
    BY <1>4, <2>1, <2>2 DEF IsAncestor, Path
  <2>3. CASE j # i
    BY <1>2, <1>5, <2>1, <2>3 DEF WellFormedPath
  <2> QED
    BY <2>2, <2>3
<1> QED
  BY <1>2, <1>3, <1>4, <1>7, <1>8

-----------------------------------------------------------------------------
(* The plan: files of the catalog                                            *)

Planned ==
  /\ work \in Seq(FileStored)
  /\ Range(work) \subseteq Range(fileList)
  /\ current # NoEntry => current \in Range(fileList)
  /\ rpc \in {"idle", "scan", "plan"} => work = <<>> /\ current = NoEntry /\ dest = NoDest
  /\ rpc = "mkdir" => /\ op.kind = "extract" /\ current = NoEntry
                      /\ Files(work) /\ Range(work) = {f \in Range(fileList) : Wanted(f.path)}
                      /\ dest = [made |-> TRUE, dirs |-> {}, files |-> <<>>]
  /\ rpc # "done" => outcome = "none"
  /\ outcome = "ok" => verdict = "accepted"

\* The first of the planned files and the rest.
LEMMA HeadOfFiles ==
  ASSUME NEW s, s \in Seq(FileStored), s # <<>>
  PROVE  /\ Head(s) \in FileStored /\ Tail(s) \in Seq(FileStored)
         /\ Range(s) = Range(Tail(s)) \union {Head(s)}
         /\ Files(s) => /\ Files(Tail(s))
                        /\ \A f \in Range(Tail(s)) : f.path # Head(s).path
<1>1. PICK n \in Nat \ {0} : n = Len(s)
  OBVIOUS
<1>2. PICK t : t = Tail(s)
  OBVIOUS
<1>3. /\ Head(s) = s[1] /\ s[1] \in FileStored /\ DOMAIN s = 1..n
      /\ t \in Seq(FileStored) /\ DOMAIN t = 1..(n - 1) /\ Len(t) = n - 1
      /\ \A i \in 1..(n - 1) : t[i] = s[i + 1]
  BY <1>1, <1>2, HeadTailProperties
<1>4. Range(s) = Range(t) \union {s[1]}
  <2>1. Range(s) = {s[i] : i \in 1..n} /\ Range(t) = {t[i] : i \in 1..(n - 1)}
    BY <1>3 DEF Range
  <2>2. \A i \in 1..n : i = 1 \/ (i - 1 \in 1..(n - 1) /\ t[i - 1] = s[i])
    BY <1>1, <1>3
  <2>3. \A i \in 1..(n - 1) : i + 1 \in 1..n
    BY <1>1
  <2>4. 1 \in 1..n
    BY <1>1
  <2> QED
    BY <1>3, <2>1, <2>2, <2>3, <2>4
<1>5. ASSUME Files(s)
      PROVE  Files(t) /\ \A f \in Range(t) : f.path # s[1].path
  <2>1. \A j, k \in 1..n : j # k => s[j].path # s[k].path
    BY <1>3, <1>5 DEF Files
  <2>2. \A j \in 1..(n - 1) : j + 1 \in 1..n /\ j + 1 # 1 /\ 1 \in 1..n
    BY <1>1
  <2>3. Files(t)
    BY <1>3, <2>1, <2>2 DEF Files
  <2>4. \A j \in 1..(n - 1) : t[j].path # s[1].path
    BY <1>3, <2>1, <2>2
  <2> QED
    BY <1>3, <2>3, <2>4 DEF Range
<1> QED
  BY <1>2, <1>3, <1>4, <1>5

\* No two files of a catalog have one path.
LEMMA OneOfAPath ==
  ASSUME NEW s, Files(s), NEW f \in Range(s), NEW g \in Range(s), f.path = g.path
  PROVE  f = g
BY DEF Files, Range

\* Where the catalog stays, so does what it says of paths.
LEMMA CatalogStays ==
  ASSUME fileList' = fileList, dirSet' = dirSet, op' = op
  PROVE  /\ Range(fileList)' = Range(fileList)
         /\ Paths' = Paths
         /\ \A p : Wanted(p)' <=> Wanted(p)
         /\ FileStored' = FileStored
         /\ \A s : Files(s)' <=> Files(s)
BY DEF Paths, Wanted, IsAncestor, FileStored, Files, Bytes, Path, Range

\* Nothing of the plan changes, or the operation has come to its end.
LEMMA PlanRests ==
  ASSUME Planned, UNCHANGED <<fileList, dirSet, op, verdict, work, current>>,
         \/ rpc' = rpc /\ outcome' = outcome /\ dest' = dest
         \/ rpc' \in {"files", "done"} /\ rpc # "done" /\ (rpc' = "files" => outcome' = "none")
            /\ (outcome' = "ok" => verdict = "accepted")
  PROVE  Planned'
<1>0. fileList' = fileList /\ dirSet' = dirSet /\ op' = op /\ work' = work /\ current' = current
      /\ verdict' = verdict
  OBVIOUS
<1>1. /\ Range(fileList)' = Range(fileList) /\ \A p : Wanted(p)' <=> Wanted(p)
      /\ FileStored' = FileStored /\ \A s : Files(s)' <=> Files(s)
  BY <1>0, CatalogStays
<1>2. Range(work') = Range(work) /\ NoEntry' = NoEntry /\ NoDest' = NoDest
  BY <1>0 DEF NoEntry, NoDest
<1>3. Files(work)' <=> Files(work)
  BY <1>0, <1>1 DEF Files
<1>4. (/\ work \in Seq(FileStored) /\ Range(work) \subseteq Range(fileList)
       /\ current # NoEntry => current \in Range(fileList))'
  BY <1>0, <1>1, <1>2 DEF Planned
<1>5. CASE rpc' = rpc /\ outcome' = outcome /\ dest' = dest
  BY <1>0, <1>1, <1>2, <1>3, <1>4, <1>5 DEF Planned
<1>6. CASE /\ rpc' \in {"files", "done"} /\ rpc # "done" /\ (rpc' = "files" => outcome' = "none")
           /\ (outcome' = "ok" => verdict = "accepted")
  BY <1>0, <1>4, <1>6 DEF Planned
<1> QED
  BY <1>5, <1>6

\* There is no plan at first.
LEMMA PlannedInitial == archive \in Seq(StoredRecord) /\ ReadInit => Planned
<1> SUFFICES ASSUME ReadInit PROVE Planned
  OBVIOUS
<1>1. work = <<>> /\ Range(work) = {} /\ fileList = <<>> /\ current = NoEntry /\ dest = NoDest
      /\ rpc = "idle" /\ outcome = "none"
  BY DEF ReadInit, Range
<1> QED
  BY <1>1 DEF Planned

\* The scan runs before there is a plan.
LEMMA PlanAwaitsScan ==
  ASSUME ScanInv, Planned, rpc \in {"idle", "scan"}, rpc' \in {"scan", "plan", "done"},
         UNCHANGED <<work, current>>,
         \/ rpc' # "done" /\ outcome' = outcome /\ dest' = dest
         \/ rpc' = "done" /\ outcome' = "error"
  PROVE  Planned'
<1>1. work = <<>> /\ current = NoEntry /\ dest = NoDest /\ work' = <<>> /\ current' = NoEntry
      /\ outcome = "none"
  BY DEF Planned
<1>2. NoEntry' = NoEntry /\ NoDest' = NoDest
  BY DEF NoEntry, NoDest
<1>3. Range(work') = {} /\ work' \in Seq(FileStored')
  BY <1>1 DEF Range
<1> QED
  BY <1>1, <1>2, <1>3 DEF Planned

\* The plan holds files of the catalog, and nothing else, throughout.
LEMMA PlannedStep ==
  ASSUME ScanInv, Planned, [ReadNext /\ UNCHANGED archive]_readingVars
  PROVE  Planned'
<1>0. CASE UNCHANGED readingVars
  BY <1>0, PlanRests DEF readingVars, readVars, scanVars, fileVars
<1> SUFFICES ASSUME ReadNext, UNCHANGED archive PROVE Planned'
  BY <1>0
<1>1. ASSUME NEW o \in Operations, Open(o) PROVE Planned'
  BY <1>1, PlanAwaitsScan DEF Open, fileVars
<1>2. CASE ScanStep
  BY <1>2, PlanAwaitsScan
     DEF ScanStep, ReadHeader, ScanChunk, ScanDirectory, ScanFile, ScanFooter, ScanRejects, Advance,
         Fail, fileVars
<1>3. CASE ReadError
  BY <1>3, PlanRests DEF ReadError, Fail, scanVars
<1>4. CASE ReportInfo
  BY <1>4, PlanRests DEF ReportInfo, Succeed, scanVars, ScanInv
<1>5. CASE NotFound
  BY <1>5, PlanRests DEF NotFound, Fail, scanVars
<1>6. CASE PlanFiles
  <2>0. /\ fileList' = fileList /\ dirSet' = dirSet /\ op' = op /\ current' = current /\ rpc = "plan"
        /\ rpc' = "files" /\ outcome' = outcome /\ verdict' = verdict /\ verdict = "accepted"
    BY <1>6 DEF PlanFiles, scanVars, ScanInv
  <2>1. Range(fileList)' = Range(fileList) /\ FileStored' = FileStored
    BY <2>0, CatalogStays
  <2>2. Files(fileList)
    BY <2>0, CatalogWhole
  <2>3. work' \in Seq(FileStored) /\ Range(work') \subseteq Range(fileList)
    <3>1. CASE work' = fileList
      BY <2>2, <3>1 DEF Files
    <3>2. ASSUME NEW k \in CatFiles, work' = <<fileList[k]>>
          PROVE  work' \in Seq(FileStored) /\ Range(work') \subseteq Range(fileList)
      <4>1. k \in DOMAIN fileList
        BY DEF CatFiles
      <4>2. fileList[k] \in Range(fileList) /\ fileList[k] \in FileStored
        BY <2>2, <4>1 DEF Files, Range
      <4>3. Range(<<fileList[k]>>) = {fileList[k]}
        BY DEF Range
      <4> QED
        BY <3>2, <4>2, <4>3
    <3> QED
      BY <1>6, <3>1, <3>2 DEF PlanFiles
  <2>4. NoEntry' = NoEntry /\ outcome = "none" /\ current = NoEntry
    BY <2>0 DEF NoEntry, Planned
  <2> QED
    BY <2>0, <2>1, <2>3, <2>4 DEF Planned
<1>7. CASE MakeDestination
  <2>0. /\ fileList' = fileList /\ dirSet' = dirSet /\ op' = op /\ current' = current /\ rpc = "plan"
        /\ rpc' = "mkdir" /\ outcome' = outcome /\ verdict' = verdict /\ verdict = "accepted"
        /\ work' = WantedFiles /\ op.kind = "extract"
        /\ dest' = [NoDest EXCEPT !.made = TRUE]
    BY <1>7 DEF MakeDestination, scanVars, ScanInv
  <2>1. /\ Range(fileList)' = Range(fileList) /\ FileStored' = FileStored
        /\ \A p : Wanted(p)' <=> Wanted(p) /\ \A s : Files(s)' <=> Files(s)
    BY <2>0, CatalogStays
  <2>2. Files(fileList)
    BY <2>0, CatalogWhole
  <2>3. Files(work') /\ Range(work') = {f \in Range(fileList) : Wanted(f.path)}
    BY <2>0, <2>2, WantedFilesAre
  <2>4. work' \in Seq(FileStored)
    BY <2>3 DEF Files
  <2>5. Files(work)'
    BY <2>3, <2>1 DEF Files
  <2>6. NoEntry' = NoEntry /\ outcome = "none" /\ current = NoEntry
    BY <2>0 DEF NoEntry, Planned
  <2>7. dest' = [made |-> TRUE, dirs |-> {}, files |-> <<>>]
    BY <2>0 DEF NoDest
  <2>8. {f \in Range(fileList) : Wanted(f.path)}' = {f \in Range(fileList) : Wanted(f.path)}
    BY <2>1
  <2>9. (Range(work) = {f \in Range(fileList) : Wanted(f.path)})' /\ Range(work') \subseteq Range(fileList)
    BY <2>3, <2>8
  <2> QED
    BY <2>0, <2>1, <2>4, <2>5, <2>6, <2>7, <2>9 DEF Planned
<1>8. CASE MakeDirectories
  BY <1>8, PlanRests DEF MakeDirectories, scanVars, Planned
<1>9. CASE StartEntry
  <2>0. /\ fileList' = fileList /\ dirSet' = dirSet /\ op' = op /\ rpc = "files" /\ rpc' = "files"
        /\ outcome' = outcome /\ verdict' = verdict /\ current' = Head(work) /\ work' = Tail(work)
        /\ work # <<>>
    BY <1>9 DEF StartEntry, scanVars
  <2>1. Range(fileList)' = Range(fileList) /\ FileStored' = FileStored
    BY <2>0, CatalogStays
  <2>2. Tail(work) \in Seq(FileStored) /\ Range(work) = Range(Tail(work)) \union {Head(work)}
    BY <2>0, HeadOfFiles DEF Planned
  <2>3. work' \in Seq(FileStored) /\ Range(work') \subseteq Range(fileList) /\ current' \in Range(fileList)
    BY <2>0, <2>2 DEF Planned
  <2>4. outcome = "none"
    BY <2>0 DEF Planned
  <2> QED
    BY <2>0, <2>1, <2>3, <2>4 DEF Planned
<1>10. CASE ReadChunk
  BY <1>10, PlanRests DEF ReadChunk, Rebuilding, scanVars, Planned
<1>11. CASE ChunkDamaged
  BY <1>11, PlanRests DEF ChunkDamaged, Rebuilding, Fail, scanVars, Planned
<1>12. CASE FinishEntry
  <2>0. /\ fileList' = fileList /\ dirSet' = dirSet /\ op' = op /\ rpc = "files" /\ rpc' = "files"
        /\ outcome' = outcome /\ verdict' = verdict /\ current' = NoEntry /\ work' = work
    BY <1>12 DEF FinishEntry, Rebuilding, scanVars
  <2>1. Range(fileList)' = Range(fileList) /\ FileStored' = FileStored /\ NoEntry' = NoEntry
    BY <2>0, CatalogStays DEF NoEntry
  <2> QED
    BY <2>0, <2>1 DEF Planned
<1>13. CASE FileDamaged
  BY <1>13, PlanRests DEF FileDamaged, Rebuilding, Fail, scanVars, Planned
<1>14. CASE ReportFiles
  BY <1>14, PlanRests DEF ReportFiles, Succeed, scanVars, ScanInv
<1> QED
  BY <1>1, <1>2, <1>3, <1>4, <1>5, <1>6, <1>7, <1>8, <1>9, <1>10, <1>11, <1>12, <1>13, <1>14
     DEF ReadNext, PlanStep, FileStep

\* What the invariants say of types, tallies and the plan.
LEMMA GatheredIsConsistent ==
  ASSUME ScanInv, Planned
  PROVE  ReaderConsistent
<1>1. PICK n \in Nat : Scanned(n)
  BY DEF ScanInv
<1>2. /\ pos = n + 1 /\ n <= Len(archive) /\ Gathered(n) /\ archive \in Seq(StoredRecord)
  BY <1>1 DEF Scanned, ScanInv
<1>3. DedupNotNegative
  BY <1>2, DedupCovered
<1>4. /\ referenced \subseteq DOMAIN chunkMap
      /\ \A j \in Tagged("FILE", n) : Range(archive[j].refs) \subseteq DOMAIN chunkMap
  BY <1>2, ReferencesKnown
<1>5. PlannedChunksKnown
  <2>1. \A f \in Range(fileList) : Range(f.refs) \subseteq DOMAIN chunkMap
    BY <1>2, <1>4 DEF Gathered, CatalogOf
  <2> QED
    BY <2>1 DEF PlannedChunksKnown, Planned
<1>6. ASSUME NEW h \in DOMAIN chunkMap PROVE chunkMap[h] \in [at : Nat, size : 1..MaxChunk]
  <2>1. PICK i \in Tagged("CHNK", n) : h = archive[i].hash
    BY <1>2 DEF Gathered, CatalogOf
  <2>2. chunkMap[h] = [at |-> i, size |-> archive[i].size] /\ ChunkHeaderValid(archive[i])
    BY <1>2, <2>1 DEF Gathered, CatalogOf, PrefixFormed
  <2>3. i \in Nat /\ archive[i].size \in 1..MaxChunk
    BY <2>2 DEF Tagged, ChunkHeaderValid
  <2> QED
    BY <2>2, <2>3
<1>7. dirSet \subseteq Path
  <2>1. \A i \in Tagged("DIRE", n) : archive[i].path \in Path
    BY <1>2, Fields DEF DirectoryRecordType
  <2> QED
    BY <1>2, <2>1 DEF Gathered, CatalogOf
<1>8. ReadTypeOK
  <2>1. tally \in [TallyNames -> 0..CounterMax]
    BY <1>2 DEF Gathered, TallyOf
  <2>2. pos \in Nat \ {0}
    BY <1>2
  <2> QED
    BY <1>4, <1>6, <1>7, <2>1, <2>2 DEF ReadTypeOK, ScanInv
<1> QED
  BY <1>3, <1>5, <1>8 DEF ReaderConsistent

\* Types, tallies and plan fit together throughout: deduplicated_bytes does
\* not go below zero, and no chunk of a planned file is missing.
THEOREM ReaderStaysConsistent == ReadAlone => []ReaderConsistent
<1>1. archive \in Seq(StoredRecord) /\ ReadInit => ScanInv /\ Planned
  BY ScanInitial, PlannedInitial
<1>2. ScanInv /\ Planned /\ [ReadNext /\ UNCHANGED archive]_readingVars => ScanInv' /\ Planned'
  BY ScanInvStep, PlannedStep
<1>3. ScanInv /\ Planned => ReaderConsistent
  BY GatheredIsConsistent
<1> QED
  BY <1>1, <1>2, <1>3, PTL DEF ReadAlone

-----------------------------------------------------------------------------
(* What an extraction and cat have done so far                               *)

\* Every wanted file is still planned, or being rebuilt, or restored, and
\* nothing but what the archive asks for is in the destination.
Restoring ==
  /\ dest = [made |-> dest.made, dirs |-> dest.dirs, files |-> dest.files]
  /\ Files(work)
  /\ \A f \in Range(work) : Wanted(f.path) /\ f.path \notin DOMAIN dest.files
  /\ current # NoEntry => /\ Wanted(current.path) /\ current.path \in DOMAIN dest.files
                          /\ dest.files[current.path] = content
  /\ \A p \in DOMAIN dest.files : \E f \in Range(fileList) : f.path = p /\ Wanted(p)
  /\ \A f \in Range(fileList) : Wanted(f.path) =>
       \/ f \in Range(work) \/ f = current
       \/ f.path \in DOMAIN dest.files /\ dest.files[f.path] = f.hash
  /\ \A d \in dest.dirs : d \in dirSet \/ \E p \in Paths : IsAncestor(d, p)
  /\ \A d \in dirSet : Wanted(d) => d \in dest.dirs

\* cat has planned its file, or is rebuilding it, or returns its bytes.
Catting ==
  \/ /\ current = NoEntry
     /\ \E f \in Range(fileList) : f.path = op.sel /\ work = <<f>>
  \/ current # NoEntry /\ work = <<>> /\ current.path = op.sel
  \/ /\ current = NoEntry /\ work = <<>>
     /\ \E f \in Range(fileList) : f.path = op.sel /\ returned = f.hash

UnderWay == rpc = "files" \/ outcome = "ok"

Delivering ==
  /\ op.kind = "extract" /\ UnderWay => Restoring
  /\ op.kind = "cat" /\ UnderWay => Catting
  /\ op.kind \in {"extract", "cat"} /\ outcome = "ok" => work = <<>> /\ current = NoEntry

\* No planned file has anything in its way.
LEMMA PlannedFileIsFree ==
  ASSUME ScanInv, Planned, Restoring, verdict = "accepted", work # <<>>
  PROVE  TargetFree(Head(work).path)
<1>0. /\ Range(fileList) \subseteq Range(fileList)
      /\ \A f \in Range(fileList) : f.path \in Path /\ f.path \notin dirSet
      /\ \A f \in Range(fileList), p \in Paths : ~IsAncestor(f.path, p)
  BY CatalogWhole
<1>1. PICK f \in Range(work) : f = Head(work)
  BY HeadOfFiles DEF Planned
<1>2. f \in Range(fileList) /\ f.path \notin DOMAIN dest.files /\ f.path \in Paths
  BY <1>1 DEF Planned, Restoring, Paths
<1>3. f.path \notin dest.dirs
  BY <1>0, <1>2 DEF Restoring
<1>4. ASSUME NEW q \in DOMAIN dest.files PROVE ~IsAncestor(q, f.path)
  BY <1>0, <1>2 DEF Restoring
<1> QED
  BY <1>1, <1>2, <1>3, <1>4 DEF TargetFree

\* Where nothing of it changes, what has been done stays.
LEMMA DoneStays ==
  ASSUME UNCHANGED <<fileList, dirSet, op, work, current, dest>>, current' # NoEntry => content' = content
  PROVE  /\ Restoring => Restoring'
         /\ returned' = returned /\ Catting => Catting'
<1>0. /\ fileList' = fileList /\ dirSet' = dirSet /\ op' = op /\ work' = work /\ current' = current
      /\ dest' = dest /\ NoEntry' = NoEntry
  BY DEF NoEntry
<1>1. /\ Range(fileList)' = Range(fileList) /\ Paths' = Paths /\ \A p : Wanted(p)' <=> Wanted(p)
      /\ Range(work') = Range(work) /\ Files(work)' <=> Files(work)
      /\ \A p, q : IsAncestor(p, q)' <=> IsAncestor(p, q)
  BY <1>0, CatalogStays DEF Files, IsAncestor
<1>2. ASSUME Restoring PROVE Restoring'
  BY <1>0, <1>1, <1>2 DEF Restoring
<1>3. ASSUME Catting, returned' = returned PROVE Catting'
  BY <1>0, <1>1, <1>3 DEF Catting
<1> QED
  BY <1>2, <1>3

\* Making the directories begins the restoring.
LEMMA RestoringBegins ==
  ASSUME ScanInv, Planned, MakeDirectories
  PROVE  Restoring'
<1>0. /\ fileList' = fileList /\ dirSet' = dirSet /\ op' = op /\ work' = work /\ current' = current
      /\ rpc = "mkdir" /\ verdict = "accepted" /\ NoEntry' = NoEntry
      /\ dest' = [dest EXCEPT !.dirs = UNION {WithParents(d) : d \in {e \in dirSet : Wanted(e)}}]
  BY DEF MakeDirectories, scanVars, ScanInv, NoEntry
<1>1. /\ current = NoEntry /\ Files(work)
      /\ Range(work) = {f \in Range(fileList) : Wanted(f.path)}
      /\ dest = [made |-> TRUE, dirs |-> {}, files |-> <<>>]
  BY <1>0 DEF Planned
<1> DEFINE E == UNION {WithParents(d) : d \in {e \in dirSet : Wanted(e)}}
<1>2. /\ dest' = [made |-> TRUE, dirs |-> E, files |-> <<>>]
      /\ dest'.dirs = E /\ dest'.files = <<>> /\ dest'.made = TRUE /\ DOMAIN dest'.files = {}
  <2>1. PICK ds : ds = E
    OBVIOUS
  <2>2. dest' = [made |-> TRUE, dirs |-> ds, files |-> <<>>]
    BY <1>0, <1>1, <2>1
  <2>3. DOMAIN <<>> = {}
    OBVIOUS
  <2>4. /\ dest'.dirs = ds /\ dest'.files = <<>> /\ dest'.made = TRUE
    BY <2>2
  <2> HIDE DEF E
  <2> QED
    BY <2>1, <2>2, <2>3, <2>4
<1>3. dirSet \subseteq Path /\ dirSet \subseteq Paths
  BY <1>0, CatalogWhole DEF Paths
<1>4. ASSUME NEW d \in E PROVE d \in dirSet \/ \E p \in Paths : IsAncestor(d, p)
  <2>1. PICK e \in dirSet : d \in WithParents(e)
    OBVIOUS
  <2>2. d = e \/ IsAncestor(d, e)
    BY <1>3, <2>1, ParentsAreAbove
  <2> QED
    BY <1>3, <2>2
<1>5. ASSUME NEW d \in dirSet, Wanted(d) PROVE d \in E
  <2>1. d \in WithParents(d)
    BY <1>3, ParentsAreAbove
  <2> QED
    BY <1>5, <2>1
<1> HIDE DEF E
<1>6. /\ Range(fileList)' = Range(fileList) /\ Paths' = Paths /\ \A p : Wanted(p)' <=> Wanted(p)
      /\ Range(work') = Range(work) /\ Files(work)'
      /\ \A p, q : IsAncestor(p, q)' <=> IsAncestor(p, q)
  BY <1>0, <1>1, CatalogStays DEF Files, IsAncestor
<1> QED
  BY <1>0, <1>1, <1>2, <1>4, <1>5, <1>6 DEF Restoring

\* The next file is created, empty, with the directories above it.
LEMMA RestoringStarts ==
  ASSUME ScanInv, Planned, Restoring, verdict = "accepted", StartEntry, op.kind = "extract"
  PROVE  Restoring'
<1> DEFINE g == Head(work)
<1>0. /\ fileList' = fileList /\ dirSet' = dirSet /\ op' = op /\ work' = Tail(work) /\ current' = g
      /\ content' = <<>> /\ NoEntry' = NoEntry /\ current = NoEntry /\ work # <<>>
      /\ TargetFree(g.path)
      /\ dest' = [dest EXCEPT !.dirs = @ \union WithParents(Parent(g.path)),
                              !.files = PutFile(g.path, <<>>)]
  BY DEF StartEntry, scanVars, NoEntry
<1>1. /\ g \in Range(work) /\ Files(Tail(work)) /\ Range(work) = Range(Tail(work)) \union {g}
      /\ \A f \in Range(Tail(work)) : f.path # g.path
  BY <1>0, HeadOfFiles DEF Restoring, Planned
<1>2. PICK fs : fs = PutFile(g.path, <<>>)
  OBVIOUS
<1>3. PICK ds : ds = dest.dirs \union WithParents(Parent(g.path))
  OBVIOUS
<1>4. /\ dest' = [made |-> dest.made, dirs |-> ds, files |-> fs]
      /\ dest'.dirs = ds /\ dest'.files = fs /\ dest'.made = dest.made
  BY <1>0, <1>2, <1>3 DEF Restoring
<1>5. /\ DOMAIN fs = DOMAIN dest.files \union {g.path} /\ fs[g.path] = <<>>
      /\ \A q \in DOMAIN dest.files : q # g.path => fs[q] = dest.files[q]
  <2>1. PICK p, x : p = g.path /\ x = <<>>
    OBVIOUS
  <2> HIDE DEF g
  <2>2. fs = PutFile(p, x)
    BY <1>2, <2>1
  <2> QED
    BY <2>1, <2>2 DEF PutFile
<1>6. /\ Wanted(g.path) /\ g.path \notin DOMAIN dest.files /\ g \in Range(fileList)
  BY <1>1 DEF Restoring, Planned
<1>7. g.path \in Path /\ g.path \in Paths
  BY <1>6, CatalogWhole DEF Paths
<1>8. \A d \in WithParents(Parent(g.path)) : IsAncestor(d, g.path)
  BY <1>7, ParentsAreAbove
<1> HIDE DEF g
<1>9. /\ Range(fileList)' = Range(fileList) /\ Paths' = Paths /\ \A p : Wanted(p)' <=> Wanted(p)
      /\ Range(work') = Range(Tail(work)) /\ Files(work)'
      /\ \A p, q : IsAncestor(p, q)' <=> IsAncestor(p, q)
  BY <1>0, <1>1, CatalogStays DEF Files, IsAncestor
<1>10. (/\ dest = [made |-> dest.made, dirs |-> dest.dirs, files |-> dest.files]
        /\ Files(work)
        /\ \A f \in Range(work) : Wanted(f.path) /\ f.path \notin DOMAIN dest.files)'
  BY <1>1, <1>4, <1>5, <1>9 DEF Restoring
<1>11. (current # NoEntry => /\ Wanted(current.path) /\ current.path \in DOMAIN dest.files
                             /\ dest.files[current.path] = content)'
  BY <1>0, <1>4, <1>5, <1>6, <1>9
<1>12. (\A p \in DOMAIN dest.files : \E f \in Range(fileList) : f.path = p /\ Wanted(p))'
  BY <1>4, <1>5, <1>6, <1>9 DEF Restoring
<1>13. (\A f \in Range(fileList) : Wanted(f.path) =>
          \/ f \in Range(work) \/ f = current
          \/ f.path \in DOMAIN dest.files /\ dest.files[f.path] = f.hash)'
  <2> SUFFICES ASSUME NEW f \in Range(fileList), Wanted(f.path)
               PROVE  \/ f \in Range(work') \/ f = current'
                      \/ f.path \in DOMAIN dest'.files /\ dest'.files[f.path] = f.hash
    BY <1>9
  <2>1. f # NoEntry
    BY CatalogWhole DEF FileStored, NoEntry
  <2>2. \/ f \in Range(work)
        \/ f.path \in DOMAIN dest.files /\ dest.files[f.path] = f.hash
    BY <1>0, <2>1 DEF Restoring
  <2> QED
    BY <1>0, <1>1, <1>4, <1>5, <1>6, <1>9, <2>2
<1>14. (\A d \in dest.dirs : d \in dirSet \/ \E p \in Paths : IsAncestor(d, p))'
  BY <1>0, <1>3, <1>4, <1>7, <1>8, <1>9 DEF Restoring
<1>15. (\A d \in dirSet : Wanted(d) => d \in dest.dirs)'
  BY <1>0, <1>3, <1>4, <1>9 DEF Restoring
<1> QED
  BY <1>10, <1>11, <1>12, <1>13, <1>14, <1>15 DEF Restoring

\* A chunk more of the file being rebuilt.
LEMMA RestoringReads ==
  ASSUME ScanInv, Planned, Restoring, verdict = "accepted", ReadChunk, op.kind = "extract"
  PROVE  Restoring'
<1>0. /\ fileList' = fileList /\ dirSet' = dirSet /\ op' = op /\ work' = work /\ current' = current
      /\ NoEntry' = NoEntry /\ current # NoEntry
      /\ dest' = [dest EXCEPT !.files = PutFile(current.path, content')]
  BY DEF ReadChunk, Rebuilding, scanVars, NoEntry
<1>1. PICK x : x = content'
  OBVIOUS
<1>2. PICK fs : fs = PutFile(current.path, x)
  OBVIOUS
<1>3. /\ dest' = [made |-> dest.made, dirs |-> dest.dirs, files |-> fs]
      /\ dest'.dirs = dest.dirs /\ dest'.files = fs /\ dest'.made = dest.made
  BY <1>0, <1>1, <1>2 DEF Restoring
<1>4. current \in Range(fileList) /\ current.path \in DOMAIN dest.files
  BY <1>0 DEF Restoring, Planned
<1>5. /\ DOMAIN fs = DOMAIN dest.files /\ fs[current.path] = x
      /\ \A q \in DOMAIN dest.files : q # current.path => fs[q] = dest.files[q]
  <2>1. PICK p : p = current.path
    OBVIOUS
  <2>2. fs = PutFile(p, x)
    BY <1>2, <2>1
  <2> QED
    BY <1>4, <2>1, <2>2 DEF PutFile
<1>6. /\ Range(fileList)' = Range(fileList) /\ Paths' = Paths /\ \A p : Wanted(p)' <=> Wanted(p)
      /\ Range(work') = Range(work) /\ (Files(work)' <=> Files(work))
      /\ \A p, q : IsAncestor(p, q)' <=> IsAncestor(p, q)
  BY <1>0, CatalogStays DEF Files, IsAncestor
<1>7. (/\ dest = [made |-> dest.made, dirs |-> dest.dirs, files |-> dest.files]
       /\ Files(work)
       /\ \A f \in Range(work) : Wanted(f.path) /\ f.path \notin DOMAIN dest.files)'
  BY <1>3, <1>5, <1>6 DEF Restoring
<1>8. (current # NoEntry => /\ Wanted(current.path) /\ current.path \in DOMAIN dest.files
                            /\ dest.files[current.path] = content)'
  BY <1>0, <1>1, <1>3, <1>4, <1>5, <1>6 DEF Restoring
<1>9. (\A p \in DOMAIN dest.files : \E f \in Range(fileList) : f.path = p /\ Wanted(p))'
  BY <1>3, <1>5, <1>6 DEF Restoring
<1>10. (\A f \in Range(fileList) : Wanted(f.path) =>
          \/ f \in Range(work) \/ f = current
          \/ f.path \in DOMAIN dest.files /\ dest.files[f.path] = f.hash)'
  <2> SUFFICES ASSUME NEW f \in Range(fileList), Wanted(f.path)
               PROVE  \/ f \in Range(work') \/ f = current'
                      \/ f.path \in DOMAIN dest'.files /\ dest'.files[f.path] = f.hash
    BY <1>6
  <2>1. CASE f.path = current.path
    <3>1. f = current
      BY <1>4, <2>1, CatalogWhole, OneOfAPath
    <3> QED
      BY <1>0, <3>1
  <2>2. CASE f.path # current.path
    BY <1>0, <1>3, <1>5, <1>6, <2>2 DEF Restoring
  <2> QED
    BY <2>1, <2>2
<1>11. (/\ \A d \in dest.dirs : d \in dirSet \/ \E p \in Paths : IsAncestor(d, p)
        /\ \A d \in dirSet : Wanted(d) => d \in dest.dirs)'
  BY <1>0, <1>3, <1>6 DEF Restoring
<1> QED
  BY <1>7, <1>8, <1>9, <1>10, <1>11 DEF Restoring

\* The file is whole: it has its digest.
LEMMA RestoringFinishes ==
  ASSUME ScanInv, Planned, Restoring, verdict = "accepted", FinishEntry
  PROVE  Restoring'
<1>0. /\ fileList' = fileList /\ dirSet' = dirSet /\ op' = op /\ work' = work /\ current' = NoEntry
      /\ NoEntry' = NoEntry /\ current # NoEntry /\ dest' = dest /\ content = current.hash
  BY DEF FinishEntry, FileIntact, Rebuilding, scanVars, NoEntry
<1>1. /\ Range(fileList)' = Range(fileList) /\ Paths' = Paths /\ \A p : Wanted(p)' <=> Wanted(p)
      /\ Range(work') = Range(work) /\ (Files(work)' <=> Files(work))
      /\ \A p, q : IsAncestor(p, q)' <=> IsAncestor(p, q)
  BY <1>0, CatalogStays DEF Files, IsAncestor
<1>2. (\A f \in Range(fileList) : Wanted(f.path) =>
          \/ f \in Range(work) \/ f = current
          \/ f.path \in DOMAIN dest.files /\ dest.files[f.path] = f.hash)'
  BY <1>0, <1>1 DEF Restoring
<1> QED
  BY <1>0, <1>1, <1>2 DEF Restoring

\* An extraction and a cat go on as they should, whatever step is taken.
LEMMA DeliveringStep ==
  ASSUME ScanInv, Planned, Delivering, [ReadNext /\ UNCHANGED archive]_readingVars
  PROVE  Delivering'
<1>0. CASE UNCHANGED readingVars
  <2>1. /\ UNCHANGED <<fileList, dirSet, op, work, current, dest>> /\ content' = content
        /\ returned' = returned /\ rpc' = rpc /\ outcome' = outcome /\ op' = op /\ work' = work
        /\ current' = current /\ NoEntry' = NoEntry
    BY <1>0 DEF readingVars, readVars, scanVars, fileVars, NoEntry
  <2>2. (Restoring => Restoring') /\ (Catting => Catting')
    BY <2>1, DoneStays
  <2> QED
    BY <2>1, <2>2 DEF Delivering, UnderWay
<1> SUFFICES ASSUME ReadNext, UNCHANGED archive PROVE Delivering'
  BY <1>0
<1>1. ASSUME rpc' # "files", outcome' # "ok" PROVE Delivering'
  BY <1>1 DEF Delivering, UnderWay
<1>2. ASSUME NEW o \in Operations, Open(o) PROVE Delivering'
  BY <1>1, <1>2 DEF Open, Planned
<1>3. CASE ScanStep
  BY <1>1, <1>3
     DEF ScanStep, ReadHeader, ScanChunk, ScanDirectory, ScanFile, ScanFooter, ScanRejects, Advance,
         Fail, Planned
<1>4. CASE ReadError
  BY <1>1, <1>4 DEF ReadError, Fail
<1>5. CASE ReportInfo
  BY <1>5 DEF ReportInfo, Succeed, Delivering
<1>6. CASE NotFound
  BY <1>1, <1>6 DEF NotFound, Fail
<1>7. CASE PlanFiles
  <2>0. /\ fileList' = fileList /\ op' = op /\ dirSet' = dirSet /\ current' = current /\ rpc = "plan"
        /\ outcome' = outcome /\ NoEntry' = NoEntry /\ outcome = "none" /\ current = NoEntry
        /\ op.kind \in {"verify", "cat"}
    BY <1>7 DEF PlanFiles, scanVars, NoEntry, Planned
  <2>1. ASSUME op.kind = "cat" PROVE Catting'
    <3>1. PICK k \in CatFiles : work' = <<fileList[k]>>
      BY <1>7, <2>1 DEF PlanFiles
    <3>2. fileList[k] \in Range(fileList) /\ fileList[k].path = op.sel
      BY DEF CatFiles, Range
    <3>3. Range(fileList)' = Range(fileList)
      BY <2>0, CatalogStays
    <3> QED
      BY <2>0, <3>1, <3>2, <3>3 DEF Catting
  <2> QED
    BY <2>0, <2>1 DEF Delivering, UnderWay
<1>8. CASE MakeDestination
  BY <1>1, <1>8 DEF MakeDestination, Planned
<1>9. CASE MakeDirectories
  <2>1. Restoring'
    BY <1>9, RestoringBegins
  <2>2. op' = op /\ op.kind = "extract" /\ outcome' = "none"
    BY <1>9 DEF MakeDirectories, Planned
  <2> QED
    BY <2>1, <2>2 DEF Delivering
<1>10. CASE StartEntry
  <2>0. /\ fileList' = fileList /\ op' = op /\ dirSet' = dirSet /\ current' = Head(work) /\ rpc = "files"
        /\ outcome' = outcome /\ NoEntry' = NoEntry /\ outcome = "none" /\ current = NoEntry
        /\ work' = Tail(work) /\ work # <<>> /\ verdict = "accepted"
    BY <1>10 DEF StartEntry, scanVars, NoEntry, Planned, ScanInv
  <2>1. op.kind = "extract" => Restoring'
    BY <1>10, <2>0, RestoringStarts DEF Delivering, UnderWay
  <2>2. ASSUME op.kind = "cat" PROVE Catting'
    <3>1. PICK f \in Range(fileList) : f.path = op.sel /\ work = <<f>>
      BY <2>0, <2>2 DEF Delivering, UnderWay, Catting
    <3>2. f # NoEntry
      BY <2>0, CatalogWhole DEF FileStored, NoEntry
    <3>3. Head(work) = f /\ Tail(work) = <<>>
      BY <3>1
    <3> QED
      BY <2>0, <3>1, <3>2, <3>3 DEF Catting
  <2> QED
    BY <2>0, <2>1, <2>2 DEF Delivering
<1>11. CASE ReadChunk
  <2>0. /\ fileList' = fileList /\ op' = op /\ dirSet' = dirSet /\ current' = current /\ rpc = "files"
        /\ outcome' = outcome /\ NoEntry' = NoEntry /\ outcome = "none" /\ current # NoEntry
        /\ work' = work /\ verdict = "accepted"
    BY <1>11 DEF ReadChunk, Rebuilding, scanVars, NoEntry, Planned, ScanInv
  <2>1. op.kind = "extract" => Restoring'
    BY <1>11, <2>0, RestoringReads DEF Delivering, UnderWay
  <2>2. op.kind = "cat" => Catting'
    BY <2>0 DEF Delivering, UnderWay, Catting
  <2> QED
    BY <2>0, <2>1, <2>2 DEF Delivering
<1>12. CASE FinishEntry
  <2>0. /\ fileList' = fileList /\ op' = op /\ dirSet' = dirSet /\ current' = NoEntry /\ rpc = "files"
        /\ outcome' = outcome /\ NoEntry' = NoEntry /\ outcome = "none" /\ current # NoEntry
        /\ work' = work /\ verdict = "accepted" /\ content = current.hash
        /\ returned' = IF op.kind = "cat" THEN content ELSE returned
    BY <1>12 DEF FinishEntry, FileIntact, Rebuilding, scanVars, NoEntry, Planned, ScanInv
  <2>1. op.kind = "extract" => Restoring'
    BY <1>12, <2>0, RestoringFinishes DEF Delivering, UnderWay
  <2>2. ASSUME op.kind = "cat" PROVE Catting'
    <3>1. work = <<>> /\ current.path = op.sel
      BY <2>0, <2>2 DEF Delivering, UnderWay, Catting
    <3>2. current \in Range(fileList) /\ Range(fileList)' = Range(fileList)
      BY <2>0, CatalogStays DEF Planned
    <3> QED
      BY <2>0, <2>2, <3>1, <3>2 DEF Catting
  <2> QED
    BY <2>0, <2>1, <2>2 DEF Delivering
<1>13. CASE ReportFiles
  <2>1. /\ UNCHANGED <<fileList, dirSet, op, work, current, dest>> /\ content' = content
        /\ returned' = returned /\ rpc = "files" /\ work = <<>> /\ current = NoEntry /\ op' = op
        /\ work' = work /\ current' = current /\ NoEntry' = NoEntry
    BY <1>13 DEF ReportFiles, Succeed, scanVars, NoEntry
  <2>2. (Restoring => Restoring') /\ (Catting => Catting')
    BY <2>1, DoneStays
  <2> QED
    BY <2>1, <2>2 DEF Delivering, UnderWay
<1>14. CASE ChunkDamaged
  BY <1>1, <1>14 DEF ChunkDamaged, Fail
<1>15. CASE FileDamaged
  BY <1>1, <1>15 DEF FileDamaged, Fail
<1> QED
  BY <1>2, <1>3, <1>4, <1>5, <1>6, <1>7, <1>8, <1>9, <1>10, <1>11, <1>12, <1>13, <1>14, <1>15
     DEF ReadNext, PlanStep, FileStep

\* Nothing is delivered at first.
LEMMA DeliveringInitial == ReadInit => Delivering
BY DEF ReadInit, Delivering, UnderWay

\* The invariant of the reader as a whole.
ReaderInv == ScanInv /\ Planned /\ Delivering

\* The reader's invariant holds throughout.
LEMMA ReaderInvariant == ReadAlone => []ReaderInv
<1>1. archive \in Seq(StoredRecord) /\ ReadInit => ReaderInv
  BY ScanInitial, PlannedInitial, DeliveringInitial DEF ReaderInv
<1>2. ReaderInv /\ [ReadNext /\ UNCHANGED archive]_readingVars => ReaderInv'
  BY ScanInvStep, PlannedStep, DeliveringStep DEF ReaderInv
<1> QED
  BY <1>1, <1>2, PTL DEF ReadAlone

\* Extraction never finds something of its own in the way of a file.
THEOREM ExtractionNeverCollides == ReadAlone => []NoSelfCollision
<1>1. ReaderInv => NoSelfCollision
  BY PlannedFileIsFree DEF ReaderInv, ScanInv, Delivering, UnderWay, NoSelfCollision
<1> QED
  BY <1>1, ReaderInvariant, PTL

\* When the operation has succeeded, all that was wanted is done.
LEMMA DeliveredIsRecorded ==
  ASSUME ReaderInv
  PROVE  DeliversWhatIsRecorded
<1> SUFFICES ASSUME outcome = "ok" PROVE DeliversWhatIsRecorded
  BY DEF DeliversWhatIsRecorded
<1> DEFINE N == Len(archive)
           wanted == {i \in Tagged("FILE", N) : Selected(archive[i].path)}
<1>0. verdict = "accepted" /\ op \in OperationType /\ ScanInv
  BY DEF ReaderInv, ScanInv, Planned
<1>1. /\ Range(fileList) = {archive[i] : i \in Tagged("FILE", N)}
      /\ dirSet = {archive[i].path : i \in Tagged("DIRE", N)} /\ dirSet \subseteq Path
      /\ \A f \in Range(fileList) : f \in FileStored /\ f.path \in Path
  BY <1>0, CatalogWhole
<1>2. /\ \A i \in Tagged("FILE", N) : Selected(archive[i].path) <=> Wanted(archive[i].path)
      /\ \A i \in Tagged("DIRE", N) : Selected(archive[i].path) <=> Wanted(archive[i].path)
  BY <1>0, <1>1, SelectedIsWanted
<1>3. ASSUME op.kind = "extract"
      PROVE  /\ DOMAIN dest.files = {archive[i].path : i \in wanted}
             /\ \A i \in wanted : dest.files[archive[i].path] = archive[i].hash
             /\ \A i \in Tagged("DIRE", N) :
                  Selected(archive[i].path) => archive[i].path \in dest.dirs
  <2>0. Restoring /\ work = <<>> /\ current = NoEntry /\ Range(work) = {}
    BY <1>3 DEF ReaderInv, Delivering, UnderWay, Range
  <2>1. ASSUME NEW i \in wanted
        PROVE  archive[i].path \in DOMAIN dest.files /\ dest.files[archive[i].path] = archive[i].hash
    <3>1. archive[i] \in Range(fileList) /\ Wanted(archive[i].path) /\ archive[i] # NoEntry
      BY <1>1, <1>2 DEF FileStored, NoEntry
    <3> QED
      BY <2>0, <3>1 DEF Restoring
  <2>2. ASSUME NEW p \in DOMAIN dest.files PROVE \E i \in wanted : p = archive[i].path
    <3>1. PICK f \in Range(fileList) : f.path = p /\ Wanted(p)
      BY <2>0 DEF Restoring
    <3> QED
      BY <1>1, <1>2, <3>1
  <2>3. \A i \in Tagged("DIRE", N) : Selected(archive[i].path) => archive[i].path \in dest.dirs
    BY <1>1, <1>2, <2>0 DEF Restoring
  <2> QED
    BY <2>1, <2>2, <2>3
<1>4. ASSUME op.kind = "cat"
      PROVE  \E i \in Tagged("FILE", N) : archive[i].path = op.sel /\ archive[i].hash = returned
  <2>1. Catting /\ work = <<>> /\ current = NoEntry
    BY <1>4 DEF ReaderInv, Delivering, UnderWay
  <2>2. PICK f \in Range(fileList) : f.path = op.sel /\ returned = f.hash
    <3>1. ASSUME NEW f PROVE work # <<f>>
      BY <2>1
    <3> QED
      BY <2>1, <3>1 DEF Catting
  <2> QED
    BY <1>1, <2>2
<1> QED
  BY <1>3, <1>4 DEF DeliversWhatIsRecorded

\* A successful extract has restored every wanted entry with the bytes its
\* record stands for, and nothing else; a successful cat returns the bytes
\* of the file with the path it was given.
THEOREM ReaderDeliversWhatIsRecorded == ReadAlone => []DeliversWhatIsRecorded
<1>1. ReaderInv => DeliversWhatIsRecorded
  BY DeliveredIsRecorded
<1> QED
  BY <1>1, ReaderInvariant, PTL

-----------------------------------------------------------------------------
(* The reader beside the writer.  Until storage strikes, a step of RoundTripSpec *)
(* is a step of the reader on an archive that stays, or a step of the writer  *)
(* that leaves the reader alone and only adds to the archive.                 *)

\* What is written is among what may be stored.
LEMMA WrittenIsStored == WrittenRecord \subseteq StoredRecord
<1>1. ChunkRecordType \subseteq
        [tag : {"CHNK"}, hash : Bytes, data : Bytes, size : Nat, method : {"zstd", "store"}, payload : Nat]
  BY DEF ChunkRecordType, Bytes
<1>2. FileRecordType \subseteq
        [tag : {"FILE"}, path : Path, size : Nat, hash : Seq(Bytes), refs : Seq(Bytes)]
  <2>1. Seq(Chunk) \subseteq Seq(Bytes)
    BY DEF Bytes
  <2> QED
    BY <2>1 DEF FileRecordType
<1> QED
  BY <1>1, <1>2 DEF WrittenRecord, StoredRecord

\* A writer's step adds at most one record to the archive, while the writer
\* is not done.
LEMMA PackAppends ==
  ASSUME TypeOK, PackNext
  PROVE  /\ pc \in {"start", "walk", "file"}
         /\ \/ archive' = archive
            \/ \E rec : archive' = Append(archive, rec)
                        /\ (rec.tag = "RGXF" => pc' \in {"ok", "failed"})
<1>1. CASE RefuseInput
  BY <1>1 DEF RefuseInput
<1>2. CASE WriteHeader
  BY <1>2 DEF WriteHeader, Header
<1>3. ASSUME NEW p \in Deliverable, WalkDirectory(p) \/ OpenFile(p) \/ RefuseEntry(p)
      PROVE  /\ pc \in {"start", "walk", "file"}
             /\ \/ archive' = archive
                \/ archive' = Append(archive, DirectoryRecord(p))
  BY <1>3 DEF WalkDirectory, OpenFile, RefuseEntry
<1>4. ASSUME NEW c \in Chunk, ReferenceChunk(c) \/ WriteChunk(c)
      PROVE  /\ pc \in {"start", "walk", "file"}
             /\ \/ archive' = archive
                \/ archive' = Append(archive, ChunkRecord(c))
  BY <1>4 DEF ReferenceChunk, WriteChunk
<1>5. CASE CloseFile
  <2>1. pc = "file" /\ archive' = Append(archive, FileRecord(file.path, file.size, file.refs))
    BY <1>5 DEF CloseFile
  <2> QED
    BY <2>1 DEF FileRecord
<1>6. CASE FileTooLarge
  BY <1>6 DEF FileTooLarge
<1>7. CASE WriteFooter
  BY <1>7 DEF WriteFooter
<1>8. CASE IoError
  BY <1>8 DEF IoError
<1>9. /\ \A p : DirectoryRecord(p).tag # "RGXF"
      /\ \A c : ChunkRecord(c).tag # "RGXF"
  BY DEF DirectoryRecord, ChunkRecord
<1> QED
  BY <1>1, <1>2, <1>3, <1>4, <1>5, <1>6, <1>7, <1>8, <1>9 DEF PackNext

\* The footer is the last record, and ends the writing.
FooterEnds == \A i \in DOMAIN archive : archive[i].tag = "RGXF" => i = Len(archive) /\ pc \in {"ok", "failed"}
WritingInv ==
  IF damage = 0 THEN TypeOK /\ packed = archive /\ FooterEnds
                ELSE pc \in {"ok", "failed"}

\* It holds before anything is written.
LEMMA WritingInitial == RoundTripInit => WritingInv
<1> SUFFICES ASSUME RoundTripInit PROVE WritingInv
  OBVIOUS
<1>1. Init /\ archive = <<>> /\ packed = <<>> /\ damage = 0
  BY DEF RoundTripInit, Init
<1>2. TypeOK
  BY <1>1, InitTypes
<1>3. FooterEnds
  BY <1>1 DEF FooterEnds
<1> QED
  BY <1>1, <1>2, <1>3 DEF WritingInv

\* It holds after every step of the writer, the reader or the storage.
LEMMA WritingStep ==
  ASSUME WritingInv, damage \in Nat, [RoundTripNext]_allVars
  PROVE  WritingInv'
<1>1. ASSUME UNCHANGED <<archive, packVars, packed, damage>> PROVE WritingInv'
  <2>1. archive' = archive /\ packed' = packed /\ damage' = damage /\ pc' = pc /\ UNCHANGED vars
    BY <1>1 DEF packVars, vars
  <2>2. TypeOK => TypeOK'
    BY <2>1, StepTypes
  <2> QED
    BY <2>1, <2>2 DEF WritingInv, FooterEnds
<1>2. CASE Write
  <2>1. /\ PackNext /\ packed' = archive' /\ damage' = damage
    BY <1>2 DEF Write
  <2>2. pc \notin {"ok", "failed"}
    BY <2>1 DEF PackNext, RefuseInput, WriteHeader, WalkDirectory, OpenFile, RefuseEntry, ReferenceChunk,
                WriteChunk, CloseFile, FileTooLarge, WriteFooter, IoError
  <2>3. damage = 0 /\ TypeOK /\ FooterEnds
    BY <2>2 DEF WritingInv
  <2>4. TypeOK'
    BY <2>1, <2>3, StepTypes
  <2>5. archive \in Seq(WrittenRecord) /\ archive' \in Seq(WrittenRecord)
    BY <2>3, <2>4 DEF TypeOK
  <2>6. \A i \in DOMAIN archive : archive[i].tag # "RGXF"
    BY <2>2, <2>3 DEF FooterEnds
  <2>7. FooterEnds'
    <3>1. CASE archive' = archive
      BY <2>6, <3>1 DEF FooterEnds
    <3>2. ASSUME NEW rec, archive' = Append(archive, rec), rec.tag = "RGXF" => pc' \in {"ok", "failed"}
          PROVE  FooterEnds'
      <4>1. /\ Len(archive) \in Nat /\ Len(archive') = Len(archive) + 1
            /\ \A i \in 1..Len(archive) : archive'[i] = archive[i]
            /\ archive'[Len(archive) + 1] = rec
        BY <2>5, <3>2, AppendPositions
      <4>2. DOMAIN archive = 1..Len(archive) /\ DOMAIN archive' = 1..(Len(archive) + 1)
        BY <2>5, <4>1
      <4>3. ASSUME NEW i \in DOMAIN archive', archive'[i].tag = "RGXF"
            PROVE  i = Len(archive') /\ pc' \in {"ok", "failed"}
        BY <2>6, <3>2, <4>1, <4>2, <4>3
      <4> QED
        BY <4>3 DEF FooterEnds
    <3> QED
      BY <2>1, <2>3, <3>1, <3>2, PackAppends
  <2> QED
    BY <2>1, <2>3, <2>4, <2>7 DEF WritingInv
<1>3. CASE Read
  BY <1>1, <1>3 DEF Read
<1>4. CASE Damage
  <2>1. Strike
    BY <1>4 DEF Damage, RotRecord, LoseRecord, LoseTail, GrowTail
  <2>2. pc \in {"ok", "failed"} /\ pc' = pc /\ damage' = damage + 1
    BY <2>1 DEF Strike, packVars
  <2> QED
    BY <2>2 DEF WritingInv
<1>5. CASE UNCHANGED allVars
  BY <1>1, <1>5 DEF allVars
<1> QED
  BY <1>2, <1>3, <1>4, <1>5 DEF RoundTripNext

\* What the scan has accepted is whole, and the writer is done with it.
LEMMA AcceptedIsDone ==
  ASSUME WritingInv, damage = 0, ScanInv, verdict = "accepted"
  PROVE  pc \in {"ok", "failed"} /\ packed = archive /\ archive[Len(archive)].tag = "RGXF"
<1>1. FooterEnds /\ packed = archive /\ archive \in Seq(StoredRecord)
  BY DEF WritingInv, ScanInv
<1>2. Len(archive) >= 2 /\ archive[Len(archive)].tag = "RGXF"
  BY DEF ScanInv, WellFormed
<1>3. Len(archive) \in DOMAIN archive
  BY <1>1, <1>2
<1> QED
  BY <1>1, <1>2, <1>3 DEF FooterEnds

\* The reader's invariant is none of the writer's business.
LEMMA ReaderKept ==
  ASSUME WritingInv, damage = 0, damage' = 0, ReaderInv, Write
  PROVE  ReaderInv'
<1>0. /\ PackNext /\ UNCHANGED readVars /\ TypeOK /\ ScanInv /\ Planned /\ Delivering
  BY DEF Write, WritingInv, ReaderInv
<1>1. /\ rpc' = rpc /\ op' = op /\ pos' = pos /\ verdict' = verdict /\ outcome' = outcome
      /\ fileList' = fileList /\ dirSet' = dirSet /\ work' = work /\ current' = current
      /\ content' = content /\ returned' = returned /\ dest' = dest /\ UNCHANGED scanVars
  BY <1>0 DEF readVars, scanVars, fileVars
<1>2. archive \in Seq(WrittenRecord) /\ archive' \in Seq(WrittenRecord)
  <2>1. TypeOK'
    BY <1>0, StepTypes
  <2>2. WrittenRecord' = WrittenRecord
    BY DEF WrittenRecord, Header, Torn, ChunkRecordType, DirectoryRecordType, FileRecordType,
           FooterType, Path
  <2> QED
    BY <1>0, <2>1, <2>2 DEF TypeOK
<1>3. archive \in Seq(StoredRecord) /\ archive' \in Seq(StoredRecord)
  BY <1>2, WrittenIsStored
<1>4. Len(archive) <= Len(archive') /\ \A i \in 1..Len(archive) : archive'[i] = archive[i]
  <2>1. CASE archive' = archive
    BY <1>2, <2>1
  <2>2. ASSUME NEW rec, archive' = Append(archive, rec)
        PROVE  Len(archive) <= Len(archive') /\ \A i \in 1..Len(archive) : archive'[i] = archive[i]
    BY <1>2, <2>2, AppendPositions
  <2> QED
    BY <1>0, <2>1, <2>2, PackAppends
<1>5. verdict # "accepted"
  BY <1>0, AcceptedIsDone, PackAppends
<1>6. PICK n \in Nat : Scanned(n)
  BY <1>0 DEF ScanInv
<1>7. /\ pos = n + 1 /\ n <= Len(archive) /\ Gathered(n) /\ (verdict = "none" => BodyTo(n))
      /\ n <= Len(archive') /\ \A i \in 1..n : archive'[i] = archive[i]
  BY <1>3, <1>4, <1>6 DEF Scanned
<1>8. Gathered(n)'
  BY <1>1, <1>3, <1>7, GatheredGrows
<1>9. (verdict = "none" => BodyTo(n))'
  BY <1>1, <1>7 DEF BodyTo
<1>10. Scanned(n)'
  BY <1>1, <1>5, <1>7, <1>8, <1>9 DEF Scanned
<1>11. ScanInv'
  <2>1. (archive \in Seq(StoredRecord))' /\ (op \in OperationType)'
    BY <1>0, <1>1, <1>3 DEF ScanInv, StoredRecord, Bytes, Header, Torn, DirectoryRecordType,
                           FooterType, Path, OperationType
  <2> QED
    BY <1>0, <1>1, <1>5, <1>10, <2>1 DEF ScanInv
<1>12. Planned'
  BY <1>0, <1>1, PlanRests
<1>13. Delivering'
  <2>1. (Restoring => Restoring') /\ (Catting => Catting') /\ NoEntry' = NoEntry
    BY <1>1, DoneStays DEF NoEntry
  <2> QED
    BY <1>0, <1>1, <2>1 DEF Delivering, UnderWay
<1> QED
  BY <1>11, <1>12, <1>13 DEF ReaderInv

\* The invariant of writer and reader together.
RoundTripInv ==
  /\ damage \in Nat
  /\ WritingInv
  /\ damage = 0 => ReaderInv

\* It holds at first.
LEMMA RoundTripInitial == RoundTripInit => RoundTripInv
<1> SUFFICES ASSUME RoundTripInit PROVE RoundTripInv
  OBVIOUS
<1>1. archive = <<>> /\ ReadInit /\ damage = 0
  BY DEF RoundTripInit, Init
<1>2. archive \in Seq(StoredRecord)
  BY <1>1
<1>3. ReaderInv
  BY <1>1, <1>2, ScanInitial, PlannedInitial, DeliveringInitial DEF ReaderInv
<1> QED
  BY <1>1, <1>3, WritingInitial DEF RoundTripInv

\* Each step keeps it: those of the writer by ReaderKept, those of the reader as
\* when it is alone.
LEMMA RoundTripStep == RoundTripInv /\ [RoundTripNext]_allVars => RoundTripInv'
<1> SUFFICES ASSUME RoundTripInv, [RoundTripNext]_allVars PROVE RoundTripInv'
  OBVIOUS
<1>1. WritingInv'
  BY WritingStep DEF RoundTripInv
<1>2. CASE Damage
  <2>1. damage' = damage + 1
    BY <1>2 DEF Damage, RotRecord, LoseRecord, LoseTail, GrowTail, Strike
  <2> QED
    BY <1>1, <2>1 DEF RoundTripInv
<1>3. CASE Write
  <2>1. damage' = damage
    BY <1>3 DEF Write
  <2> QED
    BY <1>1, <1>3, <2>1, ReaderKept DEF RoundTripInv
<1>4. CASE Read \/ UNCHANGED allVars
  <2>1. damage' = damage /\ [ReadNext /\ UNCHANGED archive]_readingVars
    BY <1>4 DEF Read, allVars, readingVars
  <2>2. ReaderInv => ReaderInv'
    BY <2>1, ScanInvStep, PlannedStep, DeliveringStep DEF ReaderInv
  <2> QED
    BY <1>1, <2>1, <2>2 DEF RoundTripInv
<1> QED
  BY <1>2, <1>3, <1>4 DEF RoundTripNext

\* Writer and reader keep their invariant throughout.
LEMMA RoundTripInvariant == RoundTripSpec => []RoundTripInv
<1> QED
  BY RoundTripInitial, RoundTripStep, PTL DEF RoundTripSpec

\* An unfinished archive, or one whose packing failed before the footer was
\* out, is never taken for a complete one, however the reading of it and the
\* writing interleave.
THEOREM UnfinishedIsNeverAccepted == RoundTripSpec => []AcceptedIsComplete
<1>1. RoundTripInv => AcceptedIsComplete
  BY AcceptedIsDone DEF RoundTripInv, ReaderInv, AcceptedIsComplete
<1> QED
  BY <1>1, RoundTripInvariant, PTL

\* What a successful operation delivers, of the archive as packed.
LEMMA DeliveredWasPacked ==
  ASSUME RoundTripInv
  PROVE  RestoresWhatWasPacked
<1> SUFFICES ASSUME outcome = "ok", damage = 0 PROVE RestoresWhatWasPacked
  BY DEF RestoresWhatWasPacked
<1>1. ReaderInv /\ WritingInv /\ packed = archive /\ archive \in Seq(StoredRecord)
  BY DEF RoundTripInv, WritingInv, ReaderInv, ScanInv
<1>2. DeliversWhatIsRecorded
  BY <1>1, DeliveredIsRecorded
<1>3. \A t : RecordsOf(packed, t) = Tagged(t, Len(archive))
  <2>1. DOMAIN archive = 1..Len(archive)
    BY <1>1
  <2> QED
    BY <1>1, <2>1 DEF RecordsOf, Tagged
<1>4. ASSUME op.kind = "cat"
      PROVE  \E i \in {i \in RecordsOf(packed, "FILE") : Selected(packed[i].path)} :
               packed[i].path = op.sel /\ packed[i].hash = returned
  <2>1. PICK i \in Tagged("FILE", Len(archive)) : archive[i].path = op.sel /\ archive[i].hash = returned
    BY <1>2, <1>4 DEF DeliversWhatIsRecorded
  <2>2. archive[i].path \in Seq(Name)
    BY <1>1, <2>1, Fields DEF FileStored, Path
  <2>3. Selected(archive[i].path)
    BY <2>1, <2>2 DEF Selected
  <2> QED
    BY <1>1, <1>3, <2>1, <2>3
<1>5. ASSUME op.kind = "extract"
      PROVE  LET wanted == {i \in RecordsOf(packed, "FILE") : Selected(packed[i].path)} IN
             /\ DOMAIN dest.files = {packed[i].path : i \in wanted}
             /\ \A i \in wanted : dest.files[packed[i].path] = packed[i].hash
             /\ \A i \in RecordsOf(packed, "DIRE") :
                  Selected(packed[i].path) => packed[i].path \in dest.dirs
  BY <1>1, <1>2, <1>3, <1>5 DEF DeliversWhatIsRecorded
<1> QED
  BY <1>4, <1>5 DEF RestoresWhatWasPacked

\* The round trip: every wanted path comes back with its bytes, and nothing
\* else does, though the archive is read while it is written.
THEOREM RoundTripRestores == RoundTripSpec => []RestoresWhatWasPacked
<1> QED
  BY DeliveredWasPacked, RoundTripInvariant, PTL

-----------------------------------------------------------------------------
(* Damage.  Whatever storage does, the digest of a FILE record is that of a   *)
(* packed file or one that nothing has, and what is rebuilt is chunks.        *)

KnownDigests == Contents(packed) \union {<<Garbage>>}

\* A chunk record stays one, or cannot be read any more.
LEMMA RottedChunk ==
  ASSUME NEW r \in ChunkStored, NEW q \in Rotted(r)
  PROVE  q \in StoredRecord /\ q.tag # "FILE"
<1>1. r.tag = "CHNK"
  BY DEF ChunkStored
<1>2. \/ q = Torn \/ q = [r EXCEPT !.data = Garbage] \/ q = [r EXCEPT !.size = @ + 1]
      \/ q = [r EXCEPT !.payload = @ + 1] \/ \E h \in Chunk \union {Garbage} : q = [r EXCEPT !.hash = h]
  BY <1>1 DEF Rotted
<1>3. q = Torn => q \in StoredRecord /\ q.tag # "FILE"
  BY DEF StoredRecord, Torn
<1>4. q # Torn => q \in ChunkStored
  BY <1>2 DEF ChunkStored, Bytes
<1>5. q \in ChunkStored => q \in StoredRecord /\ q.tag # "FILE"
  BY DEF ChunkStored, StoredRecord
<1> QED
  BY <1>3, <1>4, <1>5

\* What a damaged path becomes is a path.
LEMMA NewPathsArePaths == NewPaths \subseteq Path
<1>1. ASSUME NEW n \in {1, 2}, NEW p \in [1..n -> Name] PROVE p \in Path
  <2>1. p \in Seq(Name)
    BY SeqDef
  <2>2. 1 \in DOMAIN p /\ 1 \notin DOMAIN <<>>
    OBVIOUS
  <2> QED
    BY <2>1, <2>2 DEF Path
<1> QED
  BY <1>1 DEF NewPaths

\* A file record keeps its digest, or has one that nothing has.
LEMMA RottedFile ==
  ASSUME NEW r \in FileStored, NEW q \in Rotted(r)
  PROVE  q \in StoredRecord /\ (q.tag = "FILE" => q.hash \in {r.hash, <<Garbage>>})
<1>1. r.tag = "FILE"
  BY DEF FileStored
<1>2. \/ q = Torn \/ q = [r EXCEPT !.size = @ + 1] \/ q = [r EXCEPT !.hash = <<Garbage>>]
      \/ \E p \in NewPaths : q = [r EXCEPT !.path = p]
      \/ \E k \in DOMAIN r.refs, c \in Chunk : q = [r EXCEPT !.refs[k] = c]
  BY <1>1 DEF Rotted
<1>3. q = Torn => q \in StoredRecord /\ q.tag # "FILE"
  BY DEF StoredRecord, Torn
<1>4. ASSUME q # Torn PROVE q \in FileStored /\ q.hash \in {r.hash, <<Garbage>>}
  <2>1. CASE q = [r EXCEPT !.size = @ + 1]
    BY <2>1 DEF FileStored
  <2>2. CASE q = [r EXCEPT !.hash = <<Garbage>>]
    <3>1. <<Garbage>> \in Seq(Bytes)
      BY DEF Bytes
    <3> QED
      BY <2>2, <3>1 DEF FileStored
  <2>3. ASSUME NEW p \in NewPaths, q = [r EXCEPT !.path = p]
        PROVE  q \in FileStored /\ q.hash \in {r.hash, <<Garbage>>}
    BY <2>3, NewPathsArePaths DEF FileStored
  <2>4. ASSUME NEW k \in DOMAIN r.refs, NEW c \in Chunk, q = [r EXCEPT !.refs[k] = c]
        PROVE  q \in FileStored /\ q.hash \in {r.hash, <<Garbage>>}
    <3>1. PICK s : s = [r.refs EXCEPT ![k] = c]
      OBVIOUS
    <3>2. s \in Seq(Bytes)
      BY <3>1 DEF FileStored, Bytes
    <3>3. q = [r EXCEPT !.refs = s]
      BY <2>4, <3>1 DEF FileStored
    <3> QED
      BY <3>2, <3>3 DEF FileStored
  <2> QED
    BY <1>2, <1>4, <2>1, <2>2, <2>3, <2>4
<1>5. q \in FileStored => q \in StoredRecord
  BY DEF FileStored, StoredRecord
<1> QED
  BY <1>3, <1>4, <1>5

\* No other record becomes one of a file.
LEMMA RottedOther ==
  ASSUME NEW r \in {Header, Torn} \union DirectoryRecordType \union FooterType, NEW q \in Rotted(r)
  PROVE  q \in StoredRecord /\ q.tag # "FILE"
<1>1. q = Torn => q \in StoredRecord /\ q.tag # "FILE"
  BY DEF StoredRecord, Torn
<1>2. CASE r \in {Header, Torn}
  <2>1. r.tag \in {"RGX", "torn"}
    BY <1>2 DEF Header, Torn
  <2>2. q = Torn
    BY <2>1 DEF Rotted
  <2> QED
    BY <1>1, <2>2
<1>3. CASE r \in DirectoryRecordType
  <2>1. r.tag = "DIRE"
    BY <1>3 DEF DirectoryRecordType
  <2>2. q = Torn \/ \E p \in NewPaths : q = [r EXCEPT !.path = p]
    BY <2>1 DEF Rotted
  <2>3. q # Torn => q \in DirectoryRecordType
    BY <1>3, <2>2, NewPathsArePaths DEF DirectoryRecordType
  <2> QED
    BY <1>1, <2>3 DEF DirectoryRecordType, StoredRecord
<1>4. CASE r \in FooterType
  <2>1. r.tag = "RGXF"
    BY <1>4 DEF FooterType
  <2>2. q = Torn \/ \E n \in CounterNames : q = [r EXCEPT !.stats = Add(@, n, 1)]
    BY <2>1 DEF Rotted
  <2>3. ASSUME NEW n \in CounterNames, q = [r EXCEPT !.stats = Add(@, n, 1)]
        PROVE  q \in FooterType
    <3>1. PICK s : s = Add(r.stats, n, 1)
      OBVIOUS
    <3>2. r.stats \in [CounterNames -> Nat]
      BY <1>4 DEF FooterType
    <3>3. s \in [CounterNames -> Nat]
      BY <3>1, <3>2, AddTypes
    <3>4. q = [r EXCEPT !.stats = s]
      BY <1>4, <2>3, <3>1 DEF FooterType
    <3> QED
      BY <1>4, <3>3, <3>4 DEF FooterType
  <2> QED
    BY <1>1, <2>2, <2>3 DEF FooterType, StoredRecord
<1> QED
  BY <1>2, <1>3, <1>4

\* The file records of an archive have digests of H.
Digests(s, H) == \A i \in DOMAIN s : s[i].tag = "FILE" => s[i].hash \in H

\* Storage leaves records, and no file but with an old digest or a broken one.
LEMMA DamageKeeps ==
  ASSUME archive \in Seq(StoredRecord), NEW H, <<Garbage>> \in H, Digests(archive, H), Damage
  PROVE  archive' \in Seq(StoredRecord) /\ Digests(archive', H)
<1>0. Len(archive) \in Nat /\ DOMAIN archive = 1..Len(archive)
      /\ \A i \in DOMAIN archive : archive[i] \in StoredRecord
  BY DEF Digests
<1>1. ASSUME NEW i \in DOMAIN archive, RotRecord(i)
      PROVE  archive' \in Seq(StoredRecord) /\ Digests(archive', H)
  <2>1. PICK r \in Rotted(archive[i]) : archive' = [archive EXCEPT ![i] = r]
    BY <1>1 DEF RotRecord
  <2>2. r \in StoredRecord /\ (r.tag = "FILE" => r.hash \in H)
    <3>1. CASE archive[i] \in ChunkStored
      BY <3>1, RottedChunk
    <3>2. CASE archive[i] \in FileStored
      <4>1. archive[i].hash \in H
        BY <3>2 DEF FileStored, Digests
      <4> QED
        BY <3>2, <4>1, RottedFile
    <3>3. CASE archive[i] \in {Header, Torn} \union DirectoryRecordType \union FooterType
      BY <3>3, RottedOther
    <3>4. StoredRecord = ChunkStored \union FileStored
                           \union ({Header, Torn} \union DirectoryRecordType \union FooterType)
      BY DEF StoredRecord, ChunkStored, FileStored
    <3> QED
      BY <1>0, <3>1, <3>2, <3>3, <3>4
  <2>3. archive' \in Seq(StoredRecord)
    BY <2>1, <2>2
  <2>4. ASSUME NEW j \in DOMAIN archive', archive'[j].tag = "FILE" PROVE archive'[j].hash \in H
    BY <2>1, <2>2, <2>4 DEF Digests
  <2> QED
    BY <2>3, <2>4 DEF Digests
<1>2. ASSUME NEW s, s \in Seq(StoredRecord), \A j \in DOMAIN s : \E k \in DOMAIN archive : s[j] = archive[k]
      PROVE  Digests(s, H)
  BY <1>2 DEF Digests
<1>3. ASSUME NEW i \in DOMAIN archive, LoseRecord(i)
      PROVE  archive' \in Seq(StoredRecord) /\ Digests(archive', H)
  <2>1. PICK a, b : a = SubSeq(archive, 1, i - 1) /\ b = SubSeq(archive, i + 1, Len(archive))
    OBVIOUS
  <2>2. archive' = a \o b
    BY <1>3, <2>1 DEF LoseRecord
  <2>3. a \in Seq(StoredRecord) /\ Len(a) = i - 1 /\ \A j \in 1..(i - 1) : a[j] = archive[j]
    BY <1>0, <2>1
  <2>4. b \in Seq(StoredRecord) /\ Len(b) = Len(archive) - i
        /\ \A j \in 1..(Len(archive) - i) : b[j] = archive[i + j]
    BY <1>0, <2>1
  <2>5. archive' \in Seq(StoredRecord)
    BY <2>2, <2>3, <2>4
  <2>6. ASSUME NEW j \in DOMAIN archive' PROVE \E k \in DOMAIN archive : archive'[j] = archive[k]
    <3>1. j \in 1..((i - 1) + (Len(archive) - i))
      BY <1>0, <2>2, <2>3, <2>4
    <3>2. CASE j <= i - 1
      BY <1>0, <2>2, <2>3, <3>1, <3>2
    <3>3. CASE ~(j <= i - 1)
      <4>1. archive'[j] = b[j - (i - 1)] /\ j - (i - 1) \in 1..(Len(archive) - i)
        BY <1>0, <2>2, <2>3, <2>4, <3>1, <3>3
      <4>2. i + (j - (i - 1)) \in DOMAIN archive
        BY <1>0, <4>1
      <4> QED
        BY <2>4, <4>1, <4>2
    <3> QED
      BY <3>2, <3>3
  <2> QED
    BY <1>2, <2>5, <2>6
<1>4. ASSUME NEW i \in DOMAIN archive, LoseTail(i - 1)
      PROVE  archive' \in Seq(StoredRecord) /\ Digests(archive', H)
  <2>1. archive' = SubSeq(archive, 1, i - 1)
    BY <1>4 DEF LoseTail
  <2>2. archive' \in Seq(StoredRecord) /\ Len(archive') = i - 1
        /\ \A j \in 1..(i - 1) : archive'[j] = archive[j]
    BY <1>0, <2>1
  <2>3. \A j \in DOMAIN archive' : j \in DOMAIN archive /\ archive'[j] = archive[j]
    BY <1>0, <2>2
  <2> QED
    BY <1>2, <2>2, <2>3
<1>5. CASE GrowTail
  <2>1. archive' = Append(archive, Torn)
    BY <1>5 DEF GrowTail
  <2>2. Torn \in StoredRecord /\ Torn.tag # "FILE"
    BY DEF StoredRecord, Torn
  <2>3. archive' \in Seq(StoredRecord)
    BY <2>1, <2>2
  <2>4. ASSUME NEW j \in DOMAIN archive', archive'[j].tag = "FILE" PROVE archive'[j].hash \in H
    BY <1>0, <2>1, <2>2, <2>4 DEF Digests
  <2> QED
    BY <2>3, <2>4 DEF Digests
<1> QED
  BY <1>1, <1>3, <1>4, <1>5 DEF Damage

\* What the reader holds, whatever was done to the archive it has read: files
\* with digests of C or a broken one, and content of C but in the file at hand.
Sound(f, C) == f.hash \in C \/ f.hash = <<Garbage>>
Rebuilt(p, C) == dest.files[p] \in C \/ (current # NoEntry /\ current.path = p /\ dest.files[p] = content)

HoldsOnly(C) ==
  /\ Files(fileList) /\ work \in Seq(FileStored) /\ content \in Seq(Chunk)
  /\ \A f \in Range(fileList) \union Range(work) : Sound(f, C)
  /\ current # NoEntry => Sound(current, C)
  /\ dest = [made |-> dest.made, dirs |-> dest.dirs, files |-> dest.files]
  /\ \A p \in DOMAIN dest.files : Rebuilt(p, C)

HandsOut(C) ==
  /\ rpc = "idle" \/ op.kind # "extract" => DOMAIN dest.files = {}
  /\ rpc # "done" => outcome = "none"
  /\ rpc = "mkdir" => op.kind = "extract"
  /\ op.kind = "cat" /\ rpc = "files" => work # <<>> \/ current # NoEntry \/ returned \in C
  /\ op.kind = "cat" /\ outcome = "ok" => returned \in C
  /\ op.kind = "extract" /\ outcome = "ok" => current = NoEntry

Faithfully(C) == HoldsOnly(C) /\ HandsOut(C)

\* A reader that has not started holds nothing.
LEMMA FaithfulInitial ==
  ASSUME NEW C, ReadInit
  PROVE  Faithfully(C)
<1>1. /\ fileList = <<>> /\ work = <<>> /\ content = <<>> /\ current = NoEntry /\ dest = NoDest
      /\ outcome = "none" /\ op.kind = "info" /\ rpc = "idle"
  BY DEF ReadInit
<1>2. Files(<<>>) /\ Range(<<>>) = {}
  BY DEF Files, Range
<1>3. dest = [made |-> FALSE, dirs |-> {}, files |-> <<>>]
  BY <1>1 DEF NoDest
<1>4. DOMAIN dest.files = {} /\ dest = [made |-> dest.made, dirs |-> dest.dirs, files |-> dest.files]
  BY <1>3
<1> QED
  BY <1>1, <1>2, <1>4 DEF Faithfully, HoldsOnly, HandsOut

\* More contents, and the same reader.
LEMMA FaithfulGrows ==
  ASSUME NEW C, NEW D, C \subseteq D, Faithfully(C), UNCHANGED readVars
  PROVE  Faithfully(D)'
<1>0. /\ rpc' = rpc /\ op' = op /\ outcome' = outcome
      /\ fileList' = fileList /\ dirSet' = dirSet /\ work' = work /\ current' = current
      /\ content' = content /\ returned' = returned /\ dest' = dest /\ NoEntry' = NoEntry
  BY DEF readVars, scanVars, fileVars, NoEntry
<1>1. /\ Range(fileList)' = Range(fileList) /\ FileStored' = FileStored /\ \A s : Files(s)' <=> Files(s)
      /\ Range(work') = Range(work)
  BY <1>0, CatalogStays
<1>2. Files(fileList)'
  BY <1>0, <1>1 DEF Faithfully, HoldsOnly, Files
<1>3. HoldsOnly(D)'
  BY <1>0, <1>1, <1>2 DEF Faithfully, HoldsOnly, Sound, Rebuilt
<1>4. HandsOut(D)'
  BY <1>0 DEF Faithfully, HandsOut
<1> QED
  BY <1>3, <1>4 DEF Faithfully

\* Nothing of what the reader holds changes, but files of the destination
\* may go.
LEMMA HoldingStays ==
  ASSUME NEW C, HoldsOnly(C), UNCHANGED <<fileList, work, current, content>>,
         \/ dest' = dest
         \/ dest' = NoDest
         \/ \E kept \in SUBSET DOMAIN dest.files : dest' = [dest EXCEPT !.files = Restrict(@, kept)]
         \/ \E ds : dest' = [dest EXCEPT !.dirs = ds]
  PROVE  HoldsOnly(C)'
<1>0. /\ fileList' = fileList /\ work' = work /\ current' = current /\ content' = content
      /\ NoEntry' = NoEntry
  BY DEF NoEntry
<1>1. Files(fileList)' /\ (work \in Seq(FileStored))' /\ Range(fileList)' = Range(fileList)
      /\ Range(work') = Range(work)
  BY <1>0 DEF HoldsOnly, Files, FileStored, Bytes, Path, Range
<1>2. /\ dest' = [made |-> dest'.made, dirs |-> dest'.dirs, files |-> dest'.files]
      /\ \A p \in DOMAIN dest'.files : p \in DOMAIN dest.files /\ dest'.files[p] = dest.files[p]
  <2>1. CASE dest' = dest
    BY <2>1 DEF HoldsOnly
  <2>2. CASE dest' = NoDest
    <3>1. dest' = [made |-> FALSE, dirs |-> {}, files |-> <<>>]
      BY <2>2 DEF NoDest
    <3>2. DOMAIN dest'.files = {} /\ dest' = [made |-> dest'.made, dirs |-> dest'.dirs, files |-> dest'.files]
      BY <3>1
    <3> QED
      BY <3>2
  <2>3. ASSUME NEW kept \in SUBSET DOMAIN dest.files, dest' = [dest EXCEPT !.files = Restrict(@, kept)]
        PROVE  /\ dest' = [made |-> dest'.made, dirs |-> dest'.dirs, files |-> dest'.files]
               /\ \A p \in DOMAIN dest'.files : p \in DOMAIN dest.files /\ dest'.files[p] = dest.files[p]
    <3>1. PICK r : r = Restrict(dest.files, kept)
      OBVIOUS
    <3>2. dest' = [made |-> dest.made, dirs |-> dest.dirs, files |-> r]
      BY <2>3, <3>1 DEF HoldsOnly
    <3>3. dest' = [made |-> dest'.made, dirs |-> dest'.dirs, files |-> dest'.files] /\ dest'.files = r
      BY <3>2
    <3>4. DOMAIN r = kept /\ \A p \in kept : r[p] = dest.files[p]
      BY <3>1 DEF Restrict
    <3> QED
      BY <3>3, <3>4
  <2>4. ASSUME NEW ds, dest' = [dest EXCEPT !.dirs = ds]
        PROVE  /\ dest' = [made |-> dest'.made, dirs |-> dest'.dirs, files |-> dest'.files]
               /\ \A p \in DOMAIN dest'.files : p \in DOMAIN dest.files /\ dest'.files[p] = dest.files[p]
    <3>1. dest' = [made |-> dest.made, dirs |-> ds, files |-> dest.files]
      BY <2>4 DEF HoldsOnly
    <3> QED
      BY <3>1
  <2> QED
    BY <2>1, <2>2, <2>3, <2>4
<1>3. (/\ \A f \in Range(fileList) \union Range(work) : Sound(f, C)
       /\ current # NoEntry => Sound(current, C))'
  BY <1>0, <1>1 DEF HoldsOnly, Sound
<1>4. (\A p \in DOMAIN dest.files : Rebuilt(p, C))'
  BY <1>0, <1>2 DEF HoldsOnly, Rebuilt
<1> QED
  BY <1>0, <1>1, <1>2, <1>3, <1>4 DEF HoldsOnly

\* The operation fails: it hands nothing out.
LEMMA FailingIsFaithful ==
  ASSUME NEW C, Faithfully(C), Fail
  PROVE  Faithfully(C)'
<1>0. HoldsOnly(C) /\ HandsOut(C)
  BY DEF Faithfully
<1>1. HoldsOnly(C)'
  <2>1. UNCHANGED <<fileList, work, current, content>>
    BY DEF Fail, scanVars
  <2>2. \/ dest' = NoDest
        \/ \E kept \in SUBSET DOMAIN dest.files : dest' = [dest EXCEPT !.files = Restrict(@, kept)]
    BY DEF Fail
  <2> QED
    BY <1>0, <2>1, <2>2, HoldingStays
<1>2. DOMAIN dest.files = {} => DOMAIN dest'.files = {}
  <2>1. CASE dest' = NoDest
    BY <2>1 DEF NoDest
  <2>2. ASSUME NEW kept \in SUBSET DOMAIN dest.files, dest' = [dest EXCEPT !.files = Restrict(@, kept)]
        PROVE  DOMAIN dest.files = {} => DOMAIN dest'.files = {}
    <3>1. DOMAIN Restrict(dest.files, kept) = kept
      BY DEF Restrict
    <3> QED
      BY <1>0, <2>2, <3>1 DEF HoldsOnly
  <2> QED
    BY <2>1, <2>2 DEF Fail
<1>3. HandsOut(C)'
  BY <1>0, <1>2 DEF Fail, HandsOut
<1> QED
  BY <1>1, <1>3 DEF Faithfully

\* The scan gathers a file: it is one of the archive.
LEMMA ScanningIsFaithful ==
  ASSUME NEW C, archive \in Seq(StoredRecord), Digests(archive, C \union {<<Garbage>>}), HoldsOnly(C),
         ScanFile
  PROVE  HoldsOnly(C)'
<1> DEFINE r == archive[pos]
<1>0. /\ fileList' = Append(fileList, r) /\ work' = work /\ current' = current /\ content' = content
      /\ dest' = dest /\ NoEntry' = NoEntry /\ pos \in DOMAIN archive /\ FileAccepted(r)
  BY DEF ScanFile, Advance, fileVars, NoEntry
<1>1. r.tag = "FILE" /\ r \in StoredRecord /\ r.path \notin Paths
  BY <1>0 DEF FileAccepted, PathAccepted
<1>2. r \in FileStored /\ Sound(r, C)
  <2>1. r \in FileStored
    BY <1>0, <1>1, StoredAt
  <2> QED
    BY <1>0, <1>1, <2>1 DEF Digests, Sound
<1>3. PICK f, l, n : f = r /\ l = Append(fileList, f) /\ n = Len(fileList)
  OBVIOUS
<1>4. /\ fileList \in Seq(FileStored) /\ DOMAIN fileList = 1..n /\ l \in Seq(FileStored)
      /\ DOMAIN l = 1..(n + 1) /\ l[n + 1] = f /\ \A k \in 1..n : l[k] = fileList[k]
      /\ n \in Nat /\ \A j, k \in 1..n : j # k => fileList[j].path # fileList[k].path
  <2>1. fileList \in Seq(FileStored) /\ f \in FileStored /\ n \in Nat /\ DOMAIN fileList = 1..n
    BY <1>2, <1>3 DEF HoldsOnly, Files
  <2>2. \A j, k \in 1..n : j # k => fileList[j].path # fileList[k].path
    BY <2>1 DEF HoldsOnly, Files
  <2> QED
    BY <1>3, <2>1, <2>2
<1>5. \A k \in 1..n : fileList[k] \in Range(fileList) /\ fileList[k].path # f.path
  BY <1>1, <1>3, <1>4 DEF Paths, Range
<1>6. Files(l)
  <2>1. ASSUME NEW j \in 1..(n + 1), NEW k \in 1..(n + 1), j # k PROVE l[j].path # l[k].path
    <3>1. CASE j \in 1..n /\ k \in 1..n
      BY <1>4, <2>1, <3>1
    <3>2. CASE j = n + 1
      <4>1. k \in 1..n /\ l[j] = f /\ l[k] = fileList[k]
        BY <1>4, <2>1, <3>2
      <4> QED
        BY <1>5, <4>1
    <3>3. CASE k = n + 1
      <4>1. j \in 1..n /\ l[k] = f /\ l[j] = fileList[j]
        BY <1>4, <2>1, <3>3
      <4> QED
        BY <1>5, <4>1
    <3> QED
      BY <1>4, <3>1, <3>2, <3>3
  <2> QED
    BY <1>4, <2>1 DEF Files
<1>7. Range(l) = Range(fileList) \union {f}
  BY <1>3, RangeOfAppend DEF HoldsOnly, Files
<1>8. fileList' = l /\ Range(fileList') = Range(fileList) \union {f} /\ Range(work') = Range(work)
  BY <1>0, <1>3, <1>7
<1>9. (/\ Files(fileList) /\ work \in Seq(FileStored) /\ content \in Seq(Chunk)
       /\ \A g \in Range(fileList) \union Range(work) : Sound(g, C))'
  BY <1>0, <1>2, <1>3, <1>6, <1>8, ZenonT(60) DEF HoldsOnly, Files, Sound, FileStored, Bytes, Path
<1>10. (/\ current # NoEntry => Sound(current, C)
        /\ dest = [made |-> dest.made, dirs |-> dest.dirs, files |-> dest.files]
        /\ \A p \in DOMAIN dest.files : Rebuilt(p, C))'
  BY <1>0 DEF HoldsOnly, Sound, Rebuilt
<1> QED
  BY <1>9, <1>10 DEF HoldsOnly

\* The plan takes files of the catalog.
LEMMA PlanningIsFaithful ==
  ASSUME NEW C, HoldsOnly(C), PlanFiles \/ MakeDestination
  PROVE  HoldsOnly(C)'
<1>0. /\ fileList' = fileList /\ current' = current /\ content' = content /\ NoEntry' = NoEntry
      /\ \/ dest' = dest
         \/ dest' = [NoDest EXCEPT !.made = TRUE]
  BY DEF PlanFiles, MakeDestination, scanVars, NoEntry
<1>1. work' \in Seq(FileStored) /\ Range(work') \subseteq Range(fileList)
  <2>0. Files(fileList)
    BY DEF HoldsOnly
  <2>1. CASE work' = fileList
    BY <2>0, <2>1 DEF Files
  <2>2. ASSUME NEW k \in CatFiles, work' = <<fileList[k]>>
        PROVE  work' \in Seq(FileStored) /\ Range(work') \subseteq Range(fileList)
    <3>1. k \in DOMAIN fileList
      BY DEF CatFiles
    <3>2. fileList[k] \in Range(fileList) /\ fileList[k] \in FileStored
      BY <2>0, <3>1 DEF Files, Range
    <3>3. Range(<<fileList[k]>>) = {fileList[k]}
      BY DEF Range
    <3> QED
      BY <2>2, <3>2, <3>3
  <2>3. CASE work' = WantedFiles
    <3>1. Files(WantedFiles) /\ Range(WantedFiles) \subseteq Range(fileList)
      BY <2>0, WantedFilesAre
    <3> QED
      BY <2>3, <3>1 DEF Files
  <2> QED
    BY <2>1, <2>2, <2>3 DEF PlanFiles, MakeDestination
<1>2. Range(fileList)' = Range(fileList) /\ FileStored' = FileStored /\ Files(fileList)'
  BY <1>0 DEF HoldsOnly, Files, FileStored, Bytes, Path, Range
<1>3. (/\ Files(fileList) /\ work \in Seq(FileStored) /\ content \in Seq(Chunk)
       /\ \A f \in Range(fileList) \union Range(work) : Sound(f, C)
       /\ current # NoEntry => Sound(current, C))'
  BY <1>0, <1>1, <1>2 DEF HoldsOnly, Sound
<1>4. (/\ dest = [made |-> dest.made, dirs |-> dest.dirs, files |-> dest.files]
       /\ \A p \in DOMAIN dest.files : Rebuilt(p, C))'
  <2>1. CASE dest' = dest
    BY <1>0, <2>1 DEF HoldsOnly, Rebuilt
  <2>2. CASE dest' = [NoDest EXCEPT !.made = TRUE]
    <3>1. dest' = [made |-> TRUE, dirs |-> {}, files |-> <<>>]
      BY <2>2 DEF NoDest
    <3>2. DOMAIN dest'.files = {} /\ dest' = [made |-> dest'.made, dirs |-> dest'.dirs, files |-> dest'.files]
      BY <3>1
    <3> QED
      BY <3>2
  <2> QED
    BY <1>0, <2>1, <2>2
<1> QED
  BY <1>3, <1>4 DEF HoldsOnly

\* A file of the destination is begun: empty, and in nobody's place.
LEMMA StartingIsFaithful ==
  ASSUME NEW C, HoldsOnly(C), StartEntry
  PROVE  HoldsOnly(C)' /\ current' # NoEntry
<1>0. /\ fileList' = fileList /\ current = NoEntry /\ current' = Head(work) /\ work' = Tail(work)
      /\ work # <<>> /\ content' = <<>> /\ NoEntry' = NoEntry
  BY DEF StartEntry, scanVars, NoEntry
<1>1. PICK f, w : f = Head(work) /\ w = Tail(work)
  OBVIOUS
<1>2. f \in FileStored /\ w \in Seq(FileStored) /\ Range(work) = Range(w) \union {f} /\ f # NoEntry
  <2>1. f \in FileStored /\ w \in Seq(FileStored) /\ Range(work) = Range(w) \union {f}
    BY <1>0, <1>1, HeadOfFiles DEF HoldsOnly
  <2> QED
    BY <2>1 DEF FileStored, NoEntry
<1>3. Range(fileList)' = Range(fileList) /\ FileStored' = FileStored /\ Files(fileList)'
  BY <1>0 DEF HoldsOnly, Files, FileStored, Bytes, Path, Range
<1>4. (/\ Files(fileList) /\ work \in Seq(FileStored) /\ content \in Seq(Chunk)
       /\ \A g \in Range(fileList) \union Range(work) : Sound(g, C)
       /\ current # NoEntry => Sound(current, C))'
  BY <1>0, <1>1, <1>2, <1>3 DEF HoldsOnly, Sound
<1>5. \A p \in DOMAIN dest.files : dest.files[p] \in C
  BY <1>0 DEF HoldsOnly, Rebuilt
<1>6. (/\ dest = [made |-> dest.made, dirs |-> dest.dirs, files |-> dest.files]
       /\ \A p \in DOMAIN dest.files : Rebuilt(p, C))'
  <2>1. CASE dest' = dest
    BY <1>0, <1>5, <2>1 DEF HoldsOnly, Rebuilt
  <2>2. CASE dest' = [dest EXCEPT !.dirs = @ \union WithParents(Parent(f.path)),
                                  !.files = PutFile(f.path, <<>>)]
    <3>1. PICK ds, fs, p, x : ds = dest.dirs \union WithParents(Parent(f.path)) /\ p = f.path /\ x = <<>>
                              /\ fs = PutFile(p, x)
      OBVIOUS
    <3>2. dest' = [made |-> dest.made, dirs |-> ds, files |-> fs]
      BY <2>2, <3>1 DEF HoldsOnly
    <3>3. /\ dest' = [made |-> dest'.made, dirs |-> dest'.dirs, files |-> dest'.files]
          /\ dest'.files = fs
      BY <3>2
    <3>4. /\ DOMAIN fs = DOMAIN dest.files \union {p} /\ fs[p] = x
          /\ \A q \in DOMAIN dest.files : q # p => fs[q] = dest.files[q]
      BY <3>1 DEF PutFile
    <3>5. \A q \in DOMAIN fs : fs[q] \in C \/ (q = p /\ fs[q] = x)
      BY <1>5, <3>4
    <3>6. current' # NoEntry /\ current'.path = p /\ content' = x
      BY <1>0, <1>1, <1>2, <3>1
    <3> QED
      BY <1>0, <3>3, <3>5, <3>6 DEF Rebuilt
  <2>3. dest' = dest \/ dest' = [dest EXCEPT !.dirs = @ \union WithParents(Parent(f.path)),
                                            !.files = PutFile(f.path, <<>>)]
    BY <1>1 DEF StartEntry
  <2> QED
    BY <2>1, <2>2, <2>3
<1> QED
  BY <1>0, <1>1, <1>2, <1>4, <1>6 DEF HoldsOnly

\* A chunk that read_chunk_data lets through is the one asked for.
LEMMA ReadingIsFaithful ==
  ASSUME NEW C, archive \in Seq(StoredRecord), HoldsOnly(C), ReadChunk,
         op.kind # "extract" => DOMAIN dest.files = {}
  PROVE  HoldsOnly(C)'
<1>0. /\ fileList' = fileList /\ work' = work /\ current' = current /\ current # NoEntry
      /\ NoEntry' = NoEntry /\ ChunkIntact(NextHash)
      /\ content' = Append(content, PayloadAt(chunkMap[NextHash].at))
  BY DEF ReadChunk, Rebuilding, scanVars, NoEntry
<1>1. PICK c : c = PayloadAt(chunkMap[NextHash].at)
  OBVIOUS
<1>2. c \in Chunk
  <2>1. c # Garbage
    BY <1>0, <1>1 DEF ChunkIntact
  <2>2. PICK n : n = chunkMap[NextHash].at
    OBVIOUS
  <2>3. n \in DOMAIN archive /\ archive[n].tag = "CHNK" /\ c = archive[n].data
    BY <1>1, <2>1, <2>2 DEF PayloadAt
  <2>4. archive[n] \in ChunkStored
    BY <2>3, StoredAt
  <2> QED
    BY <2>1, <2>3, <2>4 DEF ChunkStored, Bytes
<1>3. PICK x : x = content'
  OBVIOUS
<1>4. x \in Seq(Chunk)
  BY <1>0, <1>1, <1>2, <1>3 DEF HoldsOnly
<1>5. Range(fileList)' = Range(fileList) /\ FileStored' = FileStored /\ Files(fileList)'
      /\ Range(work') = Range(work)
  BY <1>0 DEF HoldsOnly, Files, FileStored, Bytes, Path, Range
<1>6. (/\ Files(fileList) /\ work \in Seq(FileStored) /\ content \in Seq(Chunk)
       /\ \A g \in Range(fileList) \union Range(work) : Sound(g, C)
       /\ current # NoEntry => Sound(current, C))'
  BY <1>0, <1>3, <1>4, <1>5 DEF HoldsOnly, Sound
<1>7. \A q \in DOMAIN dest.files : dest.files[q] \in C \/ (q = current.path /\ dest.files[q] = content)
  BY DEF HoldsOnly, Rebuilt
<1>8. (/\ dest = [made |-> dest.made, dirs |-> dest.dirs, files |-> dest.files]
       /\ \A p \in DOMAIN dest.files : Rebuilt(p, C))'
  <2>1. CASE op.kind = "extract"
    <3>1. PICK fs, p : p = current.path /\ fs = PutFile(p, x)
      OBVIOUS
    <3>2. dest' = [dest EXCEPT !.files = PutFile(current.path, content')]
      BY <2>1 DEF ReadChunk
    <3>3. dest' = [made |-> dest.made, dirs |-> dest.dirs, files |-> fs]
      BY <1>3, <3>1, <3>2 DEF HoldsOnly
    <3>4. /\ dest' = [made |-> dest'.made, dirs |-> dest'.dirs, files |-> dest'.files]
          /\ dest'.files = fs
      BY <3>3
    <3>5. /\ DOMAIN fs = DOMAIN dest.files \union {p} /\ fs[p] = x
          /\ \A q \in DOMAIN dest.files : q # p => fs[q] = dest.files[q]
      BY <3>1 DEF PutFile
    <3>6. \A q \in DOMAIN fs : fs[q] \in C \/ (q = p /\ fs[q] = x)
      BY <1>7, <3>1, <3>5
    <3> QED
      BY <1>0, <1>3, <3>1, <3>4, <3>6 DEF Rebuilt
  <2>2. CASE op.kind # "extract"
    <3>1. dest' = dest
      BY <2>2 DEF ReadChunk
    <3> QED
      BY <2>2, <3>1 DEF HoldsOnly
  <2> QED
    BY <2>1, <2>2
<1> QED
  BY <1>6, <1>8 DEF HoldsOnly

\* A file that has its digest is a file that was packed.
LEMMA FinishingIsFaithful ==
  ASSUME NEW C, HoldsOnly(C), FinishEntry
  PROVE  HoldsOnly(C)' /\ content \in C
<1>0. /\ fileList' = fileList /\ work' = work /\ current' = NoEntry /\ current # NoEntry
      /\ NoEntry' = NoEntry /\ content = current.hash /\ content' = content /\ dest' = dest
  BY DEF FinishEntry, FileIntact, Rebuilding, scanVars, NoEntry
<1>1. content \in C
  <2>1. <<Garbage>> \notin Seq(Chunk)
    <3>1. <<Garbage>>[1] = Garbage /\ 1 \in DOMAIN <<Garbage>>
      OBVIOUS
    <3> QED
      BY <3>1, ChunkAssumption
  <2> QED
    BY <1>0, <2>1 DEF HoldsOnly, Sound
<1>2. Range(fileList)' = Range(fileList) /\ FileStored' = FileStored /\ Files(fileList)'
      /\ Range(work') = Range(work)
  BY <1>0 DEF HoldsOnly, Files, FileStored, Bytes, Path, Range
<1>3. (\A p \in DOMAIN dest.files : Rebuilt(p, C))'
  BY <1>0, <1>1 DEF HoldsOnly, Rebuilt
<1>4. HoldsOnly(C)'
  BY <1>0, <1>2, <1>3 DEF HoldsOnly, Sound
<1> QED
  BY <1>1, <1>4

\* The reader stays faithful, whatever it reads.
LEMMA FaithfulStep ==
  ASSUME NEW C, archive \in Seq(StoredRecord), Digests(archive, C \union {<<Garbage>>}),
         Faithfully(C), ReadNext
  PROVE  Faithfully(C)'
<1>0. HoldsOnly(C) /\ HandsOut(C)
  BY DEF Faithfully
<1>1. ASSUME NEW o \in Operations, Open(o) PROVE Faithfully(C)'
  <2>1. HoldsOnly(C)'
    <3>1. UNCHANGED <<fileList, work, current, content>> /\ dest' = dest
      BY <1>1 DEF Open, scanVars, fileVars
    <3> QED
      BY <1>0, <3>1, HoldingStays
  <2>2. HandsOut(C)'
    BY <1>0, <1>1 DEF Open, HandsOut, fileVars
  <2> QED
    BY <2>1, <2>2 DEF Faithfully
<1>2. CASE ReadHeader \/ ScanChunk \/ ScanDirectory \/ ScanFooter
  <2>1. /\ fileList' = fileList /\ UNCHANGED <<fileList, work, current, content>> /\ dest' = dest
        /\ rpc = "scan" /\ rpc' \in {"scan", "plan"} /\ outcome' = outcome /\ op' = op
    BY <1>2 DEF ReadHeader, ScanChunk, ScanDirectory, ScanFooter, Advance, fileVars, scanVars
  <2>2. HoldsOnly(C)'
    BY <1>0, <2>1, HoldingStays
  <2>3. HandsOut(C)'
    BY <1>0, <2>1 DEF HandsOut
  <2> QED
    BY <2>2, <2>3 DEF Faithfully
<1>3. CASE ScanFile
  <2>1. dest' = dest /\ rpc = "scan" /\ rpc' = "scan" /\ outcome' = outcome /\ op' = op
    BY <1>3 DEF ScanFile, Advance, fileVars
  <2>2. HandsOut(C)'
    BY <1>0, <2>1 DEF HandsOut
  <2> QED
    BY <1>0, <1>3, <2>2, ScanningIsFaithful DEF Faithfully
<1>4. CASE Fail
  BY <1>4, FailingIsFaithful
<1>5. CASE ReportInfo \/ ReportFiles
  <2>1. /\ UNCHANGED <<fileList, work, current, content>> /\ dest' = dest /\ returned' = returned
        /\ op' = op /\ rpc' = "done" /\ outcome' = "ok" /\ current' = current /\ NoEntry' = NoEntry
        /\ \/ op.kind = "info"
           \/ rpc = "files" /\ current = NoEntry /\ work = <<>>
    BY <1>5 DEF ReportInfo, ReportFiles, Succeed, scanVars, NoEntry
  <2>2. HoldsOnly(C)'
    BY <1>0, <2>1, HoldingStays
  <2>3. HandsOut(C)'
    BY <1>0, <2>1 DEF HandsOut
  <2> QED
    BY <2>2, <2>3 DEF Faithfully
<1>6. CASE PlanFiles
  <2>1. op' = op /\ rpc = "plan" /\ rpc' = "files" /\ outcome' = outcome /\ dest' = dest
    BY <1>6 DEF PlanFiles
  <2>2. op.kind = "cat" => work' # <<>>
    <3>1. op.kind = "cat" => \E f : work' = <<f>>
      BY <1>6 DEF PlanFiles
    <3>2. \A f : <<f>> # <<>>
      OBVIOUS
    <3> QED
      BY <3>1, <3>2
  <2>3. HandsOut(C)'
    BY <1>0, <2>1, <2>2 DEF HandsOut
  <2> QED
    BY <1>0, <1>6, <2>3, PlanningIsFaithful DEF Faithfully
<1>7. CASE MakeDestination
  <2>1. op' = op /\ op.kind = "extract" /\ rpc = "plan" /\ rpc' = "mkdir" /\ outcome' = outcome
    BY <1>7 DEF MakeDestination
  <2>2. HandsOut(C)'
    BY <1>0, <2>1 DEF HandsOut
  <2> QED
    BY <1>0, <1>7, <2>2, PlanningIsFaithful DEF Faithfully
<1>8. CASE MakeDirectories
  <2>1. /\ op' = op /\ rpc = "mkdir" /\ rpc' = "files" /\ outcome' = outcome
        /\ UNCHANGED <<fileList, work, current, content>> /\ work' = work /\ current' = current
        /\ returned' = returned /\ NoEntry' = NoEntry
        /\ \E ds : dest' = [dest EXCEPT !.dirs = ds]
    BY <1>8 DEF MakeDirectories, scanVars, NoEntry
  <2>2. HoldsOnly(C)'
    BY <1>0, <2>1, HoldingStays
  <2>3. op.kind = "extract"
    BY <1>0, <2>1 DEF HandsOut
  <2>4. HandsOut(C)'
    BY <1>0, <2>1, <2>3 DEF HandsOut
  <2> QED
    BY <2>2, <2>4 DEF Faithfully
<1>9. CASE StartEntry
  <2>1. /\ op' = op /\ rpc = "files" /\ rpc' = "files" /\ outcome' = outcome /\ NoEntry' = NoEntry
        /\ op.kind # "extract" => dest' = dest
    BY <1>9 DEF StartEntry, NoEntry
  <2>2. HoldsOnly(C)' /\ current' # NoEntry
    BY <1>0, <1>9, StartingIsFaithful
  <2>3. HandsOut(C)'
    BY <1>0, <2>1, <2>2 DEF HandsOut
  <2> QED
    BY <2>2, <2>3 DEF Faithfully
<1>10. CASE ReadChunk
  <2>1. /\ op' = op /\ rpc = "files" /\ rpc' = "files" /\ outcome' = outcome /\ NoEntry' = NoEntry
        /\ current # NoEntry /\ current' = current /\ (op.kind # "extract" => dest' = dest)
    BY <1>10 DEF ReadChunk, Rebuilding, NoEntry
  <2>2. HoldsOnly(C)'
    BY <1>0, <1>10, ReadingIsFaithful DEF HandsOut
  <2>3. HandsOut(C)'
    BY <1>0, <2>1 DEF HandsOut
  <2> QED
    BY <2>2, <2>3 DEF Faithfully
<1>11. CASE FinishEntry
  <2>1. /\ op' = op /\ rpc = "files" /\ rpc' = "files" /\ outcome' = outcome /\ dest' = dest
        /\ returned' = IF op.kind = "cat" THEN content ELSE returned
    BY <1>11 DEF FinishEntry, Rebuilding
  <2>2. HoldsOnly(C)' /\ content \in C
    BY <1>0, <1>11, FinishingIsFaithful
  <2>3. HandsOut(C)'
    BY <1>0, <2>1, <2>2 DEF HandsOut
  <2> QED
    BY <2>2, <2>3 DEF Faithfully
<1>12. ScanRejects \/ NotFound \/ ChunkDamaged \/ FileDamaged \/ ReadError => Fail
  BY DEF ScanRejects, NotFound, ChunkDamaged, FileDamaged, ReadError
<1> QED
  BY <1>1, <1>2, <1>3, <1>4, <1>5, <1>6, <1>7, <1>8, <1>9, <1>10, <1>11, <1>12
     DEF ReadNext, ScanStep, PlanStep, FileStep

\* The invariant of writer, reader and storage together.
DamageInv ==
  /\ damage \in Nat
  /\ WritingInv
  /\ archive \in Seq(StoredRecord)
  /\ Digests(archive, KnownDigests)
  /\ Faithfully(Contents(packed))

\* Nothing is damaged, written or read at first.
LEMMA DamageInitial == RoundTripInit => DamageInv
<1> SUFFICES ASSUME RoundTripInit PROVE DamageInv
  OBVIOUS
<1>1. archive = <<>> /\ ReadInit /\ damage = 0
  BY DEF RoundTripInit, Init
<1>2. archive \in Seq(StoredRecord) /\ Digests(archive, KnownDigests)
  BY <1>1 DEF Digests
<1> QED
  BY <1>1, <1>2, WritingInitial, FaithfulInitial DEF DamageInv

\* Each step keeps it.
LEMMA DamageInvStep == DamageInv /\ [RoundTripNext]_allVars => DamageInv'
<1> SUFFICES ASSUME DamageInv, [RoundTripNext]_allVars PROVE DamageInv'
  OBVIOUS
<1>0. /\ damage \in Nat /\ WritingInv /\ WritingInv' /\ archive \in Seq(StoredRecord)
      /\ Digests(archive, KnownDigests) /\ Faithfully(Contents(packed))
  BY WritingStep DEF DamageInv
<1>1. PICK C : C = Contents(packed)
  OBVIOUS
<1>2. Digests(archive, C \union {<<Garbage>>}) /\ Faithfully(C)
  BY <1>0, <1>1 DEF KnownDigests
<1>3. ASSUME packed' = packed, archive' \in Seq(StoredRecord), Digests(archive', C \union {<<Garbage>>}),
             Faithfully(C)', damage' \in Nat
      PROVE  DamageInv'
  <2>1. Contents(packed)' = C
    BY <1>1, <1>3 DEF Contents, RecordsOf
  <2>2. (archive \in Seq(StoredRecord))'
    BY <1>3 DEF StoredRecord, Bytes, Header, Torn, DirectoryRecordType, FooterType, Path
  <2>3. Digests(archive, KnownDigests)'
    BY <1>3, <2>1 DEF Digests, KnownDigests
  <2>4. Faithfully(Contents(packed))'
    BY <1>3, <2>1 DEF Faithfully, HoldsOnly, HandsOut, Sound, Rebuilt
  <2> QED
    BY <1>0, <1>3, <2>2, <2>3, <2>4 DEF DamageInv
<1>4. CASE Damage
  <2>1. Strike
    BY <1>4 DEF Damage, RotRecord, LoseRecord, LoseTail, GrowTail
  <2>2. packed' = packed /\ damage' \in Nat /\ UNCHANGED readVars
    BY <1>0, <2>1 DEF Strike
  <2>3. archive' \in Seq(StoredRecord) /\ Digests(archive', C \union {<<Garbage>>})
    BY <1>0, <1>2, <1>4, DamageKeeps
  <2>4. Faithfully(C)'
    BY <1>2, <2>2, FaithfulGrows
  <2> QED
    BY <1>3, <2>2, <2>3, <2>4
<1>5. CASE Read
  <2>1. ReadNext /\ archive' = archive /\ packed' = packed /\ damage' = damage
    BY <1>5 DEF Read
  <2>2. Faithfully(C)'
    BY <1>0, <1>2, <2>1, FaithfulStep
  <2> QED
    BY <1>0, <1>2, <1>3, <2>1, <2>2
<1>6. CASE UNCHANGED allVars
  <2>1. UNCHANGED readVars /\ archive' = archive /\ packed' = packed /\ damage' = damage
    BY <1>6 DEF allVars
  <2>2. Faithfully(C)'
    BY <1>2, <2>1, FaithfulGrows
  <2> QED
    BY <1>0, <1>2, <1>3, <2>1, <2>2
<1>7. CASE Write
  <2>1. PackNext /\ packed' = archive' /\ damage' = damage /\ UNCHANGED readVars
    BY <1>7 DEF Write
  <2>2. pc \notin {"ok", "failed"}
    BY <2>1 DEF PackNext, RefuseInput, WriteHeader, WalkDirectory, OpenFile, RefuseEntry, ReferenceChunk,
                WriteChunk, CloseFile, FileTooLarge, WriteFooter, IoError
  <2>3. damage = 0 /\ TypeOK /\ packed = archive
    BY <1>0, <2>2 DEF WritingInv
  <2>4. TypeOK'
    BY <2>1, <2>3, StepTypes
  <2>5. archive \in Seq(WrittenRecord) /\ archive' \in Seq(WrittenRecord)
    <3>1. WrittenRecord' = WrittenRecord
      BY DEF WrittenRecord, Header, Torn, ChunkRecordType, DirectoryRecordType, FileRecordType,
             FooterType, Path
    <3> QED
      BY <2>3, <2>4, <3>1 DEF TypeOK
  <2>6. archive' \in Seq(StoredRecord)
    BY <2>5, WrittenIsStored
  <2>7. PICK D : D = Contents(archive')
    OBVIOUS
  <2>8. C \subseteq D
    <3>1. \A i \in DOMAIN archive : i \in DOMAIN archive' /\ archive'[i] = archive[i]
      <4>1. CASE archive' = archive
        BY <4>1
      <4>2. ASSUME NEW rec, archive' = Append(archive, rec)
            PROVE  \A i \in DOMAIN archive : i \in DOMAIN archive' /\ archive'[i] = archive[i]
        <5>1. /\ Len(archive) \in Nat /\ Len(archive') = Len(archive) + 1
              /\ \A i \in 1..Len(archive) : archive'[i] = archive[i]
          BY <2>5, <4>2, AppendPositions
        <5>2. DOMAIN archive = 1..Len(archive) /\ DOMAIN archive' = 1..(Len(archive) + 1)
          BY <2>5, <5>1
        <5> QED
          BY <5>1, <5>2
      <4> QED
        BY <2>1, <2>3, <4>1, <4>2, PackAppends
    <3> QED
      BY <1>1, <2>3, <2>7, <3>1 DEF Contents, RecordsOf
  <2>9. Contents(packed)' = D
    BY <2>1, <2>7 DEF Contents, RecordsOf
  <2>10. Faithfully(D)'
    BY <1>2, <2>1, <2>8, FaithfulGrows
  <2>11. Digests(archive, KnownDigests)'
    BY <2>7, <2>9 DEF Digests, KnownDigests, Contents, RecordsOf
  <2>12. (archive \in Seq(StoredRecord))'
    BY <2>6 DEF StoredRecord, Bytes, Header, Torn, DirectoryRecordType, FooterType, Path
  <2>13. Faithfully(Contents(packed))'
    BY <2>9, <2>10 DEF Faithfully, HoldsOnly, HandsOut, Sound, Rebuilt
  <2> QED
    BY <1>0, <2>1, <2>11, <2>12, <2>13 DEF DamageInv
<1> QED
  BY <1>4, <1>5, <1>6, <1>7 DEF RoundTripNext

\* However often and wherever storage strikes, before or while the archive is
\* read, a file that a successful operation hands out has the bytes of a file
\* that was packed.
THEOREM DamageNeverPasses == RoundTripSpec => []NoAlteredContent
<1>1. ASSUME DamageInv PROVE NoAlteredContent
  <2>1. ASSUME outcome = "ok", op.kind = "extract", NEW p \in DOMAIN dest.files
        PROVE  dest.files[p] \in Contents(packed)
    BY <1>1, <2>1 DEF DamageInv, Faithfully, HoldsOnly, HandsOut, Rebuilt
  <2>2. ASSUME outcome = "ok", op.kind = "cat" PROVE returned \in Contents(packed)
    BY <1>1, <2>2 DEF DamageInv, Faithfully, HandsOut
  <2> QED
    BY <2>1, <2>2 DEF NoAlteredContent
<1> QED
  BY <1>1, DamageInitial, DamageInvStep, PTL DEF RoundTripSpec

-----------------------------------------------------------------------------
(* Agreement.  What the writer has written the reader accepts, where no name  *)
(* has a backslash, which the reader refuses and the writer does not.         *)

Presentable == Backslashed = {}

\* A prefix of the archive that the scan gets through.
Formed(n) == PrefixFormed(n) /\ BodyTo(n) /\ Fitting(n)

\* The archive is legible so far, but for a last record that ended the packing.
Legible == \A n \in 0..Len(archive) : Formed(n) \/ (pc \in {"ok", "failed"} /\ n = Len(archive))

LengthsOf(refs) == [k \in DOMAIN refs |-> ChunkLen[refs[k]]]

\* The archive's records in numbers.
CountOf(t)   == Cardinality(Tagged(t, Len(archive)))
RefTotal     == SumTo(RefsOf, "FILE", Len(archive))
FileTotal    == SumTo(SizeOf, "FILE", Len(archive))
PayloadTotal == SumTo(PayloadOf, "CHNK", Len(archive))

\* The writer's counters are what the reader will count.
Books ==
  /\ stats["files"] = CountOf("FILE")
  /\ stats["directories"] = CountOf("DIRE")
  /\ stats["entries"] = stats["files"] + stats["directories"]
  /\ stats["unique_chunks"] = CountOf("CHNK")
  /\ stats["chunk_references"] = RefTotal + Len(file.refs)
  /\ stats["original_bytes"] = FileTotal
  /\ file.size = SumFunction(LengthsOf(file.refs))
  /\ \A i \in Tagged("CHNK", Len(archive)) : archive[i] = ChunkRecord(archive[i].hash)

\* Every path below a directory that was walked, and every file in its place.
Places ==
  /\ \A p \in walked : Storable(p) /\ \A k \in 1..(Len(p) - 1) : SubSeq(p, 1, k) \in dirs
  /\ \A i \in Tagged("DIRE", Len(archive)) : archive[i].path \in dirs
  /\ \A i \in Tagged("FILE", Len(archive)) : archive[i].path \in walked \ dirs
  /\ pc = "file" =>
       /\ file.path \in walked \ dirs
       /\ \A i \in Tagged("FILE", Len(archive)) : archive[i].path # file.path

Composing ==
  /\ Presentable /\ Structure /\ Ledger /\ Legible
  /\ pc # "failed" => Books /\ Places
  /\ pc = "start" => archive = <<>>
  /\ pc \in {"walk", "file"} => Len(archive) >= 1
  /\ pc \in {"start", "walk", "ok"} => file = NoFile
  /\ pc = "ok" => Len(archive) >= 2 /\ archive[Len(archive)] = FooterRecord(stats)

\* What may be stored is no matter of the state.
LEMMA StoredStays ==
  ASSUME archive' \in Seq(StoredRecord)
  PROVE  (archive \in Seq(StoredRecord))'
BY DEF StoredRecord, Bytes, Header, Torn, DirectoryRecordType, FooterType, Path

\* Record n + 1 counts.
CountedAt(n) ==
  /\ \A t \in {"CHNK", "DIRE", "FILE"} :
       /\ Cardinality(Tagged(t, n)) \in Nat
       /\ Cardinality(Tagged(t, n + 1)) =
            IF archive[n + 1].tag = t THEN Cardinality(Tagged(t, n)) + 1 ELSE Cardinality(Tagged(t, n))
       /\ SumTo(SizeOf, "CHNK", n) \in Nat /\ SumTo(PayloadOf, "CHNK", n) \in Nat
       /\ SumTo(SizeOf, "FILE", n) \in Nat /\ SumTo(RefsOf, "FILE", n) \in Nat
  /\ IF archive[n + 1].tag = "CHNK"
     THEN /\ SumTo(SizeOf, "CHNK", n + 1) = SumTo(SizeOf, "CHNK", n) + archive[n + 1].size
          /\ SumTo(PayloadOf, "CHNK", n + 1) = SumTo(PayloadOf, "CHNK", n) + archive[n + 1].payload
     ELSE /\ SumTo(SizeOf, "CHNK", n + 1) = SumTo(SizeOf, "CHNK", n)
          /\ SumTo(PayloadOf, "CHNK", n + 1) = SumTo(PayloadOf, "CHNK", n)
  /\ IF archive[n + 1].tag = "FILE"
     THEN /\ SumTo(SizeOf, "FILE", n + 1) = SumTo(SizeOf, "FILE", n) + archive[n + 1].size
          /\ SumTo(RefsOf, "FILE", n + 1) = SumTo(RefsOf, "FILE", n) + Len(archive[n + 1].refs)
     ELSE /\ SumTo(SizeOf, "FILE", n + 1) = SumTo(SizeOf, "FILE", n)
          /\ SumTo(RefsOf, "FILE", n + 1) = SumTo(RefsOf, "FILE", n)

\* A prefix of an archive, one record further, in numbers.
LEMMA RecordsCount ==
  archive \in Seq(StoredRecord) => \A n \in Nat : n < Len(archive) => CountedAt(n)
<1> SUFFICES ASSUME archive \in Seq(StoredRecord), NEW n \in Nat, n < Len(archive) PROVE CountedAt(n)
  OBVIOUS
<1>1. PICK m \in Nat : m = n + 1
  OBVIOUS
<1>2. m <= Len(archive)
  BY <1>1
<1>3. /\ \A i \in Tagged("CHNK", m) : SizeOf[i] \in Nat /\ PayloadOf[i] \in Nat
      /\ \A i \in Tagged("FILE", m) : SizeOf[i] \in Nat /\ RefsOf[i] \in Nat
      /\ \A i \in Tagged("CHNK", m) : SizeOf[i] = archive[i].size /\ PayloadOf[i] = archive[i].payload
      /\ \A i \in Tagged("FILE", m) : SizeOf[i] = archive[i].size /\ RefsOf[i] = Len(archive[i].refs)
  BY <1>2, FieldValues
<1>4. \A t : archive[m].tag = t => m \in Tagged(t, m)
  BY <1>1 DEF Tagged
<1>5. \A t : /\ Cardinality(Tagged(t, n)) \in Nat
             /\ Cardinality(Tagged(t, m)) =
                  IF archive[m].tag = t THEN Cardinality(Tagged(t, n)) + 1 ELSE Cardinality(Tagged(t, n))
  BY <1>1, TaggedStep
<1>6. /\ SumTo(SizeOf, "CHNK", n) \in Nat
      /\ SumTo(SizeOf, "CHNK", m) = IF archive[m].tag = "CHNK" THEN SumTo(SizeOf, "CHNK", n) + SizeOf[m]
                                                                ELSE SumTo(SizeOf, "CHNK", n)
  BY <1>1, <1>3, SumToStep
<1>7. /\ SumTo(PayloadOf, "CHNK", n) \in Nat
      /\ SumTo(PayloadOf, "CHNK", m) =
           IF archive[m].tag = "CHNK" THEN SumTo(PayloadOf, "CHNK", n) + PayloadOf[m]
                                      ELSE SumTo(PayloadOf, "CHNK", n)
  BY <1>1, <1>3, SumToStep
<1>8. /\ SumTo(SizeOf, "FILE", n) \in Nat
      /\ SumTo(SizeOf, "FILE", m) = IF archive[m].tag = "FILE" THEN SumTo(SizeOf, "FILE", n) + SizeOf[m]
                                                                ELSE SumTo(SizeOf, "FILE", n)
  BY <1>1, <1>3, SumToStep
<1>9. /\ SumTo(RefsOf, "FILE", n) \in Nat
      /\ SumTo(RefsOf, "FILE", m) = IF archive[m].tag = "FILE" THEN SumTo(RefsOf, "FILE", n) + RefsOf[m]
                                                                ELSE SumTo(RefsOf, "FILE", n)
  BY <1>1, <1>3, SumToStep
<1> QED
  BY <1>1, <1>3, <1>4, <1>5, <1>6, <1>7, <1>8, <1>9 DEF CountedAt

\* A prefix with one more record that is as it should be.
LEMMA PrefixGrows ==
  archive \in Seq(StoredRecord) =>
    \A n \in Nat : n < Len(archive) /\ PrefixFormed(n) /\ RecordFormed(n + 1)
                     /\ (n = 0 => archive[1] = Header) => PrefixFormed(n + 1)
<1> SUFFICES ASSUME archive \in Seq(StoredRecord), NEW n \in Nat, n < Len(archive), PrefixFormed(n),
                    RecordFormed(n + 1), n = 0 => archive[1] = Header
             PROVE  PrefixFormed(n + 1)
  OBVIOUS
<1>1. PICK m \in Nat : m = n + 1
  OBVIOUS
<1>2. \A t : /\ Tagged(t, m) = IF archive[m].tag = t THEN Tagged(t, n) \union {m} ELSE Tagged(t, n)
             /\ Tagged(t, n) \subseteq 1..n /\ m \notin Tagged(t, n)
  BY <1>1, TaggedStep
<1>3. RecordFormed(m) /\ m - 1 = n /\ m >= 1
  BY <1>1
<1>4. archive[1] = Header
  BY DEF PrefixFormed
<1>5. \A i \in Tagged("CHNK", m) :
        ChunkHeaderValid(archive[i]) /\ \A j \in 1..(i - 1) : ~Defines(j, archive[i].hash)
  <2>1. ASSUME NEW i \in Tagged("CHNK", m)
        PROVE  ChunkHeaderValid(archive[i]) /\ \A j \in 1..(i - 1) : ~Defines(j, archive[i].hash)
    <3>1. CASE i \in Tagged("CHNK", n)
      BY <3>1 DEF PrefixFormed
    <3>2. CASE i = m /\ archive[m].tag = "CHNK"
      BY <1>3, <3>2 DEF RecordFormed
    <3> QED
      BY <1>2, <3>1, <3>2
  <2> QED
    BY <2>1
<1>6. \A i \in Tagged("DIRE", m) \union Tagged("FILE", m) :
        /\ Readable(archive[i].path)
        /\ \A j \in Tagged("DIRE", m) \union Tagged("FILE", m) :
             j # i => archive[j].path # archive[i].path
  <2>1. \A i \in Tagged("DIRE", m) \union Tagged("FILE", m) :
          i \in Tagged("DIRE", n) \union Tagged("FILE", n) \/ (i = m /\ archive[m].tag \in {"DIRE", "FILE"})
    BY <1>2
  <2>2. archive[m].tag \in {"DIRE", "FILE"} =>
          /\ Readable(archive[m].path)
          /\ \A j \in Tagged("DIRE", n) \union Tagged("FILE", n) : archive[j].path # archive[m].path
    BY <1>3 DEF RecordFormed
  <2>3. \A i \in Tagged("DIRE", n) \union Tagged("FILE", n) :
          /\ Readable(archive[i].path)
          /\ \A j \in Tagged("DIRE", n) \union Tagged("FILE", n) :
               j # i => archive[j].path # archive[i].path
    BY DEF PrefixFormed
  <2> QED
    BY <2>1, <2>2, <2>3
<1>7. \A i \in Tagged("FILE", m) : FileFormed(i)
  BY <1>2, <1>3 DEF PrefixFormed, RecordFormed
<1>8. PrefixFormed(m)
  BY <1>4, <1>5, <1>6, <1>7 DEF PrefixFormed
<1> QED
  BY <1>1, <1>8

\* The numbers after one more record.
LEMMA AppendCounts ==
  ASSUME archive \in Seq(WrittenRecord), archive' \in Seq(WrittenRecord),
         NEW rec, archive' = Append(archive, rec)
  PROVE  /\ \A t \in {"CHNK", "DIRE", "FILE"} :
              /\ CountOf(t) \in Nat
              /\ CountOf(t)' = IF rec.tag = t THEN CountOf(t) + 1 ELSE CountOf(t)
         /\ RefTotal \in Nat /\ FileTotal \in Nat /\ PayloadTotal \in Nat
         /\ IF rec.tag = "FILE"
            THEN RefTotal' = RefTotal + Len(rec.refs) /\ FileTotal' = FileTotal + rec.size
            ELSE RefTotal' = RefTotal /\ FileTotal' = FileTotal
         /\ IF rec.tag = "CHNK"
            THEN PayloadTotal' = PayloadTotal + rec.payload
            ELSE PayloadTotal' = PayloadTotal
<1>1. archive \in Seq(StoredRecord) /\ archive' \in Seq(StoredRecord)
  BY WrittenIsStored
<1>2. PICK N \in Nat, m \in Nat : N = Len(archive) /\ m = N + 1
  OBVIOUS
<1>3. /\ Len(archive') = m /\ N < Len(archive') /\ archive'[m] = rec
      /\ \A i \in 1..N : archive'[i] = archive[i]
  BY <1>2, AppendPositions
<1>4. (archive \in Seq(StoredRecord))'
  BY <1>1, StoredStays
<1>5. CountedAt(N)'
  <2>1. (\A n \in Nat : n < Len(archive) => CountedAt(n))'
    BY <1>4, RecordsCount, PTL
  <2> QED
    BY <1>3, <2>1
<1>6. /\ \A t : Tagged(t, N)' = Tagged(t, N)
      /\ SumTo(SizeOf, "FILE", N)' = SumTo(SizeOf, "FILE", N)
      /\ SumTo(SizeOf, "CHNK", N)' = SumTo(SizeOf, "CHNK", N)
      /\ SumTo(PayloadOf, "CHNK", N)' = SumTo(PayloadOf, "CHNK", N)
      /\ SumTo(RefsOf, "FILE", N)' = SumTo(RefsOf, "FILE", N)
  BY <1>1, <1>2, <1>3, PrefixKept
<1>7. \A t \in {"CHNK", "DIRE", "FILE"} :
        /\ Cardinality(Tagged(t, N)) \in Nat
        /\ Cardinality(Tagged(t, m)') =
             IF rec.tag = t THEN Cardinality(Tagged(t, N)) + 1 ELSE Cardinality(Tagged(t, N))
  BY <1>2, <1>3, <1>5, <1>6 DEF CountedAt
<1>8. /\ SumTo(SizeOf, "CHNK", N) \in Nat /\ SumTo(PayloadOf, "CHNK", N) \in Nat
      /\ SumTo(SizeOf, "FILE", N) \in Nat /\ SumTo(RefsOf, "FILE", N) \in Nat
      /\ IF rec.tag = "CHNK"
         THEN /\ SumTo(SizeOf, "CHNK", m)' = SumTo(SizeOf, "CHNK", N) + rec.size
              /\ SumTo(PayloadOf, "CHNK", m)' = SumTo(PayloadOf, "CHNK", N) + rec.payload
         ELSE /\ SumTo(SizeOf, "CHNK", m)' = SumTo(SizeOf, "CHNK", N)
              /\ SumTo(PayloadOf, "CHNK", m)' = SumTo(PayloadOf, "CHNK", N)
      /\ IF rec.tag = "FILE"
         THEN /\ SumTo(SizeOf, "FILE", m)' = SumTo(SizeOf, "FILE", N) + rec.size
              /\ SumTo(RefsOf, "FILE", m)' = SumTo(RefsOf, "FILE", N) + Len(rec.refs)
         ELSE /\ SumTo(SizeOf, "FILE", m)' = SumTo(SizeOf, "FILE", N)
              /\ SumTo(RefsOf, "FILE", m)' = SumTo(RefsOf, "FILE", N)
  BY <1>2, <1>3, <1>5, <1>6 DEF CountedAt
<1>9. \A t \in {"CHNK", "DIRE", "FILE"} :
        CountOf(t) = Cardinality(Tagged(t, N)) /\ CountOf(t)' = Cardinality(Tagged(t, m)')
  BY <1>2, <1>3 DEF CountOf
<1>10. /\ RefTotal = SumTo(RefsOf, "FILE", N) /\ RefTotal' = SumTo(RefsOf, "FILE", m)'
       /\ FileTotal = SumTo(SizeOf, "FILE", N) /\ FileTotal' = SumTo(SizeOf, "FILE", m)'
       /\ PayloadTotal = SumTo(PayloadOf, "CHNK", N) /\ PayloadTotal' = SumTo(PayloadOf, "CHNK", m)'
  BY <1>2, <1>3 DEF RefTotal, FileTotal, PayloadTotal
<1> QED
  BY <1>7, <1>8, <1>9, <1>10

\* A file's size, one reference further.
LEMMA LengthsGrow ==
  ASSUME NEW refs \in Seq(Chunk), NEW c \in Chunk, NEW s, s = Append(refs, c)
  PROVE  SumFunction(LengthsOf(s)) = SumFunction(LengthsOf(refs)) + ChunkLen[c]
<1>1. PICK n \in Nat, m \in Nat : n = Len(refs) /\ m = n + 1
  OBVIOUS
<1>2. /\ DOMAIN refs = 1..n /\ DOMAIN s = 1..m /\ s[m] = c /\ m \notin 1..n
      /\ \A k \in 1..n : s[k] = refs[k]
      /\ 1..m = 1..n \union {m} /\ IsFiniteSet(1..n)
  <2>1. IsFiniteSet(1..n)
    BY FS_Interval
  <2> QED
    BY <1>1, <2>1
<1>3. \A x \in Chunk : ChunkLen[x] \in Nat
  BY ChunkAssumption, BoundAssumption
<1>4. PICK f, g : f = LengthsOf(s) /\ g = LengthsOf(refs)
  OBVIOUS
<1>5. f \in [1..m -> Nat] /\ g \in [1..n -> Nat] /\ f[m] = ChunkLen[c]
  BY <1>2, <1>3, <1>4 DEF LengthsOf
<1>6. \A k \in 1..n : f[k] = g[k]
  BY <1>2, <1>4 DEF LengthsOf
<1>7. SumFunction(f) = SumFunction(g) + f[m]
  <2>1. PICK D, E : D = 1..n /\ E = 1..m
    OBVIOUS
  <2>2. /\ IsFiniteSet(D) /\ m \notin D /\ E = D \union {m}
        /\ f \in [E -> Nat] /\ g \in [D -> Nat] /\ \A k \in D : f[k] = g[k]
    BY <1>2, <1>5, <1>6, <2>1
  <2> QED
    BY ONLY <2>2, SumAdded, SMTT(30)
<1> QED
  BY <1>4, <1>5, <1>7

\* Books that balance do not overflow the reader's counters.
LEMMA BooksFit ==
  Ledger /\ Books /\ pc # "failed" => Fitting(Len(archive))
<1> SUFFICES ASSUME Ledger, Books, pc # "failed" PROVE Fitting(Len(archive))
  OBVIOUS
<1>1. /\ archive \in Seq(WrittenRecord) /\ stats \in [CounterNames -> 0..CounterMax]
      /\ seen \subseteq Chunk /\ file \in FileType
  BY DEF Ledger, TypeOK
<1>2. PICK N \in Nat : N = Len(archive)
  BY <1>1
<1>3. archive \in Seq(StoredRecord)
  BY <1>1, WrittenIsStored
<1>4. \A c \in CounterNames : stats[c] <= CounterMax
  BY <1>1, BoundAssumption
<1>5. Cardinality(Tagged("FILE", N)) + Cardinality(Tagged("DIRE", N)) <= CounterMax
  BY <1>2, <1>4, CounterNamesAre DEF Books, CountOf
<1>6. SumTo(RefsOf, "FILE", N) <= CounterMax
  <2>1. \A i \in Tagged("FILE", N) : RefsOf[i] \in Nat
    BY <1>2, <1>3, FieldValues
  <2>2. SumTo(RefsOf, "FILE", N) \in Nat
    BY <2>1, SumToMonotone
  <2>3. Len(file.refs) \in Nat
    BY <1>1 DEF FileType
  <2>4. stats["chunk_references"] = SumTo(RefsOf, "FILE", N) + Len(file.refs)
    BY <1>2 DEF Books, RefTotal
  <2> QED
    BY <1>4, <2>2, <2>3, <2>4, CounterNamesAre, BoundAssumption
<1>7. SumTo(SizeOf, "FILE", N) <= CounterMax
  BY <1>2, <1>4, CounterNamesAre DEF Books, FileTotal
<1>8. SumTo(PayloadOf, "CHNK", N) <= CounterMax
  <2>1. \A i \in Tagged("CHNK", N) : PayloadOf[i] = archive[i].payload
    BY <1>2, <1>3, FieldValues
  <2>2. SumTo(PayloadOf, "CHNK", N) = SumFunction(Payloads)
    BY <1>2, <2>1 DEF SumTo, Payloads
  <2> QED
    BY <1>4, <2>2, CounterNamesAre DEF Ledger
<1> QED
  BY <1>2, <1>5, <1>6, <1>7, <1>8 DEF Fitting

\* What the writer enters in its books when it writes a record is what the
\* reader will.
LEMMA BooksStep ==
  ASSUME Structure, TypeOK', Books, PackNext, pc' # "failed"
  PROVE  Books'
<1>1. /\ TypeOK /\ archive \in Seq(WrittenRecord) /\ archive' \in Seq(WrittenRecord)
      /\ stats \in [CounterNames -> Nat] /\ file \in FileType /\ seen \subseteq Chunk
  <2>1. WrittenRecord' = WrittenRecord
    BY DEF WrittenRecord, Header, Torn, ChunkRecordType, DirectoryRecordType, FileRecordType,
           FooterType, Path
  <2> QED
    BY <2>1, BoundAssumption DEF TypeOK, Structure
<1>2. PICK N \in Nat : N = Len(archive)
  BY <1>1
<1>3. /\ Header.tag = "RGX"
      /\ \A p : DirectoryRecord(p).tag = "DIRE"
      /\ \A s : FooterRecord(s).tag = "RGXF"
      /\ \A p, n, s : LET r == FileRecord(p, n, s) IN r.tag = "FILE" /\ r.size = n /\ r.refs = s
      /\ \A c : LET r == ChunkRecord(c) IN r.tag = "CHNK" /\ r.hash = c /\ r.size = ChunkLen[c]
  BY DEF Header, DirectoryRecord, FooterRecord, FileRecord, ChunkRecord
<1>4. ASSUME archive' = archive
      PROVE  /\ \A t : CountOf(t)' = CountOf(t)
             /\ RefTotal' = RefTotal /\ FileTotal' = FileTotal
             /\ (\A i \in Tagged("CHNK", Len(archive)) : archive[i] = ChunkRecord(archive[i].hash))'
  BY <1>4 DEF CountOf, RefTotal, FileTotal, SumTo, Tagged, RefsOf, SizeOf, Books, ChunkRecord
<1>5. ASSUME NEW rec, archive' = Append(archive, rec), rec.tag = "CHNK" => rec = ChunkRecord(rec.hash)
      PROVE  (\A i \in Tagged("CHNK", Len(archive)) : archive[i] = ChunkRecord(archive[i].hash))'
  <2>1. /\ \A i \in 1..N : archive'[i] = archive[i]
        /\ archive'[N + 1] = rec
        /\ Tagged("CHNK", Len(archive))' = IF rec.tag = "CHNK" THEN Tagged("CHNK", N) \union {N + 1}
                                                                ELSE Tagged("CHNK", N)
        /\ Tagged("CHNK", N) \subseteq 1..N
    BY <1>1, <1>2, <1>5, AppendPositions, AppendTagged, TaggedStep
  <2>2. \A i \in Tagged("CHNK", N) : archive[i] = ChunkRecord(archive[i].hash)
    BY <1>2 DEF Books
  <2>3. \A i \in Tagged("CHNK", Len(archive))' : archive'[i] = ChunkRecord(archive'[i].hash)
    BY <1>5, <2>1, <2>2
  <2> QED
    BY <2>3 DEF ChunkRecord
<1>6. ASSUME NEW c \in Chunk
      PROVE  /\ Referenced(c).size = file.size + ChunkLen[c]
             /\ Referenced(c).refs = Append(file.refs, c)
             /\ Len(Append(file.refs, c)) = Len(file.refs) + 1
             /\ Len(file.refs) \in Nat
             /\ SumFunction(LengthsOf(Append(file.refs, c))) =
                  SumFunction(LengthsOf(file.refs)) + ChunkLen[c]
  <2>1. file.refs \in Seq(Chunk)
    BY <1>1 DEF FileType
  <2>2. PICK s : s = Append(file.refs, c)
    OBVIOUS
  <2>3. SumFunction(LengthsOf(s)) = SumFunction(LengthsOf(file.refs)) + ChunkLen[c]
    BY <1>6, <2>1, <2>2, LengthsGrow
  <2>4. Len(s) = Len(file.refs) + 1 /\ Len(file.refs) \in Nat
    BY <2>1, <2>2
  <2> QED
    BY <2>2, <2>3, <2>4 DEF Referenced
<1>7. CASE WriteHeader
  <2>1. archive' = Append(archive, Header) /\ stats' = stats /\ file' = file /\ seen' = seen
    BY <1>7 DEF WriteHeader
  <2>2. /\ \A t \in {"CHNK", "DIRE", "FILE"} : CountOf(t)' = CountOf(t)
        /\ RefTotal' = RefTotal /\ FileTotal' = FileTotal
    BY <1>1, <1>3, <2>1, AppendCounts
  <2> QED
    BY <1>3, <1>5, <2>1, <2>2 DEF Books, LengthsOf
<1>8. ASSUME NEW p \in Deliverable, WalkDirectory(p) PROVE Books'
  <2>1. /\ archive' = Append(archive, DirectoryRecord(p)) /\ file' = file /\ seen' = seen
        /\ stats' = Add(Add(stats, "entries", 1), "directories", 1)
    BY <1>8 DEF WalkDirectory, Count
  <2>2. /\ CountOf("CHNK")' = CountOf("CHNK") /\ CountOf("FILE")' = CountOf("FILE")
        /\ CountOf("DIRE")' = CountOf("DIRE") + 1
        /\ RefTotal' = RefTotal /\ FileTotal' = FileTotal
    BY <1>1, <1>3, <2>1, AppendCounts
  <2>3. /\ stats'["entries"] = stats["entries"] + 1
        /\ stats'["directories"] = stats["directories"] + 1
        /\ \A n \in CounterNames \ {"entries", "directories"} : stats'[n] = stats[n]
    BY <1>1, <2>1, CounterNamesAre DEF Add
  <2>4. (\A i \in Tagged("CHNK", Len(archive)) : archive[i] = ChunkRecord(archive[i].hash))'
    BY <1>3, <1>5, <2>1
  <2>5. stats'["entries"] = stats'["files"] + stats'["directories"]
    BY <1>1, <2>3, CounterNamesAre DEF Books
  <2>6. /\ stats'["files"] = CountOf("FILE")' /\ stats'["directories"] = CountOf("DIRE")'
        /\ stats'["unique_chunks"] = CountOf("CHNK")' /\ stats'["original_bytes"] = FileTotal'
        /\ stats'["chunk_references"] = RefTotal' + Len(file'.refs)
    BY <2>1, <2>2, <2>3, CounterNamesAre DEF Books
  <2> QED
    BY <2>1, <2>2, <2>4, <2>5, <2>6 DEF Books, LengthsOf
<1>9. ASSUME NEW p \in Deliverable, OpenFile(p) PROVE Books'
  <2>1. archive' = archive /\ stats' = stats /\ file'.refs = <<>> /\ file'.size = 0 /\ seen' = seen
    BY <1>9 DEF OpenFile
  <2>2. pc = "walk" /\ file.refs = <<>>
    BY <1>9 DEF OpenFile, Structure, InProgressSeen
  <2>3. SumFunction(LengthsOf(file'.refs)) = 0
    BY <2>1, SumEmpty DEF LengthsOf
  <2> QED
    BY <1>4, <2>1, <2>2, <2>3 DEF Books, LengthsOf
<1>10. ASSUME NEW c \in Chunk, ReferenceChunk(c) PROVE Books'
  <2>1. /\ archive' = archive /\ file' = Referenced(c) /\ seen' = seen
        /\ stats' = Add(Add(stats, "chunk_references", 1), "deduplicated_bytes", ChunkLen[c])
    BY <1>10 DEF ReferenceChunk, Count
  <2>2. /\ stats'["chunk_references"] = stats["chunk_references"] + 1
        /\ \A n \in CounterNames \ {"chunk_references", "deduplicated_bytes"} : stats'[n] = stats[n]
    BY <1>1, <2>1, CounterNamesAre DEF Add
  <2>3. RefTotal \in Nat
    <3>1. archive \in Seq(StoredRecord)
      BY <1>1, WrittenIsStored
    <3>2. \A i \in Tagged("FILE", N) : RefsOf[i] \in Nat
      BY <1>2, <3>1, FieldValues
    <3> QED
      BY <1>2, <3>2, SumToMonotone DEF RefTotal
  <2>4. /\ file'.size = SumFunction(LengthsOf(file'.refs))
        /\ stats'["chunk_references"] = RefTotal + Len(file'.refs)
    <3>1. file'.size = SumFunction(LengthsOf(file'.refs)) /\ Len(file'.refs) = Len(file.refs) + 1
      BY <1>6, <2>1 DEF Books
    <3> QED
      BY <1>6, <2>2, <2>3, <3>1 DEF Books
  <2> QED
    BY <1>4, <2>1, <2>2, <2>4, CounterNamesAre DEF Books, LengthsOf
<1>11. ASSUME NEW c \in Chunk, WriteChunk(c) PROVE Books'
  <2>1. /\ archive' = Append(archive, ChunkRecord(c)) /\ file' = Referenced(c)
        /\ c \notin seen /\ seen' = seen \union {c}
        /\ stats' = Add(Add(Add(stats, "chunk_references", 1), "unique_chunks", 1),
                        "stored_bytes", ChunkRecord(c).payload)
    BY <1>11 DEF WriteChunk, Count
  <2>2. /\ stats'["chunk_references"] = stats["chunk_references"] + 1
        /\ stats'["unique_chunks"] = stats["unique_chunks"] + 1
        /\ \A n \in CounterNames \ {"chunk_references", "unique_chunks", "stored_bytes"} :
             stats'[n] = stats[n]
    BY <1>1, <2>1, CounterNamesAre DEF Add
  <2>3. /\ CountOf("CHNK")' = CountOf("CHNK") + 1
        /\ CountOf("FILE")' = CountOf("FILE") /\ CountOf("DIRE")' = CountOf("DIRE")
        /\ RefTotal' = RefTotal /\ FileTotal' = FileTotal
        /\ RefTotal \in Nat
    BY <1>1, <1>3, <2>1, AppendCounts
  <2>4. (\A i \in Tagged("CHNK", Len(archive)) : archive[i] = ChunkRecord(archive[i].hash))'
    BY <1>3, <1>5, <2>1
  <2>5. /\ file'.size = SumFunction(LengthsOf(file'.refs))
        /\ stats'["chunk_references"] = RefTotal' + Len(file'.refs)
    <3>1. file'.size = SumFunction(LengthsOf(file'.refs)) /\ Len(file'.refs) = Len(file.refs) + 1
      BY <1>6, <2>1 DEF Books
    <3> QED
      BY <1>6, <2>2, <2>3, <3>1 DEF Books
  <2> QED
    BY <2>2, <2>3, <2>4, <2>5, CounterNamesAre DEF Books, LengthsOf
<1>12. CASE CloseFile
  <2>1. /\ archive' = Append(archive, FileRecord(file.path, file.size, file.refs))
        /\ file'.refs = <<>> /\ file'.size = 0 /\ seen' = seen
        /\ stats' = Add(Add(Add(stats, "entries", 1), "files", 1), "original_bytes", file.size)
    BY <1>12 DEF CloseFile, Count, NoFile
  <2>2. /\ stats'["entries"] = stats["entries"] + 1 /\ stats'["files"] = stats["files"] + 1
        /\ stats'["original_bytes"] = stats["original_bytes"] + file.size
        /\ \A n \in CounterNames \ {"entries", "files", "original_bytes"} : stats'[n] = stats[n]
    BY <1>1, <2>1, CounterNamesAre DEF Add
  <2>3. /\ CountOf("CHNK")' = CountOf("CHNK") /\ CountOf("DIRE")' = CountOf("DIRE")
        /\ CountOf("FILE")' = CountOf("FILE") + 1
        /\ RefTotal' = RefTotal + Len(file.refs) /\ FileTotal' = FileTotal + file.size
        /\ RefTotal \in Nat
    BY <1>1, <1>3, <2>1, AppendCounts, SMTT(30)
  <2>4. SumFunction(LengthsOf(file'.refs)) = 0 /\ Len(file.refs) \in Nat /\ Len(file'.refs) = 0
    BY <1>1, <2>1, SumEmpty DEF LengthsOf, FileType
  <2>5. (\A i \in Tagged("CHNK", Len(archive)) : archive[i] = ChunkRecord(archive[i].hash))'
    BY <1>3, <1>5, <2>1
  <2>6. stats'["entries"] = stats'["files"] + stats'["directories"]
    BY <1>1, <2>2, CounterNamesAre DEF Books
  <2>7. /\ stats'["files"] = CountOf("FILE")' /\ stats'["directories"] = CountOf("DIRE")'
        /\ stats'["unique_chunks"] = CountOf("CHNK")' /\ stats'["original_bytes"] = FileTotal'
        /\ stats'["chunk_references"] = RefTotal' + Len(file'.refs)
    BY <2>2, <2>3, <2>4, CounterNamesAre DEF Books
  <2> QED
    BY <2>1, <2>3, <2>4, <2>5, <2>6, <2>7 DEF Books, LengthsOf
<1>13. CASE WriteFooter
  <2>1. archive' = Append(archive, FooterRecord(stats)) /\ stats' = stats /\ file' = file /\ seen' = seen
    BY <1>13 DEF WriteFooter
  <2>2. /\ \A t \in {"CHNK", "DIRE", "FILE"} : CountOf(t)' = CountOf(t)
        /\ RefTotal' = RefTotal /\ FileTotal' = FileTotal
    BY <1>1, <1>3, <2>1, AppendCounts
  <2> QED
    BY <1>3, <1>5, <2>1, <2>2 DEF Books, LengthsOf
<1>14. ~RefuseInput /\ ~FileTooLarge /\ ~IoError /\ \A p \in Deliverable : ~RefuseEntry(p)
  BY DEF RefuseInput, FileTooLarge, IoError, RefuseEntry
<1> QED
  BY <1>7, <1>8, <1>9, <1>10, <1>11, <1>12, <1>13, <1>14 DEF PackNext

\* What WalkDir delivers next was not there before, and the directories above
\* it were.
LEMMA DeliverableIsNew ==
  ASSUME TypeOK, Places, NEW p \in Deliverable
  PROVE  p \in Path /\ p \notin walked /\ \A k \in 1..(Len(p) - 1) : SubSeq(p, 1, k) \in dirs
<1>1. dirs \subseteq walked /\ walked \subseteq Path
  BY DEF TypeOK
<1>2. p \in Path
  BY <1>1, DeliverableTypes
<1>3. CASE walked = {}
  <2>1. p = <<Root>>
    BY <1>3 DEF Deliverable
  <2>2. Len(p) = 1
    BY <2>1
  <2> QED
    BY <1>2, <1>3, <2>2
<1>4. CASE walked # {}
  <2>1. PICK d \in dirs, x \in Name : p = Append(d, x) /\ p \notin walked
    BY <1>4 DEF Deliverable
  <2>2. PICK n \in Nat : n = Len(d)
    BY <1>1, <2>1 DEF Path
  <2>3. /\ d \in Seq(Name) /\ p \in Seq(Name) /\ Len(p) = n + 1 /\ n >= 1
        /\ \A i \in 1..n : p[i] = d[i]
    BY <1>1, <1>2, <2>1, <2>2 DEF Path
  <2>4. ASSUME NEW k \in 1..n PROVE SubSeq(p, 1, k) = SubSeq(d, 1, k)
    <3>1. PICK q, r : q = SubSeq(p, 1, k) /\ r = SubSeq(d, 1, k)
      OBVIOUS
    <3>2. \A i \in 1..k : p[i] \in Name /\ d[i] \in Name /\ p[i] = d[i]
      BY <2>2, <2>3
    <3>3. q \in Seq(Name) /\ Len(q) = k /\ \A i \in 1..k : q[i] = p[i]
      <4>1. 1 \in Int /\ k \in Int /\ \A i \in 1..k : p[i] \in Name
        BY <3>2
      <4>2. /\ SubSeq(p, 1, k) \in Seq(Name)
            /\ Len(SubSeq(p, 1, k)) = IF 1 <= k THEN k - 1 + 1 ELSE 0
            /\ \A i \in 1..(k - 1 + 1) : SubSeq(p, 1, k)[i] = p[1 + i - 1]
        BY ONLY <4>1, SubSeqProperties
      <4> QED
        BY <3>1, <4>2
    <3>4. r \in Seq(Name) /\ Len(r) = k /\ \A i \in 1..k : r[i] = d[i]
      <4>1. 1 \in Int /\ k \in Int /\ \A i \in 1..k : d[i] \in Name
        BY <3>2
      <4>2. /\ SubSeq(d, 1, k) \in Seq(Name)
            /\ Len(SubSeq(d, 1, k)) = IF 1 <= k THEN k - 1 + 1 ELSE 0
            /\ \A i \in 1..(k - 1 + 1) : SubSeq(d, 1, k)[i] = d[1 + i - 1]
        BY ONLY <4>1, SubSeqProperties
      <4> QED
        BY <3>1, <4>2
    <3>5. Len(q) = Len(r) /\ \A i \in 1..Len(q) : q[i] = r[i]
      BY <3>2, <3>3, <3>4
    <3>6. q = r
      BY ONLY <3>3, <3>4, <3>5, SeqEqual
    <3> QED
      BY <3>1, <3>6
  <2>5. \A k \in 1..(n - 1) : SubSeq(d, 1, k) \in dirs
    BY <1>1, <2>1, <2>2 DEF Places
  <2>6. SubSeq(d, 1, n) = d
    BY <2>2, <2>3, SubSeqFull
  <2>7. ASSUME NEW k \in 1..n PROVE SubSeq(p, 1, k) \in dirs
    <3>1. CASE k = n
      BY <2>1, <2>4, <2>6, <3>1
    <3>2. CASE k # n
      <4>1. k \in 1..(n - 1)
        BY <3>2
      <4>2. SubSeq(d, 1, k) \in dirs
        BY <2>5, <4>1
      <4> QED
        BY <2>4, <4>2
    <3> QED
      BY <3>1, <3>2
  <2> QED
    BY <1>2, <2>1, <2>3, <2>7
<1> QED
  BY <1>3, <1>4

\* The positions of a tag, one record further.
LEMMA AppendedAt ==
  ASSUME archive \in Seq(WrittenRecord), NEW rec, archive' = Append(archive, rec), NEW t,
         NEW i \in Tagged(t, Len(archive))'
  PROVE  \/ i \in Tagged(t, Len(archive)) /\ archive'[i] = archive[i]
         \/ rec.tag = t /\ archive'[i] = rec /\ i = Len(archive) + 1
<1>1. /\ Tagged(t, Len(archive))' = IF rec.tag = t THEN Tagged(t, Len(archive)) \union {Len(archive) + 1}
                                                   ELSE Tagged(t, Len(archive))
      /\ Tagged(t, Len(archive)) \subseteq 1..Len(archive)
  BY AppendTagged DEF Tagged
<1> QED
  BY <1>1, AppendPositions

\* The writer keeps every path in its place.
LEMMA PlacesStep ==
  ASSUME TypeOK, Places, PackNext, pc' # "failed"
  PROVE  Places'
<1>1. archive \in Seq(WrittenRecord) /\ dirs \subseteq walked
  BY DEF TypeOK
<1>2. /\ Header.tag = "RGX"
      /\ \A p : DirectoryRecord(p).tag = "DIRE" /\ DirectoryRecord(p).path = p
      /\ \A s : FooterRecord(s).tag = "RGXF"
      /\ \A p, n, s : LET r == FileRecord(p, n, s) IN r.tag = "FILE" /\ r.path = p
      /\ \A c : ChunkRecord(c).tag = "CHNK"
  BY DEF Header, DirectoryRecord, FooterRecord, FileRecord, ChunkRecord
<1>3. /\ \A p \in walked : Storable(p) /\ \A k \in 1..(Len(p) - 1) : SubSeq(p, 1, k) \in dirs
      /\ \A i \in Tagged("DIRE", Len(archive)) : archive[i].path \in dirs
      /\ \A i \in Tagged("FILE", Len(archive)) : archive[i].path \in walked \ dirs
      /\ pc = "file" =>
           /\ file.path \in walked \ dirs
           /\ \A i \in Tagged("FILE", Len(archive)) : archive[i].path # file.path
  BY DEF Places
<1>4. ASSUME walked' = walked, dirs' = dirs, pc' = "file" => pc = "file" /\ file'.path = file.path,
             \/ archive' = archive
             \/ \E rec : archive' = Append(archive, rec) /\ rec.tag \notin {"DIRE", "FILE"}
      PROVE  Places'
  <2>1. /\ \A i \in Tagged("DIRE", Len(archive))' :
             i \in Tagged("DIRE", Len(archive)) /\ archive'[i] = archive[i]
        /\ \A i \in Tagged("FILE", Len(archive))' :
             i \in Tagged("FILE", Len(archive)) /\ archive'[i] = archive[i]
    <3>1. CASE archive' = archive
      BY <3>1 DEF Tagged
    <3>2. ASSUME NEW rec, archive' = Append(archive, rec), rec.tag \notin {"DIRE", "FILE"}
          PROVE  /\ \A i \in Tagged("DIRE", Len(archive))' :
                      i \in Tagged("DIRE", Len(archive)) /\ archive'[i] = archive[i]
                 /\ \A i \in Tagged("FILE", Len(archive))' :
                      i \in Tagged("FILE", Len(archive)) /\ archive'[i] = archive[i]
      BY <1>1, <3>2, AppendedAt
    <3> QED
      BY <1>4, <3>1, <3>2
  <2>2. (\A p \in walked : Storable(p) /\ \A k \in 1..(Len(p) - 1) : SubSeq(p, 1, k) \in dirs)'
    BY <1>3, <1>4 DEF Storable
  <2>3. (/\ \A i \in Tagged("DIRE", Len(archive)) : archive[i].path \in dirs
         /\ \A i \in Tagged("FILE", Len(archive)) : archive[i].path \in walked \ dirs)'
    BY <1>3, <1>4, <2>1
  <2>4. (pc = "file" =>
           /\ file.path \in walked \ dirs
           /\ \A i \in Tagged("FILE", Len(archive)) : archive[i].path # file.path)'
    BY <1>3, <1>4, <2>1
  <2> QED
    BY <2>2, <2>3, <2>4 DEF Places
<1>5. CASE WriteHeader
  BY <1>2, <1>4, <1>5 DEF WriteHeader
<1>6. ASSUME NEW p \in Deliverable, WalkDirectory(p) PROVE Places'
  <2>1. /\ Storable(p) /\ walked' = walked \union {p} /\ dirs' = dirs \union {p} /\ pc' = "walk"
        /\ archive' = Append(archive, DirectoryRecord(p))
    BY <1>6 DEF WalkDirectory, Count
  <2>2. p \notin walked /\ \A k \in 1..(Len(p) - 1) : SubSeq(p, 1, k) \in dirs
    BY DeliverableIsNew
  <2>3. (\A q \in walked : Storable(q) /\ \A k \in 1..(Len(q) - 1) : SubSeq(q, 1, k) \in dirs)'
    BY <1>3, <2>1, <2>2 DEF Storable
  <2>4. (\A i \in Tagged("DIRE", Len(archive)) : archive[i].path \in dirs)'
    <3>1. \A i \in Tagged("DIRE", Len(archive))' :
            \/ i \in Tagged("DIRE", Len(archive)) /\ archive'[i] = archive[i]
            \/ archive'[i] = DirectoryRecord(p)
      BY <1>1, <2>1, AppendedAt, ZenonT(60)
    <3> QED
      BY <1>2, <1>3, <2>1, <3>1
  <2>5. (\A i \in Tagged("FILE", Len(archive)) : archive[i].path \in walked \ dirs)'
    <3>1. \A i \in Tagged("FILE", Len(archive))' :
            i \in Tagged("FILE", Len(archive)) /\ archive'[i] = archive[i]
      <4>1. PICK rec : rec = DirectoryRecord(p)
        OBVIOUS
      <4>2. archive' = Append(archive, rec) /\ rec.tag # "FILE"
        BY <1>2, <2>1, <4>1
      <4> QED
        BY <1>1, <4>2, AppendedAt
    <3> QED
      BY <1>3, <2>1, <2>2, <3>1
  <2> QED
    BY <2>1, <2>3, <2>4, <2>5 DEF Places
<1>7. ASSUME NEW p \in Deliverable, OpenFile(p) PROVE Places'
  <2>1. /\ Storable(p) /\ walked' = walked \union {p} /\ dirs' = dirs /\ file'.path = p
        /\ archive' = archive
    BY <1>7 DEF OpenFile
  <2>2. p \notin walked /\ \A k \in 1..(Len(p) - 1) : SubSeq(p, 1, k) \in dirs
    BY DeliverableIsNew
  <2>3. (\A q \in walked : Storable(q) /\ \A k \in 1..(Len(q) - 1) : SubSeq(q, 1, k) \in dirs)'
    BY <1>3, <2>1, <2>2 DEF Storable
  <2>4. \A t : Tagged(t, Len(archive))' = Tagged(t, Len(archive))
    BY <2>1 DEF Tagged
  <2>5. (/\ \A i \in Tagged("DIRE", Len(archive)) : archive[i].path \in dirs
         /\ \A i \in Tagged("FILE", Len(archive)) : archive[i].path \in walked \ dirs
         /\ file.path \in walked \ dirs
         /\ \A i \in Tagged("FILE", Len(archive)) : archive[i].path # file.path)'
    BY <1>1, <1>3, <2>1, <2>2, <2>4
  <2> QED
    BY <2>3, <2>5 DEF Places
<1>8. ASSUME NEW c \in Chunk, ReferenceChunk(c) \/ WriteChunk(c) PROVE Places'
  BY <1>2, <1>4, <1>8 DEF ReferenceChunk, WriteChunk, Referenced
<1>9. CASE CloseFile
  <2>1. /\ pc = "file" /\ pc' = "walk" /\ walked' = walked /\ dirs' = dirs
        /\ archive' = Append(archive, FileRecord(file.path, file.size, file.refs))
    BY <1>9 DEF CloseFile, Count
  <2>2. PICK rec : archive' = Append(archive, rec) /\ rec.tag = "FILE" /\ rec.path = file.path
    BY <1>2, <2>1
  <2>3. \A i \in Tagged("FILE", Len(archive))' :
          \/ i \in Tagged("FILE", Len(archive)) /\ archive'[i] = archive[i]
          \/ archive'[i].path = file.path
    BY <1>1, <2>2, AppendedAt, ZenonT(60)
  <2>4. \A i \in Tagged("DIRE", Len(archive))' :
          i \in Tagged("DIRE", Len(archive)) /\ archive'[i] = archive[i]
    BY <1>1, <2>2, AppendedAt
  <2>5. (\A p \in walked : Storable(p) /\ \A k \in 1..(Len(p) - 1) : SubSeq(p, 1, k) \in dirs)'
    BY <1>3, <2>1 DEF Storable
  <2>6. (/\ \A i \in Tagged("DIRE", Len(archive)) : archive[i].path \in dirs
         /\ \A i \in Tagged("FILE", Len(archive)) : archive[i].path \in walked \ dirs)'
    BY <1>3, <2>1, <2>3, <2>4
  <2> QED
    BY <2>1, <2>5, <2>6 DEF Places
<1>10. CASE WriteFooter
  BY <1>2, <1>4, <1>10 DEF WriteFooter
<1>11. ~RefuseInput /\ ~FileTooLarge /\ ~IoError /\ \A p \in Deliverable : ~RefuseEntry(p)
  BY DEF RefuseInput, FileTooLarge, IoError, RefuseEntry
<1> QED
  BY <1>5, <1>6, <1>7, <1>8, <1>9, <1>10, <1>11 DEF PackNext

\* A chunk record passes validate_chunk_header.
LEMMA ChunkRecordValid ==
  ASSUME NEW c \in Chunk
  PROVE  ChunkHeaderValid(ChunkRecord(c))
<1>1. ChunkLen[c] \in 1..MaxChunk /\ ZipLen[c] \in Nat \ {0}
  BY ChunkAssumption
<1>2. PICK l, z : l = ChunkLen[c] /\ z = ZipLen[c]
  OBVIOUS
<1>3. l \in 1..MaxChunk /\ l \in Nat /\ z \in Nat /\ z >= 1
  BY <1>1, <1>2, BoundAssumption
<1>4. CASE z < l
  BY <1>2, <1>3, <1>4 DEF ChunkRecord, ChunkHeaderValid
<1>5. CASE ~(z < l)
  BY <1>2, <1>3, <1>5 DEF ChunkRecord, ChunkHeaderValid
<1> QED
  BY <1>4, <1>5

\* A name that can be stored can be read, where none has a backslash.
LEMMA StorableReadable ==
  ASSUME Presentable, NEW p, Storable(p)
  PROVE  Readable(p)
BY DEF Presentable, Storable, Readable

\* The file in progress, once it is written.
LEMMA ClosedIsFormed ==
  ASSUME Structure, Books, pc = "file", Len(file.refs) <= MaxRefs, NEW m, m = Len(archive) + 1,
         archive' = Append(archive, FileRecord(file.path, file.size, file.refs))
  PROVE  FileFormed(m)'
<1>1. archive \in Seq(WrittenRecord) /\ file.refs \in Seq(Chunk) /\ Range(file.refs) \subseteq seen
  BY DEF Structure, TypeOK, FileType, InProgressSeen
<1>2. PICK N, refs, rec :
        N \in Nat /\ N = Len(archive) /\ refs = file.refs /\ rec = FileRecord(file.path, file.size, file.refs)
  BY <1>1
<1>3. rec.refs = refs /\ rec.size = file.size
  BY <1>2 DEF FileRecord
<1>4. /\ archive'[m] = rec /\ m - 1 = N
      /\ \A i \in 1..N : archive'[i] = archive[i]
  BY <1>1, <1>2, AppendPositions
<1> DEFINE At(k) == CHOOSE j \in Tagged("CHNK", N) : archive[j].hash = refs[k]
           d == [k \in DOMAIN refs |-> At(k)]
<1>5. ASSUME NEW k \in DOMAIN refs
      PROVE  At(k) \in Tagged("CHNK", N) /\ archive[At(k)].hash = refs[k] /\ refs[k] \in Chunk
  <2>1. refs[k] \in Chunk /\ refs[k] \in seen
    BY <1>1, <1>2 DEF Range
  <2>2. \E j \in Tagged("CHNK", N) : archive[j].hash = refs[k]
    BY <1>2, <2>1 DEF Structure, SeenIsWritten
  <2> QED
    BY <2>1, <2>2
<1> HIDE DEF At
<1>6. ASSUME NEW k \in DOMAIN refs
      PROVE  /\ d[k] \in 1..N /\ archive'[d[k]].tag = "CHNK" /\ archive'[d[k]].hash = refs[k]
             /\ archive'[d[k]].size = ChunkLen[refs[k]]
  <2>1. PICK j : j = d[k]
    OBVIOUS
  <2>2. j \in Tagged("CHNK", N) /\ archive[j].hash = refs[k]
    BY <1>5, <2>1
  <2>3. j \in 1..N /\ archive[j].tag = "CHNK"
    BY <2>2 DEF Tagged
  <2>4. archive[j] = ChunkRecord(refs[k])
    BY <1>2, <2>2 DEF Books
  <2>5. archive[j].size = ChunkLen[refs[k]]
    BY <2>4 DEF ChunkRecord
  <2> QED
    BY <1>4, <2>1, <2>2, <2>3, <2>5
<1>7. PICK e \in [DOMAIN refs -> 1..N] :
        \A k \in DOMAIN refs : /\ archive'[e[k]].tag = "CHNK" /\ archive'[e[k]].hash = refs[k]
                              /\ archive'[e[k]].size = ChunkLen[refs[k]]
  <2>1. d \in [DOMAIN refs -> 1..N]
    BY <1>6
  <2> QED
    BY <1>6, <2>1
<1>8. rec.size = SumFunction([k \in DOMAIN refs |-> archive'[e[k]].size])
  <2>1. [k \in DOMAIN refs |-> archive'[e[k]].size] = LengthsOf(refs)
    BY <1>7 DEF LengthsOf
  <2> QED
    BY <1>2, <1>3, <2>1 DEF Books
<1>9. \A k \in DOMAIN refs : Defines(e[k], refs[k])'
  BY <1>7 DEF Defines
<1>10. Len(archive'[m].refs) <= MaxRefs
  BY <1>2, <1>3, <1>4
<1>11. \E f \in [DOMAIN archive'[m].refs -> 1..(m - 1)] :
         /\ \A k \in DOMAIN archive'[m].refs : Defines(f[k], archive[m].refs[k])'
         /\ archive'[m].size = SumFunction([k \in DOMAIN archive'[m].refs |-> archive'[f[k]].size])
  BY <1>3, <1>4, <1>7, <1>8, <1>9
<1> QED
  BY <1>10, <1>11 DEF FileFormed

\* Formed prefixes stay so.
LEMMA FormedStays ==
  ASSUME archive \in Seq(WrittenRecord), archive' \in Seq(WrittenRecord),
         archive' = archive \/ \E rec : archive' = Append(archive, rec),
         NEW n \in 0..Len(archive), Formed(n)
  PROVE  Formed(n)' /\ n \in 0..Len(archive')
<1>1. archive \in Seq(StoredRecord) /\ archive' \in Seq(StoredRecord)
  BY WrittenIsStored
<1>2. Len(archive) \in Nat /\ Len(archive') \in Nat /\ n \in Nat /\ n <= Len(archive)
  OBVIOUS
<1>3. n <= Len(archive') /\ \A i \in 1..n : archive'[i] = archive[i]
  <2>1. CASE archive' = archive
    BY <1>2, <2>1
  <2>2. ASSUME NEW rec, archive' = Append(archive, rec)
        PROVE  n <= Len(archive') /\ \A i \in 1..n : archive'[i] = archive[i]
    BY <1>2, <2>2, AppendPositions
  <2> QED
    BY <2>1, <2>2
<1>4. /\ \A t : Tagged(t, n)' = Tagged(t, n)
      /\ PrefixFormed(n) => PrefixFormed(n)'
      /\ SumTo(SizeOf, "FILE", n)' = SumTo(SizeOf, "FILE", n)
      /\ SumTo(SizeOf, "CHNK", n)' = SumTo(SizeOf, "CHNK", n)
      /\ SumTo(PayloadOf, "CHNK", n)' = SumTo(PayloadOf, "CHNK", n)
      /\ SumTo(RefsOf, "FILE", n)' = SumTo(RefsOf, "FILE", n)
  BY <1>1, <1>2, <1>3, PrefixKept
<1>5. Fitting(n)'
  BY <1>4 DEF Formed, Fitting
<1>6. BodyTo(n)'
  BY <1>3 DEF Formed, BodyTo
<1> QED
  BY <1>2, <1>3, <1>4, <1>5, <1>6 DEF Formed

\* What a step of the writer that does not end the packing puts behind a
\* formed prefix is as it should be.
LEMMA WrittenIsFormed ==
  ASSUME Presentable, Structure, Books, Places, pc = "start" => archive = <<>>,
         pc \in {"walk", "file"} => Len(archive) >= 1, PackNext, pc' \notin {"ok", "failed"},
         NEW rec, archive' = Append(archive, rec), NEW m, m = Len(archive) + 1
  PROVE  /\ RecordFormed(m)'
         /\ m = 1 => rec = Header
         /\ m > 1 => rec.tag \in {"CHNK", "DIRE", "FILE"}
<1>1. archive \in Seq(WrittenRecord) /\ dirs \subseteq walked /\ TypeOK
  BY DEF Structure, TypeOK
<1>2. PICK N \in Nat : N = Len(archive)
  BY <1>1
<1>3. /\ archive'[m] = rec /\ m - 1 = N
      /\ \A i \in 1..N : archive'[i] = archive[i]
      /\ \A t : Tagged(t, N)' = Tagged(t, N) /\ Tagged(t, N) \subseteq 1..N
  <2>1. ASSUME NEW t PROVE Tagged(t, N)' = Tagged(t, N)
    <3>1. \A n \in 0..Len(archive) : Tagged(t, n)' = Tagged(t, n)
      BY <1>1, AppendTagged
    <3> QED
      BY <1>1, <1>2, <3>1
  <2> QED
    BY <1>1, <1>2, <2>1, AppendPositions DEF Tagged
<1>4. CASE WriteHeader
  <2>1. rec = Header /\ N = 0
    <3>1. archive' = Append(archive, Header) /\ archive = <<>>
      BY <1>4 DEF WriteHeader
    <3> QED
      BY <1>1, <1>2, <1>3, <3>1, AppendPositions
  <2>2. rec.tag = "RGX"
    BY <2>1 DEF Header
  <2> QED
    BY <1>2, <1>3, <2>1, <2>2 DEF RecordFormed
<1>5. ASSUME NEW p \in Deliverable, WalkDirectory(p)
      PROVE  RecordFormed(m)' /\ m > 1 /\ rec.tag = "DIRE"
  <2>1. /\ pc = "walk" /\ Storable(p) /\ archive' = Append(archive, DirectoryRecord(p))
    BY <1>5 DEF WalkDirectory
  <2>2. rec = DirectoryRecord(p)
    BY <1>1, <1>3, <2>1, AppendPositions
  <2>3. rec.tag = "DIRE" /\ rec.path = p
    BY <2>2 DEF DirectoryRecord
  <2>4. Readable(p) /\ p \notin walked
    BY <1>1, <2>1, StorableReadable, DeliverableIsNew
  <2>5. \A j \in Tagged("DIRE", N) \union Tagged("FILE", N) : archive[j].path # p
    BY <1>1, <1>2, <2>4 DEF Places
  <2>6. /\ Readable(archive'[m].path)
        /\ \A j \in Tagged("DIRE", N)' \union Tagged("FILE", N)' : archive'[j].path # archive'[m].path
    BY <1>3, <2>3, <2>4, <2>5
  <2>7. RecordFormed(m)'
    BY <1>3, <2>3, <2>6 DEF RecordFormed, Readable
  <2> QED
    BY <1>2, <2>1, <2>3, <2>7
<1>6. ASSUME NEW c \in Chunk, WriteChunk(c)
      PROVE  RecordFormed(m)' /\ m > 1 /\ rec.tag = "CHNK"
  <2>1. pc = "file" /\ c \notin seen /\ archive' = Append(archive, ChunkRecord(c))
    BY <1>6 DEF WriteChunk
  <2>2. rec = ChunkRecord(c)
    BY <1>1, <1>3, <2>1, AppendPositions
  <2>3. rec.tag = "CHNK" /\ rec.hash = c
    BY <2>2 DEF ChunkRecord
  <2>4. ChunkHeaderValid(rec)
    BY <2>2, ChunkRecordValid
  <2>5. \A j \in 1..N : ~(archive[j].tag = "CHNK" /\ archive[j].hash = c)
    BY <1>2, <2>1 DEF Structure, SeenIsWritten, Tagged
  <2>6. \A j \in 1..N : ~Defines(j, archive[m].hash)'
    BY <1>3, <2>3, <2>5 DEF Defines
  <2>7. RecordFormed(m)'
    BY <1>3, <2>3, <2>4, <2>6 DEF RecordFormed, ChunkHeaderValid
  <2> QED
    BY <1>2, <2>1, <2>3, <2>7
<1>7. ASSUME CloseFile
      PROVE  RecordFormed(m)' /\ m > 1 /\ rec.tag = "FILE"
  <2>1. /\ pc = "file" /\ Len(file.refs) <= MaxRefs
        /\ archive' = Append(archive, FileRecord(file.path, file.size, file.refs))
    BY <1>7 DEF CloseFile
  <2>2. rec = FileRecord(file.path, file.size, file.refs)
    BY <1>1, <1>3, <2>1, AppendPositions
  <2>3. rec.tag = "FILE" /\ rec.path = file.path
    BY <2>2 DEF FileRecord
  <2>4. Readable(file.path)
    BY <2>1, StorableReadable DEF Places
  <2>5. \A j \in Tagged("DIRE", N) \union Tagged("FILE", N) : archive[j].path # file.path
    BY <1>2, <2>1 DEF Places
  <2>6. /\ Readable(archive'[m].path)
        /\ \A j \in Tagged("DIRE", N)' \union Tagged("FILE", N)' : archive'[j].path # archive'[m].path
    BY <1>3, <2>3, <2>4, <2>5
  <2>7. FileFormed(m)'
    BY <2>1, ClosedIsFormed
  <2>8. RecordFormed(m)'
    BY <1>3, <2>3, <2>6, <2>7 DEF RecordFormed, Readable
  <2> QED
    BY <1>2, <2>1, <2>3, <2>8
<1>8. Append(archive, rec) # archive
  BY <1>1, <1>2, AppendPositions
<1>9. /\ ~RefuseInput /\ ~FileTooLarge /\ ~IoError /\ ~WriteFooter
      /\ \A p \in Deliverable : ~RefuseEntry(p) /\ ~OpenFile(p)
      /\ \A c \in Chunk : ~ReferenceChunk(c)
  BY <1>8 DEF RefuseInput, FileTooLarge, IoError, RefuseEntry, OpenFile, ReferenceChunk, WriteFooter
<1>10. m \in Nat
  BY <1>2
<1> QED
  BY <1>4, <1>5, <1>6, <1>7, <1>9, <1>10 DEF PackNext

\* One more record that is as it should be, within the ceilings.
LEMMA FormedGrows ==
  archive \in Seq(StoredRecord) =>
    \A n \in Nat : n < Len(archive) /\ Formed(n) /\ RecordFormed(n + 1) /\ Fitting(n + 1)
                     /\ (n = 0 => archive[1] = Header)
                     /\ (n > 0 => archive[n + 1].tag \in {"CHNK", "DIRE", "FILE"}) => Formed(n + 1)
<1> SUFFICES ASSUME archive \in Seq(StoredRecord), NEW n \in Nat, n < Len(archive), Formed(n),
                    RecordFormed(n + 1), Fitting(n + 1), n = 0 => archive[1] = Header,
                    n > 0 => archive[n + 1].tag \in {"CHNK", "DIRE", "FILE"}
             PROVE  Formed(n + 1)
  OBVIOUS
<1>1. PrefixFormed(n + 1)
  BY PrefixGrows DEF Formed
<1>2. BodyTo(n + 1)
  <2>1. ASSUME NEW i \in 2..(n + 1) PROVE archive[i].tag \in {"CHNK", "DIRE", "FILE"}
    <3>1. CASE i = n + 1
      BY <3>1
    <3>2. CASE i # n + 1
      BY <3>2 DEF Formed, BodyTo
    <3> QED
      BY <3>1, <3>2
  <2> QED
    BY <2>1 DEF BodyTo
<1> QED
  BY <1>1, <1>2 DEF Formed

\* The archive stays legible.
LEMMA LegibleStep ==
  ASSUME Composing, PackNext, Structure', Ledger', pc' # "failed" => Books' /\ Places'
  PROVE  Legible'
<1>1. /\ Presentable /\ Structure /\ Ledger /\ Legible /\ TypeOK /\ TypeOK'
      /\ pc # "failed" => Books /\ Places
      /\ pc = "start" => archive = <<>>
      /\ pc \in {"walk", "file"} => Len(archive) >= 1
  BY DEF Composing, Structure
<1>2. archive \in Seq(WrittenRecord) /\ archive' \in Seq(WrittenRecord)
  <2>1. WrittenRecord' = WrittenRecord
    BY DEF WrittenRecord, Header, Torn, ChunkRecordType, DirectoryRecordType, FileRecordType,
           FooterType, Path
  <2> QED
    BY <1>1, <2>1 DEF TypeOK
<1>3. pc \in {"start", "walk", "file"} /\ (archive' = archive \/ \E rec : archive' = Append(archive, rec))
  BY <1>1, PackAppends
<1>4. PICK N \in Nat : N = Len(archive)
  BY <1>2
<1>5. ASSUME NEW n \in 0..N PROVE Formed(n)'
  <2>1. Formed(n)
    BY <1>1, <1>3, <1>4, <1>5 DEF Legible
  <2> QED
    BY <1>2, <1>3, <1>4, <1>5, <2>1, FormedStays
<1>6. CASE archive' = archive
  BY <1>4, <1>5, <1>6 DEF Legible
<1>7. ASSUME NEW rec, archive' = Append(archive, rec) PROVE Legible'
  <2>1. PICK m \in Nat : m = N + 1
    OBVIOUS
  <2>2. Len(archive') = m /\ archive'[m] = rec
    BY <1>2, <1>4, <1>7, <2>1, AppendPositions
  <2>3. CASE pc' \in {"ok", "failed"}
    <3>1. ASSUME NEW n \in 0..Len(archive')
          PROVE  Formed(n)' \/ (pc' \in {"ok", "failed"} /\ n = Len(archive'))
      <4>1. n = m \/ n \in 0..N
        BY <2>1, <2>2
      <4> QED
        BY <1>5, <2>2, <2>3, <4>1
    <3> QED
      BY <3>1 DEF Legible
  <2>4. CASE pc' \notin {"ok", "failed"}
    <3>1. Books /\ Places /\ Books' /\ pc' # "failed"
      BY <1>1, <1>3, <2>4
    <3>2. /\ RecordFormed(m)' /\ (m = 1 => rec = Header)
          /\ m > 1 => rec.tag \in {"CHNK", "DIRE", "FILE"}
      BY <1>1, <1>4, <1>7, <2>1, <2>4, <3>1, WrittenIsFormed
    <3>3. (Ledger /\ Books /\ pc # "failed")'
      BY <3>1
    <3>4. Fitting(Len(archive))'
      BY <3>3, BooksFit, PTL
    <3>5. Fitting(m)'
      BY <2>2, <3>4
    <3>6. (archive \in Seq(StoredRecord))'
      BY <1>2, WrittenIsStored, StoredStays
    <3>7. Header' = Header /\ N < Len(archive') /\ archive'[N + 1] = rec
      BY <2>1, <2>2 DEF Header
    <3>8. (\A n \in Nat : n < Len(archive) /\ Formed(n) /\ RecordFormed(n + 1) /\ Fitting(n + 1)
             /\ (n = 0 => archive[1] = Header)
             /\ (n > 0 => archive[n + 1].tag \in {"CHNK", "DIRE", "FILE"}) => Formed(n + 1))'
      BY <3>6, FormedGrows, PTL
    <3>9. Formed(N)' /\ RecordFormed(N + 1)' /\ Fitting(N + 1)'
      BY <1>5, <2>1, <3>2, <3>5
    <3>10. (N = 0 => archive'[1] = Header') /\ (N > 0 => archive'[N + 1].tag \in {"CHNK", "DIRE", "FILE"})
      BY <2>1, <2>2, <3>2, <3>7
    <3>11. Formed(N + 1)'
      BY <3>7, <3>8, <3>9, <3>10
    <3>12. ASSUME NEW n \in 0..Len(archive') PROVE Formed(n)'
      <4>1. n = N + 1 \/ n \in 0..N
        BY <2>1, <2>2
      <4> QED
        BY <1>5, <3>11, <4>1
    <3> QED
      BY <3>12 DEF Legible
  <2> QED
    BY <2>3, <2>4
<1> QED
  BY <1>3, <1>6, <1>7

\* Nothing is written at first, and that is legible.
LEMMA ComposingInitial == Presentable /\ Init => Composing
<1> SUFFICES ASSUME Presentable, Init PROVE Composing
  OBVIOUS
<1>1. /\ archive = <<>> /\ pc = "start" /\ walked = {} /\ dirs = {} /\ file = NoFile /\ seen = {}
      /\ stats = ZeroStats
  BY DEF Init, PackInit
<1>2. \A t : Tagged(t, Len(archive)) = {} /\ Tagged(t, 0) = {}
  BY <1>1 DEF Tagged
<1>3. \A t : Cardinality(Tagged(t, 0)) = 0 /\ CountOf(t) = 0
  BY <1>2, FS_EmptySet DEF CountOf
<1>4. RefTotal = 0 /\ FileTotal = 0 /\ \A v, t : SumTo(v, t, 0) = 0
  <2>1. \A v, t : SumTo(v, t, 0) = 0
    BY SumToNothing
  <2> QED
    BY <1>1, <2>1 DEF RefTotal, FileTotal
<1>5. Books
  <2>1. file.refs = <<>> /\ file.size = 0
    BY <1>1 DEF NoFile
  <2>2. SumFunction(LengthsOf(file.refs)) = 0 /\ Len(file.refs) = 0
    BY <2>1, SumEmpty DEF LengthsOf
  <2>3. \A c \in CounterNames : stats[c] = 0
    BY <1>1 DEF ZeroStats
  <2> QED
    BY <1>2, <1>3, <1>4, <2>1, <2>2, <2>3, CounterNamesAre DEF Books
<1>6. Places
  BY <1>1, <1>2 DEF Places
<1>7. Legible
  <2>1. PrefixFormed(0) /\ BodyTo(0)
    BY <1>2 DEF PrefixFormed, BodyTo
  <2>2. Fitting(0)
    BY <1>3, <1>4, BoundAssumption DEF Fitting
  <2> QED
    BY <1>1, <2>1, <2>2 DEF Legible, Formed
<1> QED
  BY <1>1, <1>5, <1>6, <1>7, InitStructure, InitLedger DEF Composing

\* Each step of the writer keeps what it has written legible, and its books true.
LEMMA ComposingStep == Composing /\ [PackNext]_vars => Composing'
<1> SUFFICES ASSUME Composing, [PackNext]_vars PROVE Composing'
  OBVIOUS
<1>1. /\ Presentable /\ Structure /\ Ledger /\ Legible /\ TypeOK
      /\ pc # "failed" => Books /\ Places
      /\ pc = "start" => archive = <<>>
      /\ pc \in {"walk", "file"} => Len(archive) >= 1
      /\ pc \in {"start", "walk", "ok"} => file = NoFile
      /\ pc = "ok" => Len(archive) >= 2 /\ archive[Len(archive)] = FooterRecord(stats)
  BY DEF Composing, Structure
<1>2. Structure' /\ Ledger' /\ TypeOK'
  BY <1>1, StepStructure, StepLedger DEF Structure
<1>3. Presentable'
  BY <1>1 DEF Presentable
<1>4. CASE PackNext
  <2>1. pc' # "failed" => Books' /\ Places'
    <3>1. pc # "failed"
      BY <1>1, <1>4, PackAppends
    <3> QED
      BY <1>1, <1>2, <1>4, <3>1, BooksStep, PlacesStep
  <2>2. Legible'
    BY <1>2, <1>4, <2>1, LegibleStep
  <2>3. archive \in Seq(WrittenRecord)
    BY <1>1 DEF TypeOK
  <2>4. \A rec : archive' = Append(archive, rec) =>
          /\ Len(archive') = Len(archive) + 1 /\ Len(archive) \in Nat
          /\ archive'[Len(archive')] = rec
    BY <2>3, AppendPositions
  <2>5. /\ (pc = "start" => archive = <<>>)'
        /\ (pc \in {"walk", "file"} => Len(archive) >= 1)'
        /\ (pc \in {"start", "walk", "ok"} => file = NoFile)'
        /\ (pc = "ok" => Len(archive) >= 2 /\ archive[Len(archive)] = FooterRecord(stats))'
    <3>1. CASE pc' = "failed"
      BY <3>1
    <3>2. CASE WriteHeader
      BY <1>1, <2>4, <3>2 DEF WriteHeader, NoFile
    <3>3. ASSUME NEW p \in Deliverable, WalkDirectory(p), pc' # "failed"
          PROVE  pc' = "walk" /\ file' = NoFile /\ Len(archive') >= 1
      BY <1>1, <2>4, <3>3 DEF WalkDirectory, Count
    <3>4. ASSUME NEW p \in Deliverable, OpenFile(p)
          PROVE  pc' = "file" /\ Len(archive') >= 1
      BY <1>1, <3>4 DEF OpenFile
    <3>5. ASSUME NEW c \in Chunk, ReferenceChunk(c) \/ WriteChunk(c), pc' # "failed"
          PROVE  pc' = "file" /\ Len(archive') >= 1
      BY <1>1, <2>4, <3>5 DEF ReferenceChunk, WriteChunk, Count
    <3>6. CASE CloseFile /\ pc' # "failed"
      BY <1>1, <2>4, <3>6 DEF CloseFile, Count, NoFile
    <3>7. CASE WriteFooter
      <4>1. /\ pc = "walk" /\ pc' = "ok" /\ archive' = Append(archive, FooterRecord(stats))
            /\ file' = file /\ stats' = stats /\ Len(archive) >= 1 /\ file = NoFile
        BY <1>1, <3>7 DEF WriteFooter
      <4>2. Len(archive') >= 2 /\ archive'[Len(archive')] = FooterRecord(stats)
        BY <2>4, <4>1
      <4> QED
        BY <4>1, <4>2 DEF NoFile, FooterRecord
    <3>8. RefuseInput \/ FileTooLarge \/ IoError \/ (\E p \in Deliverable : RefuseEntry(p)) => pc' = "failed"
      BY DEF RefuseInput, FileTooLarge, IoError, RefuseEntry
    <3>9. NoFile' = NoFile
      BY DEF NoFile
    <3> QED
      BY <1>4, <3>1, <3>2, <3>3, <3>4, <3>5, <3>6, <3>7, <3>8, <3>9 DEF PackNext
  <2> QED
    BY <1>2, <1>3, <2>1, <2>2, <2>5 DEF Composing
<1>5. CASE UNCHANGED vars
  <2>1. /\ archive' = archive /\ pc' = pc /\ walked' = walked /\ dirs' = dirs /\ file' = file
        /\ seen' = seen /\ stats' = stats
    BY <1>5 DEF vars, packVars
  <2>2. archive \in Seq(WrittenRecord) /\ archive' \in Seq(WrittenRecord) /\ Len(archive) \in Nat
    BY <1>1, <2>1 DEF TypeOK
  <2>3. Legible'
    <3>1. \A n \in 0..Len(archive) : Formed(n) => Formed(n)'
      BY <2>1, <2>2, FormedStays
    <3> QED
      BY <1>1, <2>1, <3>1 DEF Legible
  <2>4. Books => Books'
    BY <2>1 DEF Books, CountOf, RefTotal, FileTotal, SumTo, Tagged, RefsOf, SizeOf, ChunkRecord,
                LengthsOf
  <2>5. Places => Places'
    BY <2>1 DEF Places, Tagged, Storable
  <2> QED
    BY <1>1, <1>2, <1>3, <2>1, <2>3, <2>4, <2>5 DEF Composing, NoFile, FooterRecord
<1> QED
  BY <1>4, <1>5

\* What is finished is what the format says.
LEMMA WrittenIsWellFormed ==
  ASSUME Composing, pc = "ok"
  PROVE  WellFormed
<1>1. /\ Structure /\ Ledger /\ Legible /\ Books /\ Places /\ TypeOK /\ file = NoFile
      /\ Len(archive) >= 2 /\ archive[Len(archive)] = FooterRecord(stats)
      /\ archive \in Seq(WrittenRecord) /\ dirs \subseteq walked /\ walked \subseteq Path
  BY DEF Composing, Structure, TypeOK
<1>2. archive \in Seq(StoredRecord)
  BY <1>1, WrittenIsStored
<1>3. PICK N \in Nat, n \in Nat : N = Len(archive) /\ N = n + 1 /\ n >= 1
  <2>1. Len(archive) \in Nat /\ Len(archive) - 1 \in Nat
    BY <1>1
  <2> QED
    BY <1>1, <2>1
<1>4. archive[N].tag = "RGXF" /\ archive[N].stats = stats
  BY <1>1, <1>3 DEF FooterRecord
<1>5. Formed(n)
  BY <1>1, <1>3 DEF Legible
<1>6. PrefixFormed(N)
  <2>1. RecordFormed(N)
    BY <1>4 DEF RecordFormed
  <2> QED
    BY <1>2, <1>3, <1>5, <2>1, PrefixGrows DEF Formed
<1>7. \A i \in 2..(N - 1) : archive[i].tag \in {"CHNK", "DIRE", "FILE"}
  BY <1>3, <1>5 DEF Formed, BodyTo
<1>8. ASSUME NEW i \in Tagged("CHNK", N) PROVE WellFormedChunk(i)
  <2>1. ChunkHeaderValid(archive[i]) /\ \A j \in 1..(i - 1) : ~Defines(j, archive[i].hash)
    BY <1>6 DEF PrefixFormed
  <2>2. PICK j \in Tagged("FILE", N) : archive[i].hash \in Range(archive[j].refs)
    BY <1>1, <1>3 DEF Structure, NothingOrphaned, NoFile, Range
  <2>3. PICK k \in DOMAIN archive[j].refs : archive[j].refs[k] = archive[i].hash
    BY <2>2 DEF Range
  <2>4. PICK l \in Tagged("CHNK", j - 1) : archive[l].hash = archive[i].hash
    BY <1>1, <1>3, <2>3 DEF Structure, ReferencesResolve
  <2>5. j \in 1..N /\ archive[j].tag = "FILE" /\ l \in 1..(j - 1) /\ l \in Tagged("CHNK", N) /\ i \in 1..N
    BY <2>2, <2>4 DEF Tagged
  <2>6. l = i
    BY <1>1, <1>3, <2>4, <2>5 DEF Structure, ChunksOnce
  <2>7. j \in (i + 1)..N
    BY <2>5, <2>6
  <2> QED
    BY <1>3, <2>1, <2>2, <2>5, <2>7 DEF WellFormedChunk
<1>9. ASSUME NEW i \in Tagged("DIRE", N) \union Tagged("FILE", N) PROVE WellFormedPath(i)
  <2>1. /\ Readable(archive[i].path)
        /\ \A j \in Tagged("DIRE", N) \union Tagged("FILE", N) :
             j # i => archive[j].path # archive[i].path
    BY <1>6 DEF PrefixFormed
  <2>2. archive[i].path \in walked
    BY <1>1, <1>3 DEF Places
  <2>3. ASSUME NEW j \in Tagged("FILE", N), IsAncestor(archive[j].path, archive[i].path) PROVE FALSE
    <3>1. PICK p, q : p = archive[j].path /\ q = archive[i].path
      OBVIOUS
    <3>2. p \in walked /\ p \notin dirs /\ q \in walked
      BY <1>1, <1>3, <2>2, <3>1 DEF Places
    <3>3. Len(p) \in Nat /\ Len(p) >= 1 /\ Len(q) \in Nat
      BY <1>1, <3>2 DEF Path
    <3>4. Len(p) < Len(q) /\ p = SubSeq(q, 1, Len(p))
      BY <2>3, <3>1 DEF IsAncestor
    <3>5. Len(p) \in 1..(Len(q) - 1)
      BY <3>3, <3>4
    <3>6. p \in dirs
      BY <1>1, <3>2, <3>4, <3>5 DEF Places
    <3> QED
      BY <3>2, <3>6
  <2> QED
    BY <1>3, <2>1, <2>3 DEF WellFormedPath
<1>10. ASSUME NEW i \in Tagged("FILE", N) PROVE WellFormedFile(i)
  BY <1>2, <1>3, <1>6, FileFormedIsWellFormed
<1>11. stats = TrueStats /\ Fits(TrueStats)
  <2>1. stats \in [CounterNames -> 0..CounterMax]
    BY <1>1 DEF TypeOK
  <2>2. /\ stats["files"] = TrueStats["files"] /\ stats["directories"] = TrueStats["directories"]
        /\ stats["entries"] = TrueStats["entries"]
        /\ stats["unique_chunks"] = TrueStats["unique_chunks"]
    BY <1>1, <1>2, <1>3, TrueStatsAre DEF Books, CountOf
  <2>3. \A i \in Tagged("CHNK", N) : SizeOf[i] \in Nat /\ PayloadOf[i] \in Nat
                                     /\ SizeOf[i] = archive[i].size /\ PayloadOf[i] = archive[i].payload
    BY <1>2, <1>3, FieldValues
  <2>4. \A i \in Tagged("FILE", N) : SizeOf[i] \in Nat /\ RefsOf[i] \in Nat
    BY <1>2, <1>3, FieldValues
  <2>5. /\ SumTo(SizeOf, "CHNK", N) = SumFunction(Sizes)
        /\ SumTo(PayloadOf, "CHNK", N) = SumFunction(Payloads)
    BY <1>3, <2>3 DEF SumTo, Sizes, Payloads
  <2>6. /\ SumTo(SizeOf, "CHNK", N) \in Nat /\ SumTo(SizeOf, "FILE", N) \in Nat
        /\ SumTo(RefsOf, "FILE", N) \in Nat
    BY <2>3, <2>4, SumToMonotone
  <2>7. file.refs = <<>> /\ file.size = 0 /\ Len(file.refs) = 0
    BY <1>1 DEF NoFile
  <2>8. /\ stats["chunk_references"] = TrueStats["chunk_references"]
        /\ stats["original_bytes"] = TrueStats["original_bytes"]
        /\ stats["stored_bytes"] = TrueStats["stored_bytes"]
    <3>1. stats["chunk_references"] = SumTo(RefsOf, "FILE", N)
      BY <1>1, <1>3, <2>6, <2>7 DEF Books, RefTotal
    <3>2. stats["original_bytes"] = SumTo(SizeOf, "FILE", N)
      BY <1>1, <1>3 DEF Books, FileTotal
    <3>3. stats["stored_bytes"] = SumTo(PayloadOf, "CHNK", N)
      BY <1>1, <2>5 DEF Ledger
    <3> QED
      BY <1>2, <1>3, <3>1, <3>2, <3>3, TrueStatsAre
  <2>9. stats["deduplicated_bytes"] = TrueStats["deduplicated_bytes"]
    <3>1. SumTo(SizeOf, "CHNK", N) + stats["deduplicated_bytes"] = SumTo(SizeOf, "FILE", N)
      BY <1>1, <1>3, <2>5, <2>6, <2>7 DEF Ledger, Books, FileTotal
    <3>2. stats["deduplicated_bytes"] \in Nat
      BY <2>1, CounterNamesAre, BoundAssumption
    <3>3. stats["deduplicated_bytes"] = SumTo(SizeOf, "FILE", N) - SumTo(SizeOf, "CHNK", N)
      BY <2>6, <3>1, <3>2
    <3> QED
      BY <1>2, <1>3, <3>3, TrueStatsAre
  <2>10. \A c \in CounterNames : stats[c] = TrueStats[c]
    BY <2>2, <2>8, <2>9, CounterNamesAre
  <2>11. stats = TrueStats
    <3>1. TrueStats = [c \in CounterNames |-> TrueStats[c]]
      BY TrueStatsTable
    <3>2. stats = [c \in CounterNames |-> stats[c]]
      BY <2>1
    <3>3. [c \in CounterNames |-> stats[c]] = [c \in CounterNames |-> TrueStats[c]]
      BY <2>10
    <3> QED
      BY <3>1, <3>2, <3>3
  <2> QED
    BY <2>1, <2>11, BoundAssumption DEF Fits
<1>12. N >= 2 /\ archive[1] = Header
  BY <1>3, <1>6 DEF PrefixFormed
<1> QED
  BY <1>3, <1>4, <1>7, <1>8, <1>9, <1>10, <1>11, <1>12 DEF WellFormed

\* The last record of a formed prefix is as it should be.
LEMMA LastIsFormed ==
  ASSUME NEW m \in Nat, m >= 1, PrefixFormed(m)
  PROVE  RecordFormed(m)
<1>1. \A t : /\ archive[m].tag = t => m \in Tagged(t, m)
             /\ \A j \in Tagged(t, m - 1) : j \in Tagged(t, m) /\ j # m
  BY DEF Tagged
<1> QED
  BY <1>1 DEF PrefixFormed, RecordFormed

\* What the writer has put down is not refused.
LEMMA WrittenIsAccepted ==
  ASSUME Composing, ScanInv, verdict = "none", pos \in DOMAIN archive,
         ~(pc = "failed" /\ pos = Len(archive))
  PROVE  Accepted(archive[pos])
<1>1. PICK n \in Nat : Scanned(n)
  BY DEF ScanInv
<1>2. /\ archive \in Seq(StoredRecord) /\ pos = n + 1 /\ n <= Len(archive) /\ Gathered(n) /\ BodyTo(n)
  BY <1>1 DEF ScanInv, Scanned
<1>3. n + 1 <= Len(archive) /\ n + 1 \in 0..Len(archive)
  BY <1>2
<1>4. CASE pc = "ok"
  BY <1>2, <1>4, WrittenIsWellFormed, WellFormedIsAccepted
<1>5. CASE pc # "ok"
  <2>1. Formed(n + 1)
    BY <1>2, <1>3, <1>5 DEF Composing, Legible
  <2>2. CASE n = 0
    <3>1. archive[1] = Header
      BY <2>1, <2>2 DEF Formed, PrefixFormed
    <3> QED
      BY <1>2, <2>2, <3>1 DEF Accepted
  <2>3. CASE n # 0
    <3>1. n >= 1 /\ n + 1 \in 2..(n + 1)
      BY <2>3
    <3>2. archive[n + 1].tag \in {"CHNK", "DIRE", "FILE"} /\ Fitting(n + 1)
      BY <2>1, <3>1 DEF Formed, BodyTo
    <3>3. RecordFormed(n + 1)
      <4>1. PICK m \in Nat : m = n + 1 /\ m >= 1
        OBVIOUS
      <4> QED
        BY <2>1, <4>1, LastIsFormed DEF Formed
    <3> QED
      BY <1>2, <1>3, <3>1, <3>2, <3>3, FormedIsAccepted
  <2> QED
    BY <2>2, <2>3
<1> QED
  BY <1>4, <1>5

\* Writer, reader and what is written, until storage strikes.
AgreementInv == RoundTripInv /\ (damage = 0 => Composing)

\* It holds at first.
LEMMA AgreementInitial == Presentable /\ RoundTripInit => AgreementInv
BY RoundTripInitial, ComposingInitial DEF RoundTripInit, AgreementInv

\* Each step keeps it: those of the writer by ComposingStep, as long as storage
\* is sound.
LEMMA AgreementStep == AgreementInv /\ [RoundTripNext]_allVars => AgreementInv'
<1> SUFFICES ASSUME AgreementInv, [RoundTripNext]_allVars PROVE AgreementInv'
  OBVIOUS
<1>1. RoundTripInv /\ RoundTripInv' /\ damage \in Nat
  BY RoundTripStep DEF AgreementInv, RoundTripInv
<1>2. ASSUME damage' = 0 PROVE Composing'
  <2>1. ~Damage
    BY <1>1, <1>2 DEF Damage, RotRecord, LoseRecord, LoseTail, GrowTail, Strike
  <2>2. damage' = damage /\ [PackNext]_vars
    BY <2>1 DEF RoundTripNext, Write, Read, allVars, vars
  <2> QED
    BY <1>2, <2>2, ComposingStep DEF AgreementInv
<1> QED
  BY <1>1, <1>2 DEF AgreementInv

\* Only the scan refuses.
LEMMA RefusedByScan ==
  ASSUME RoundTripNext, verdict = "none", verdict' = "rejected"
  PROVE  ScanRejects
<1>1. CASE Write \/ Damage
  BY <1>1 DEF Write, Damage, RotRecord, LoseRecord, LoseTail, GrowTail, Strike, readVars
<1>2. CASE Read
  <2>1. \A o \in Operations : ~Open(o)
    BY DEF Open
  <2>2. ~ReadHeader /\ ~ScanChunk /\ ~ScanDirectory /\ ~ScanFile /\ ~ScanFooter /\ ~ReadError
    BY DEF ReadHeader, ScanChunk, ScanDirectory, ScanFile, ScanFooter, ReadError
  <2>3. ~PlanStep
    BY DEF PlanStep, ReportInfo, Succeed, PlanFiles, NotFound, MakeDestination, MakeDirectories
  <2>4. ~FileStep
    BY DEF FileStep, StartEntry, ReadChunk, ChunkDamaged, FinishEntry, FileDamaged, ReportFiles, Succeed
  <2> QED
    BY <1>2, <2>1, <2>2, <2>3, <2>4 DEF Read, ReadNext, ScanStep
<1> QED
  BY <1>1, <1>2 DEF RoundTripNext

\* Writer and reader agree: where names have no backslash, the scan refuses
\* nothing of what was written, however the reading of it and the writing
\* interleave, but for a record with which the packing failed.
THEOREM WrittenIsRead == Presentable /\ RoundTripSpec => OnlyIncompleteIsRefused
<1>1. AgreementInv /\ [RoundTripNext]_allVars =>
        [verdict = "none" /\ verdict' = "rejected" /\ damage = 0
           => pos \notin DOMAIN archive \/ (pc = "failed" /\ pos = Len(archive))]_allVars
  <2> SUFFICES ASSUME AgreementInv, RoundTripNext, verdict = "none", verdict' = "rejected", damage = 0,
                      pos \in DOMAIN archive, ~(pc = "failed" /\ pos = Len(archive))
               PROVE  FALSE
    OBVIOUS
  <2>1. Composing /\ ScanInv
    BY DEF AgreementInv, RoundTripInv, ReaderInv
  <2>2. Accepted(archive[pos])
    BY <2>1, WrittenIsAccepted
  <2> QED
    BY <2>2, RefusedByScan DEF ScanRejects
<1> QED
  BY <1>1, AgreementInitial, AgreementStep, PTL DEF RoundTripSpec, OnlyIncompleteIsRefused

-----------------------------------------------------------------------------
(* One fault.  A file that storage makes the scan miss is missed by the footer *)
(* too: it counts the files, and a fault that changes the footer left the      *)
(* files alone.                                                                *)

\* The files among the first n records that were packed.
PackedFiles(n) == {i \in RecordsOf(packed, "FILE") : i <= n}

\* The catalog has, for the first n records that were packed but those of L, as
\* many files, and each with its digest or with one that nothing has.
Told(n, L) ==
  /\ Len(fileList) = Cardinality(PackedFiles(n) \ L)
  /\ \A i \in PackedFiles(n) \ L : \E f \in Range(fileList) : f.hash \in {packed[i].hash, <<Garbage>>}

\* r is s, with some field changed, or cannot be read.
Resembles(r, s) ==
  /\ r.tag \in {s.tag, "torn"}
  /\ r.tag = "FILE" => r.hash \in {s.hash, <<Garbage>>}

\* The scan goes along the records as they were packed.
InStep ==
  /\ Told(pos - 1, {})
  /\ Len(archive) = Len(packed)
  /\ \A j \in pos..Len(packed) : Resembles(archive[j], packed[j])

\* It will not see the record that was at s.
LossAhead ==
  /\ Told(pos - 1, {})
  /\ Len(archive) = Len(packed) - 1
  /\ \E s \in (pos + 1)..Len(archive) :
       /\ \A j \in pos..(s - 1) : archive[j] = packed[j]
       /\ \A j \in s..Len(archive) : archive[j] = packed[j + 1]

\* It has not seen one of the records that were packed.
LossBehind ==
  /\ \E l \in 1..pos : Told(pos, {l})
  /\ Len(archive) = Len(packed) - 1
  /\ \A j \in pos..Len(archive) : archive[j] = packed[j + 1]

\* It will not be accepted, as there is no footer at the end.
Endless == Len(archive) = 0 \/ archive[Len(archive)].tag # "RGXF"

\* The footer says how many files were packed.
Numbered ==
  /\ packed \in Seq(WrittenRecord)
  /\ pc \in {"start", "walk", "file"} => stats["files"] = Cardinality(RecordsOf(packed, "FILE"))
  /\ \A i \in RecordsOf(packed, "RGXF") :
       packed[i].stats["files"] = Cardinality(RecordsOf(packed, "FILE"))

\* What the scan has read and what it has counted, and when it is over.
Counting ==
  /\ pos \in Nat \ {0}
  /\ tally \in [TallyNames -> Nat] /\ tally["files"] = Len(fileList)
  /\ rpc \in {"idle", "scan"} => verdict = "none"
  /\ rpc \in {"plan", "mkdir", "files"} => verdict = "accepted"
  /\ outcome = "ok" => verdict = "accepted"

\* Before any fault the scan follows the writer, who is done when it is.
Unharmed ==
  /\ verdict = "none" => Told(pos - 1, {}) /\ pos <= Len(packed) + 1
  /\ verdict = "accepted" => pc \in {"ok", "failed"}

\* Of the files that were packed the catalog misses none, or the footer will tell.
Accounted ==
  /\ verdict = "none" => InStep \/ LossAhead \/ LossBehind \/ Endless
  /\ verdict = "accepted" => Told(Len(packed), {})

\* A wanted file of the catalog is planned, or being rebuilt, or there with its
\* digest, and no other file is.
Recovering ==
  /\ current # NoEntry => /\ current \in Range(fileList) /\ current.path \in DOMAIN dest.files
                          /\ dest.files[current.path] = content
  /\ \A p \in DOMAIN dest.files : \E f \in Range(fileList) : f.path = p
  /\ \A f \in Range(fileList) : Wanted(f.path) =>
       \/ f \in Range(work) \/ f = current
       \/ f.path \in DOMAIN dest.files /\ dest.files[f.path] = f.hash

Recovered ==
  /\ rpc \in {"idle", "scan", "plan", "mkdir"} => current = NoEntry
  /\ rpc = "mkdir" => /\ dest.files = <<>> /\ Range(work) \subseteq Range(fileList)
                      /\ \A f \in Range(fileList) : Wanted(f.path) => f \in Range(work)
  /\ op.kind = "extract" /\ UnderWay => Recovering /\ Range(work) \subseteq Range(fileList)
  /\ op.kind = "extract" /\ outcome = "ok" => work = <<>> /\ current = NoEntry

OneFaultInv ==
  /\ DamageInv /\ Numbered /\ Counting /\ Recovered
  /\ damage = 0 => Unharmed
  /\ damage <= 1 => Accounted


\* The files among the records that were packed, one record further.
LEMMA PackedFilesNext ==
  ASSUME packed \in Seq(WrittenRecord), NEW n \in Nat
  PROVE  /\ IsFiniteSet(PackedFiles(n)) /\ PackedFiles(n) \subseteq 1..n
         /\ PackedFiles(0) = {}
         /\ PackedFiles(n + 1) = IF n + 1 \in RecordsOf(packed, "FILE")
                                 THEN PackedFiles(n) \union {n + 1} ELSE PackedFiles(n)
         /\ n >= Len(packed) => PackedFiles(n) = RecordsOf(packed, "FILE")
<1>1. RecordsOf(packed, "FILE") \subseteq 1..Len(packed) /\ Len(packed) \in Nat
  BY DEF RecordsOf
<1>2. PackedFiles(n) \subseteq 1..n
  BY <1>1 DEF PackedFiles
<1>3. IsFiniteSet(PackedFiles(n))
  <2>1. IsFiniteSet(1..n)
    BY FS_Interval
  <2> QED
    BY <1>2, <2>1, FS_Subset
<1>4. PackedFiles(0) = {}
  BY <1>1 DEF PackedFiles
<1>5. PackedFiles(n + 1) = IF n + 1 \in RecordsOf(packed, "FILE")
                           THEN PackedFiles(n) \union {n + 1} ELSE PackedFiles(n)
  <2>1. \A i \in RecordsOf(packed, "FILE") : i <= n + 1 <=> i <= n \/ i = n + 1
    BY <1>1
  <2> QED
    BY <2>1 DEF PackedFiles
<1>6. n >= Len(packed) => PackedFiles(n) = RecordsOf(packed, "FILE")
  BY <1>1 DEF PackedFiles
<1> QED
  BY <1>2, <1>3, <1>4, <1>5, <1>6

\* Where the catalog and what was packed stay, so does what is told of them.
LEMMA ToldStays ==
  ASSUME fileList' = fileList, packed' = packed
  PROVE  /\ \A n : PackedFiles(n)' = PackedFiles(n)
         /\ \A n, L : Told(n, L)' <=> Told(n, L)
<1>1. \A n : PackedFiles(n)' = PackedFiles(n)
  BY DEF PackedFiles, RecordsOf
<1>2. Range(fileList)' = Range(fileList)
  BY DEF Range
<1> QED
  BY <1>1, <1>2 DEF Told

\* A record is read that resembles the next one that was packed.
LEMMA ToldNext ==
  ASSUME packed \in Seq(WrittenRecord), packed' = packed, fileList \in Seq(FileStored),
         NEW n \in Nat, NEW L, Told(n, L), n + 1 \in DOMAIN packed, n + 1 \notin L,
         NEW r, Resembles(r, packed[n + 1]),
         \/ r.tag = "FILE" /\ r \in FileStored /\ fileList' = Append(fileList, r)
         \/ r.tag \notin {"FILE", "torn"} /\ fileList' = fileList
  PROVE  Told(n + 1, L)'
<1> DEFINE S == PackedFiles(n) \ L
<1>0. /\ Len(fileList) = Cardinality(S)
      /\ \A i \in S : \E f \in Range(fileList) : f.hash \in {packed[i].hash, <<Garbage>>}
  BY DEF Told
<1>1. /\ IsFiniteSet(S) /\ n + 1 \notin S
      /\ PackedFiles(n + 1) = IF n + 1 \in RecordsOf(packed, "FILE")
                              THEN PackedFiles(n) \union {n + 1} ELSE PackedFiles(n)
  <2>1. /\ IsFiniteSet(PackedFiles(n)) /\ PackedFiles(n) \subseteq 1..n
        /\ PackedFiles(n + 1) = IF n + 1 \in RecordsOf(packed, "FILE")
                                THEN PackedFiles(n) \union {n + 1} ELSE PackedFiles(n)
    BY PackedFilesNext
  <2>2. IsFiniteSet(S)
    BY <2>1, FS_Subset
  <2> QED
    BY <2>1, <2>2
<1>2. PackedFiles(n + 1)' = PackedFiles(n + 1)
  BY DEF PackedFiles, RecordsOf
<1>3. CASE r.tag = "FILE" /\ r \in FileStored /\ fileList' = Append(fileList, r)
  <2>1. packed[n + 1].tag = "FILE" /\ r.hash \in {packed[n + 1].hash, <<Garbage>>}
    BY <1>3 DEF Resembles
  <2>2. PackedFiles(n + 1) \ L = S \union {n + 1}
    BY <1>1, <2>1 DEF RecordsOf
  <2>3. Len(fileList') = Len(fileList) + 1 /\ Range(fileList') = Range(fileList) \union {r}
    <3>1. /\ DOMAIN fileList = 1..Len(fileList) /\ Len(fileList) \in Nat
          /\ DOMAIN fileList' = 1..(Len(fileList) + 1) /\ fileList'[Len(fileList) + 1] = r
          /\ \A k \in 1..Len(fileList) : fileList'[k] = fileList[k]
          /\ Len(fileList') = Len(fileList) + 1
      BY <1>3
    <3>2. 1..(Len(fileList) + 1) = 1..Len(fileList) \union {Len(fileList) + 1}
      BY <3>1
    <3> QED
      BY <3>1, <3>2 DEF Range
  <2>4. Cardinality(S \union {n + 1}) = Cardinality(S) + 1
    BY <1>1, FS_AddElement
  <2> HIDE DEF S
  <2>5. \A i \in S \union {n + 1} : \E f \in Range(fileList') : f.hash \in {packed[i].hash, <<Garbage>>}
    BY <1>0, <2>1, <2>3
  <2> QED
    BY <1>0, <1>2, <2>2, <2>3, <2>4, <2>5 DEF Told
<1>4. CASE r.tag \notin {"FILE", "torn"} /\ fileList' = fileList
  <2>1. n + 1 \notin RecordsOf(packed, "FILE")
    BY <1>4 DEF Resembles, RecordsOf
  <2>2. PackedFiles(n + 1) \ L = S
    BY <1>1, <2>1
  <2> HIDE DEF S
  <2> QED
    BY <1>0, <1>2, <1>4, <2>2 DEF Told
<1> QED
  BY <1>3, <1>4


\* A record of an archive resembles itself.
LEMMA ResemblesItself == \A r : Resembles(r, r)
BY DEF Resembles

\* The footer of what was packed is reached: of its files none was missed.
LEMMA NoneWasLost ==
  ASSUME Numbered, NEW n \in Nat, n + 1 = Len(packed), packed[n + 1].tag = "RGXF", NEW L,
         L = {} \/ ((\E l : L = {l}) /\ packed[n + 1].stats["files"] = Len(fileList)), Told(n, L)
  PROVE  Told(Len(packed), {})
<1>1. packed \in Seq(WrittenRecord) /\ n + 1 \in DOMAIN packed
  BY DEF Numbered
<1>2. /\ IsFiniteSet(PackedFiles(n)) /\ PackedFiles(n + 1) = PackedFiles(n)
      /\ PackedFiles(n + 1) = RecordsOf(packed, "FILE")
  <2>1. n + 1 \notin RecordsOf(packed, "FILE")
    BY DEF RecordsOf
  <2>2. PackedFiles(n + 1) = RecordsOf(packed, "FILE")
    <3>1. n + 1 \in Nat /\ n + 1 >= Len(packed)
      OBVIOUS
    <3> QED
      BY <1>1, <3>1, PackedFilesNext
  <2> QED
    BY <1>1, <2>1, <2>2, PackedFilesNext
<1>3. PackedFiles(n) \ L = PackedFiles(n)
  <2>1. CASE L = {}
    BY <2>1
  <2>2. ASSUME NEW l, L = {l}, packed[n + 1].stats["files"] = Len(fileList)
        PROVE  l \notin PackedFiles(n)
    <3>1. packed[n + 1].stats["files"] = Cardinality(PackedFiles(n))
      BY <1>1, <1>2 DEF Numbered, RecordsOf
    <3>2. Len(fileList) = Cardinality(PackedFiles(n) \ {l})
      BY <2>2 DEF Told
    <3>3. PICK c \in Nat : c = Cardinality(PackedFiles(n))
      BY <1>2, FS_CardinalityType
    <3>4. l \in PackedFiles(n) => Cardinality(PackedFiles(n) \ {l}) = c - 1
      BY <1>2, <3>3, FS_RemoveElement
    <3>5. Cardinality(PackedFiles(n) \ {l}) = c
      BY <2>2, <3>1, <3>2, <3>3
    <3> QED
      BY <3>3, <3>4, <3>5
  <2>3. ASSUME NEW l, L = {l}, packed[n + 1].stats["files"] = Len(fileList)
        PROVE  PackedFiles(n) \ L = PackedFiles(n)
    <3>1. l \notin PackedFiles(n)
      BY <2>2, <2>3
    <3> QED
      BY <2>3, <3>1
  <2>4. CASE (\E l : L = {l}) /\ packed[n + 1].stats["files"] = Len(fileList)
    <3>1. PICK l : L = {l}
      BY <2>4
    <3> QED
      BY <2>3, <2>4, <3>1
  <2> QED
    BY <2>1, <2>4
<1>4. PackedFiles(Len(packed)) \ {} = PackedFiles(n)
  BY <1>2
<1> QED
  BY <1>3, <1>4 DEF Told

\* A footer is accepted: the catalog has all the files that were packed.
LEMMA FooterAccounts ==
  ASSUME Numbered, Counting, Accounted, verdict = "none", ScanFooter, archive \in Seq(StoredRecord)
  PROVE  Told(Len(packed), {})
<1>1. /\ pos = Len(archive) /\ pos >= 1 /\ archive[pos].tag = "RGXF"
      /\ archive[pos].stats = ExpectedStats /\ pos \in Nat /\ packed \in Seq(WrittenRecord)
  BY DEF ScanFooter, Advance, FooterAccepted, Counting, Numbered
<1>2. archive[pos].stats["files"] = Len(fileList)
  <2>1. "files" \in CounterNames
    BY DEF CounterNames
  <2>2. ExpectedStats["files"] = tally["files"]
    BY <2>1 DEF ExpectedStats
  <2> QED
    BY <1>1, <2>2 DEF Counting
<1>3. CASE InStep
  <2>1. PICK m \in Nat : m = pos - 1
    BY <1>1
  <2>2. m + 1 = pos /\ m + 1 = Len(packed) /\ Told(m, {}) /\ packed[pos].tag = "RGXF"
    BY <1>1, <1>3, <2>1 DEF InStep, Resembles
  <2> QED
    BY <2>1, <2>2, NoneWasLost
<1>4. CASE LossAhead
  BY <1>1, <1>4 DEF LossAhead
<1>5. CASE LossBehind
  <2>1. PICK l \in 1..pos : Told(pos, {l})
    BY <1>5 DEF LossBehind
  <2>2. Len(packed) \in Nat /\ pos + 1 = Len(packed) /\ packed[pos + 1] = archive[pos]
    BY <1>1, <1>5 DEF LossBehind
  <2> QED
    BY <1>1, <1>2, <2>1, <2>2, NoneWasLost
<1>6. CASE Endless
  BY <1>1, <1>6 DEF Endless
<1> QED
  BY <1>3, <1>4, <1>5, <1>6 DEF Accounted

\* Another record is accepted.
LEMMA RecordAccounts ==
  ASSUME Numbered, Counting, Accounted, verdict = "none", archive \in Seq(StoredRecord),
         fileList \in Seq(FileStored), pos \in DOMAIN archive, pos' = pos + 1,
         verdict' = "none", UNCHANGED <<archive, packed>>,
         \/ archive[pos].tag = "FILE" /\ fileList' = Append(fileList, archive[pos])
         \/ archive[pos].tag \notin {"FILE", "torn"} /\ fileList' = fileList
  PROVE  Accounted'
<1>m. PICK m \in Nat : m = pos
  BY DEF Counting
<1>0. /\ archive' = archive /\ packed' = packed /\ packed \in Seq(WrittenRecord)
      /\ Len(archive) \in Nat /\ Len(packed) \in Nat /\ m \in 1..Len(archive)
      /\ pos = m /\ pos' = m + 1
  BY <1>m DEF Numbered
<1>1. PICK r : r = archive[m]
  OBVIOUS
<1>2. \/ r.tag = "FILE" /\ r \in FileStored /\ fileList' = Append(fileList, r)
      \/ r.tag \notin {"FILE", "torn"} /\ fileList' = fileList
  BY <1>0, <1>1, StoredAt
<1>3. ASSUME NEW n \in Nat, NEW L, Told(n, L), n + 1 \notin L, n + 1 \in DOMAIN packed,
             Resembles(r, packed[n + 1])
      PROVE  Told(n + 1, L)'
  BY <1>0, <1>2, <1>3, ToldNext
<1>4. m - 1 \in Nat /\ m - 1 + 1 = m /\ pos' - 1 = m
  BY <1>0
<1>5. CASE InStep
  <2>1. Told(m, {})'
    BY <1>0, <1>1, <1>3, <1>4, <1>5 DEF InStep
  <2>2. InStep'
    <3>1. \A j \in (m + 1)..Len(packed) : Resembles(archive[j], packed[j])
      BY <1>0, <1>5 DEF InStep
    <3> QED
      BY <1>0, <1>4, <1>5, <2>1, <3>1 DEF InStep, Resembles, Told
  <2> QED
    BY <2>2 DEF Accounted
<1>6. CASE LossAhead
  <2>1. PICK s \in (m + 1)..Len(archive) :
          /\ \A j \in m..(s - 1) : archive[j] = packed[j]
          /\ \A j \in s..Len(archive) : archive[j] = packed[j + 1]
    BY <1>0, <1>6 DEF LossAhead
  <2>2. Told(m - 1, {}) /\ Len(archive) = Len(packed) - 1
    BY <1>0, <1>6 DEF LossAhead
  <2>3. archive[m] = packed[m] /\ m \in DOMAIN packed
    BY <1>0, <2>1, <2>2, SMTT(30)
  <2>4. Told(m, {})'
    BY <1>1, <1>3, <1>4, <2>2, <2>3, ResemblesItself
  <2>5. CASE s > m + 1
    <3>1. s \in (m + 1 + 1)..Len(archive) /\ \A j \in (m + 1)..(s - 1) : archive[j] = packed[j]
      BY <1>0, <2>1, <2>5
    <3>2. LossAhead'
      BY <1>0, <1>4, <2>1, <2>2, <2>4, <3>1 DEF LossAhead, Told
    <3> QED
      BY <3>2 DEF Accounted
  <2>6. CASE s = m + 1
    <3>1. Told(m + 1, {m + 1})'
      <4>1. /\ PackedFiles(m) \subseteq 1..m
            /\ PackedFiles(m + 1) = IF m + 1 \in RecordsOf(packed, "FILE")
                                      THEN PackedFiles(m) \union {m + 1} ELSE PackedFiles(m)
        BY <1>0, PackedFilesNext
      <4>2. PackedFiles(m + 1) \ {m + 1} = PackedFiles(m) \ {}
        BY <1>0, <4>1
      <4>3. PackedFiles(m + 1)' = PackedFiles(m + 1) /\ PackedFiles(m)' = PackedFiles(m)
        BY <1>0 DEF PackedFiles, RecordsOf
      <4> QED
        BY <2>4, <4>2, <4>3 DEF Told
    <3>2. LossBehind'
      <4>1. m + 1 \in 1..(m + 1) /\ \A j \in (m + 1)..Len(archive) : archive[j] = packed[j + 1]
        <5>1. \A j \in s..Len(archive) : archive[j] = packed[j + 1]
          BY <2>1
        <5> QED
          BY <1>0, <2>6, <5>1
      <4> QED
        BY <1>0, <2>2, <3>1, <4>1 DEF LossBehind, Told
    <3> QED
      BY <3>2 DEF Accounted
  <2> QED
    BY <1>0, <2>1, <2>5, <2>6
<1>7. CASE LossBehind
  <2>1. PICK l \in 1..m : Told(m, {l})
    BY <1>0, <1>7 DEF LossBehind
  <2>2. Len(archive) = Len(packed) - 1 /\ \A j \in m..Len(archive) : archive[j] = packed[j + 1]
    BY <1>0, <1>7 DEF LossBehind
  <2>3. /\ m + 1 \in DOMAIN packed /\ m + 1 \notin {l} /\ archive[m] = packed[m + 1]
        /\ m \in Nat /\ l \in 1..(m + 1)
    BY <1>0, <2>1, <2>2
  <2>4. Told(m + 1, {l})'
    BY <1>1, <1>3, <2>1, <2>3, ResemblesItself
  <2>5. \A j \in (m + 1)..Len(archive) : archive[j] = packed[j + 1]
    BY <1>0, <2>2
  <2>6. LossBehind'
    BY <1>0, <2>2, <2>3, <2>4, <2>5 DEF LossBehind, Told
  <2> QED
    BY <2>6 DEF Accounted
<1>8. CASE Endless
  <2>1. Endless'
    BY <1>0, <1>8 DEF Endless
  <2> QED
    BY <2>1 DEF Accounted
<1> QED
  BY <1>5, <1>6, <1>7, <1>8 DEF Accounted


\* A field of a record changes: it resembles what it was.
LEMMA RottedResembles ==
  ASSUME NEW s \in StoredRecord, NEW r \in Rotted(s)
  PROVE  Resembles(r, s)
<1>1. Torn.tag = "torn"
  BY DEF Torn
<1>2. CASE r = Torn
  BY <1>1, <1>2 DEF Resembles
<1>3. CASE s \in ChunkStored
  <2>1. s.tag = "CHNK"
    BY <1>3 DEF ChunkStored
  <2>2. \/ r = Torn \/ r = [s EXCEPT !.data = Garbage] \/ r = [s EXCEPT !.size = @ + 1]
        \/ r = [s EXCEPT !.payload = @ + 1] \/ \E h \in Chunk \union {Garbage} : r = [s EXCEPT !.hash = h]
    BY <2>1 DEF Rotted
  <2>3. r # Torn => r.tag = "CHNK"
    BY <1>3, <2>2 DEF ChunkStored
  <2> QED
    BY <1>2, <2>1, <2>3 DEF Resembles
<1>4. CASE s \in FileStored
  <2>1. s.tag = "FILE"
    BY <1>4 DEF FileStored
  <2>2. \/ r = Torn \/ r = [s EXCEPT !.size = @ + 1] \/ r = [s EXCEPT !.hash = <<Garbage>>]
        \/ \E p \in NewPaths : r = [s EXCEPT !.path = p]
        \/ \E k \in DOMAIN s.refs, c \in Chunk : r = [s EXCEPT !.refs[k] = c]
    BY <2>1 DEF Rotted
  <2>3. r # Torn => r.tag = "FILE"
    BY <1>4, <2>2 DEF FileStored
  <2>4. r # Torn => r.hash \in {s.hash, <<Garbage>>}
    BY <1>4, <2>1, <2>3, RottedFile
  <2> QED
    BY <1>2, <2>1, <2>3, <2>4 DEF Resembles
<1>5. CASE s \in {Header, Torn} \union DirectoryRecordType \union FooterType
  <2>1. r.tag # "FILE"
    BY <1>5, RottedOther
  <2>2. CASE s \in {Header, Torn}
    <3>1. s.tag \in {"RGX", "torn"}
      BY <2>2 DEF Header, Torn
    <3> QED
      BY <1>2, <3>1 DEF Rotted
  <2>3. CASE s \in DirectoryRecordType
    <3>1. s.tag = "DIRE"
      BY <2>3 DEF DirectoryRecordType
    <3>2. r = Torn \/ \E p \in NewPaths : r = [s EXCEPT !.path = p]
      BY <3>1 DEF Rotted
    <3>3. r # Torn => r.tag = s.tag
      BY <2>3, <3>2 DEF DirectoryRecordType
    <3> QED
      BY <1>2, <2>1, <3>3 DEF Resembles
  <2>4. CASE s \in FooterType
    <3>1. s.tag = "RGXF"
      BY <2>4 DEF FooterType
    <3>2. r = Torn \/ \E n \in CounterNames : r = [s EXCEPT !.stats = Add(@, n, 1)]
      BY <3>1 DEF Rotted
    <3>3. r # Torn => r.tag = s.tag
      BY <2>4, <3>2 DEF FooterType
    <3> QED
      BY <1>2, <2>1, <3>3 DEF Resembles
  <2> QED
    BY <1>5, <2>2, <2>3, <2>4
<1>6. StoredRecord = ChunkStored \union FileStored
                       \union ({Header, Torn} \union DirectoryRecordType \union FooterType)
  BY DEF StoredRecord, ChunkStored, FileStored
<1> QED
  BY <1>3, <1>4, <1>5, <1>6

\* Where the records are once one of them is lost.
LEMMA LosingOne ==
  ASSUME NEW S, archive \in Seq(S), NEW i \in DOMAIN archive, LoseRecord(i)
  PROVE  /\ archive' \in Seq(S) /\ Len(archive') = Len(archive) - 1
         /\ \A j \in 1..(i - 1) : archive'[j] = archive[j]
         /\ \A j \in i..(Len(archive) - 1) : archive'[j] = archive[j + 1]
<1>0. Len(archive) \in Nat /\ i \in 1..Len(archive)
  OBVIOUS
<1>1. PICK a, b : a = SubSeq(archive, 1, i - 1) /\ b = SubSeq(archive, i + 1, Len(archive))
  OBVIOUS
<1>2. archive' = a \o b
  BY <1>1 DEF LoseRecord
<1>3. a \in Seq(S) /\ Len(a) = i - 1 /\ \A j \in 1..(i - 1) : a[j] = archive[j]
  BY <1>0, <1>1
<1>4. b \in Seq(S) /\ Len(b) = Len(archive) - i
      /\ \A j \in 1..(Len(archive) - i) : b[j] = archive[i + j]
  BY <1>0, <1>1
<1>5. archive' \in Seq(S) /\ Len(archive') = Len(archive) - 1
  BY <1>0, <1>2, <1>3, <1>4
<1>6. ASSUME NEW j \in 1..(i - 1) PROVE archive'[j] = archive[j]
  BY <1>0, <1>2, <1>3, <1>4, <1>6
<1>7. ASSUME NEW j \in i..(Len(archive) - 1) PROVE archive'[j] = archive[j + 1]
  <2>1. archive'[j] = b[j - (i - 1)] /\ j - (i - 1) \in 1..(Len(archive) - i)
    BY <1>0, <1>2, <1>3, <1>4, <1>7, SMTT(30)
  <2>2. i + (j - (i - 1)) = j + 1
    BY <1>0, <1>7
  <2> QED
    BY <1>4, <2>1, <2>2
<1> QED
  BY <1>5, <1>6, <1>7

\* The first fault: the scan can still tell, or goes on as if nothing was.
LEMMA StrikeAccounts ==
  ASSUME DamageInv, Unharmed, Counting, damage = 0, verdict = "none", Damage
  PROVE  Accounted'
<1>m. PICK m \in Nat, n \in Nat : m + 1 = pos /\ n = Len(archive)
  BY DEF Counting, DamageInv
<1>0. /\ archive \in Seq(StoredRecord) /\ packed = archive /\ DOMAIN archive = 1..n
      /\ pos = m + 1 /\ pos - 1 = m /\ Told(m, {}) /\ m <= n
      /\ \A i \in 1..n : archive[i].tag = "RGXF" => i = n
  BY <1>m DEF DamageInv, WritingInv, FooterEnds, Unharmed
<1>1. packed' = packed /\ fileList' = fileList /\ pos' = pos /\ verdict' = verdict /\ pos' - 1 = m
  <2>1. Strike
    BY DEF Damage, RotRecord, LoseRecord, LoseTail, GrowTail
  <2> QED
    BY <1>0, <2>1 DEF Strike, readVars, scanVars
<1>2. \A k, L : Told(k, L)' <=> Told(k, L)
  BY <1>1, ToldStays
<1>3. ASSUME Endless' PROVE Accounted'
  BY <1>1, <1>3 DEF Accounted
<1>4. ASSUME NEW i \in DOMAIN archive, RotRecord(i) PROVE Accounted'
  <2>1. PICK r \in Rotted(archive[i]) : archive' = [archive EXCEPT ![i] = r]
    BY <1>4 DEF RotRecord
  <2>2. Len(archive') = n
    BY <1>0, <1>m, <2>1
  <2>3. \A j \in 1..n : Resembles(archive'[j], archive[j])
    <3>1. archive[i] \in StoredRecord
      BY <1>0
    <3>2. Resembles(r, archive[i])
      BY <3>1, RottedResembles
    <3> QED
      BY <1>0, <2>1, <3>2, ResemblesItself
  <2>4. Told(m, {})'
    BY <1>0, <1>2, SMTT(30)
  <2>5. InStep'
    <3>1. \A j \in (m + 1)..n : Resembles(archive'[j], packed[j])
      BY <1>0, <2>3
    <3> QED
      BY <1>0, <1>1, <1>m, <2>2, <2>4, <3>1, ZenonT(60) DEF InStep, Told, Resembles
  <2> QED
    BY <1>1, <2>5 DEF Accounted
<1>5. ASSUME NEW i \in DOMAIN archive, LoseRecord(i) PROVE Accounted'
  <2>1. /\ archive' \in Seq(StoredRecord) /\ Len(archive') = n - 1 /\ i \in 1..n
        /\ \A j \in 1..(i - 1) : archive'[j] = archive[j]
        /\ \A j \in i..(n - 1) : archive'[j] = archive[j + 1]
    BY <1>0, <1>5, <1>m, LosingOne, ZenonT(60)
  <2>2. CASE i = n
    <3>1. CASE n = 1
      <4>1. Endless'
        BY <2>1, <3>1 DEF Endless
      <4> QED
        BY <1>3, <4>1
    <3>2. CASE n # 1
      <4>1. n - 1 \in 1..(i - 1) /\ n - 1 \in 1..n /\ n - 1 # n
        BY <1>m, <2>1, <2>2, <3>2
      <4>2. archive'[n - 1].tag # "RGXF"
        BY <1>0, <2>1, <4>1
      <4>3. Endless'
        BY <2>1, <4>2 DEF Endless
      <4> QED
        BY <1>3, <4>3
    <3> QED
      BY <3>1, <3>2
  <2>3. CASE i # n /\ i <= m + 1
    <3>1. Told(m + 1, {m + 1})'
      <4>1. Told(m + 1, {m + 1})
        <5>1. packed \in Seq(WrittenRecord)
          BY <1>0 DEF DamageInv, WritingInv, TypeOK
        <5>2. /\ PackedFiles(m) \subseteq 1..m
              /\ PackedFiles(m + 1) = IF m + 1 \in RecordsOf(packed, "FILE")
                                        THEN PackedFiles(m) \union {m + 1} ELSE PackedFiles(m)
          BY <5>1, PackedFilesNext
        <5>3. PackedFiles(m + 1) \ {m + 1} = PackedFiles(m) \ {}
          BY <5>2
        <5> QED
          BY <1>0, <5>3 DEF Told
      <4> QED
        BY <1>2, <4>1
    <3>2. m + 1 \in 1..(m + 1) /\ \A j \in (m + 1)..(n - 1) : archive'[j] = archive[j + 1]
      BY <1>m, <2>1, <2>3, SMTT(30)
    <3>3. LossBehind'
      BY <1>0, <1>1, <1>m, <2>1, <3>1, <3>2, ZenonT(60) DEF LossBehind, Told
    <3> QED
      BY <1>1, <3>3 DEF Accounted
  <2>4. CASE i # n /\ i > m + 1
    <3>1. Told(m, {})'
      BY <1>0, <1>2
    <3>2. /\ i \in (m + 1 + 1)..(n - 1)
          /\ \A j \in (m + 1)..(i - 1) : archive'[j] = archive[j]
          /\ \A j \in i..(n - 1) : archive'[j] = archive[j + 1]
      BY <1>m, <2>1, <2>4
    <3>3. LossAhead'
      BY <1>0, <1>1, <1>m, <2>1, <3>1, <3>2, ZenonT(60) DEF LossAhead, Told
    <3> QED
      BY <1>1, <3>3 DEF Accounted
  <2> QED
    BY <1>m, <2>1, <2>2, <2>3, <2>4, SMTT(30)
<1>6. ASSUME NEW i \in DOMAIN archive, LoseTail(i - 1) PROVE Accounted'
  <2>1. archive' = SubSeq(archive, 1, i - 1) /\ i \in 1..n
    BY <1>0, <1>6 DEF LoseTail
  <2>2. Len(archive') = i - 1 /\ \A j \in 1..(i - 1) : archive'[j] = archive[j]
    <3>1. archive \in Seq(StoredRecord) /\ Len(archive) \in Nat /\ i \in 1..Len(archive)
      BY <1>0, <1>m, <2>1, ZenonT(60)
    <3> QED
      BY <2>1, <3>1
  <2>3. Endless'
    <3>1. CASE i = 1
      BY <2>2, <3>1 DEF Endless
    <3>2. CASE i # 1
      <4>1. i - 1 \in 1..n /\ i - 1 # n /\ i - 1 \in 1..(i - 1)
        BY <1>m, <2>1, <3>2
      <4>2. archive'[i - 1].tag # "RGXF"
        BY <1>0, <2>2, <4>1
      <4> QED
        BY <2>2, <4>2 DEF Endless
    <3> QED
      BY <3>1, <3>2
  <2> QED
    BY <1>3, <2>3
<1>7. CASE GrowTail
  <2>1. archive' = Append(archive, Torn) /\ Torn.tag = "torn"
    BY <1>7 DEF GrowTail, Torn
  <2>2. archive'[Len(archive')].tag = "torn"
    BY <1>0, <2>1
  <2> QED
    BY <1>3, <2>2 DEF Endless
<1> QED
  BY <1>4, <1>5, <1>6, <1>7 DEF Damage


\* A record more, and of the files among the first ones none changes.
LEMMA AppendRecords ==
  ASSUME NEW s, s \in Seq(WrittenRecord), NEW rec, NEW t,
         NEW u, DOMAIN u = 1..(Len(s) + 1), \A i \in 1..Len(s) : u[i] = s[i], u[Len(s) + 1] = rec
  PROVE  /\ rec.tag # t => RecordsOf(u, t) = RecordsOf(s, t)
         /\ rec.tag = t => /\ RecordsOf(u, t) = RecordsOf(s, t) \union {Len(s) + 1}
                           /\ Cardinality(RecordsOf(u, t)) = Cardinality(RecordsOf(s, t)) + 1
<1>1. Len(s) \in Nat /\ DOMAIN s = 1..Len(s)
  OBVIOUS
<1>2. 1..(Len(s) + 1) = 1..Len(s) \union {Len(s) + 1} /\ Len(s) + 1 \notin 1..Len(s)
  BY <1>1
<1>3. rec.tag # t => RecordsOf(u, t) = RecordsOf(s, t)
  BY <1>1, <1>2 DEF RecordsOf
<1>4. rec.tag = t => RecordsOf(u, t) = RecordsOf(s, t) \union {Len(s) + 1}
  BY <1>1, <1>2 DEF RecordsOf
<1>5. RecordsOf(s, t) \subseteq 1..Len(s) /\ IsFiniteSet(RecordsOf(s, t))
  <2>1. RecordsOf(s, t) \subseteq 1..Len(s)
    BY <1>1 DEF RecordsOf
  <2>2. IsFiniteSet(1..Len(s))
    BY <1>1, FS_Interval
  <2> QED
    BY <2>1, <2>2, FS_Subset
<1>6. Len(s) + 1 \notin RecordsOf(s, t)
  BY <1>2, <1>5
<1>7. Cardinality(RecordsOf(s, t) \union {Len(s) + 1}) = Cardinality(RecordsOf(s, t)) + 1
  BY <1>5, <1>6, FS_AddElement
<1> QED
  BY <1>3, <1>4, <1>7

\* The writer's count of files, which its footer repeats.
FileCount == stats["files"]

\* Adding to another counter leaves the files counted as they are.
LEMMA OtherCounters ==
  ASSUME NEW f \in [CounterNames -> Nat], NEW n \in CounterNames \ {"files"}, NEW k \in Nat
  PROVE  Add(f, n, k) \in [CounterNames -> Nat] /\ Add(f, n, k)["files"] = f["files"]
BY DEF Add, CounterNames

\* What a step of the writer does to the archive, and to the files it has counted.
LEMMA PackCounts ==
  ASSUME TypeOK, PackNext
  PROVE  \/ archive' = archive /\ (pc' \in {"start", "walk", "file"} => FileCount' = FileCount)
         \/ \E rec : /\ archive' = Append(archive, rec)
                     /\ \/ /\ rec.tag \notin {"FILE", "RGXF"}
                           /\ pc' \in {"start", "walk", "file"} => FileCount' = FileCount
                        \/ /\ rec.tag = "FILE"
                           /\ pc' \in {"start", "walk", "file"} => FileCount' = FileCount + 1
                        \/ /\ rec.tag = "RGXF" /\ rec.stats["files"] = FileCount
                           /\ pc' \notin {"start", "walk", "file"}
<1>0. /\ stats \in [CounterNames -> Nat] /\ file \in FileType
      /\ "files" \in CounterNames
      /\ {"entries", "directories", "chunk_references", "deduplicated_bytes", "unique_chunks",
          "stored_bytes", "original_bytes"} \subseteq CounterNames \ {"files"}
  BY BoundAssumption DEF TypeOK, CounterNames
<1>1. CASE RefuseInput \/ FileTooLarge
  BY <1>1 DEF RefuseInput, FileTooLarge
<1>2. CASE WriteHeader
  <2>1. Header.tag = "RGX"
    BY DEF Header
  <2> QED
    BY <1>2, <2>1 DEF WriteHeader, FileCount
<1>3. ASSUME NEW p \in Deliverable, OpenFile(p) \/ RefuseEntry(p)
      PROVE  archive' = archive /\ FileCount' = FileCount
  BY <1>3 DEF OpenFile, RefuseEntry, FileCount
<1>4. ASSUME NEW p \in Deliverable, WalkDirectory(p)
      PROVE  /\ archive' = Append(archive, DirectoryRecord(p)) /\ DirectoryRecord(p).tag = "DIRE"
             /\ pc' \in {"start", "walk", "file"} => FileCount' = FileCount
  <2>1. PICK f, g : f = Add(stats, "entries", 1) /\ g = Add(f, "directories", 1)
    OBVIOUS
  <2>2. f \in [CounterNames -> Nat] /\ f["files"] = stats["files"]
    BY <1>0, <2>1, OtherCounters
  <2>3. g["files"] = stats["files"]
    <3>1. "directories" \in CounterNames \ {"files"} /\ g = Add(f, "directories", 1)
      BY <1>0, <2>1
    <3> QED
      BY <2>2, <3>1, OtherCounters
  <2>4. Count(g, "walk") /\ archive' = Append(archive, DirectoryRecord(p))
    BY <1>4, <2>1 DEF WalkDirectory
  <2> QED
    BY <2>3, <2>4 DEF Count, FileCount, DirectoryRecord
<1>5. ASSUME NEW c \in Chunk, ReferenceChunk(c)
      PROVE  archive' = archive /\ (pc' \in {"start", "walk", "file"} => FileCount' = FileCount)
  <2>1. PICK f, g : /\ f = Add(stats, "chunk_references", 1)
                    /\ g = Add(f, "deduplicated_bytes", ChunkLen[c])
    OBVIOUS
  <2>2. f \in [CounterNames -> Nat] /\ f["files"] = stats["files"]
    BY <1>0, <2>1, OtherCounters
  <2>3. ChunkLen[c] \in Nat
    BY ChunkAssumption, BoundAssumption
  <2>4. g["files"] = stats["files"]
    <3>1. "deduplicated_bytes" \in CounterNames \ {"files"} /\ g = Add(f, "deduplicated_bytes", ChunkLen[c])
      BY <1>0, <2>1
    <3> QED
      BY <2>2, <2>3, <3>1, OtherCounters
  <2>5. Count(g, "file") /\ archive' = archive
    BY <1>5, <2>1 DEF ReferenceChunk
  <2> QED
    BY <2>4, <2>5 DEF Count, FileCount
<1>6. ASSUME NEW c \in Chunk, WriteChunk(c)
      PROVE  /\ archive' = Append(archive, ChunkRecord(c)) /\ ChunkRecord(c).tag = "CHNK"
             /\ pc' \in {"start", "walk", "file"} => FileCount' = FileCount
  <2>1. PICK f, g, h, n : /\ f = Add(stats, "chunk_references", 1) /\ g = Add(f, "unique_chunks", 1)
                          /\ n = ChunkRecord(c).payload /\ h = Add(g, "stored_bytes", n)
    OBVIOUS
  <2>2. f \in [CounterNames -> Nat] /\ f["files"] = stats["files"]
    BY <1>0, <2>1, OtherCounters
  <2>3. g \in [CounterNames -> Nat] /\ g["files"] = stats["files"]
    <3>1. "unique_chunks" \in CounterNames \ {"files"} /\ g = Add(f, "unique_chunks", 1)
      BY <1>0, <2>1
    <3> QED
      BY <2>2, <3>1, OtherCounters
  <2>4. n \in Nat
    BY <2>1, ChunkAssumption, BoundAssumption DEF ChunkRecord
  <2>5. h["files"] = stats["files"]
    <3>1. "stored_bytes" \in CounterNames \ {"files"} /\ h = Add(g, "stored_bytes", n)
      BY <1>0, <2>1
    <3> QED
      BY <2>3, <2>4, <3>1, OtherCounters
  <2>6. Count(h, "file") /\ archive' = Append(archive, ChunkRecord(c))
    BY <1>6, <2>1 DEF WriteChunk
  <2> QED
    BY <2>5, <2>6 DEF Count, FileCount, ChunkRecord
<1>7. ASSUME CloseFile
      PROVE  \E rec : /\ archive' = Append(archive, rec) /\ rec.tag = "FILE"
                      /\ pc' \in {"start", "walk", "file"} => FileCount' = FileCount + 1
  <2>1. PICK f, g, h, n : /\ f = Add(stats, "entries", 1) /\ g = Add(f, "files", 1)
                          /\ n = file.size /\ h = Add(g, "original_bytes", n)
    OBVIOUS
  <2>2. f \in [CounterNames -> Nat] /\ f["files"] = stats["files"]
    BY <1>0, <2>1, OtherCounters
  <2>3. g \in [CounterNames -> Nat] /\ g["files"] = stats["files"] + 1
    BY <1>0, <2>1, <2>2 DEF Add
  <2>4. n \in Nat
    BY <1>0, <2>1 DEF FileType
  <2>5. h["files"] = stats["files"] + 1
    <3>1. "original_bytes" \in CounterNames \ {"files"} /\ h = Add(g, "original_bytes", n)
      BY <1>0, <2>1
    <3> QED
      BY <2>3, <2>4, <3>1, OtherCounters
  <2>6. Count(h, "walk") /\ archive' = Append(archive, FileRecord(file.path, file.size, file.refs))
    BY <1>7, <2>1 DEF CloseFile
  <2>7. FileRecord(file.path, file.size, file.refs).tag = "FILE"
    BY DEF FileRecord
  <2>8. pc' \in {"start", "walk", "file"} => FileCount' = FileCount + 1
    BY <2>5, <2>6 DEF Count, FileCount
  <2> QED
    BY <2>6, <2>7, <2>8
<1>8. FooterRecord(stats).tag = "RGXF" /\ FooterRecord(stats).stats["files"] = FileCount
  BY DEF FooterRecord, FileCount
<1>9. CASE WriteFooter
  BY <1>8, <1>9 DEF WriteFooter
<1>10. CASE IoError
  <2>1. Torn.tag = "torn"
    BY DEF Torn
  <2>2. pc' = "failed" /\ \/ archive' = archive
                          \/ archive' = Append(archive, Torn)
                          \/ archive' = Append(archive, FooterRecord(stats))
    BY <1>10 DEF IoError
  <2> QED
    BY <1>8, <2>1, <2>2
<1> QED
  BY <1>1, <1>2, <1>3, <1>4, <1>5, <1>6, <1>7, <1>9, <1>10 DEF PackNext


\* A step of the writer, as the archive and the catalog see it.
LEMMA WriterGrows ==
  ASSUME DamageInv, DamageInv', Write
  PROVE  /\ damage = 0 /\ damage' = 0 /\ pc \notin {"ok", "failed"} /\ UNCHANGED readVars
         /\ packed = archive /\ packed' = archive' /\ TypeOK /\ PackNext
         /\ packed \in Seq(WrittenRecord) /\ (packed \in Seq(WrittenRecord))'
         /\ RecordsOf(packed, "RGXF") = {}
<1>1. PackNext /\ packed' = archive' /\ damage' = damage /\ UNCHANGED readVars
  BY DEF Write
<1>2. pc \notin {"ok", "failed"}
  BY <1>1 DEF PackNext, RefuseInput, WriteHeader, WalkDirectory, OpenFile, RefuseEntry, ReferenceChunk,
              WriteChunk, CloseFile, FileTooLarge, WriteFooter, IoError
<1>3. damage = 0 /\ TypeOK /\ packed = archive /\ FooterEnds
  BY <1>2 DEF DamageInv, WritingInv
<1>4. TypeOK'
  BY <1>1, <1>3, StepTypes
<1>5. packed \in Seq(WrittenRecord) /\ (packed \in Seq(WrittenRecord))'
  BY <1>1, <1>3, <1>4 DEF TypeOK
<1> QED
  BY <1>1, <1>2, <1>3, <1>5 DEF FooterEnds, RecordsOf

\* The writer's count of files is that of the archive, and so is the footer's.
LEMMA NumberedStep ==
  ASSUME DamageInv, DamageInv', Numbered, [RoundTripNext]_allVars
  PROVE  Numbered'
<1>1. ASSUME UNCHANGED packed, UNCHANGED packVars PROVE Numbered'
  <2>1. packed' = packed /\ pc' = pc /\ stats' = stats
    BY <1>1 DEF packVars
  <2>2. \A t : RecordsOf(packed', t) = RecordsOf(packed, t)
    BY <2>1
  <2>3. (packed \in Seq(WrittenRecord))'
    BY <2>1 DEF Numbered, WrittenRecord, Header, Torn, ChunkRecordType, DirectoryRecordType,
                FileRecordType, FooterType, Path
  <2> QED
    BY <2>1, <2>2, <2>3 DEF Numbered
<1>2. CASE Write
  <2>0. /\ packed \in Seq(WrittenRecord) /\ (packed \in Seq(WrittenRecord))'
        /\ packed = archive /\ packed' = archive' /\ RecordsOf(packed, "RGXF") = {}
        /\ pc \in {"start", "walk", "file"} /\ PackNext /\ TypeOK
    BY <1>2, WriterGrows, PackAppends
  <2>1. FileCount = Cardinality(RecordsOf(packed, "FILE"))
    BY <2>0 DEF Numbered, FileCount
  <2>2. PICK c, u : c = Cardinality(RecordsOf(packed', "FILE")) /\ u = packed'
    OBVIOUS
  <2>3. ASSUME pc' \in {"start", "walk", "file"} => FileCount' = c,
               \A i \in RecordsOf(u, "RGXF") : u[i].stats["files"] = c
        PROVE  Numbered'
    <3>1. RecordsOf(packed, "RGXF")' = RecordsOf(u, "RGXF") /\ RecordsOf(packed, "FILE")' = RecordsOf(u, "FILE")
      BY <2>2 DEF RecordsOf
    <3> QED
      BY <2>0, <2>2, <2>3, <3>1 DEF Numbered, FileCount
  <2>4. CASE archive' = archive /\ (pc' \in {"start", "walk", "file"} => FileCount' = FileCount)
    BY <2>0, <2>1, <2>2, <2>3, <2>4
  <2>5. ASSUME NEW rec, archive' = Append(archive, rec),
               \/ /\ rec.tag \notin {"FILE", "RGXF"}
                  /\ pc' \in {"start", "walk", "file"} => FileCount' = FileCount
               \/ /\ rec.tag = "FILE"
                  /\ pc' \in {"start", "walk", "file"} => FileCount' = FileCount + 1
               \/ /\ rec.tag = "RGXF" /\ rec.stats["files"] = FileCount
                  /\ pc' \notin {"start", "walk", "file"}
        PROVE  Numbered'
    <3>1. u = Append(packed, rec)
      BY <2>0, <2>2, <2>5
    <3>a. packed \in Seq(WrittenRecord)
      BY <2>0
    <3>b. ASSUME NEW t
          PROVE  /\ rec.tag # t => RecordsOf(u, t) = RecordsOf(packed, t)
                 /\ rec.tag = t => /\ RecordsOf(u, t) = RecordsOf(packed, t) \union {Len(packed) + 1}
                                   /\ Cardinality(RecordsOf(u, t)) = Cardinality(RecordsOf(packed, t)) + 1
                 /\ u[Len(packed) + 1] = rec
      <4>1. /\ DOMAIN u = 1..(Len(packed) + 1) /\ \A i \in 1..Len(packed) : u[i] = packed[i]
            /\ u[Len(packed) + 1] = rec
        BY <3>1, <3>a
      <4> QED
        BY <3>a, <4>1, AppendRecords
    <3>c. c = Cardinality(RecordsOf(u, "FILE"))
      BY <2>2
    <3>2. rec.tag # "FILE" => c = FileCount
      BY <2>1, <3>b, <3>c
    <3>3. rec.tag = "FILE" => c = FileCount + 1
      BY <2>1, <3>b, <3>c
    <3>4. rec.tag # "RGXF" => RecordsOf(u, "RGXF") = {}
      BY <2>0, <3>b
    <3>5. rec.tag = "RGXF" => RecordsOf(u, "RGXF") = {Len(packed) + 1} /\ u[Len(packed) + 1] = rec
      BY <2>0, <3>b
    <3>6. \A i \in RecordsOf(u, "RGXF") : u[i].stats["files"] = c
      BY <2>5, <3>2, <3>4, <3>5
    <3>7. pc' \in {"start", "walk", "file"} => FileCount' = c
      BY <2>5, <3>2, <3>3
    <3> QED
      BY <2>3, <3>6, <3>7
  <2> QED
    BY <2>0, <2>4, <2>5, PackCounts
<1>3. CASE Read
  BY <1>1, <1>3 DEF Read
<1>4. CASE Damage
  BY <1>1, <1>4 DEF Damage, RotRecord, LoseRecord, LoseTail, GrowTail, Strike
<1>5. CASE UNCHANGED allVars
  BY <1>1, <1>5 DEF allVars
<1> QED
  BY <1>2, <1>3, <1>4, <1>5 DEF RoundTripNext

\* What was told of the first records stays, whatever is added behind them.
LEMMA ToldGrows ==
  ASSUME packed \in Seq(WrittenRecord), fileList' = fileList,
         packed' = packed \/ \E rec : packed' = Append(packed, rec),
         NEW n \in Nat, n <= Len(packed), Told(n, {})
  PROVE  Told(n, {})' /\ Len(packed') >= Len(packed)
<1>1. /\ \A i \in 1..Len(packed) : i \in DOMAIN packed' /\ packed'[i] = packed[i]
      /\ Len(packed') >= Len(packed) /\ Len(packed) \in Nat /\ DOMAIN packed = 1..Len(packed)
  <2>1. CASE packed' = packed
    BY <2>1
  <2>2. ASSUME NEW rec, packed' = Append(packed, rec)
        PROVE  /\ \A i \in 1..Len(packed) : i \in DOMAIN packed' /\ packed'[i] = packed[i]
               /\ Len(packed') >= Len(packed) /\ Len(packed) \in Nat /\ DOMAIN packed = 1..Len(packed)
    BY <2>2
  <2> QED
    BY <2>1, <2>2
<1>2. PackedFiles(n)' = PackedFiles(n)
  <2>1. packed' = packed \/ DOMAIN packed' = 1..(Len(packed) + 1)
    <3>1. ASSUME NEW rec, packed' = Append(packed, rec) PROVE DOMAIN packed' = 1..(Len(packed) + 1)
      BY <3>1
    <3> QED
      BY <3>1
  <2>2. \A i \in DOMAIN packed' : i <= n => i \in 1..Len(packed)
    BY <1>1, <2>1
  <2>3. PackedFiles(n)' = {i \in RecordsOf(packed', "FILE") : i <= n}
    BY DEF PackedFiles, RecordsOf
  <2> QED
    BY <1>1, <2>2, <2>3 DEF PackedFiles, RecordsOf
<1>3. \A i \in PackedFiles(n) : packed'[i] = packed[i]
  BY <1>1 DEF PackedFiles, RecordsOf
<1>4. Range(fileList)' = Range(fileList)
  BY DEF Range
<1> QED
  BY <1>1, <1>2, <1>3, <1>4 DEF Told

\* The writer goes on, and the scan has missed nothing.
LEMMA WriteUnharmed ==
  ASSUME DamageInv, DamageInv', Unharmed, Counting, Write
  PROVE  Unharmed'
<1>0. /\ packed \in Seq(WrittenRecord) /\ packed = archive /\ packed' = archive' /\ TypeOK /\ PackNext
      /\ pc \notin {"ok", "failed"} /\ fileList' = fileList /\ pos' = pos /\ verdict' = verdict
  BY WriterGrows DEF readVars, scanVars
<1>1. packed' = packed \/ \E rec : packed' = Append(packed, rec)
  BY <1>0, PackAppends
<1>2. verdict # "accepted"
  BY <1>0 DEF Unharmed
<1>3. ASSUME verdict = "none" PROVE (Told(pos - 1, {}) /\ pos <= Len(packed) + 1)'
  <2>1. PICK m \in Nat : m = pos - 1 /\ m + 1 = pos
    BY DEF Counting
  <2>2. Told(m, {}) /\ m <= Len(packed) /\ Len(packed) \in Nat
    BY <1>0, <1>3, <2>1 DEF Unharmed
  <2>3. Told(m, {})' /\ Len(packed') >= Len(packed)
    BY <1>0, <1>1, <2>2, ToldGrows
  <2>4. Len(packed') \in Nat
    BY <1>0, <1>1
  <2> QED
    BY <1>0, <2>1, <2>2, <2>3, <2>4 DEF Told
<1> QED
  BY <1>0, <1>2, <1>3 DEF Unharmed

\* Unharmed, the scan is in step.
LEMMA UnharmedInStep == DamageInv /\ damage = 0 /\ Unharmed /\ verdict = "none" => Accounted
<1> SUFFICES ASSUME DamageInv, damage = 0, Unharmed, verdict = "none" PROVE Accounted
  OBVIOUS
<1>1. packed = archive
  BY DEF DamageInv, WritingInv
<1>2. InStep
  BY <1>1, ResemblesItself DEF Unharmed, InStep
<1> QED
  BY <1>2 DEF Accounted


\* A step of the scan that takes a record of the body, or the header.
ScanGoesOn == ReadHeader \/ ScanChunk \/ ScanDirectory \/ ScanFile

\* The scan takes a record: one of a file goes into the catalog.
LEMMA ScanGains ==
  ASSUME archive \in Seq(StoredRecord), ScanGoesOn
  PROVE  /\ rpc = "scan" /\ rpc' = "scan" /\ pos \in DOMAIN archive /\ pos' = pos + 1
         /\ verdict' = verdict /\ UNCHANGED <<op, fileVars, outcome>>
         /\ \/ /\ archive[pos].tag = "FILE" /\ archive[pos] \in FileStored
               /\ fileList' = Append(fileList, archive[pos]) /\ tally' = FileTally(archive[pos])
            \/ /\ archive[pos].tag \notin {"FILE", "torn"} /\ fileList' = fileList
               /\ \/ tally' = tally \/ tally' = DirectoryTally
                  \/ archive[pos] \in ChunkStored /\ tally' = ChunkTally(archive[pos])
<1>1. CASE ReadHeader
  <2>1. Header.tag = "RGX"
    BY DEF Header
  <2> QED
    BY <1>1, <2>1 DEF ReadHeader, Advance, scanVars
<1>2. CASE ScanChunk
  <2>1. archive[pos].tag = "CHNK" /\ pos \in DOMAIN archive
    BY <1>2 DEF ScanChunk, ChunkAccepted, Advance
  <2>2. archive[pos] \in ChunkStored
    BY <2>1, StoredAt
  <2> QED
    BY <1>2, <2>1, <2>2 DEF ScanChunk, Advance
<1>3. CASE ScanDirectory
  BY <1>3 DEF ScanDirectory, DirectoryAccepted, Advance
<1>4. CASE ScanFile
  <2>1. archive[pos].tag = "FILE" /\ pos \in DOMAIN archive
    BY <1>4 DEF ScanFile, FileAccepted, Advance
  <2>2. archive[pos] \in FileStored
    BY <2>1, StoredAt
  <2> QED
    BY <1>4, <2>1, <2>2 DEF ScanFile, Advance
<1> QED
  BY <1>1, <1>2, <1>3, <1>4 DEF ScanGoesOn

\* Any other step leaves the catalog alone.
LEMMA ReadRests ==
  ASSUME ReadNext, ~ScanGoesOn
  PROVE  /\ UNCHANGED scanVars
         /\ \/ ScanFooter
            \/ /\ pos' = pos
               /\ \/ /\ rpc' = "done" /\ outcome' = "error"
                     /\ verdict' = verdict \/ (verdict' = "rejected" /\ rpc = "scan")
                  \/ /\ verdict' = verdict
                     /\ \/ rpc = "idle" /\ rpc' = "scan" /\ outcome' = outcome
                        \/ rpc \in {"plan", "files", "mkdir"} /\ rpc' \in {"mkdir", "files"} /\ outcome' = outcome
                        \/ rpc \in {"plan", "files"} /\ rpc' = "done" /\ outcome' = "ok"
<1>1. ASSUME NEW o \in Operations, Open(o)
      PROVE  /\ UNCHANGED scanVars /\ pos' = pos /\ verdict' = verdict
             /\ \/ rpc' = "done" /\ outcome' = "error"
                \/ rpc = "idle" /\ rpc' = "scan" /\ outcome' = outcome
  BY <1>1 DEF Open
<1>2. CASE ScanFooter
  BY <1>2 DEF ScanFooter
<1>3. CASE ScanRejects
  BY <1>3 DEF ScanRejects, Fail
<1>4. CASE NotFound \/ ChunkDamaged \/ FileDamaged \/ ReadError
  BY <1>4 DEF NotFound, ChunkDamaged, FileDamaged, ReadError, Fail
<1>5. CASE ReportInfo \/ ReportFiles
  BY <1>5 DEF ReportInfo, ReportFiles, Succeed
<1>6. CASE PlanFiles \/ MakeDestination \/ MakeDirectories
  BY <1>6 DEF PlanFiles, MakeDestination, MakeDirectories
<1>7. CASE StartEntry \/ ReadChunk \/ FinishEntry
  BY <1>7 DEF StartEntry, ReadChunk, FinishEntry, Rebuilding
<1> QED
  BY <1>1, <1>2, <1>3, <1>4, <1>5, <1>6, <1>7 DEF ReadNext, ScanStep, PlanStep, FileStep, ScanGoesOn

\* The scan counts the files of its catalog.
LEMMA CountingStep ==
  ASSUME DamageInv, Counting, [RoundTripNext]_allVars
  PROVE  Counting'
<1>0. archive \in Seq(StoredRecord) /\ fileList \in Seq(FileStored) /\ TallyNames' = TallyNames
  BY DEF DamageInv, Faithfully, HoldsOnly, Files, TallyNames, CounterNames
<1>1. ASSUME UNCHANGED readVars PROVE Counting'
  <2>1. rpc' = rpc /\ pos' = pos /\ tally' = tally /\ fileList' = fileList /\ verdict' = verdict
        /\ outcome' = outcome
    BY <1>1 DEF readVars, scanVars
  <2> QED
    BY <1>0, <2>1 DEF Counting
<1>2. ASSUME ReadNext, ScanGoesOn PROVE Counting'
  <2>1. "files" \in TallyNames
    BY TallyNamesAre
  <2>2. /\ rpc = "scan" /\ rpc' = "scan" /\ pos' = pos + 1 /\ verdict' = verdict /\ outcome' = outcome
        /\ \/ /\ archive[pos].tag = "FILE" /\ archive[pos] \in FileStored
              /\ fileList' = Append(fileList, archive[pos]) /\ tally' = FileTally(archive[pos])
           \/ /\ archive[pos].tag \notin {"FILE", "torn"} /\ fileList' = fileList
              /\ \/ tally' = tally \/ tally' = DirectoryTally
                 \/ archive[pos] \in ChunkStored /\ tally' = ChunkTally(archive[pos])
    BY <1>0, <1>2, ScanGains
  <2>3. PICK t, r, u : t = tally /\ r = archive[pos] /\ u = tally'
    OBVIOUS
  <2>4. t \in [TallyNames -> Nat] /\ t["files"] = Len(fileList)
    BY <2>3 DEF Counting
  <2>5. ASSUME u \in [TallyNames -> Nat], u["files"] = Len(fileList') PROVE Counting'
    BY <1>0, <2>2, <2>3, <2>5 DEF Counting
  <2>6. CASE r \in FileStored /\ fileList' = Append(fileList, r) /\ tally' = FileTally(r)
    <3>1. r.size \in Nat /\ r.refs \in Seq(Bytes)
      BY <2>6 DEF FileStored
    <3>2. Len(r.refs) \in Nat
      BY <3>1
    <3>3. u = Add(Add(Add(Add(Add(t, "entries", 1), "files", 1), "original_bytes", r.size),
                          "chunk_references", Len(r.refs)), "referenced_logical", r.size)
      BY <2>3, <2>6 DEF FileTally
    <3>4. FileCounted(t, r.size, Len(r.refs), u)
      BY <2>4, <3>1, <3>2, <3>3, FileTallied
    <3>5. u \in [TallyNames -> Nat] /\ u["files"] = t["files"] + 1
      BY <3>4 DEF FileCounted
    <3>6. Len(fileList') = Len(fileList) + 1
      BY <1>0, <2>6
    <3> QED
      BY <2>4, <2>5, <3>5, <3>6
  <2>7. CASE fileList' = fileList /\ tally' = tally
    BY <2>3, <2>4, <2>5, <2>7
  <2>8. CASE fileList' = fileList /\ tally' = DirectoryTally
    <3>1. PICK f : f = Add(t, "entries", 1)
      OBVIOUS
    <3>2. u = Add(f, "directories", 1)
      BY <2>3, <2>8, <3>1 DEF DirectoryTally
    <3>3. f \in [TallyNames -> Nat] /\ f["files"] = t["files"]
      BY <2>4, <3>1, TallyNamesAre DEF Add
    <3>4. u \in [TallyNames -> Nat] /\ u["files"] = f["files"]
      BY <3>2, <3>3, TallyNamesAre DEF Add
    <3> QED
      BY <2>4, <2>5, <2>8, <3>3, <3>4
  <2>9. CASE fileList' = fileList /\ r \in ChunkStored /\ tally' = ChunkTally(r)
    <3>1. r.payload \in Nat
      BY <2>9 DEF ChunkStored
    <3>2. u = Add(t, "stored_bytes", r.payload)
      BY <2>3, <2>9 DEF ChunkTally
    <3>3. ChunkCounted(t, r.payload, u)
      BY <2>4, <3>1, <3>2, ChunkTallied
    <3>4. u \in [TallyNames -> Nat] /\ u["files"] = t["files"]
      BY <2>1, <3>3 DEF ChunkCounted
    <3> QED
      BY <2>4, <2>5, <2>9, <3>4
  <2> QED
    BY <2>2, <2>3, <2>6, <2>7, <2>8, <2>9
<1>3. ASSUME ReadNext, ~ScanGoesOn PROVE Counting'
  <2>1. fileList' = fileList /\ tally' = tally
    BY <1>3, ReadRests DEF scanVars
  <2>2. CASE ScanFooter
    <3>1. pos' = pos + 1 /\ verdict' = "accepted" /\ rpc' = "plan" /\ outcome' = outcome
      BY <2>2 DEF ScanFooter, Advance
    <3> QED
      BY <1>0, <2>1, <3>1 DEF Counting
  <2>3. CASE ~ScanFooter
    <3>1. /\ pos' = pos
          /\ \/ /\ rpc' = "done" /\ outcome' = "error"
                /\ verdict' = verdict \/ (verdict' = "rejected" /\ rpc = "scan")
             \/ /\ verdict' = verdict
                /\ \/ rpc = "idle" /\ rpc' = "scan" /\ outcome' = outcome
                   \/ rpc \in {"plan", "files", "mkdir"} /\ rpc' \in {"mkdir", "files"} /\ outcome' = outcome
                   \/ rpc \in {"plan", "files"} /\ rpc' = "done" /\ outcome' = "ok"
      BY <1>3, <2>3, ReadRests
    <3> QED
      BY <1>0, <2>1, <3>1 DEF Counting
  <2> QED
    BY <2>2, <2>3
<1> QED
  BY <1>1, <1>2, <1>3 DEF RoundTripNext, Read, Write, Damage, RotRecord, LoseRecord, LoseTail, GrowTail,
                          Strike, allVars


\* Where neither the archive nor the scan moves, nothing that is told changes.
LEMMA AccountedStays ==
  ASSUME UNCHANGED <<archive, packed, fileList, pos>>, verdict' \in {verdict, "rejected"}, Accounted
  PROVE  Accounted'
<1>0. archive' = archive /\ packed' = packed /\ fileList' = fileList /\ pos' = pos
  OBVIOUS
<1>1. \A n, L : Told(n, L)' <=> Told(n, L)
  BY <1>0, ToldStays
<1>2. PICK m, n : m = pos - 1 /\ n = Len(packed)
  OBVIOUS
<1>3. /\ InStep => InStep'
      /\ LossAhead => LossAhead'
      /\ Endless => Endless'
  BY <1>0, <1>1, <1>2 DEF InStep, LossAhead, Endless, Resembles
<1>4. LossBehind => LossBehind'
  BY <1>0, <1>1 DEF LossBehind
<1>5. Told(Len(packed), {}) => Told(Len(packed), {})'
  <2>1. Told(n, {}) => Told(n, {})'
    BY <1>1
  <2> QED
    BY <1>0, <1>2, <2>1 DEF Told
<1> QED
  BY <1>0, <1>3, <1>4, <1>5 DEF Accounted

\* Nor does what holds before any fault, if the writer rests, too.
LEMMA UnharmedStays ==
  ASSUME UNCHANGED <<packed, fileList, pos, pc>>, verdict' \in {verdict, "rejected"}, Unharmed
  PROVE  Unharmed'
<1>0. packed' = packed /\ fileList' = fileList /\ pos' = pos /\ pc' = pc
  OBVIOUS
<1>1. \A n, L : Told(n, L)' <=> Told(n, L)
  BY <1>0, ToldStays
<1>2. PICK m : m = pos - 1
  OBVIOUS
<1>3. Told(m, {}) => Told(m, {})'
  BY <1>1
<1> QED
  BY <1>0, <1>2, <1>3 DEF Unharmed, Told

\* A step of the reader leaves the catalog able to tell.
LEMMA ReadAccounts ==
  ASSUME DamageInv, Numbered, Counting, Accounted, ReadNext, UNCHANGED <<archive, packed>>
  PROVE  Accounted'
<1>0. archive \in Seq(StoredRecord) /\ fileList \in Seq(FileStored) /\ archive' = archive /\ packed' = packed
  BY DEF DamageInv, Faithfully, HoldsOnly, Files
<1>1. CASE ScanGoesOn
  <2>1. /\ rpc = "scan" /\ pos \in DOMAIN archive /\ pos' = pos + 1 /\ verdict' = verdict
        /\ \/ archive[pos].tag = "FILE" /\ fileList' = Append(fileList, archive[pos])
           \/ archive[pos].tag \notin {"FILE", "torn"} /\ fileList' = fileList
    BY <1>0, <1>1, ScanGains
  <2>2. verdict = "none" /\ verdict' = "none"
    BY <2>1 DEF Counting
  <2> QED
    BY <1>0, <2>1, <2>2, RecordAccounts
<1>2. CASE ScanFooter
  <2>1. verdict = "none" /\ verdict' = "accepted" /\ fileList' = fileList
    BY <1>2 DEF ScanFooter, Advance, Counting, scanVars
  <2>2. Told(Len(packed), {})
    BY <1>0, <1>2, <2>1, FooterAccounts
  <2>3. PICK n : n = Len(packed)
    OBVIOUS
  <2>4. Told(n, {})' /\ n = Len(packed')
    BY <1>0, <2>1, <2>2, <2>3, ToldStays
  <2> QED
    BY <2>1, <2>4 DEF Accounted, Told
<1>3. CASE ~ScanGoesOn /\ ~ScanFooter
  <2>1. pos' = pos /\ fileList' = fileList /\ verdict' \in {verdict, "rejected"}
    BY <1>3, ReadRests DEF scanVars
  <2> QED
    BY <1>0, <2>1, AccountedStays
<1> QED
  BY <1>1, <1>2, <1>3

\* Before any fault, the scan goes along the records that were packed.
LEMMA ReadUnharmed ==
  ASSUME DamageInv, Counting, damage = 0, Unharmed, ReadNext, UNCHANGED <<archive, packed, pc>>
  PROVE  Unharmed'
<1>0. /\ archive \in Seq(StoredRecord) /\ fileList \in Seq(FileStored)
      /\ archive' = archive /\ packed' = packed /\ packed = archive /\ pc' = pc
      /\ packed \in Seq(WrittenRecord) /\ FooterEnds
  BY DEF DamageInv, WritingInv, TypeOK, Faithfully, HoldsOnly, Files
<1>1. CASE ScanGoesOn
  <2>1. /\ rpc = "scan" /\ pos \in DOMAIN archive /\ pos' = pos + 1 /\ verdict' = verdict
        /\ \/ /\ archive[pos].tag = "FILE" /\ archive[pos] \in FileStored
              /\ fileList' = Append(fileList, archive[pos])
           \/ archive[pos].tag \notin {"FILE", "torn"} /\ fileList' = fileList
    BY <1>0, <1>1, ScanGains
  <2>2. verdict = "none" /\ verdict' = "none"
    BY <2>1 DEF Counting
  <2>3. PICK m, r : m \in Nat /\ m + 1 = pos /\ m = pos - 1 /\ r = archive[pos]
    BY DEF Counting
  <2>4. Told(m, {}) /\ m + 1 \in DOMAIN packed /\ Resembles(r, packed[m + 1])
    BY <1>0, <2>1, <2>2, <2>3, ResemblesItself DEF Unharmed
  <2>5. \/ r.tag = "FILE" /\ r \in FileStored /\ fileList' = Append(fileList, r)
        \/ r.tag \notin {"FILE", "torn"} /\ fileList' = fileList
    BY <2>1, <2>3
  <2>6. Told(m + 1, {})'
    BY <1>0, <2>3, <2>4, <2>5, ToldNext
  <2>7. pos' - 1 = m + 1 /\ pos' <= Len(packed) + 1
    BY <1>0, <2>1, <2>3
  <2> QED
    BY <1>0, <2>2, <2>6, <2>7 DEF Unharmed, Told
<1>2. CASE ScanFooter
  <2>1. verdict' = "accepted" /\ pos \in DOMAIN archive /\ archive[pos].tag = "RGXF"
    BY <1>2 DEF ScanFooter, Advance, FooterAccepted
  <2> QED
    BY <1>0, <2>1 DEF Unharmed, FooterEnds
<1>3. CASE ~ScanGoesOn /\ ~ScanFooter
  <2>1. pos' = pos /\ fileList' = fileList /\ verdict' \in {verdict, "rejected"}
    BY <1>3, ReadRests DEF scanVars
  <2> QED
    BY <1>0, <2>1, UnharmedStays
<1> QED
  BY <1>1, <1>2, <1>3


\* Nothing of what has been recovered changes.
LEMMA RecoveringStays ==
  ASSUME Recovering, UNCHANGED <<fileList, op, work, current>>, dest'.files = dest.files,
         current # NoEntry => content' = content
  PROVE  Recovering'
<1>1. /\ fileList' = fileList /\ op' = op /\ work' = work /\ current' = current
      /\ NoEntry' = NoEntry /\ Range(fileList)' = Range(fileList) /\ Range(work)' = Range(work)
      /\ \A p : Wanted(p)' <=> Wanted(p)
  BY DEF NoEntry, Range, Wanted, IsAncestor
<1> QED
  BY <1>1 DEF Recovering

\* The next file is begun, in nobody's place.
LEMMA RecoveringStarts ==
  ASSUME NEW C, HoldsOnly(C), Recovering, Range(work) \subseteq Range(fileList), StartEntry,
         op.kind = "extract"
  PROVE  Recovering' /\ (Range(work) \subseteq Range(fileList))'
<1>0. /\ fileList' = fileList /\ op' = op /\ work # <<>> /\ work' = Tail(work)
      /\ current = NoEntry /\ current' = Head(work) /\ content' = <<>> /\ NoEntry' = NoEntry
      /\ TargetFree(Head(work).path)
      /\ dest' = [dest EXCEPT !.dirs = @ \union WithParents(Parent(Head(work).path)),
                              !.files = PutFile(Head(work).path, <<>>)]
  BY DEF StartEntry, scanVars, NoEntry
<1>1. PICK g, w, fs, x : g = Head(work) /\ w = Tail(work) /\ fs = PutFile(g.path, x) /\ x = <<>>
  OBVIOUS
<1>2. g \in FileStored /\ Range(work) = Range(w) \union {g} /\ g # NoEntry
  <2>1. g \in FileStored /\ Range(work) = Range(w) \union {g}
    BY <1>0, <1>1, HeadOfFiles DEF HoldsOnly
  <2> QED
    BY <2>1 DEF FileStored, NoEntry
<1>3. dest'.files = fs
  <2>1. PICK ds : ds = dest.dirs \union WithParents(Parent(g.path))
    OBVIOUS
  <2>2. dest' = [made |-> dest.made, dirs |-> ds, files |-> fs]
    BY <1>0, <1>1, <2>1 DEF HoldsOnly
  <2> QED
    BY <2>2
<1>4. /\ DOMAIN fs = DOMAIN dest.files \union {g.path} /\ fs[g.path] = x
      /\ \A q \in DOMAIN dest.files : q # g.path => fs[q] = dest.files[q]
  <2>1. PICK p : p = g.path
    OBVIOUS
  <2>2. fs = PutFile(p, x)
    BY <1>1, <2>1
  <2> QED
    BY <2>1, <2>2 DEF PutFile
<1>5. g.path \notin DOMAIN dest.files /\ g \in Range(fileList)
  BY <1>0, <1>1, <1>2 DEF TargetFree
<1>6. /\ Range(fileList)' = Range(fileList) /\ Range(work)' = Range(w) /\ \A p : Wanted(p)' <=> Wanted(p)
      /\ current' = g /\ content' = x
  BY <1>0, <1>1 DEF Range, Wanted, IsAncestor
<1>7. (current # NoEntry => /\ current \in Range(fileList) /\ current.path \in DOMAIN dest.files
                            /\ dest.files[current.path] = content)'
  BY <1>3, <1>4, <1>5, <1>6
<1>8. (\A p \in DOMAIN dest.files : \E f \in Range(fileList) : f.path = p)'
  BY <1>3, <1>4, <1>5, <1>6 DEF Recovering
<1>9. (\A f \in Range(fileList) : Wanted(f.path) =>
         \/ f \in Range(work) \/ f = current
         \/ f.path \in DOMAIN dest.files /\ dest.files[f.path] = f.hash)'
  <2> SUFFICES ASSUME NEW f \in Range(fileList), Wanted(f.path)
               PROVE  \/ f \in Range(w) \/ f = g
                      \/ f.path \in DOMAIN fs /\ fs[f.path] = f.hash
    BY <1>3, <1>6
  <2>1. f # NoEntry
    <3>1. f \in FileStored
      BY DEF HoldsOnly, Files, Range
    <3> QED
      BY <3>1 DEF FileStored, NoEntry
  <2>2. f \in Range(work) \/ (f.path \in DOMAIN dest.files /\ dest.files[f.path] = f.hash)
    BY <1>0, <2>1 DEF Recovering
  <2> QED
    BY <1>2, <1>4, <1>5, <2>2
<1>10. (Range(work) \subseteq Range(fileList))'
  BY <1>2, <1>6
<1> QED
  BY <1>7, <1>8, <1>9, <1>10 DEF Recovering

\* A chunk more of the file at hand, which has its path for itself.
LEMMA RecoveringReads ==
  ASSUME NEW C, HoldsOnly(C), Recovering, ReadChunk, op.kind = "extract"
  PROVE  Recovering'
<1>0. /\ fileList' = fileList /\ op' = op /\ work' = work /\ current' = current /\ current # NoEntry
      /\ NoEntry' = NoEntry /\ dest' = [dest EXCEPT !.files = PutFile(current.path, content')]
  BY DEF ReadChunk, Rebuilding, scanVars, NoEntry
<1>1. PICK x, p, fs : x = content' /\ p = current.path /\ fs = PutFile(p, x)
  OBVIOUS
<1>2. dest'.files = fs
  <2>1. dest' = [made |-> dest.made, dirs |-> dest.dirs, files |-> fs]
    BY <1>0, <1>1 DEF HoldsOnly
  <2> QED
    BY <2>1
<1>3. current \in Range(fileList) /\ p \in DOMAIN dest.files
  BY <1>0, <1>1 DEF Recovering
<1>4. /\ DOMAIN fs = DOMAIN dest.files /\ fs[p] = x
      /\ \A q \in DOMAIN dest.files : q # p => fs[q] = dest.files[q]
  BY <1>1, <1>3 DEF PutFile
<1>5. /\ Range(fileList)' = Range(fileList) /\ Range(work)' = Range(work)
      /\ \A q : Wanted(q)' <=> Wanted(q)
  BY <1>0 DEF Range, Wanted, IsAncestor
<1>6. (\A f \in Range(fileList) : Wanted(f.path) =>
         \/ f \in Range(work) \/ f = current
         \/ f.path \in DOMAIN dest.files /\ dest.files[f.path] = f.hash)'
  <2> SUFFICES ASSUME NEW f \in Range(fileList), Wanted(f.path)
               PROVE  \/ f \in Range(work) \/ f = current
                      \/ f.path \in DOMAIN fs /\ fs[f.path] = f.hash
    BY <1>0, <1>2, <1>5
  <2>1. CASE f.path = p
    BY <1>1, <1>3, <2>1, OneOfAPath DEF HoldsOnly
  <2>2. CASE f.path # p
    BY <1>4, <2>2 DEF Recovering
  <2> QED
    BY <2>1, <2>2
<1>7. (/\ current # NoEntry => /\ current \in Range(fileList) /\ current.path \in DOMAIN dest.files
                               /\ dest.files[current.path] = content
       /\ \A q \in DOMAIN dest.files : \E f \in Range(fileList) : f.path = q)'
  BY <1>0, <1>1, <1>2, <1>3, <1>4, <1>5 DEF Recovering
<1> QED
  BY <1>6, <1>7 DEF Recovering

\* The file at hand is whole: it has its digest.
LEMMA RecoveringFinishes ==
  ASSUME Recovering, FinishEntry
  PROVE  Recovering'
<1>1. /\ fileList' = fileList /\ op' = op /\ work' = work /\ current' = NoEntry /\ dest' = dest
      /\ NoEntry' = NoEntry /\ current # NoEntry /\ content = current.hash
  BY DEF FinishEntry, FileIntact, Rebuilding, scanVars, NoEntry
<1>2. /\ Range(fileList)' = Range(fileList) /\ Range(work)' = Range(work)
      /\ \A q : Wanted(q)' <=> Wanted(q)
  BY <1>1 DEF Range, Wanted, IsAncestor
<1> QED
  BY <1>1, <1>2 DEF Recovering

\* An extraction leaves no wanted file of its catalog behind.
LEMMA RecoveredStep ==
  ASSUME DamageInv, Recovered, [RoundTripNext]_allVars
  PROVE  Recovered'
<1>0. PICK C : HoldsOnly(C) /\ HandsOut(C)
  BY DEF DamageInv, Faithfully
<1>1. ASSUME UNCHANGED readVars PROVE Recovered'
  <2>1. /\ rpc' = rpc /\ op' = op /\ outcome' = outcome /\ fileList' = fileList /\ work' = work
        /\ current' = current /\ content' = content /\ dest' = dest /\ NoEntry' = NoEntry
        /\ Range(fileList)' = Range(fileList) /\ Range(work)' = Range(work)
        /\ \A p : Wanted(p)' <=> Wanted(p)
    BY <1>1 DEF readVars, scanVars, fileVars, NoEntry, Range, Wanted, IsAncestor
  <2>2. Recovering => Recovering'
    BY <2>1, RecoveringStays
  <2> QED
    BY <2>1, <2>2 DEF Recovered, UnderWay
<1>2. CASE Fail
  BY <1>2 DEF Fail, Recovered, UnderWay
<1>3. ASSUME NEW o \in Operations, Open(o) PROVE Recovered'
  <2>1. /\ rpc = "idle" /\ rpc' \in {"done", "scan"} /\ current' = current /\ NoEntry' = NoEntry
        /\ outcome' = "error" \/ outcome' = outcome
    BY <1>3 DEF Open, fileVars, NoEntry
  <2> QED
    BY <1>0, <2>1 DEF Recovered, UnderWay, HandsOut
<1>4. CASE ReadHeader \/ ScanChunk \/ ScanDirectory \/ ScanFile \/ ScanFooter
  <2>1. /\ rpc = "scan" /\ rpc' \in {"scan", "plan"} /\ current' = current /\ outcome' = outcome
        /\ NoEntry' = NoEntry
    BY <1>4 DEF ReadHeader, ScanChunk, ScanDirectory, ScanFile, ScanFooter, Advance, fileVars, NoEntry
  <2> QED
    BY <1>0, <2>1 DEF Recovered, UnderWay, HandsOut
<1>5. CASE ReportInfo \/ PlanFiles
  BY <1>5 DEF ReportInfo, PlanFiles, Succeed, Recovered
<1>6. CASE MakeDestination
  <2>1. /\ rpc = "plan" /\ rpc' = "mkdir" /\ work' = WantedFiles /\ current' = current
        /\ outcome' = outcome /\ fileList' = fileList /\ op' = op /\ NoEntry' = NoEntry
        /\ dest' = [NoDest EXCEPT !.made = TRUE]
    BY <1>6 DEF MakeDestination, scanVars, NoEntry
  <2>2. dest'.files = <<>>
    BY <2>1 DEF NoDest
  <2>3. Range(WantedFiles) = {f \in Range(fileList) : Wanted(f.path)}
    BY <1>0, WantedFilesAre DEF HoldsOnly
  <2>4. /\ Range(fileList)' = Range(fileList) /\ \A p : Wanted(p)' <=> Wanted(p)
        /\ Range(work)' = Range(WantedFiles)
    BY <2>1 DEF Range, Wanted, IsAncestor
  <2> QED
    BY <1>0, <2>1, <2>2, <2>3, <2>4 DEF Recovered, UnderWay, HandsOut
<1>7. CASE MakeDirectories
  <2>1. /\ rpc = "mkdir" /\ rpc' = "files" /\ outcome' = outcome /\ fileList' = fileList /\ op' = op
        /\ work' = work /\ current' = current /\ NoEntry' = NoEntry
        /\ dest' = [dest EXCEPT !.dirs = UNION {WithParents(d) : d \in {e \in dirSet : Wanted(e)}}]
    BY <1>7 DEF MakeDirectories, scanVars, NoEntry
  <2>2. dest'.files = dest.files
    <3>1. PICK ds : ds = UNION {WithParents(d) : d \in {e \in dirSet : Wanted(e)}}
      OBVIOUS
    <3>2. dest' = [made |-> dest.made, dirs |-> ds, files |-> dest.files]
      BY <1>0, <2>1, <3>1 DEF HoldsOnly
    <3> QED
      BY <3>2
  <2>3. /\ current = NoEntry /\ dest.files = <<>> /\ Range(work) \subseteq Range(fileList)
        /\ \A f \in Range(fileList) : Wanted(f.path) => f \in Range(work)
    BY <2>1 DEF Recovered
  <2>4. /\ Range(fileList)' = Range(fileList) /\ \A p : Wanted(p)' <=> Wanted(p)
        /\ Range(work)' = Range(work) /\ DOMAIN dest'.files = {}
    BY <2>1, <2>2, <2>3 DEF Range, Wanted, IsAncestor
  <2>5. Recovering' /\ (Range(work) \subseteq Range(fileList))'
    BY <2>1, <2>3, <2>4 DEF Recovering
  <2> QED
    BY <1>0, <2>1, <2>5 DEF Recovered, HandsOut
<1>8. CASE StartEntry \/ ReadChunk \/ FinishEntry
  <2>1. /\ rpc = "files" /\ rpc' = "files" /\ op' = op /\ outcome' = outcome /\ fileList' = fileList
        /\ outcome = "none"
    BY <1>0, <1>8 DEF StartEntry, ReadChunk, FinishEntry, Rebuilding, HandsOut, scanVars
  <2>2. CASE op.kind = "extract"
    <3>1. Recovering /\ Range(work) \subseteq Range(fileList)
      BY <2>1, <2>2 DEF Recovered, UnderWay
    <3>2. Recovering'
      BY <1>0, <1>8, <2>2, <3>1, RecoveringStarts, RecoveringReads, RecoveringFinishes
    <3>3. (Range(work) \subseteq Range(fileList))'
      <4>1. CASE StartEntry
        BY <1>0, <2>2, <3>1, <4>1, RecoveringStarts
      <4>2. CASE ReadChunk \/ FinishEntry
        BY <2>1, <3>1, <4>2 DEF ReadChunk, FinishEntry, Range
      <4> QED
        BY <1>8, <4>1, <4>2
    <3> QED
      BY <2>1, <3>2, <3>3 DEF Recovered
  <2>3. CASE op.kind # "extract"
    BY <2>1, <2>3 DEF Recovered
  <2> QED
    BY <2>2, <2>3
<1>9. CASE ReportFiles
  <2>1. /\ rpc = "files" /\ rpc' = "done" /\ op' = op /\ fileList' = fileList /\ work' = work
        /\ current' = current /\ content' = content /\ dest' = dest /\ work = <<>> /\ current = NoEntry
        /\ NoEntry' = NoEntry
    BY <1>9 DEF ReportFiles, Succeed, scanVars, NoEntry
  <2>2. Range(fileList)' = Range(fileList) /\ Range(work)' = Range(work)
    BY <2>1 DEF Range
  <2>3. CASE op.kind = "extract"
    <3>1. Recovering /\ Range(work) \subseteq Range(fileList)
      BY <2>1, <2>3 DEF Recovered, UnderWay
    <3>2. Recovering'
      BY <2>1, <3>1, RecoveringStays
    <3> QED
      BY <2>1, <2>2, <3>1, <3>2 DEF Recovered
  <2>4. CASE op.kind # "extract"
    BY <2>1, <2>4 DEF Recovered
  <2> QED
    BY <2>3, <2>4
<1>10. ScanRejects \/ NotFound \/ ChunkDamaged \/ FileDamaged \/ ReadError => Fail
  BY DEF ScanRejects, NotFound, ChunkDamaged, FileDamaged, ReadError
<1>11. CASE Read
  BY <1>2, <1>3, <1>4, <1>5, <1>6, <1>7, <1>8, <1>9, <1>10, <1>11
     DEF Read, ReadNext, ScanStep, PlanStep, FileStep
<1> QED
  BY <1>1, <1>11 DEF RoundTripNext, Write, Damage, RotRecord, LoseRecord, LoseTail, GrowTail, Strike, allVars


\* Nothing is told and nothing recovered at first.
LEMMA OneFaultInitial == RoundTripInit => OneFaultInv
<1> SUFFICES ASSUME RoundTripInit PROVE OneFaultInv
  OBVIOUS
<1>0. /\ packed = <<>> /\ archive = <<>> /\ pc = "start" /\ stats = ZeroStats /\ pos = 1 /\ fileList = <<>>
      /\ tally = [n \in TallyNames |-> 0] /\ verdict = "none" /\ rpc = "idle" /\ outcome = "none"
      /\ op.kind = "info" /\ current = NoEntry /\ damage = 0
  BY DEF RoundTripInit, Init, PackInit, ReadInit
<1>1. DamageInv
  BY DamageInitial
<1>2. \A t : RecordsOf(packed, t) = {}
  BY <1>0 DEF RecordsOf
<1>3. Numbered
  <2>1. stats["files"] = 0
    BY <1>0 DEF ZeroStats, CounterNames
  <2>2. packed \in Seq(WrittenRecord)
    BY <1>0
  <2> QED
    BY <1>2, <2>1, <2>2, FS_EmptySet DEF Numbered
<1>4. Counting
  <2>1. tally \in [TallyNames -> Nat] /\ tally["files"] = 0
    BY <1>0, TallyNamesAre
  <2> QED
    BY <1>0, <2>1 DEF Counting
<1>5. Recovered
  BY <1>0 DEF Recovered, UnderWay
<1>6. Unharmed
  <2>1. PackedFiles(0) \ {} = {}
    BY <1>2 DEF PackedFiles
  <2>2. Told(0, {})
    BY <1>0, <2>1, FS_EmptySet DEF Told
  <2> QED
    BY <1>0, <2>2 DEF Unharmed
<1>7. Accounted
  BY <1>0, <1>1, <1>6, UnharmedInStep
<1> QED
  BY <1>1, <1>3, <1>4, <1>5, <1>6, <1>7 DEF OneFaultInv

\* Writer, reader and storage leave it so.
LEMMA OneFaultStep == OneFaultInv /\ [RoundTripNext]_allVars => OneFaultInv'
<1>1. (DamageInv /\ damage = 0 /\ Unharmed /\ verdict = "none" => Accounted)'
  BY UnharmedInStep, PTL
<1> SUFFICES ASSUME OneFaultInv, [RoundTripNext]_allVars PROVE OneFaultInv'
  OBVIOUS
<1>0. /\ DamageInv /\ DamageInv' /\ Numbered /\ Counting /\ Recovered /\ damage \in Nat
      /\ damage = 0 => Unharmed
      /\ damage <= 1 => Accounted
  BY DamageInvStep DEF OneFaultInv, DamageInv
<1>2. Numbered' /\ Counting' /\ Recovered'
  BY <1>0, NumberedStep, CountingStep, RecoveredStep
<1>3. CASE Write
  <2>1. damage = 0 /\ damage' = 0 /\ verdict' = verdict /\ pc \notin {"ok", "failed"}
    BY <1>0, <1>3, WriterGrows DEF readVars
  <2>2. Unharmed' /\ verdict' # "accepted"
    BY <1>0, <1>3, <2>1, WriteUnharmed DEF Unharmed
  <2>3. Accounted'
    <3>1. CASE verdict' = "none"
      BY <1>0, <1>1, <2>1, <2>2, <3>1
    <3>2. CASE verdict' # "none"
      BY <2>2, <3>2 DEF Accounted
    <3> QED
      BY <3>1, <3>2
  <2> QED
    BY <1>0, <1>2, <2>2, <2>3 DEF OneFaultInv
<1>4. CASE Read
  <2>1. ReadNext /\ UNCHANGED <<archive, packed, pc>> /\ damage' = damage
    BY <1>4 DEF Read, packVars
  <2>2. damage' = 0 => Unharmed'
    BY <1>0, <2>1, ReadUnharmed
  <2>3. damage' <= 1 => Accounted'
    BY <1>0, <2>1, ReadAccounts
  <2> QED
    BY <1>0, <1>2, <2>2, <2>3 DEF OneFaultInv
<1>5. CASE Damage
  <2>1. damage' = damage + 1 /\ packed' = packed /\ fileList' = fileList /\ verdict' = verdict
    BY <1>5 DEF Damage, RotRecord, LoseRecord, LoseTail, GrowTail, Strike, readVars, scanVars
  <2>2. ASSUME damage' <= 1 PROVE Accounted'
    <3>1. damage = 0
      BY <1>0, <2>1, <2>2
    <3>2. CASE verdict = "none"
      BY <1>0, <1>5, <3>1, <3>2, StrikeAccounts
    <3>3. CASE verdict # "none"
      <4>1. \A n, L : Told(n, L)' <=> Told(n, L)
        BY <2>1, ToldStays
      <4>2. PICK n : n = Len(packed)
        OBVIOUS
      <4>3. verdict = "accepted" => Told(n, {})'
        BY <1>0, <3>1, <4>1, <4>2 DEF Accounted
      <4> QED
        BY <2>1, <3>3, <4>2, <4>3 DEF Accounted, Told
    <3> QED
      BY <3>2, <3>3
  <2>3. damage' # 0
    BY <1>0, <2>1
  <2> QED
    BY <1>0, <1>2, <2>2, <2>3 DEF OneFaultInv
<1>6. CASE UNCHANGED allVars
  <2>1. UNCHANGED <<archive, packed, fileList, pos, pc, verdict, damage>>
    BY <1>6 DEF allVars, packVars, readVars, scanVars
  <2>2. damage' = 0 => Unharmed'
    BY <1>0, <2>1, UnharmedStays
  <2>3. damage' <= 1 => Accounted'
    BY <1>0, <2>1, AccountedStays
  <2> QED
    BY <1>0, <1>2, <2>2, <2>3 DEF OneFaultInv
<1> QED
  BY <1>3, <1>4, <1>5, <1>6 DEF RoundTripNext

\* The paths of a catalog are as many as its files.
LEMMA PathsCount ==
  ASSUME NEW s, Files(s)
  PROVE  Cardinality({f.path : f \in Range(s)}) = Len(s)
<1> DEFINE T == {f.path : f \in Range(s)}
           g == [k \in 1..Len(s) |-> s[k].path]
<1>1. /\ Len(s) \in Nat /\ DOMAIN s = 1..Len(s)
      /\ \A j, k \in 1..Len(s) : j # k => s[j].path # s[k].path
  BY DEF Files
<1>2. T = {s[k].path : k \in 1..Len(s)}
  BY <1>1 DEF Range
<1>3. g \in Bijection(1..Len(s), T)
  BY <1>1, <1>2, Zenon DEF Bijection, Injection, Surjection, IsInjective
<1>4. ExistsBijection(1..Len(s), T)
  BY <1>3 DEF ExistsBijection
<1> QED
  BY <1>1, <1>4, FS_CountingElements

\* With one fault at most, what a full extraction restores is every file that
\* was packed, each with its bytes.
LEMMA NothingIsLost ==
  ASSUME OneFaultInv, damage <= 1
  PROVE  NoLostContent
<1> SUFFICES ASSUME outcome = "ok", op = [kind |-> "extract", sel |-> <<>>]
             PROVE  /\ Cardinality(DOMAIN dest.files) = Cardinality(RecordsOf(packed, "FILE"))
                    /\ {dest.files[p] : p \in DOMAIN dest.files} = Contents(packed)
  BY DEF NoLostContent
<1>0. /\ op.kind = "extract" /\ op.sel = <<>> /\ verdict = "accepted" /\ packed \in Seq(WrittenRecord)
      /\ work = <<>> /\ current = NoEntry /\ Recovering /\ Files(fileList)
      /\ Told(Len(packed), {})
  BY DEF OneFaultInv, Counting, Accounted, Recovered, UnderWay, Numbered, DamageInv, Faithfully, HoldsOnly
<1>1. \A p \in DOMAIN dest.files : dest.files[p] \in Contents(packed)
  BY <1>0 DEF OneFaultInv, DamageInv, Faithfully, HoldsOnly, Rebuilt
<1>2. ASSUME NEW f \in Range(fileList)
      PROVE  f.path \in DOMAIN dest.files /\ dest.files[f.path] = f.hash
  <2>1. f # NoEntry
    <3>1. f \in FileStored
      BY <1>0 DEF Files, Range
    <3> QED
      BY <3>1 DEF FileStored, NoEntry
  <2>2. Wanted(f.path) /\ f \notin Range(work)
    BY <1>0 DEF Wanted, Range
  <2> QED
    BY <1>0, <2>1, <2>2 DEF Recovering
<1>3. DOMAIN dest.files = {f.path : f \in Range(fileList)}
  BY <1>0, <1>2 DEF Recovering
<1>4. Cardinality(DOMAIN dest.files) = Len(fileList)
  BY <1>0, <1>3, PathsCount
<1>5. PackedFiles(Len(packed)) \ {} = RecordsOf(packed, "FILE")
  <2>1. Len(packed) \in Nat /\ Len(packed) >= Len(packed)
    BY <1>0
  <2> QED
    BY <1>0, <2>1, PackedFilesNext
<1>6. /\ Len(fileList) = Cardinality(RecordsOf(packed, "FILE"))
      /\ \A i \in RecordsOf(packed, "FILE") :
           \E f \in Range(fileList) : f.hash \in {packed[i].hash, <<Garbage>>}
  BY <1>0, <1>5 DEF Told
<1>7. ASSUME NEW i \in RecordsOf(packed, "FILE")
      PROVE  \E p \in DOMAIN dest.files : dest.files[p] = packed[i].hash
  <2>1. PICK f \in Range(fileList) : f.hash \in {packed[i].hash, <<Garbage>>}
    BY <1>6
  <2>2. f.path \in DOMAIN dest.files /\ dest.files[f.path] = f.hash /\ f.hash \in Contents(packed)
    BY <1>1, <1>2
  <2>3. <<Garbage>> \notin Contents(packed)
    <3>1. <<Garbage>> \notin Seq(Chunk)
      <4>1. <<Garbage>>[1] = Garbage /\ 1 \in DOMAIN <<Garbage>>
        OBVIOUS
      <4> QED
        BY <4>1, ChunkAssumption
    <3>2. ASSUME NEW j \in RecordsOf(packed, "FILE") PROVE packed[j].hash \in Seq(Chunk)
      <4>1. packed[j] \in WrittenRecord /\ packed[j].tag = "FILE"
        BY <1>0 DEF RecordsOf
      <4>2. packed[j] \in FileRecordType
        BY <4>1 DEF WrittenRecord, Header, Torn, ChunkRecordType, DirectoryRecordType, FooterType
      <4> QED
        BY <4>2 DEF FileRecordType
    <3> QED
      BY <3>1, <3>2 DEF Contents
  <2> QED
    BY <2>1, <2>2, <2>3
<1>8. {dest.files[p] : p \in DOMAIN dest.files} = Contents(packed)
  BY <1>1, <1>7 DEF Contents
<1> QED
  BY <1>4, <1>6, <1>8

\* One fault of the storage, wherever and whenever it strikes, makes no file
\* disappear: a full extraction that succeeds has as many files as were packed,
\* with all their contents.  With more faults two of them could agree.
THEOREM OneFaultLosesNothing == RoundTripSpec => [](damage <= 1 => NoLostContent)
<1>1. OneFaultInv => (damage <= 1 => NoLostContent)
  BY NothingIsLost
<1> QED
  BY <1>1, OneFaultInitial, OneFaultStep, PTL DEF RoundTripSpec
=============================================================================
