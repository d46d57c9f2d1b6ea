------------------------------- MODULE RgxRead -------------------------------
(***************************************************************************)
(* The archive reader of src/src/archive.rs: scan_archive_reader, and what *)
(* info/list/find, verify, cat and extract do with the catalog it builds.  *)
(*                                                                         *)
(* One operation reads `archive`, which this module never writes: the scan *)
(* takes the records one by one, then each wanted file is rebuilt chunk by *)
(* chunk from the positions the scan remembered.  The archive may hold     *)
(* anything, and may change between two reads.                             *)
(***************************************************************************)
EXTENDS RgxArchive

CONSTANT Operations   \* the operations a user may ask for, as [kind, sel]

\* sel is the path given to cat, or to extract --path; <<>> is no path.
OperationType == [kind : {"info", "verify", "cat", "extract"}, sel : Seq(Name)]
ASSUME OperationAssumption ==
  /\ Operations \subseteq OperationType
  /\ \A o \in Operations : o.kind = "cat" => o.sel # <<>>

VARIABLES
  rpc,        \* where the operation is
  op,         \* what was asked for
  pos,        \* the next record of the scan
  chunkMap,   \* hash -> where its payload is and what its header declares
  referenced, \* referenced_chunks
  fileList,   \* FileRecords in archive order
  dirSet,     \* directory paths
  tally,      \* the statistics the scan recomputes
  verdict,    \* what the scan decided
  work,       \* FileRecords still to rebuild
  current,    \* the one being rebuilt
  content,    \* what has been rebuilt of it
  returned,   \* the bytes cat returns
  dest,       \* the extraction directory
  outcome     \* what the operation reports

scanVars == <<chunkMap, referenced, fileList, dirSet, tally>>
fileVars == <<work, current, content, returned, dest>>
readVars == <<rpc, op, pos, scanVars, verdict, fileVars, outcome>>

TallyNames ==
  (CounterNames \ {"unique_chunks", "deduplicated_bytes"}) \union {"referenced_logical"}
NoEntry == [tag |-> "none"]
NoDest  == [made |-> FALSE, dirs |-> {}, files |-> <<>>]

ReadInit ==
  /\ rpc = "idle" /\ op = [kind |-> "info", sel |-> <<>>] /\ pos = 1
  /\ chunkMap = <<>> /\ referenced = {} /\ fileList = <<>> /\ dirSet = {}
  /\ tally = [n \in TallyNames |-> 0]
  /\ verdict = "none"
  /\ work = <<>> /\ current = NoEntry /\ content = <<>> /\ returned = <<>>
  /\ dest = NoDest
  /\ outcome = "none"

\* The operation reports an error.  extract_reader then removes the tree it
\* began, but does not insist: whatever could not be removed stays.
Fail ==
  /\ outcome' = "error" /\ rpc' = "done"
  /\ \/ dest' = NoDest
     \/ dest.made /\ \E kept \in SUBSET DOMAIN dest.files :
                       dest' = [dest EXCEPT !.files = Restrict(@, kept)]
  /\ UNCHANGED <<op, pos, scanVars, work, current, content, returned>>

Succeed ==
  /\ outcome' = "ok" /\ rpc' = "done"
  /\ UNCHANGED <<op, pos, scanVars, verdict, work, current, content>>

\* Any read of the archive, and any write to the destination, may fail.
ReadError == rpc \notin {"idle", "done"} /\ Fail /\ UNCHANGED verdict

-----------------------------------------------------------------------------
(* Opening *)

\* cat and extract validate the path they are given before the scan.
Open(o) ==
  /\ rpc = "idle"
  /\ op' = o
  /\ IF o.sel # <<>> /\ ~Readable(o.sel)
     THEN rpc' = "done" /\ outcome' = "error"
     ELSE rpc' = "scan" /\ UNCHANGED outcome
  /\ UNCHANGED <<pos, scanVars, verdict, fileVars>>

-----------------------------------------------------------------------------
(* The scan *)

LogicalSize(refs) ==
  SumFunction([k \in DOMAIN refs |-> chunkMap[refs[k]].size])

Paths == dirSet \union {f.path : f \in Range(fileList)}

\* Fault: a chunk may declare any size.
ChunkHeaderUnbounded(r) ==
  /\ r.size > 0
  /\ r.method = "store" => r.payload = r.size
  /\ r.method = "zstd" => r.payload \in 1..(r.size - 1)

\* validate_chunk_header
ChunkHeaderValid(r) ==
  /\ r.size \in 1..MaxChunk
  /\ r.method = "store" => r.payload = r.size
  /\ r.method = "zstd" => r.payload \in 1..(r.size - 1)

ChunkTally(r) == Add(tally, "stored_bytes", r.payload)
DirectoryTally == Add(Add(tally, "entries", 1), "directories", 1)

\* Fault: the references of a file are not added up.
FileTallyShort(r) ==
  Add(Add(Add(Add(tally, "entries", 1), "files", 1), "original_bytes", r.size),
      "chunk_references", Len(r.refs))

FileTally(r) ==
  Add(Add(Add(Add(Add(tally, "entries", 1), "files", 1), "original_bytes", r.size),
          "chunk_references", Len(r.refs)), "referenced_logical", r.size)

ChunkAccepted(r) ==
  /\ r.tag = "CHNK" /\ ChunkHeaderValid(r)
  /\ r.hash \notin DOMAIN chunkMap
  /\ Fits(ChunkTally(r))

PathAccepted(p) == Readable(p) /\ p \notin Paths

DirectoryAccepted(r) ==
  r.tag = "DIRE" /\ PathAccepted(r.path) /\ Fits(DirectoryTally)

\* Fault: a file's chunks are left to be looked up when it is rebuilt.
FileAcceptedUnchecked(r) ==
  /\ r.tag = "FILE" /\ PathAccepted(r.path)
  /\ Len(r.refs) <= MaxRefs
  /\ Fits(FileTally(r))

FileAccepted(r) ==
  /\ r.tag = "FILE" /\ PathAccepted(r.path)
  /\ Len(r.refs) <= MaxRefs
  /\ Range(r.refs) \subseteq DOMAIN chunkMap
  /\ LogicalSize(r.refs) = r.size
  /\ Fits(FileTally(r))

\* unique_logical_bytes, which the scan sums up at the footer.
UniqueLogical == SumFunction([h \in DOMAIN chunkMap |-> chunkMap[h].size])

\* The footer the records that were read call for.
ExpectedStats ==
  [n \in CounterNames |->
     CASE n = "unique_chunks" -> Cardinality(DOMAIN chunkMap)
       [] n = "deduplicated_bytes" -> tally["referenced_logical"] - UniqueLogical
       [] OTHER -> tally[n]]

\* Fault: what follows the footer is not looked at.
FooterAcceptedTrailing(r) ==
  /\ r.tag = "RGXF"
  /\ \A f \in Range(fileList), p \in Paths : ~IsAncestor(f.path, p)
  /\ Cardinality(referenced) = Cardinality(DOMAIN chunkMap)
  /\ UniqueLogical <= CounterMax /\ ExpectedStats["deduplicated_bytes"] >= 0
  /\ r.stats = ExpectedStats

\* Fault: validate_path_tree is not called.
FooterAcceptedFlat(r) ==
  /\ r.tag = "RGXF"
  /\ pos = Len(archive)
  /\ Cardinality(referenced) = Cardinality(DOMAIN chunkMap)
  /\ UniqueLogical <= CounterMax /\ ExpectedStats["deduplicated_bytes"] >= 0
  /\ r.stats = ExpectedStats

\* Fault: the footer's statistics are believed.
FooterAcceptedBelieved(r) ==
  /\ r.tag = "RGXF"
  /\ pos = Len(archive)
  /\ \A f \in Range(fileList), p \in Paths : ~IsAncestor(f.path, p)
  /\ Cardinality(referenced) = Cardinality(DOMAIN chunkMap)

\* The end of the archive: nothing trails, no file is a directory of another
\* path, every chunk is used, and the footer tells the truth.
FooterAccepted(r) ==
  /\ r.tag = "RGXF"
  /\ pos = Len(archive)
  /\ \A f \in Range(fileList), p \in Paths : ~IsAncestor(f.path, p)
  /\ Cardinality(referenced) = Cardinality(DOMAIN chunkMap)
  /\ UniqueLogical <= CounterMax /\ ExpectedStats["deduplicated_bytes"] >= 0
  /\ r.stats = ExpectedStats

Accepted(r) ==
  IF pos = 1 THEN r = Header
  ELSE ChunkAccepted(r) \/ DirectoryAccepted(r) \/ FileAccepted(r) \/ FooterAccepted(r)

\* Fault: the scan does not move on.
AdvanceNowhere ==
  /\ rpc = "scan" /\ pos \in DOMAIN archive
  /\ UNCHANGED <<op, pos, fileVars, outcome>>

\* What the scanning actions have in common.
Advance ==
  /\ rpc = "scan" /\ pos \in DOMAIN archive
  /\ pos' = pos + 1
  /\ UNCHANGED <<op, fileVars, outcome>>

ReadHeader ==
  /\ Advance /\ pos = 1 /\ archive[pos] = Header
  /\ UNCHANGED <<rpc, scanVars, verdict>>

ScanChunk ==
  /\ Advance /\ pos > 1
  /\ LET r == archive[pos] IN
       /\ ChunkAccepted(r)
       /\ chunkMap' = [h \in DOMAIN chunkMap \union {r.hash} |->
                         IF h = r.hash THEN [at |-> pos, size |-> r.size] ELSE chunkMap[h]]
       /\ tally' = ChunkTally(r)
  /\ UNCHANGED <<rpc, referenced, fileList, dirSet, verdict>>

ScanDirectory ==
  /\ Advance /\ pos > 1
  /\ DirectoryAccepted(archive[pos])
  /\ dirSet' = dirSet \union {archive[pos].path}
  /\ tally' = DirectoryTally
  /\ UNCHANGED <<rpc, chunkMap, referenced, fileList, verdict>>

ScanFile ==
  /\ Advance /\ pos > 1
  /\ FileAccepted(archive[pos])
  /\ fileList' = Append(fileList, archive[pos])
  /\ referenced' = referenced \union Range(archive[pos].refs)
  /\ tally' = FileTally(archive[pos])
  /\ UNCHANGED <<rpc, chunkMap, dirSet, verdict>>

\* Fault: the end of the file ends the archive too.
ScanFooterOrEnd ==
  /\ rpc = "scan" /\ pos > 1
  /\ pos \in DOMAIN archive => FooterAccepted(archive[pos])
  /\ verdict' = "accepted" /\ rpc' = "plan"
  /\ UNCHANGED <<op, pos, scanVars, fileVars, outcome>>

ScanFooter ==
  /\ Advance /\ pos > 1
  /\ FooterAccepted(archive[pos])
  /\ verdict' = "accepted" /\ rpc' = "plan"
  /\ UNCHANGED scanVars

\* The archive ended without a footer, or the next record is not acceptable.
ScanRejects ==
  /\ rpc = "scan"
  /\ pos \in DOMAIN archive => ~Accepted(archive[pos])
  /\ verdict' = "rejected"
  /\ Fail

-----------------------------------------------------------------------------
(* What each operation does with the catalog *)

\* Fault: a directory that is asked for comes without what it holds.
WantedExactly(p) == op.sel = <<>> \/ p = op.sel

Wanted(p) == op.sel = <<>> \/ p = op.sel \/ IsAncestor(op.sel, p)

\* The wanted files, in their order.
WantedFiles ==
  LET kept[n \in 0..Len(fileList)] ==
        IF n = 0 THEN <<>>
        ELSE IF Wanted(fileList[n].path) THEN Append(kept[n - 1], fileList[n])
                                         ELSE kept[n - 1]
  IN  kept[Len(fileList)]

\* Fault: cat takes any file under the path it is given.
CatFilesUnder == {k \in DOMAIN fileList : Wanted(fileList[k].path)}

CatFiles == {k \in DOMAIN fileList : fileList[k].path = op.sel}

ReportInfo ==
  /\ rpc = "plan" /\ op.kind = "info"
  /\ Succeed /\ UNCHANGED <<returned, dest>>

\* verify rebuilds every file, cat the first that has the path asked for.
PlanFiles ==
  /\ rpc = "plan"
  /\ \/ op.kind = "verify" /\ work' = fileList
     \/ op.kind = "cat" /\ \E k \in CatFiles :
                              (\A j \in CatFiles : k <= j) /\ work' = <<fileList[k]>>
  /\ rpc' = "files"
  /\ UNCHANGED <<op, pos, scanVars, verdict, current, content, returned, dest, outcome>>

\* Nothing in the archive has the path that was asked for.
NotFound ==
  /\ rpc = "plan"
  /\ \/ op.kind = "cat" /\ CatFiles = {}
     \/ op.kind = "extract" /\ WantedFiles = <<>> /\ ~\E d \in dirSet : Wanted(d)
        /\ op.sel # <<>>
  /\ Fail /\ UNCHANGED verdict

\* create_dir makes the destination, which must not exist yet, and then the
\* directories of the archive.
MakeDestination ==
  /\ rpc = "plan" /\ op.kind = "extract"
  /\ op.sel = <<>> \/ WantedFiles # <<>> \/ \E d \in dirSet : Wanted(d)
  /\ work' = WantedFiles
  /\ dest' = [NoDest EXCEPT !.made = TRUE]
  /\ rpc' = "mkdir"
  /\ UNCHANGED <<op, pos, scanVars, verdict, current, content, returned, outcome>>

\* create_dir_all: a directory and everything above it.
WithParents(p) == {SubSeq(p, 1, n) : n \in 1..Len(p)}

MakeDirectories ==
  /\ rpc = "mkdir"
  /\ dest' = [dest EXCEPT !.dirs = UNION {WithParents(d) : d \in {e \in dirSet : Wanted(e)}}]
  /\ rpc' = "files"
  /\ UNCHANGED <<op, pos, scanVars, verdict, work, current, content, returned, outcome>>

-----------------------------------------------------------------------------
(* Rebuilding one file *)

\* create_dir_all and create_new have nothing in their way (when they have,
\* they fail, which ReadError does; NoSelfCollision says the archive itself
\* never is the reason).
TargetFree(p) ==
  /\ p \notin dest.dirs \union DOMAIN dest.files
  /\ \A q \in DOMAIN dest.files : ~IsAncestor(q, p)

PutFile(p, data) ==
  [q \in DOMAIN dest.files \union {p} |-> IF q = p THEN data ELSE dest.files[q]]

StartEntry ==
  /\ rpc = "files" /\ current = NoEntry /\ work # <<>>
  /\ current' = Head(work) /\ work' = Tail(work) /\ content' = <<>>
  /\ IF op.kind = "extract"
     THEN LET p == Head(work).path IN
          /\ TargetFree(p)
          /\ dest' = [dest EXCEPT !.dirs = @ \union WithParents(Parent(p)),
                                  !.files = PutFile(p, <<>>)]
     ELSE UNCHANGED dest
  /\ UNCHANGED <<rpc, op, pos, scanVars, verdict, returned, outcome>>

\* read_chunk_data: the payload now at the remembered place decodes to data
\* of the declared size with the expected digest, which garbage never has.
PayloadAt(n) ==
  IF n \in DOMAIN archive /\ archive[n].tag = "CHNK" THEN archive[n].data ELSE Garbage
ChunkIntact(h) ==
  /\ h \in DOMAIN chunkMap
  /\ PayloadAt(chunkMap[h].at) = h /\ h # Garbage
  /\ chunkMap[h].size = ChunkLen[h]

Rebuilding == rpc = "files" /\ current # NoEntry
NextHash == current.refs[Len(content) + 1]

ReadChunk ==
  /\ Rebuilding /\ Len(content) < Len(current.refs)
  /\ ChunkIntact(NextHash)
  /\ content' = Append(content, PayloadAt(chunkMap[NextHash].at))
  /\ dest' = IF op.kind = "extract"
             THEN [dest EXCEPT !.files = PutFile(current.path, content')]
             ELSE dest
  /\ UNCHANGED <<rpc, op, pos, scanVars, verdict, work, current, returned, outcome>>

ChunkDamaged ==
  /\ Rebuilding /\ Len(content) < Len(current.refs)
  /\ ~ChunkIntact(NextHash)
  /\ Fail /\ UNCHANGED verdict

\* Fault: only the size of the whole file is compared.
FileIntactBySize ==
  SumFunction([k \in DOMAIN content |-> ChunkLen[content[k]]]) = current.size

\* The size and the digest of the whole file.
FileIntact ==
  /\ content = current.hash
  /\ SumFunction([k \in DOMAIN content |-> ChunkLen[content[k]]]) = current.size

FinishEntry ==
  /\ Rebuilding /\ Len(content) = Len(current.refs)
  /\ FileIntact
  /\ current' = NoEntry
  /\ returned' = IF op.kind = "cat" THEN content ELSE returned
  /\ UNCHANGED <<rpc, op, pos, scanVars, verdict, work, content, dest, outcome>>

FileDamaged ==
  /\ Rebuilding /\ Len(content) = Len(current.refs)
  /\ ~FileIntact
  /\ Fail /\ UNCHANGED verdict

ReportFiles ==
  /\ rpc = "files" /\ current = NoEntry /\ work = <<>>
  /\ Succeed /\ UNCHANGED <<returned, dest>>

-----------------------------------------------------------------------------
ScanStep == ReadHeader \/ ScanChunk \/ ScanDirectory \/ ScanFile \/ ScanFooter \/ ScanRejects
PlanStep == ReportInfo \/ PlanFiles \/ NotFound \/ MakeDestination \/ MakeDirectories
FileStep ==
  \/ StartEntry
  \/ ReadChunk \/ ChunkDamaged
  \/ FinishEntry \/ FileDamaged
  \/ ReportFiles

ReadNext ==
  \/ \E o \in Operations : Open(o)
  \/ ScanStep \/ PlanStep \/ FileStep
  \/ ReadError

readingVars == <<archive, readVars>>

\* What an archive may hold: a digest or a payload may be anything.
Bytes == Chunk \union {Garbage}
StoredRecord ==
  {Header, Torn} \union DirectoryRecordType \union FooterType
    \union [tag : {"CHNK"}, hash : Bytes, data : Bytes, size : Nat,
            method : {"zstd", "store"}, payload : Nat]
    \union [tag : {"FILE"}, path : Path, size : Nat, hash : Seq(Bytes), refs : Seq(Bytes)]

\* One operation on an archive that nothing changes.
ReadAlone ==
  /\ archive \in Seq(StoredRecord) /\ ReadInit
  /\ [][ReadNext /\ UNCHANGED archive]_readingVars

-----------------------------------------------------------------------------
(* The format, said of a whole archive at once: what docs/FORMAT.md asks of *)
(* a reader, without an order of checks.                                    *)

Declared(f, tag) ==
  SumFunction([i \in Tagged(tag, Len(archive)) |-> archive[i][f]])
DeclaredRefs ==
  SumFunction([i \in Tagged("FILE", Len(archive)) |-> Len(archive[i].refs)])

\* The chunk record that a hash names, for the records after it.
Defines(i, h) == archive[i].tag = "CHNK" /\ archive[i].hash = h

WellFormedChunk(i) ==
  /\ ChunkHeaderValid(archive[i])
  /\ \A j \in 1..(i - 1) : ~Defines(j, archive[i].hash)
  /\ \E j \in (i + 1)..Len(archive) :
       archive[j].tag = "FILE" /\ archive[i].hash \in Range(archive[j].refs)

WellFormedPath(i) ==
  /\ Readable(archive[i].path)
  /\ \A j \in Tagged("FILE", Len(archive)) : j # i =>
       archive[j].path # archive[i].path /\ ~IsAncestor(archive[j].path, archive[i].path)
  /\ \A j \in Tagged("DIRE", Len(archive)) : j # i => archive[j].path # archive[i].path

WellFormedFile(i) ==
  LET refs == archive[i].refs
      Definition(k) == CHOOSE j \in 1..(i - 1) : Defines(j, refs[k])
  IN  /\ Len(refs) <= MaxRefs
      /\ \A k \in DOMAIN refs : \E j \in 1..(i - 1) : Defines(j, refs[k])
      /\ archive[i].size = SumFunction([k \in DOMAIN refs |-> archive[Definition(k)].size])

TrueStats ==
  LET files == Cardinality(Tagged("FILE", Len(archive)))
      directories == Cardinality(Tagged("DIRE", Len(archive)))
  IN  [n \in CounterNames |->
         CASE n = "files" -> files
           [] n = "directories" -> directories
           [] n = "entries" -> files + directories
           [] n = "unique_chunks" -> Cardinality(Tagged("CHNK", Len(archive)))
           [] n = "chunk_references" -> DeclaredRefs
           [] n = "original_bytes" -> Declared("size", "FILE")
           [] n = "stored_bytes" -> Declared("payload", "CHNK")
           [] n = "deduplicated_bytes" -> Declared("size", "FILE") - Declared("size", "CHNK")]

WellFormed ==
  LET last == Len(archive) IN
  /\ last >= 2 /\ archive[1] = Header
  /\ \A i \in 2..(last - 1) : archive[i].tag \in {"CHNK", "DIRE", "FILE"}
  /\ \A i \in Tagged("CHNK", last) : WellFormedChunk(i)
  /\ \A i \in Tagged("DIRE", last) \union Tagged("FILE", last) : WellFormedPath(i)
  /\ \A i \in Tagged("FILE", last) : WellFormedFile(i)
  /\ archive[last].tag = "RGXF" /\ archive[last].stats = TrueStats
  /\ Fits(TrueStats)

-----------------------------------------------------------------------------
(* Properties, while nothing changes the archive *)

ReadTypeOK ==
  /\ archive \in Seq(StoredRecord)
  /\ rpc \in {"idle", "scan", "plan", "mkdir", "files", "done"}
  /\ op \in OperationType
  /\ pos \in Nat \ {0}
  /\ \A h \in DOMAIN chunkMap : chunkMap[h] \in [at : Nat, size : 1..MaxChunk]
  /\ referenced \subseteq DOMAIN chunkMap
  /\ dirSet \subseteq Path
  /\ tally \in [TallyNames -> 0..CounterMax]
  /\ verdict \in {"none", "accepted", "rejected"}
  /\ outcome \in {"none", "ok", "error"}

\* The scan, which checks record by record with what it has seen so far,
\* decides exactly what the format says of the archive as a whole: no
\* malformed archive gets through, no well-formed one is refused.
ScanMatchesFormat ==
  /\ verdict = "accepted" => WellFormed
  /\ verdict = "rejected" => ~WellFormed

\* Once every chunk read so far is referenced, the bytes of the references
\* cover the bytes of the chunks: the subtraction that yields
\* deduplicated_bytes cannot go below zero.
DedupNotNegative ==
  Cardinality(referenced) = Cardinality(DOMAIN chunkMap) =>
    tally["referenced_logical"] >= UniqueLogical

\* An archive the scan accepted never makes extraction collide with its own
\* output: no file is where a directory, another file or a parent must go.
NoSelfCollision ==
  rpc = "files" /\ op.kind = "extract" /\ current = NoEntry /\ work # <<>>
    => TargetFree(Head(work).path)

\* Every chunk a planned file needs is in the catalog: the "missing chunk"
\* errors of verify, cat and extract cannot happen.
PlannedChunksKnown ==
  \A f \in Range(work) \union ({current} \ {NoEntry}) : Range(f.refs) \subseteq DOMAIN chunkMap

\* What the reader has gathered fits together wherever it stands: the types,
\* the tallies against the catalog, and the plan against the catalog.
ReaderConsistent == ReadTypeOK /\ DedupNotNegative /\ PlannedChunksKnown

\* The path asked for is p, or a directory above it, or nothing was asked.
Selected(p) == Len(op.sel) <= Len(p) /\ SubSeq(p, 1, Len(op.sel)) = op.sel

\* A successful extraction holds exactly the wanted entries of the archive,
\* each file with the bytes its record's digest stands for, and cat returns
\* the bytes of the one file it was asked for.
DeliversWhatIsRecorded ==
  outcome = "ok" =>
    /\ op.kind = "extract" =>
         LET wanted == {i \in Tagged("FILE", Len(archive)) : Selected(archive[i].path)} IN
         /\ DOMAIN dest.files = {archive[i].path : i \in wanted}
         /\ \A i \in wanted : dest.files[archive[i].path] = archive[i].hash
         /\ \A i \in Tagged("DIRE", Len(archive)) :
              Selected(archive[i].path) => archive[i].path \in dest.dirs
    /\ op.kind = "cat" =>
         \E i \in Tagged("FILE", Len(archive)) :
           archive[i].path = op.sel /\ archive[i].hash = returned
=============================================================================
