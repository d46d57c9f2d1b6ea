# A specification of RGX

RGX packs a directory tree into one deduplicated archive, optionally encrypts
it for a password or for a set of recipients, and reads it back: info, list,
find, verify, cat, extract. This directory holds TLA+ modules of the parts whose
correctness depends on order, interleaving, failure or arithmetic, the TLC runs
that check them, and theorems that TLAPS proves of them for all values of their
parameters. `PROJECT.json` ties every definition to the lines it models and
lists runs, mutants, findings, hazards and theorems.

## The system

| Part | Source | State | Operations |
|---|---|---|---|
| inner format | `format.rs` | none | read and write header, CHNK, FILE, DIRE, RGXF |
| archive writer | `archive.rs` `pack`, `pack_to_writer` | `seen_chunks`, `PackStats`, the output | walk, open a file, write or reference a chunk, close a file, footer |
| archive reader | `archive.rs` `*_reader`, `scan_archive_reader` | chunk map, entries, tallies, position | scan, info/list/find, verify, cat, extract |
| chunker | `chunker.rs` | rolling hash | `push`, `should_cut` |
| encrypted streams | `private.rs` (RGXE), `keyed_stream.rs` (RGXK) | buffer and sequence; position and one decrypted frame | write, finish; open, seek, read |
| recipient envelope | `recipient_archive.rs` | none of its own; the file is read again at each step | pack, read envelope, unlock, open payload |
| keys | `recipient.rs` | key files | generate, save, load, search, wrap, unwrap |
| signatures | `signature.rs` | `.sig` file | sign, verify |
| command line | `main.rs` | none | one operation per process |
| desktop backend | `desktop/src-tauri/src/main.rs` | none between commands | pack, extract, inspect, verify, list, keygen, detect, unlock |
| desktop UI | `desktop/ui/app.js` | busy flag, fields, last results | one action at a time |
| benchmark, packaging | `benchmark.rs`, `packaging/` | | out of scope |

(Paths are under `src/src/`, those of the desktop and packaging under `src/`.)

How the parts meet. Every kind of archive is the same inner stream: a plain
archive is that stream in a file, the encrypted kinds put an `EncryptedWriter`
or `KeyedWriter` between `pack_to_writer` and the file, and an `EncryptedReader`
or `KeyedReader`, which implement `Read + Seek`, between the file and the
`*_reader` functions. A recipient archive has an envelope in front that holds
the archive key for each recipient. Nothing in RGX locks anything: processes
meet only in the file system, through `exists()` checks, `create`, `create_new`
and `rename`.

What is hard, and what must hold:

- **Writer.** The chunk is remembered before it is written; a chunk is shared by
  files; the writer may stop after any record. References must resolve at
  every prefix, no chunk may be written twice or for nothing, the counters
  must balance.
- **Reader.** It trusts nothing in the file, and decides with what it has seen
  so far. It must accept exactly the well-formed archives; what it accepts must
  be extractable without collisions; reader and writer must agree on
  arithmetic, limits and names.
- **Both at once.** A plain archive is written in place and may be read while
  it grows; storage may damage it, also between the scan and the rebuilding.
- **Encrypted streams.** Opening computes the length from headers that it does
  not authenticate; frames are loaded on demand and one is kept. Seen through
  `read` and `seek` the stream must be the bytes that were written.
- **Publication.** Existence is checked long before the name is taken. A crash
  must not leave part of an encrypted archive at its name.
- **Key pairs.** Two files, not written atomically, with clean-up by name.
- **Extraction.** Trees are made and, on failure, removed by name, next to other
  extractions; the desktop looks for a free name long before it takes it. No two
  may share a tree, and a clean-up must only remove its own.
- **Envelope.** The path is opened for detection, for each look at the envelope and
  for the payload. All must be of one archive, and its envelope unchanged.
- **Signatures.** Archive, signature and public key are three paths that others
  write. What is signed or verified must be one archive at one moment.
- **Chunker.** The hash goes on across cuts and arrives in reads of any size. The
  same data behind a cut must be cut in the same way, or deduplication fails.
- **Desktop.** One flag keeps operations apart; what the window sends must be what
  the backend takes; results are shown against fields that may have changed.

The hazards of `PROJECT.json` list these at their lines.

## Modules

| Module | Models | Used by |
|---|---|---|
| `RgxArchive` | records and counters of the inner format | writer, reader |
| `RgxPack` | the writer | `RgxRoundTrip` |
| `RgxRead` | the reader, one operation on one archive | `MCRgxRead`, `RgxRoundTrip` |
| `RgxRoundTrip` | writer and reader on one file, storage faults | `MCRgxRoundTrip`, proofs |
| `ByteStream` | abstract: what `Read + Seek` promises | `SealedStream` |
| `SealedStream` | the encrypted streams | `MCSealedStream`, proofs |
| `RgxOutput` | how archives get to their name, several processes | `MCRgxOutput`, `RgxSignature`, proofs |
| `RgxSignature` | signing and verifying next to `RgxOutput`'s packers | `MCRgxSignature`, proofs |
| `RgxExtract` | how extracted trees get to disk, several processes | `MCRgxExtract`, proofs |
| `RgxChunker` | the rolling hash, the cut rule and the loop that feeds them | `MCRgxChunker`, proofs |
| `RgxKeygen` | how key pairs get to disk, several processes | `MCRgxKeygen`, proofs |
| `RgxEnvelope` | a recipient archive as a file: envelope, slots, payload, and their damage | `RgxUnlock` |
| `RgxUnlock` | detecting, unlocking and opening an archive whose path may be replaced or damaged | `MCRgxUnlock`, proofs |
| `RgxDesktop` | the window of the desktop program and its commands | `MCRgxDesktop`, proofs |
| `Rgx*Proofs`, `SealedStreamProofs` | theorems about the module of that name; `RgxOutputProofs` is also about `RgxSignature`, `RgxRoundTripProofs` about `RgxPack` and `RgxRead` | |

The `MC*` modules only give values to constants. Definitions whose comment
starts with "Fault:" are not part of a specification: each is a plausible bug
in the definition it resembles, and shows that a property notices it.

**`RgxPack`.** `archive` is the file; a record is one element. `pc` is the place
in `pack_to_writer` ("walk" between entries, "file" inside `pack_file`), `file`
the file being packed, `seen`/`stats` the variables of those names. There is one
action per kind of step: `WalkDirectory`, `OpenFile`, `RefuseEntry` (a name that
`normalize_relative_path` turns down), `ReferenceChunk` and `WriteChunk` (the two
ways through `write_or_reference_chunk`), `CloseFile`, `FileTooLarge`,
`WriteFooter`, and `IoError` for every `?`. The tree is not built in advance: the
walk may deliver any path whose parent it has delivered, which is every order
`WalkDir` has. A chunk is an element of `Chunk` and its digest is itself.

**`RgxRead`.** `rpc` is the place in the operation: "scan" is
`scan_archive_reader` with `tally`, `chunkMap`, `referenced`, `dirSet` and the
records accepted so far; "plan" chooses the entries; "mkdir" creates
the tree; "files" rebuilds them chunk by chunk, reading the chunks back at the
offsets remembered. Any error in extraction removes the tree (`Fail`). A record
that cannot be parsed is `Torn`; the digests of a file with unknown content are
`Garbage`. `StoredRecord` is what a parser can make of bytes: any digests, sizes and
statistics, which is what the theorems quantify over. `ReadAlone` is one operation
on an archive that nothing changes.

**`RgxRoundTrip`.** `Write` and `Read` interleave freely. `Damage`
strikes when writing is over and until the operation is: it changes a field of a
record, loses a record or the tail, or adds a tail.

**`SealedStream`.** `frames` is the file. A frame has its clear header, a body
that remembers what it was sealed with, and the number of body bytes present.
`Authentic` is ideal AEAD: the body opens under the key, stream header and frame
header it was sealed with. `keyed` selects RGXK. `Read` takes from one frame; a
larger `read` call is several of them, the last of which may fail. Headers of frames
are read from the file each time, the stream header once: who opens a stream whose
header was altered, as far as `open` lets it, has the wrong key for good (`keyRight`),
and what happens to the header later does not matter.

**`RgxOutput`.** A name is bound to a file, and an open file outlives its name, so
`rename` over it and truncation under it are both represented. An archive is
a number of parts, each marked with its writer. Dropping a `NamedTempFile` is taken
to remove it; only a process that dies drops nothing.

**`RgxKeygen`.** `save_keypair_text` step by step; a path stands for the pair of
paths `path` and `path.pub`. Where a write fails the private file is removed, and the
removal may fail as well: its error is ignored (recipient.rs:373, 379), so the run
ends with the secret still there (`stage` "left"). Runs whose private path is
another run's public path are left out.

**`RgxSignature`** extends `RgxOutput`: `Packing` is its next-state relation. A signer
goes through `sign_archive` step by step (`SignCheck`, `SignOpen`, `HashPart`,
`HashEnd`, `CreateSignature`, `WriteSignature`), the verifier through
`verify_archive_signature` (`ReadSignature`, `LoadPublicKey`, `LoadSigningKey`,
`VerifyOpen`, `VerifyPart`, `Verified`); a hash follows the file that was opened,
whatever becomes of its name. `fs::write` truncates at one step and writes at
another, whole or in part (`WriteSignatureInPart`), so that two writers leave
spliced texts. The text is three fields, with `Garbage` for what no signer wrote;
`SwapKey` replaces the public-key file between the two reads of it.

**`RgxExtract`.** `trees` is what is at each name: who made it, and who wrote which
file of it how far. `desktop` processes look for a free name (`TakeName`,
`NextName`), the others are given one. `Check` is the `exists()` of
`extract_reader`, `CreateDir` its `create_dir`, `CreateFile` and `WriteFile` are
`extract_file_record`, and a failure goes on to `RemoveFile` and `RemoveDir`,
which `remove_dir_all` does by name and may stop in (`RemoveStops`). The user may
remove a tree that is not being extracted.

**`RgxChunker`.** `rolling` is `RollingHash`, field by field; a word is the set of its
bits, so that `Xor` and `RotateLeft` are what they are in the code at any width.
`Fetch` is a read of any size up to the buffer, `TakeByte` one turn of the inner
loop of `pack_file`, `End` the rest at the end of the file.

**`RgxEnvelope`.** `Envelope(x)` is what `encode_envelope` makes, `Readable` what
`read_envelope` and `validate_prefix` let through, `Unwrap` and
`UnwrapWithPassword` the opening of slots; a box opens to the key it was made for.
`Rotted` is the set of files one fault makes of another: a changed field of the
prefix, a slot or the password slot, exchanged slots, a broken seal.

**`RgxUnlock`.** `pc` is the step; every step that opens the path reads `at`, the
file that is there now; `Replace` puts another archive there and `Damage` changes
it. `request` is what the user chose: program, explicit identity, what is at the
default paths, passphrases, password. `source` is where content finally came from.
The desktop and the command line differ in `Passphrase`, `Refused` and
`TryPassword`.

**`RgxDesktop`.** `busy` is the class on the document, `op` the request that the
backend works on. A click (`ClickPack`, `ClickAccess`, `ClickKeygen`) checks the
fields and builds the request as `app.js` does; `Fails`, `PackSucceeds`,
`KeygenSucceeds` and `AccessSucceeds` are the replies, under the conditions the
commands of `main.rs` check. The fields are chosen at the click, and may be edited
later; only the field that is read after the reply is state (`subject`).

## What the runs check

| Run | Question | Distinct states |
|---|---|---|
| `concurrent` | Do references resolve, chunks stay unique and used, and counters balance wherever the writer is; may a reader come at any moment of the writing; does it end? | 227 289 |
| `read` | Does the record-by-record scan accept exactly the well-formed archives, and is what it accepts delivered? | 907 870 |
| `damage` | Can one fault make a successful extraction wrong, or keep an operation from ending? | 1 605 674 |
| `stream` | Is an encrypted stream the stream of its bytes (refinement of `ByteStream`), and does it ever yield a wrong byte, under one or two faults? | 1 005 742 |
| `output` | Is a published encrypted archive always whole, do parts of two archives ever meet, and is what is signed or verified one archive? | 2 348 442 |
| `keygen` | Are reported key pairs kept, matched, and failures clean as far as the removal works? | 7 151 |
| `unlock` | Does everything delivered come from one archive behind its own envelope, and to whom does it open? | 2 239 899 |
| `extract` | Do extractions ever share a tree, is a success complete, a failure clean, and a finished tree safe from the clean-up of others? | 1 041 736 |
| `chunker` | Do chunks tile the file, keep their sizes, and depend on nothing but the content behind the cut? | 827 453 |
| `desktop` | Does the backend accept what the window sends, does a secret that packs also open, does a result name its archive, does the window stop being busy? | 391 986 |

All of these hold, as stated. Four properties are conjunctions: `ReaderConsistent`
of the reader's types, its tallies (`DedupNotNegative`) and its plan
(`PlannedChunksKnown`); `StreamConsistent` of the stream's types, what frames hold
(`FramesHoldText`) and the length worked out of them (`OpensAtFullLength`);
`ChunkerInv` and `ChunksMatchReferences` of the parts they name. Each part has a
mutant of its own. The types of `RgxOutput` and `RgxExtract`, and `NoStrayTemp`, are
proved instead of checked.

Two runs show a disagreement between the code and what is said of it:

- `backslash`: on Unix a file name with a backslash is packed, and the archive can
  never be read (`normalize_relative_path` and `validate_archive_path` differ).
- `output_overwrite`: of two concurrent packs to one name the later replaces the
  finished archive of the earlier, against the desktop README.

### Observations

What the properties had to be worded around; the comments of the definitions say
where.

- No digest covers paths in a plain archive, so a damaged name that stays valid
  passes `verify` (SECURITY.md:81 says otherwise). `NoLostContent` and
  `NoAlteredContent` are of contents. Encrypted archives authenticate all bytes.
- The empty final frame of a stream whose length is a multiple of the frame size is
  never decrypted, so damage to its tag is not rejected (docs/FORMAT.md:264 requires
  an authenticated final frame). `FullReadIsAuthentic` excepts it; no content is
  affected.
- `parse_signature` takes a hexadecimal field in either case and a length with a
  plus sign, where SECURITY.md:79 and docs/FORMAT.md:341 speak of a strict, canonical
  form. What such a text says is the same, so `VerifiedWasSigned` is of fields.
- The Key-ID of a signature is that of the X25519 key and is not compared with the
  Ed25519 key in the file; the verifier loads both from the key file, which may
  change in between. Verification rests on the Ed25519 key alone.
- `fs::write` of a signature truncates one that appeared since the check. Never is
  the splice of two a valid text (`NoSplicedSignature`): the rest of an earlier text
  is out of step with the fields in front of it, or carries a proof that does not
  fit them.
- A key generation that fails removes its private key and ignores the error of the
  removal (recipient.rs:373, 379). `FailureLeavesNoSecret` therefore excepts a removal
  that failed, and says of such a key that no whole public key stands next to it.
- A default identity that matches but is locked ends the search on the command
  line even if a later one would do or a password is at hand; the desktop goes on
  to the password (docs/RECIPIENT_KEYS.md has the password used only if no matching
  identity is available). `FallbackIsLast` and `OpensToTheEntitled` say both.
- The window trims passwords when it opens and not when it packs (app.js:284), so a
  password with outer spaces never opens there; recipient keys left over from
  another mode make the backend refuse (app.js:511); a listing is titled with what
  the field holds when it arrives (app.js:356). The desktop properties name these
  three exceptions and show that there are no others. The limit of 64 recipients
  (recipient_archive.rs:46), which the window leaves to the backend, is outside
  `PackAccepted`; `RgxUnlock` has it.

### Bounds

- `concurrent`: trees of three entries, two levels, two chunks and at most
  two chunks to a file. Sharing needs two files and one chunk, the
  file/directory conflicts need two levels; `CounterMax` is 5 so that
  `checked_add` fails on some trees and not on others. `ChunkLen` and `ZipLen`
  give the two chunks different lengths, so that counters tell them apart.
- `read`: every sequence of three records, well-formed or not, between header
  and tail, over two chunks and three names. Each rule of the scan relates at
  most two records to each other or to the footer, so three are one more
  than a violation needs. The second chunk is only there to be confused with the
  first.
- `damage`: one fault. Chunks have the same length there, so that sizes do not
  give an exchanged chunk away and only digests can. Two faults can, for
  instance, remove a file and correct the footer. `CounterMax` is 3 there, enough for a
  directory with two files in it and for files of two chunks, so that the run can also
  ask whether every operation ends.
- `stream`: frames of two bytes and up to five bytes of text give no frame, one,
  an exact multiple, and a rest; two different bytes tell positions apart. Two
  faults on texts of up to one frame (two frames, where the final one is empty), one
  on longer ones. `OpensAtFullLength`
  needs its bound of one fault: two can make a shorter stream look complete to
  `open`, and then `DeliversOnlyText` is what remains.
- `output`: two packers over an earlier archive or none, two signers, one verifier,
  archives of two parts, one change of the key file. A mixture needs two writers
  and two parts, a spliced signature two signers; the verifier needs a signer whose
  key is the wrong one.
- `keygen`: four processes on two paths; a race needs two, and a third comes while
  the first two recover.
- `extract`: three processes, two files, two names, so that one fails and cleans
  up while a second finishes and a third comes; the first name may be taken before.
- `unlock`: a plain and a private archive, and recipient archives for one with a
  password, for two, and for one more than may be; two default identities, so that
  a locked, a foreign and an unreadable file can each stand before a usable one;
  one replacement and one fault, in any order and between any steps.
- `chunker`: words of three bits, a window of three, chunks of four to six bytes,
  reads of up to four, files of up to twelve. A full-size cut, a cut by the
  hash, and a cut after the ring has gone round twice all happen; a read may end
  anywhere in the window. The values of `gear_value` matter only in that bytes have
  different ones.
- `desktop`: two paths, so that a result can be titled with another archive than its
  own; the text of a field is empty, blank, a password, or it between spaces.
- Symmetry over processes and over paths is used where no property tells them
  apart, and in no run with a liveness property.
- `CHECK_DEADLOCK FALSE` in all runs but `desktop`: an operation ends, and then
  nothing is left to do. A window can always be clicked.

### Fairness

`ReadEnds`, in `concurrent` and, with a fault at any moment, in `damage`: `ReadFair`
gives weak fairness to the steps of a reading operation that has started: it is
sequential code that does not wait for anything. The writer and the storage get
none. The scan ends because each of its steps moves on in a file that is bounded in
the model, also when a fault shortens, extends or shifts what is in front of it; for
a file that some writer extends for ever RGX gives no bound either.

`BusyEnds`, in `desktop`: weak fairness of `Answers`, the reply to a request that was
sent. Each command runs in `run_blocking`, which turns a panic of the task into an
error, and whatever it runs is a sequential operation as above. Users are not
assumed to do anything.

## What is proved

TLAPS checks these for every value of the constants.

- **Writer** (`RgxRoundTripProofs`). `TypeCorrect`: `Spec => []TypeOK`, which includes that
  no counter passes the ceiling of `checked_add`. `ReferencesAlwaysResolve`,
  `ChunksNeverRepeat`, `ChunksNeverOrphaned`, together
  `ChunksAlwaysMatchReferences`, follow from the inductive invariant
  `Structure`. The three properties are not inductive as they stand: they say
  nothing of `seen`, on which `write_or_reference_chunk` decides. `Structure` adds
  that `seen` is exactly the digests of the CHNK records (`SeenIsWritten`) and
  that the file in progress only names chunks that were seen (`InProgressSeen`).
  Then `WriteChunk` cannot repeat a chunk, and `CloseFile` turns references of the
  file in progress into those of a FILE record behind all of its chunks.
  `ByteLedgerBalances`: every byte of the files is stored once or counted as saved.
  Its sums are over as many records as there are, so it rests on lemmas about
  `SumFunction` (`SumStep`, `SumMonotone`, ...).
- **Reader** (`RgxRoundTripProofs`). `ScanDecidesTheFormat`: for every archive, of any
  length and any content, the scan accepts only what `WellFormed` says of the
  archive as a whole, and rejects nothing else. The invariant is `Scanned`: what
  the scan keeps is a function of the records behind it (`Gathered`, with
  `CatalogOf`, `TallyOf` and `PrefixFormed`), and as long as there is no verdict all
  of them are of the body. Forward (`AcceptedIsWellFormed`), the footer's checks turn
  this into the format: as many references as chunks leave no chunk unused, and the
  statistics are the sums of the format. Backward (`WellFormedIsAccepted`), no record
  of a well-formed archive is refused: in particular no counter can pass its ceiling
  before the footer, because each is a part of one of the footer's, and the sum that the
  scan makes at the footer, `UniqueLogical`, is at most `original_bytes`. `NamedWeighLess`
  has this last fact from the references, and `ReaderStaysConsistent` needs it too: the
  subtraction behind `deduplicated_bytes` does not go below zero.
  `ExtractionNeverCollides` and `ReaderDeliversWhatIsRecorded` add `Planned` (what is
  planned are files of the catalog) and `Delivering`: each wanted file is planned,
  or being rebuilt, or restored with its bytes, and every directory of the
  destination is one of the archive or above a path of it.
- **Writer, reader and storage together** (`RgxRoundTripProofs`). The writer only adds
  records, and the footer last and once (`WritingInv`), so that what the reader has
  gathered is the same of the longer archive (`GatheredGrows`) and its invariant holds
  while the writer is at work (`ReaderKept`). `UnfinishedIsNeverAccepted`: who has
  seen a footer has seen all there will be. `RoundTripRestores` follows, as the
  archive accepted is the one packed. `DamageNeverPasses` needs other means, as
  nothing gathered can be relied on once storage strikes: `Faithfully` says only that
  the digest of a file is one that was packed or one that nothing has, and that what
  is rebuilt are chunks that were compared with their digests; a file is handed out
  when both agree. It holds for any number of faults between any steps.
- **Agreement of writer and reader** (`RgxRoundTripProofs`). `WrittenIsRead`: each check of
  the scan against each record the writer produces, for any tree, limits and
  interleaving. Its hypothesis `Presentable` names the one difference between them:
  no name has a backslash (with one the property fails, see `backslash`). The invariant is `Composing`:
  every prefix of the archive is one the scan gets through (`Legible`), the counters
  of the writer are those the reader will count (`Books`), and every entry lies below
  a directory that was walked, once, and no file where a directory is (`Places`).
  `WrittenIsAccepted` then goes through the checks of each kind of record.
- **One fault loses nothing** (`RgxRoundTripProofs`). `OneFaultLosesNothing`: as long as
  `damage <= 1`, a full extraction that succeeds has as many files as were packed, with
  all their contents. No digest covers the list of records, so that a FILE record
  which was lost is only missed by the footer: it counts the files, and a fault that
  strikes the footer leaves the files alone. The
  invariant `OneFaultInv` makes this precise. Before the fault the catalog has each
  file among the records behind the scan (`Told`, `Unharmed`). After it one of four
  things holds until the verdict (`Accounted`): the records go along with those
  packed, with a field changed at most (`InStep`); one of them is missing further on
  (`LossAhead`) or behind the scan (`LossBehind`); or the archive does not end in a
  footer (`Endless`). At the footer the count (`Numbered`, `Counting`) is of the files packed,
  and so only the first of the four is left, or the record lost was not of a file.
  `Recovering` takes the catalog through the extraction. Of two faults the
  code promises nothing: one may lose a file and the other alter the count in the
  footer.
- **Encrypted streams** (`SealedStreamProofs`). All from the invariant `Streaming`.
  Its part `Disk` says what frames hold. While the stream is written, frame i is the
  i-th piece of the text and the buffer the rest, however the text is cut into calls
  (`WriteFills`). What a failed write leaves has no final frame that is whole, so it
  never opens. After one fault the headers are as they were written, or the scan of
  `open` does not get to its end (`FaultNoticed`): a header whose number, end, lengths
  and size are right is the one that was written (`ScanRecovers`), a lost end leaves
  no final frame, and of a displaced or repeated one the number is wrong. Any number
  of faults leaves bodies that the writer sealed, or noise. `Holding`: what the reader
  keeps in memory is the text of a frame of the writer's under that frame's number.
  With one fault, `Following` says that the frames the reader got something out of
  were intact when it opened the stream. `StreamsAreConsistent` and
  `FullReadsAreAuthentic` follow, and `OnlyTextIsDelivered` from `LoadedIs` and
  `PieceIs`: what loads at a position is what was written there. `StreamRefines`: the
  steps are those of `ByteStream`, with the second fault as the step after which
  `ByteStream` does not look any more.
- **Publication** (`RgxOutputProofs`). `OutputPublishedWhole`: where all packs are
  encrypted (`sealed = Process`), the name is never bound to part of an archive,
  for any number of processes and parts. `Publication` says that a process writes
  only to the file it created, which holds exactly what it has written, and that
  its file is bound to the name only when it is done. `OutputNeverMixed`: with at
  most one plain pack, parts of two archives never meet in one file. `Unmixed` says
  that every file holds the first parts of one archive and that whoever writes has
  the file to itself (`Separate`): it is its own, the earlier one, or that of an
  encrypted pack that is done. `OutputNoStrayTemp` and `OutputTypeOK` follow from the
  types, with the fact that a process that writes has a file open.
- **Signatures** (`RgxOutputProofs`). `SignatureRefines`: every behaviour of
  `RgxSignature` is one of `RgxOutput`, so that all of the above holds next to signers.
  `SignatureVerifiedWasSigned` and `SignatureNoSplice` come from `Texts`: however texts
  were written over each other, what stands in the place of the proof is a proof that
  some signer made of what it read, or what does not parse (`Genuine`). A proof names its
  signer and digest, so a text with valid fields around it is that signer's text.
  `SignatureOneArchive` has an invariant for each of its parts. Where all packs are
  encrypted, who reads has a finished file open (`WholeReads`, on top of
  `Publication`). Where a single process packs, it found the name free and writes
  its own file (`OwnFiles`), so that what was read of it is its beginning
  (`OneReading`).
- **Key pairs** (`RgxKeygenProofs`). `KeygenHandedOutStays`, `KeygenPairMatches`,
  `KeygenFailureLeavesNoSecret`, from `Ownership`: while a process is between
  `create_new` and its end, or has failed to remove what it made, the private file at
  its path is its own, so no two are there at once on one path; and a public file is
  whole only when its owner is done.
- **Extraction** (`RgxExtractProofs`). `ExtractOneWriter`,
  `ExtractSuccessIsComplete`, `ExtractFailureLeavesNothing`, `ExtractTypeOK` and the
  action property `ExtractFinishedStays`, from `Ownership`: a process between
  `create_dir` and its end has the tree at its name, and only it writes there; what
  it has written is in it. `create_dir` fails on what exists, and so no two own one
  name; the rest is that every step touches the own tree only.
- **Chunker** (`RgxChunkerProofs`). `ChunkerInvariant`, with its four parts as
  theorems of their own. The parts hold up each other: `SizesInRange` needs that the
  bytes being collected start where the last chunk ended, `WindowIsRecent` that the
  ring is full once the window has passed. `ChunkerCutsAreLocal`: where a chunk ends
  depends on its own bytes alone. The invariant is that the hash which was never reset
  is the hash of its window (`HashIsFresh`): `HashSlides` shows that the byte which
  leaves the ring, rotated by the window, cancels what it put into the hash.
- **Unlocking** (`RgxUnlockProofs`). `UnlockOneArchive`, `UnlockEnvelopeIntact`, from
  `Progress`: each step belongs to the kind detected, the key held past unlocking is
  that of an archive the identity or password opens, and the files at the path are
  packed archives with any damage. Content is delivered only where the payload is
  under that key, and names the envelope that was hashed. `UnlockOpensToTheEntitled`
  and `UnlockFallbackIsLast`, from `Calm`: while nothing disturbs the path, each step of
  the search knows that the identities in front of it are of no use, so that its end
  decides whether there is one.
- **Desktop** (`RgxDesktopProofs`). `OnlyLeftoverKeysAreRefused`, `OwnSecretsOpen` and
  `ResultsNameTheirArchive`, for any number of archive paths and any order of clicks,
  edits and answers. The properties relate a request under way to what is stored,
  and do not say where the two come from; `DesktopInv` does. A request passed the
  checks of its click and keeps its form until it is answered (`Requested`): a pack request
  has the password that its mode needs and no other (`Matched`). What is stored
  has a mode and a secret that can be typed, or none (`Stored`). A listing under
  way was asked for under the path in the field, unless that was edited since
  (`Listing`); without it `ResultNamesArchive` is not inductive.

The assumptions are those named in the modules (`...Assumption`): limits are
positive, sentinels are not elements of the sets they stand outside of. TLC
evaluates each on the runs. The invariants named here were model-checked before
they were proved.

Sums, hashes and the list of wanted files are recursive. The induction theorems of
the library that take an operator are of no use to the installed provers; the
proofs use well-founded induction on sets of numbers instead (`SetInduction`), unfold a
recursive function as the choice it is defined to be, and show first that there is
such a function (`FoldExists`, `HashExists`, `KeptExists`).

Only model-checked: `ReadEnds` and `BusyEnds`, because liveness under fairness needs
`ENABLED`, which the prover does not support. Every safety property of the passing
runs is stated by a theorem.

## What is not modelled, and why

- Cryptography, compression and digests are ideal: a digest identifies its data,
  an AEAD tag its key and headers, decompression gives back what was compressed.
- Bytes of encodings, wording of reports and text matching in `find`; the
  text of key files and signatures below the level of fields.
- The checks of option combinations and the printing of `main.rs`.
- Views of the window and the list of recipient keys itself.
- What ties a verification to a later extraction: they are two commands that open
  the path by themselves, and the program promises nothing between them.
- Power loss and fsync: RGX never syncs; a crash here is that of a process.
- `benchmark.rs`, the installer, shell and update scripts, HTML and CSS.

## Plan

The modules and theorems of the plan are written. What is left: the checks of option
combinations in `main.rs`, as far as they decide more than wording.
