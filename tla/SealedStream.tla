----------------------------- MODULE SealedStream -----------------------------
(***************************************************************************)
(* The encrypted streams around an inner archive: EncryptedWriter and      *)
(* EncryptedReader of src/src/private.rs (RGXE), KeyedWriter and           *)
(* KeyedReader of src/src/keyed_stream.rs (RGXK).  They differ in the      *)
(* envelope check and in how far a seek may go, which `keyed` selects.     *)
(*                                                                         *)
(* Encryption is ideal: a sealed body opens under the key, the stream      *)
(* header and the frame header it was sealed with, and then yields the     *)
(* plaintext; anything else fails to authenticate.  Lengths are exact, and *)
(* a frame stands at a fixed stride, so the n-th frame of `frames` is what *)
(* a seek to the n-th offset finds.                                        *)
(***************************************************************************)
EXTENDS Integers, Sequences, FiniteSets, SequencesExt

CONSTANTS
  Byte,       \* plaintext bytes
  FrameSize,  \* plaintext bytes of a full frame
  Tag,        \* bytes the AEAD adds
  MaxText,    \* bound: bytes written
  MaxFaults   \* bound: faults of the storage, for each length of the text

ASSUME StreamAssumption ==
  /\ FrameSize \in Nat \ {0} /\ Tag \in Nat \ {0}
  /\ MaxText \in Nat /\ MaxFaults \in [0..MaxText -> Nat]

VARIABLES
  keyed,     \* TRUE for RGXK, FALSE for RGXE
  text,      \* all the plaintext written so far
  buffer,    \* plaintext not yet in a frame
  writing,   \* "open", "finished" or "failed"
  header,    \* the stream header on disk: as written, or altered
  frames,    \* the frames on disk
  sealed,    \* the frames as the writer left them
  faults,    \* faults of the storage so far
  reading,   \* "closed" or "open"
  opened,    \* the frames as they were when it was opened
  keyRight,  \* the reader has the key, and the stream header, of the frames
  position,
  textLen,   \* plaintext_len, from the frame headers
  last,      \* final_sequence
  cached,    \* the frame in memory, or NoFrame
  fresh,     \* bytes delivered without a gap since the stream was opened
  result     \* what the last call returned

writerVars == <<keyed, text, buffer, writing, sealed>>
diskVars   == <<header, frames>>
openVars   == <<reading, opened, keyRight, textLen, last>>
readerVars == <<openVars, position, cached, fresh, result>>
vars == <<writerVars, diskVars, faults, readerVars>>

\* What a call returns.
Nothing == [kind |-> "none", bytes |-> <<>>]
Error   == [kind |-> "error", bytes |-> <<>>]
Ended   == [kind |-> "end", bytes |-> <<>>]
Bytes(s) == [kind |-> "bytes", bytes |-> s]

\* One fault is what the refinement bears.  A stream hit by more promises less
\* (DeliversOnlyText), and is seen from then on as one that nobody reads.
Stream == INSTANCE ByteStream WITH
  text     <- text,
  position <- IF faults <= 1 THEN position ELSE 0,
  result   <- IF faults <= 1 THEN result ELSE Nothing

-----------------------------------------------------------------------------
(* Frames: a header in the clear, and a body that remembers what it was     *)
(* sealed with.  `size` is what of the body is on disk.                     *)

FrameHeader(n, len, final) ==
  [sequence |-> n, plain |-> len, cipher |-> len + Tag, final |-> final]

Frame(n, data, final) ==
  [head |-> FrameHeader(n, Len(data), final),
   body |-> [head |-> FrameHeader(n, Len(data), final), data |-> data],
   size |-> Len(data) + Tag]

\* A body that was sealed with the header of no frame.
Noise   == [head |-> FrameHeader(-1, 0, FALSE), data |-> <<>>]
NoFrame == [sequence |-> -1, data |-> <<>>]

\* decode_frame_header
HeaderValid(h) ==
  /\ h.plain <= FrameSize
  /\ ~h.final => h.plain = FrameSize
  /\ h.cipher = h.plain + Tag

Init ==
  /\ keyed \in BOOLEAN
  /\ text = <<>> /\ buffer = <<>> /\ writing = "open" /\ sealed = <<>>
  /\ header = "written" /\ frames = <<>> /\ faults = 0
  /\ reading = "closed" /\ opened = <<>> /\ keyRight = TRUE /\ position = 0 /\ textLen = 0 /\ last = 0
  /\ cached = NoFrame /\ fresh = 0 /\ result = Nothing

-----------------------------------------------------------------------------
(* Writing *)

\* Fault: every call numbers its frames from the start.
FullFramesRenumbered(s, n) ==
  [i \in 1..(Len(s) \div FrameSize) |->
     Frame(i - 1, SubSeq(s, (i - 1) * FrameSize + 1, i * FrameSize), FALSE)]

\* The full frames that s holds, numbered from n on.
FullFrames(s, n) ==
  [i \in 1..(Len(s) \div FrameSize) |->
     Frame(n + i - 1, SubSeq(s, (i - 1) * FrameSize + 1, i * FrameSize), FALSE)]

\* Fault: a frame that was written stays in the buffer when nothing follows it.
RestLate(s) == SubSeq(s, ((Len(s) - 1) \div FrameSize) * FrameSize + 1, Len(s))

Rest(s) == SubSeq(s, (Len(s) \div FrameSize) * FrameSize + 1, Len(s))

\* write: fill the buffer, emit a frame each time it is full.
Write(data) ==
  /\ writing = "open" /\ Len(text) + Len(data) <= MaxText
  /\ text' = text \o data
  /\ frames' = frames \o FullFrames(buffer \o data, Len(frames))
  /\ buffer' = Rest(buffer \o data)
  /\ UNCHANGED <<keyed, writing, sealed, header, faults, readerVars>>

\* finish: what is left goes into the final frame, which may be empty.
Finish ==
  /\ writing = "open"
  /\ frames' = Append(frames, Frame(Len(frames), buffer, TRUE))
  /\ sealed' = frames'
  /\ buffer' = <<>> /\ writing' = "finished"
  /\ UNCHANGED <<keyed, text, header, faults, readerVars>>

\* A frame cannot be written: the start of it may have reached the disk.
WriteFails ==
  /\ writing = "open"
  /\ writing' = "failed"
  /\ \/ frames' = frames
     \/ frames' = Append(frames, [Frame(Len(frames), buffer, TRUE)
                                    EXCEPT !.body = Noise, !.size = 0])
  /\ sealed' = frames'
  /\ UNCHANGED <<keyed, text, buffer, header, faults, readerVars>>

-----------------------------------------------------------------------------
(* Storage faults *)

AlteredHeaders(h) ==
  {[h EXCEPT !.final = ~@], [h EXCEPT !.sequence = @ + 1],
   [h EXCEPT !.plain = @ + 1], [h EXCEPT !.cipher = @ + 1],
   FrameHeader(h.sequence, 0, TRUE), FrameHeader(h.sequence, FrameSize, FALSE)} \ {h}

AlteredFrames(f) ==
  {[f EXCEPT !.head = h] : h \in AlteredHeaders(f.head)}
    \union ({[f EXCEPT !.body = Noise]} \ {f})

Strike ==
  /\ writing = "finished" /\ faults < MaxFaults[Len(text)]
  /\ faults' = faults + 1
  /\ UNCHANGED <<writerVars, readerVars>>

AlterHeader == Strike /\ header' = "altered" /\ UNCHANGED frames

AlterFrame(i) ==
  /\ Strike /\ UNCHANGED header
  /\ \E f \in AlteredFrames(frames[i]) : frames' = [frames EXCEPT ![i] = f]

\* The file ends at frame i, or in the middle of it.
Truncate(i) ==
  /\ Strike /\ UNCHANGED header
  /\ \/ frames' = SubSeq(frames, 1, i - 1)
     \/ \E size \in {Tag} \ {frames[i].size} :
          frames[i].size > size
          /\ frames' = [SubSeq(frames, 1, i) EXCEPT ![i].body = Noise, ![i].size = size]

\* A stretch of the file comes twice, or not at all, or in another order.
Displace(i, j) ==
  /\ Strike /\ UNCHANGED header
  /\ \/ frames' = SubSeq(frames, 1, i) \o SubSeq(frames, j, Len(frames))
     \/ frames' = [frames EXCEPT ![i] = frames[j], ![j] = frames[i]]
  /\ frames' # frames

Damage ==
  \/ AlterHeader
  \/ \E i \in DOMAIN frames : AlterFrame(i) \/ Truncate(i)
  \/ \E i, j \in DOMAIN frames : Displace(i, j)

-----------------------------------------------------------------------------
(* Reading *)

\* Fault: the end of the file ends the stream as well.
HeadersScanToEof(n) ==
  /\ n \in DOMAIN frames
  /\ \A i \in 1..n :
       /\ HeaderValid(frames[i].head)
       /\ frames[i].head.sequence = i - 1
       /\ frames[i].head.cipher <= frames[i].size
  /\ n = Len(frames) /\ frames[n].head.cipher = frames[n].size

\* Fault: what trails the final frame is ignored.
HeadersScanTrailing(n) ==
  /\ n \in DOMAIN frames
  /\ \A i \in 1..n :
       /\ HeaderValid(frames[i].head)
       /\ frames[i].head.sequence = i - 1
       /\ frames[i].head.cipher <= frames[i].size
       /\ frames[i].head.final <=> i = n

\* The frame headers from the first on, up to the first final one.
HeadersScan(n) ==
  /\ n \in DOMAIN frames
  /\ \A i \in 1..n :
       /\ HeaderValid(frames[i].head)
       /\ frames[i].head.sequence = i - 1
       /\ frames[i].head.cipher <= frames[i].size
       /\ frames[i].head.final <=> i = n
  /\ n = Len(frames) /\ frames[n].head.cipher = frames[n].size   \* nothing trails

\* open: keep the stream header, scan the frame headers; nothing is decrypted
\* yet, so a wrong key is not noticed.  An altered stream header may be, as may
\* its envelope hash.
Open(right) ==
  /\ reading = "closed" /\ writing # "open"
  /\ \E n \in DOMAIN frames :
       /\ HeadersScan(n)
       /\ last' = n - 1
       /\ textLen' = (n - 1) * FrameSize + frames[n].head.plain
  /\ reading' = "open" /\ opened' = frames /\ keyRight' = (right /\ header = "written")
  /\ position' = 0 /\ cached' = NoFrame /\ fresh' = 0 /\ result' = Nothing
  /\ UNCHANGED <<writerVars, diskVars, faults>>

OpenFails ==
  /\ reading = "closed" /\ writing # "open"
  /\ header = "altered" \/ ~\E n \in DOMAIN frames : HeadersScan(n)
  /\ result' = Error
  /\ UNCHANGED <<writerVars, diskVars, faults, openVars, position, cached, fresh>>

\* An RGXK stream refuses to go past its end; an RGXE stream does not.
Seek(p) ==
  /\ reading = "open"
  /\ IF keyed /\ p > textLen
     THEN result' = Error /\ UNCHANGED position
     ELSE result' = Nothing /\ position' = p
  /\ UNCHANGED <<writerVars, diskVars, faults, openVars, cached, fresh>>

\* Fault: the sequence number is in the frame header only, which is not part
\* of what is authenticated.
AuthenticBody(n) ==
  /\ n + 1 \in DOMAIN frames /\ keyRight
  /\ LET f == frames[n + 1] IN f.body # Noise /\ f.head.cipher = f.size

\* load_frame: the frame at the offset of n authenticates, with the stream
\* header that open kept.
Authentic(n) ==
  /\ n + 1 \in DOMAIN frames /\ keyRight
  /\ LET f == frames[n + 1] IN
       /\ HeaderValid(f.head) /\ f.head.sequence = n
       /\ f.body.head = f.head /\ f.head.cipher = f.size

\* Fault: the frame in memory is used whatever its number.
PlainStale(n) == IF cached.sequence >= 0 THEN cached.data ELSE frames[n + 1].body.data

Loaded(n) == cached.sequence = n \/ (n <= last /\ Authentic(n))
Plain(n)  == IF cached.sequence = n THEN cached.data ELSE frames[n + 1].body.data

\* What is left of frame n when the position is p.
Piece(n, p) == SubSeq(Plain(n), (p % FrameSize) + 1, Len(Plain(n)))

\* read: frame after frame until the output is full or the stream ends.
\* One action reads from one frame; a larger read is several of them, with
\* nothing of the caller's in between, and an error after the first of them
\* is one of the whole call, whose bytes are lost though the position moved.
Read(k) ==
  /\ reading = "open" /\ position < textLen
  /\ LET n == position \div FrameSize
         piece == Piece(n, position)
         taken == SubSeq(piece, 1, k)
     IN  /\ Loaded(n) /\ k \in 1..Len(piece)
         /\ result' = Bytes(taken)
         /\ position' = position + k
         /\ fresh' = IF position = fresh THEN fresh + k ELSE fresh
         /\ cached' = [sequence |-> n, data |-> Plain(n)]
  /\ UNCHANGED <<writerVars, diskVars, faults, openVars>>

\* A frame does not load, or has nothing at this position.
ReadFails ==
  /\ reading = "open" /\ position < textLen
  /\ LET n == position \div FrameSize IN
       IF Loaded(n)
       THEN Piece(n, position) = <<>> /\ cached' = [sequence |-> n, data |-> Plain(n)]
       ELSE UNCHANGED cached
  /\ result' = Error
  /\ UNCHANGED <<writerVars, diskVars, faults, openVars, position, fresh>>

ReadEnd ==
  /\ reading = "open" /\ position >= textLen
  /\ result' = Ended
  /\ UNCHANGED <<writerVars, diskVars, faults, openVars, position, cached, fresh>>

Next ==
  \/ \E data \in BoundedSeq(Byte, FrameSize + 1) \ {<<>>} : Write(data)
  \/ Finish
  \/ WriteFails
  \/ Damage
  \/ \E right \in BOOLEAN : Open(right)
  \/ OpenFails
  \/ \E p \in 0..(MaxText + 1) : Seek(p)
  \/ \E k \in 1..FrameSize : Read(k)
  \/ ReadFails
  \/ ReadEnd

Spec == Init /\ [][Next]_vars

-----------------------------------------------------------------------------
(* Properties *)

HeaderType == [sequence : Nat, plain : Nat, cipher : Nat, final : BOOLEAN]

TypeOK ==
  /\ keyed \in BOOLEAN
  /\ text \in Seq(Byte)
  /\ buffer \in Seq(Byte) /\ Len(buffer) < FrameSize
  /\ writing \in {"open", "finished", "failed"}
  /\ header \in {"written", "altered"}
  /\ \A i \in DOMAIN frames :
       /\ frames[i].head \in HeaderType
       /\ frames[i].body.data \in Seq(Byte)
       /\ frames[i].size \in Nat
  /\ reading \in {"closed", "open"} /\ keyRight \in BOOLEAN
  /\ position \in Nat /\ textLen \in Nat /\ last \in Nat /\ fresh \in Nat
  /\ cached.data \in Seq(Byte)

\* However the plaintext was cut into write calls, undamaged frames hold all
\* of it in order, each sealed under a number of its own, every one but the
\* last full, and exactly the last one final: what the reader's arithmetic
\* on positions relies on.
FramesHoldText ==
  faults = 0 /\ writing # "failed" =>
    /\ \A i \in DOMAIN frames :
         LET end == IF i * FrameSize < Len(text) THEN i * FrameSize ELSE Len(text) IN
         frames[i] = Frame(i - 1, SubSeq(text, (i - 1) * FrameSize + 1, end),
                           writing = "finished" /\ i = Len(frames))
    /\ writing = "open" => Len(frames) * FrameSize + Len(buffer) = Len(text)
    /\ writing = "finished" => (Len(frames) - 1) * FrameSize <= Len(text)
                                 /\ Len(text) < Len(frames) * FrameSize

\* Seen through read and seek, the encrypted stream is the stream of bytes
\* that was written: what it returns stands at that position, and it ends
\* where the bytes end, also after a fault of the storage.
ImplementsByteStream == Stream!Spec

\* However much is damaged, and whenever: a read returns the bytes that were
\* written at its position, under the right key only, or none at all.
DeliversOnlyText ==
  [][position' # position /\ result'.kind = "bytes" =>
       keyRight /\ result'.bytes = SubSeq(text, position + 1, position')]_vars

\* An unfinished stream never opens, and one fault (a lost end, a changed,
\* repeated or displaced frame) never makes a stream look shorter or longer
\* than it is: open works the length out of headers it cannot authenticate.
OpensAtFullLength ==
  reading = "open" /\ faults <= 1 => writing = "finished" /\ textLen = Len(text)

\* Writer and reader cut the stream alike: the types, what the frames hold, and
\* the length that is worked out of them when they are opened.
StreamConsistent == TypeOK /\ FramesHoldText /\ OpensAtFullLength

\* The stream that was read without a gap from its start to its end is the
\* stream that was written, frame for frame, but for one case: an empty final
\* frame is never decrypted (private.rs:352), so its body may be anything,
\* although docs/FORMAT.md has readers require an authenticated final frame.
FullReadIsAuthentic ==
  reading = "open" /\ faults <= 1 /\ result = Ended /\ fresh >= textLen =>
    /\ Len(opened) = Len(sealed)
    /\ \A i \in DOMAIN sealed :
         /\ opened[i].head = sealed[i].head
         /\ opened[i] = sealed[i] \/ (i = Len(sealed) /\ sealed[i].head.plain = 0)
=============================================================================
