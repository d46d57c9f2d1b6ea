-------------------------- MODULE SealedStreamProofs --------------------------
(***************************************************************************)
(* What SealedStream promises, for every set of bytes, size of frames, tag, *)
(* length of the text and number of faults.                                *)
(*                                                                         *)
(* Streaming is the inductive invariant.  Disk: the frames hold the text,   *)
(* cut at the multiples of FrameSize; a fault that changes a header keeps   *)
(* the scan of open from getting to the end (FaultNoticed), and no number   *)
(* of faults puts a body there that the writer did not seal.  Holding: what *)
(* the reader keeps in memory is the writer's.  Following: what it got      *)
(* something out of was the writer's when it opened the stream.            *)
(***************************************************************************)
EXTENDS SealedStream, SequenceTheorems, TLAPS

-----------------------------------------------------------------------------
(* Positions and pieces of sequences                                          *)

\* Multiples of the size of a frame.
LEMMA Strides ==
  ASSUME NEW i \in Int, NEW j \in Int
  PROVE  /\ i * FrameSize \in Int /\ 0 * FrameSize = 0
         /\ (i + 1) * FrameSize = i * FrameSize + FrameSize
         /\ i * FrameSize = (i - 1) * FrameSize + FrameSize
         /\ i <= j => i * FrameSize <= j * FrameSize
         /\ i < j => i * FrameSize + FrameSize <= j * FrameSize
         /\ (i + j) * FrameSize = i * FrameSize + j * FrameSize
<1>1. FrameSize \in Nat /\ FrameSize >= 1
  BY StreamAssumption
<1>2. PICK d \in Int : d = j - i
  OBVIOUS
<1>3. d >= 0 => d * FrameSize >= 0
  BY <1>1
<1>4. d >= 1 => d * FrameSize >= FrameSize
  BY <1>1
<1>5. d * FrameSize = j * FrameSize - i * FrameSize
  BY <1>1, <1>2
<1>6. i * FrameSize \in Int /\ j * FrameSize \in Int /\ d * FrameSize \in Int
  BY <1>1
<1>7. /\ 0 * FrameSize = 0 /\ (i + 1) * FrameSize = i * FrameSize + FrameSize
      /\ i * FrameSize = (i - 1) * FrameSize + FrameSize
      /\ (i + j) * FrameSize = i * FrameSize + j * FrameSize
  BY <1>1
<1> QED
  BY <1>1, <1>2, <1>3, <1>4, <1>5, <1>6, <1>7

\* A position by frame and offset.
LEMMA Division ==
  ASSUME NEW k \in Nat
  PROVE  /\ k \div FrameSize \in Nat /\ (k % FrameSize) \in 0..(FrameSize - 1)
         /\ k = (k \div FrameSize) * FrameSize + (k % FrameSize)
<1>1. FrameSize \in Nat \ {0}
  BY StreamAssumption
<1> QED
  BY <1>1

\* A piece of a piece of a sequence is a piece of the sequence.
LEMMA PieceOfPiece ==
  ASSUME NEW S, NEW u \in Seq(S), NEW a \in Nat, NEW b \in Int, a <= b, b <= Len(u),
         NEW t, t = SubSeq(u, a + 1, b),
         NEW i \in Int, NEW j \in Int, 1 <= i, a + j <= b
  PROVE  SubSeq(t, i, j) = SubSeq(u, a + i, a + j)
<1>1. t \in Seq(S) /\ Len(t) = b - a /\ \A k \in 1..(b - a) : t[k] = u[a + k]
  <2>1. \A k \in (a + 1)..b : u[k] \in S
    OBVIOUS
  <2> QED
    BY <2>1, SubSeqProperties
<1>2. PICK l, r : l = SubSeq(t, i, j) /\ r = SubSeq(u, a + i, a + j)
  OBVIOUS
<1>3. /\ l \in Seq(S) /\ Len(l) = IF i <= j THEN j - i + 1 ELSE 0
      /\ \A k \in 1..(j - i + 1) : l[k] = t[i + k - 1]
  <2>1. \A k \in i..j : t[k] \in S
    BY <1>1
  <2> QED
    BY <1>2, <2>1, SubSeqProperties
<1>4. /\ r \in Seq(S) /\ Len(r) = IF i <= j THEN j - i + 1 ELSE 0
      /\ \A k \in 1..(j - i + 1) : r[k] = u[a + i + k - 1]
  <2>1. \A k \in (a + i)..(a + j) : u[k] \in S
    OBVIOUS
  <2> QED
    BY <1>2, <2>1, SubSeqProperties
<1>5. \A k \in 1..Len(l) : l[k] = r[k]
  <2>1. ASSUME NEW k \in 1..Len(l) PROVE l[k] = r[k]
    <3>1. k \in 1..(j - i + 1) /\ i + k - 1 \in 1..(b - a) /\ a + (i + k - 1) = a + i + k - 1
      BY <1>3, <2>1
    <3> QED
      BY <1>1, <1>3, <1>4, <3>1
  <2> QED
    BY <2>1
<1>6. l = r
  BY <1>3, <1>4, <1>5, SeqEqual
<1> QED
  BY <1>2, <1>6

\* The end of a sequence, when something is added to the sequence.
LEMMA TailGrows ==
  ASSUME NEW S, NEW t \in Seq(S), NEW d \in Seq(S), NEW a \in Nat, a <= Len(t)
  PROVE  SubSeq(t, a + 1, Len(t)) \o d = SubSeq(t \o d, a + 1, Len(t) + Len(d))
<1>1. PICK u, p : u = t \o d /\ p = SubSeq(t, a + 1, Len(t))
  OBVIOUS
<1>2. /\ u \in Seq(S) /\ Len(u) = Len(t) + Len(d)
      /\ \A k \in 1..(Len(t) + Len(d)) : u[k] = IF k <= Len(t) THEN t[k] ELSE d[k - Len(t)]
  BY <1>1, ConcatProperties
<1>3. p \in Seq(S) /\ Len(p) = Len(t) - a /\ \A k \in 1..(Len(t) - a) : p[k] = t[a + k]
  <2>1. \A k \in (a + 1)..Len(t) : t[k] \in S
    OBVIOUS
  <2> QED
    BY <1>1, <2>1, SubSeqProperties
<1>4. PICK l, r : l = p \o d /\ r = SubSeq(u, a + 1, Len(t) + Len(d))
  OBVIOUS
<1>5. /\ l \in Seq(S) /\ Len(l) = Len(t) - a + Len(d)
      /\ \A k \in 1..Len(l) : l[k] = IF k <= Len(t) - a THEN p[k] ELSE d[k - (Len(t) - a)]
  <2>1. /\ l \in Seq(S) /\ Len(l) = Len(p) + Len(d)
        /\ \A k \in 1..(Len(p) + Len(d)) : l[k] = IF k <= Len(p) THEN p[k] ELSE d[k - Len(p)]
    BY <1>3, <1>4, ConcatProperties
  <2> QED
    BY <1>3, <2>1
<1>6. r \in Seq(S) /\ Len(r) = Len(t) - a + Len(d) /\ \A k \in 1..Len(r) : r[k] = u[a + k]
  <2>0. Len(t) \in Nat /\ Len(d) \in Nat
    OBVIOUS
  <2>1. PICK c \in Nat, e \in Nat : c = a + 1 /\ e = Len(t) + Len(d) /\ a <= e
    BY <2>0
  <2>2. \A k \in c..e : u[k] \in S
    BY <1>2, <2>1
  <2>3. r = SubSeq(u, c, e)
    BY <1>4, <2>1
  <2>4. /\ r \in Seq(S) /\ Len(r) = IF c <= e THEN e - c + 1 ELSE 0
        /\ \A k \in 1..(e - c + 1) : r[k] = u[c + k - 1]
    BY <2>1, <2>2, <2>3, SubSeqProperties
  <2>5. Len(r) = e - a /\ e - c + 1 = e - a
    BY <2>1, <2>4
  <2>6. \A k \in 1..Len(r) : r[k] = u[a + k]
    <3>1. \A k \in Int : c + k - 1 = a + k
      BY <2>1
    <3>2. \A k \in 1..Len(r) : k \in Int /\ k \in 1..(e - c + 1)
      BY <2>1, <2>5
    <3>3. \A k \in 1..Len(r) : r[k] = u[c + k - 1]
      BY <2>4, <3>2
    <3> QED
      BY <3>1, <3>2, <3>3
  <2>7. Len(r) = Len(t) - a + Len(d)
    BY <2>0, <2>1, <2>5
  <2> QED
    BY <2>4, <2>6, <2>7
<1>7. \A k \in 1..Len(l) : l[k] = r[k]
  <2>1. ASSUME NEW k \in 1..Len(l) PROVE l[k] = r[k]
    <3>1. /\ k \in 1..Len(r) /\ k \in Int /\ a + k \in 1..(Len(t) + Len(d))
          /\ a + k <= Len(t) <=> k <= Len(t) - a
          /\ a + k - Len(t) = k - (Len(t) - a)
      BY <1>5, <1>6, <2>1
    <3>2. r[k] = IF k <= Len(t) - a THEN t[a + k] ELSE d[k - (Len(t) - a)]
      BY <1>2, <1>6, <3>1
    <3> QED
      BY <1>3, <1>5, <2>1, <3>1, <3>2
  <2> QED
    BY <2>1
<1>8. l = r
  BY <1>5, <1>6, <1>7, SeqEqual
<1> QED
  BY <1>1, <1>4, <1>8

\* A piece of the beginning stays when something is added.
LEMMA PieceStays ==
  ASSUME NEW S, NEW t \in Seq(S), NEW d \in Seq(S), NEW i \in Int, NEW j \in Int, 1 <= i, j <= Len(t)
  PROVE  SubSeq(t \o d, i, j) = SubSeq(t, i, j)
<1>1. PICK u : u = t \o d
  OBVIOUS
<1>2. /\ u \in Seq(S) /\ Len(u) = Len(t) + Len(d)
      /\ \A k \in 1..Len(t) : u[k] = t[k]
  BY <1>1, ConcatProperties
<1>3. \A k \in i..j : u[k] \in S /\ t[k] \in S
  BY <1>2
<1>4. PICK l, r : l = SubSeq(u, i, j) /\ r = SubSeq(t, i, j)
  OBVIOUS
<1>5. /\ l \in Seq(S) /\ Len(l) = IF i <= j THEN j - i + 1 ELSE 0
      /\ \A k \in 1..(j - i + 1) : l[k] = u[i + k - 1]
  BY <1>3, <1>4, SubSeqProperties
<1>6. /\ r \in Seq(S) /\ Len(r) = IF i <= j THEN j - i + 1 ELSE 0
      /\ \A k \in 1..(j - i + 1) : r[k] = t[i + k - 1]
  BY <1>3, <1>4, SubSeqProperties
<1>7. \A k \in 1..Len(l) : l[k] = r[k]
  <2>1. ASSUME NEW k \in 1..Len(l) PROVE l[k] = r[k]
    <3>1. k \in 1..(j - i + 1) /\ i + k - 1 \in 1..Len(t)
      BY <1>5, <2>1
    <3> QED
      BY <1>2, <1>5, <1>6, <3>1
  <2> QED
    BY <2>1
<1>8. l = r
  BY <1>5, <1>6, <1>7, SeqEqual
<1> QED
  BY <1>1, <1>4, <1>8

\* A piece of a sequence.
LEMMA PieceType ==
  ASSUME NEW S, NEW u \in Seq(S), NEW i \in Int, NEW j \in Int, 1 <= i, j <= Len(u)
  PROVE  /\ SubSeq(u, i, j) \in Seq(S)
         /\ Len(SubSeq(u, i, j)) = IF i <= j THEN j - i + 1 ELSE 0
<1>1. \A k \in i..j : u[k] \in S
  OBVIOUS
<1> QED
  BY <1>1, SubSeqProperties

-----------------------------------------------------------------------------
(* The invariant                                                              *)

\* Frames as they can be on disk, however damaged.
BodyType  == [head : [sequence : Int, plain : Nat, cipher : Nat, final : BOOLEAN], data : Seq(Byte)]
FrameType == [head : HeaderType, body : BodyType, size : Nat]

\* Frame i of the text, when it is full.
FullFrame(i) == Frame(i - 1, SubSeq(text, (i - 1) * FrameSize + 1, i * FrameSize), FALSE)

\* A stream in progress: full frames, and in the buffer what does not fill one.
Filling ==
  /\ \A i \in DOMAIN frames : frames[i] = FullFrame(i)
  /\ buffer = SubSeq(text, Len(frames) * FrameSize + 1, Len(text))
  /\ Len(frames) * FrameSize + Len(buffer) = Len(text)

\* A finished stream: full frames, and the rest in a final one.
Finished(fs) ==
  LET n == Len(fs) - 1
  IN  /\ n \in Nat
      /\ \A i \in 1..n : fs[i] = FullFrame(i)
      /\ fs[n + 1] = Frame(n, SubSeq(text, n * FrameSize + 1, Len(text)), TRUE)
      /\ n * FrameSize <= Len(text) /\ Len(text) < n * FrameSize + FrameSize

\* A body is noise, or one that the writer sealed.
Sealed(body) == body = Noise \/ \E j \in DOMAIN sealed : body = sealed[j].body

\* Frames with the headers the writer gave them, and bodies that are its own or noise.
SameHeads(fs) ==
  /\ Len(fs) = Len(sealed)
  /\ \A i \in DOMAIN sealed :
       /\ fs[i].head = sealed[i].head /\ fs[i].size = sealed[i].size
       /\ fs[i].body \in {sealed[i].body, Noise}

\* What is on disk.  The scan of the headers notices a fault that changes one.
Disk ==
  /\ writing = "open" => Filling /\ faults = 0 /\ header = "written" /\ sealed = <<>>
  /\ writing = "failed" =>
       /\ frames = sealed /\ faults = 0 /\ header = "written"
       /\ \A n \in DOMAIN frames : ~HeadersScan(n)
  /\ writing = "finished" =>
       /\ Finished(sealed)
       /\ \A i \in DOMAIN frames : Sealed(frames[i].body)
       /\ faults = 0 => frames = sealed /\ header = "written"
       /\ faults <= 1 => SameHeads(frames) \/ \A n \in DOMAIN frames : ~HeadersScan(n)

\* What the reader has in memory is a frame of the writer's, however often
\* storage strikes.
Holding ==
  \/ cached = NoFrame
  \/ /\ keyRight /\ reading = "open"
     /\ \E j \in DOMAIN sealed : cached = [sequence |-> j - 1, data |-> sealed[j].body.data]

\* Where storage struck once at most, the length is that of the text, and the
\* frames that a reader got something out of were the writer's when it opened.
Following ==
  reading = "open" /\ faults <= 1 =>
    /\ SameHeads(opened) /\ textLen = Len(text)
    /\ opened = sealed \/ frames = opened
    /\ \A i \in DOMAIN sealed :
         fresh > (i - 1) * FrameSize \/ cached.sequence = i - 1 => opened[i] = sealed[i]

FramesTyped ==
  /\ faults \in Nat
  /\ frames \in Seq(FrameType) /\ sealed \in Seq(FrameType) /\ opened \in Seq(FrameType)

Streaming ==
  /\ TypeOK /\ FramesTyped
  /\ reading = "open" => writing = "finished"
  /\ reading = "closed" => position = 0 /\ cached = NoFrame /\ result \in {Nothing, Error}
  /\ Disk /\ Holding /\ Following

-----------------------------------------------------------------------------
(* Writing                                                                    *)

\* What Frame makes is a frame.
LEMMA FrameTyped ==
  ASSUME NEW n \in Nat, NEW d \in Seq(Byte), NEW b \in BOOLEAN
  PROVE  Frame(n, d, b) \in FrameType
<1>1. Len(d) \in Nat /\ Tag \in Nat
  BY StreamAssumption
<1>2. PICK l \in Nat, t \in Nat : l = Len(d) /\ t = Tag
  BY <1>1
<1> QED
  BY <1>2 DEF Frame, FrameHeader, FrameType, BodyType, HeaderType

\* However the text is cut into calls of write, the frames hold it in order.
LEMMA WriteFills ==
  ASSUME Streaming, NEW data \in Seq(Byte), Write(data)
  PROVE  /\ text' \in Seq(Byte) /\ frames' \in Seq(FrameType)
         /\ buffer' \in Seq(Byte) /\ Len(buffer') < FrameSize
         /\ Filling'
<1>1. /\ text \in Seq(Byte) /\ buffer \in Seq(Byte) /\ frames \in Seq(FrameType)
      /\ FrameSize \in Nat
  BY StreamAssumption DEF Streaming, TypeOK, FramesTyped
<1>2. /\ \A i \in DOMAIN frames : frames[i] = FullFrame(i)
      /\ buffer = SubSeq(text, Len(frames) * FrameSize + 1, Len(text))
      /\ Len(frames) * FrameSize + Len(buffer) = Len(text)
  BY DEF Streaming, Disk, Write, Filling
<1>3. PICK U, s, N, A, T, B, D, L :
        /\ U = text' /\ s = buffer \o data /\ N = Len(frames) /\ A = Len(frames) * FrameSize
        /\ T = Len(text) /\ B = Len(buffer) /\ D = Len(data) /\ L = Len(s)
  OBVIOUS
<1>4. PICK q, r, Q : q = L \div FrameSize /\ r = (L % FrameSize) /\ Q = q * FrameSize
  OBVIOUS
<1>5. U = text \o data /\ U \in Seq(Byte) /\ Len(U) = T + D
  BY <1>1, <1>3, ConcatProperties DEF Write
<1>6. s \in Seq(Byte) /\ L = B + D
  BY <1>1, <1>3, ConcatProperties
<1>7. N \in Nat /\ T \in Nat /\ B \in Nat /\ D \in Nat
  BY <1>1, <1>3
\* The numbers among them.
<1>8. A \in Nat /\ A = N * FrameSize /\ A + B = T
  <2>1. A \in Int /\ 0 * FrameSize <= N * FrameSize /\ 0 * FrameSize = 0
    BY <1>3, <1>7, Strides
  <2>2. A = N * FrameSize /\ A + B = T
    BY <1>2, <1>3
  <2> QED
    BY <2>1, <2>2
<1>9. q \in Nat /\ r \in 0..(FrameSize - 1) /\ L = Q + r /\ Q \in Nat
  <2>1. L \in Nat
    BY <1>6, <1>7
  <2>2. q \in Nat /\ r \in 0..(FrameSize - 1) /\ L = Q + r
    BY <1>4, <2>1, Division
  <2>3. Q \in Int /\ 0 * FrameSize <= q * FrameSize /\ 0 * FrameSize = 0
    BY <1>4, <2>2, Strides
  <2> QED
    BY <1>4, <2>2, <2>3
<1>10. PICK E \in Nat : E = T + D /\ E = A + L /\ E = A + Q + r /\ A <= T /\ A <= E
  <2>1. r \in Nat
    BY <1>1, <1>9
  <2>2. A \in Nat /\ A + B = T
    BY <1>8
  <2>3. L = Q + r /\ Q \in Nat
    BY <1>9
  <2>4. T + D \in Nat /\ T + D = A + L /\ T + D = A + Q + r /\ A <= T /\ A <= T + D
    BY <1>6, <1>7, <2>1, <2>2, <2>3
  <2> QED
    BY <2>4
<1>11. s = SubSeq(U, A + 1, Len(U)) /\ Len(U) = E
  <2>1. buffer = SubSeq(text, A + 1, Len(text))
    BY <1>2, <1>3
  <2>2. A \in Nat /\ A <= Len(text)
    BY <1>3, <1>8, <1>10
  <2>3. SubSeq(text, A + 1, Len(text)) \o data = SubSeq(text \o data, A + 1, Len(text) + Len(data))
    BY <1>1, <2>2, TailGrows
  <2> QED
    BY <1>3, <1>5, <1>10, <2>1, <2>3
\* A piece of what is in hand is a piece of the text.
<1>12. ASSUME NEW c \in Int, NEW d \in Int, 1 <= c, d <= L
       PROVE  /\ SubSeq(s, c, d) = SubSeq(U, A + c, A + d) /\ SubSeq(s, c, d) \in Seq(Byte)
              /\ Len(SubSeq(s, c, d)) = IF c <= d THEN d - c + 1 ELSE 0
  <2>1. A \in Nat /\ A <= Len(U) /\ A + d <= Len(U)
    <3>1. A \in Nat /\ L \in Nat
      BY <1>6, <1>7, <1>8
    <3>2. A + d <= A + L
      BY <1>12, <3>1
    <3> QED
      BY <1>10, <1>11, <3>1, <3>2
  <2>2. SubSeq(s, c, d) = SubSeq(U, A + c, A + d)
    <3>1. A <= E /\ E \in Int /\ E <= Len(U) /\ A + d <= E /\ s = SubSeq(U, A + 1, E)
      BY <1>10, <1>11, <2>1
    <3> QED
      BY <1>5, <1>12, <2>1, <3>1, PieceOfPiece
  <2>3. d <= Len(s)
    BY <1>3, <1>12
  <2> QED
    BY <1>6, <1>12, <2>2, <2>3, PieceType
<1>13. PICK g : g = FullFrames(s, N)
  OBVIOUS
<1>14. ASSUME NEW i \in 1..q
       PROVE  /\ g[i] = Frame(N + i - 1, SubSeq(U, (N + i - 1) * FrameSize + 1, (N + i) * FrameSize), FALSE)
              /\ g[i] \in FrameType
  <2>1. g[i] = Frame(N + i - 1, SubSeq(s, (i - 1) * FrameSize + 1, i * FrameSize), FALSE)
    BY <1>3, <1>4, <1>13 DEF FullFrames
  <2>2. PICK j \in Nat, n \in Nat, k \in Nat : j = i - 1 /\ n = N + i - 1 /\ k = N + i
    BY <1>7, <1>9
  <2>3. PICK a, b : a = j * FrameSize /\ b = i * FrameSize
    OBVIOUS
  <2>4. a \in Nat /\ b \in Int /\ b <= Q
    <3>1. a \in Int /\ 0 * FrameSize = 0 /\ 0 * FrameSize <= j * FrameSize
      BY <2>2, <2>3, Strides
    <3>2. i \in Int /\ q \in Int /\ i <= q
      BY <1>9
    <3>3. b \in Int /\ b <= Q
      BY <1>4, <2>3, <3>2, Strides
    <3> QED
      BY <2>3, <3>1, <3>3
  <2>5. n * FrameSize = A + a /\ k * FrameSize = A + b
    <3>1. N \in Int /\ i \in Int /\ j \in Int /\ n = N + j /\ k = N + i
      BY <1>7, <1>9, <2>2
    <3>2. (N + j) * FrameSize = N * FrameSize + j * FrameSize
      BY <3>1, Strides
    <3>3. (N + i) * FrameSize = N * FrameSize + i * FrameSize
      BY <3>1, Strides
    <3> QED
      BY <1>8, <2>3, <3>1, <3>2, <3>3
  <2>6. PICK c \in Int : c = a + 1
    BY <2>4
  <2>7. 1 <= c /\ b <= L /\ A + c = n * FrameSize + 1
    <3>1. L = Q + r /\ r \in Nat /\ Q \in Nat
      BY <1>1, <1>9
    <3>2. A + (a + 1) = (A + a) + 1
      BY <1>8, <2>4
    <3> QED
      BY <2>4, <2>5, <2>6, <3>1, <3>2
  <2>8. PICK e \in Seq(Byte) : e = SubSeq(s, c, b) /\ e = SubSeq(U, A + c, A + b)
    BY <1>12, <2>4, <2>7
  <2>9. e = SubSeq(U, n * FrameSize + 1, k * FrameSize)
    BY <2>5, <2>7, <2>8
  <2>10. g[i] = Frame(n, e, FALSE)
    BY <2>1, <2>2, <2>3, <2>6, <2>8
  <2> QED
    BY <2>2, <2>9, <2>10, FrameTyped
<1>15. g \in Seq(FrameType) /\ Len(g) = q
  <2>1. DOMAIN g = 1..q /\ g = [i \in 1..q |-> g[i]]
    BY <1>3, <1>4, <1>13 DEF FullFrames
  <2>2. g \in [1..q -> FrameType]
    BY <1>14, <2>1
  <2> QED
    BY <1>9, <2>2
<1>16. /\ frames' \in Seq(FrameType) /\ Len(frames') = N + q
       /\ \A i \in 1..(N + q) : frames'[i] = IF i <= N THEN frames[i] ELSE g[i - N]
  <2>1. frames' = frames \o g
    BY <1>3, <1>13 DEF Write
  <2> QED
    BY <1>1, <1>3, <1>15, <2>1, ConcatProperties
<1>17. ASSUME NEW i \in 1..(N + q)
       PROVE  frames'[i] = Frame(i - 1, SubSeq(U, (i - 1) * FrameSize + 1, i * FrameSize), FALSE)
  <2>1. CASE i <= N
    <3>1. i \in DOMAIN frames /\ i \in Int
      BY <1>1, <1>3, <1>7, <1>9, <2>1
    <3>2. frames[i] = Frame(i - 1, SubSeq(text, (i - 1) * FrameSize + 1, i * FrameSize), FALSE)
      BY <1>2, <3>1 DEF FullFrame
    <3>3. PICK j \in Nat : j = i - 1
      BY <1>7, <1>9
    <3>4. PICK a, b, c : a = j * FrameSize /\ b = i * FrameSize /\ c = a + 1
      OBVIOUS
    <3>5. a \in Int /\ 0 * FrameSize = 0 /\ 0 * FrameSize <= j * FrameSize
      BY <3>3, <3>4, Strides
    <3>6. b \in Int /\ b <= A
      <4>1. i * FrameSize \in Int /\ i * FrameSize <= N * FrameSize
        BY <1>7, <2>1, <3>1, Strides
      <4> QED
        BY <1>8, <3>4, <4>1
    <3>7. c \in Int /\ 1 <= c /\ b <= Len(text)
      <4>1. a \in Int /\ 0 <= a
        BY <3>4, <3>5
      <4>2. b \in Int /\ A \in Int /\ T \in Int /\ A <= T
        BY <1>7, <1>8, <1>10, <3>6
      <4> QED
        BY <1>3, <3>4, <3>6, <4>1, <4>2
    <3>8. SubSeq(text \o data, c, b) = SubSeq(text, c, b)
      BY <1>1, <3>6, <3>7, PieceStays
    <3> QED
      BY <1>5, <1>16, <2>1, <3>2, <3>3, <3>4, <3>8
  <2>2. CASE ~(i <= N)
    <3>1. PICK k \in 1..q : k = i - N /\ N + k = i /\ N + k - 1 = i - 1
      BY <1>7, <1>9, <2>2
    <3>2. g[k] = Frame(N + k - 1, SubSeq(U, (N + k - 1) * FrameSize + 1, (N + k) * FrameSize), FALSE)
      BY <1>14
    <3> QED
      BY <1>16, <2>2, <3>1, <3>2
  <2> QED
    BY <2>1, <2>2
<1>18. buffer' = SubSeq(U, A + Q + 1, E) /\ buffer' \in Seq(Byte) /\ Len(buffer') = r
  <2>1. PICK c \in Int : c = Q + 1
    BY <1>9
  <2>2. buffer' = SubSeq(s, c, L)
    BY <1>3, <1>4, <2>1 DEF Write, Rest
  <2>3. /\ L \in Int /\ 1 <= c /\ L <= L /\ A + L = E /\ A + c = A + Q + 1
        /\ r = IF c <= L THEN L - c + 1 ELSE 0
    <3>1. r \in Nat /\ Q \in Nat /\ L = Q + r /\ A \in Nat
      BY <1>1, <1>8, <1>9
    <3> QED
      BY <1>10, <2>1, <3>1
  <2>4. /\ SubSeq(s, c, L) = SubSeq(U, A + c, A + L) /\ SubSeq(s, c, L) \in Seq(Byte)
        /\ Len(SubSeq(s, c, L)) = IF c <= L THEN L - c + 1 ELSE 0
    BY <1>12, <2>3
  <2> QED
    BY <2>2, <2>3, <2>4
<1>19. A + Q = (N + q) * FrameSize /\ (N + q) * FrameSize + r = E
  <2>1. (N + q) * FrameSize = N * FrameSize + q * FrameSize
    BY <1>7, <1>9, Strides
  <2> QED
    BY <1>4, <1>8, <1>10, <2>1
<1>20. Filling'
  <2>1. DOMAIN frames' = 1..(N + q)
    BY <1>16
  <2>2. \A i \in 1..(N + q) : FullFrame(i)' = Frame(i - 1, SubSeq(U, (i - 1) * FrameSize + 1, i * FrameSize), FALSE)
    BY <1>3 DEF FullFrame, Frame, FrameHeader
  <2>3. (\A i \in DOMAIN frames : frames[i] = FullFrame(i))'
    BY <1>17, <2>1, <2>2
  <2>4. (/\ buffer = SubSeq(text, Len(frames) * FrameSize + 1, Len(text))
         /\ Len(frames) * FrameSize + Len(buffer) = Len(text))'
    BY <1>3, <1>11, <1>16, <1>18, <1>19
  <2> QED
    BY <2>3, <2>4 DEF Filling
<1>21. Len(buffer') < FrameSize
  BY <1>1, <1>9, <1>18
<1> QED
  BY <1>3, <1>5, <1>16, <1>18, <1>20, <1>21

\* What FrameHeader makes, field by field.
LEMMA HeaderFields ==
  ASSUME NEW n, NEW p, NEW b
  PROVE  /\ FrameHeader(n, p, b).sequence = n /\ FrameHeader(n, p, b).plain = p
         /\ FrameHeader(n, p, b).cipher = p + Tag /\ FrameHeader(n, p, b).final = b
BY DEF FrameHeader

\* A frame is one, field by field.
LEMMA FramesEqual ==
  ASSUME NEW f \in FrameType, NEW g \in FrameType, f.head = g.head, f.body = g.body, f.size = g.size
  PROVE  f = g
BY DEF FrameType

\* So is a header.
LEMMA HeadersEqual ==
  ASSUME NEW f \in HeaderType, NEW g \in HeaderType, f.sequence = g.sequence, f.plain = g.plain,
         f.cipher = g.cipher, f.final = g.final
  PROVE  f = g
BY DEF HeaderType

-----------------------------------------------------------------------------
(* What is on disk                                                            *)

\* Where frame i + 1 begins.
Offset(i) == i * FrameSize

\* Offsets grow with the number of the frame.
LEMMA Offsets ==
  ASSUME NEW i \in Nat
  PROVE  /\ Offset(i) \in Nat /\ Offset(i + 1) = Offset(i) + FrameSize
         /\ \A j \in Nat : (i <= j => Offset(i) <= Offset(j)) /\ (i < j => Offset(i + 1) <= Offset(j))
<1>1. i * FrameSize \in Int /\ 0 * FrameSize <= i * FrameSize /\ 0 * FrameSize = 0
  BY Strides
<1>2. Offset(i) \in Nat
  BY <1>1 DEF Offset
<1>3. (i + 1) * FrameSize = i * FrameSize + FrameSize
  BY Strides
<1>4. \A j \in Nat : i <= j => i * FrameSize <= j * FrameSize
  BY Strides
<1>5. \A j \in Nat : i < j => (i + 1) * FrameSize <= j * FrameSize
  <2>1. ASSUME NEW j \in Nat, i < j PROVE (i + 1) * FrameSize <= j * FrameSize
    <3>1. i + 1 \in Int /\ j \in Int /\ i + 1 <= j
      BY <2>1
    <3> QED
      BY <3>1, Strides
  <2> QED
    BY <2>1
<1> QED
  BY <1>2, <1>3, <1>4, <1>5 DEF Offset

\* The bytes of frame i, of which there are p.
FrameText(i, p) == SubSeq(text, Offset(i - 1) + 1, Offset(i - 1) + p)

\* They are that many, where the text reaches so far.
LEMMA FrameTexts ==
  ASSUME text \in Seq(Byte), NEW i \in Nat \ {0}, NEW p \in Nat, Offset(i - 1) + p <= Len(text)
  PROVE  FrameText(i, p) \in Seq(Byte) /\ Len(FrameText(i, p)) = p
<1>1. PICK c \in Int, d \in Int : /\ c = Offset(i - 1) + 1 /\ d = Offset(i - 1) + p /\ 1 <= c /\ d <= Len(text)
                                /\ (IF c <= d THEN d - c + 1 ELSE 0) = p
  <2>1. Offset(i - 1) \in Nat
    BY Offsets
  <2> QED
    BY <2>1
<1> QED
  BY <1>1, PieceType DEF FrameText

\* Frame i of a finished stream of n frames has p bytes.
SealedWith(i, n, p) ==
  /\ sealed[i] = Frame(i - 1, FrameText(i, p), i = n)
  /\ Len(FrameText(i, p)) = p /\ FrameText(i, p) \in Seq(Byte)
  /\ Offset(i - 1) + p <= Len(text)
  /\ IF i = n THEN p < FrameSize /\ Offset(i - 1) + p = Len(text) ELSE p = FrameSize

\* The frames of a finished stream.
LEMMA SealedAre ==
  ASSUME text \in Seq(Byte), Finished(sealed)
  PROVE  /\ Len(sealed) \in Nat \ {0}
         /\ \A i \in 1..Len(sealed) : \E p \in Nat : SealedWith(i, Len(sealed), p)
<1>1. FrameSize \in Nat /\ Len(text) \in Nat
  BY StreamAssumption
<1>2. PICK n : n = Len(sealed) - 1
  OBVIOUS
<1>3. /\ n \in Nat /\ Len(sealed) = n + 1
      /\ \A i \in 1..n : sealed[i] = FullFrame(i)
      /\ sealed[n + 1] = Frame(n, SubSeq(text, Offset(n) + 1, Len(text)), TRUE)
      /\ Offset(n) <= Len(text) /\ Len(text) < Offset(n) + FrameSize
  <2>1. n \in Nat /\ n + 1 = Len(sealed)
    <3>1. Len(sealed) - 1 \in Nat
      BY DEF Finished
    <3> QED
      BY <1>2, <3>1
  <2> QED
    BY <1>2, <2>1 DEF Finished, Offset
<1>4. Offset(n) \in Nat
  BY <1>3, Offsets
<1>5. ASSUME NEW i \in 1..n PROVE SealedWith(i, n + 1, FrameSize)
  <2>1. PICK j \in Nat : j = i - 1 /\ i = j + 1 /\ i \in Nat \ {0} /\ (i = n + 1) = FALSE /\ i <= n
    BY <1>3
  <2>2. Offset(j) \in Nat /\ Offset(i) = Offset(j) + FrameSize /\ Offset(i) <= Offset(n) /\ Offset(i) \in Nat
    BY <1>3, <2>1, Offsets
  <2>3. Offset(j) + FrameSize <= Len(text)
    BY <1>1, <1>3, <1>4, <2>2
  <2>4. FrameText(i, FrameSize) \in Seq(Byte) /\ Len(FrameText(i, FrameSize)) = FrameSize
    BY <1>1, <2>1, <2>3, FrameTexts
  <2>5. sealed[i] = Frame(j, SubSeq(text, Offset(j) + 1, Offset(i)), FALSE)
    BY <1>3, <2>1 DEF FullFrame, Offset
  <2>6. sealed[i] = Frame(j, FrameText(i, FrameSize), FALSE)
    BY <2>1, <2>2, <2>5 DEF FrameText
  <2> QED
    BY <2>1, <2>3, <2>4, <2>6 DEF SealedWith
<1>6. PICK p \in Nat : Offset(n) + p = Len(text) /\ p < FrameSize
  <2>1. Len(text) - Offset(n) \in Nat
    BY <1>1, <1>3, <1>4
  <2> QED
    BY <1>1, <1>3, <1>4, <2>1
<1>7. SealedWith(n + 1, n + 1, p)
  <2>1. PICK i \in Nat \ {0} : i = n + 1 /\ i - 1 = n
    BY <1>3
  <2>2. FrameText(i, p) \in Seq(Byte) /\ Len(FrameText(i, p)) = p
    BY <1>6, <2>1, FrameTexts
  <2>3. sealed[i] = Frame(n, FrameText(i, p), TRUE)
    BY <1>3, <1>6, <2>1 DEF FrameText
  <2>4. (i = i) = TRUE /\ Offset(i - 1) + p = Len(text) /\ Offset(i - 1) + p <= Len(text)
    BY <1>1, <1>6, <2>1
  <2>5. sealed[i] = Frame(i - 1, FrameText(i, p), i = i)
    BY <2>1, <2>3, <2>4
  <2>6. SealedWith(i, i, p)
    BY <1>6, <2>2, <2>4, <2>5 DEF SealedWith
  <2> QED
    BY <2>1, <2>6
<1>8. \A i \in 1..(n + 1) : i \in 1..n \/ i = n + 1
  BY <1>3
<1> QED
  BY <1>1, <1>3, <1>5, <1>6, <1>7, <1>8

\* HeadersScan, of any frames.
Scan(fs, n) ==
  /\ n \in DOMAIN fs
  /\ \A i \in 1..n :
       /\ HeaderValid(fs[i].head)
       /\ fs[i].head.sequence = i - 1
       /\ fs[i].head.cipher <= fs[i].size
       /\ fs[i].head.final <=> i = n
  /\ n = Len(fs) /\ fs[n].head.cipher = fs[n].size

\* Open scans the frames on disk.
LEMMA ScansAre == \A n : HeadersScan(n) = Scan(frames, n)
BY DEF HeadersScan, Scan

\* Where length, number, end and size are right, the header is: a scan that gets
\* to the end leaves nothing else to be altered in it.
LEMMA ScanRecovers ==
  ASSUME text \in Seq(Byte), Finished(sealed), NEW fs \in Seq(FrameType), Len(fs) = Len(sealed),
         NEW n, Scan(fs, n), NEW i \in 1..Len(sealed), fs[i].size = sealed[i].size
  PROVE  fs[i].head = sealed[i].head
<1>1. PICK N \in Nat \ {0} : N = Len(sealed) /\ n = N /\ i \in 1..N
  BY SealedAre DEF Scan
<1>2. PICK p \in Nat : SealedWith(i, N, p)
  BY <1>1, SealedAre
<1>3. PICK h, g : h = fs[i].head /\ g = sealed[i].head
  OBVIOUS
<1>4. h \in HeaderType
  <2>1. fs[i] \in FrameType
    BY <1>1
  <2> QED
    BY <1>3, <2>1 DEF FrameType
<1>5. /\ g.sequence = i - 1 /\ g.plain = p /\ g.cipher = p + Tag /\ g.final = (i = N)
      /\ sealed[i].size = p + Tag /\ g = FrameHeader(i - 1, p, i = N)
  <2>1. PICK k, b, d : k = i - 1 /\ b = (i = N) /\ d = FrameText(i, p)
    OBVIOUS
  <2>2. sealed[i] = Frame(k, d, b) /\ Len(d) = p
    BY <1>2, <2>1 DEF SealedWith
  <2>3. g = FrameHeader(k, p, b) /\ sealed[i].size = p + Tag
    <3>1. sealed[i].head = FrameHeader(k, Len(d), b) /\ sealed[i].size = Len(d) + Tag
      <4>1. /\ Frame(k, d, b).head = FrameHeader(k, Len(d), b)
            /\ Frame(k, d, b).size = Len(d) + Tag
        BY DEF Frame
      <4> QED
        BY <2>2, <4>1
    <3> QED
      BY <1>3, <2>2, <3>1
  <2> QED
    BY <2>1, <2>3, HeaderFields
<1>6. /\ h.plain <= FrameSize /\ (~h.final => h.plain = FrameSize) /\ h.cipher = h.plain + Tag
      /\ h.sequence = i - 1 /\ (h.final <=> i = N) /\ (i = N => h.cipher = fs[i].size)
  BY <1>1, <1>3 DEF Scan, HeaderValid
<1>7. h.plain \in Nat /\ h.final \in BOOLEAN /\ Tag \in Nat /\ FrameSize \in Nat /\ i \in Nat \ {0}
  BY <1>1, <1>4, StreamAssumption DEF HeaderType
<1>8. h.plain = p
  <2>1. CASE i = N
    BY <1>5, <1>6, <1>7, <2>1
  <2>2. CASE i # N
    BY <1>2, <1>6, <2>2 DEF SealedWith
  <2> QED
    BY <2>1, <2>2
<1>9. h.final = (i = N)
  BY <1>6, <1>7
<1>10. g \in HeaderType
  BY <1>5, <1>7 DEF HeaderType, FrameHeader
<1>11. h = g
  BY <1>4, <1>5, <1>6, <1>8, <1>9, <1>10, HeadersEqual
<1> QED
  BY <1>3, <1>11

\* An altered frame is a frame of the same size.
LEMMA AlteredAre ==
  ASSUME NEW f \in FrameType, NEW g \in AlteredFrames(f)
  PROVE  g \in FrameType /\ g.size = f.size /\ g.body \in {f.body, Noise}
<1>1. Noise \in BodyType
  BY StreamAssumption DEF Noise, BodyType, FrameHeader
<1>2. ASSUME NEW h \in AlteredHeaders(f.head), g = [f EXCEPT !.head = h]
      PROVE  g \in FrameType /\ g.size = f.size /\ g.body \in {f.body, Noise}
  <2>1. f.head \in HeaderType
    BY DEF FrameType
  <2>2. h \in HeaderType
    <3>1. PICK e \in HeaderType : e = f.head
      BY <2>1
    <3>2. /\ [e EXCEPT !.final = ~@] \in HeaderType /\ [e EXCEPT !.sequence = @ + 1] \in HeaderType
          /\ [e EXCEPT !.plain = @ + 1] \in HeaderType /\ [e EXCEPT !.cipher = @ + 1] \in HeaderType
      <4>1. /\ e.sequence \in Nat /\ e.plain \in Nat /\ e.cipher \in Nat /\ e.final \in BOOLEAN
            /\ e.sequence + 1 \in Nat /\ e.plain + 1 \in Nat /\ e.cipher + 1 \in Nat /\ (~e.final) \in BOOLEAN
        <5>1. e.sequence \in Nat /\ e.plain \in Nat /\ e.cipher \in Nat /\ e.final \in BOOLEAN
          BY DEF HeaderType
        <5>2. (~e.final) \in BOOLEAN
          OBVIOUS
        <5> QED
          BY <5>1, <5>2
      <4>2. [e EXCEPT !.final = ~@] \in HeaderType
        BY <4>1 DEF HeaderType
      <4>3. [e EXCEPT !.sequence = @ + 1] \in HeaderType
        BY <4>1 DEF HeaderType
      <4>4. [e EXCEPT !.plain = @ + 1] \in HeaderType
        BY <4>1 DEF HeaderType
      <4>5. [e EXCEPT !.cipher = @ + 1] \in HeaderType
        BY <4>1 DEF HeaderType
      <4> QED
        BY <4>2, <4>3, <4>4, <4>5
    <3>3. FrameHeader(e.sequence, 0, TRUE) \in HeaderType /\ FrameHeader(e.sequence, FrameSize, FALSE) \in HeaderType
      BY StreamAssumption DEF HeaderType, FrameHeader
    <3> QED
      BY <1>2, <3>1, <3>2, <3>3 DEF AlteredHeaders
  <2> QED
    BY <1>2, <2>2 DEF FrameType
<1>3. ASSUME g = [f EXCEPT !.body = Noise]
      PROVE  g \in FrameType /\ g.size = f.size /\ g.body \in {f.body, Noise}
  BY <1>1, <1>3 DEF FrameType
<1> QED
  BY <1>2, <1>3 DEF AlteredFrames

\* Whatever storage does to frames, it puts none of its own sealing there.
LEMMA DamageTyped ==
  ASSUME frames \in Seq(FrameType), Damage
  PROVE  /\ frames' \in Seq(FrameType)
         /\ \A k \in DOMAIN frames' : \E i \in DOMAIN frames : frames'[k].body \in {frames[i].body, Noise}
<1>0. PICK N \in Nat : N = Len(frames) /\ DOMAIN frames = 1..N
  OBVIOUS
<1>1. CASE AlterHeader
  BY <1>1 DEF AlterHeader
<1>2. ASSUME NEW i \in DOMAIN frames, AlterFrame(i)
      PROVE  /\ frames' \in Seq(FrameType)
             /\ \A k \in DOMAIN frames' : \E j \in DOMAIN frames : frames'[k].body \in {frames[j].body, Noise}
  <2>1. PICK f \in AlteredFrames(frames[i]) : frames' = [frames EXCEPT ![i] = f]
    BY <1>2 DEF AlterFrame
  <2>2. f \in FrameType /\ f.body \in {frames[i].body, Noise}
    BY <2>1, AlteredAre
  <2>3. frames' \in Seq(FrameType) /\ DOMAIN frames' = DOMAIN frames
        /\ \A k \in DOMAIN frames : frames'[k] = IF k = i THEN f ELSE frames[k]
    BY <2>1, <2>2
  <2> QED
    BY <2>2, <2>3
<1>3. ASSUME NEW i \in DOMAIN frames, Truncate(i)
      PROVE  /\ frames' \in Seq(FrameType)
             /\ \A k \in DOMAIN frames' : \E j \in DOMAIN frames : frames'[k].body \in {frames[j].body, Noise}
  <2>1. CASE frames' = SubSeq(frames, 1, i - 1)
    <3>1. i - 1 \in Int /\ i - 1 <= N /\ i - 1 >= 0
      BY <1>0, <1>3
    <3>2. \A k \in 1..(i - 1) : frames[k] \in FrameType
      BY <1>0, <3>1
    <3>3. /\ frames' \in Seq(FrameType) /\ Len(frames') = i - 1
          /\ \A k \in 1..(i - 1) : frames'[k] = frames[k]
      BY <2>1, <3>1, <3>2, SubSeqProperties
    <3> QED
      BY <1>0, <3>1, <3>3
  <2>2. CASE \E size \in {Tag} \ {frames[i].size} :
               frames[i].size > size
               /\ frames' = [SubSeq(frames, 1, i) EXCEPT ![i].body = Noise, ![i].size = size]
    <3>1. PICK g : g = SubSeq(frames, 1, i)
      OBVIOUS
    <3>2. i \in Int /\ i <= N /\ i >= 1
      BY <1>0, <1>3
    <3>3. \A k \in 1..i : frames[k] \in FrameType
      BY <1>0, <3>2
    <3>4. g \in Seq(FrameType) /\ Len(g) = i /\ \A k \in 1..i : g[k] = frames[k]
      BY <3>1, <3>2, <3>3, SubSeqProperties
    <3>5. frames' = [g EXCEPT ![i] = [g[i] EXCEPT !.body = Noise, !.size = Tag]]
      BY <2>2, <3>1
    <3>6. PICK f : f = [g[i] EXCEPT !.body = Noise, !.size = Tag]
      OBVIOUS
    <3>7. g[i] \in FrameType /\ Noise \in BodyType /\ Tag \in Nat
      BY <3>2, <3>4, StreamAssumption DEF Noise, BodyType, FrameHeader
    <3>8. f \in FrameType /\ f.body = Noise
      BY <3>6, <3>7 DEF FrameType
    <3>9. frames' \in Seq(FrameType) /\ DOMAIN frames' = 1..i
          /\ \A k \in 1..i : frames'[k] = IF k = i THEN f ELSE frames[k]
      BY <3>2, <3>4, <3>5, <3>6, <3>8
    <3> QED
      BY <1>0, <3>2, <3>8, <3>9
  <2> QED
    BY <1>3, <2>1, <2>2 DEF Truncate
<1>4. ASSUME NEW i \in DOMAIN frames, NEW j \in DOMAIN frames, Displace(i, j)
      PROVE  /\ frames' \in Seq(FrameType)
             /\ \A k \in DOMAIN frames' : \E m \in DOMAIN frames : frames'[k].body \in {frames[m].body, Noise}
  <2>1. CASE frames' = SubSeq(frames, 1, i) \o SubSeq(frames, j, Len(frames))
    <3>1. PICK a, b : a = SubSeq(frames, 1, i) /\ b = SubSeq(frames, j, N)
      OBVIOUS
    <3>2. i \in 1..N /\ j \in 1..N
      BY <1>0, <1>4
    <3>3. a \in Seq(FrameType) /\ Len(a) = i /\ \A k \in 1..i : a[k] = frames[k]
      <4>1. \A k \in 1..i : frames[k] \in FrameType
        BY <1>0, <3>2
      <4> QED
        BY <3>1, <3>2, <4>1, SubSeqProperties
    <3>4. b \in Seq(FrameType) /\ Len(b) = N - j + 1 /\ \A k \in 1..(N - j + 1) : b[k] = frames[j + k - 1]
      <4>1. \A k \in j..N : frames[k] \in FrameType
        BY <1>0, <3>2
      <4> QED
        BY <3>1, <3>2, <4>1, SubSeqProperties
    <3>5. /\ frames' \in Seq(FrameType) /\ Len(frames') = Len(a) + Len(b)
          /\ \A k \in 1..(Len(a) + Len(b)) : frames'[k] = IF k <= Len(a) THEN a[k] ELSE b[k - Len(a)]
      BY <1>0, <2>1, <3>1, <3>3, <3>4, ConcatProperties
    <3>6. ASSUME NEW k \in DOMAIN frames' PROVE \E m \in DOMAIN frames : frames'[k] = frames[m]
      <4>1. k \in 1..(i + (N - j + 1)) /\ frames'[k] = IF k <= i THEN a[k] ELSE b[k - i]
        BY <3>3, <3>4, <3>5
      <4>2. CASE k <= i
        <5>1. k \in 1..i /\ k \in 1..N
          BY <3>2, <4>1, <4>2
        <5> QED
          BY <1>0, <3>3, <4>1, <4>2, <5>1
      <4>3. CASE ~(k <= i)
        <5>1. k - i \in 1..(N - j + 1) /\ j + (k - i) - 1 \in 1..N
          BY <3>2, <4>1, <4>3
        <5> QED
          BY <1>0, <3>4, <4>1, <4>3, <5>1
      <4> QED
        BY <4>2, <4>3
    <3> QED
      BY <3>5, <3>6
  <2>2. CASE frames' = [frames EXCEPT ![i] = frames[j], ![j] = frames[i]]
    <3>1. frames' \in Seq(FrameType) /\ DOMAIN frames' = DOMAIN frames
          /\ \A k \in DOMAIN frames : frames'[k] = IF k = j THEN frames[i] ELSE IF k = i THEN frames[j] ELSE frames[k]
      BY <1>0, <2>2
    <3> QED
      BY <3>1
  <2> QED
    BY <1>4, <2>1, <2>2 DEF Displace
<1> QED
  BY <1>1, <1>2, <1>3, <1>4 DEF Damage

\* A frame of a finished stream, field by field.
LEMMA SealedFields ==
  ASSUME text \in Seq(Byte), Finished(sealed), NEW i \in 1..Len(sealed)
  PROVE  \E p \in Nat :
           /\ sealed[i].head = FrameHeader(i - 1, p, i = Len(sealed))
           /\ sealed[i].head.sequence = i - 1 /\ sealed[i].head.plain = p
           /\ sealed[i].head.cipher = p + Tag /\ (sealed[i].head.final <=> i = Len(sealed))
           /\ sealed[i].size = p + Tag
           /\ sealed[i].body.head = sealed[i].head /\ sealed[i].body.data = FrameText(i, p)
           /\ SealedWith(i, Len(sealed), p)
<1>1. PICK N \in Nat \ {0} : N = Len(sealed) /\ i \in 1..N
  BY SealedAre
<1>2. PICK p \in Nat : SealedWith(i, N, p)
  BY <1>1, SealedAre
<1>3. PICK k, b, d : k = i - 1 /\ b = (i = N) /\ d = FrameText(i, p)
  OBVIOUS
<1>4. sealed[i] = Frame(k, d, b) /\ Len(d) = p
  BY <1>2, <1>3 DEF SealedWith
<1>5. /\ sealed[i].head = FrameHeader(k, p, b) /\ sealed[i].size = p + Tag
      /\ sealed[i].body.head = FrameHeader(k, p, b) /\ sealed[i].body.data = d
  <2>1. /\ Frame(k, d, b).head = FrameHeader(k, Len(d), b) /\ Frame(k, d, b).size = Len(d) + Tag
        /\ Frame(k, d, b).body.head = FrameHeader(k, Len(d), b) /\ Frame(k, d, b).body.data = d
    BY DEF Frame
  <2> QED
    BY <1>4, <2>1
<1>6. /\ FrameHeader(k, p, b).sequence = k /\ FrameHeader(k, p, b).plain = p
      /\ FrameHeader(k, p, b).cipher = p + Tag /\ FrameHeader(k, p, b).final = b
  BY HeaderFields
<1>7. sealed[i].head.final <=> i = N
  BY <1>3, <1>5, <1>6
<1> QED
  BY <1>1, <1>2, <1>3, <1>5, <1>6, <1>7

\* One fault is noticed by the scan, or changes no header.
LEMMA FaultNoticed ==
  ASSUME text \in Seq(Byte), Finished(sealed), sealed \in Seq(FrameType), frames = sealed, Damage,
         NEW n, Scan(frames', n)
  PROVE  SameHeads(frames')
<1>1. PICK N, fs : N \in Nat \ {0} /\ N = Len(sealed) /\ DOMAIN sealed = 1..N /\ fs = frames'
  BY SealedAre
<1>2. fs \in Seq(FrameType)
  BY <1>1, DamageTyped
<1>3. n = Len(fs) /\ n \in 1..Len(fs) /\ Len(fs) \in Nat
      /\ \A i \in 1..n : /\ fs[i].head.sequence = i - 1 /\ fs[i].head.cipher <= fs[i].size
                         /\ fs[i].head.final <=> i = n
  BY <1>1, <1>2 DEF Scan
<1>4. CASE AlterHeader
  <2>1. fs = sealed
    BY <1>1, <1>4 DEF AlterHeader
  <2> QED
    BY <1>1, <2>1 DEF SameHeads
<1>5. ASSUME NEW i \in DOMAIN frames, AlterFrame(i) PROVE SameHeads(fs)
  <2>1. PICK f \in AlteredFrames(sealed[i]) : fs = [sealed EXCEPT ![i] = f]
    BY <1>1, <1>5 DEF AlterFrame
  <2>2. sealed[i] \in FrameType
    BY <1>5
  <2>3. f \in FrameType /\ f.size = sealed[i].size /\ f.body \in {sealed[i].body, Noise}
    BY <2>1, <2>2, AlteredAre
  <2>4. Len(fs) = N /\ \A k \in 1..N : fs[k] = IF k = i THEN f ELSE sealed[k]
    BY <1>1, <2>1, <2>3
  <2>5. \A k \in 1..N : fs[k].size = sealed[k].size /\ fs[k].body \in {sealed[k].body, Noise}
    BY <2>3, <2>4
  <2>6. \A k \in 1..N : fs[k].head = sealed[k].head
    BY <1>1, <1>2, <2>4, <2>5, ScanRecovers
  <2> QED
    BY <1>1, <2>4, <2>5, <2>6 DEF SameHeads
<1>6. ASSUME NEW i \in DOMAIN frames, Truncate(i) PROVE FALSE
  <2>1. i \in 1..N /\ \A k \in 1..N : sealed[k] \in FrameType
    BY <1>1, <1>6
  <2>2. CASE fs = SubSeq(sealed, 1, i - 1)
    <3>1. \A k \in 1..(i - 1) : sealed[k] \in FrameType
      BY <2>1
    <3>2. Len(fs) = i - 1 /\ \A k \in 1..(i - 1) : fs[k] = sealed[k]
      BY <2>1, <2>2, <3>1, SubSeqProperties
    <3>3. n \in 1..N /\ n # N /\ fs[n] = sealed[n] /\ fs[n].head.final
      BY <1>1, <1>3, <2>1, <3>2
    <3> QED
      BY <1>1, <3>3, SealedFields
  <2>3. CASE /\ sealed[i].size > Tag
             /\ fs = [SubSeq(sealed, 1, i) EXCEPT ![i].body = Noise, ![i].size = Tag]
    <3>1. PICK g : g = SubSeq(sealed, 1, i)
      OBVIOUS
    <3>2. \A k \in 1..i : sealed[k] \in FrameType
      BY <2>1
    <3>3. g \in Seq(FrameType) /\ Len(g) = i /\ g[i] = sealed[i]
      BY <2>1, <3>1, <3>2, SubSeqProperties
    <3>4. fs = [g EXCEPT ![i] = [g[i] EXCEPT !.body = Noise, !.size = Tag]]
      BY <2>3, <3>1
    <3>5. Len(fs) = i /\ fs[i] = [g[i] EXCEPT !.body = Noise, !.size = Tag]
      BY <2>1, <3>3, <3>4
    <3>6. fs[i].head = sealed[i].head /\ fs[i].size = Tag
      BY <2>1, <3>3, <3>5 DEF FrameType
    <3>7. sealed[i].head.cipher = sealed[i].size /\ sealed[i].size \in Nat /\ Tag \in Nat
      BY <1>1, <2>1, SealedFields, StreamAssumption DEF FrameType
    <3>8. sealed[i].size <= Tag
      BY <1>3, <2>1, <3>5, <3>6, <3>7
    <3> QED
      BY <2>3, <3>7, <3>8
  <2> QED
    BY <1>1, <1>6, <2>2, <2>3 DEF Truncate
<1>7. ASSUME NEW i \in DOMAIN frames, NEW j \in DOMAIN frames, Displace(i, j) PROVE FALSE
  <2>1. i \in 1..N /\ j \in 1..N /\ fs # sealed /\ \A k \in 1..N : sealed[k] \in FrameType
    BY <1>1, <1>7 DEF Displace
  <2>2. \A k \in 1..N : sealed[k].head.sequence = k - 1
    BY <1>1, SealedFields
  <2>3. CASE fs = SubSeq(sealed, 1, i) \o SubSeq(sealed, j, N)
    <3>1. PICK a, b : a = SubSeq(sealed, 1, i) /\ b = SubSeq(sealed, j, N)
      OBVIOUS
    <3>2. a \in Seq(FrameType) /\ Len(a) = i
      <4>1. \A k \in 1..i : sealed[k] \in FrameType
        BY <2>1
      <4> QED
        BY <2>1, <3>1, <4>1, SubSeqProperties
    <3>3. b \in Seq(FrameType) /\ Len(b) = N - j + 1 /\ b[1] = sealed[j]
      <4>1. \A k \in j..N : sealed[k] \in FrameType
        BY <2>1
      <4>2. j \in Int /\ N \in Int /\ 1 \in 1..(N - j + 1) /\ j + 1 - 1 = j /\ j <= N
        BY <1>1, <2>1
      <4>3. /\ b \in Seq(FrameType) /\ Len(b) = IF j <= N THEN N - j + 1 ELSE 0
            /\ \A k \in 1..(N - j + 1) : b[k] = sealed[j + k - 1]
        BY <3>1, <4>1, <4>2, SubSeqProperties
      <4> QED
        BY <4>2, <4>3
    <3>4. /\ Len(fs) = Len(a) + Len(b)
          /\ \A k \in 1..(Len(a) + Len(b)) : fs[k] = IF k <= Len(a) THEN a[k] ELSE b[k - Len(a)]
      BY <2>3, <3>1, <3>2, <3>3, ConcatProperties
    <3>5. PICK m \in Nat : m = i + 1 /\ m \in 1..(Len(a) + Len(b)) /\ ~(m <= Len(a)) /\ m - Len(a) = 1
      <4>1. i \in Nat /\ j \in Nat /\ j <= N /\ i >= 1 /\ Len(a) = i /\ Len(b) = N - j + 1
        BY <2>1, <3>2, <3>3
      <4>2. i + 1 \in Nat /\ i + 1 \in 1..(i + (N - j + 1)) /\ ~(i + 1 <= i) /\ (i + 1) - i = 1
        BY <1>1, <4>1
      <4> QED
        BY <4>1, <4>2
    <3>6. fs[m] = sealed[j] /\ m \in 1..n
      BY <1>3, <3>3, <3>4, <3>5
    <3>7. j - 1 = m - 1
      BY <1>3, <2>1, <2>2, <3>6
    <3>8. j = i + 1
      <4>1. j \in Int /\ i \in Int /\ m \in Int /\ m = i + 1
        BY <2>1, <3>5
      <4> QED
        BY <3>7, <4>1
    <3>9. fs = sealed
      <4>1. SubSeq(sealed, 1, i) \o SubSeq(sealed, i + 1, N) = SubSeq(sealed, 1, N)
        <5>1. 1 \in 1..(Len(sealed) + 1) /\ i \in 0..Len(sealed) /\ N \in i..Len(sealed) /\ i \in (1-1)..Len(sealed)
          BY <1>1, <2>1
        <5> QED
          BY <5>1, ConcatAdjacentSubSeq
      <4> QED
        BY <1>1, <2>3, <3>8, <4>1, SubSeqFull
    <3> QED
      BY <2>1, <3>9
  <2>4. CASE fs = [sealed EXCEPT ![i] = sealed[j], ![j] = sealed[i]]
    <3>1. Len(fs) = N /\ fs[i] = sealed[j]
      BY <1>1, <2>1, <2>4
    <3>2. j - 1 = i - 1
      BY <1>3, <2>1, <2>2, <3>1
    <3>3. j = i
      BY <2>1, <3>2
    <3>4. fs = sealed
      BY <2>1, <2>4, <3>3
    <3> QED
      BY <2>1, <3>4
  <2> QED
    BY <1>1, <1>7, <2>3, <2>4 DEF Displace
<1> QED
  BY <1>1, <1>4, <1>5, <1>6, <1>7 DEF Damage

-----------------------------------------------------------------------------
(* Reading                                                                    *)

\* Frames of their type are what TypeOK asks for.
LEMMA FramesAreTyped ==
  ASSUME NEW fs \in Seq(FrameType)
  PROVE  \A i \in DOMAIN fs : fs[i].head \in HeaderType /\ fs[i].body.data \in Seq(Byte) /\ fs[i].size \in Nat
<1>1. \A i \in DOMAIN fs : fs[i] \in FrameType
  OBVIOUS
<1>2. \A f \in FrameType : f.head \in HeaderType /\ f.body \in BodyType /\ f.size \in Nat
  BY DEF FrameType
<1>3. \A b \in BodyType : b.data \in Seq(Byte)
  BY DEF BodyType
<1> QED
  BY <1>1, <1>2, <1>3

\* A frame that is in memory or authenticates is the writer's, whatever storage
\* did; and it was when the stream was opened, if there was one fault at most.
LEMMA LoadedIs ==
  ASSUME Streaming, reading = "open", NEW n \in Nat, Loaded(n)
  PROVE  /\ keyRight /\ n + 1 \in DOMAIN sealed /\ Plain(n) = sealed[n + 1].body.data
         /\ faults <= 1 => opened[n + 1] = sealed[n + 1]
<1>1. PICK N \in Nat \ {0} :
        /\ N = Len(sealed) /\ DOMAIN sealed = 1..N /\ text \in Seq(Byte) /\ Finished(sealed)
        /\ sealed \in Seq(FrameType) /\ frames \in Seq(FrameType) /\ opened \in Seq(FrameType)
  BY SealedAre DEF Streaming, TypeOK, FramesTyped, Disk
<1>2. CASE cached.sequence = n
  <2>1. cached # NoFrame
    BY <1>2 DEF NoFrame
  <2>2. PICK j \in 1..N : keyRight /\ cached = [sequence |-> j - 1, data |-> sealed[j].body.data]
    BY <1>1, <2>1 DEF Streaming, Holding
  <2>3. j = n + 1 /\ cached.data = sealed[j].body.data
    BY <1>2, <2>2
  <2>4. Plain(n) = cached.data
    BY <1>2 DEF Plain
  <2>5. faults <= 1 => opened[j] = sealed[j]
    BY <1>1, <2>2 DEF Streaming, Following
  <2> QED
    BY <1>1, <2>2, <2>3, <2>4, <2>5
<1>3. CASE cached.sequence # n
  <2>1. PICK f, m : f = frames[n + 1] /\ m = n + 1
    OBVIOUS
  <2>2. /\ m \in DOMAIN frames /\ keyRight /\ f.head.sequence = n /\ f.body.head = f.head
        /\ f.head.cipher = f.size /\ Plain(n) = f.body.data
    BY <1>3, <2>1 DEF Loaded, Authentic, Plain
  <2>3. Sealed(f.body)
    BY <2>1, <2>2 DEF Streaming, Disk
  <2>4. f.body # Noise
    BY <2>2 DEF Noise, FrameHeader
  <2>5. PICK j \in 1..N : f.body = sealed[j].body
    BY <1>1, <2>3, <2>4 DEF Sealed
  <2>6. sealed[j].body.head.sequence = j - 1
    BY <1>1, SealedFields
  <2>7. j = m
    BY <2>1, <2>2, <2>5, <2>6
  <2>8. ASSUME faults <= 1 PROVE opened[m] = sealed[m]
    <3>1. SameHeads(opened) /\ (opened = sealed \/ frames = opened)
      BY <2>8 DEF Streaming, Following
    <3>2. CASE opened = sealed
      BY <3>2
    <3>3. CASE frames = opened
      <4>1. opened[m] = f /\ opened[m].head = sealed[m].head /\ opened[m].size = sealed[m].size
        BY <1>1, <2>1, <2>7, <3>1, <3>3 DEF SameHeads
      <4>2. opened[m].body = sealed[m].body
        BY <2>5, <2>7, <4>1
      <4>3. opened[m] \in FrameType /\ sealed[m] \in FrameType
        BY <1>1, <2>2, <2>7, <3>3
      <4> QED
        BY <4>1, <4>2, <4>3, FramesEqual
    <3> QED
      BY <3>1, <3>2, <3>3
  <2> QED
    BY <1>1, <2>1, <2>2, <2>5, <2>7, <2>8
<1> QED
  BY <1>2, <1>3

\* What is read of a frame stands in the text at that position.
LEMMA PieceIs ==
  ASSUME Streaming, reading = "open", NEW n, n = position \div FrameSize, Loaded(n)
  PROVE  /\ n \in Nat /\ Offset(n) <= position /\ position < Offset(n + 1)
         /\ Piece(n, position) \in Seq(Byte)
         /\ \A k \in 1..Len(Piece(n, position)) :
              /\ SubSeq(Piece(n, position), 1, k) = SubSeq(text, position + 1, position + k)
              /\ position + k <= Len(text) /\ position + k <= Offset(n + 1)
<1>1. position \in Nat /\ FrameSize \in Nat /\ text \in Seq(Byte) /\ Finished(sealed)
  BY StreamAssumption DEF Streaming, TypeOK, Disk
<1>2. PICK p \in Nat, r \in Nat, O \in Nat, T \in Nat :
        /\ p = position /\ r = (position % FrameSize) /\ O = Offset(n) /\ T = Len(text)
        /\ n \in Nat /\ p = O + r /\ r < FrameSize /\ Offset(n + 1) = O + FrameSize
  <2>1. n \in Nat /\ (position % FrameSize) \in 0..(FrameSize - 1)
        /\ position = n * FrameSize + (position % FrameSize)
    BY <1>1, Division
  <2>2. Offset(n) \in Nat /\ Offset(n + 1) = Offset(n) + FrameSize /\ Offset(n) = n * FrameSize
    BY <2>1, Offsets DEF Offset
  <2>3. PICK r : r = (position % FrameSize)
    OBVIOUS
  <2>4. PICK O \in Nat : O = Offset(n)
    BY <2>2
  <2>5. r \in Nat /\ r < FrameSize
    BY <1>1, <2>1, <2>3
  <2>6. position = O + r
    BY <2>1, <2>2, <2>3, <2>4
  <2>7. Len(text) \in Nat
    BY <1>1
  <2> QED
    BY <1>1, <2>1, <2>2, <2>3, <2>4, <2>5, <2>6, <2>7
<1>3. PICK m \in Nat \ {0} : m = n + 1 /\ m - 1 = n /\ m \in 1..Len(sealed)
  <2>1. n + 1 \in DOMAIN sealed
    BY <1>2, LoadedIs
  <2>2. DOMAIN sealed = 1..Len(sealed) /\ Len(sealed) \in Nat
    BY DEF Streaming, FramesTyped
  <2> QED
    BY <1>2, <2>1, <2>2
<1>4. PICK L \in Nat : SealedWith(m, Len(sealed), L) /\ sealed[m].body.data = FrameText(m, L)
  BY <1>1, <1>3, SealedFields
<1>5. PICK d : d = FrameText(m, L) /\ d = Plain(n)
  BY <1>2, <1>3, <1>4, LoadedIs
<1>6. d = SubSeq(text, O + 1, O + L) /\ d \in Seq(Byte) /\ Len(d) = L /\ O + L <= T /\ L <= FrameSize
  <2>1. d = SubSeq(text, O + 1, O + L)
    BY <1>2, <1>3, <1>5 DEF FrameText
  <2>2. /\ Len(d) = L /\ d \in Seq(Byte) /\ Offset(m - 1) + L <= Len(text)
        /\ IF m = Len(sealed) THEN L < FrameSize ELSE L = FrameSize
    BY <1>4, <1>5 DEF SealedWith
  <2>3. L <= FrameSize
    BY <1>1, <2>2
  <2>4. O + L <= T
    BY <1>2, <1>3, <2>2
  <2> QED
    BY <2>1, <2>2, <2>3, <2>4
<1>7. PICK g : g = Piece(n, position) /\ g = SubSeq(d, r + 1, L)
  BY <1>2, <1>5, <1>6 DEF Piece
<1>8. g \in Seq(Byte) /\ Len(g) = IF r + 1 <= L THEN L - r ELSE 0
  <2>1. r + 1 \in Int /\ 1 <= r + 1 /\ L \in Int /\ L <= Len(d)
    BY <1>6
  <2>2. SubSeq(d, r + 1, L) \in Seq(Byte)
        /\ Len(SubSeq(d, r + 1, L)) = IF r + 1 <= L THEN L - (r + 1) + 1 ELSE 0
    BY <1>6, <2>1, PieceType
  <2> QED
    BY <1>7, <2>2
<1>9. ASSUME NEW k \in 1..Len(g)
      PROVE  SubSeq(g, 1, k) = SubSeq(text, p + 1, p + k) /\ p + k <= T /\ p + k <= O + FrameSize
  <2>1. k \in Int /\ 1 <= k /\ r + 1 <= L /\ r + k <= L
    BY <1>8
  <2>2. SubSeq(g, 1, k) = SubSeq(d, r + 1, r + k)
    <3>1. d \in Seq(Byte) /\ r \in Nat /\ L \in Int /\ r <= L /\ L <= Len(d) /\ 1 \in Int /\ 1 <= 1
      BY <1>6, <2>1
    <3>2. g = SubSeq(d, r + 1, L)
      BY <1>7
    <3> QED
      BY <2>1, <3>1, <3>2, PieceOfPiece
  <2>3. PICK i \in Int, j \in Int, B \in Int : i = r + 1 /\ j = r + k /\ B = O + L
    BY <2>1
  <2>4. SubSeq(d, i, j) = SubSeq(text, O + i, O + j)
    <3>1. T = Len(text) /\ O + L <= T
      BY <1>2, <1>6
    <3>2. 1 <= i /\ O + j <= B /\ O <= B /\ B <= T
      BY <2>1, <2>3, <3>1
    <3>3. d = SubSeq(text, O + 1, B)
      BY <1>6, <2>3
    <3> QED
      BY <1>1, <2>3, <3>1, <3>2, <3>3, PieceOfPiece
  <2>5. O + i = p + 1 /\ O + j = p + k /\ p + k <= T /\ p + k <= O + FrameSize
    <3>1. p = O + r
      BY <1>2
    <3> QED
      BY <1>1, <1>6, <2>1, <2>3, <3>1
  <2> QED
    BY <2>2, <2>3, <2>4, <2>5
<1>10. Offset(n) <= position /\ position < Offset(n + 1) /\ n \in Nat
  <2>1. O <= p /\ p < O + FrameSize
    <3>1. FrameSize \in Nat /\ p = O + r /\ r < FrameSize
      BY <1>1, <1>2
    <3> QED
      BY <3>1
  <2> QED
    BY <1>2, <2>1
<1>11. \A k \in 1..Len(g) : /\ SubSeq(g, 1, k) = SubSeq(text, position + 1, position + k)
                            /\ position + k <= Len(text) /\ position + k <= Offset(n + 1)
  BY <1>2, <1>9
<1> QED
  BY <1>7, <1>8, <1>10, <1>11

-----------------------------------------------------------------------------
(* The invariant holds throughout                                             *)

\* Nothing is written yet, and nothing open.
LEMMA StreamingInitial == Init => Streaming
<1> SUFFICES ASSUME Init PROVE Streaming
  OBVIOUS
<1>1. FrameSize \in Nat \ {0}
  BY StreamAssumption
<1>2. TypeOK
  BY <1>1 DEF Init, TypeOK, NoFrame
<1>3. FramesTyped
  BY DEF Init, FramesTyped
<1>4. Filling
  <2>1. 0 * FrameSize = 0
    BY Strides
  <2>2. Len(frames) = 0 /\ Len(text) = 0 /\ Len(buffer) = 0 /\ DOMAIN frames = {}
    BY DEF Init
  <2>3. SubSeq(text, 0 + 1, 0) = <<>>
    BY SubSeqEmpty
  <2>4. buffer = <<>>
    BY DEF Init
  <2> QED
    BY <2>1, <2>2, <2>3, <2>4 DEF Filling
<1>5. Disk
  BY <1>4 DEF Init, Disk
<1> QED
  BY <1>2, <1>3, <1>5 DEF Init, Streaming, Holding, Following

\* What is on disk stays when nothing writes or strikes.
LEMMA DiskStays ==
  ASSUME Disk, UNCHANGED <<writing, text, buffer, frames, sealed, header, faults>>
  PROVE  Disk'
<1>1. Filling => Filling'
  BY DEF Filling, FullFrame
<1>2. Finished(sealed) => Finished(sealed)'
  BY DEF Finished, FullFrame
<1>3. SameHeads(frames) => SameHeads(frames)'
  BY DEF SameHeads
<1>4. \A n : HeadersScan(n)' = HeadersScan(n)
  BY DEF HeadersScan
<1>5. (\A i \in DOMAIN frames : Sealed(frames[i].body)) => (\A i \in DOMAIN frames : Sealed(frames[i].body))'
  BY DEF Sealed
<1> QED
  BY <1>1, <1>2, <1>3, <1>4, <1>5 DEF Disk

\* What is given to write is a sequence.
LEMMA PiecesAreSequences ==
  ASSUME NEW S, NEW n \in Nat, NEW s \in BoundedSeq(S, n)
  PROVE  s \in Seq(S)
<1>1. PICK m \in 0..n : s \in [1..m -> S]
  BY DEF BoundedSeq, SeqOf
<1> QED
  BY <1>1

\* write keeps what is on disk in order, and no reader is there to see it.
LEMMA WriteStep ==
  ASSUME Streaming, NEW data \in Seq(Byte), Write(data)
  PROVE  Streaming'
<1>1. /\ text' \in Seq(Byte) /\ frames' \in Seq(FrameType)
      /\ buffer' \in Seq(Byte) /\ Len(buffer') < FrameSize /\ Filling'
  BY WriteFills
<1>2. /\ writing = "open" /\ writing' = "open" /\ reading # "open" /\ reading' = reading
      /\ sealed' = sealed /\ faults' = faults /\ header' = header /\ cached' = cached
      /\ position' = position /\ result' = result /\ opened' = opened
  BY DEF Write, Streaming, readerVars, openVars
<1>3. TypeOK'
  <2>1. (\A i \in DOMAIN frames : /\ frames[i].head \in HeaderType
                                  /\ frames[i].body.data \in Seq(Byte)
                                  /\ frames[i].size \in Nat)'
    BY <1>1, FramesAreTyped DEF HeaderType
  <2> QED
    BY <1>1, <1>2, <2>1 DEF Streaming, TypeOK, Write, readerVars, openVars
<1>4. FramesTyped'
  BY <1>1, <1>2 DEF Streaming, FramesTyped
<1>5. Disk'
  BY <1>1, <1>2 DEF Streaming, Disk
<1>6. reading = "closed" /\ cached = NoFrame /\ position = 0 /\ result \in {Nothing, Error}
  BY <1>2 DEF Streaming, TypeOK
<1>7. Holding' /\ Following'
  BY <1>2, <1>6 DEF Holding, Following
<1> QED
  BY <1>2, <1>3, <1>4, <1>5, <1>6, <1>7 DEF Streaming, NoFrame, Nothing, Error

\* finish puts the rest of the text behind the full frames.
LEMMA FinishStep ==
  ASSUME Streaming, Finish
  PROVE  Streaming'
<1>1. /\ writing = "open" /\ writing' = "finished" /\ reading # "open" /\ reading' = reading
      /\ sealed' = frames' /\ faults' = faults /\ header' = header /\ cached' = cached
      /\ position' = position /\ result' = result /\ opened' = opened /\ text' = text /\ buffer' = <<>>
  BY DEF Finish, Streaming, readerVars, openVars
<1>2. PICK n, f, fs : /\ n = Len(frames) /\ f = Frame(n, buffer, TRUE) /\ fs = frames'
                      /\ fs = Append(frames, f) /\ n \in Nat /\ frames \in Seq(FrameType)
                      /\ DOMAIN frames = 1..n
  <2>1. frames \in Seq(FrameType)
    BY DEF Streaming, FramesTyped
  <2>2. Len(frames) \in Nat /\ DOMAIN frames = 1..Len(frames)
    BY <2>1
  <2>3. frames' = Append(frames, Frame(Len(frames), buffer, TRUE))
    BY DEF Finish
  <2> QED
    BY <2>1, <2>2, <2>3
<1>3. f \in FrameType /\ buffer \in Seq(Byte) /\ text \in Seq(Byte) /\ Len(buffer) < FrameSize
      /\ FrameSize \in Nat
  <2>1. buffer \in Seq(Byte) /\ text \in Seq(Byte) /\ Len(buffer) < FrameSize /\ FrameSize \in Nat
    BY StreamAssumption DEF Streaming, TypeOK
  <2> QED
    BY <1>2, <2>1, FrameTyped
<1>4. /\ fs \in Seq(FrameType) /\ Len(fs) = n + 1 /\ DOMAIN fs = 1..(n + 1)
      /\ fs[n + 1] = f /\ \A i \in 1..n : fs[i] = frames[i]
  <2>1. fs = Append(frames, f) /\ f \in FrameType /\ frames \in Seq(FrameType) /\ Len(frames) = n /\ n \in Nat
    BY <1>2, <1>3
  <2> QED
    BY <2>1, AppendProperties
<1>5. Filling /\ faults = 0 /\ header = "written"
  BY <1>1 DEF Streaming, Disk
<1>6. Finished(sealed)'
  <2>1. PICK A : A = n * FrameSize
    OBVIOUS
  <2>2. buffer = SubSeq(text, A + 1, Len(text)) /\ A + Len(buffer) = Len(text)
    BY <1>2, <1>5, <2>1 DEF Filling
  <2>3. A \in Int
    BY <2>1, Strides
  <2>4. A <= Len(text) /\ Len(text) < A + FrameSize
    <3>1. Len(buffer) \in Nat /\ Len(text) \in Nat
      BY <1>3
    <3> QED
      BY <1>3, <2>2, <2>3, <3>1
  <2>5. n + 1 - 1 = n
    BY <1>2
  <2>6. \A i \in 1..n : fs[i] = FullFrame(i)
    BY <1>2, <1>4, <1>5 DEF Filling
  <2>7. \A i \in 1..n : FullFrame(i)' = FullFrame(i)
    BY <1>1 DEF FullFrame
  <2>8. fs[n + 1] = Frame(n, SubSeq(text, A + 1, Len(text)), TRUE)
    BY <1>2, <1>4, <2>2
  <2>9. sealed' = fs /\ text' = text /\ Len(fs) - 1 = n
    BY <1>1, <1>2, <1>4, <2>5
  <2>10. /\ n * FrameSize <= Len(text) /\ Len(text) < n * FrameSize + FrameSize
         /\ fs[n + 1] = Frame(n, SubSeq(text, n * FrameSize + 1, Len(text)), TRUE)
    BY <2>1, <2>4, <2>8
  <2>11. \A i \in 1..n : fs[i] = FullFrame(i)'
    BY <2>6, <2>7
  <2> HIDE DEF FullFrame
  <2> QED
    BY <1>2, <2>9, <2>10, <2>11 DEF Finished
<1>7. TypeOK'
  <2>1. (\A i \in DOMAIN frames : /\ frames[i].head \in HeaderType
                                  /\ frames[i].body.data \in Seq(Byte)
                                  /\ frames[i].size \in Nat)'
    BY <1>2, <1>4, FramesAreTyped DEF HeaderType
  <2>2. buffer' \in Seq(Byte) /\ Len(buffer') < FrameSize
    BY <1>1, StreamAssumption
  <2> QED
    BY <1>1, <2>1, <2>2 DEF Streaming, TypeOK, Finish, readerVars, openVars
<1>8. FramesTyped'
  BY <1>1, <1>2, <1>4 DEF Streaming, FramesTyped
<1>9. Disk'
  <2>1. (\A i \in DOMAIN frames : Sealed(frames[i].body))'
    BY <1>1 DEF Sealed
  <2>2. SameHeads(frames)'
    BY <1>1 DEF SameHeads
  <2> QED
    BY <1>1, <1>5, <1>6, <2>1, <2>2 DEF Disk
<1>10. reading = "closed" /\ cached = NoFrame /\ position = 0 /\ result \in {Nothing, Error}
  BY <1>1 DEF Streaming, TypeOK
<1>11. Holding' /\ Following'
  BY <1>1, <1>10 DEF Holding, Following
<1> QED
  BY <1>1, <1>7, <1>8, <1>9, <1>10, <1>11 DEF Streaming, NoFrame, Nothing, Error

\* What a failed write leaves has no final frame that is whole: it never opens.
LEMMA WriteFailsStep ==
  ASSUME Streaming, WriteFails
  PROVE  Streaming'
<1>1. /\ writing = "open" /\ writing' = "failed" /\ reading # "open" /\ reading' = reading
      /\ sealed' = frames' /\ faults' = faults /\ header' = header /\ cached' = cached
      /\ position' = position /\ result' = result /\ opened' = opened /\ text' = text /\ buffer' = buffer
  BY DEF WriteFails, Streaming, readerVars, openVars
<1>2. PICK n, f, g, fs :
        /\ n = Len(frames) /\ f = Frame(n, buffer, TRUE) /\ g = [f EXCEPT !.body = Noise, !.size = 0]
        /\ fs = frames' /\ (fs = frames \/ fs = Append(frames, g)) /\ n \in Nat
  <2>1. frames \in Seq(FrameType)
    BY DEF Streaming, FramesTyped
  <2>2. Len(frames) \in Nat
    BY <2>1
  <2>3. frames' = frames \/ frames' = Append(frames, [Frame(Len(frames), buffer, TRUE)
                                                       EXCEPT !.body = Noise, !.size = 0])
    BY DEF WriteFails
  <2> QED
    BY <2>2, <2>3
<1>3. PICK l \in Nat : l = Len(buffer) /\ f \in FrameType /\ f.head.cipher = l + Tag /\ Tag \in Nat \ {0}
  <2>0. buffer \in Seq(Byte) /\ Len(buffer) \in Nat /\ Tag \in Nat \ {0}
    BY StreamAssumption DEF Streaming, TypeOK
  <2>1. f \in FrameType /\ Len(buffer) \in Nat /\ Tag \in Nat \ {0}
    BY <1>2, <2>0, FrameTyped
  <2>2. f.head.cipher = Len(buffer) + Tag
    BY <1>2 DEF Frame, FrameHeader
  <2> QED
    BY <2>1, <2>2
<1>4. g \in FrameType /\ g.head = f.head /\ g.size = 0
  <2>1. Noise \in BodyType
    BY StreamAssumption DEF Noise, BodyType, FrameHeader
  <2> QED
    BY <1>2, <1>3, <2>1 DEF FrameType
<1>5. frames \in Seq(FrameType) /\ Filling /\ faults = 0 /\ header = "written"
  BY <1>1 DEF Streaming, FramesTyped, Disk
<1>6. fs \in Seq(FrameType)
  BY <1>2, <1>4, <1>5
<1>7. \A m : ~Scan(fs, m)
  <2>1. CASE fs = frames
    <3>1. \A m \in DOMAIN frames : frames[m].head.final = FALSE
      <4>1. \A m \in DOMAIN frames : FullFrame(m).head.final = FALSE
        BY DEF FullFrame, Frame, FrameHeader
      <4> QED
        BY <1>5, <4>1 DEF Filling
    <3>2. ASSUME NEW m, Scan(frames, m) PROVE FALSE
      <4>1. m \in DOMAIN frames /\ m \in 1..m
        BY <1>5, <3>2 DEF Scan
      <4>2. frames[m].head.final <=> m = m
        BY <3>2, <4>1 DEF Scan
      <4> QED
        BY <3>1, <4>1, <4>2
    <3> QED
      BY <2>1, <3>2
  <2>2. CASE fs = Append(frames, g)
    <3>1. Len(fs) = n + 1 /\ fs[n + 1] = g
      BY <1>2, <1>4, <1>5, <2>2
    <3>2. ASSUME NEW m, Scan(fs, m) PROVE FALSE
      <4>1. m = n + 1 /\ fs[m].head.cipher = fs[m].size
        BY <3>1, <3>2 DEF Scan
      <4> QED
        BY <1>3, <1>4, <3>1, <4>1
    <3> QED
      BY <3>2
  <2> QED
    BY <1>2, <2>1, <2>2
<1>8. (\A m \in DOMAIN frames : ~HeadersScan(m))'
  BY <1>2, <1>7 DEF HeadersScan, Scan
<1>9. TypeOK'
  <2>1. (\A i \in DOMAIN frames : /\ frames[i].head \in HeaderType
                                  /\ frames[i].body.data \in Seq(Byte)
                                  /\ frames[i].size \in Nat)'
    BY <1>2, <1>6, FramesAreTyped DEF HeaderType
  <2> QED
    BY <1>1, <2>1 DEF Streaming, TypeOK, WriteFails, readerVars, openVars
<1>10. FramesTyped'
  BY <1>1, <1>2, <1>6 DEF Streaming, FramesTyped
<1>11. Disk'
  BY <1>1, <1>5, <1>8 DEF Disk
<1>12. reading = "closed" /\ cached = NoFrame /\ position = 0 /\ result \in {Nothing, Error}
  BY <1>1 DEF Streaming, TypeOK
<1>13. Holding' /\ Following'
  BY <1>1, <1>12 DEF Holding, Following
<1> QED
  BY <1>1, <1>9, <1>10, <1>11, <1>12, <1>13 DEF Streaming, NoFrame, Nothing, Error

\* Storage strikes: what the writer sealed stays known, and the first fault
\* either shows in the headers or leaves them all as they were.
LEMMA DamageStep ==
  ASSUME Streaming, Damage
  PROVE  Streaming'
<1>1. Strike /\ header' \in {"written", "altered"}
  <2>1. header \in {"written", "altered"}
    BY DEF Streaming, TypeOK
  <2> QED
    BY <2>1 DEF Damage, AlterHeader, AlterFrame, Truncate, Displace
<1>2. /\ writing = "finished" /\ writing' = writing /\ reading' = reading /\ sealed' = sealed
      /\ text' = text /\ buffer' = buffer /\ keyed' = keyed /\ opened' = opened /\ keyRight' = keyRight
      /\ position' = position /\ textLen' = textLen /\ last' = last /\ cached' = cached
      /\ fresh' = fresh /\ result' = result
  BY <1>1 DEF Strike, writerVars, readerVars, openVars
<1>3. faults \in Nat /\ faults' = faults + 1
  BY <1>1 DEF Strike, Streaming, FramesTyped
<1>4. PICK fs : /\ fs = frames' /\ fs \in Seq(FrameType)
                /\ \A k \in DOMAIN fs : \E i \in DOMAIN frames : fs[k].body \in {frames[i].body, Noise}
  BY DamageTyped DEF Streaming, FramesTyped
<1>5. /\ Finished(sealed) /\ \A i \in DOMAIN frames : Sealed(frames[i].body)
      /\ faults = 0 => frames = sealed
  BY <1>2 DEF Streaming, Disk
<1>6. TypeOK'
  <2>1. (\A i \in DOMAIN frames : /\ frames[i].head \in HeaderType
                                  /\ frames[i].body.data \in Seq(Byte)
                                  /\ frames[i].size \in Nat)'
    BY <1>4, FramesAreTyped
  <2> QED
    BY <1>1, <1>2, <2>1 DEF Streaming, TypeOK
<1>7. FramesTyped'
  BY <1>2, <1>3, <1>4 DEF Streaming, FramesTyped
<1>8. Disk'
  <2>1. Finished(sealed)'
    BY <1>2, <1>5 DEF Finished, FullFrame
  <2>2. \A k \in DOMAIN fs : Sealed(fs[k].body)
    BY <1>4, <1>5 DEF Sealed
  <2>3. (\A i \in DOMAIN frames : Sealed(frames[i].body))'
    BY <1>2, <1>4, <2>2 DEF Sealed
  <2>4. (faults = 0 => frames = sealed /\ header = "written")'
    BY <1>3
  <2>5. ASSUME faults' <= 1, NEW n \in DOMAIN fs, HeadersScan(n)' PROVE SameHeads(frames)'
    <3>1. frames = sealed
      BY <1>3, <1>5, <2>5
    <3>2. Scan(frames', n)
      BY <2>5 DEF HeadersScan, Scan
    <3>3. text \in Seq(Byte) /\ sealed \in Seq(FrameType)
      BY DEF Streaming, TypeOK, FramesTyped
    <3>4. SameHeads(frames')
      BY <1>5, <3>1, <3>2, <3>3, FaultNoticed
    <3> QED
      BY <1>2, <3>4 DEF SameHeads
  <2>6. (faults <= 1 => SameHeads(frames) \/ \A n \in DOMAIN frames : ~HeadersScan(n))'
    BY <1>4, <2>5
  <2> QED
    BY <1>2, <2>1, <2>3, <2>4, <2>6 DEF Disk
<1>9. Holding'
  BY <1>2 DEF Streaming, Holding
<1>10. Following'
  <2>1. SUFFICES ASSUME reading = "open", faults' <= 1 PROVE Following'
    BY <1>2 DEF Following
  <2>2. faults = 0 /\ faults <= 1 /\ frames = sealed
    BY <1>3, <1>5, <2>1
  <2>3. /\ SameHeads(opened) /\ textLen = Len(text) /\ opened = sealed
        /\ \A i \in DOMAIN sealed : opened[i] = sealed[i]
    BY <2>1, <2>2 DEF Streaming, Following
  <2>4. SameHeads(opened)'
    BY <1>2, <2>3 DEF SameHeads
  <2> QED
    BY <1>2, <2>3, <2>4 DEF Following
<1> QED
  BY <1>2, <1>6, <1>7, <1>8, <1>9, <1>10 DEF Streaming, NoFrame, Nothing, Error

\* A stream opens at the length of the text, unless storage struck twice.
LEMMA OpenStep ==
  ASSUME Streaming, NEW right \in BOOLEAN, Open(right)
  PROVE  Streaming' /\ writing = "finished" /\ (faults <= 1 => textLen' = Len(text))
<1>1. /\ reading = "closed" /\ reading' = "open" /\ writing # "open" /\ opened' = frames
      /\ keyRight' = (right /\ header = "written")
      /\ position' = 0 /\ cached' = NoFrame /\ fresh' = 0 /\ result' = Nothing
      /\ writing' = writing /\ sealed' = sealed /\ text' = text /\ buffer' = buffer /\ keyed' = keyed
      /\ header' = header /\ frames' = frames /\ faults' = faults
  BY DEF Open, writerVars, diskVars
<1>2. PICK n \in DOMAIN frames : /\ HeadersScan(n) /\ last' = n - 1
                                 /\ textLen' = (n - 1) * FrameSize + frames[n].head.plain
  BY DEF Open
<1>3. writing = "finished"
  BY <1>1, <1>2 DEF Streaming, TypeOK, Disk
<1>4. /\ frames \in Seq(FrameType) /\ sealed \in Seq(FrameType) /\ text \in Seq(Byte) /\ faults \in Nat
      /\ Finished(sealed)
  BY <1>3 DEF Streaming, TypeOK, FramesTyped, Disk
<1>5. PICK p : p = frames[n].head.plain
  OBVIOUS
<1>6. n \in Nat \ {0} /\ n = Len(frames) /\ p \in Nat
  <2>1. frames[n].head \in HeaderType
    BY <1>4, FramesAreTyped
  <2> QED
    BY <1>2, <1>4, <1>5, <2>1 DEF HeadersScan, HeaderType
<1>7. PICK k \in Nat : k = n - 1 /\ k + 1 = n
  BY <1>6
<1>8. textLen' = Offset(k) + p /\ Offset(k) \in Nat
  BY <1>2, <1>5, <1>7, Offsets DEF Offset
<1>9. last' \in Nat /\ textLen' \in Nat
  BY <1>2, <1>6, <1>7, <1>8
<1>10. TypeOK'
  <2>1. keyRight' \in BOOLEAN
    BY <1>1
  <2> QED
    BY <1>1, <1>9, <2>1 DEF Streaming, TypeOK, NoFrame
<1>11. FramesTyped'
  BY <1>1 DEF Streaming, FramesTyped
<1>12. Disk'
  BY <1>1, DiskStays DEF Streaming
<1>13. Holding'
  BY <1>1 DEF Holding, NoFrame
<1>14. ASSUME faults <= 1 PROVE SameHeads(frames) /\ textLen' = Len(text)
  <2>1. SameHeads(frames)
    BY <1>2, <1>3, <1>14 DEF Streaming, Disk
  <2>2. n = Len(sealed) /\ n \in 1..Len(sealed) /\ n \in DOMAIN sealed
    BY <1>4, <1>6, <2>1 DEF SameHeads
  <2>3. PICK m \in Nat : sealed[n].head.plain = m /\ SealedWith(n, Len(sealed), m)
    BY <1>4, <2>2, SealedFields
  <2>4. m = p
    BY <1>5, <2>1, <2>2, <2>3 DEF SameHeads
  <2>5. Offset(n - 1) + m = Len(text)
    BY <2>2, <2>3 DEF SealedWith
  <2> QED
    BY <1>7, <1>8, <2>1, <2>4, <2>5
<1>15. Following'
  <2>1. SUFFICES ASSUME faults <= 1 PROVE Following'
    BY <1>1 DEF Following
  <2>2. SameHeads(opened)'
    BY <1>1, <1>14, <2>1 DEF SameHeads
  <2>3. \A i \in DOMAIN sealed : ~(0 > (i - 1) * FrameSize) /\ NoFrame.sequence # i - 1
    <3>1. ASSUME NEW i \in DOMAIN sealed PROVE ~(0 > (i - 1) * FrameSize) /\ NoFrame.sequence # i - 1
      <4>1. PICK j \in Nat : j = i - 1
        BY <1>4
      <4>2. Offset(j) \in Nat /\ NoFrame.sequence = -1
        BY Offsets DEF NoFrame
      <4> QED
        BY <4>1, <4>2 DEF Offset
    <3> QED
      BY <3>1
  <2>4. (\A i \in DOMAIN sealed : fresh > (i - 1) * FrameSize \/ cached.sequence = i - 1 => opened[i] = sealed[i])'
    BY <1>1, <2>3
  <2> QED
    BY <1>1, <1>14, <2>1, <2>2, <2>4 DEF Following
<1> QED
  BY <1>1, <1>3, <1>10, <1>11, <1>12, <1>13, <1>14, <1>15 DEF Streaming, NoFrame, Nothing, Error

\* Calls that load nothing.
LEMMA QuietStep ==
  ASSUME Streaming,
         UNCHANGED <<writerVars, diskVars, faults, openVars, cached, fresh>>,
         position' \in Nat,
         reading = "closed" => position' = position /\ result' \in {Nothing, Error}
  PROVE  Streaming'
<1>1. /\ keyed' = keyed /\ writing' = writing /\ sealed' = sealed /\ text' = text /\ buffer' = buffer
      /\ header' = header /\ frames' = frames /\ faults' = faults
      /\ reading' = reading /\ opened' = opened /\ keyRight' = keyRight /\ textLen' = textLen
      /\ last' = last /\ cached' = cached /\ fresh' = fresh
  BY DEF writerVars, diskVars, openVars
<1>2. TypeOK'
  BY <1>1 DEF Streaming, TypeOK
<1>3. FramesTyped'
  BY <1>1 DEF Streaming, FramesTyped
<1>4. Disk'
  BY <1>1, DiskStays DEF Streaming
<1>5. Holding'
  BY <1>1 DEF Streaming, Holding
<1>6. Following'
  <2>1. SameHeads(opened) => SameHeads(opened)'
    BY <1>1 DEF SameHeads
  <2> QED
    BY <1>1, <2>1 DEF Streaming, Following
<1> QED
  BY <1>1, <1>2, <1>3, <1>4, <1>5, <1>6 DEF Streaming, NoFrame, Nothing, Error

\* What a call loads is a frame of the writer's, and the stream opened with it.
LEMMA LoadStep ==
  ASSUME Streaming, reading = "open", NEW n, n = position \div FrameSize,
         UNCHANGED <<writerVars, diskVars, faults, openVars>>, position' \in Nat,
         \/ cached' = cached
         \/ Loaded(n) /\ cached' = [sequence |-> n, data |-> Plain(n)],
         \/ fresh' = fresh
         \/ Loaded(n) /\ fresh = position /\ fresh' \in Nat /\ fresh' <= Offset(n + 1)
  PROVE  Streaming'
<1>1. /\ keyed' = keyed /\ writing' = writing /\ sealed' = sealed /\ text' = text /\ buffer' = buffer
      /\ header' = header /\ frames' = frames /\ faults' = faults
      /\ reading' = reading /\ opened' = opened /\ keyRight' = keyRight /\ textLen' = textLen
      /\ last' = last
  BY DEF writerVars, diskVars, openVars
<1>2. /\ position \in Nat /\ fresh \in Nat /\ cached.data \in Seq(Byte) /\ sealed \in Seq(FrameType)
      /\ Holding /\ Following
  BY DEF Streaming, TypeOK, FramesTyped
<1>3. n \in Nat
  BY <1>2, Division
<1>4. Loaded(n) => /\ keyRight /\ n + 1 \in DOMAIN sealed /\ Plain(n) = sealed[n + 1].body.data
                   /\ (faults <= 1 => opened[n + 1] = sealed[n + 1])
  BY <1>3, LoadedIs
<1>5. PICK m \in Nat : m = n + 1 /\ m - 1 = n
  BY <1>3
<1>6. cached'.data \in Seq(Byte)
  BY <1>2, <1>4, FramesAreTyped
<1>7. TypeOK'
  BY <1>1, <1>2, <1>6 DEF Streaming, TypeOK
<1>8. FramesTyped'
  BY <1>1 DEF Streaming, FramesTyped
<1>9. Disk'
  BY <1>1, DiskStays DEF Streaming
<1>10. Holding'
  <2>1. CASE cached' = cached
    BY <1>1, <1>2, <2>1 DEF Holding
  <2>2. CASE Loaded(n) /\ cached' = [sequence |-> n, data |-> Plain(n)]
    <3>1. m \in DOMAIN sealed /\ cached' = [sequence |-> m - 1, data |-> sealed[m].body.data] /\ keyRight
      BY <1>4, <1>5, <2>2
    <3> QED
      BY <1>1, <3>1 DEF Holding
  <2> QED
    BY <2>1, <2>2
<1>11. Following'
  <2>1. SUFFICES ASSUME faults <= 1 PROVE Following'
    BY <1>1 DEF Following
  <2>2. /\ SameHeads(opened) /\ textLen = Len(text) /\ (opened = sealed \/ frames = opened)
        /\ \A i \in DOMAIN sealed :
             fresh > (i - 1) * FrameSize \/ cached.sequence = i - 1 => opened[i] = sealed[i]
    BY <1>2, <2>1 DEF Following
  <2>3. SameHeads(opened)'
    BY <1>1, <2>2 DEF SameHeads
  <2>4. ASSUME NEW i \in DOMAIN sealed, cached'.sequence = i - 1 PROVE opened[i] = sealed[i]
    <3>1. CASE cached' = cached
      BY <2>2, <2>4, <3>1
    <3>2. CASE Loaded(n) /\ cached' = [sequence |-> n, data |-> Plain(n)]
      <4>1. i = n + 1
        BY <1>2, <1>3, <2>4, <3>2
      <4> QED
        BY <1>4, <2>1, <3>2, <4>1
    <3> QED
      BY <3>1, <3>2
  <2>5. ASSUME NEW i \in DOMAIN sealed, fresh' > (i - 1) * FrameSize PROVE opened[i] = sealed[i]
    <3>1. CASE fresh' = fresh
      BY <2>2, <2>5, <3>1
    <3>2. CASE Loaded(n) /\ fresh = position /\ fresh' \in Nat /\ fresh' <= Offset(n + 1)
      <4>1. PICK j \in Nat : j = i - 1 /\ i = j + 1
        BY <1>2
      <4>2. PICK O \in Nat : O = Offset(j) /\ fresh' > O
        BY <2>5, <4>1, Offsets DEF Offset
      <4>3. ~(m <= j)
        <5>1. Offset(m) \in Nat /\ fresh' <= Offset(m)
          BY <1>5, <3>2, Offsets
        <5>2. m <= j => Offset(m) <= Offset(j)
          BY <4>1, Offsets
        <5> QED
          BY <3>2, <4>2, <5>1, <5>2
      <4>4. j = n \/ j < n
        BY <1>3, <1>5, <4>3
      <4>5. CASE j = n
        BY <1>4, <2>1, <3>2, <4>1, <4>5
      <4>6. CASE j < n
        <5>1. Offset(j + 1) <= Offset(n) /\ Offset(j + 1) = Offset(j) + FrameSize
          BY <1>3, <4>1, <4>6, Offsets
        <5>2. Offset(n) <= position /\ Offset(n) \in Nat
          BY <1>3, <3>2, PieceIs, Offsets
        <5>3. FrameSize \in Nat \ {0}
          BY StreamAssumption
        <5>4. fresh > O
          <6>1. PICK P \in Nat : P = Offset(n)
            BY <5>2
          <6>2. P >= O + FrameSize /\ fresh >= P /\ FrameSize >= 1 /\ FrameSize \in Nat
            <7>1. O + FrameSize <= P
              BY <4>1, <4>2, <5>1, <6>1
            <7> QED
              BY <1>2, <3>2, <5>2, <5>3, <6>1, <7>1
          <6> QED
            BY <1>2, <6>2
        <5> QED
          BY <2>2, <4>1, <4>2, <5>4 DEF Offset
      <4> QED
        BY <4>4, <4>5, <4>6
    <3> QED
      BY <3>1, <3>2
  <2> QED
    BY <1>1, <2>2, <2>3, <2>4, <2>5 DEF Following
<1> QED
  BY <1>1, <1>7, <1>8, <1>9, <1>10, <1>11 DEF Streaming

\* Every step keeps the invariant.
LEMMA StreamingStep == Streaming /\ [Next]_vars => Streaming'
<1> SUFFICES ASSUME Streaming, [Next]_vars PROVE Streaming'
  OBVIOUS
<1>1. position \in Nat /\ (reading = "closed" => result \in {Nothing, Error})
  BY DEF Streaming, TypeOK
<1>2. ASSUME NEW data \in BoundedSeq(Byte, FrameSize + 1) \ {<<>>}, Write(data) PROVE Streaming'
  <2>1. FrameSize + 1 \in Nat
    BY StreamAssumption
  <2>2. data \in Seq(Byte)
    BY <2>1, PiecesAreSequences
  <2> QED
    BY <1>2, <2>2, WriteStep
<1>3. CASE Finish
  BY <1>3, FinishStep
<1>4. CASE WriteFails
  BY <1>4, WriteFailsStep
<1>5. CASE Damage
  BY <1>5, DamageStep
<1>6. ASSUME NEW right \in BOOLEAN, Open(right) PROVE Streaming'
  BY <1>6, OpenStep
<1>7. CASE OpenFails
  <2>1. /\ UNCHANGED <<writerVars, diskVars, faults, openVars, cached, fresh>>
        /\ position' = position /\ result' = Error
    BY <1>7 DEF OpenFails
  <2> QED
    BY <1>1, <2>1, QuietStep
<1>8. ASSUME NEW p \in 0..(MaxText + 1), Seek(p) PROVE Streaming'
  <2>1. /\ UNCHANGED <<writerVars, diskVars, faults, openVars, cached, fresh>>
        /\ position' \in {position, p} /\ reading = "open"
    BY <1>8 DEF Seek
  <2>2. position' \in Nat /\ reading # "closed"
    BY <1>1, <2>1
  <2> QED
    BY <2>1, <2>2, QuietStep
<1>9. ASSUME NEW k \in 1..FrameSize, Read(k) PROVE Streaming'
  <2>1. PICK n, l : n = position \div FrameSize /\ l = Len(Piece(n, position))
    OBVIOUS
  <2>2. /\ reading = "open" /\ Loaded(n) /\ k \in 1..l /\ position' = position + k
        /\ (fresh' = IF position = fresh THEN fresh + k ELSE fresh)
        /\ cached' = [sequence |-> n, data |-> Plain(n)]
        /\ UNCHANGED <<writerVars, diskVars, faults, openVars>>
    BY <1>9, <2>1 DEF Read
  <2>3. position + k <= Offset(n + 1)
    BY <2>1, <2>2, PieceIs
  <2>4. k \in Nat /\ position' \in Nat /\ fresh \in Nat
    BY <1>1, <2>2, StreamAssumption DEF Streaming, TypeOK
  <2>5. fresh' = fresh \/ (Loaded(n) /\ fresh = position /\ fresh' \in Nat /\ fresh' <= Offset(n + 1))
    BY <2>2, <2>3, <2>4
  <2> QED
    BY <2>1, <2>2, <2>4, <2>5, LoadStep
<1>10. CASE ReadFails
  <2>1. PICK n : n = position \div FrameSize
    OBVIOUS
  <2>2. /\ reading = "open" /\ position' = position /\ fresh' = fresh
        /\ (cached' = cached \/ (Loaded(n) /\ cached' = [sequence |-> n, data |-> Plain(n)]))
        /\ UNCHANGED <<writerVars, diskVars, faults, openVars>>
    BY <1>10, <2>1 DEF ReadFails
  <2> QED
    BY <1>1, <2>1, <2>2, LoadStep
<1>11. CASE ReadEnd
  <2>1. /\ UNCHANGED <<writerVars, diskVars, faults, openVars, cached, fresh>>
        /\ position' = position /\ reading = "open"
    BY <1>11 DEF ReadEnd
  <2> QED
    BY <1>1, <2>1, QuietStep
<1>12. CASE UNCHANGED vars
  <2>1. /\ UNCHANGED <<writerVars, diskVars, faults, openVars, cached, fresh>>
        /\ position' = position /\ result' = result
    BY <1>12 DEF vars, readerVars
  <2> QED
    BY <1>1, <2>1, QuietStep
<1> QED
  BY <1>2, <1>3, <1>4, <1>5, <1>6, <1>7, <1>8, <1>9, <1>10, <1>11, <1>12 DEF Next

\* Streaming is inductive.
LEMMA StreamingAlways == Spec => []Streaming
<1>1. Init => Streaming
  BY StreamingInitial
<1>2. Streaming /\ [Next]_vars => Streaming'
  BY StreamingStep
<1> QED
  BY <1>1, <1>2, PTL DEF Spec

-----------------------------------------------------------------------------
(* Theorems                                                                   *)

\* Undamaged frames hold the text, cut at the multiples of their size.
LEMMA FramesOfText == Streaming => FramesHoldText
<1> SUFFICES ASSUME Streaming, faults = 0, writing # "failed"
             PROVE  /\ \A i \in DOMAIN frames :
                         LET end == IF i * FrameSize < Len(text) THEN i * FrameSize ELSE Len(text) IN
                         frames[i] = Frame(i - 1, SubSeq(text, (i - 1) * FrameSize + 1, end),
                                           writing = "finished" /\ i = Len(frames))
                    /\ writing = "open" => Len(frames) * FrameSize + Len(buffer) = Len(text)
                    /\ writing = "finished" => (Len(frames) - 1) * FrameSize <= Len(text)
                                                 /\ Len(text) < Len(frames) * FrameSize
  BY DEF FramesHoldText
<1>1. /\ text \in Seq(Byte) /\ buffer \in Seq(Byte) /\ frames \in Seq(FrameType) /\ Disk
      /\ writing \in {"open", "finished", "failed"}
  BY DEF Streaming, TypeOK, FramesTyped
<1>2. PICK T \in Nat, N \in Nat, B \in Nat :
        T = Len(text) /\ N = Len(frames) /\ B = Len(buffer) /\ DOMAIN frames = 1..N
  BY <1>1
<1>3. CASE writing = "open"
  <2>1. Filling /\ Offset(N) + B = T
    BY <1>1, <1>2, <1>3 DEF Disk, Filling, Offset
  <2>2. ASSUME NEW i \in 1..N
        PROVE  /\ frames[i] = Frame(i - 1, SubSeq(text, (i - 1) * FrameSize + 1, i * FrameSize), FALSE)
               /\ (IF i * FrameSize < T THEN i * FrameSize ELSE T) = i * FrameSize
    <3>1. PICK O \in Nat, P \in Nat : O = Offset(i) /\ P = Offset(N) /\ O <= P
      <4>1. i \in Nat /\ i <= N
        BY <1>2
      <4> QED
        BY <1>2, <4>1, Offsets
    <3>2. (IF O < T THEN O ELSE T) = O
      BY <1>2, <2>1, <3>1
    <3>3. frames[i] = FullFrame(i)
      BY <1>2, <2>1 DEF Filling
    <3> QED
      BY <3>1, <3>2, <3>3 DEF Offset, FullFrame
  <2>3. ASSUME NEW i \in 1..N
        PROVE  LET end == IF i * FrameSize < Len(text) THEN i * FrameSize ELSE Len(text) IN
               frames[i] = Frame(i - 1, SubSeq(text, (i - 1) * FrameSize + 1, end), FALSE)
    BY <1>2, <2>2
  <2>4. \A i : (writing = "finished" /\ i = Len(frames)) = FALSE
    BY <1>3
  <2> QED
    BY <1>2, <1>3, <2>1, <2>3, <2>4 DEF Filling
<1>4. CASE writing = "finished"
  <2>1. Finished(sealed) /\ frames = sealed
    BY <1>1, <1>4 DEF Disk
  <2>2. PICK n : n = Len(sealed) - 1
    OBVIOUS
  <2>3. /\ n \in Nat /\ \A i \in 1..n : frames[i] = FullFrame(i)
        /\ frames[n + 1] = Frame(n, SubSeq(text, n * FrameSize + 1, Len(text)), TRUE)
        /\ n * FrameSize <= Len(text) /\ Len(text) < n * FrameSize + FrameSize
    BY <2>1, <2>2 DEF Finished
  <2>4. N = n + 1 /\ n + 1 - 1 = n /\ N - 1 = n
    BY <1>2, <2>1, <2>2, <2>3
  <2>5. PICK O \in Nat, P \in Nat : /\ O = n * FrameSize /\ P = N * FrameSize /\ P = O + FrameSize
                                    /\ O <= T /\ T < P
    <3>1. Offset(n) \in Nat /\ Offset(N) = Offset(n) + FrameSize /\ Offset(N) \in Nat
      BY <2>3, <2>4, Offsets
    <3>2. n * FrameSize = Offset(n) /\ N * FrameSize = Offset(N)
      BY DEF Offset
    <3> QED
      BY <1>2, <2>3, <3>1, <3>2
  <2>6. ASSUME NEW i \in 1..n
        PROVE  LET end == IF i * FrameSize < Len(text) THEN i * FrameSize ELSE Len(text) IN
               frames[i] = Frame(i - 1, SubSeq(text, (i - 1) * FrameSize + 1, end), FALSE)
    <3>1. PICK Q \in Nat : Q = Offset(i) /\ Q <= O
      <4>1. i \in Nat /\ i <= n
        BY <2>3
      <4> QED
        BY <2>3, <2>5, <4>1, Offsets DEF Offset
    <3>2. (IF Q < T THEN Q ELSE T) = Q
      BY <1>2, <2>5, <3>1
    <3>3. (IF i * FrameSize < Len(text) THEN i * FrameSize ELSE Len(text)) = i * FrameSize
      BY <1>2, <3>1, <3>2 DEF Offset
    <3>4. frames[i] = Frame(i - 1, SubSeq(text, (i - 1) * FrameSize + 1, i * FrameSize), FALSE)
      BY <2>3 DEF FullFrame
    <3> QED
      BY <3>3, <3>4
  <2>7. LET end == IF N * FrameSize < Len(text) THEN N * FrameSize ELSE Len(text) IN
        frames[N] = Frame(N - 1, SubSeq(text, (N - 1) * FrameSize + 1, end), TRUE)
    <3>1. (IF P < T THEN P ELSE T) = T
      BY <2>5
    <3> QED
      BY <1>2, <2>3, <2>4, <2>5, <3>1
  <2>8. ASSUME NEW i \in 1..N
        PROVE  LET end == IF i * FrameSize < Len(text) THEN i * FrameSize ELSE Len(text) IN
               frames[i] = Frame(i - 1, SubSeq(text, (i - 1) * FrameSize + 1, end),
                                 writing = "finished" /\ i = Len(frames))
    <3>1. CASE i = N
      <4>1. (writing = "finished" /\ i = Len(frames)) = TRUE
        BY <1>2, <1>4, <3>1
      <4> QED
        BY <2>7, <3>1, <4>1
    <3>2. CASE i # N
      <4>1. (writing = "finished" /\ i = Len(frames)) = FALSE /\ i \in 1..n
        BY <1>2, <2>3, <2>4, <3>2
      <4> QED
        BY <2>6, <4>1
    <3> QED
      BY <3>1, <3>2
  <2>9. (N - 1) * FrameSize <= T /\ T < N * FrameSize
    BY <2>4, <2>5
  <2> QED
    BY <1>2, <1>4, <2>8, <2>9
<1> QED
  BY <1>1, <1>3, <1>4

\* Writer and reader agree on the stream, for every size of frames, every text
\* and every number of faults: WriteFills and FaultNoticed, over all steps.
THEOREM StreamsAreConsistent == Spec => []StreamConsistent
<1>1. Streaming => StreamConsistent
  BY FramesOfText DEF Streaming, Following, StreamConsistent, OpensAtFullLength
<1> QED
  BY <1>1, StreamingAlways, PTL

\* What was read without a gap to the end is what was written, frame for frame,
\* but for the body of an empty final frame.
THEOREM FullReadsAreAuthentic == Spec => []FullReadIsAuthentic
<1>1. Streaming => FullReadIsAuthentic
  <2> SUFFICES ASSUME Streaming, reading = "open", faults <= 1, fresh >= textLen
               PROVE  /\ Len(opened) = Len(sealed)
                      /\ \A i \in DOMAIN sealed :
                           /\ opened[i].head = sealed[i].head
                           /\ opened[i] = sealed[i] \/ (i = Len(sealed) /\ sealed[i].head.plain = 0)
    BY DEF FullReadIsAuthentic
  <2>1. /\ SameHeads(opened) /\ textLen = Len(text) /\ fresh \in Nat
        /\ \A i \in DOMAIN sealed : fresh > (i - 1) * FrameSize => opened[i] = sealed[i]
        /\ text \in Seq(Byte) /\ Finished(sealed) /\ sealed \in Seq(FrameType)
    BY DEF Streaming, TypeOK, FramesTyped, Disk, Following
  <2>2. ASSUME NEW i \in DOMAIN sealed
        PROVE  opened[i] = sealed[i] \/ (i = Len(sealed) /\ sealed[i].head.plain = 0)
    <3>1. i \in 1..Len(sealed)
      BY <2>1
    <3>2. PICK p \in Nat : sealed[i].head.plain = p /\ SealedWith(i, Len(sealed), p)
      BY <2>1, <3>1, SealedFields
    <3>3. PICK O \in Nat : O = Offset(i - 1) /\ O = (i - 1) * FrameSize
      <4>1. i - 1 \in Nat
        BY <2>1, <3>1
      <4> QED
        BY <4>1, Offsets DEF Offset
    <3>4. O + p <= Len(text) /\ (i # Len(sealed) => p = FrameSize) /\ Len(text) <= fresh /\ Len(text) \in Nat
      BY <2>1, <3>2, <3>3 DEF SealedWith
    <3>5. CASE p > 0
      <4>1. fresh > O
        BY <2>1, <3>4, <3>5
      <4> QED
        BY <2>1, <3>3, <4>1
    <3>6. CASE p = 0
      <4>1. FrameSize # 0
        BY StreamAssumption
      <4> QED
        BY <3>2, <3>4, <3>6, <4>1
    <3> QED
      BY <3>5, <3>6
  <2> QED
    BY <2>1, <2>2 DEF SameHeads
<1> QED
  BY <1>1, StreamingAlways, PTL

\* What one read delivers.
LEMMA ReadDelivers ==
  ASSUME Streaming, NEW k \in 1..FrameSize, Read(k)
  PROVE  /\ keyRight /\ result' = Bytes(SubSeq(text, position + 1, position + k))
         /\ position' = position + k /\ position + k <= Len(text) /\ k \in Nat /\ k >= 1
<1>1. PICK n, l : n = position \div FrameSize /\ l = Len(Piece(n, position))
  OBVIOUS
<1>2. /\ reading = "open" /\ Loaded(n) /\ k \in 1..l /\ position' = position + k
      /\ result' = Bytes(SubSeq(Piece(n, position), 1, k))
  BY <1>1 DEF Read
<1>3. SubSeq(Piece(n, position), 1, k) = SubSeq(text, position + 1, position + k) /\ position + k <= Len(text)
  BY <1>1, <1>2, PieceIs
<1>4. position \in Nat
  BY DEF Streaming, TypeOK
<1>5. keyRight
  <2>1. n \in Nat
    BY <1>1, <1>4, Division
  <2> QED
    BY <1>2, <2>1, LoadedIs
<1>6. k \in Nat /\ k >= 1
  BY StreamAssumption
<1> QED
  BY <1>2, <1>3, <1>5, <1>6

\* A read under a wrong key, or of anything but the text, delivers nothing.
THEOREM OnlyTextIsDelivered == Spec => DeliversOnlyText
<1>1. Streaming /\ [Next]_vars =>
        (position' # position /\ result'.kind = "bytes" =>
           keyRight /\ result'.bytes = SubSeq(text, position + 1, position'))
  <2> SUFFICES ASSUME Streaming, [Next]_vars, position' # position, result'.kind = "bytes"
               PROVE  keyRight /\ result'.bytes = SubSeq(text, position + 1, position')
    OBVIOUS
  <2>1. Nothing.kind = "none" /\ Error.kind = "error" /\ Ended.kind = "end"
    BY DEF Nothing, Error, Ended
  <2>2. ~Damage
    BY DEF Damage, AlterHeader, AlterFrame, Truncate, Displace, Strike, readerVars
  <2>3. ~(\E data : Write(data)) /\ ~Finish /\ ~WriteFails
    BY DEF Write, Finish, WriteFails, readerVars
  <2>4. ~(\E right : Open(right)) /\ ~OpenFails /\ ~(\E p : Seek(p)) /\ ~ReadFails /\ ~ReadEnd
    BY <2>1 DEF Open, OpenFails, Seek, ReadFails, ReadEnd
  <2>5. ~UNCHANGED vars
    BY DEF vars, readerVars
  <2>6. PICK k \in 1..FrameSize : Read(k)
    BY <2>2, <2>3, <2>4, <2>5 DEF Next
  <2> QED
    BY <2>6, ReadDelivers DEF Bytes
<1> QED
  BY <1>1, StreamingAlways, PTL DEF Spec, DeliversOnlyText

\* What the stream of bytes sees of a position and a result.
SeenPosition == IF faults <= 1 THEN position ELSE 0
SeenResult   == IF faults <= 1 THEN result ELSE Nothing

\* write adds to the end of the text.
LEMMA WriteExtends ==
  ASSUME Streaming, NEW data \in Seq(Byte), Write(data)
  PROVE  Stream!Write
<1>1. text \in Seq(Byte) /\ text' = text \o data /\ text' \in Seq(Byte)
  BY WriteStep DEF Streaming, TypeOK, Write
<1>2. Len(text) \in Nat /\ Len(text') = Len(text) + Len(data) /\ Len(data) \in Nat
  BY <1>1, ConcatProperties
<1>3. SubSeq(text', 1, Len(text)) = SubSeq(text, 1, Len(text))
  BY <1>1, <1>2, PieceStays
<1>4. position' = position /\ result' = result /\ faults' = faults
  BY DEF Write, readerVars
<1> QED
  BY <1>2, <1>3, <1>4 DEF Stream!Write, Stream!IsPrefix

\* A step that the stream of bytes sees nothing of.
LEMMA Unseen ==
  ASSUME text' = text, SeenPosition' = SeenPosition, SeenResult' = SeenResult
  PROVE  UNCHANGED Stream!streamVars
BY DEF Stream!streamVars, SeenPosition, SeenResult

\* Every step is one of the stream of bytes, or none.
LEMMA StreamStep == Streaming /\ [Next]_vars => [Stream!Next]_(Stream!streamVars)
<1> SUFFICES ASSUME Streaming, [Next]_vars
             PROVE  Stream!Next \/ UNCHANGED Stream!streamVars
  OBVIOUS
<1>1. position \in Nat /\ faults \in Nat
  BY DEF Streaming, TypeOK, FramesTyped
<1>2. Nothing = Stream!Nothing /\ Error = Stream!Error /\ Ended = Stream!Ended
      /\ \A s : Bytes(s) = Stream!Bytes(s)
  BY DEF Nothing, Error, Ended, Bytes, Stream!Nothing, Stream!Error, Stream!Ended, Stream!Bytes
<1>3. ASSUME NEW data \in BoundedSeq(Byte, FrameSize + 1) \ {<<>>}, Write(data) PROVE Stream!Next
  <2>1. FrameSize + 1 \in Nat
    BY StreamAssumption
  <2>2. data \in Seq(Byte)
    BY <2>1, PiecesAreSequences
  <2> QED
    BY <1>3, <2>2, WriteExtends DEF Stream!Next
<1>4. CASE Finish \/ WriteFails \/ UNCHANGED vars
  BY <1>4, Unseen DEF Finish, WriteFails, vars, writerVars, readerVars, SeenPosition, SeenResult
\* A second fault is where the stream of bytes stops looking.
<1>5. CASE Damage
  <2>1. text' = text /\ position' = position /\ result' = result /\ faults' = faults + 1
    BY <1>5 DEF Damage, AlterHeader, AlterFrame, Truncate, Displace, Strike, writerVars, readerVars
  <2>2. CASE faults = 1
    <3>1. ~(faults' <= 1)
      BY <2>1, <2>2
    <3>2. Stream!Open
      BY <1>2, <2>1, <3>1 DEF Stream!Open
    <3> QED
      BY <3>2 DEF Stream!Next
  <2>3. CASE faults # 1
    <3>1. faults' <= 1 <=> faults <= 1
      BY <1>1, <2>1, <2>3
    <3> QED
      BY <2>1, <3>1, Unseen DEF SeenPosition, SeenResult
  <2> QED
    BY <2>2, <2>3
\* What the reader does after it is not seen.
<1>6. CASE text' = text /\ faults' = faults /\ ~(faults <= 1)
  BY <1>6, Unseen DEF SeenPosition, SeenResult
<1>7. CASE faults <= 1 /\ faults' = faults /\ text' = text
  <2>1. ASSUME NEW right \in BOOLEAN, Open(right) PROVE Stream!Next
    <3>1. position' = 0 /\ result' = Nothing
      BY <2>1 DEF Open
    <3> QED
      BY <1>2, <1>7, <3>1 DEF Stream!Open, Stream!Next
  <2>2. ASSUME OpenFails \/ ReadFails PROVE Stream!Next
    <3>1. position' = position /\ result' = Error /\ position <= position
      BY <1>1, <2>2 DEF OpenFails, ReadFails
    <3> QED
      BY <1>1, <1>2, <1>7, <3>1 DEF Stream!Fail, Stream!Next
  <2>3. ASSUME NEW p \in 0..(MaxText + 1), Seek(p) PROVE Stream!Next
    <3>1. CASE result' = Error /\ position' = position
      <4>1. position <= position
        BY <1>1
      <4> QED
        BY <1>1, <1>2, <1>7, <3>1, <4>1 DEF Stream!Fail, Stream!Next
    <3>2. CASE result' = Nothing /\ position' = p
      <4>1. p \in Nat
        BY <2>3, StreamAssumption
      <4> QED
        BY <1>2, <1>7, <3>2, <4>1 DEF Stream!Seek, Stream!Next
    <3> QED
      BY <2>3, <3>1, <3>2 DEF Seek
  <2>4. ASSUME NEW k \in 1..FrameSize, Read(k) PROVE Stream!Next
    <3>1. /\ result' = Bytes(SubSeq(text, position + 1, position + k)) /\ position' = position + k
          /\ position + k <= Len(text) /\ k \in Nat /\ k >= 1
      BY <2>4, ReadDelivers
    <3>2. Len(text) \in Nat
      BY DEF Streaming, TypeOK
    <3>3. k \in 1..(Len(text) - position)
      BY <1>1, <3>1, <3>2
    <3> QED
      BY <1>2, <1>7, <3>1, <3>3 DEF Stream!Read, Stream!Next
  <2>5. ASSUME ReadEnd PROVE Stream!Next
    <3>1. position >= textLen /\ reading = "open" /\ result' = Ended /\ position' = position
      BY <2>5 DEF ReadEnd
    <3>2. textLen = Len(text)
      BY <1>7, <3>1 DEF Streaming, Following
    <3> QED
      BY <1>2, <1>7, <3>1, <3>2 DEF Stream!End, Stream!Next
  <2> QED
    BY <1>3, <1>4, <1>5, <2>1, <2>2, <2>3, <2>4, <2>5 DEF Next
<1>8. ASSUME \/ \E right \in BOOLEAN : Open(right)
             \/ OpenFails
             \/ \E p \in 0..(MaxText + 1) : Seek(p)
             \/ \E k \in 1..FrameSize : Read(k)
             \/ ReadFails \/ ReadEnd
      PROVE  text' = text /\ faults' = faults
  BY <1>8 DEF Open, OpenFails, Seek, Read, ReadFails, ReadEnd, writerVars
<1> QED
  BY <1>1, <1>3, <1>4, <1>5, <1>6, <1>7, <1>8 DEF Next

\* Through read and seek, the encrypted stream is the stream of bytes that was
\* written, for every size of frames, and whatever one fault does to it.
THEOREM StreamRefines == Spec => ImplementsByteStream
<1>1. Init => Stream!Init
  BY DEF Init, Stream!Init, Nothing, Stream!Nothing
<1> QED
  BY <1>1, StreamStep, StreamingAlways, PTL DEF Spec, ImplementsByteStream, Stream!Spec
===============================================================================
