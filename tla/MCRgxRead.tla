------------------------------ MODULE MCRgxRead ------------------------------
(***************************************************************************)
(* The reader on every stream of up to BodyLen records between a header    *)
(* and a tail, well-formed or not, which nothing changes while it is read. *)
(***************************************************************************)
EXTENDS RgxRead, TLC, SequencesExt
CONSTANTS c1, c2, top, a, bs, BodyLen
MCChunkLen == c1 :> 2 @@ c2 :> 1
MCZipLen   == c1 :> 1 @@ c2 :> 1

Body ==
  {ChunkRecord(c1), ChunkRecord(c2),
   [ChunkRecord(c2) EXCEPT !.data = Garbage],
   [ChunkRecord(c1) EXCEPT !.size = 3],
   DirectoryRecord(<<top>>), DirectoryRecord(<<top, a>>), DirectoryRecord(<<bs>>),
   FileRecord(<<top, a>>, 3, <<c1, c2>>), FileRecord(<<top, a>>, 2, <<c1>>),
   FileRecord(<<a>>, 0, <<>>), FileRecord(<<top>>, 2, <<c2, c2>>),
   [FileRecord(<<a>>, 1, <<c2>>) EXCEPT !.hash = <<c1>>],
   FileRecord(<<a>>, 3, <<c2, c2, c2>>), FileRecord(<<top, top>>, 3, <<c1>>)}

\* A stream may stop, be cut in a record, trail, or carry any of the footers:
\* the true one, one with a counter off, or another stream's.
Footers(body) ==
  LET s == <<Header>> \o body
      sum(f(_)) == FoldLeft(LAMBDA x, y : x + f(y), 0, s)
      is(t) == sum(LAMBDA x : IF x.tag = t THEN 1 ELSE 0)
      all(t, f(_)) == sum(LAMBDA x : IF x.tag = t THEN f(x) ELSE 0)
      saved == all("FILE", LAMBDA x : x.size) - all("CHNK", LAMBDA x : x.size)
      true == [n \in CounterNames |->
        CASE n = "files" -> is("FILE") [] n = "directories" -> is("DIRE")
          [] n = "entries" -> is("FILE") + is("DIRE")
          [] n = "unique_chunks" -> is("CHNK")
          [] n = "chunk_references" -> all("FILE", LAMBDA x : Len(x.refs))
          [] n = "original_bytes" -> all("FILE", LAMBDA x : x.size)
          [] n = "stored_bytes" -> all("CHNK", LAMBDA x : x.payload)
          [] n = "deduplicated_bytes" -> IF saved < 0 THEN 0 ELSE saved]
  IN  {FooterRecord(true), FooterRecord(Add(true, "stored_bytes", 1))}

Streams ==
  {<<>>} \union
  UNION {
    {<<Header>> \o b \o <<f>> : f \in Footers(b)} \union
    {<<Header>> \o b, <<Header>> \o b \o <<Torn>>, b}
      \union {<<Header>> \o b \o <<f, Torn>> : f \in Footers(b)}
    : b \in BoundedSeq(Body, BodyLen)}

MCOperations ==
  [kind : {"info", "verify"}, sel : {<<>>}]
    \union [kind : {"cat", "extract"}, sel : {<<top>>, <<top, a>>, <<bs>>}]
    \union [kind : {"extract"}, sel : {<<>>}]

\* ReadAlone, from these streams.
Init == archive \in Streams /\ ReadInit
Next == ReadNext /\ UNCHANGED archive
Spec == Init /\ [][Next]_readingVars
=============================================================================
