---------------------------- MODULE MCRgxRoundTrip ----------------------------
(* Values for the runs of writer and reader on one archive.                  *)
EXTENDS RgxRoundTrip, TLC
CONSTANTS c1, c2, top, a, bs, dot
MCChunkLen == c1 :> 2 @@ c2 :> 1
MCZipLen   == c1 :> 1 @@ c2 :> 1
SameLen    == c1 :> 1 @@ c2 :> 1   \* a digest, not a length, tells them apart

Whole(kind) == [kind |-> kind, sel |-> <<>>]
AllOperations ==
  {Whole("info"), Whole("verify"), Whole("extract")}
    \union [kind : {"cat", "extract"}, sel : {<<top>>, <<top, a>>}]
DeliveringOperations == {Whole("extract"), [kind |-> "cat", sel |-> <<top>>]}
VerifyOperation == {Whole("verify")}
=============================================================================
