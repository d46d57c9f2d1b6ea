------------------------------ MODULE ByteStream ------------------------------
(***************************************************************************)
(* What src/src/archive.rs asks of the thing it reads: the bytes somebody  *)
(* wrote, from any position on, or an error, and the end of the stream     *)
(* where the bytes end.  A file does this by itself; the encrypted streams *)
(* have to (SealedStream implements this module).                          *)
(***************************************************************************)
EXTENDS Integers, Sequences, SequencesExt

VARIABLES
  text,      \* the bytes written
  position,  \* where the next read starts
  result     \* what the last call returned

streamVars == <<text, position, result>>

Nothing == [kind |-> "none", bytes |-> <<>>]
Error   == [kind |-> "error", bytes |-> <<>>]
Ended   == [kind |-> "end", bytes |-> <<>>]
Bytes(s) == [kind |-> "bytes", bytes |-> s]

Init == text = <<>> /\ position = 0 /\ result = Nothing

Write ==
  /\ IsPrefix(text, text')
  /\ UNCHANGED <<position, result>>

Open == position' = 0 /\ result' = Nothing /\ UNCHANGED text

Seek == position' \in Nat /\ result' = Nothing /\ UNCHANGED text

Read ==
  /\ \E n \in 1..(Len(text) - position) :
       /\ result' = Bytes(SubSeq(text, position + 1, position + n))
       /\ position' = position + n
  /\ UNCHANGED text

\* The end is reported at the end of what was written, not before.
End ==
  /\ position >= Len(text)
  /\ result' = Ended
  /\ UNCHANGED <<text, position>>

\* A call may fail; a read that fails may have moved on.
Fail ==
  /\ result' = Error
  /\ position' \in Nat /\ position' >= position
  /\ UNCHANGED text

Next == Write \/ Open \/ Seek \/ Read \/ End \/ Fail

Spec == Init /\ [][Next]_streamVars
=============================================================================
