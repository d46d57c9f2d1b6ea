----------------------------- MODULE RgxRoundTrip -----------------------------
(***************************************************************************)
(* Writer and reader on one archive file.                                  *)
(*                                                                         *)
(* `rgx pack` writes a plain archive in place, record after record, so     *)
(* another `rgx` may open the file at any moment of the writing and read   *)
(* it at its own pace.  Once the writing is over, storage may damage the   *)
(* file, before it is read or in the middle of it.                         *)
(***************************************************************************)
EXTENDS RgxPack, RgxRead

CONSTANT MaxDamage   \* bound: faults of the storage

ASSUME DamageAssumption == MaxDamage \in Nat

VARIABLES
  packed,   \* the archive as the writer left it
  damage    \* how many faults it has suffered since

allVars == <<archive, packVars, readVars, packed, damage>>

RoundTripInit == Init /\ ReadInit /\ packed = <<>> /\ damage = 0

Write ==
  /\ PackNext
  /\ packed' = archive'
  /\ UNCHANGED <<readVars, damage>>

Read ==
  /\ ReadNext
  /\ UNCHANGED <<archive, packVars, packed, damage>>

-----------------------------------------------------------------------------
(* Faults: a field of one record changes, or the end of the file is lost or *)
(* overwritten.  A digest changes into one that nothing has, or that        *)
(* another chunk has; a damaged length makes what follows unreadable.       *)

NewPaths == [1..1 -> Name] \union [1..2 -> Name]

Rotted(r) ==
  {Torn} \union
  CASE r.tag = "CHNK" ->
         {[r EXCEPT !.data = Garbage], [r EXCEPT !.size = @ + 1], [r EXCEPT !.payload = @ + 1]}
           \union {[r EXCEPT !.hash = h] : h \in Chunk \union {Garbage}}
    [] r.tag = "FILE" ->
         {[r EXCEPT !.size = @ + 1], [r EXCEPT !.hash = <<Garbage>>]}
           \union {[r EXCEPT !.path = p] : p \in NewPaths}
           \union {[r EXCEPT !.refs[k] = c] : k \in DOMAIN r.refs, c \in Chunk}
    [] r.tag = "DIRE" -> {[r EXCEPT !.path = p] : p \in NewPaths}
    [] r.tag = "RGXF" -> {[r EXCEPT !.stats = Add(@, n, 1)] : n \in CounterNames}
    [] OTHER -> {}

Strike ==
  /\ pc \in {"ok", "failed"} /\ rpc # "done" /\ damage < MaxDamage
  /\ damage' = damage + 1
  /\ UNCHANGED <<packVars, readVars, packed>>

RotRecord(i) ==
  /\ Strike
  /\ \E r \in Rotted(archive[i]) \ {archive[i]} : archive' = [archive EXCEPT ![i] = r]

LoseRecord(i) ==
  /\ Strike
  /\ archive' = SubSeq(archive, 1, i - 1) \o SubSeq(archive, i + 1, Len(archive))

LoseTail(n) == Strike /\ archive' = SubSeq(archive, 1, n)

GrowTail == Strike /\ archive' = Append(archive, Torn)

Damage ==
  \/ \E i \in DOMAIN archive : RotRecord(i) \/ LoseRecord(i) \/ LoseTail(i - 1)
  \/ GrowTail

RoundTripNext == Write \/ Read \/ Damage

RoundTripSpec == RoundTripInit /\ [][RoundTripNext]_allVars

\* The reader's loops are ordinary sequential code: once an operation is
\* under way it goes on, whatever the writer does.
ReadFair ==
  RoundTripSpec /\ WF_allVars((ScanStep \/ PlanStep \/ FileStep)
                              /\ UNCHANGED <<archive, packVars, packed, damage>>)

-----------------------------------------------------------------------------
(* Properties *)

RecordsOf(s, tag) == {i \in DOMAIN s : s[i].tag = tag}
Contents(s) == {s[i].hash : i \in RecordsOf(s, "FILE")}

\* Without damage, and with names both sides accept, the scan turns an
\* archive down for one reason only: its end is not there (yet), because it
\* is still being written or packing gave up on a record.  Every check of the
\* reader agrees with what the writer does: names, order of records, sizes,
\* limits, and every statistic of the footer.
OnlyIncompleteIsRefused ==
  [][verdict = "none" /\ verdict' = "rejected" /\ damage = 0
       => pos \notin DOMAIN archive \/ (pc = "failed" /\ pos = Len(archive))]_allVars

\* An archive whose packing is not over, or failed before the footer was
\* out, is never taken for a complete one.
AcceptedIsComplete ==
  damage = 0 /\ verdict = "accepted" =>
    /\ pc = "ok" \/ pc = "failed"
    /\ packed[Len(packed)].tag = "RGXF"

\* The round trip: what a successful extraction restores is what was packed,
\* every wanted path with its bytes and nothing else; cat returns the bytes
\* packed under the path.
RestoresWhatWasPacked ==
  outcome = "ok" /\ damage = 0 =>
    LET wanted == {i \in RecordsOf(packed, "FILE") : Selected(packed[i].path)} IN
    /\ op.kind = "extract" =>
         /\ DOMAIN dest.files = {packed[i].path : i \in wanted}
         /\ \A i \in wanted : dest.files[packed[i].path] = packed[i].hash
         /\ \A i \in RecordsOf(packed, "DIRE") :
              Selected(packed[i].path) => packed[i].path \in dest.dirs
    /\ op.kind = "cat" =>
         \E i \in wanted : packed[i].path = op.sel /\ packed[i].hash = returned

\* Damage, before or during the reading, never passes for data: every file a
\* successful operation hands out has the bytes of a file that was packed.
NoAlteredContent ==
  outcome = "ok" =>
    /\ op.kind = "extract" => \A p \in DOMAIN dest.files : dest.files[p] \in Contents(packed)
    /\ op.kind = "cat" => returned \in Contents(packed)

\* Nor does it make a file disappear: a full extraction of a damaged archive
\* that succeeds has as many files as were packed, with all their contents.
NoLostContent ==
  outcome = "ok" /\ op = [kind |-> "extract", sel |-> <<>>] =>
    /\ Cardinality(DOMAIN dest.files) = Cardinality(RecordsOf(packed, "FILE"))
    /\ {dest.files[p] : p \in DOMAIN dest.files} = Contents(packed)

\* No operation stays under way for ever, neither while the archive it reads is
\* still growing nor when a fault damages it, before or under the reading.
ReadEnds == <>[](rpc \in {"idle", "done"})

\* What the tests expect of every archive pack reports as written.
PackedVerifies ==
  [][verdict = "none" /\ verdict' = "rejected" /\ damage = 0 => pc # "ok"]_allVars
=============================================================================
