------------------------------ MODULE RgxEnvelope ------------------------------
(***************************************************************************)
(* A recipient archive as a file: the envelope that recipient_archive.rs   *)
(* writes and reads, with the slots of recipient.rs in it, and the payload *)
(* behind it.  Cryptography is ideal: each archive has a key of its own, a *)
(* box opens to the key it was made for, and the hash of an envelope is    *)
(* the envelope.  Plain and private archives have their magic only.        *)
(***************************************************************************)
EXTENDS Naturals, Sequences

CONSTANTS
  Archive,        \* what was asked to be packed
  Kind,           \* Archive -> {"plain", "private", "recipient"}
  Identity,
  Asked,          \* Archive -> the recipients, in order
  Fallback,       \* Archive -> BOOLEAN: with a password
  MaxRecipients,
  Garbage         \* bytes that nothing was made of

ASSUME EnvelopeAssumption ==
  /\ Kind \in [Archive -> {"plain", "private", "recipient"}]
  /\ Asked \in [Archive -> Seq(Identity)]
  /\ Fallback \in [Archive -> BOOLEAN]
  /\ MaxRecipients \in Nat
  /\ Garbage \notin Archive \union Identity \union {"plain", "private", "recipient"}
  /\ Garbage \notin [to : Identity, key_id : Identity, key : Archive]
  /\ "password" \notin Identity

Recipients(x) == {Asked[x][k] : k \in DOMAIN Asked[x]}

\* Fault: one recipient more than the reader takes.
PackAcceptsOneMore(n) == 1 <= n /\ n <= MaxRecipients + 1

\* pack_recipient's limits.
PackAccepts(n) == 1 <= n /\ n <= MaxRecipients

\* The header of n recipient slots of 120 bytes and possibly a password slot
\* of 100.
ExpectedHeaderLen(n, password) == 16 + 120 * n + (IF password THEN 100 ELSE 0)

\* The wrapping key comes from the shared secret, so that only identity `to` can
\* derive it again, and from the Key-ID, which is authenticated as well.
\* Key-ID, ephemeral key, nonce and ciphertext of a slot are two fields here:
\* the last three make up the box.
RecipientSlot(i, x) == [key_id |-> i, box |-> [to |-> i, key_id |-> i, key |-> x]]

\* Argon2 parameters, salt and nonce are authenticated with the key.
PasswordSlot(x) == [parameters |-> "written", box |-> x]

Prefix(n, password) ==
  [version |-> 2, flags |-> IF password THEN 1 ELSE 0, count |-> n, reserved |-> 0,
   header_len |-> ExpectedHeaderLen(n, password)]

\* encode_envelope
Envelope(x) ==
  [prefix     |-> Prefix(Len(Asked[x]), Fallback[x]),
   recipients |-> [k \in DOMAIN Asked[x] |-> RecipientSlot(Asked[x][k], x)],
   password   |-> IF Fallback[x] THEN <<PasswordSlot(x)>> ELSE <<>>]

\* The header of the payload names the hash of the envelope, and every frame is
\* sealed with the header under the key of the archive, so that a change to
\* either is the same: its seal is broken.
Packed(x) ==
  [magic    |-> Kind[x],
   envelope |-> IF Kind[x] = "recipient" THEN Envelope(x) ELSE <<>>,
   payload  |-> IF Kind[x] = "recipient" THEN [of |-> x, names |-> Envelope(x), seal |-> "good"]
               ELSE [of |-> x]]

Packable == {x \in Archive : Kind[x] = "recipient" => PackAccepts(Len(Asked[x]))}

-----------------------------------------------------------------------------
(* Reading *)

\* validate_prefix
PrefixValid(p) ==
  p.version = 2 /\ p.flags \in {0, 1} /\ p.count \in 1..MaxRecipients /\ p.reserved = 0

\* The payload stands behind the slots that are there, and its magic is sought
\* behind those that the prefix announces.
PayloadFound(e) ==
  ExpectedHeaderLen(e.prefix.count, e.prefix.flags = 1)
    = ExpectedHeaderLen(Len(e.recipients), e.password # <<>>)

\* read_envelope succeeds.
Readable(f) ==
  /\ f.magic = "recipient"
  /\ PrefixValid(f.envelope.prefix)
  /\ f.envelope.prefix.header_len
       = ExpectedHeaderLen(f.envelope.prefix.count, f.envelope.prefix.flags = 1)
  /\ PayloadFound(f.envelope)
  /\ f.payload # <<>>

\* The recipient slots of f that are for identity i by their Key-ID.
SlotsOf(f, i) == {k \in DOMAIN f.envelope.recipients : f.envelope.recipients[k].key_id = i}

\* What a box, an archive key or Garbage, gives to identity i.
Unwrap(slot, i) ==
  IF slot.box # Garbage /\ slot.box.to = i /\ slot.box.key_id = slot.key_id
  THEN {slot.box.key} ELSE {}

\* The first of the slots is the one that is unwrapped.
UnwrapFor(f, i) ==
  UNION {Unwrap(f.envelope.recipients[k], i) :
           k \in {n \in SlotsOf(f, i) : \A m \in SlotsOf(f, i) : n <= m}}

HasPassword(f) == f.envelope.password # <<>>

\* What the password slot gives to a password that is right for archives `opens`.
UnwrapWithPassword(f, opens) ==
  {x \in opens : HasPassword(f) /\ f.envelope.password[1] = PasswordSlot(x)}

-----------------------------------------------------------------------------
(* Faults of the storage: one field of the file changes.  A box may change   *)
(* into one of another archive, and slots may change places.                 *)

PrefixRotted(p) ==
  {[p EXCEPT !.version = 3], [p EXCEPT !.reserved = 1], [p EXCEPT !.count = 0],
   [p EXCEPT !.count = @ + 1], [p EXCEPT !.header_len = @ + 120]}
    \union {[p EXCEPT !.flags = n] : n \in (0..2) \ {p.flags}}

SlotRotted(slot) ==
  ({[slot EXCEPT !.key_id = i] : i \in Identity \union {Garbage}}
     \union {[slot EXCEPT !.box = Garbage]}
     \union UNION {{[slot EXCEPT !.box = RecipientSlot(i, x).box] : i \in Recipients(x)} : x \in Packable})
    \ {slot}

PasswordRotted(slot) ==
  {[slot EXCEPT !.parameters = Garbage], [slot EXCEPT !.box = Garbage]}

PrefixChanged(e) == {[e EXCEPT !.prefix = p] : p \in PrefixRotted(e.prefix)}

SlotChanged(e) ==
  UNION {{[e EXCEPT !.recipients[k] = r] : r \in SlotRotted(e.recipients[k])} :
           k \in DOMAIN e.recipients}

SlotsSwapped(e) ==
  {[e EXCEPT !.recipients[1] = e.recipients[k], !.recipients[k] = e.recipients[1]] :
     k \in (DOMAIN e.recipients) \ {1}}

PasswordChanged(e) ==
  UNION {{[e EXCEPT !.password[k] = r] : r \in PasswordRotted(e.password[k])} :
           k \in DOMAIN e.password}

EnvelopeRotted(e) ==
  PrefixChanged(e) \union SlotChanged(e) \union SlotsSwapped(e) \union PasswordChanged(e)

Rotted(f) ==
  {[f EXCEPT !.magic = Garbage], [f EXCEPT !.payload = <<>>]}
    \union (IF f.payload = <<>> THEN {} ELSE {[f EXCEPT !.payload.seal = "broken"]})
    \union {[f EXCEPT !.envelope = e] : e \in EnvelopeRotted(f.envelope)}
================================================================================
