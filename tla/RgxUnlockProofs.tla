---------------------------- MODULE RgxUnlockProofs ----------------------------
(***************************************************************************)
(* What an operation delivers comes from one archive, opened by someone it *)
(* was packed for behind an envelope that is as it was packed, for all     *)
(* archives, recipients and key files, and any number of replacements and  *)
(* faults of the storage; while nothing interferes it opens to exactly     *)
(* those it was packed for.                                                *)
(***************************************************************************)
EXTENDS RgxUnlock, WellFoundedInduction, TLAPS

\* What is in the slots of an envelope, damaged or not: a box was made for a
\* recipient of the archive whose key is in it, or for its password.
Boxes == {Garbage} \union UNION {{RecipientSlot(i, x).box : i \in Recipients(x)} : x \in Archive}
Slots == [key_id : Identity \union {Garbage}, box : Boxes]
PasswordSlots ==
  [parameters : {"written", Garbage}, box : {Garbage} \union {x \in Archive : Fallback[x]}]

EnvelopeOK(e) ==
  /\ e = [prefix |-> e.prefix, recipients |-> e.recipients, password |-> e.password]
  /\ e.recipients \in Seq(Slots)
  /\ e.password \in Seq(PasswordSlots)

PayloadOK(p) ==
  p # <<>> =>
    /\ p.of \in Archive
    /\ Kind[p.of] = "recipient" =>
         /\ p.names = Envelope(p.of)
         /\ p = [of |-> p.of, names |-> p.names, seal |-> p.seal]

FileOK(f) ==
  /\ f = [magic |-> f.magic, envelope |-> f.envelope, payload |-> f.payload]
  /\ PayloadOK(f.payload)
  /\ f.magic \in {"plain", "private"} => f.payload # <<>> /\ Kind[f.payload.of] = f.magic
  /\ f.magic = "recipient" =>
       /\ EnvelopeOK(f.envelope)
       /\ f.payload # <<>> => Kind[f.payload.of] = "recipient"

\* An envelope as it is packed.
LEMMA EnvelopePacked ==
  ASSUME NEW x \in Archive
  PROVE  EnvelopeOK(Envelope(x))
<1> DEFINE e == Envelope(x)
<1>1. /\ e = [prefix |-> e.prefix, recipients |-> e.recipients, password |-> e.password]
      /\ e.recipients = [k \in DOMAIN Asked[x] |-> RecipientSlot(Asked[x][k], x)]
      /\ e.password = IF Fallback[x] THEN <<PasswordSlot(x)>> ELSE <<>>
  BY DEF Envelope
<1>2. Asked[x] \in Seq(Identity)
  BY EnvelopeAssumption
<1>3. \A k \in DOMAIN Asked[x] : RecipientSlot(Asked[x][k], x) \in Slots
  <2> SUFFICES ASSUME NEW k \in DOMAIN Asked[x] PROVE RecipientSlot(Asked[x][k], x) \in Slots
    OBVIOUS
  <2>1. Asked[x][k] \in Identity /\ Asked[x][k] \in Recipients(x)
    BY <1>2 DEF Recipients
  <2>2. RecipientSlot(Asked[x][k], x).box \in Boxes
    BY <2>1 DEF Boxes
  <2> QED
    BY <2>1, <2>2 DEF Slots, RecipientSlot
<1>4. e.recipients \in Seq(Slots)
  BY <1>1, <1>2, <1>3
<1>5. Fallback[x] => PasswordSlot(x) \in PasswordSlots
  BY DEF PasswordSlot, PasswordSlots
<1>6. e.password \in Seq(PasswordSlots)
  BY <1>1, <1>5
<1> QED
  BY <1>1, <1>4, <1>6 DEF EnvelopeOK

LEMMA FilePacked ==
  ASSUME NEW x \in Archive
  PROVE  FileOK(Packed(x))
<1>1. CASE Kind[x] = "recipient"
  <2> DEFINE p == [of |-> x, names |-> Envelope(x), seal |-> "good"]
  <2>1. Packed(x) = [magic |-> "recipient", envelope |-> Envelope(x), payload |-> p]
    BY <1>1 DEF Packed
  <2>2. PayloadOK(p)
    BY DEF PayloadOK
  <2>3. p.of = x
    OBVIOUS
  <2> HIDE DEF p
  <2> QED
    BY <1>1, <2>1, <2>2, <2>3, EnvelopePacked DEF FileOK
<1>2. CASE Kind[x] \in {"plain", "private"}
  <2> DEFINE p == [of |-> x]
  <2>1. Packed(x) = [magic |-> Kind[x], envelope |-> <<>>, payload |-> p]
    BY <1>2 DEF Packed
  <2>2. p.of = x /\ p # <<>>
    <3>1. DOMAIN p = {"of"} /\ DOMAIN <<>> = {}
      OBVIOUS
    <3> QED
      BY <3>1
  <2>3. PayloadOK(p)
    BY <1>2, <2>2 DEF PayloadOK
  <2> HIDE DEF p
  <2> QED
    BY <1>2, <2>1, <2>2, <2>3 DEF FileOK
<1> QED
  BY <1>1, <1>2, EnvelopeAssumption

\* Damage leaves nothing in a slot that was not made for its reader.
LEMMA EnvelopeStaysOK ==
  ASSUME NEW e, EnvelopeOK(e), NEW d \in EnvelopeRotted(e)
  PROVE  EnvelopeOK(d)
<1> USE DEF EnvelopeOK
<1>1. CASE d \in PrefixChanged(e)
  BY <1>1 DEF PrefixChanged
<1>2. ASSUME NEW k \in DOMAIN e.recipients, NEW r \in SlotRotted(e.recipients[k]),
             d = [e EXCEPT !.recipients[k] = r]
      PROVE  EnvelopeOK(d)
  <2>1. e.recipients[k] \in Slots
    OBVIOUS
  <2>2. r \in Slots
    <3>1. CASE r \in {[e.recipients[k] EXCEPT !.key_id = i] : i \in Identity \union {Garbage}}
      BY <2>1, <3>1 DEF Slots
    <3>2. CASE r = [e.recipients[k] EXCEPT !.box = Garbage]
      BY <2>1, <3>2 DEF Slots, Boxes
    <3>3. ASSUME NEW x \in Packable, NEW i \in Recipients(x),
                 r = [e.recipients[k] EXCEPT !.box = RecipientSlot(i, x).box]
          PROVE  r \in Slots
      <4>1. RecipientSlot(i, x).box \in Boxes
        BY DEF Packable, Boxes
      <4> QED
        BY <2>1, <3>3, <4>1 DEF Slots
    <3> QED
      BY <3>1, <3>2, <3>3 DEF SlotRotted
  <2>3. d = [prefix |-> e.prefix, recipients |-> [e.recipients EXCEPT ![k] = r], password |-> e.password]
    BY <1>2
  <2>4. [e.recipients EXCEPT ![k] = r] \in Seq(Slots)
    BY <2>2
  <2> QED
    BY <2>3, <2>4
<1>3. ASSUME NEW k \in (DOMAIN e.recipients) \ {1},
             d = [e EXCEPT !.recipients[1] = e.recipients[k], !.recipients[k] = e.recipients[1]]
      PROVE  EnvelopeOK(d)
  <2> DEFINE s == [[e.recipients EXCEPT ![1] = e.recipients[k]] EXCEPT ![k] = e.recipients[1]]
  <2>1. 1 \in DOMAIN e.recipients /\ e.recipients[1] \in Slots /\ e.recipients[k] \in Slots
    OBVIOUS
  <2>2. s \in Seq(Slots)
    BY <2>1
  <2>3. d = [prefix |-> e.prefix, recipients |-> s, password |-> e.password]
    BY <1>3
  <2> QED
    BY <2>2, <2>3
<1>4. ASSUME NEW k \in DOMAIN e.password, NEW r \in PasswordRotted(e.password[k]),
             d = [e EXCEPT !.password[k] = r]
      PROVE  EnvelopeOK(d)
  <2>1. e.password[k] \in PasswordSlots
    OBVIOUS
  <2>2. r \in PasswordSlots
    BY <2>1 DEF PasswordSlots, PasswordRotted
  <2>3. d = [prefix |-> e.prefix, recipients |-> e.recipients, password |-> [e.password EXCEPT ![k] = r]]
    BY <1>4
  <2>4. [e.password EXCEPT ![k] = r] \in Seq(PasswordSlots)
    BY <2>2
  <2> QED
    BY <2>3, <2>4
<1> HIDE DEF EnvelopeOK
<1>5. CASE d \in SlotChanged(e)
  BY <1>2, <1>5 DEF SlotChanged
<1>6. CASE d \in SlotsSwapped(e)
  BY <1>3, <1>6 DEF SlotsSwapped
<1>7. CASE d \in PasswordChanged(e)
  BY <1>4, <1>7 DEF PasswordChanged
<1> QED
  BY <1>1, <1>5, <1>6, <1>7 DEF EnvelopeRotted

LEMMA FileStaysOK ==
  ASSUME NEW f, FileOK(f), f.magic = "recipient", NEW g \in Rotted(f)
  PROVE  FileOK(g)
<1> USE DEF FileOK
<1>1. CASE g = [f EXCEPT !.magic = Garbage]
  <2>1. g = [magic |-> Garbage, envelope |-> f.envelope, payload |-> f.payload]
    BY <1>1
  <2> QED
    BY <2>1, EnvelopeAssumption
<1>2. CASE g = [f EXCEPT !.payload = <<>>]
  <2>1. g = [magic |-> f.magic, envelope |-> f.envelope, payload |-> <<>>]
    BY <1>2
  <2> QED
    BY <2>1 DEF PayloadOK
<1>3. CASE f.payload # <<>> /\ g = [f EXCEPT !.payload.seal = "broken"]
  <2> DEFINE p == [f.payload EXCEPT !.seal = "broken"]
  <2>1. g = [magic |-> f.magic, envelope |-> f.envelope, payload |-> p]
    BY <1>3
  <2>2. PICK x, n, t : f.payload = [of |-> x, names |-> n, seal |-> t]
    BY <1>3 DEF PayloadOK
  <2>3. p = [of |-> x, names |-> n, seal |-> "broken"]
    BY <2>2
  <2>4. p.of = f.payload.of /\ p.names = f.payload.names /\ p # <<>>
    <3>1. DOMAIN p = {"of", "names", "seal"} /\ DOMAIN <<>> = {}
      BY <2>3
    <3>2. p # <<>>
      BY <3>1
    <3> QED
      BY <2>2, <2>3, <3>2
  <2>5. PayloadOK(p)
    BY <1>3, <2>3, <2>4 DEF PayloadOK
  <2> HIDE DEF p
  <2> QED
    BY <1>3, <2>1, <2>4, <2>5
<1>4. ASSUME NEW e \in EnvelopeRotted(f.envelope), g = [f EXCEPT !.envelope = e]
      PROVE  FileOK(g)
  <2>1. EnvelopeOK(e)
    BY EnvelopeStaysOK
  <2>2. g = [magic |-> f.magic, envelope |-> e, payload |-> f.payload]
    BY <1>4
  <2> QED
    BY <2>1, <2>2
<1> QED
  BY <1>1, <1>2, <1>3, <1>4 DEF Rotted

\* Only a recipient of an archive gets its key out of a box.
LEMMA UnwrapOnlyOwn ==
  ASSUME NEW f, FileOK(f), f.magic = "recipient", NEW i, NEW x \in UnwrapFor(f, i)
  PROVE  x \in Archive /\ i \in Recipients(x)
<1>1. PICK k \in DOMAIN f.envelope.recipients : x \in Unwrap(f.envelope.recipients[k], i)
  BY DEF UnwrapFor, SlotsOf
<1>2. f.envelope.recipients[k] \in Slots
  BY <1>1 DEF FileOK, EnvelopeOK
<1> DEFINE box == f.envelope.recipients[k].box
<1>3. box \in Boxes /\ box # Garbage /\ box.to = i /\ x = box.key
  BY <1>1, <1>2 DEF Unwrap, Slots
<1>4. PICK y \in Archive : \E j \in Recipients(y) : box = RecipientSlot(j, y).box
  BY <1>3 DEF Boxes
<1>5. PICK j \in Recipients(y) : box = [to |-> j, key_id |-> j, key |-> y]
  BY <1>4 DEF RecipientSlot
<1> QED
  BY <1>3, <1>5

\* Only a password of an archive that has one gets its key.
LEMMA PasswordOnlyOwn ==
  ASSUME NEW f, FileOK(f), f.magic = "recipient", request \in Requests,
         NEW x \in UnwrapWithPassword(f, request.opens)
  PROVE  x \in Archive /\ x \in request.opens /\ Fallback[x]
<1>1. request.opens \subseteq Archive
  BY DEF Requests
<1>2. x \in Archive /\ x \in request.opens /\ HasPassword(f) /\ f.envelope.password[1] = PasswordSlot(x)
  BY <1>1 DEF UnwrapWithPassword
<1>3. f.envelope.password[1] \in PasswordSlots
  BY <1>2 DEF HasPassword, FileOK, EnvelopeOK
<1>4. x \in {Garbage} \union {y \in Archive : Fallback[y]}
  BY <1>2, <1>3 DEF PasswordSlot, PasswordSlots
<1> QED
  BY <1>2, <1>4, EnvelopeAssumption

-----------------------------------------------------------------------------
\* What was unwrapped is the key of an archive that the method opens.
OpenedBy(x) ==
  /\ method = "password" => Fallback[x] /\ x \in request.opens
  /\ method # "password" => method \in Recipients(x)

\* The steps of an operation belong to the kind that was detected, and hold
\* the key of one archive once they are past unlocking; the file at the path
\* was packed, and perhaps damaged since.
Progress ==
  /\ FileOK(at) /\ request \in Requests
  /\ pc = "plain" => kind = "plain"
  /\ pc = "private" => kind = "private"
  /\ pc \in {"search", "has_fallback", "password", "open", "payload"} => kind = "recipient"
  /\ pc \in {"open", "payload"} => OpenedBy(key)
  /\ OneArchive /\ EnvelopeIntact

\* Nothing has been delivered at first.
LEMMA InitProgress == Init => Progress
<1> SUFFICES ASSUME Init PROVE Progress
  OBVIOUS
<1>1. FileOK(at)
  BY FilePacked DEF Init, Packable
<1> QED
  BY <1>1 DEF Init, Progress, OneArchive, EnvelopeIntact

\* Replacing or damaging the archive changes nothing that was read; content is
\* delivered only from the file whose magic, or whose hash and key, it was
\* checked for.
LEMMA NextProgress == Progress /\ [Next]_vars => Progress'
<1> SUFFICES ASSUME Progress, [Next]_vars PROVE Progress'
  OBVIOUS
<1> USE DEF Progress, OneArchive, EnvelopeIntact, OpenedBy, Step, Keep
<1>1. CASE UNCHANGED vars
  BY <1>1 DEF vars
<1>2. CASE Replace
  <2>1. FileOK(at')
    BY <1>2, FilePacked DEF Replace, Packable
  <2> QED
    BY <1>2, <2>1 DEF Replace
<1>3. CASE Damage
  <2>1. FileOK(at')
    BY <1>3, FileStaysOK DEF Damage
  <2> QED
    BY <1>3, <2>1 DEF Damage
<1>4. CASE DetectRecipient \/ DetectOther \/ DetectFails
  BY <1>4 DEF DetectRecipient, DetectOther, DetectFails
<1>5. CASE DetectKind
  BY <1>5 DEF DetectKind
<1>6. CASE PlainOpens \/ PrivateOpens
  <2>1. at.magic \in {"plain", "private"} => Kind[at.payload.of] = at.magic
    BY DEF FileOK
  <2> QED
    BY <1>6, <2>1 DEF PlainOpens, PrivateOpens, PrivateKeyRight, IsKind, Deliver
<1>7. CASE PlainFails \/ PrivateFails \/ SearchFails \/ NoFallback
            \/ PasswordFails \/ EnvelopeFails \/ PayloadFails
  BY <1>7 DEF PlainFails, PrivateFails, SearchFails, NoFallback, PasswordFails,
              EnvelopeFails, PayloadFails
<1>8. CASE UnlockByIdentity
  <2>1. PICK i \in Chosen(at) : \E x \in UnwrapFor(at, i) : Step("search", "open") /\ Unlocked(x, i)
    BY <1>8 DEF UnlockByIdentity
  <2>2. PICK x \in UnwrapFor(at, i) : Step("search", "open") /\ Unlocked(x, i)
    BY <2>1
  <2>3. x \in Archive /\ i \in Recipients(x)
    BY <1>8, <2>2, UnwrapOnlyOwn DEF UnlockByIdentity, Readable
  <2>4. i # "password"
    BY <2>3, EnvelopeAssumption DEF Recipients
  <2> QED
    BY <2>2, <2>3, <2>4 DEF Unlocked
<1>9. CASE TryPassword \/ HasFallback
  BY <1>9 DEF TryPassword, HasFallback
<1>10. CASE UnlockByPassword
  <2>1. PICK x \in UnwrapWithPassword(at, request.opens) :
          Step("password", "open") /\ Unlocked(x, "password")
    BY <1>10 DEF UnlockByPassword
  <2>2. x \in request.opens /\ Fallback[x]
    BY <1>10, <2>1, PasswordOnlyOwn DEF UnlockByPassword, Readable
  <2> QED
    BY <2>1, <2>2 DEF Unlocked
<1>11. CASE HashEnvelope
  BY <1>11 DEF HashEnvelope
<1>12. CASE PayloadOpens
  <2>1. /\ Kind[at.payload.of] = "recipient" /\ at.payload # <<>>
        /\ at.payload.names = envelope /\ at.payload.of = key
    BY <1>12 DEF PayloadOpens, PayloadAuthentic, PayloadThere
  <2>2. envelope = Envelope(at.payload.of)
    BY <2>1 DEF FileOK, PayloadOK
  <2> QED
    BY <1>12, <2>1, <2>2 DEF PayloadOpens, Deliver
<1> QED
  BY <1>1, <1>2, <1>3, <1>4, <1>5, <1>6, <1>7, <1>8, <1>9, <1>10, <1>11, <1>12 DEF Next

LEMMA ProgressAlways == Spec => []Progress
BY InitProgress, NextProgress, PTL DEF Spec

\* Whatever is put at the path between the steps of an operation, and whatever
\* storage does to it, what the operation delivers comes from one archive, of
\* the kind reported, that the identity or password reported was packed for.
THEOREM UnlockOneArchive == Spec => []OneArchive
<1>1. Progress => OneArchive
  BY DEF Progress
<1> QED
  BY <1>1, ProgressAlways, PTL

\* Content of a recipient archive is delivered only behind an envelope that is
\* as it was packed.
THEOREM UnlockEnvelopeIntact == Spec => []EnvelopeIntact
<1>1. Progress => EnvelopeIntact
  BY DEF Progress
<1> QED
  BY <1>1, ProgressAlways, PTL

-----------------------------------------------------------------------------
(* An archive that nobody has touched *)

LEMMA LeastElement ==
  ASSUME NEW T, T \subseteq Nat, T # {}
  PROVE  \E x \in T : \A y \in T : x <= y
<1>1. PICK x \in T : \A y \in T : ~(<<y, x>> \in OpToRel(<, Nat))
  BY NatLessThanWellFounded, WFMin
<1>2. ASSUME NEW y \in T PROVE x <= y
  <2>1. ~(y < x) /\ x \in Nat /\ y \in Nat
    BY <1>1 DEF OpToRel
  <2> QED
    BY <2>1
<1> QED
  BY <1>2

\* What packing writes is readable: pack_recipient's limits are the reader's.
LEMMA PackedReadable ==
  ASSUME NEW x \in Packable, Kind[x] = "recipient"
  PROVE  /\ Packed(x).magic = "recipient" /\ Packed(x).envelope = Envelope(x)
         /\ Packed(x).payload = [of |-> x, names |-> Envelope(x), seal |-> "good"]
         /\ Packed(x).payload # <<>>
         /\ Readable(Packed(x))
<1> DEFINE p == [of |-> x, names |-> Envelope(x), seal |-> "good"]
<1>1. Packed(x) = [magic |-> "recipient", envelope |-> Envelope(x), payload |-> p]
  BY DEF Packed
<1>2. p # <<>>
  <2>1. DOMAIN p = {"of", "names", "seal"} /\ DOMAIN <<>> = {}
    OBVIOUS
  <2> QED
    BY <2>1
<1>3. x \in Archive /\ Asked[x] \in Seq(Identity) /\ Len(Asked[x]) \in 1..MaxRecipients
      /\ Fallback[x] \in BOOLEAN
  BY EnvelopeAssumption DEF Packable, PackAccepts
<1> DEFINE e == Envelope(x)
           n == Len(Asked[x])
<1>4. /\ e.prefix = Prefix(n, Fallback[x])
      /\ Len(e.recipients) = n
      /\ (e.password # <<>>) = Fallback[x]
  <2>1. /\ e.prefix = Prefix(n, Fallback[x])
        /\ e.recipients = [k \in 1..n |-> RecipientSlot(Asked[x][k], x)]
        /\ e.password = IF Fallback[x] THEN <<PasswordSlot(x)>> ELSE <<>>
    BY <1>3 DEF Envelope
  <2> QED
    BY <1>3, <2>1
<1> HIDE DEF e, n, p
<1>5. /\ e.prefix.version = 2 /\ e.prefix.flags \in {0, 1} /\ e.prefix.count = n
      /\ e.prefix.reserved = 0 /\ e.prefix.header_len = ExpectedHeaderLen(n, Fallback[x])
      /\ (e.prefix.flags = 1) = Fallback[x]
  BY <1>3, <1>4 DEF Prefix
<1>6. PrefixValid(e.prefix)
  BY <1>3, <1>5 DEF PrefixValid, n
<1>7. PayloadFound(e)
  BY <1>4, <1>5 DEF PayloadFound
<1>8. /\ Packed(x).magic = "recipient" /\ Packed(x).envelope = e /\ Packed(x).payload = p
  BY <1>1 DEF e
<1>9. Readable(Packed(x))
  BY <1>2, <1>5, <1>6, <1>7, <1>8 DEF Readable
<1> QED
  BY <1>1, <1>2, <1>8, <1>9 DEF p, e

\* Each recipient has slots, all of which open to it alone: the first is enough.
LEMMA PackedUnwraps ==
  ASSUME NEW x \in Packable, Kind[x] = "recipient", NEW i
  PROVE  /\ SlotsOf(Packed(x), i) # {} <=> i \in Recipients(x)
         /\ UnwrapFor(Packed(x), i) \subseteq {x}
         /\ i \in Recipients(x) => UnwrapFor(Packed(x), i) = {x}
<1> DEFINE S == SlotsOf(Packed(x), i)
           r == Packed(x).envelope.recipients
<1>1. x \in Archive /\ Asked[x] \in Seq(Identity)
  BY EnvelopeAssumption DEF Packable
<1>2. r = [k \in DOMAIN Asked[x] |-> RecipientSlot(Asked[x][k], x)]
  <2>1. Packed(x).envelope = Envelope(x)
    BY PackedReadable
  <2>2. Envelope(x).recipients = [k \in DOMAIN Asked[x] |-> RecipientSlot(Asked[x][k], x)]
    BY DEF Envelope
  <2> QED
    BY <2>1, <2>2
<1>3. DOMAIN r = DOMAIN Asked[x]
      /\ \A k \in DOMAIN r : r[k].key_id = Asked[x][k]
           /\ r[k].box = [to |-> Asked[x][k], key_id |-> Asked[x][k], key |-> x]
  BY <1>2 DEF RecipientSlot
<1>4. S = {k \in DOMAIN Asked[x] : Asked[x][k] = i}
  BY <1>3 DEF SlotsOf
<1>5. S # {} <=> i \in Recipients(x)
  BY <1>4 DEF Recipients
<1>6. ASSUME NEW k \in S PROVE Unwrap(r[k], i) = {x}
  <2>1. k \in DOMAIN Asked[x] /\ Asked[x][k] = i /\ i \in Identity
    BY <1>1, <1>4
  <2>2. r[k].key_id = i /\ r[k].box = [to |-> i, key_id |-> i, key |-> x]
    BY <1>3, <2>1
  <2>3. [to |-> i, key_id |-> i, key |-> x] \in [to : Identity, key_id : Identity, key : Archive]
    BY <1>1, <2>1
  <2>4. r[k].box # Garbage
    BY <2>2, <2>3, EnvelopeAssumption
  <2>5. r[k].box.to = i /\ r[k].box.key_id = i /\ r[k].box.key = x
    BY <2>2
  <2> QED
    BY <2>2, <2>4, <2>5 DEF Unwrap
<1>7. S \subseteq Nat
  BY <1>1, <1>4
<1>8. S # {} => {n \in S : \A m \in S : n <= m} # {}
  BY <1>7, LeastElement
<1>9. UnwrapFor(Packed(x), i) = UNION {Unwrap(r[k], i) : k \in {n \in S : \A m \in S : n <= m}}
  BY DEF UnwrapFor
<1> HIDE DEF S, r
<1> QED
  BY <1>5, <1>6, <1>8, <1>9 DEF S

LEMMA PackedPassword ==
  ASSUME NEW x \in Packable, Kind[x] = "recipient", NEW opens
  PROVE  /\ HasPassword(Packed(x)) = Fallback[x]
         /\ UnwrapWithPassword(Packed(x), opens) = {y \in opens : y = x /\ Fallback[x]}
<1>1. x \in Archive /\ Fallback[x] \in BOOLEAN
  BY EnvelopeAssumption DEF Packable
<1>2. Packed(x).envelope.password = IF Fallback[x] THEN <<PasswordSlot(x)>> ELSE <<>>
  <2>1. Packed(x).envelope = Envelope(x)
    BY PackedReadable
  <2>2. Envelope(x).password = IF Fallback[x] THEN <<PasswordSlot(x)>> ELSE <<>>
    BY DEF Envelope
  <2> QED
    BY <2>1, <2>2
<1>3. HasPassword(Packed(x)) = Fallback[x]
  BY <1>1, <1>2 DEF HasPassword
<1>4. Fallback[x] => Packed(x).envelope.password[1] = PasswordSlot(x)
  BY <1>2
<1>5. \A y : PasswordSlot(y) = PasswordSlot(x) <=> y = x
  BY DEF PasswordSlot
<1> QED
  BY <1>1, <1>3, <1>4, <1>5 DEF UnwrapWithPassword

\* A key file matches if it can be told whose it is and that is a recipient.
LEMMA PackedMatches ==
  ASSUME NEW x \in Packable, Kind[x] = "recipient", NEW f
  PROVE  Matches(f, Packed(x)) <=> f.form \in {"clear", "locked"} /\ f.owner \in Recipients(x)
BY PackedUnwraps DEF Matches

\* The first default file that matches is the least of those that do.
LEMMA FirstIsLeast ==
  ASSUME NEW x \in Packable, Kind[x] = "recipient", request \in Requests,
         NEW k \in DOMAIN request.defaults
  PROVE  FirstMatch(Packed(x), k) <=> k \in Own(x) /\ \A j \in Own(x) : k <= j
<1>1. DOMAIN request.defaults = 1..Candidates /\ Candidates \in Nat
  BY UnlockAssumption DEF Requests
<1>2. \A j \in DOMAIN request.defaults : Matches(request.defaults[j], Packed(x)) <=> j \in Own(x)
  BY PackedMatches DEF Own
<1>3. Own(x) \subseteq DOMAIN request.defaults
  BY DEF Own
<1> QED
  BY <1>1, <1>2, <1>3 DEF FirstMatch

LEMMA NoneMatchesPacked ==
  ASSUME NEW x \in Packable, Kind[x] = "recipient", request \in Requests, ~Explicit
  PROVE  NoneMatches(Packed(x)) <=> Own(x) = {}
<1>1. Own(x) \subseteq DOMAIN request.defaults
  BY DEF Own
<1>2. DOMAIN request.defaults \subseteq Nat
  BY UnlockAssumption DEF Requests
<1>3. Own(x) # {} => \E k \in Own(x) : \A j \in Own(x) : k <= j
  BY <1>1, <1>2, LeastElement
<1>4. \A k \in DOMAIN request.defaults :
        FirstMatch(Packed(x), k) <=> k \in Own(x) /\ \A j \in Own(x) : k <= j
  BY FirstIsLeast
<1> HIDE DEF Own
<1> QED
  BY <1>1, <1>3, <1>4 DEF NoneMatches

\* A key is unwrapped exactly if an identity is chosen that can be read.
LEMMA UnwrapsPacked ==
  ASSUME NEW x \in Packable, Kind[x] = "recipient", request \in Requests
  PROVE  /\ Unwraps(Packed(x)) <=> Chosen(Packed(x)) # {}
         /\ \A i \in Chosen(Packed(x)) : UnwrapFor(Packed(x), i) = {x}
<1>1. ASSUME NEW i \in Chosen(Packed(x)) PROVE i \in Recipients(x)
  <2>1. CASE i \in ByOption(Packed(x))
    <3>1. Matches(request.identity, Packed(x)) /\ i = request.identity.owner
      BY <2>1 DEF ByOption
    <3> QED
      BY <3>1, PackedMatches
  <2>2. CASE i \in ByDefault(Packed(x))
    <3>1. PICK k \in DOMAIN request.defaults :
            Matches(request.defaults[k], Packed(x)) /\ i = request.defaults[k].owner
      BY <2>2 DEF ByDefault, FirstMatch
    <3> QED
      BY <3>1, PackedMatches
  <2> QED
    BY <2>1, <2>2 DEF Chosen
<1>2. \A i \in Chosen(Packed(x)) : UnwrapFor(Packed(x), i) = {x}
  BY <1>1, PackedUnwraps
<1> QED
  BY <1>2 DEF Unwraps

LEMMA ExplicitPacked ==
  ASSUME NEW x \in Packable, Kind[x] = "recipient", request \in Requests, Explicit
  PROVE  Entitled(x) <=> Unwraps(Packed(x))
<1>1. Entitled(x) <=> /\ request.identity.form \in {"clear", "locked"}
                      /\ request.identity.owner \in Recipients(x)
                      /\ Loads(request.identity, Passphrase)
  BY DEF Entitled
<1>2. Chosen(Packed(x)) # {} <=>
        Matches(request.identity, Packed(x)) /\ Loads(request.identity, Passphrase)
  BY DEF Chosen, ByOption, ByDefault
<1> QED
  BY <1>1, <1>2, UnwrapsPacked, PackedMatches

LEMMA DefaultPacked ==
  ASSUME NEW x \in Packable, Kind[x] = "recipient", request \in Requests, ~Explicit
  PROVE  /\ Entitled(x) <=>
              /\ ~request.typed
              /\ \/ Unwraps(Packed(x))
                 \/ /\ Fallback[x] /\ x \in request.opens
                    /\ request.program = "cli" => Own(x) = {}
         /\ NoneMatches(Packed(x)) => ~Unwraps(Packed(x))
<1> DEFINE Readable1(k) == request.defaults[k].form = "clear" \/ request.env
<1>1. Entitled(x) <=>
         /\ ~request.typed
         /\ \/ \E k \in Own(x) : (\A j \in Own(x) : k <= j) /\ Readable1(k)
            \/ /\ Fallback[x] /\ x \in request.opens
               /\ request.program = "cli" => Own(x) = {}
  BY DEF Entitled
<1>2. Chosen(Packed(x)) # {} <=>
        \E k \in DOMAIN request.defaults :
          FirstMatch(Packed(x), k) /\ Loads(request.defaults[k], request.env)
  BY DEF Chosen, ByOption, ByDefault
<1>3. \A k \in Own(x) : k \in DOMAIN request.defaults
                         /\ (Loads(request.defaults[k], request.env) <=> Readable1(k))
  BY DEF Own, Loads
<1>4. \A k \in DOMAIN request.defaults :
        FirstMatch(Packed(x), k) <=> k \in Own(x) /\ \A j \in Own(x) : k <= j
  BY FirstIsLeast
<1>5. Chosen(Packed(x)) # {} <=> \E k \in Own(x) : (\A j \in Own(x) : k <= j) /\ Readable1(k)
  BY <1>2, <1>3, <1>4
<1>6. NoneMatches(Packed(x)) => Chosen(Packed(x)) = {}
  BY <1>2 DEF NoneMatches
<1> QED
  BY <1>1, <1>5, <1>6, UnwrapsPacked

LEMMA OtherPacked ==
  ASSUME NEW x \in Packable, Kind[x] # "recipient"
  PROVE  Kind[x] \in {"plain", "private"} /\ Packed(x).magic = Kind[x] /\ Packed(x).payload = [of |-> x]
BY EnvelopeAssumption DEF Packable, Packed

LEMMA EntitledOther ==
  ASSUME NEW x
  PROVE  /\ Kind[x] = "plain" => Entitled(x)
         /\ Kind[x] = "private" => (Entitled(x) <=> x \in request.opens /\ NoIdentityOption)
BY DEF Entitled, NoIdentityOption

LEMMA PackedOf ==
  ASSUME NEW x \in Packable
  PROVE  Packed(x).payload.of = x
<1>1. CASE Kind[x] = "recipient"
  BY <1>1 DEF Packed
<1>2. CASE Kind[x] # "recipient"
  BY <1>2 DEF Packed
<1> QED
  BY <1>1, <1>2

\* What each step of an operation on x has found out, and what has been
\* decided: a key is held, or content delivered, only if x is open to the
\* user, and nothing fails otherwise.
Searching(x) ==
  /\ pc \in {"look_again", "plain", "private"} => Kind[x] # "recipient"
  /\ pc \in {"plain", "private"} => Kind[x] = pc
  /\ pc \in {"search", "has_fallback", "password", "open", "payload"} => Kind[x] = "recipient"
  /\ pc \in {"has_fallback", "password"} => ~Explicit /\ ~request.typed /\ ~Unwraps(Packed(x))
  /\ pc = "has_fallback" => request.program = "cli" /\ Own(x) = {}
  /\ pc = "password" /\ request.program = "cli" => Own(x) = {}
  /\ pc \in {"open", "payload"} => key = x
  /\ pc \in {"open", "payload", "done"} => Entitled(x)
  /\ pc = "payload" => envelope = Envelope(x)
  /\ pc = "failed" => ~Entitled(x)
  /\ method = "password" /\ request.program = "cli" => Own(x) = {}

Undisturbed == replaced = 0 /\ damaged = 0

Calm ==
  /\ replaced \in Nat /\ damaged \in Nat
  /\ request \in Requests /\ (~request.given => request.opens = {})
  /\ Undisturbed => \E x \in Packable : at = Packed(x) /\ Searching(x)

LEMMA InitCalm == Init => Calm
BY UnlockAssumption DEF Init, Calm, Undisturbed, Searching

\* Every step but those of others leaves the file and the request alone.
Ours == UNCHANGED <<at, replaced, damaged, request>>

LEMMA StepOurs == [Next]_vars => Replace \/ Damage \/ Ours
BY DEF Next, vars, Ours, Step, Deliver,
       DetectRecipient, DetectOther, DetectKind, DetectFails, PlainOpens, PlainFails,
       PrivateOpens, PrivateFails, UnlockByIdentity, TryPassword, SearchFails,
       HasFallback, NoFallback, UnlockByPassword, PasswordFails,
       HashEnvelope, EnvelopeFails, PayloadOpens, PayloadFails

LEMMA FixedRequest ==
  ASSUME Ours, NEW x
  PROVE  /\ (Explicit' <=> Explicit) /\ Own(x)' = Own(x)
         /\ (Entitled(x)' <=> Entitled(x)) /\ (Unwraps(Packed(x))' <=> Unwraps(Packed(x)))
<1>1. request' = request
  BY DEF Ours
<1>2. Explicit' = Explicit /\ Own(x)' = Own(x) /\ Passphrase' = Passphrase
  BY <1>1 DEF Explicit, Own, Passphrase
<1>3. Entitled(x)' <=> Entitled(x)
  BY <1>1, <1>2 DEF Entitled
<1>4. Unwraps(Packed(x))' <=> Unwraps(Packed(x))
  BY <1>1, <1>2 DEF Unwraps, Chosen, ByOption, ByDefault, FirstMatch
<1> QED
  BY <1>2, <1>3, <1>4

LEMMA NextSearching ==
  ASSUME [Next]_vars, Ours, request \in Requests, ~request.given => request.opens = {},
         NEW x \in Packable, at = Packed(x), Searching(x)
  PROVE  Searching(x)'
<1>f. /\ (Explicit' <=> Explicit) /\ Own(x)' = Own(x)
      /\ (Entitled(x)' <=> Entitled(x)) /\ (Unwraps(Packed(x))' <=> Unwraps(Packed(x)))
  BY FixedRequest
<1>r. request' = request /\ request.program \in {"cli", "desktop"}
  BY DEF Ours, Requests
<1>o. Kind[x] # "recipient" =>
        /\ Kind[x] \in {"plain", "private"} /\ at.magic = Kind[x] /\ at.payload.of = x
  BY OtherPacked, PackedOf
<1>p. Kind[x] = "recipient" =>
        /\ Readable(at) /\ at.magic = "recipient" /\ at.envelope = Envelope(x)
        /\ at.payload = [of |-> x, names |-> Envelope(x), seal |-> "good"]
        /\ at.payload # <<>>
  BY PackedReadable
<1>q. Kind[x] = "recipient" => at.payload.of = x /\ at.payload.names = Envelope(x) /\ at.payload.seal = "good"
  BY <1>p
<1> USE <1>f, <1>r DEF Searching, Step, Keep
<1>1. CASE UNCHANGED vars
  BY <1>1 DEF vars
<1>2. CASE Replace \/ Damage
  BY <1>2, UnlockAssumption DEF Replace, Damage, Ours
<1>3. CASE DetectRecipient
  <2>1. Kind[x] = "recipient"
    BY <1>3, <1>o DEF DetectRecipient, Recipient
  <2> QED
    BY <1>3, <2>1 DEF DetectRecipient
<1>4. CASE DetectOther
  BY <1>4, <1>p DEF DetectOther, Recipient
<1>5. CASE DetectKind
  BY <1>5, <1>o DEF DetectKind
<1>6. CASE DetectFails \/ PlainFails \/ EnvelopeFails
  BY <1>6, <1>o, <1>p DEF DetectFails, PlainFails, EnvelopeFails, IsKind
<1>7. CASE PlainOpens
  <2>1. pc = "plain" /\ pc' = "done" /\ Kind[x] = "plain" /\ UNCHANGED <<key, method, envelope>>
    BY <1>7 DEF PlainOpens, Deliver
  <2>2. Entitled(x)
    BY <2>1, EntitledOther
  <2> QED
    BY <2>1, <2>2
<1>8. CASE PrivateOpens \/ PrivateFails
  <2>1. pc = "private" /\ Kind[x] = "private" /\ at.magic = "private" /\ at.payload.of = x
    BY <1>8, <1>o DEF PrivateOpens, PrivateFails, Deliver
  <2>2. Entitled(x) <=> x \in request.opens /\ NoIdentityOption
    BY <2>1, EntitledOther
  <2>3. PrivateKeyRight <=> Entitled(x)
    BY <2>1, <2>2 DEF PrivateKeyRight, IsKind
  <2> QED
    BY <1>8, <2>1, <2>3 DEF PrivateOpens, PrivateFails, Deliver
<1>9. CASE UnlockByIdentity
  <2>1. PICK i \in Chosen(at) : \E y \in UnwrapFor(at, i) : Step("search", "open") /\ Unlocked(y, i)
    BY <1>9 DEF UnlockByIdentity
  <2>2. PICK y \in UnwrapFor(at, i) : Step("search", "open") /\ Unlocked(y, i)
    BY <2>1
  <2>3. Kind[x] = "recipient" /\ y = x /\ Unwraps(Packed(x)) /\ i # "password"
    <3>1. Kind[x] = "recipient"
      BY <2>2
    <3>2. UnwrapFor(at, i) = {x} /\ Unwraps(Packed(x))
      BY <2>1, <3>1, UnwrapsPacked
    <3>3. i \in Recipients(x)
      BY <2>2, <3>1, <3>2, UnwrapOnlyOwn, FilePacked, <1>p DEF Packable
    <3>4. i # "password"
      BY <3>3, EnvelopeAssumption DEF Recipients, Packable
    <3> QED
      BY <2>2, <3>1, <3>2, <3>4
  <2>4. Entitled(x)
    BY <1>9, <2>3, ExplicitPacked, DefaultPacked DEF UnlockByIdentity, Refused
  <2> QED
    BY <2>2, <2>3, <2>4 DEF Unlocked
<1>10. CASE TryPassword
  <2>1. Kind[x] = "recipient" /\ ~Refused /\ ~Explicit
    BY <1>10 DEF TryPassword, NoneMatches, SearchStuck
  <2>2. NoneMatches(Packed(x)) => Own(x) = {} /\ ~Unwraps(Packed(x))
    BY <2>1, NoneMatchesPacked, DefaultPacked
  <2>3. CASE request.program = "cli"
    BY <1>10, <2>1, <2>2, <2>3 DEF TryPassword, Refused
  <2>4. CASE request.program = "desktop"
    BY <1>10, <1>p, <2>1, <2>2, <2>4 DEF TryPassword, Refused, SearchStuck
  <2> QED
    BY <2>3, <2>4
<1>11. CASE SearchFails
  <2>1. Kind[x] = "recipient" /\ Readable(at)
    BY <1>11, <1>p DEF SearchFails
  <2>2. CASE Explicit
    BY <1>11, <2>1, <2>2, ExplicitPacked DEF SearchFails, Refused
  <2>3. CASE ~Explicit
    <3>1. ~(Unwraps(Packed(x)) /\ ~request.typed)
      BY <1>11, <2>1, <2>3 DEF SearchFails, Refused
    <3>2. Own(x) = {} => NoneMatches(Packed(x))
      BY <2>1, <2>3, NoneMatchesPacked
    <3>3. ~request.typed /\ request.program = "cli" => Own(x) # {}
      BY <1>11, <2>1, <2>3, <3>2 DEF SearchFails, Refused, SearchStuck
    <3>4. ~request.typed /\ request.program = "desktop" => request.opens = {}
      BY <1>11, <2>3 DEF SearchFails, Refused
    <3>5. ~Entitled(x)
      BY <2>1, <2>3, <3>1, <3>3, <3>4, DefaultPacked
    <3> QED
      BY <1>11, <3>5 DEF SearchFails
  <2> QED
    BY <2>2, <2>3
<1>12. CASE HasFallback
  BY <1>12 DEF HasFallback
<1>13. CASE NoFallback
  <2>1. Kind[x] = "recipient" /\ ~Explicit /\ ~Unwraps(Packed(x)) /\ Readable(at)
    BY <1>13, <1>p DEF NoFallback
  <2>2. ~(Fallback[x] /\ x \in request.opens)
    BY <1>13, <2>1, PackedPassword DEF NoFallback
  <2>3. ~Entitled(x)
    BY <2>1, <2>2, DefaultPacked
  <2> QED
    BY <1>13, <2>3 DEF NoFallback
<1>14. CASE UnlockByPassword
  <2>1. PICK y \in UnwrapWithPassword(at, request.opens) :
          Step("password", "open") /\ Unlocked(y, "password")
    BY <1>14 DEF UnlockByPassword
  <2>2. Kind[x] = "recipient" /\ ~Explicit /\ ~request.typed
    BY <2>1
  <2>3. y = x /\ Fallback[x] /\ x \in request.opens
    BY <2>1, <2>2, PackedPassword
  <2>4. request.program = "cli" => Own(x) = {}
    BY <2>1
  <2>5. Entitled(x)
    BY <2>2, <2>3, <2>4, DefaultPacked
  <2> QED
    BY <2>1, <2>2, <2>3, <2>4, <2>5 DEF Unlocked
<1>15. CASE PasswordFails
  <2>1. Kind[x] = "recipient" /\ ~Explicit /\ ~Unwraps(Packed(x)) /\ Readable(at)
    BY <1>15, <1>p DEF PasswordFails
  <2>2. ~(Fallback[x] /\ x \in request.opens)
    BY <1>15, <2>1, PackedPassword DEF PasswordFails
  <2>3. ~Entitled(x)
    BY <2>1, <2>2, DefaultPacked
  <2> QED
    BY <1>15, <2>3 DEF PasswordFails
<1>16. CASE HashEnvelope
  BY <1>16, <1>p DEF HashEnvelope
<1>17. CASE PayloadOpens
  BY <1>17 DEF PayloadOpens, Deliver
<1>18. CASE PayloadFails
  <2>1. pc = "payload" /\ Kind[x] = "recipient" /\ key = x /\ envelope = Envelope(x)
    BY <1>18 DEF PayloadFails
  <2>2. PayloadAuthentic
    BY <1>p, <1>q, <2>1 DEF PayloadAuthentic, PayloadThere
  <2> QED
    BY <1>18, <2>2 DEF PayloadFails
<1> QED
  BY <1>1, <1>2, <1>3, <1>4, <1>5, <1>6, <1>7, <1>8, <1>9, <1>10, <1>11, <1>12, <1>13, <1>14,
     <1>15, <1>16, <1>17, <1>18 DEF Next

LEMMA NextCalm == Calm /\ [Next]_vars => Calm'
<1> SUFFICES ASSUME Calm, [Next]_vars PROVE Calm'
  OBVIOUS
<1>1. CASE Replace \/ Damage
  BY <1>1 DEF Calm, Undisturbed, Replace, Damage
<1>2. CASE Ours
  <2>1. ASSUME Undisturbed, NEW x \in Packable, at = Packed(x), Searching(x)
        PROVE  at' = Packed(x) /\ Searching(x)'
    BY <1>2, <2>1, NextSearching DEF Calm, Ours
  <2> QED
    BY <1>2, <2>1 DEF Calm, Undisturbed, Ours
<1> QED
  BY <1>1, <1>2, StepOurs

\* What the user would call the archive's openness is what the chain of
\* searches, fallbacks and repeated reads decides, for any recipients, default
\* identities, passphrases and passwords.
THEOREM UnlockOpensToTheEntitled == Spec => []OpensToTheEntitled
<1>1. Calm => OpensToTheEntitled
  <2> SUFFICES ASSUME Calm, Undisturbed
               PROVE  /\ pc = "done" => Entitled(at.payload.of)
                      /\ pc = "failed" => ~Entitled(at.payload.of)
    BY DEF OpensToTheEntitled, Undisturbed
  <2>1. PICK x \in Packable : at = Packed(x) /\ Searching(x)
    BY DEF Calm
  <2>2. at.payload.of = x
    BY <2>1, PackedOf
  <2> QED
    BY <2>1, <2>2 DEF Searching
<1> QED
  BY <1>1, InitCalm, NextCalm, PTL DEF Spec

\* On the command line a password is tried only when none of the default
\* identities is a recipient.
THEOREM UnlockFallbackIsLast == Spec => []FallbackIsLast
<1>1. Calm => FallbackIsLast
  <2> SUFFICES ASSUME Calm, Undisturbed, request.program = "cli", method = "password"
               PROVE  Own(at.payload.of) = {}
    BY DEF FallbackIsLast, Undisturbed
  <2>1. PICK x \in Packable : at = Packed(x) /\ Searching(x)
    BY DEF Calm
  <2>2. at.payload.of = x
    BY <2>1, PackedOf
  <2> QED
    BY <2>1, <2>2 DEF Searching
<1> QED
  BY <1>1, InitCalm, NextCalm, PTL DEF Spec
================================================================================
