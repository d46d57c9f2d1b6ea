--------------------------- MODULE RgxDesktopProofs ---------------------------
(***************************************************************************)
(* What the window and its backend keep for any number of archive paths,   *)
(* whatever is typed, clicked and edited, and in whatever order.           *)
(*                                                                         *)
(* A request is taken from fields that passed the checks of its click, and *)
(* stays what it was until it is answered (Requested); what is stored has  *)
(* the secret of an accepted request (Stored); and while a listing is on   *)
(* its way, the field it is titled with is the one it was asked for, or    *)
(* was edited since (Listing).                                             *)
(***************************************************************************)
EXTENDS RgxDesktop, TLAPS

\* What a click sends, by the kind of command.
Mode == {"plain", "private", "recipient"}
PackType ==
  [kind : {"pack"}, path : Path, mode : Mode, password : Text \union {None},
   keys : BOOLEAN, fallback : BOOLEAN]
AccessType ==
  [kind : {"open", "list"}, path : Path, identity : BOOLEAN, password : Text, passphrase : Text]
KeygenType == [kind : {"keygen"}, protect : BOOLEAN, password : Text \union {None}]

\* What is at a path.
ArchiveType == [kind : Mode, password : Text \union {None}]

\* A pack request has the password that its mode needs and no other, and is
\* not for recipients without a key.
Matched(r) ==
  /\ r.mode = "plain" => r.password = None /\ ~r.fallback
  /\ r.mode = "private" => r.password # None /\ ~r.fallback
  /\ r.mode = "recipient" => r.keys /\ (r.fallback <=> r.password # None)

Requested ==
  op # None => (op \in PackType /\ Matched(op)) \/ op \in AccessType \/ op \in KeygenType

Stored ==
  /\ archives \in [Path -> ArchiveType \union {None}]
  /\ identity \in Text \union {"clear", None}
  /\ subject \in Path /\ edited \in BOOLEAN

Listing == op # None /\ op.kind = "list" /\ ~edited => subject = op.path

DesktopInv == Stored /\ Requested /\ Listing /\ ResultNamesArchive

-----------------------------------------------------------------------------
(* What a step does to each part *)

\* The request of a pack click.
LEMMA PackRequestMatched ==
  ASSUME NEW x \in Path, NEW mode \in Mode, NEW first \in Text, NEW second \in Text,
         NEW keys \in BOOLEAN, NEW fallback \in BOOLEAN,
         fallback => mode = "recipient", mode = "recipient" => keys,
         mode = "private" \/ fallback => Matching(first, second)
  PROVE  /\ PackRequest(x, mode, first, keys, fallback) \in PackType
         /\ Matched(PackRequest(x, mode, first, keys, fallback))
<1> DEFINE password == IF mode = "private" \/ fallback THEN first ELSE None
<1>1. PICK p \in Text \union {None} : p = password
  OBVIOUS
<1>2. PackRequest(x, mode, first, keys, fallback) =
        [kind |-> "pack", path |-> x, mode |-> mode, password |-> p, keys |-> keys,
         fallback |-> fallback]
  BY <1>1 DEF PackRequest
<1>3. (mode = "private" \/ fallback) <=> p # None
  BY <1>1, DesktopAssumption
<1> HIDE DEF password
<1> QED
  BY <1>2, <1>3 DEF PackType, Matched, Mode

\* A click sends a request of its kind, and leaves what is stored.
LEMMA ClickStep ==
  ASSUME DesktopInv,
         \/ \E x \in Path : ClickPack(x)
         \/ \E kind \in {"open", "list"} : ClickAccess(kind)
         \/ ClickKeygen
  PROVE  DesktopInv'
<1>0. Click
  BY DEF ClickPack, ClickAccess, ClickKeygen
<1>1. /\ UNCHANGED <<subject, archives, identity, shown>> /\ edited' = FALSE
  BY <1>0 DEF Click
<1>2. Stored' /\ ResultNamesArchive'
  BY <1>1 DEF DesktopInv, Stored, ResultNamesArchive, ArchiveType, Mode, Text
<1>3. ASSUME NEW x \in Path, ClickPack(x) PROVE Requested' /\ Listing'
  <2>1. PICK mode \in Mode, keys \in BOOLEAN, fallback \in BOOLEAN, first \in Text, second \in Text :
          /\ fallback => mode = "recipient"
          /\ mode = "recipient" => keys
          /\ mode = "private" \/ fallback => Matching(first, second)
          /\ op' = PackRequest(x, mode, first, keys, fallback)
    BY <1>3 DEF ClickPack, Mode
  <2>2. op' \in PackType /\ Matched(op')
    BY <2>1, PackRequestMatched
  <2>3. op'.kind = "pack"
    BY <2>2 DEF PackType
  <2> QED
    BY <2>2, <2>3 DEF Requested, Listing, PackType, Matched, Mode, Text
<1>4. ASSUME NEW kind \in {"open", "list"}, ClickAccess(kind) PROVE Requested' /\ Listing'
  <2>1. PICK x \in Path, chosen \in BOOLEAN, first \in Text, second \in Text :
          /\ kind = "list" => x = subject
          /\ op' = [kind |-> kind, path |-> x, identity |-> chosen,
                    password |-> first, passphrase |-> second]
    BY <1>4 DEF ClickAccess
  <2>2. op' \in AccessType /\ op'.kind = kind /\ op'.path = x
    BY <2>1 DEF AccessType
  <2> QED
    BY <1>1, <2>1, <2>2 DEF Requested, Listing, AccessType, Text
<1>5. ASSUME ClickKeygen PROVE Requested' /\ Listing'
  <2>1. PICK protect \in BOOLEAN, first \in Text :
          op' = [kind |-> "keygen", protect |-> protect,
                 password |-> IF protect THEN first ELSE None]
    BY <1>5 DEF ClickKeygen
  <2>2. PICK p \in Text \union {None} : p = IF protect THEN first ELSE None
    OBVIOUS
  <2>3. op' = [kind |-> "keygen", protect |-> protect, password |-> p]
    BY <2>1, <2>2
  <2>4. op' \in KeygenType /\ op'.kind = "keygen"
    BY <2>3 DEF KeygenType
  <2> QED
    BY <2>4 DEF Requested, Listing, KeygenType, Text
<1> QED
  BY <1>2, <1>3, <1>4, <1>5 DEF DesktopInv

\* A change of the field is noticed while a listing is on its way.
LEMMA EditStep ==
  ASSUME DesktopInv, EditSubject
  PROVE  DesktopInv'
<1>1. /\ subject' \in Path /\ edited' = (op # None /\ op.kind = "list")
      /\ op' = op /\ archives' = archives /\ identity' = identity /\ shown' = shown
  BY DEF EditSubject
<1>2. Stored' /\ ResultNamesArchive'
  BY <1>1 DEF DesktopInv, Stored, ResultNamesArchive, ArchiveType, Mode, Text
<1>3. Listing'
  BY <1>1 DEF Listing
<1>4. Requested'
  BY <1>1 DEF DesktopInv, Requested, PackType, AccessType, KeygenType, Matched, Mode, Text
<1> QED
  BY <1>2, <1>3, <1>4 DEF DesktopInv

\* A reply ends the request; a listing that comes with another archive in the
\* field was edited.
LEMMA ReplyStep ==
  ASSUME DesktopInv, Fails \/ PackSucceeds \/ KeygenSucceeds \/ AccessSucceeds
  PROVE  DesktopInv'
<1>0. \E ok \in BOOLEAN : Reply(ok)
  BY DEF Fails, PackSucceeds, KeygenSucceeds, AccessSucceeds
<1>1. op # None /\ op' = None /\ edited' = FALSE /\ subject' = subject
  BY <1>0 DEF Reply
<1>2. Requested' /\ Listing'
  BY <1>1 DEF Requested, Listing
<1>3. Text' = Text /\ ArchiveType' = ArchiveType
  BY DEF Text, ArchiveType, Mode
<1>4. CASE Fails
  <2>1. archives' = archives /\ identity' = identity /\ shown' = shown
    BY <1>4 DEF Fails
  <2> QED
    BY <1>1, <1>2, <1>3, <2>1 DEF DesktopInv, Stored, ResultNamesArchive
<1>5. CASE PackSucceeds
  <2>1. /\ archives' = [archives EXCEPT ![op.path] = Archive(op.mode, op.password)]
        /\ identity' = identity /\ shown' = shown /\ op.kind = "pack"
    BY <1>5 DEF PackSucceeds
  <2>2. op \in PackType
    BY <1>1, <2>1 DEF DesktopInv, Requested, AccessType, KeygenType
  <2>3. Archive(op.mode, op.password) \in ArchiveType
    BY <2>2 DEF PackType, Archive, ArchiveType
  <2>4. archives' \in [Path -> ArchiveType \union {None}]
    BY <2>1, <2>3 DEF DesktopInv, Stored
  <2> QED
    BY <1>1, <1>2, <1>3, <2>1, <2>4 DEF DesktopInv, Stored, ResultNamesArchive
<1>6. CASE KeygenSucceeds
  <2>1. /\ identity' = IF op.protect THEN op.password ELSE "clear"
        /\ archives' = archives /\ shown' = shown /\ op.kind = "keygen"
    BY <1>6 DEF KeygenSucceeds
  <2>2. op \in KeygenType
    BY <1>1, <2>1 DEF DesktopInv, Requested, AccessType, PackType
  <2>3. identity' \in Text \union {"clear", None}
    BY <2>1, <2>2 DEF KeygenType
  <2> QED
    BY <1>1, <1>2, <1>3, <2>1, <2>3 DEF DesktopInv, Stored, ResultNamesArchive
<1>7. CASE AccessSucceeds
  <2>1. /\ shown' = [title |-> Title, of |-> op.path, late |-> edited /\ subject # op.path]
        /\ archives' = archives /\ identity' = identity
    BY <1>7 DEF AccessSucceeds
  <2>2. shown'.title = Title /\ shown'.of = op.path /\ shown'.late = (edited /\ subject # op.path)
    BY <2>1
  <2>3. Title = op.path \/ (edited /\ subject # op.path)
    BY <1>1 DEF Title, DesktopInv, Listing
  <2> QED
    BY <1>1, <1>2, <1>3, <2>1, <2>2, <2>3 DEF DesktopInv, Stored, ResultNamesArchive
<1> QED
  BY <1>4, <1>5, <1>6, <1>7

\* The invariant of the desktop holds throughout.
LEMMA DesktopInvariant == Spec => []DesktopInv
<1>1. Init => DesktopInv
  <2> SUFFICES ASSUME Init PROVE DesktopInv
    OBVIOUS
  <2>1. archives = [x \in Path |-> None] /\ op = None /\ shown = None /\ identity = None
        /\ subject \in Path /\ edited = FALSE
    BY DEF Init
  <2>2. archives \in [Path -> ArchiveType \union {None}]
    BY <2>1
  <2> QED
    BY <2>1, <2>2 DEF DesktopInv, Stored, Requested, Listing, ResultNamesArchive
<1>2. DesktopInv /\ [Next]_vars => DesktopInv'
  <2> SUFFICES ASSUME DesktopInv, [Next]_vars PROVE DesktopInv'
    OBVIOUS
  <2>1. CASE UNCHANGED vars
    BY <2>1 DEF vars, DesktopInv, Stored, Requested, Listing, ResultNamesArchive, PackType, AccessType,
                KeygenType, ArchiveType, Matched, Mode, Text
  <2> QED
    BY <2>1, ClickStep, EditStep, ReplyStep DEF Next
<1> QED
  BY <1>1, <1>2, PTL DEF Spec

-----------------------------------------------------------------------------
(* The properties *)

\* What the window lets through the backend accepts, whatever was typed and
\* chosen, but for recipient keys left over from another mode.
THEOREM OnlyLeftoverKeysAreRefused == Spec => []RefusesOnlyLeftoverKeys
<1>1. ASSUME DesktopInv PROVE RefusesOnlyLeftoverKeys
  <2> SUFFICES ASSUME op # None, op.kind = "pack", ~PackAccepted(op)
               PROVE  op.keys /\ op.mode # "recipient"
    BY DEF RefusesOnlyLeftoverKeys
  <2>1. op \in PackType /\ Matched(op)
    BY <1>1 DEF DesktopInv, Requested, AccessType, KeygenType
  <2>2. op.mode \in Mode /\ op.keys \in BOOLEAN /\ op.fallback \in BOOLEAN
    BY <2>1 DEF PackType
  <2> QED
    BY <2>1, <2>2 DEF PackAccepted, Matched, Mode
<1> QED
  BY <1>1, DesktopInvariant, PTL

\* Whatever else was typed, at any number of paths and after any clicks: the
\* secret that an archive was packed with, or the identity generated with, opens
\* it when trimming leaves it what it is, and nothing does when trimming changes
\* it.
THEOREM OwnSecretsOpen == Spec => []OwnSecretOpens
<1>1. ASSUME DesktopInv PROVE OwnSecretOpens
  <2> SUFFICES ASSUME Accessing, archives[op.path] # None, archives[op.path].kind # "plain"
               PROVE  /\ Fitting(op) /\ Entered(op) = Secret(op)
                           => (AccessOpens(op) <=> Secret(op) = "bare")
                      /\ Secret(op) \in {"blank", "spaced"} => ~AccessOpens(op)
    BY DEF OwnSecretOpens
  <2>1. op \in AccessType
    BY <1>1 DEF Accessing, DesktopInv, Requested, PackType, KeygenType
  <2>2. /\ op.path \in Path /\ op.identity \in BOOLEAN /\ op.password \in Text /\ op.passphrase \in Text
    BY <2>1 DEF AccessType
  <2>3. PICK a \in ArchiveType : a = archives[op.path]
    BY <1>1, <2>2 DEF DesktopInv, Stored
  <2>4. a.kind \in {"private", "recipient"} /\ a.password \in Text \union {None} /\ a # None
    BY <2>3 DEF ArchiveType, Mode
  <2>5. \A t \in Text : Optional(t) = IF t \in {"empty", "blank"} THEN None ELSE "bare"
    BY DEF Optional, Given, Trim, Text
  <2>6. None \notin Text
    BY DesktopAssumption
  <2>7. identity \in Text \union {"clear", None}
    BY <1>1 DEF DesktopInv, Stored
  <2>8. AccessOpens(op) <=>
          CASE a.kind = "private"   -> ~op.identity /\ Optional(op.passphrase) = None
                                         /\ Optional(op.password) = a.password
            [] a.kind = "recipient" -> RecipientOpens(op, a)
    BY <2>3, <2>4 DEF AccessOpens
  <2>9. CASE op.identity
    <3>1. Secret(op) = identity /\ Entered(op) = op.passphrase /\ a.kind = "private" => ~AccessOpens(op)
      BY <2>4, <2>8, <2>9 DEF Secret, Entered
    <3>2. a.kind = "recipient" => (AccessOpens(op) <=> IdentityLoads(op))
      BY <2>8, <2>9 DEF RecipientOpens
    <3>3. Fitting(op) => a.kind = "recipient"
      BY <2>3, <2>4, <2>9 DEF Fitting
    <3>4. ASSUME identity \in Text PROVE IdentityLoads(op) <=> Optional(op.passphrase) = identity
      BY <2>6, <3>4 DEF IdentityLoads, Generated, Text
    <3> QED
      BY <2>2, <2>4, <2>5, <2>6, <2>9, <3>1, <3>2, <3>3, <3>4 DEF Secret, Entered, Text
  <2>10. CASE ~op.identity
    <3>1. Secret(op) = a.password /\ Entered(op) = op.password
      BY <2>3, <2>10 DEF Secret, Entered
    <3>2. Fitting(op) => Optional(op.passphrase) = None
      BY <2>2, <2>5, <2>10 DEF Fitting
    <3>3. a.password \in Text =>
            (AccessOpens(op) <=> Optional(op.passphrase) = None /\ Optional(op.password) = a.password)
      BY <2>4, <2>6, <2>8, <2>10 DEF RecipientOpens
    <3> QED
      BY <2>2, <2>4, <2>5, <2>6, <3>1, <3>2, <3>3 DEF Text
  <2> QED
    BY <2>2, <2>9, <2>10
<1> QED
  BY <1>1, DesktopInvariant, PTL

\* However clicks, edits and replies follow each other, a result is titled with
\* the archive it is of, but for a listing whose field was edited on its way.
THEOREM ResultsNameTheirArchive == Spec => []ResultNamesArchive
<1>1. DesktopInv => ResultNamesArchive
  BY DEF DesktopInv
<1> QED
  BY <1>1, DesktopInvariant, PTL
===============================================================================
