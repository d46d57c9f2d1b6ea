------------------------------- MODULE RgxUnlock -------------------------------
(***************************************************************************)
(* One operation on an encrypted or plain archive, from detecting its kind *)
(* to the first content that authenticates: the command line (main.rs) and *)
(* the desktop backend, on top of recipient_archive.rs and recipient.rs.   *)
(*                                                                         *)
(* Every step opens the path again, so another process may put another     *)
(* archive there between two of them, and storage may damage the one that  *)
(* is there.  The files themselves are those of RgxEnvelope.               *)
(***************************************************************************)
EXTENDS RgxEnvelope

CONSTANTS
  KeyFile,      \* what may be at the path of a private key
  Candidates,   \* how many default paths there are
  Nothing,      \* no archive, no method, no option
  MaxReplace,   \* bound: how often the archive at the path is replaced
  MaxDamage     \* bound: faults of the storage

ASSUME UnlockAssumption ==
  /\ KeyFile \subseteq [form : {"absent", "broken", "clear", "locked"}, owner : Identity]
  /\ Candidates \in Nat /\ MaxReplace \in Nat /\ MaxDamage \in Nat
  /\ Nothing \notin Archive \union Identity \union KeyFile \union {"password"}

VARIABLES
  at,          \* the file at the path
  replaced,    \* how often it has been replaced
  damaged,     \* how many faults it has suffered
  request,     \* what the user chose and typed
  pc,
  kind,        \* as detected
  key,         \* the archive whose key was unwrapped
  method,      \* an identity, "password", or Nothing
  envelope,    \* the envelope that was hashed
  source       \* the archive that content came from

vars == <<at, replaced, damaged, request, pc, kind, key, method, envelope, source>>

\* What is fixed when an operation starts.  `env`: RGX_KEY_PASSWORD opens the
\* protected key files; `typed`: a passphrase entered on the desktop does.
\* `opens`: the archives the password, if one is given, is right for.
Requests ==
  [program : {"cli", "desktop"}, identity : KeyFile \union {Nothing},
   defaults : [1..Candidates -> KeyFile], env : BOOLEAN, typed : BOOLEAN,
   given : BOOLEAN, opens : SUBSET {x \in Archive : Kind[x] = "private" \/ Fallback[x]}]

Init ==
  /\ at \in {Packed(x) : x \in Packable} /\ replaced = 0 /\ damaged = 0
  /\ request \in Requests
  /\ request.program = "cli" => ~request.typed
  /\ ~request.given => request.opens = {}
  /\ pc = "detect" /\ kind = Nothing
  /\ key = Nothing /\ method = Nothing /\ envelope = Nothing /\ source = Nothing

-----------------------------------------------------------------------------
(* Steps *)

Replace ==
  /\ replaced < MaxReplace /\ pc \notin {"done", "failed"}
  /\ replaced' = replaced + 1
  /\ at' \in {Packed(x) : x \in Packable} \ {at}
  /\ UNCHANGED <<damaged, request, pc, kind, key, method, envelope, source>>

\* What damage does to the other kinds of archive is for RgxRoundTrip and
\* SealedStream.
Damage ==
  /\ damaged < MaxDamage /\ pc \notin {"done", "failed"} /\ at.magic = "recipient"
  /\ damaged' = damaged + 1
  /\ at' \in Rotted(at)
  /\ UNCHANGED <<replaced, request, pc, kind, key, method, envelope, source>>

Step(from, to) == pc = from /\ pc' = to /\ UNCHANGED <<at, replaced, damaged, request>>
Keep == UNCHANGED <<kind, key, method, envelope, source>>

\* The magic is all that detection looks at.
Recipient(f) == f.magic = "recipient"

\* detect_archive_kind: RGXR is recognised at the first look ...
DetectRecipient ==
  /\ Recipient(at)
  /\ Step("detect", "search")
  /\ kind' = "recipient"
  /\ UNCHANGED <<key, method, envelope, source>>

\* ... anything else is opened a second time.
DetectOther == ~Recipient(at) /\ Step("detect", "look_again") /\ Keep

DetectKind ==
  /\ at.magic \in {"plain", "private"}
  /\ Step("look_again", at.magic)
  /\ kind' = at.magic
  /\ UNCHANGED <<key, method, envelope, source>>

DetectFails ==
  at.magic \notin {"plain", "private"} /\ Step("look_again", "failed") /\ Keep

Deliver(from) ==
  /\ Step(from, "done")
  /\ source' = at.payload.of
  /\ UNCHANGED <<kind, key, method, envelope>>

\* The reader of each kind checks the magic of the file it opens.
IsKind(k) == at.magic = k

\* Options for identities do not go with a private archive.
NoIdentityOption == request.identity = Nothing /\ ~request.typed

PlainOpens   == IsKind("plain") /\ Deliver("plain")
PlainFails   == ~IsKind("plain") /\ Step("plain", "failed") /\ Keep

PrivateKeyRight == NoIdentityOption /\ request.given /\ IsKind("private") /\ at.payload.of \in request.opens
PrivateOpens == PrivateKeyRight /\ Deliver("private")
PrivateFails == ~PrivateKeyRight /\ Step("private", "failed") /\ Keep

-----------------------------------------------------------------------------
(* Unlocking a recipient archive *)

Loads(f, passphrase) == f.form = "clear" \/ (f.form = "locked" /\ passphrase)
Matches(f, x) == f.form \in {"clear", "locked"} /\ SlotsOf(x, f.owner) # {}

\* The explicit identity: the desktop takes the passphrase that was typed,
\* the command line the one of the environment.
Passphrase == IF request.program = "desktop" THEN request.typed ELSE request.env
Explicit   == request.identity # Nothing

\* Fault: the last of the default identities that match.
FirstMatchLast(x, k) ==
  /\ Matches(request.defaults[k], x)
  /\ \A j \in DOMAIN request.defaults : j > k => ~Matches(request.defaults[j], x)

\* find_matching_private_key goes through the default paths in order; the
\* first file that belongs to a recipient decides, readable or not.
FirstMatch(x, k) ==
  /\ Matches(request.defaults[k], x)
  /\ \A j \in 1..(k - 1) : ~Matches(request.defaults[j], x)

\* The identity that is chosen to unwrap the key of x, in each of the two ways.
ByOption(x)  == {f.owner : f \in {g \in {request.identity} : Explicit /\ Matches(g, x) /\ Loads(g, Passphrase)}}
ByDefault(x) ==
  IF Explicit THEN {}
  ELSE {request.defaults[k].owner :
          k \in {n \in DOMAIN request.defaults :
                   FirstMatch(x, n) /\ Loads(request.defaults[n], request.env)}}

Chosen(x) == ByOption(x) \union ByDefault(x)

\* Its first slot gives a key.
Unwraps(x) == \E i \in Chosen(x) : UnwrapFor(x, i) # {}

\* The desktop takes a passphrase only with a file it is for.
Refused == request.typed /\ ~Explicit

Unlocked(x, how) == key' = x /\ method' = how /\ UNCHANGED <<kind, envelope, source>>

UnlockByIdentity ==
  /\ Readable(at) /\ ~Refused
  /\ \E i \in Chosen(at) : \E x \in UnwrapFor(at, i) :
       Step("search", "open") /\ Unlocked(x, i)

\* No default identity matches.
NoneMatches(x) == ~Explicit /\ \A k \in DOMAIN request.defaults : ~FirstMatch(x, k)

\* An error on the way, which the desktop keeps to itself when there is a
\* password to try: the envelope cannot be read, the first match cannot, or
\* its slot does not open.
SearchStuck ==
  ~Explicit /\ ~(Readable(at) /\ (NoneMatches(at) \/ Unwraps(at)))

\* Fault: the command line falls back as well when the search is stuck.
TryPasswordAnyhow ==
  /\ ~Refused
  /\ (Readable(at) /\ NoneMatches(at)) \/ SearchStuck
  /\ Step("search", IF request.program = "cli" THEN "has_fallback" ELSE "password")
  /\ request.given
  /\ Keep

\* On the command line the envelope is read again for has_password_fallback;
\* the desktop goes straight to the password.
TryPassword ==
  /\ ~Refused
  /\ IF request.program = "cli"
     THEN Readable(at) /\ NoneMatches(at) /\ Step("search", "has_fallback")
     ELSE /\ (Readable(at) /\ NoneMatches(at)) \/ SearchStuck
          /\ request.given /\ Step("search", "password")
  /\ Keep

SearchFails ==
  /\ ~(Readable(at) /\ Unwraps(at) /\ ~Refused)
  /\ \/ Refused \/ Explicit
     \/ request.program = "cli" /\ SearchStuck
     \/ request.program = "desktop" /\ ~request.given
  /\ Step("search", "failed") /\ Keep

\* The password is asked for once the archive is known to have a slot for it.
HasFallback ==
  /\ Readable(at) /\ HasPassword(at) /\ request.given
  /\ Step("has_fallback", "password") /\ Keep
NoFallback ==
  /\ ~(Readable(at) /\ HasPassword(at) /\ request.given)
  /\ Step("has_fallback", "failed") /\ Keep

UnlockByPassword ==
  /\ Readable(at)
  /\ \E x \in UnwrapWithPassword(at, request.opens) :
       Step("password", "open") /\ Unlocked(x, "password")
PasswordFails ==
  /\ ~(Readable(at) /\ UnwrapWithPassword(at, request.opens) # {})
  /\ Step("password", "failed") /\ Keep

-----------------------------------------------------------------------------
(* open_payload: the envelope is read and hashed once more, then the file is *)
(* opened again behind it.                                                   *)

HashEnvelope ==
  /\ Readable(at)
  /\ Step("open", "payload")
  /\ envelope' = at.envelope
  /\ UNCHANGED <<kind, key, method, source>>
EnvelopeFails == ~Readable(at) /\ Step("open", "failed") /\ Keep

\* A keyed stream stands where the envelope that was read ends.
PayloadThere == at.payload # <<>> /\ Kind[at.payload.of] = "recipient"

\* Fault: the key is all that the payload needs.
PayloadAuthenticByKey == PayloadThere /\ at.payload.seal = "good" /\ at.payload.of = key

\* Fault: the hash of the envelope vouches for the payload.
PayloadAuthenticByHash == PayloadThere /\ at.payload.seal = "good" /\ at.payload.names = envelope

\* The payload names the hash of its envelope, and its first frame opens under
\* its own key only.
PayloadAuthentic ==
  PayloadThere /\ at.payload.seal = "good" /\ at.payload.names = envelope /\ at.payload.of = key

PayloadOpens == PayloadAuthentic /\ Deliver("payload")
PayloadFails == ~PayloadAuthentic /\ Step("payload", "failed") /\ Keep

Next ==
  \/ Replace \/ Damage
  \/ DetectRecipient \/ DetectOther \/ DetectKind \/ DetectFails
  \/ PlainOpens \/ PlainFails \/ PrivateOpens \/ PrivateFails
  \/ UnlockByIdentity \/ TryPassword \/ SearchFails
  \/ HasFallback \/ NoFallback \/ UnlockByPassword \/ PasswordFails
  \/ HashEnvelope \/ EnvelopeFails \/ PayloadOpens \/ PayloadFails

Spec == Init /\ [][Next]_vars

-----------------------------------------------------------------------------
(* Properties *)

\* However often the archive at the path is replaced or damaged between the
\* steps, what is delivered comes from one archive, of the kind that is
\* reported, and the identity or password that is reported to have opened it
\* is one that it was packed for.
OneArchive ==
  pc = "done" =>
    /\ kind = Kind[source]
    /\ kind = "private" => source \in request.opens
    /\ kind = "recipient" =>
         /\ key = source
         /\ method = "password" => Fallback[source] /\ source \in request.opens
         /\ method # "password" => method \in Recipients(source)

\* Nothing in an envelope changes unnoticed, not even in the slots of others:
\* what is delivered was opened behind the envelope as it was packed.
EnvelopeIntact == pc = "done" /\ kind = "recipient" => envelope = Envelope(source)

\* The files among the default ones that belong to a recipient of x.
Own(x) ==
  {k \in DOMAIN request.defaults :
     request.defaults[k].form \in {"clear", "locked"} /\ request.defaults[k].owner \in Recipients(x)}

\* Whom x is open to, as a user would put it: a chosen identity must be a
\* recipient that can be read; otherwise the first of the default ones that
\* is a recipient must be, or there must be a right password: on the command
\* line only if no default identity is a recipient.
Entitled(x) ==
  \/ Kind[x] = "plain"
  \/ Kind[x] = "private" /\ x \in request.opens /\ request.identity = Nothing /\ ~request.typed
  \/ /\ Kind[x] = "recipient" /\ Explicit
     /\ request.identity.form \in {"clear", "locked"}
     /\ request.identity.owner \in Recipients(x)
     /\ Loads(request.identity, Passphrase)
  \/ /\ Kind[x] = "recipient" /\ ~Explicit /\ ~request.typed
     /\ \/ \E k \in Own(x) :
             /\ \A j \in Own(x) : k <= j
             /\ request.defaults[k].form = "clear" \/ request.env
        \/ /\ Fallback[x] /\ x \in request.opens
           /\ request.program = "cli" => Own(x) = {}

\* While the path keeps its archive, the chain of searches, fallbacks and
\* repeated reads opens it to exactly those it was packed for: each recipient,
\* up to the limit of their number, in whatever place of the envelope.
OpensToTheEntitled ==
  replaced = 0 /\ damaged = 0 =>
    /\ pc = "done" => Entitled(at.payload.of)
    /\ pc = "failed" => ~Entitled(at.payload.of)

\* docs/RECIPIENT_KEYS.md: only if no matching identity is available is the
\* password fallback used.  So it is on the command line, where a matching
\* identity that is locked ends the search as well.
FallbackIsLast ==
  replaced = 0 /\ damaged = 0 /\ request.program = "cli" /\ method = "password" =>
    Own(at.payload.of) = {}
================================================================================
