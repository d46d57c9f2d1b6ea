------------------------------ MODULE RgxDesktop ------------------------------
(***************************************************************************)
(* The desktop window and its backend: the click handlers and runAction of *)
(* desktop/ui/app.js, and the commands of desktop/src-tauri/src/main.rs    *)
(* that they invoke.  One window, one identity, and the archives it packs. *)
(*                                                                         *)
(* What the fields hold when a button is clicked is the user's choice, and *)
(* they may be edited while a command runs; only the field that is read    *)
(* after the command is kept as state.  The window checks the fields, sends *)
(* a request, and the backend checks it again and does the work.           *)
(***************************************************************************)
EXTENDS Naturals

CONSTANTS
  Path,   \* where archives are packed to
  None    \* no archive, no secret, no request, no result

\* What a password field may hold: nothing, only spaces, a password, or the
\* same password between spaces.
Text == {"empty", "blank", "bare", "spaced"}
ASSUME DesktopAssumption == None \notin Path /\ None \notin Text

VARIABLES
  busy,      \* the class "busy" of the document
  op,        \* the request the backend works on
  subject,   \* the archive field of the inspection view
  edited,    \* subject was changed while a listing is on its way
  archives,  \* what is at each path
  identity,  \* the passphrase of the private key: None before it is generated
  shown      \* the last result: what it is titled with, and what it is of

vars == <<busy, op, subject, edited, archives, identity, shown>>

Trim(t)  == IF t \in {"empty", "blank"} THEN "empty" ELSE "bare"
Given(t) == IF t = "empty" THEN None ELSE t

\* What accessRequest and extract-run send of a secret that was typed.
Optional(t) == Given(Trim(t))

Archive(mode, password) == [kind |-> mode, password |-> password]

Init ==
  /\ busy = FALSE /\ op = None /\ edited = FALSE
  /\ subject \in Path
  /\ archives = [x \in Path |-> None]
  /\ identity = None
  /\ shown = None

-----------------------------------------------------------------------------
(* Clicks.  A field that the window refuses ends the action before anything  *)
(* is sent; a click while an action runs does nothing.                       *)

Click ==
  /\ ~busy
  /\ busy' = TRUE /\ edited' = FALSE
  /\ UNCHANGED <<subject, archives, identity, shown>>

\* requireMatchingPasswords: the first field is not empty, and the second is
\* the same.
Matching(first, second) == first # "empty" /\ first = second

\* Fault: a password that was typed for one mode goes with every mode.
PackRequestMixed(x, mode, first, keys, fallback) ==
  [kind |-> "pack", path |-> x, mode |-> mode, password |-> Given(first),
   keys |-> keys, fallback |-> fallback]

\* The recipient keys that were added are sent in every mode, the password of
\* the mode if it has one, the choice of a fallback with recipient mode.
PackRequest(x, mode, first, keys, fallback) ==
  [kind |-> "pack", path |-> x, mode |-> mode,
   password |-> IF mode = "private" \/ fallback THEN first ELSE None,
   keys |-> keys, fallback |-> fallback]

\* pack-run
ClickPack(x) ==
  \E mode \in {"plain", "private", "recipient"}, keys, fallback \in BOOLEAN, first, second \in Text :
    /\ fallback => mode = "recipient"
    /\ mode = "recipient" => keys
    /\ mode = "private" \/ fallback => Matching(first, second)
    /\ Click
    /\ op' = PackRequest(x, mode, first, keys, fallback)

\* extract-run, inspect-info and inspect-verify ("open"), inspect-list: each
\* takes the path and the secrets from the fields of its view.
ClickAccess(kind) ==
  \E x \in Path, chosen \in BOOLEAN, first, second \in Text :
    /\ kind = "list" => x = subject
    /\ Click
    /\ op' = [kind |-> kind, path |-> x, identity |-> chosen,
              password |-> first, passphrase |-> second]

\* identity-run
ClickKeygen ==
  \E protect \in BOOLEAN, first, second \in Text :
    /\ protect => Matching(first, second)
    /\ Click
    /\ op' = [kind |-> "keygen", protect |-> protect,
              password |-> IF protect THEN first ELSE None]

\* The inspection view's archive field, at any time.
EditSubject ==
  /\ subject' \in Path \ {subject}
  /\ edited' = (op # None /\ op.kind = "list")
  /\ UNCHANGED <<busy, op, archives, identity, shown>>

-----------------------------------------------------------------------------
(* The backend's checks *)

\* pack_archive_blocking, before it packs
PackAccepted(r) ==
  CASE r.mode = "plain"     -> r.password = None /\ ~r.fallback /\ ~r.keys
    [] r.mode = "private"   -> r.password # None /\ ~r.fallback /\ ~r.keys
    [] r.mode = "recipient" -> r.keys /\ (r.fallback <=> r.password # None)

\* generate_identity_blocking
KeygenAccepted(r) == r.protect <=> r.password # None

\* The public key that recipients are read from is there with the private one.
Generated == identity # None

\* load_private_key_with_password for the selected identity
IdentityLoads(r) ==
  Generated /\ (identity = "clear" \/ Optional(r.passphrase) = identity)

\* Fault: a password is tried as well when the selected identity does not load.
RecipientOpensFallingBack(r, a) ==
  \/ r.identity /\ IdentityLoads(r)
  \/ a.password # None /\ Optional(r.password) = a.password

\* unlock_recipient: the selected identity, or the fallback password.  No
\* identity is at a default path here (see RgxUnlock).
RecipientOpens(r, a) ==
  IF r.identity THEN IdentityLoads(r)
  ELSE Optional(r.passphrase) = None /\ a.password # None /\ Optional(r.password) = a.password

\* extract_archive_blocking, inspect_, verify_ and list_archive_blocking
AccessOpens(r) ==
  LET a == archives[r.path] IN
  /\ a # None
  /\ CASE a.kind = "plain"     -> TRUE
       [] a.kind = "private"   -> ~r.identity /\ Optional(r.passphrase) = None
                                    /\ Optional(r.password) = a.password
       [] a.kind = "recipient" -> RecipientOpens(r, a)

-----------------------------------------------------------------------------
(* Replies.  What follows the await runs before the next click is looked at. *)

\* Fault: busy is cleared on success only.
ReplyKeepingBusy(ok) ==
  /\ op # None
  /\ busy' = ~ok /\ op' = None
  /\ edited' = FALSE /\ UNCHANGED subject

\* runAction clears busy in its finally block.
Reply(ok) ==
  /\ op # None
  /\ busy' = FALSE /\ op' = None
  /\ edited' = FALSE /\ UNCHANGED subject

\* Any command may fail, for what is on disk or in the archive.
Fails == Reply(FALSE) /\ UNCHANGED <<archives, identity, shown>>

\* The output must be free, and the recipients' keys there.
PackSucceeds ==
  /\ op # None /\ op.kind = "pack"
  /\ PackAccepted(op) /\ archives[op.path] = None
  /\ op.mode = "recipient" => Generated
  /\ archives' = [archives EXCEPT ![op.path] = Archive(op.mode, op.password)]
  /\ Reply(TRUE) /\ UNCHANGED <<identity, shown>>

\* The private key is not overwritten.
KeygenSucceeds ==
  /\ op # None /\ op.kind = "keygen"
  /\ KeygenAccepted(op) /\ ~Generated
  /\ identity' = IF op.protect THEN op.password ELSE "clear"
  /\ Reply(TRUE) /\ UNCHANGED <<archives, shown>>

\* Fault: every result is titled with what the field holds now.
TitleNow == subject

\* renderList takes the field's value for a title, the others what was asked.
Title == IF op.kind = "list" THEN subject ELSE op.path

AccessSucceeds ==
  /\ op # None /\ op.kind \in {"open", "list"}
  /\ AccessOpens(op)
  /\ shown' = [title |-> Title, of |-> op.path, late |-> edited /\ subject # op.path]
  /\ Reply(TRUE) /\ UNCHANGED <<archives, identity>>

Next ==
  \/ \E x \in Path : ClickPack(x)
  \/ \E kind \in {"open", "list"} : ClickAccess(kind)
  \/ ClickKeygen
  \/ EditSubject
  \/ Fails \/ PackSucceeds \/ KeygenSucceeds \/ AccessSucceeds

\* A command that was sent is answered, at least by an error: run_blocking
\* turns a panic into one.
Answers == Fails \/ PackSucceeds \/ KeygenSucceeds \/ AccessSucceeds
Spec == Init /\ [][Next]_vars /\ WF_vars(Answers)

-----------------------------------------------------------------------------
(* Properties *)

\* The window and the backend check a pack request each in their own way, and
\* disagree in one case: recipient keys that were added stay when the mode is
\* switched, are sent, and make the backend refuse (app.js:511, main.rs:230).
\* How many recipients there may be (recipient_archive.rs:46) is not among the
\* checks of a request: PackAccepted leaves it out, as it does the files.
RefusesOnlyLeftoverKeys ==
  op # None /\ op.kind = "pack" /\ ~PackAccepted(op) => op.keys /\ op.mode # "recipient"

Accessing == op # None /\ op.kind \in {"open", "list"}

Secret(r)  == IF r.identity THEN identity ELSE archives[r.path].password
Entered(r) == IF r.identity THEN r.passphrase ELSE r.password

\* A request with what goes with its archive, and nothing else.
Fitting(r) ==
  LET kind == archives[r.path].kind IN
  /\ kind = "private" => ~r.identity
  /\ ~r.identity => r.passphrase \in {"empty", "blank"}

\* Whoever enters exactly the password an archive was packed with, or the
\* passphrase the identity was generated with, opens it, unless the secret has
\* spaces around it or is all spaces: it is trimmed on the way in
\* (app.js:284) but was not when it was set, and then nothing that can be
\* typed opens it.
OwnSecretOpens ==
  Accessing /\ archives[op.path] # None /\ archives[op.path].kind # "plain" =>
    /\ Fitting(op) /\ Entered(op) = Secret(op) => (AccessOpens(op) <=> Secret(op) = "bare")
    /\ Secret(op) \in {"blank", "spaced"} => ~AccessOpens(op)

\* A result names the archive it is of, whatever was edited in the meantime,
\* but for a listing: it is titled with what the field holds when it arrives
\* (app.js:356), which may be another archive by then.
ResultNamesArchive ==
  shown # None => shown.title = shown.of \/ shown.late

\* The window does not stay busy: however a command ends, the next click is
\* looked at.
BusyEnds == busy ~> ~busy
================================================================================
