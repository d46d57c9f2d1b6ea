----------------------------- MODULE RgxSignature -----------------------------
(***************************************************************************)
(* Detached signatures (signature.rs) of an archive that other processes   *)
(* are packing (RgxOutput).  Signers hash the archive part by part and     *)
(* write their signatures to one path; a verifier reads the signature, the *)
(* public-key file, twice, and the archive.  Each signer holds an identity *)
(* of its own, and the identity has the signer's name.                     *)
(*                                                                         *)
(* Digests and signatures are ideal: a digest is what was hashed, and a    *)
(* proof is made with one identity for one digest.                         *)
(***************************************************************************)
EXTENDS RgxOutput

CONSTANTS
  Signer,
  Verifier,     \* the one process that verifies
  Garbage,      \* what is left of a text under a shorter one
  MaxKeySwaps   \* bound: how often the public-key file is replaced

ASSUME SignatureAssumption == Verifier \notin Signer /\ MaxKeySwaps \in Nat

VARIABLES
  signing,     \* the stage of each signer
  reading,     \* the file that each signer and the verifier has open
  seen,        \* the parts each has read of it
  signature,   \* the text at the path of the signature, field by field
  keyFile,     \* whose public key is at the path given to the verifier
  keySwaps,
  checking,    \* the stage of the verifier
  record,      \* the signature as the verifier has read it
  trusted      \* the Ed25519 key it has loaded

signatureVars ==
  <<signing, reading, seen, signature, keyFile, keySwaps, checking, record, trusted>>

Reader == Signer \union {Verifier}

SignatureInit ==
  /\ Init
  /\ signing = [s \in Signer |-> "start"]
  /\ reading = [r \in Reader |-> Absent]
  /\ seen = [r \in Reader |-> <<>>]
  /\ signature = Absent
  /\ keyFile \in Signer /\ keySwaps = 0
  /\ checking = "start" /\ record = <<>> /\ trusted = Absent

-----------------------------------------------------------------------------
(* hash_archive: the archive is opened by name and read to its end *)

OpenArchive(r) ==
  /\ bound # Absent
  /\ reading' = [reading EXCEPT ![r] = bound]

MoreToRead(r) == Len(seen[r]) < Len(content[reading[r]])

ReadPart(r) ==
  /\ MoreToRead(r)
  /\ seen' = [seen EXCEPT ![r] = Append(@, content[reading[r]][Len(@) + 1])]

\* What a process had open and had read goes with it.
Gone(r) == reading' = [reading EXCEPT ![r] = Absent] /\ seen' = [seen EXCEPT ![r] = <<>>]

-----------------------------------------------------------------------------
(* sign_archive *)

SignStage(s, from, to) ==
  /\ signing[s] = from
  /\ signing' = [signing EXCEPT ![s] = to]
  /\ UNCHANGED <<vars, keyFile, keySwaps, checking, record, trusted>>

\* Keys, digest with length, and proof: the fields that tell texts apart.
Proof(s, digest) == [by |-> s, of |-> digest]
Text(s, digest) == <<s, digest, Proof(s, digest)>>

\* The length of an archive is written in decimal, so the text for a whole
\* archive is longer than that for a part of one.
Wide(digest) == Len(digest) = Parts

\* What the file holds once the first k fields of a new text are written over
\* an old one: no rest of it, a rest that continues the fields, or one that is
\* out of step with them, as the digits of the length differ in number.
Splice(old, new, k) ==
  LET head == SubSeq(new, 1, k)
      rest == SubSeq(old, k + 1, Len(old))
      inStep == k <= 1 \/ Wide(old[2]) = Wide(new[2])
  IN IF rest # <<>> /\ inStep THEN head \o rest
     ELSE IF rest # <<>> \/ (k = 3 /\ Len(old) >= 2 /\ Wide(old[2]) /\ ~Wide(new[2]))
     THEN Append(head, Garbage)
     ELSE head

SignCheck(s) ==
  /\ SignStage(s, "start", "checked")
  /\ signature = Absent
  /\ UNCHANGED <<reading, seen, signature>>

SignOpen(s) ==
  /\ SignStage(s, "checked", "hashing")
  /\ OpenArchive(s)
  /\ UNCHANGED <<seen, signature>>

HashPart(s) ==
  /\ SignStage(s, "hashing", "hashing")
  /\ ReadPart(s)
  /\ UNCHANGED <<reading, signature>>

\* The end of the file: the digest is signed.
HashEnd(s) ==
  /\ SignStage(s, "hashing", "signed")
  /\ ~MoreToRead(s)
  /\ UNCHANGED <<reading, seen, signature>>

\* fs::write opens the file, truncating one that has appeared since, ...
CreateSignature(s) ==
  /\ SignStage(s, "signed", "writing")
  /\ signature' = <<>>
  /\ UNCHANGED <<reading, seen>>

\* ... and writes from its beginning, whatever it holds by now: all of the text
\* or, when the disk is full or the process dies, some of it.
WriteSignature(s) ==
  /\ SignStage(s, "writing", "done")
  /\ signature' = Splice(signature, Text(s, seen[s]), 3)
  /\ UNCHANGED <<reading, seen>>

WriteSignatureInPart(s) ==
  /\ SignStage(s, "writing", "failed")
  /\ \E k \in 0..2 : signature' = Splice(signature, Text(s, seen[s]), k)
  /\ Gone(s)

\* The output exists, the archive cannot be opened or read, or the process dies.
SignFails(s) ==
  /\ \E from \in {"start", "checked", "hashing", "signed"} : SignStage(s, from, "failed")
  /\ Gone(s)
  /\ UNCHANGED signature

-----------------------------------------------------------------------------
(* verify_archive_signature *)

CheckStage(from, to) ==
  /\ checking = from /\ checking' = to
  /\ UNCHANGED <<vars, signing, signature, keyFile, keySwaps>>

\* Fault: whatever follows the last field is ignored.
ParsesLeniently(text) == Len(text) >= 3 /\ \A k \in 1..3 : text[k] # Garbage

\* parse_signature accepts exactly the fields of the format.
Parses(text) == Len(text) = 3 /\ \A k \in 1..3 : text[k] # Garbage

ReadSignature ==
  /\ CheckStage("start", "parsed")
  /\ signature # Absent /\ Parses(signature)
  /\ record' = signature
  /\ UNCHANGED <<reading, seen, trusted>>

\* Fault: the Key-ID of the record is not compared.
LoadPublicKeyAny ==
  /\ CheckStage("parsed", "named")
  /\ UNCHANGED <<reading, seen, record, trusted>>

\* load_public_key, whose Key-ID must be that of the record.
LoadPublicKey ==
  /\ CheckStage("parsed", "named")
  /\ keyFile = record[1]
  /\ UNCHANGED <<reading, seen, record, trusted>>

\* load_signing_public_key reads the file once more.
LoadSigningKey ==
  /\ CheckStage("named", "trusting")
  /\ trusted' = keyFile
  /\ UNCHANGED <<reading, seen, record>>

VerifyOpen ==
  /\ CheckStage("trusting", "hashing")
  /\ OpenArchive(Verifier)
  /\ UNCHANGED <<seen, record, trusted>>

VerifyPart ==
  /\ CheckStage("hashing", "hashing")
  /\ ReadPart(Verifier)
  /\ UNCHANGED <<reading, record, trusted>>

\* Fault: the digest in the record is believed.
ConfirmsRecord(digest) == record[3] = Proof(trusted, record[2])

\* The bytes read are those of the record, and the proof is one for them.
Confirms(digest) == record[2] = digest /\ record[3] = Proof(trusted, digest)

Verified ==
  /\ CheckStage("hashing", "verified")
  /\ ~MoreToRead(Verifier) /\ Confirms(seen[Verifier])
  /\ UNCHANGED <<reading, seen, record, trusted>>

\* A check or a read fails: of a key file without an Ed25519 key, for instance.
VerifyFails ==
  /\ \/ checking \in {"start", "parsed", "named", "trusting"}
     \/ checking = "hashing" /\ (MoreToRead(Verifier) \/ ~Confirms(seen[Verifier]))
  /\ CheckStage(checking, "failed")
  /\ Gone(Verifier) /\ record' = <<>> /\ trusted' = Absent

\* Another public key is put in place of the one that was supplied.
SwapKey ==
  /\ keySwaps < MaxKeySwaps /\ checking \in {"parsed", "named"}
  /\ keySwaps' = keySwaps + 1
  /\ keyFile' \in Signer \ {keyFile}
  /\ UNCHANGED <<vars, signing, reading, seen, signature, checking, record, trusted>>

-----------------------------------------------------------------------------
Packing == Next /\ UNCHANGED signatureVars

Signing == \E s \in Signer :
  \/ SignCheck(s) \/ SignOpen(s) \/ HashPart(s) \/ HashEnd(s) \/ CreateSignature(s)
  \/ WriteSignature(s) \/ WriteSignatureInPart(s) \/ SignFails(s)

Checking ==
  \/ ReadSignature \/ LoadPublicKey \/ LoadSigningKey \/ VerifyOpen \/ VerifyPart
  \/ Verified \/ VerifyFails

SignatureNext == Packing \/ Signing \/ Checking \/ SwapKey

SignatureSpec == SignatureInit /\ [][SignatureNext]_<<vars, signatureVars>>

-----------------------------------------------------------------------------
(* Properties *)

\* The readers that have come to the end of the archive.
Finished ==
  {s \in Signer : signing[s] \in {"signed", "writing", "done"}}
    \union (IF checking = "verified" THEN {Verifier} ELSE {})

\* What is signed, or verified, is one archive at one moment, although it is
\* read part by part while others pack to the same name: a whole archive,
\* where all are encrypted, and the beginning of one, where a single process
\* packs.
SignsOneArchive ==
  \A r \in Finished :
    /\ sealed = Process => \E w \in File : seen[r] = Whole(w)
    /\ (\A p, q \in Process : stage[p] # "start" /\ stage[q] # "start" => p = q) =>
         \E w \in File : seen[r] = SubSeq(Whole(w), 1, Len(seen[r]))

\* A verified archive, as it was read, has been signed by the identity of the
\* supplied public key, which is the one that is reported unless the key file
\* was replaced meanwhile, whoever else was writing to the signature.
VerifiedWasSigned ==
  checking = "verified" =>
    /\ signing[trusted] = "done"
    /\ seen[trusted] = seen[Verifier]
    /\ keySwaps = 0 => record[1] = trusted

\* Two signers writing at once, or one failing half way, may leave a text that
\* is nobody's; none such is a valid signature.
NoSplicedSignature ==
  signature # Absent /\ Parses(signature) /\ signature[3] = Proof(signature[1], signature[2]) =>
    \E s \in Signer : signature = Text(s, seen[s])
================================================================================
