------------------------------- MODULE RgxKeygen -------------------------------
(***************************************************************************)
(* How a generated identity gets to disk: save_keypair_text of             *)
(* src/src/recipient.rs, run by several processes, with writes that fail   *)
(* and processes that die half way.  A private key at a path has its       *)
(* public key at the path that public_path_for derives from it, so a path  *)
(* stands for the pair.  Every process generates an identity of its own,   *)
(* and the identity has the process's name.                                *)
(***************************************************************************)
EXTENDS Naturals, FiniteSets

CONSTANTS
  Process,   \* each generates one identity
  Path,      \* where private keys may go
  Nobody     \* the owner of a file that is not there

ASSUME KeygenAssumption == Nobody \notin Process

VARIABLES
  stage,     \* of each process
  target,    \* the path each was given
  private,   \* the private-key file at each path
  public     \* the public-key file at each path

vars == <<stage, target, private, public>>

\* A key file: whose key, and whether the text is all there.
KeyFile(p, all) == [owner |-> p, whole |-> all]
None == [owner |-> Nobody, whole |-> FALSE]

Init ==
  /\ stage = [p \in Process |-> "start"]
  /\ target \in [Process -> Path]
  /\ private = [x \in Path |-> None]
  /\ public = [x \in Path |-> None]

-----------------------------------------------------------------------------
Goto(p, s) == stage' = [stage EXCEPT ![p] = s]
Put(files, p, file) == [files EXCEPT ![target[p]] = file]

CheckPrivate(p) ==
  /\ stage[p] = "start"
  /\ Goto(p, IF private[target[p]] = None THEN "private_free" ELSE "failed")
  /\ UNCHANGED <<target, private, public>>

CheckPublic(p) ==
  /\ stage[p] = "private_free"
  /\ Goto(p, IF public[target[p]] = None THEN "checked" ELSE "failed")
  /\ UNCHANGED <<target, private, public>>

\* Fault: create in place of create_new.
CreatePrivateOver(p) ==
  /\ stage[p] = "checked"
  /\ private' = Put(private, p, KeyFile(p, FALSE))
  /\ Goto(p, "created")
  /\ UNCHANGED <<target, public>>

\* create_new: the file system decides who creates the file.
CreatePrivate(p) ==
  /\ stage[p] = "checked" /\ private[target[p]] = None
  /\ private' = Put(private, p, KeyFile(p, FALSE))
  /\ Goto(p, "created")
  /\ UNCHANGED <<target, public>>

\* Fault: an error to create the file is cleaned up like one to write it.
CreateFailsRemoving(p) ==
  /\ stage[p] = "checked"
  /\ private' = Put(private, p, None)
  /\ Goto(p, "failed")
  /\ UNCHANGED <<target, public>>

\* create_dir_all or open fails; the latter always when the file exists.
CreateFails(p) ==
  /\ stage[p] = "checked"
  /\ Goto(p, "failed")
  /\ UNCHANGED <<target, private, public>>

WritePrivate(p) ==
  /\ stage[p] = "created"
  /\ private' = Put(private, p, KeyFile(p, TRUE))
  /\ Goto(p, "private_saved")
  /\ UNCHANGED <<target, public>>

\* fs::write opens the public file, truncating one that is there ...
CreatePublic(p) ==
  /\ stage[p] = "private_saved"
  /\ public' = Put(public, p, KeyFile(p, FALSE))
  /\ Goto(p, "public_created")
  /\ UNCHANGED <<target, private>>

\* ... and writes it.
WritePublic(p) ==
  /\ stage[p] = "public_created"
  /\ public' = Put(public, p, KeyFile(p, TRUE))
  /\ Goto(p, "done")
  /\ UNCHANGED <<target, private>>

\* Fault: a failure to write the public key leaves the private key.
WriteFailsKeeping(p) ==
  /\ stage[p] \in {"created", "private_saved", "public_created"}
  /\ private' = IF stage[p] = "created" THEN Put(private, p, None) ELSE private
  /\ Goto(p, "failed")
  /\ UNCHANGED <<target, public>>

\* A write of either file fails: the private file is removed, by name, and
\* what there is of the public file stays.  An error of the removal is ignored,
\* and then the private file stays, too.
WriteFails(p) ==
  /\ stage[p] \in {"created", "private_saved", "public_created"}
  /\ \/ private' = Put(private, p, None) /\ Goto(p, "failed")
     \/ UNCHANGED private /\ Goto(p, "left")
  /\ UNCHANGED <<target, public>>

Crash(p) ==
  /\ stage[p] \in {"private_free", "checked", "created", "private_saved", "public_created"}
  /\ Goto(p, "dead")
  /\ UNCHANGED <<target, private, public>>

Next == \E p \in Process :
  \/ CheckPrivate(p) \/ CheckPublic(p) \/ CreatePrivate(p) \/ CreateFails(p)
  \/ WritePrivate(p) \/ CreatePublic(p) \/ WritePublic(p) \/ WriteFails(p) \/ Crash(p)

Spec == Init /\ [][Next]_vars

-----------------------------------------------------------------------------
Stages ==
  {"start", "private_free", "checked", "created", "private_saved", "public_created",
   "done", "failed", "left", "dead"}

KeyFiles == [owner : Process \union {Nobody}, whole : BOOLEAN]

\* Every process is at a known stage with a path of its own or a shared one,
\* and every file is a key's or is not there.
TypeOK ==
  /\ stage \in [Process -> Stages]
  /\ target \in [Process -> Path]
  /\ private \in [Path -> KeyFiles]
  /\ public \in [Path -> KeyFiles]

\* A process that has reported an identity finds both its files there and
\* whole, for good: neither another run on the same path, nor its clean-up
\* after an error, takes or replaces a key that was handed out
\* (recipient.rs:362, 373, 379).
HandedOutStays ==
  \A p \in Process : stage[p] = "done" =>
    /\ private[target[p]] = KeyFile(p, TRUE)
    /\ public[target[p]] = KeyFile(p, TRUE)

\* The two files of a path, when both are whole, are of one identity: a
\* mismatched pair would seal archives to a key nobody holds.
PairMatches ==
  \A x \in Path : private[x].whole /\ public[x].whole => private[x].owner = public[x].owner

\* A run that reports a failure leaves its private key behind only where the
\* removal failed as well (recipient.rs:373, 379).  A key left like that is
\* never half of a pair, whoever else is at work on the path: the public key
\* next to it is not there or not whole, so nothing can be sealed to it.
FailureLeavesNoSecret ==
  \A p \in Process :
    stage[p] \in {"failed", "left"} /\ private[target[p]].owner = p =>
      stage[p] = "left" /\ ~public[target[p]].whole
================================================================================
