------------------------------ MODULE RgxExtract ------------------------------
(***************************************************************************)
(* How an extracted tree gets to disk when several processes extract into  *)
(* one directory and any of them may fail or die: extract_reader and       *)
(* extract_file_record of src/src/archive.rs, called with the name the     *)
(* command line was given, or with the free name that unique_output_dir of *)
(* the desktop backend found.  What is read from the archive is modelled   *)
(* in RgxRead; here an archive is a set of files, and each extraction      *)
(* wants at least one of them.  Directories inside a tree come and go with *)
(* the files in them.                                                      *)
(***************************************************************************)
EXTENDS Naturals, FiniteSets

CONSTANTS
  Process,    \* each extracts once
  File,       \* paths in an archive
  Names,      \* bound: output names, 1 for the stem, k for stem-k
  Earlier,    \* the maker of a tree that is there beforehand
  Nobody      \* the maker of no tree, the writer of no file

ASSUME ExtractAssumption ==
  /\ Names \in Nat \ {0}
  /\ Earlier \notin Process /\ Nobody \notin Process /\ Earlier # Nobody

VARIABLES
  desktop,   \* the processes that look for a free name
  stage,     \* of each process
  wanted,    \* the files each extracts
  name,      \* the output name of each
  trees      \* what is at each name

vars == <<desktop, stage, wanted, name, trees>>

Name == 1..Names

\* A file in a tree: who created it, and whether all of it is written.
Part(p)  == [by |-> p, whole |-> FALSE]
Full(p)  == [by |-> p, whole |-> TRUE]
NoFile   == [by |-> Nobody, whole |-> FALSE]

NewTree(p)   == [maker |-> p, files |-> [f \in File |-> NoFile]]
NoTree       == NewTree(Nobody)
EarlierTree  == [maker |-> Earlier, files |-> [f \in File |-> Full(Earlier)]]

Exists(n) == trees[n].maker # Nobody

Init ==
  /\ desktop \in SUBSET Process
  /\ stage = [p \in Process |-> IF p \in desktop THEN "naming" ELSE "start"]
  /\ wanted \in [Process -> (SUBSET File) \ {{}}]
  /\ name \in [Process -> Name] /\ \A p \in desktop : name[p] = 1
  /\ trees \in [Name -> {NoTree, EarlierTree}]
  /\ \A n \in Name : Exists(n) => n = 1

-----------------------------------------------------------------------------
Goto(p, s) == stage' = [stage EXCEPT ![p] = s]
At(p)      == trees[name[p]]
PutTree(p, t)    == trees' = [trees EXCEPT ![name[p]] = t]
PutFile(p, f, x) == trees' = [trees EXCEPT ![name[p]].files[f] = x]

Still   == UNCHANGED <<desktop, wanted, name>>
Trees   == UNCHANGED trees

\* unique_output_dir: the stem, then stem-2, stem-3 ..., until one is free.
\* Detection and unlocking come between this and the extraction.
TakeName(p) ==
  /\ stage[p] = "naming" /\ ~Exists(name[p])
  /\ Goto(p, "start") /\ Still /\ Trees

\* Suffixes are bounded by Names here, by u32 in the code.
NextName(p) ==
  /\ stage[p] = "naming" /\ Exists(name[p]) /\ name[p] < Names
  /\ name' = [name EXCEPT ![p] = @ + 1]
  /\ UNCHANGED <<desktop, stage, wanted, trees>>

\* output.exists() once more, before the archive is scanned.
Check(p) ==
  /\ stage[p] = "start" /\ ~Exists(name[p])
  /\ Goto(p, "checked") /\ Still /\ Trees

\* The output exists, or the archive cannot be opened, unlocked or scanned, or
\* has not what was selected.
Refuse(p) ==
  /\ stage[p] \in {"start", "checked"}
  /\ Goto(p, "failed") /\ Still /\ Trees

\* Fault: create_dir_all takes a directory that is there.
CreateDirOrTake(p) ==
  /\ stage[p] = "checked"
  /\ IF Exists(name[p]) THEN Trees ELSE PutTree(p, NewTree(p))
  /\ Goto(p, "writing") /\ Still

\* create_dir: the file system decides who creates the directory ...
CreateDir(p) ==
  /\ stage[p] = "checked" /\ ~Exists(name[p])
  /\ PutTree(p, NewTree(p))
  /\ Goto(p, "writing") /\ Still

\* Fault: a failure to create the directory is cleaned up like a later one.
CreateDirFailsRemoving(p) ==
  /\ stage[p] = "checked"
  /\ Goto(p, "removing") /\ Still /\ Trees

\* ... and when it is there, nothing is removed.
CreateDirFails(p) ==
  /\ stage[p] = "checked"
  /\ Goto(p, "failed") /\ Still /\ Trees

\* The file a process has begun.
Begun(p) == {f \in File : At(p).files[f] = Part(p)}

\* create_new: a file is not written twice.
CreateFile(p, f) ==
  /\ stage[p] = "writing" /\ Begun(p) = {}
  /\ f \in wanted[p] /\ At(p).files[f] = NoFile
  /\ PutFile(p, f, Part(p))
  /\ Still /\ UNCHANGED stage

\* The last chunk is written and the digest is right.
WriteFile(p, f) ==
  /\ stage[p] = "writing" /\ f \in Begun(p)
  /\ PutFile(p, f, Full(p))
  /\ Still /\ UNCHANGED stage

\* Fault: the error of a file ends the loop as if all had been written.
StopEarly(p) ==
  /\ stage[p] = "writing" /\ Begun(p) = {}
  /\ Goto(p, "done") /\ Still /\ Trees

Succeed(p) ==
  /\ stage[p] = "writing"
  /\ \A f \in wanted[p] : At(p).files[f].whole
  /\ Goto(p, "done") /\ Still /\ Trees

\* Fault: what was extracted so far is kept.
WriteFailsKeeping(p) ==
  /\ stage[p] = "writing"
  /\ Goto(p, "failed") /\ Still /\ Trees

\* A directory or file cannot be created or written, or a chunk is damaged.
\* The file begun is removed, if that works.
WriteFails(p) ==
  /\ stage[p] = "writing"
  /\ Trees \/ \E f \in Begun(p) : PutFile(p, f, NoFile)
  /\ Goto(p, "removing") /\ Still

\* remove_dir_all(output) removes by name, one file after the other ...
RemoveFile(p, f) ==
  /\ stage[p] = "removing" /\ At(p).files[f] # NoFile
  /\ PutFile(p, f, NoFile)
  /\ Still /\ UNCHANGED stage

\* ... and then the directory.
RemoveDir(p) ==
  /\ stage[p] = "removing" /\ \A f \in File : At(p).files[f] = NoFile
  /\ PutTree(p, NoTree)
  /\ Goto(p, "failed") /\ Still

\* Its errors are ignored.
RemoveStops(p) == stage[p] = "removing" /\ Goto(p, "left") /\ Still /\ Trees

Crash(p) ==
  /\ stage[p] \in {"checked", "writing", "removing"}
  /\ Goto(p, "dead") /\ Still /\ Trees

\* A tree that no process is working on may be removed by its owner.
InProgress == {p \in Process : stage[p] \in {"writing", "removing"}}
UserRemoves(n) ==
  /\ Exists(n) /\ trees[n].maker \notin InProgress
  /\ trees' = [trees EXCEPT ![n] = NoTree]
  /\ UNCHANGED stage /\ Still

Step(p) ==
  \/ TakeName(p) \/ NextName(p) \/ Check(p) \/ Refuse(p)
  \/ CreateDir(p) \/ CreateDirFails(p)
  \/ \E f \in File : CreateFile(p, f) \/ WriteFile(p, f) \/ RemoveFile(p, f)
  \/ Succeed(p) \/ WriteFails(p) \/ RemoveDir(p) \/ RemoveStops(p) \/ Crash(p)

Next == (\E p \in Process : Step(p)) \/ (\E n \in Name : UserRemoves(n))

Spec == Init /\ [][Next]_vars

-----------------------------------------------------------------------------
(* Properties *)

Stages == {"naming", "start", "checked", "writing", "removing",
           "done", "failed", "left", "dead"}
FileType == [by : Process \union {Earlier, Nobody}, whole : BOOLEAN]
TreeType == [maker : Process \union {Earlier, Nobody}, files : [File -> FileType]]

TypeOK ==
  /\ desktop \subseteq Process
  /\ stage \in [Process -> Stages]
  /\ wanted \in [Process -> SUBSET File]
  /\ name \in [Process -> Name]
  /\ trees \in [Name -> TreeType]

\* Two extractions never share a tree: every file in it was written by the
\* process that created the tree, whoever else found the name free before.
OneWriter ==
  \A n \in Name, f \in File :
    trees[n].files[f] # NoFile => trees[n].files[f].by = trees[n].maker

\* The tree of an extraction that reported success, as long as it is there,
\* holds exactly the files that were wanted, each of them whole.
SuccessIsComplete ==
  \A n \in Name, p \in Process :
    trees[n].maker = p /\ stage[p] = "done" =>
      \A f \in File : trees[n].files[f] = IF f \in wanted[p] THEN Full(p) ELSE NoFile

\* A reported failure leaves nothing of that extraction behind, unless the
\* removal itself failed.
FailureLeavesNothing ==
  \A n \in Name, p \in Process : stage[p] = "failed" => trees[n].maker # p

\* A tree that was there before or is reported as extracted.
Settled(n) == trees[n].maker = Earlier
                \/ \E p \in Process : trees[n].maker = p /\ stage[p] = "done"

\* A finished tree, or one that was there before, is changed and removed by
\* nobody but its owner: above all not by the clean-up of an extraction that
\* meant the same name (desktop README: existing extraction directories are
\* not silently overwritten).
FinishedStays ==
  [][\A n \in Name : Settled(n) /\ ~UserRemoves(n) => trees'[n] = trees[n]]_vars
================================================================================
