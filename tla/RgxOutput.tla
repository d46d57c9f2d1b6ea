------------------------------- MODULE RgxOutput -------------------------------
(***************************************************************************)
(* How a packed archive gets to its name on disk, when several processes   *)
(* pack to the same output and any of them may fail or die.  A plain       *)
(* archive is written in place (archive::pack); an encrypted one is        *)
(* written to a temporary file that is renamed at the end (pack_private,   *)
(* pack_recipient).  What is written is modelled in RgxPack; here it is a  *)
(* number of parts, each marked with its writer.                           *)
(*                                                                         *)
(* A file is named by the process that created it.  A name is bound to a   *)
(* file, and a process that has the file open goes on writing to it when   *)
(* the name is bound to another.                                           *)
(***************************************************************************)
EXTENDS Naturals, Sequences

CONSTANTS
  Process,    \* each packs once
  Earlier,    \* the writer of a file that may be there beforehand
  Absent,     \* the name is bound to no file
  Hole,       \* a part that nobody wrote
  Parts       \* parts of an archive

ASSUME OutputAssumption ==
  /\ Parts \in Nat \ {0}
  /\ Earlier \notin Process
  /\ Absent \notin Process \union {Earlier}
  /\ Hole \notin Process \union {Earlier}

VARIABLES
  sealed,   \* the processes that pack an encrypted archive
  stage,    \* of each process
  written,  \* parts each has written: its offset in the file it has open
  open,     \* the file each has open
  content,  \* of each file: the writer of each part
  bound,    \* the file at the output name
  temps     \* temporary files in the directory

vars == <<sealed, stage, written, open, content, bound, temps>>

File == Process \union {Earlier}

\* A whole archive by w.
Whole(w) == [i \in 1..Parts |-> w]

Init ==
  /\ sealed \in SUBSET Process
  /\ stage = [p \in Process |-> "start"]
  /\ written = [p \in Process |-> 0]
  /\ open = [p \in Process |-> Absent]
  /\ content = [f \in File |-> IF f = Earlier THEN Whole(Earlier) ELSE <<>>]
  /\ bound \in {Absent, Earlier}
  /\ temps = {}

-----------------------------------------------------------------------------
Goto(p, s) == stage' = [stage EXCEPT ![p] = s]

\* output.exists(), and the checks of input and directory behind it.
Refuse(p) ==
  /\ stage[p] = "start"
  /\ Goto(p, "failed")
  /\ UNCHANGED <<sealed, written, open, content, bound, temps>>

Check(p) ==
  /\ stage[p] = "start" /\ bound = Absent
  /\ Goto(p, "checked")
  /\ UNCHANGED <<sealed, written, open, content, bound, temps>>

\* Fault: an output that has appeared since is opened without truncation.
CreateOver(p) ==
  /\ stage[p] = "checked" /\ p \notin sealed
  /\ IF bound = Absent
     THEN bound' = p /\ open' = [open EXCEPT ![p] = p]
     ELSE bound' = bound /\ open' = [open EXCEPT ![p] = bound]
  /\ Goto(p, "writing")
  /\ UNCHANGED <<sealed, written, temps, content>>

\* File::create: a file that has appeared since the check is truncated.
Create(p) ==
  /\ stage[p] = "checked" /\ p \notin sealed
  /\ bound' = IF bound = Absent THEN p ELSE bound
  /\ open' = [open EXCEPT ![p] = bound']
  /\ content' = [content EXCEPT ![bound'] = <<>>]
  /\ Goto(p, "writing")
  /\ UNCHANGED <<sealed, written, temps>>

\* Fault: the encrypted archive is created under its own name.
CreateTempInPlace(p) ==
  /\ stage[p] = "checked" /\ p \in sealed
  /\ open' = [open EXCEPT ![p] = p]
  /\ bound' = p /\ temps' = temps \union {p}
  /\ Goto(p, "writing")
  /\ UNCHANGED <<sealed, written, content>>

\* NamedTempFile::new_in
CreateTemp(p) ==
  /\ stage[p] = "checked" /\ p \in sealed
  /\ open' = [open EXCEPT ![p] = p]
  /\ temps' = temps \union {p}
  /\ Goto(p, "writing")
  /\ UNCHANGED <<sealed, written, content, bound>>

\* What s becomes when w writes at offset n; what lies between is a hole.
Overwrite(s, n, w) ==
  [i \in 1..(IF Len(s) > n THEN Len(s) ELSE n + 1) |->
     IF i = n + 1 THEN w ELSE IF i <= Len(s) THEN s[i] ELSE Hole]

WritePart(p) ==
  /\ stage[p] = "writing" /\ written[p] < Parts
  /\ content' = [content EXCEPT ![open[p]] = Overwrite(@, written[p], p)]
  /\ written' = [written EXCEPT ![p] = @ + 1]
  /\ UNCHANGED <<sealed, stage, open, bound, temps>>

\* A plain pack returns once its writer is flushed.
Finish(p) ==
  /\ stage[p] = "writing" /\ p \notin sealed /\ written[p] = Parts
  /\ Goto(p, "done")
  /\ UNCHANGED <<sealed, written, open, content, bound, temps>>

\* Fault: renamed before the last frame is flushed.
PersistEarly(p) ==
  /\ stage[p] = "writing" /\ p \in sealed /\ written[p] + 1 >= Parts
  /\ bound' = p /\ temps' = temps \ {p}
  /\ Goto(p, "done")
  /\ UNCHANGED <<sealed, written, open, content>>

\* NamedTempFile::persist renames, over a file that has appeared since.
Persist(p) ==
  /\ stage[p] = "writing" /\ p \in sealed /\ written[p] = Parts
  /\ bound' = p /\ temps' = temps \ {p}
  /\ Goto(p, "done")
  /\ UNCHANGED <<sealed, written, open, content>>

\* Any ? on the way.  A NamedTempFile is removed when it is dropped; the
\* output of a plain pack stays as it is.
Fail(p) ==
  /\ stage[p] \in {"checked", "writing"}
  /\ temps' = temps \ {p}
  /\ Goto(p, "failed")
  /\ UNCHANGED <<sealed, written, open, content, bound>>

\* The process dies and drops nothing.
Crash(p) ==
  /\ stage[p] \in {"checked", "writing"}
  /\ Goto(p, "dead")
  /\ UNCHANGED <<sealed, written, open, content, bound, temps>>

Next == \E p \in Process :
  \/ Refuse(p) \/ Check(p) \/ Create(p) \/ CreateTemp(p) \/ WritePart(p)
  \/ Finish(p) \/ Persist(p) \/ Fail(p) \/ Crash(p)

Spec == Init /\ [][Next]_vars

-----------------------------------------------------------------------------
Stages == {"start", "checked", "writing", "done", "failed", "dead"}

\* Every process is at a known stage, with an offset in its file, and every
\* part of every file has a writer or is a hole.
TypeOK ==
  /\ sealed \subseteq Process
  /\ stage \in [Process -> Stages]
  /\ written \in [Process -> 0..Parts]
  /\ open \in [Process -> File \union {Absent}]
  /\ content \in [File -> Seq(File \union {Hole})]
  /\ \A f \in File : Len(content[f]) <= Parts
  /\ bound \in File \union {Absent}
  /\ temps \subseteq sealed

\* Where all archives are encrypted, whatever else races, fails or dies, the
\* output name is bound to nothing or to one whole archive (persist after
\* finish, private.rs:87 and recipient_archive.rs:92).
PublishedWhole ==
  sealed = Process /\ bound # Absent => content[bound] = Whole(bound)

\* A temporary file belongs to a process that is writing it or has died:
\* none outlives a success or a reported failure.
NoStrayTemp == \A p \in temps : stage[p] \in {"writing", "dead"}

\* Parts of two archives never meet in one file, as long as at most one of
\* the processes packs a plain archive: it may truncate a file that was
\* published after its check, but what it then leaves is its own.
NeverMixed ==
  (\A p, q \in Process \ sealed : p = q) =>
    \A f \in File : \E w \in File : content[f] = SubSeq(Whole(w), 1, Len(content[f]))

\* Desktop README: existing archives are not silently overwritten.  A whole
\* archive at the output name stays there.
NotOverwritten ==
  [][bound # Absent /\ content[bound] = Whole(bound)
       => bound' = bound /\ content'[bound] = content[bound]]_vars
================================================================================
