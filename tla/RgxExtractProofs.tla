--------------------------- MODULE RgxExtractProofs ---------------------------
(***************************************************************************)
(* Extractions keep out of each other's trees, for every number of         *)
(* processes, files and names.                                             *)
(***************************************************************************)
EXTENDS RgxExtract, TLAPS

\* A tree belongs to the process that created it under its own output name,
\* and holds only what that process wrote; a process that writes or removes
\* has its tree.
MadeBy(n, p) ==
  /\ name[p] = n
  /\ stage[p] \in {"writing", "removing", "done", "left", "dead"}
  /\ stage[p] \in {"writing", "done"} =>
       \A f \in File : f \notin wanted[p] => trees[n].files[f] = NoFile
  /\ stage[p] = "done" => \A f \in wanted[p] : trees[n].files[f] = Full(p)

Ownership ==
  /\ TypeOK
  /\ \A p \in Process : stage[p] \in {"writing", "removing"} => At(p).maker = p
  /\ \A n \in Name, p \in Process : trees[n].maker = p => MadeBy(n, p)
  /\ OneWriter

\* The sentinels are nobody's process.
LEMMA Sentinels == \A p \in Process : p # Earlier /\ p # Nobody
BY ExtractAssumption

\* What is put at a name is a tree.
LEMMA TreeTypes ==
  /\ NoTree \in TreeType /\ EarlierTree \in TreeType
  /\ \A p \in Process : NewTree(p) \in TreeType /\ Part(p) \in FileType /\ Full(p) \in FileType
  /\ NoFile \in FileType
BY DEF NoTree, EarlierTree, NewTree, NoFile, Full, Part, TreeType, FileType

\* At first there is at most a tree of before.
LEMMA InitOwnership == Init => Ownership
<1> SUFFICES ASSUME Init PROVE Ownership
  OBVIOUS
<1> USE Sentinels, ExtractAssumption DEF Init, Name
<1>1. TypeOK
  BY TreeTypes DEF TypeOK, Stages
<1>2. \A n \in Name : trees[n].maker \notin Process
  BY DEF NoTree, EarlierTree, NewTree
<1>3. OneWriter
  BY DEF OneWriter, NoTree, EarlierTree, NewTree, NoFile, Full
<1> QED
  BY <1>1, <1>2, <1>3 DEF Ownership

\* A process that has no tree yet may go on to any stage without one.
LEMMA StageOnly ==
  ASSUME Ownership, NEW p \in Process, NEW s \in Stages,
         \A n \in Name : trees[n].maker # p,
         Goto(p, s), Still, Trees,
         s \notin {"writing", "removing"}
  PROVE  Ownership'
<1>1. TypeOK'
  BY DEF Ownership, TypeOK, Goto, Still, Trees
<1>2. \A q \in Process : q # p => stage'[q] = stage[q]
  BY DEF Ownership, TypeOK, Goto
<1>3. stage'[p] = s
  BY DEF Ownership, TypeOK, Goto
<1> QED
  BY <1>1, <1>2, <1>3 DEF Ownership, MadeBy, At, OneWriter, Still, Trees

\* A process that has its tree changes files of its own in it.
LEMMA FileOnly ==
  ASSUME Ownership, NEW p \in Process, NEW f \in File, NEW x \in FileType,
         NEW s \in {"writing", "removing"},
         stage[p] \in {"writing", "removing"},
         PutFile(p, f, x), Still,
         stage' = stage \/ Goto(p, s),
         x = NoFile \/ (x.by = p /\ f \in wanted[p]),
         stage'[p] = "writing" => stage[p] = "writing"
  PROVE  Ownership'
<1>0. /\ name[p] \in Name /\ trees[name[p]] \in TreeType /\ trees[name[p]].maker = p
      /\ DOMAIN trees = Name
  BY DEF Ownership, TypeOK, At
<1>1. /\ \A n \in Name : n # name[p] => trees'[n] = trees[n]
      /\ trees'[name[p]].maker = p
      /\ trees'[name[p]].files = [trees[name[p]].files EXCEPT ![f] = x]
      /\ trees'[name[p]] \in TreeType
      /\ trees' \in [Name -> TreeType]
  BY <1>0 DEF PutFile, TreeType, Ownership, TypeOK
<1>2. /\ \A q \in Process : q # p => stage'[q] = stage[q]
      /\ stage'[p] \in {"writing", "removing"}
      /\ stage' \in [Process -> Stages]
  BY DEF Goto, Ownership, TypeOK, Stages
<1>3. TypeOK'
  BY <1>1, <1>2 DEF Ownership, TypeOK, Still
<1>4. \A q \in Process : stage'[q] \in {"writing", "removing"} => At(q)'.maker = q
  BY <1>0, <1>1, <1>2 DEF Ownership, At, Still, TypeOK
<1>5. \A g \in File : trees'[name[p]].files[g] = IF g = f THEN x ELSE trees[name[p]].files[g]
  BY <1>0, <1>1 DEF TreeType
<1>6. ASSUME NEW n \in Name, NEW q \in Process, trees'[n].maker = q
      PROVE  MadeBy(n, q)'
  <2>1. trees[n].maker = q /\ MadeBy(n, q)
    BY <1>0, <1>1, <1>6 DEF Ownership
  <2>2. CASE n = name[p]
    <3>1. q = p
      BY <1>0, <2>1, <2>2
    <3> QED
      BY <1>0, <1>2, <1>5, <2>1, <2>2, <3>1 DEF MadeBy, Still
  <2>3. CASE n # name[p]
    <3>1. q # p
      BY <2>1, <2>3 DEF MadeBy
    <3> QED
      BY <1>1, <1>2, <2>1, <2>3, <3>1 DEF MadeBy, Still
  <2> QED
    BY <2>2, <2>3
<1>7. ASSUME NEW n \in Name, NEW g \in File, trees'[n].files[g] # NoFile
      PROVE  trees'[n].files[g].by = trees'[n].maker
  <2>1. trees[n].files[g] # NoFile => trees[n].files[g].by = trees[n].maker
    BY DEF Ownership, OneWriter
  <2>2. CASE n = name[p]
    BY <1>0, <1>1, <1>5, <1>7, <2>1, <2>2
  <2>3. CASE n # name[p]
    BY <1>1, <1>7, <2>1, <2>3
  <2> QED
    BY <2>2, <2>3
<1>8. OneWriter'
  BY <1>7 DEF OneWriter
<1> QED
  BY <1>3, <1>4, <1>6, <1>8 DEF Ownership

\* A tree goes as a whole, and no process that has a use for it is left.
LEMMA TreeGone ==
  ASSUME Ownership, NEW n \in Name,
         trees' = [trees EXCEPT ![n] = NoTree], Still,
         stage' \in [Process -> Stages],
         \A p \in Process : trees[n].maker # p => stage'[p] = stage[p],
         \A p \in Process : trees[n].maker = p => stage'[p] \notin {"writing", "removing"}
  PROVE  Ownership'
<1>1. /\ trees'[n] = NoTree /\ \A m \in Name : m # n => trees'[m] = trees[m]
      /\ trees' \in [Name -> TreeType]
  BY TreeTypes DEF Ownership, TypeOK
<1>2. TypeOK'
  BY <1>1 DEF Ownership, TypeOK, Still
<1>3. ASSUME NEW p \in Process, stage'[p] \in {"writing", "removing"}
      PROVE  At(p)'.maker = p
  <2>1. trees[n].maker # p /\ stage[p] \in {"writing", "removing"}
    BY <1>3
  <2>2. name[p] # n /\ name[p] \in Name /\ At(p).maker = p
    BY <2>1 DEF Ownership, TypeOK, At
  <2> QED
    BY <1>1, <2>2 DEF At, Still
<1>4. ASSUME NEW m \in Name, NEW p \in Process, trees'[m].maker = p
      PROVE  MadeBy(m, p)'
  <2>1. m # n
    BY <1>1, <1>4, Sentinels DEF NoTree, NewTree
  <2>2. MadeBy(m, p)
    BY <1>1, <1>4, <2>1 DEF Ownership
  <2>3. trees[n].maker # p
    BY <2>1, <2>2 DEF Ownership, MadeBy
  <2> QED
    BY <1>1, <2>1, <2>2, <2>3 DEF MadeBy, Still
<1>5. OneWriter'
  BY <1>1 DEF Ownership, OneWriter, NoTree, NewTree
<1> QED
  BY <1>2, <1>3, <1>4, <1>5 DEF Ownership

\* What a process is about to claim is nobody's.
LEMMA Homeless ==
  ASSUME Ownership, NEW p \in Process,
         stage[p] \notin {"writing", "removing", "done", "left", "dead"}
  PROVE  \A n \in Name : trees[n].maker # p
BY DEF Ownership, MadeBy

\* Every step keeps trees apart.
LEMMA NextOwnership == Ownership /\ [Next]_vars => Ownership'
<1> SUFFICES ASSUME Ownership, [Next]_vars PROVE Ownership'
  OBVIOUS
<1>1. CASE UNCHANGED vars
  BY <1>1 DEF vars, Ownership, TypeOK, MadeBy, OneWriter, At
<1>2. ASSUME NEW p \in Process,
             TakeName(p) \/ Check(p) \/ Refuse(p) \/ CreateDirFails(p)
      PROVE  Ownership'
  <2>1. \A n \in Name : trees[n].maker # p
    BY <1>2, Homeless DEF TakeName, Check, Refuse, CreateDirFails
  <2> QED
    BY <1>2, <2>1, StageOnly DEF TakeName, Check, Refuse, CreateDirFails, Stages
<1>3. ASSUME NEW p \in Process, NextName(p) PROVE Ownership'
  <2>1. \A n \in Name : trees[n].maker # p
    BY <1>3, Homeless DEF NextName
  <2>2. TypeOK'
    BY <1>3, ExtractAssumption DEF Ownership, TypeOK, NextName, Name
  <2>3. \A q \in Process : q # p => name'[q] = name[q]
    BY <1>3 DEF Ownership, TypeOK, NextName
  <2> QED
    BY <1>3, <2>1, <2>2, <2>3 DEF Ownership, MadeBy, At, OneWriter, NextName
<1>4. ASSUME NEW p \in Process, CreateDir(p) PROVE Ownership'
  <2>0. /\ name[p] \in Name /\ \A n \in Name : trees[n].maker # p
        /\ trees[name[p]].maker = Nobody
    BY <1>4, Homeless DEF CreateDir, Exists, Ownership, TypeOK
  <2>1. /\ trees'[name[p]] = NewTree(p)
        /\ \A n \in Name : n # name[p] => trees'[n] = trees[n]
        /\ trees' \in [Name -> TreeType]
    BY <1>4, <2>0, TreeTypes DEF CreateDir, PutTree, Ownership, TypeOK
  <2>2. /\ stage'[p] = "writing" /\ stage' \in [Process -> Stages]
        /\ \A q \in Process : q # p => stage'[q] = stage[q]
    BY <1>4 DEF CreateDir, Goto, Ownership, TypeOK, Stages
  <2>3. TypeOK'
    BY <1>4, <2>1, <2>2 DEF CreateDir, Ownership, TypeOK, Still
  <2>4. ASSUME NEW q \in Process, stage'[q] \in {"writing", "removing"}
        PROVE  At(q)'.maker = q
    <3>1. CASE q = p
      BY <1>4, <2>1, <3>1 DEF CreateDir, At, Still, NewTree
    <3>2. CASE q # p
      <4>1. At(q).maker = q /\ name[q] \in Name
        BY <2>2, <2>4, <3>2 DEF Ownership, TypeOK
      <4>2. name[q] # name[p]
        BY <2>0, <4>1, Sentinels DEF At
      <4> QED
        BY <1>4, <2>1, <4>1, <4>2 DEF CreateDir, At, Still
    <3> QED
      BY <3>1, <3>2
  <2>5. ASSUME NEW n \in Name, NEW q \in Process, trees'[n].maker = q
        PROVE  MadeBy(n, q)'
    <3>1. CASE n = name[p]
      BY <1>4, <2>1, <2>2, <2>5, <3>1 DEF CreateDir, MadeBy, NewTree, Still
    <3>2. CASE n # name[p]
      BY <1>4, <2>0, <2>1, <2>2, <2>5, <3>2 DEF CreateDir, Ownership, MadeBy, Still
    <3> QED
      BY <3>1, <3>2
  <2>6. OneWriter'
    BY <2>1 DEF Ownership, OneWriter, NewTree
  <2> QED
    BY <2>3, <2>4, <2>5, <2>6 DEF Ownership
<1>5. ASSUME NEW p \in Process, NEW f \in File,
             CreateFile(p, f) \/ WriteFile(p, f) \/ RemoveFile(p, f)
      PROVE  Ownership'
  <2>1. CASE CreateFile(p, f)
    BY <2>1, FileOnly, TreeTypes DEF CreateFile, Part
  <2>2. CASE WriteFile(p, f)
    <3>1. f \in wanted[p]
      <4>1. At(p).files[f] = Part(p) /\ stage[p] = "writing"
        BY <2>2 DEF WriteFile, Begun
      <4>2. MadeBy(name[p], p)
        BY <4>1 DEF Ownership, At, TypeOK
      <4> QED
        BY <4>1, <4>2, Sentinels DEF MadeBy, At, Part, NoFile
    <3> QED
      BY <2>2, <3>1, FileOnly, TreeTypes DEF WriteFile, Full
  <2>3. CASE RemoveFile(p, f)
    BY <2>3, FileOnly, TreeTypes DEF RemoveFile
  <2> QED
    BY <1>5, <2>1, <2>2, <2>3
<1>6. ASSUME NEW p \in Process, WriteFails(p) PROVE Ownership'
  <2>1. CASE \E f \in Begun(p) : PutFile(p, f, NoFile)
    BY <1>6, <2>1, FileOnly, TreeTypes DEF WriteFails, Begun
  <2>2. CASE Trees
    BY <1>6, <2>2 DEF WriteFails, Trees, Still, Goto, Ownership, TypeOK, Stages,
                      MadeBy, OneWriter, At
  <2> QED
    BY <1>6, <2>1, <2>2 DEF WriteFails
<1>7. ASSUME NEW p \in Process, Succeed(p) PROVE Ownership'
  <2>1. MadeBy(name[p], p) /\ At(p).maker = p /\ name[p] \in Name
    BY <1>7 DEF Succeed, Ownership, At, TypeOK
  <2>2. ASSUME NEW f \in wanted[p] PROVE trees[name[p]].files[f] = Full(p)
    <3>1. f \in File /\ trees[name[p]] \in TreeType
      BY <2>1 DEF Ownership, TypeOK
    <3>2. trees[name[p]].files[f] \in FileType /\ trees[name[p]].files[f].whole
      BY <1>7, <3>1 DEF Succeed, At, TreeType
    <3>3. trees[name[p]].files[f] # NoFile
      BY <3>2 DEF NoFile
    <3>4. trees[name[p]].files[f].by = p
      BY <2>1, <3>1, <3>3 DEF Ownership, OneWriter, At
    <3> QED
      BY <3>2, <3>4 DEF FileType, Full
  <2>3. /\ stage'[p] = "done" /\ stage' \in [Process -> Stages]
        /\ \A q \in Process : q # p => stage'[q] = stage[q]
    BY <1>7 DEF Succeed, Goto, Ownership, TypeOK, Stages
  <2>4. ASSUME NEW n \in Name, NEW q \in Process, trees'[n].maker = q
        PROVE  MadeBy(n, q)'
    <3>1. MadeBy(n, q)
      BY <1>7, <2>4 DEF Succeed, Trees, Ownership
    <3> QED
      BY <1>7, <2>1, <2>2, <2>3, <3>1 DEF Succeed, Trees, Still, MadeBy
  <2> QED
    BY <1>7, <2>3, <2>4 DEF Succeed, Trees, Still, Ownership, TypeOK, OneWriter, At
<1>8. ASSUME NEW p \in Process, RemoveStops(p) \/ Crash(p) PROVE Ownership'
  <2>1. \E s \in {"left", "dead"} : Goto(p, s) /\ Still /\ Trees
    BY <1>8 DEF RemoveStops, Crash
  <2>2. \A q \in Process : q # p => stage'[q] = stage[q]
    BY <2>1 DEF Goto, Ownership, TypeOK
  <2>3. stage'[p] \in {"left", "dead"} /\ stage' \in [Process -> Stages]
    BY <2>1 DEF Goto, Ownership, TypeOK, Stages
  <2> QED
    BY <2>1, <2>2, <2>3 DEF Still, Trees, Ownership, TypeOK, MadeBy, OneWriter, At
<1>9. ASSUME NEW p \in Process, RemoveDir(p) PROVE Ownership'
  <2>1. name[p] \in Name /\ trees[name[p]].maker = p
    BY <1>9 DEF RemoveDir, Ownership, TypeOK, At
  <2>2. /\ stage'[p] = "failed" /\ stage' \in [Process -> Stages]
        /\ \A q \in Process : q # p => stage'[q] = stage[q]
    BY <1>9 DEF RemoveDir, Goto, Ownership, TypeOK, Stages
  <2> QED
    BY <1>9, <2>1, <2>2, TreeGone DEF RemoveDir, PutTree
<1>10. ASSUME NEW n \in Name, UserRemoves(n) PROVE Ownership'
  BY <1>10, TreeGone DEF UserRemoves, InProgress, Ownership, TypeOK
<1> QED
  BY <1>1, <1>2, <1>3, <1>4, <1>5, <1>6, <1>7, <1>8, <1>9, <1>10 DEF Next, Step

\* For any number of processes, files and names, the state of extraction
\* keeps its types.
THEOREM ExtractTypeOK == Spec => []TypeOK
<1>1. Ownership => TypeOK
  BY DEF Ownership
<1> QED
  BY <1>1, InitOwnership, NextOwnership, PTL DEF Spec

\* Whoever else races for a name, fails or dies: no tree holds a file of two
\* extractions.
THEOREM ExtractOneWriter == Spec => []OneWriter
<1>1. Ownership => OneWriter
  BY DEF Ownership
<1> QED
  BY <1>1, InitOwnership, NextOwnership, PTL DEF Spec

\* What an extraction reported is all there, and nothing else.
THEOREM ExtractSuccessIsComplete == Spec => []SuccessIsComplete
<1>1. Ownership => SuccessIsComplete
  BY DEF Ownership, SuccessIsComplete, MadeBy
<1> QED
  BY <1>1, InitOwnership, NextOwnership, PTL DEF Spec

\* An extraction that reported failure, and could clean up, left nothing.
THEOREM ExtractFailureLeavesNothing == Spec => []FailureLeavesNothing
<1>1. Ownership => FailureLeavesNothing
  BY DEF Ownership, FailureLeavesNothing, MadeBy
<1> QED
  BY <1>1, InitOwnership, NextOwnership, PTL DEF Spec

\* Only the tree of a process at work changes, or one its owner removes.
LEMMA SettledUntouched ==
  ASSUME Ownership, [Next]_vars,
         NEW n \in Name, Settled(n), ~UserRemoves(n)
  PROVE  trees'[n] = trees[n]
<1> USE Sentinels, ExtractAssumption
<1>1. \A p \in Process : stage[p] \in {"writing", "removing"} => name[p] # n
  BY DEF Ownership, At, Settled
<1>2. DOMAIN trees = Name
  BY DEF Ownership, TypeOK
<1>3. CASE UNCHANGED vars
  BY <1>3 DEF vars
<1>4. ASSUME NEW p \in Process,
             TakeName(p) \/ NextName(p) \/ Check(p) \/ Refuse(p) \/ CreateDirFails(p)
               \/ Succeed(p) \/ RemoveStops(p) \/ Crash(p)
      PROVE  trees' = trees
  BY <1>4 DEF TakeName, NextName, Check, Refuse, CreateDirFails, Succeed, RemoveStops, Crash, Trees
<1>5. ASSUME NEW p \in Process, CreateDir(p) PROVE trees'[n] = trees[n]
  <2>1. name[p] # n
    BY <1>5 DEF CreateDir, Exists, Settled
  <2> QED
    BY <1>2, <1>5, <2>1 DEF CreateDir, PutTree
<1>6. ASSUME NEW p \in Process, NEW f \in File,
             CreateFile(p, f) \/ WriteFile(p, f) \/ RemoveFile(p, f)
      PROVE  trees'[n] = trees[n]
  BY <1>1, <1>2, <1>6 DEF CreateFile, WriteFile, RemoveFile, PutFile
<1>7. ASSUME NEW p \in Process, WriteFails(p) \/ RemoveDir(p) PROVE trees'[n] = trees[n]
  BY <1>1, <1>2, <1>7 DEF WriteFails, RemoveDir, PutFile, PutTree, Trees
<1>8. ASSUME NEW m \in Name, UserRemoves(m) PROVE trees'[n] = trees[n]
  <2>1. m # n
    BY <1>8
  <2> QED
    BY <1>2, <1>8, <2>1 DEF UserRemoves
<1> QED
  BY <1>3, <1>4, <1>5, <1>6, <1>7, <1>8 DEF Next, Step

\* Nobody but its owner changes or removes a finished tree, nor one that was
\* there before.
THEOREM ExtractFinishedStays == Spec => FinishedStays
<1>1. Ownership /\ [Next]_vars =>
        [\A n \in Name : Settled(n) /\ ~UserRemoves(n) => trees'[n] = trees[n]]_vars
  BY SettledUntouched
<1> QED
  BY <1>1, InitOwnership, NextOwnership, PTL DEF Spec, FinishedStays
================================================================================
