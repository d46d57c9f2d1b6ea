---------------------------- MODULE RgxOutputProofs ----------------------------
(***************************************************************************)
(* Encrypted archives are published whole, temporary files are removed and *)
(* archives are not mixed, for every number of processes and of parts; and *)
(* what signers sign and the verifier accepts meanwhile (RgxSignature) is  *)
(* one archive, signed by the identity that is named.                      *)
(***************************************************************************)
EXTENDS RgxSignature, TLAPS

\* What a process has written of its own archive.
Partial(p) == [i \in 1..written[p] |-> p]

\* A temporary file holds exactly what its process has written so far; it is
\* bound to the output name only when it is whole.
Own(p) ==
  /\ stage[p] \in Stages
  /\ written[p] \in 0..Parts
  /\ stage[p] \in {"start", "checked"} => written[p] = 0 /\ content[p] = <<>>
  /\ stage[p] \in {"writing", "done"} => open[p] = p /\ content[p] = Partial(p)
  /\ stage[p] = "done" => written[p] = Parts
  /\ bound = p => stage[p] = "done"

Publication ==
  /\ sealed = Process
  /\ DOMAIN stage = Process /\ DOMAIN written = Process
  /\ DOMAIN open = Process /\ DOMAIN content = File
  /\ bound \in File \union {Absent}
  /\ content[Earlier] = Whole(Earlier)
  /\ \A p \in Process : Own(p)

\* One more part at the end of a partial archive.
LEMMA OverwriteAtEnd ==
  ASSUME NEW w, NEW n \in Nat
  PROVE  Overwrite([i \in 1..n |-> w], n, w) = [i \in 1..(n + 1) |-> w]
<1> DEFINE s == [i \in 1..n |-> w]
<1>1. Len(s) = n
  BY DEF s
<1>2. DOMAIN s = 1..n /\ \A i \in 1..n : s[i] = w
  OBVIOUS
<1> HIDE DEF s
<1>3. Overwrite(s, n, w) = [i \in 1..(n + 1) |-> w]
  BY <1>1, <1>2 DEF Overwrite
<1> QED
  BY <1>3 DEF s

\* The strengthened invariant holds at first: nobody has written anything.
LEMMA InitPublication == Init /\ sealed = Process => Publication
<1> SUFFICES ASSUME Init, sealed = Process PROVE Publication
  OBVIOUS
<1>1. ASSUME NEW p \in Process PROVE Own(p)
  <2>1. /\ stage[p] = "start" /\ written[p] = 0 /\ content[p] = <<>> /\ bound # p
    BY OutputAssumption DEF Init, File
  <2> QED
    BY <2>1, OutputAssumption DEF Own, Stages
<1> QED
  BY <1>1, OutputAssumption DEF Init, Publication, File, Whole

\* Every step keeps it when no archive is plain: a process touches only the
\* file it created.
LEMMA NextPublication ==
  ASSUME Publication, [Next]_vars
  PROVE  Publication'
<1> USE OutputAssumption
<1>0. \A p \in Process : p \in File /\ p # Earlier /\ p # Absent
  BY DEF File
<1>1. CASE UNCHANGED vars
  BY <1>1 DEF vars, Publication, Own, Partial
<1>2. ASSUME NEW p \in Process, Refuse(p) \/ Check(p) \/ Fail(p) \/ Crash(p)
      PROVE  Publication'
  <2>1. \A q \in Process : Own(q)'
    BY <1>2 DEF Publication, Own, Partial, Stages, Refuse, Check, Fail, Crash, Goto
  <2> QED
    BY <1>2, <2>1 DEF Publication, Refuse, Check, Fail, Crash, Goto
<1>3. ASSUME NEW p \in Process, Create(p) \/ Finish(p)
      PROVE  Publication'
  BY <1>3 DEF Publication, Create, Finish
<1>4. ASSUME NEW p \in Process, CreateTemp(p)
      PROVE  Publication'
  <2>1. Own(p)'
    <3>1. /\ stage'[p] = "writing" /\ open'[p] = p /\ written'[p] = 0
          /\ content'[p] = <<>> /\ bound' # p
      BY <1>4 DEF Publication, Own, CreateTemp, Goto
    <3>2. [i \in 1..0 |-> p] = <<>>
      OBVIOUS
    <3> QED
      BY <3>1, <3>2 DEF Own, Stages, Partial
  <2>2. ASSUME NEW q \in Process, q # p PROVE Own(q)'
    BY <1>4, <2>2 DEF Publication, Own, Partial, CreateTemp, Goto
  <2> QED
    BY <1>4, <2>1, <2>2 DEF Publication, CreateTemp, Goto
<1>5. ASSUME NEW p \in Process, WritePart(p)
      PROVE  Publication'
  <2>1. /\ open[p] = p /\ content[p] = Partial(p)
        /\ written[p] \in 0..Parts /\ written[p] < Parts
    BY <1>5 DEF Publication, Own, WritePart
  <2>2. written'[p] = written[p] + 1 /\ content'[p] = Overwrite(content[p], written[p], p)
    BY <1>5, <2>1, <1>0 DEF Publication, WritePart
  <2>3. content'[p] = Partial(p)'
    BY <2>1, <2>2, OverwriteAtEnd DEF Partial
  <2>4. Own(p)'
    BY <1>5, <2>1, <2>2, <2>3 DEF Publication, Own, WritePart
  <2>5. ASSUME NEW q \in Process, q # p PROVE Own(q)'
    BY <1>5, <2>1, <2>5, <1>0 DEF Publication, Own, Partial, WritePart
  <2> QED
    BY <1>5, <2>1, <2>4, <2>5, <1>0 DEF Publication, WritePart
<1>6. ASSUME NEW p \in Process, Persist(p)
      PROVE  Publication'
  <2>1. \A q \in Process : Own(q)'
    BY <1>6 DEF Publication, Own, Partial, Stages, Persist, Goto
  <2> QED
    BY <1>6, <2>1, <1>0 DEF Publication, Persist, Goto
<1> QED
  BY <1>1, <1>2, <1>3, <1>4, <1>5, <1>6 DEF Next

\* What the name is bound to is whole.
LEMMA PublicationWhole == Publication => PublishedWhole
<1> SUFFICES ASSUME Publication, bound # Absent
             PROVE  content[bound] = Whole(bound)
  BY DEF PublishedWhole
<1>1. CASE bound = Earlier
  BY <1>1 DEF Publication
<1>2. CASE bound \in Process
  BY <1>2 DEF Publication, Own, Partial, Whole
<1> QED
  BY <1>1, <1>2 DEF Publication, File

\* Where some archive is plain nothing is claimed, and the processes that
\* pack encrypted archives stay the same.
LEMMA Constant == [Next]_vars => sealed' = sealed
BY DEF Next, vars, Refuse, Check, Create, CreateTemp, WritePart, Finish, Persist, Fail, Crash

\* Among any number of processes that pack encrypted archives to one name,
\* of any length, with failures and crashes at any point, the name is bound
\* to nothing or to one whole archive.
THEOREM OutputPublishedWhole == Spec => []PublishedWhole
<1> DEFINE Inv == sealed = Process => Publication
<1>1. Init => Inv
  BY InitPublication
<1>2. Inv /\ [Next]_vars => Inv'
  BY NextPublication, Constant
<1>3. Inv => PublishedWhole
  BY PublicationWhole DEF PublishedWhole
<1> HIDE DEF Inv
<1> QED
  BY <1>1, <1>2, <1>3, PTL DEF Spec
-----------------------------------------------------------------------------
\* A process that writes has a file open.
Typed == TypeOK /\ \A p \in Process : stage[p] = "writing" => open[p] \in File

\* A part written within the length of an archive stays within it.
LEMMA OverwriteType ==
  ASSUME NEW s \in Seq(File \union {Hole}), Len(s) <= Parts, NEW n \in Nat, n < Parts, NEW w \in File
  PROVE  /\ Overwrite(s, n, w) \in Seq(File \union {Hole})
         /\ Len(Overwrite(s, n, w)) <= Parts
<1> DEFINE size == IF Len(s) > n THEN Len(s) ELSE n + 1
<1>1. size \in Nat /\ size <= Parts
  BY OutputAssumption
<1>2. \A i \in 1..size : (IF i = n + 1 THEN w ELSE IF i <= Len(s) THEN s[i] ELSE Hole) \in File \union {Hole}
  OBVIOUS
<1>3. Overwrite(s, n, w) = [i \in 1..size |-> IF i = n + 1 THEN w ELSE IF i <= Len(s) THEN s[i] ELSE Hole]
  BY DEF Overwrite
<1> HIDE DEF size
<1> QED
  BY <1>1, <1>2, <1>3

LEMMA InitTyped == Init => Typed
<1> SUFFICES ASSUME Init PROVE Typed
  OBVIOUS
<1>1. content \in [File -> Seq(File \union {Hole})] /\ \A f \in File : Len(content[f]) <= Parts
  <2>1. Whole(Earlier) \in Seq(File \union {Hole}) /\ Len(Whole(Earlier)) = Parts
    BY OutputAssumption DEF Whole, File
  <2>2. <<>> \in Seq(File \union {Hole}) /\ Len(<<>>) = 0
    OBVIOUS
  <2> QED
    BY <2>1, <2>2, OutputAssumption DEF Init
<1>2. /\ stage \in [Process -> Stages] /\ \A p \in Process : stage[p] # "writing"
      /\ written \in [Process -> 0..Parts] /\ open \in [Process -> File \union {Absent}]
  BY OutputAssumption DEF Init, Stages
<1>3. sealed \subseteq Process /\ bound \in File \union {Absent} /\ temps \subseteq sealed
  BY DEF Init, File
<1> QED
  BY <1>1, <1>2, <1>3 DEF Typed, TypeOK

LEMMA NextTyped == Typed /\ [Next]_vars => Typed'
<1> SUFFICES ASSUME Typed, [Next]_vars PROVE Typed'
  OBVIOUS
<1> USE OutputAssumption DEF Typed, TypeOK
<1>0. \A p \in Process : p \in File
  BY DEF File
<1>1. CASE UNCHANGED vars
  BY <1>1 DEF vars
<1>2. ASSUME NEW p \in Process, Refuse(p) \/ Check(p) \/ Fail(p) \/ Crash(p) \/ Finish(p)
      PROVE  Typed'
  BY <1>2 DEF Refuse, Check, Fail, Crash, Finish, Goto, Stages
<1>3. ASSUME NEW p \in Process, Create(p)
      PROVE  Typed'
  <2>1. bound' \in File
    BY <1>0, <1>3 DEF Create
  <2>2. content' = [content EXCEPT ![bound'] = <<>>]
    BY <1>3 DEF Create
  <2>3. content' \in [File -> Seq(File \union {Hole})] /\ \A f \in File : Len(content'[f]) <= Parts
    BY <2>1, <2>2
  <2> QED
    BY <1>3, <2>1, <2>3 DEF Create, Goto, Stages
<1>4. ASSUME NEW p \in Process, CreateTemp(p)
      PROVE  Typed'
  BY <1>0, <1>4 DEF CreateTemp, Goto, Stages
<1>5. ASSUME NEW p \in Process, WritePart(p)
      PROVE  Typed'
  <2>1. open[p] \in File /\ written[p] \in Nat /\ written[p] < Parts
    BY <1>5 DEF WritePart
  <2>2. content' = [content EXCEPT ![open[p]] = Overwrite(content[open[p]], written[p], p)]
    BY <1>5 DEF WritePart
  <2>3. /\ Overwrite(content[open[p]], written[p], p) \in Seq(File \union {Hole})
        /\ Len(Overwrite(content[open[p]], written[p], p)) <= Parts
    BY <1>0, <2>1, OverwriteType
  <2>4. content' \in [File -> Seq(File \union {Hole})] /\ \A f \in File : Len(content'[f]) <= Parts
    BY <2>1, <2>2, <2>3
  <2>5. written' \in [Process -> 0..Parts]
    BY <1>5, <2>1 DEF WritePart
  <2> QED
    BY <1>5, <2>4, <2>5 DEF WritePart
<1>6. ASSUME NEW p \in Process, Persist(p)
      PROVE  Typed'
  BY <1>0, <1>6 DEF Persist, Goto, Stages
<1> QED
  BY <1>1, <1>2, <1>3, <1>4, <1>5, <1>6 DEF Next

\* For any processes and parts, the state of publication keeps its types.
THEOREM OutputTypeOK == Spec => []TypeOK
<1>1. Typed => TypeOK
  BY DEF Typed
<1> QED
  BY <1>1, InitTyped, NextTyped, PTL DEF Spec

\* Whoever is not writing and has not died has removed its temporary file
\* (NamedTempFile is dropped, or persisted, on every way out).
THEOREM OutputNoStrayTemp == Spec => []NoStrayTemp
<1>1. Init => NoStrayTemp
  BY DEF Init, NoStrayTemp
<1>2. Typed /\ NoStrayTemp /\ [Next]_vars => NoStrayTemp'
  <2> SUFFICES ASSUME Typed, NoStrayTemp, [Next]_vars PROVE NoStrayTemp'
    OBVIOUS
  <2> USE DEF Typed, TypeOK, NoStrayTemp
  <2>1. CASE UNCHANGED vars
    BY <2>1 DEF vars
  <2>2. ASSUME NEW p \in Process, Refuse(p) \/ Check(p) \/ Create(p) \/ Finish(p)
        PROVE  NoStrayTemp'
    <3>1. p \notin temps /\ temps' = temps /\ \A q \in Process \ {p} : stage'[q] = stage[q]
      BY <2>2 DEF Refuse, Check, Create, Finish, Goto
    <3> QED
      BY <3>1
  <2>3. ASSUME NEW p \in Process, CreateTemp(p) \/ Persist(p) \/ Fail(p) \/ Crash(p)
        PROVE  NoStrayTemp'
    BY <2>3 DEF CreateTemp, Persist, Fail, Crash, Goto
  <2>4. ASSUME NEW p \in Process, WritePart(p)
        PROVE  NoStrayTemp'
    BY <2>4 DEF WritePart
  <2> QED
    BY <2>1, <2>2, <2>3, <2>4 DEF Next
<1> QED
  BY <1>1, <1>2, InitTyped, NextTyped, PTL DEF Spec

-----------------------------------------------------------------------------
\* At most one process packs a plain archive.
OnePlain == \A p, q \in Process \ sealed : p = q

\* The first n parts of an archive by w.
FirstParts(w, n) == [i \in 1..n |-> w]

\* A process that writes has the file to itself: its own temporary file, or
\* one that nobody else writes to any more; each file has one writer's parts.
Separate(p) ==
  /\ stage[p] \in {"start", "checked"} => written[p] = 0 /\ content[p] = <<>>
  /\ stage[p] = "writing" => content[open[p]] = FirstParts(p, written[p])
  /\ p \in sealed /\ stage[p] = "writing" => open[p] = p
  /\ p \in sealed /\ bound = p => stage[p] = "done"
  /\ p \notin sealed /\ stage[p] = "writing" =>
       \/ open[p] \in {p, Earlier}
       \/ open[p] \in sealed /\ stage[open[p]] = "done"

Unmixed ==
  /\ Typed
  /\ \A f \in File : \E w \in File, n \in 0..Parts : content[f] = FirstParts(w, n)
  /\ \A p \in Process : Separate(p)

LEMMA InitUnmixed == Init => Unmixed
<1> SUFFICES ASSUME Init PROVE Unmixed
  OBVIOUS
<1> USE OutputAssumption
<1>1. <<>> = FirstParts(Earlier, 0) /\ Whole(Earlier) = FirstParts(Earlier, Parts)
  BY DEF FirstParts, Whole
<1>2. \A f \in File : \E w \in File, n \in 0..Parts : content[f] = FirstParts(w, n)
  BY <1>1 DEF Init, File
<1>3. ASSUME NEW p \in Process PROVE Separate(p)
  BY DEF Init, Separate, File
<1> QED
  BY <1>2, <1>3, InitTyped DEF Unmixed

LEMMA NextUnmixed ==
  ASSUME Unmixed, OnePlain, [Next]_vars
  PROVE  Unmixed'
<1> USE OutputAssumption
<1>0. \A p \in Process : p \in File /\ p # Earlier /\ p # Absent
  BY DEF File
<1>t. Typed /\ Typed'
  BY NextTyped DEF Unmixed
<1>e. <<>> = FirstParts(Earlier, 0) /\ \A p : <<>> = FirstParts(p, 0)
  BY DEF FirstParts
<1> USE DEF Unmixed
<1>1. CASE UNCHANGED vars
  <2>1. \A p \in Process : Separate(p)'
    BY <1>1 DEF vars, Separate, FirstParts
  <2> QED
    BY <1>1, <1>t, <2>1 DEF vars, FirstParts
<1>2. ASSUME NEW p \in Process, Refuse(p) \/ Check(p) \/ Fail(p) \/ Crash(p) \/ Finish(p)
      PROVE  Unmixed'
  <2>1. /\ UNCHANGED <<sealed, written, open, content, bound>>
        /\ stage'[p] # "writing" /\ stage[p] # "done"
        /\ stage'[p] \in {"start", "checked"} => stage[p] \in {"start", "checked"}
        /\ p \in sealed => stage'[p] # "done"
        /\ \A q \in Process : q # p => stage'[q] = stage[q]
    BY <1>2, <1>t DEF Typed, TypeOK, Refuse, Check, Fail, Crash, Finish, Goto
  <2>2. ASSUME NEW q \in Process PROVE Separate(q)'
    BY <2>1, <1>t DEF Separate, FirstParts, Typed, TypeOK
  <2> QED
    BY <1>t, <2>1, <2>2
<1>3. ASSUME NEW p \in Process, Create(p)
      PROVE  Unmixed'
  <2>1. /\ p \notin sealed /\ stage[p] = "checked" /\ stage'[p] = "writing"
        /\ bound' = (IF bound = Absent THEN p ELSE bound) /\ bound' \in File
        /\ open'[p] = bound' /\ content' = [content EXCEPT ![bound'] = <<>>]
        /\ sealed' = sealed /\ written' = written
        /\ \A q \in Process : q # p => stage'[q] = stage[q] /\ open'[q] = open[q]
    BY <1>0, <1>3, <1>t DEF Typed, TypeOK, Create, Goto
  <2>2. content'[bound'] = <<>> /\ \A f \in File : f # bound' => content'[f] = content[f]
    BY <2>1, <1>t DEF Typed, TypeOK
  <2>3. \A f \in File : \E w \in File, n \in 0..Parts : content'[f] = FirstParts(w, n)
    BY <1>e, <2>2 DEF File
  <2>4. Separate(p)'
    <3>1. written[p] = 0
      BY <2>1 DEF Separate
    <3>2. bound' \in {p, Earlier} \/ (bound' \in sealed /\ stage'[bound'] = "done")
      BY <2>1, <1>0 DEF OnePlain, Separate, File
    <3> QED
      BY <1>e, <2>1, <2>2, <3>1, <3>2 DEF Separate, FirstParts
  <2>5. ASSUME NEW q \in Process, q # p PROVE Separate(q)'
    <3>1. q \in sealed
      BY <2>1, <2>5 DEF OnePlain
    <3>2. stage[q] = "writing" => open[q] = q /\ bound' # q
      BY <2>1, <2>5, <3>1 DEF Separate
    <3>3. stage[q] = "writing" => content'[open[q]] = content[open[q]]
      BY <1>0, <2>2, <3>2
    <3>4. content'[q] = content[q] \/ content'[q] = <<>>
      BY <1>0, <2>2
    <3>5. bound' = q => bound = q
      BY <2>1, <2>5
    <3> QED
      BY <2>1, <2>5, <3>1, <3>2, <3>3, <3>4, <3>5 DEF Separate, FirstParts
  <2> QED
    BY <1>t, <2>3, <2>4, <2>5
<1>4. ASSUME NEW p \in Process, CreateTemp(p)
      PROVE  Unmixed'
  <2>1. /\ p \in sealed /\ stage[p] = "checked" /\ stage'[p] = "writing" /\ open'[p] = p
        /\ UNCHANGED <<sealed, written, content, bound>>
        /\ \A q \in Process : q # p => stage'[q] = stage[q] /\ open'[q] = open[q]
    BY <1>4, <1>t DEF Typed, TypeOK, CreateTemp, Goto
  <2>2. Separate(p)'
    BY <1>e, <2>1 DEF Separate, FirstParts
  <2>3. ASSUME NEW q \in Process, q # p PROVE Separate(q)'
    <3>1. Separate(q) /\ stage'[q] = stage[q] /\ open'[q] = open[q]
      BY <2>1, <2>3
    <3>2. open[q] \in sealed /\ stage[open[q]] = "done" => stage'[open[q]] = "done"
      <4>1. stage[open[q]] = "done" => open[q] # p
        BY <2>1
      <4>2. sealed \subseteq Process
        BY <1>t DEF Typed, TypeOK
      <4> QED
        BY <2>1, <4>1, <4>2
    <3>3. sealed' = sealed /\ written' = written /\ content' = content /\ bound' = bound
      BY <2>1
    <3> QED
      BY <3>1, <3>2, <3>3 DEF Separate, FirstParts
  <2> QED
    BY <1>t, <2>1, <2>2, <2>3
<1>5. ASSUME NEW p \in Process, WritePart(p)
      PROVE  Unmixed'
  <2>1. /\ stage[p] = "writing" /\ open[p] \in File
        /\ written[p] \in Nat /\ written[p] < Parts /\ written'[p] = written[p] + 1
        /\ content' = [content EXCEPT ![open[p]] = Overwrite(content[open[p]], written[p], p)]
        /\ UNCHANGED <<sealed, stage, open, bound>>
        /\ \A q \in Process : q # p => written'[q] = written[q]
    BY <1>5, <1>t DEF Typed, TypeOK, WritePart
  <2>2. content[open[p]] = [i \in 1..written[p] |-> p]
    BY <2>1 DEF Separate, FirstParts
  <2>3. content'[open[p]] = FirstParts(p, written[p] + 1)
    <3>1. content'[open[p]] = Overwrite(content[open[p]], written[p], p)
      BY <2>1, <1>t DEF Typed, TypeOK
    <3> QED
      BY <2>1, <2>2, <3>1, OverwriteAtEnd DEF FirstParts
  <2>4. \A f \in File : f # open[p] => content'[f] = content[f]
    BY <2>1, <1>t DEF Typed, TypeOK
  <2>5. \A f \in File : \E w \in File, n \in 0..Parts : content'[f] = FirstParts(w, n)
    <3>1. written[p] + 1 \in 0..Parts
      BY <2>1
    <3> QED
      BY <1>0, <2>3, <2>4, <3>1
  <2>6. ASSUME NEW q \in Process, q # p
        PROVE  /\ stage[q] = "writing" => open[q] # open[p]
               /\ stage[q] \in {"start", "checked"} => open[p] # q
    BY <1>0, <2>1, <2>6 DEF OnePlain, Separate
  <2>7. Separate(p)'
    BY <2>1, <2>3 DEF Separate
  <2>8. ASSUME NEW q \in Process, q # p PROVE Separate(q)'
    <3>1. stage[q] = "writing" => content'[open[q]] = content[open[q]]
      BY <2>4, <2>6, <2>8, <1>t DEF Typed
    <3>2. stage[q] \in {"start", "checked"} => content'[q] = content[q]
      BY <1>0, <2>4, <2>6, <2>8
    <3> QED
      BY <2>1, <2>8, <3>1, <3>2 DEF Separate, FirstParts
  <2> QED
    BY <1>t, <2>5, <2>7, <2>8
<1>6. ASSUME NEW p \in Process, Persist(p)
      PROVE  Unmixed'
  <2>1. /\ p \in sealed /\ stage[p] = "writing" /\ stage'[p] = "done" /\ bound' = p
        /\ UNCHANGED <<sealed, written, open, content>>
        /\ \A q \in Process : q # p => stage'[q] = stage[q]
    BY <1>6, <1>t DEF Typed, TypeOK, Persist, Goto
  <2>2. ASSUME NEW q \in Process PROVE Separate(q)'
    BY <1>t, <2>1 DEF Separate, FirstParts, Typed, TypeOK
  <2> QED
    BY <1>t, <2>1, <2>2
<1> QED
  BY <1>1, <1>2, <1>3, <1>4, <1>5, <1>6 DEF Next

LEMMA UnmixedNeverMixed ==
  ASSUME Unmixed, NEW f \in File
  PROVE  \E w \in File : content[f] = SubSeq(Whole(w), 1, Len(content[f]))
<1>1. PICK w \in File, n \in 0..Parts : content[f] = FirstParts(w, n)
  BY DEF Unmixed
<1>2. Len(content[f]) = n
  BY <1>1 DEF FirstParts
<1>3. SubSeq(Whole(w), 1, n) = FirstParts(w, n)
  BY OutputAssumption DEF Whole, FirstParts
<1> QED
  BY <1>1, <1>2, <1>3

\* With any number of encrypted packs and at most one plain one, failing or
\* dying anywhere, no file ever holds parts of two archives.
THEOREM OutputNeverMixed == Spec => []NeverMixed
<1> DEFINE Inv == OnePlain => Unmixed
<1>1. Init => Inv
  BY InitUnmixed
<1>2. Inv /\ [Next]_vars => Inv'
  <2>1. [Next]_vars => (OnePlain' <=> OnePlain)
    BY Constant DEF OnePlain
  <2> QED
    BY <2>1, NextUnmixed
<1>3. Inv => NeverMixed
  BY UnmixedNeverMixed DEF NeverMixed, OnePlain
<1> HIDE DEF Inv
<1> QED
  BY <1>1, <1>2, <1>3, PTL DEF Spec

-----------------------------------------------------------------------------
(* Signatures *)

\* No step of a signer or of the verifier touches the archives.
LEMMA SignatureStep == [SignatureNext]_<<vars, signatureVars>> => [Next]_vars
BY DEF SignatureNext, Packing, Signing, Checking, SwapKey, SignStage, CheckStage,
       SignCheck, SignOpen, HashPart, HashEnd, CreateSignature, WriteSignature,
       WriteSignatureInPart, SignFails, ReadSignature, LoadPublicKey, LoadSigningKey,
       VerifyOpen, VerifyPart, Verified, VerifyFails

\* What is proved of packing holds while archives are signed and verified.
THEOREM SignatureRefines == SignatureSpec => Spec
<1>1. SignatureInit => Init
  BY DEF SignatureInit
<1> QED
  BY <1>1, SignatureStep, PTL DEF SignatureSpec, Spec

Digest == Seq(File \union {Hole})
Field == Signer \union Digest \union [by : Signer, of : Digest] \union {Garbage}

SigningStages == {"start", "checked", "hashing", "signed", "writing", "done", "failed"}
CheckingStages ==
  {"start", "parsed", "named", "trusting", "hashing", "verified", "failed"}

\* A reader that has opened the archive and not given up.
Engaged(r) ==
  IF r = Verifier THEN checking \in {"hashing", "verified"}
  ELSE signing[r] \in {"hashing", "signed", "writing", "done"}

\* A reader has read something only of a file that it has open.
ReadersTyped ==
  /\ signing \in [Signer -> SigningStages]
  /\ checking \in CheckingStages
  /\ reading \in [Reader -> File \union {Absent}]
  /\ seen \in [Reader -> Digest]
  /\ keyFile \in Signer /\ keySwaps \in Nat
  /\ \A r \in Reader : IF Engaged(r) THEN reading[r] \in File ELSE seen[r] = <<>>

LEMMA InitReadersTyped == SignatureInit => ReadersTyped
BY SignatureAssumption
   DEF SignatureInit, ReadersTyped, Reader, Engaged, Digest, SigningStages, CheckingStages

\* Reading one more part: it is one of those the file holds.
LEMMA ReadPartType ==
  ASSUME Typed, ReadersTyped, NEW r \in Reader, Engaged(r), ReadPart(r)
  PROVE  /\ seen' \in [Reader -> Digest]
         /\ \A q \in Reader : q # r => seen'[q] = seen[q]
         /\ seen'[r] = Append(seen[r], content[reading[r]][Len(seen[r]) + 1])
         /\ Len(seen[r]) + 1 \in 1..Len(content[reading[r]])
<1>1. /\ reading[r] \in File /\ seen[r] \in Digest
      /\ content[reading[r]] \in Digest
  BY DEF ReadersTyped, Typed, TypeOK, Digest
<1>2. Len(seen[r]) + 1 \in 1..Len(content[reading[r]])
  BY <1>1 DEF ReadPart, MoreToRead, Digest
<1>3. content[reading[r]][Len(seen[r]) + 1] \in File \union {Hole}
  BY <1>1, <1>2 DEF Digest
<1>4. Append(seen[r], content[reading[r]][Len(seen[r]) + 1]) \in Digest
  BY <1>1, <1>3 DEF Digest
<1> QED
  BY <1>1, <1>2, <1>4 DEF ReadPart, ReadersTyped

LEMMA NextReadersTyped ==
  ASSUME Typed, ReadersTyped, [SignatureNext]_<<vars, signatureVars>>
  PROVE  ReadersTyped'
<1> USE SignatureAssumption
<1>0. Verifier \in Reader /\ (\A s \in Signer : s \in Reader /\ s # Verifier) /\ <<>> \in Digest
  BY DEF Reader, Digest
<1>1. CASE UNCHANGED signatureVars
  BY <1>1 DEF signatureVars, ReadersTyped, Engaged
<1>2. ASSUME NEW s \in Signer, SignCheck(s) \/ HashEnd(s) \/ CreateSignature(s) \/ WriteSignature(s)
      PROVE  ReadersTyped'
  <2>1. /\ signing' \in [Signer -> SigningStages]
        /\ UNCHANGED <<reading, seen, checking, keyFile, keySwaps>>
        /\ \A q \in Signer : q # s => signing'[q] = signing[q]
        /\ (signing'[s] \in {"hashing", "signed", "writing", "done"}
              <=> signing[s] \in {"hashing", "signed", "writing", "done"})
    BY <1>2 DEF ReadersTyped, SignCheck, HashEnd, CreateSignature, WriteSignature, SignStage,
                SigningStages
  <2>2. \A r \in Reader : Engaged(r)' <=> Engaged(r)
    BY <1>0, <2>1 DEF Engaged, Reader
  <2> QED
    BY <2>1, <2>2 DEF ReadersTyped
<1>3. ASSUME NEW s \in Signer, SignOpen(s)
      PROVE  ReadersTyped'
  <2>1. /\ signing' \in [Signer -> SigningStages] /\ bound \in File
        /\ UNCHANGED <<seen, checking, keyFile, keySwaps>>
        /\ \A q \in Signer : q # s => signing'[q] = signing[q]
        /\ reading' = [reading EXCEPT ![s] = bound] /\ signing'[s] = "hashing"
    BY <1>3 DEF ReadersTyped, SignOpen, SignStage, OpenArchive, SigningStages, Typed, TypeOK
  <2>2. \A r \in Reader : r # s => (Engaged(r)' <=> Engaged(r))
    BY <1>0, <2>1 DEF Engaged, Reader
  <2>3. Engaged(s)'
    BY <1>0, <2>1 DEF Engaged
  <2> QED
    BY <1>0, <2>1, <2>2, <2>3 DEF ReadersTyped
<1>4. ASSUME NEW s \in Signer, HashPart(s)
      PROVE  ReadersTyped'
  <2>1. /\ signing[s] = "hashing" /\ Engaged(s) /\ ReadPart(s)
        /\ UNCHANGED <<reading, checking, keyFile, keySwaps>>
    BY <1>0, <1>4 DEF HashPart, SignStage, Engaged
  <2>2. signing' = signing
    BY <1>4, <2>1 DEF ReadersTyped, HashPart, SignStage
  <2> QED
    BY <1>0, <2>1, <2>2, ReadPartType DEF ReadersTyped, Engaged
<1>5. ASSUME NEW s \in Signer, WriteSignatureInPart(s) \/ SignFails(s)
      PROVE  ReadersTyped'
  <2>1. /\ signing' = [signing EXCEPT ![s] = "failed"]
        /\ UNCHANGED <<checking, keyFile, keySwaps>> /\ Gone(s)
    BY <1>5 DEF WriteSignatureInPart, SignFails, SignStage
  <2>2. \A r \in Reader : r # s => (Engaged(r)' <=> Engaged(r))
    BY <1>0, <2>1 DEF Engaged, Reader, ReadersTyped
  <2>3. ~Engaged(s)'
    BY <1>0, <2>1 DEF Engaged, ReadersTyped
  <2> QED
    BY <1>0, <2>1, <2>2, <2>3 DEF ReadersTyped, Gone, SigningStages
<1>6. CASE ReadSignature \/ LoadPublicKey \/ LoadSigningKey \/ Verified \/ SwapKey
  <2>1. /\ checking' \in CheckingStages /\ keyFile' \in Signer /\ keySwaps' \in Nat
        /\ UNCHANGED <<signing, reading, seen>>
        /\ (checking' \in {"hashing", "verified"} <=> checking \in {"hashing", "verified"})
    BY <1>6 DEF ReadersTyped, ReadSignature, LoadPublicKey, LoadSigningKey, Verified, SwapKey,
                CheckStage, CheckingStages
  <2> QED
    BY <2>1 DEF ReadersTyped, Engaged
<1>7. CASE VerifyOpen
  <2>1. /\ checking' = "hashing" /\ bound \in File
        /\ UNCHANGED <<seen, signing, keyFile, keySwaps>>
        /\ reading' = [reading EXCEPT ![Verifier] = bound]
    BY <1>7 DEF VerifyOpen, CheckStage, OpenArchive, Typed, TypeOK
  <2>2. \A r \in Reader : r # Verifier => (Engaged(r)' <=> Engaged(r))
    BY <2>1 DEF Engaged
  <2>3. Engaged(Verifier)'
    BY <2>1 DEF Engaged
  <2> QED
    BY <1>0, <2>1, <2>2, <2>3 DEF ReadersTyped, CheckingStages
<1>8. CASE VerifyPart
  <2>1. /\ checking = "hashing" /\ checking' = checking /\ ReadPart(Verifier)
        /\ UNCHANGED <<reading, signing, keyFile, keySwaps>>
    BY <1>8 DEF VerifyPart, CheckStage
  <2>2. Engaged(Verifier)
    BY <2>1 DEF Engaged
  <2> QED
    BY <1>0, <2>1, <2>2, ReadPartType DEF ReadersTyped, Engaged
<1>9. CASE VerifyFails
  <2>1. /\ checking' = "failed" /\ UNCHANGED <<signing, keyFile, keySwaps>> /\ Gone(Verifier)
    BY <1>9 DEF VerifyFails, CheckStage
  <2>2. \A r \in Reader : r # Verifier => (Engaged(r)' <=> Engaged(r))
    BY <2>1 DEF Engaged
  <2>3. ~Engaged(Verifier)'
    BY <2>1 DEF Engaged
  <2> QED
    BY <1>0, <2>1, <2>2, <2>3 DEF ReadersTyped, Gone, CheckingStages
<1>10. CASE UNCHANGED <<vars, signatureVars>>
  BY <1>1, <1>10
<1>11. CASE Packing
  BY <1>1, <1>11 DEF Packing
<1> QED
  BY <1>2, <1>3, <1>4, <1>5, <1>6, <1>7, <1>8, <1>9, <1>10, <1>11
     DEF SignatureNext, Signing, Checking

\* A proof that a signer has written, of what it has read.
Made(x) == \E s \in Signer : signing[s] = "done" /\ x = Proof(s, seen[s])

\* Whatever texts have been written over each other, where the proof stands
\* is nothing but a proof that somebody made, or what does not parse.
Genuine(text) ==
  /\ text \in Seq(Field)
  /\ Len(text) >= 3 => text[3] = Garbage \/ Made(text[3])

Loaded == {"trusting", "hashing", "verified"}

Texts ==
  /\ signature = Absent \/ Genuine(signature)
  /\ \A s \in Signer : signing[s] = "writing" => Genuine(signature)
  /\ checking \in {"parsed", "named"} \union Loaded => Parses(record) /\ Genuine(record)
  /\ keySwaps = 0 /\ checking \in {"named"} \union Loaded => keyFile = record[1]
  /\ keySwaps = 0 /\ checking \in Loaded => trusted = record[1]
  /\ checking = "verified" => Confirms(seen[Verifier])

LEMMA InitTexts == SignatureInit => Texts
BY DEF SignatureInit, Texts, Loaded

LEMMA FieldConstant == Field' = Field
BY DEF Field, Digest, File

\* What has been made stays made: a signer reads no more once it has written.
LEMMA StaysMade ==
  ASSUME ReadersTyped, \A s \in Signer : signing[s] = "done" => signing'[s] = "done" /\ seen'[s] = seen[s],
         NEW text, Genuine(text)
  PROVE  Genuine(text)'
<1>1. ASSUME NEW x, Made(x) PROVE Made(x)'
  BY <1>1 DEF Made, Proof
<1> QED
  BY <1>1, FieldConstant DEF Genuine

\* The first k fields of a text.
LEMMA HeadOf ==
  ASSUME NEW S, NEW s \in Seq(S), NEW k \in 0..Len(s)
  PROVE  /\ SubSeq(s, 1, k) \in Seq(S) /\ Len(SubSeq(s, 1, k)) = k
         /\ \A i \in 1..k : SubSeq(s, 1, k)[i] = s[i]
OBVIOUS

\* A text written over another, wholly or in part: the third field is one of
\* theirs, or does not parse.
LEMMA SpliceProof ==
  ASSUME NEW old \in Seq(Field), NEW new \in Seq(Field), Len(new) >= 3, NEW k \in 0..3
  PROVE  LET text == Splice(old, new, k) IN
         /\ text \in Seq(Field)
         /\ Len(text) >= 3 =>
              \/ text[3] = Garbage
              \/ k < 3 /\ Len(old) >= 3 /\ text[3] = old[3]
              \/ k = 3 /\ text[3] = new[3]
<1> DEFINE head == SubSeq(new, 1, k)
           rest == SubSeq(old, k + 1, Len(old))
<1>0. k \in 0..Len(new)
  OBVIOUS
<1>1. /\ head \in Seq(Field) /\ Len(head) = k
      /\ \A i \in 1..k : head[i] = new[i]
  BY <1>0, HeadOf
<1>2. /\ rest \in Seq(Field)
      /\ Len(rest) = IF k <= Len(old) THEN Len(old) - k ELSE 0
      /\ \A i \in 1..Len(rest) : rest[i] = old[k + i]
  OBVIOUS
<1>3. Garbage \in Field
  BY DEF Field
<1>4. Splice(old, new, k) \in {head \o rest, Append(head, Garbage), head}
  BY DEF Splice
<1> HIDE DEF head, rest
<1>5. /\ head \o rest \in Seq(Field)
      /\ Len(head \o rest) >= 3 =>
           \/ k < 3 /\ Len(old) >= 3 /\ (head \o rest)[3] = old[3]
           \/ k = 3 /\ (head \o rest)[3] = new[3]
  <2>1. head \o rest \in Seq(Field) /\ Len(head \o rest) = k + Len(rest)
    BY <1>1, <1>2
  <2>2. CASE k = 3
    BY <1>1, <1>2, <2>1, <2>2
  <2>3. CASE k < 3 /\ k + Len(rest) >= 3
    <3>1. 3 - k \in 1..Len(rest) /\ (head \o rest)[3] = rest[3 - k]
      BY <1>1, <1>2, <2>3
    <3> QED
      BY <1>2, <2>1, <2>3, <3>1
  <2> QED
    BY <2>1, <2>2, <2>3
<1>6. /\ Append(head, Garbage) \in Seq(Field)
      /\ Len(Append(head, Garbage)) = k + 1
      /\ Append(head, Garbage)[k + 1] = Garbage
      /\ k = 3 => Append(head, Garbage)[3] = new[3]
  BY <1>1, <1>3
<1> DEFINE Agrees(text) ==
             /\ text \in Seq(Field)
             /\ Len(text) >= 3 =>
                  \/ text[3] = Garbage
                  \/ k < 3 /\ Len(old) >= 3 /\ text[3] = old[3]
                  \/ k = 3 /\ text[3] = new[3]
<1>7. Agrees(head \o rest)
  BY <1>5
<1>8. Agrees(Append(head, Garbage))
  BY <1>6
<1>9. Agrees(head)
  BY <1>1
<1> HIDE DEF Agrees
<1>10. Agrees(Splice(old, new, k))
  BY <1>4, <1>7, <1>8, <1>9
<1> QED
  BY <1>10 DEF Agrees

\* What is done is done: the signer has given up its part of the archive.
LEMMA DoneStays ==
  ASSUME ReadersTyped, [SignatureNext]_<<vars, signatureVars>>,
         NEW s \in Signer, signing[s] = "done"
  PROVE  signing'[s] = "done" /\ seen'[s] = seen[s]
<1> USE SignatureAssumption DEF ReadersTyped, Reader
<1>1. CASE UNCHANGED <<vars, signatureVars>> \/ Packing
  BY <1>1 DEF signatureVars, Packing
<1>2. ASSUME NEW q \in Signer,
             \/ SignCheck(q) \/ SignOpen(q) \/ HashPart(q) \/ HashEnd(q) \/ CreateSignature(q)
             \/ WriteSignature(q) \/ WriteSignatureInPart(q) \/ SignFails(q)
      PROVE  signing'[s] = "done" /\ seen'[s] = seen[s]
  BY <1>2 DEF SignCheck, SignOpen, HashPart, HashEnd, CreateSignature, WriteSignature,
              WriteSignatureInPart, SignFails, SignStage, ReadPart, Gone
<1>3. CASE Checking \/ SwapKey
  BY <1>3 DEF Checking, SwapKey, CheckStage, ReadSignature, LoadPublicKey, LoadSigningKey,
              VerifyOpen, VerifyPart, Verified, VerifyFails, ReadPart, Gone
<1> QED
  BY <1>1, <1>2, <1>3 DEF SignatureNext, Signing

LEMMA TextField ==
  ASSUME NEW s \in Signer, NEW digest \in Digest
  PROVE  /\ Text(s, digest) \in Seq(Field) /\ Len(Text(s, digest)) >= 3
         /\ Text(s, digest)[3] = Proof(s, digest)
<1>1. Proof(s, digest) \in Field /\ s \in Field /\ digest \in Field
  BY DEF Proof, Field
<1> HIDE DEF Proof
<1> QED
  BY <1>1 DEF Text

LEMMA NextTexts ==
  ASSUME ReadersTyped, Texts, [SignatureNext]_<<vars, signatureVars>>
  PROVE  Texts'
<1> USE SignatureAssumption
<1>0. \A text : Genuine(text) => Genuine(text)'
  BY DoneStays, StaysMade
<1>1. CASE UNCHANGED <<vars, signatureVars>> \/ Packing
  <2>1. UNCHANGED signatureVars
    BY <1>1 DEF Packing
  <2> QED
    BY <1>0, <2>1 DEF signatureVars, Texts, Confirms
<1>2. ASSUME NEW s \in Signer,
             SignCheck(s) \/ SignOpen(s) \/ HashPart(s) \/ HashEnd(s) \/ SignFails(s)
      PROVE  Texts'
  <2>1. /\ UNCHANGED <<signature, keyFile, keySwaps, checking, record, trusted>>
        /\ \A q \in Signer : signing'[q] = "writing" => signing[q] = "writing"
        /\ seen'[Verifier] = seen[Verifier]
    BY <1>2 DEF SignCheck, SignOpen, HashPart, HashEnd, SignFails, SignStage, ReadPart, Gone,
                ReadersTyped, Reader, SigningStages
  <2> QED
    BY <1>0, <2>1 DEF Texts, Confirms, Loaded
<1>3. ASSUME NEW s \in Signer, CreateSignature(s)
      PROVE  Texts'
  <2>1. /\ UNCHANGED <<seen, keyFile, keySwaps, checking, record, trusted>>
        /\ signature' = <<>>
    BY <1>3 DEF CreateSignature, SignStage
  <2>2. Genuine(<<>>)'
    BY DEF Genuine
  <2> QED
    BY <1>0, <2>1, <2>2 DEF Texts, Confirms, Loaded
<1>4. ASSUME NEW s \in Signer, WriteSignature(s) \/ WriteSignatureInPart(s)
      PROVE  Texts'
  <2>1. /\ UNCHANGED <<keyFile, keySwaps, checking, record, trusted>>
        /\ signing[s] = "writing" /\ seen[s] \in Digest
        /\ seen'[Verifier] = seen[Verifier]
    BY <1>4 DEF WriteSignature, WriteSignatureInPart, SignStage, Gone, ReadersTyped, Reader
  <2>2. PICK k \in 0..3 :
          /\ signature' = Splice(signature, Text(s, seen[s]), k)
          /\ k = 3 => signing'[s] = "done" /\ seen'[s] = seen[s]
    BY <1>4 DEF WriteSignature, WriteSignatureInPart, SignStage, ReadersTyped
  <2>3. Genuine(signature)
    BY <2>1 DEF Texts
  <2>4. Text(s, seen[s]) \in Seq(Field) /\ Len(Text(s, seen[s])) >= 3
        /\ Text(s, seen[s])[3] = Proof(s, seen[s])
    BY <2>1, TextField
  <2>5. /\ signature' \in Seq(Field)
        /\ Len(signature') >= 3 =>
             \/ signature'[3] = Garbage
             \/ Len(signature) >= 3 /\ signature'[3] = signature[3]
             \/ k = 3 /\ signature'[3] = Proof(s, seen[s])
    BY <2>2, <2>3, <2>4, SpliceProof DEF Genuine
  <2>6. \A q \in Signer : signing[q] = "done" => signing'[q] = "done" /\ seen'[q] = seen[q]
    BY DoneStays
  <2>7. ASSUME NEW text, text = signature' PROVE Genuine(text)'
    <3>1. Len(text) >= 3 => text[3] = Garbage \/ Made(text[3])'
      <4>1. CASE Len(text) >= 3 /\ text[3] = Garbage
        BY <4>1
      <4>2. CASE Len(text) >= 3 /\ k = 3 /\ text[3] = Proof(s, seen[s])
        BY <2>2, <4>2 DEF Made, Proof
      <4>3. CASE Len(text) >= 3 /\ Len(signature) >= 3 /\ text[3] = signature[3]
        <5>1. signature[3] = Garbage \/ Made(signature[3])
          BY <2>3, <4>3 DEF Genuine
        <5> QED
          BY <2>6, <4>3, <5>1 DEF Made, Proof
      <4> QED
        BY <2>5, <2>7, <4>1, <4>2, <4>3
    <3> QED
      BY <2>5, <2>7, <3>1, FieldConstant DEF Genuine
  <2>8. Genuine(signature)'
    BY <2>7 DEF Genuine, Made
  <2> QED
    BY <1>0, <2>1, <2>8 DEF Texts, Confirms, Loaded
<1>5. CASE ReadSignature
  <2>1. /\ UNCHANGED <<signing, seen, signature, keyFile, keySwaps>>
        /\ checking' = "parsed" /\ signature # Absent /\ Parses(signature)
        /\ record' = signature
    BY <1>5 DEF ReadSignature, CheckStage
  <2>2. Parses(record') /\ Genuine(record)'
    BY <1>0, <2>1 DEF Texts, Genuine, Made
  <2> QED
    BY <1>0, <2>1, <2>2 DEF Texts, Loaded
<1>6. CASE LoadPublicKey \/ LoadSigningKey \/ VerifyOpen \/ VerifyPart
  <2>1. /\ UNCHANGED <<signing, signature, keyFile, keySwaps, record>>
        /\ \/ checking = "parsed" /\ checking' = "named" /\ keyFile = record[1]
           \/ checking = "named" /\ checking' = "trusting" /\ trusted' = keyFile
           \/ checking \in {"trusting", "hashing"} /\ checking' = "hashing" /\ trusted' = trusted
    BY <1>6 DEF LoadPublicKey, LoadSigningKey, VerifyOpen, VerifyPart, CheckStage
  <2>2. \A text : Genuine(text) => Genuine(text)'
    BY <1>0
  <2> QED
    BY <2>1, <2>2 DEF Texts, Loaded
<1>7. CASE Verified
  <2>1. /\ UNCHANGED <<signing, seen, signature, keyFile, keySwaps, record, trusted>>
        /\ checking = "hashing" /\ checking' = "verified" /\ Confirms(seen[Verifier])
    BY <1>7 DEF Verified, CheckStage
  <2> QED
    BY <1>0, <2>1 DEF Texts, Loaded, Confirms
<1>8. CASE VerifyFails
  <2>1. UNCHANGED <<signing, signature>> /\ checking' = "failed"
    BY <1>8 DEF VerifyFails, CheckStage
  <2> QED
    BY <1>0, <2>1 DEF Texts, Loaded
<1>9. CASE SwapKey
  <2>1. /\ UNCHANGED <<signing, seen, signature, checking, record, trusted>>
        /\ keySwaps' # 0
    BY <1>9 DEF SwapKey, ReadersTyped
  <2> QED
    BY <1>0, <2>1 DEF Texts, Loaded, Confirms
<1> QED
  BY <1>1, <1>2, <1>3, <1>4, <1>5, <1>6, <1>7, <1>8, <1>9 DEF SignatureNext, Signing, Checking

\* The invariant of the texts, for all that follow from it.
LEMMA SignatureInv == SignatureSpec => [](Typed /\ ReadersTyped /\ Texts)
<1>1. SignatureInit => Typed /\ ReadersTyped /\ Texts
  BY InitTyped, InitReadersTyped, InitTexts DEF SignatureInit
<1>2. Typed /\ ReadersTyped /\ Texts /\ [SignatureNext]_<<vars, signatureVars>>
        => (Typed /\ ReadersTyped /\ Texts)'
  BY SignatureStep, NextTyped, NextReadersTyped, NextTexts
<1> QED
  BY <1>1, <1>2, PTL DEF SignatureSpec

\* Whoever writes to the signature at the same time or stops half way, and
\* however often the public-key file is replaced: the verifier accepts only
\* an archive that the owner of the key it has loaded has signed as it was
\* read, and reports that owner unless the file was replaced meanwhile.
THEOREM SignatureVerifiedWasSigned == SignatureSpec => []VerifiedWasSigned
<1>1. ReadersTyped /\ Texts => VerifiedWasSigned
  <2> SUFFICES ASSUME ReadersTyped, Texts, checking = "verified"
               PROVE  /\ signing[trusted] = "done" /\ seen[trusted] = seen[Verifier]
                      /\ keySwaps = 0 => record[1] = trusted
    BY DEF VerifiedWasSigned
  <2>1. /\ Parses(record) /\ Genuine(record) /\ Confirms(seen[Verifier])
        /\ keySwaps = 0 => trusted = record[1]
    BY DEF Texts, Loaded
  <2>2. Made(record[3])
    BY <2>1 DEF Parses, Genuine
  <2> QED
    BY <2>1, <2>2 DEF Made, Confirms, Proof
<1> QED
  BY <1>1, SignatureInv, PTL

\* No interleaving of signers leaves a valid signature that nobody wrote.
THEOREM SignatureNoSplice == SignatureSpec => []NoSplicedSignature
<1>1. Texts => NoSplicedSignature
  <2> SUFFICES ASSUME Texts, signature # Absent, Parses(signature),
                      signature[3] = Proof(signature[1], signature[2])
               PROVE  \E s \in Signer : signature = Text(s, seen[s])
    BY DEF NoSplicedSignature
  <2>1. Genuine(signature) /\ Len(signature) = 3 /\ signature[3] # Garbage
    BY DEF Texts, Parses
  <2>2. PICK s \in Signer : signature[3] = Proof(s, seen[s])
    BY <2>1 DEF Genuine, Made
  <2>3. signature[1] = s /\ signature[2] = seen[s]
    BY <2>2 DEF Proof
  <2>4. signature = <<signature[1], signature[2], signature[3]>>
    BY <2>1 DEF Genuine
  <2> QED
    BY <2>2, <2>3, <2>4 DEF Text
<1> QED
  BY <1>1, SignatureInv, PTL

\* What one step means to a reader: nothing, or it comes to the end of what it
\* has open; it opens the archive; it reads one part; or it has none open.
Untouched(r) ==
  /\ Engaged(r) /\ Engaged(r)'
  /\ reading'[r] = reading[r] /\ seen'[r] = seen[r]
  /\ r \in Finished' => r \in Finished \/ (UNCHANGED vars /\ ~MoreToRead(r))
Opens(r) ==
  /\ ~Engaged(r)
  /\ bound \in File /\ UNCHANGED vars
  /\ reading'[r] = bound /\ seen'[r] = seen[r] /\ r \notin Finished'
Reads(r) ==
  /\ Engaged(r) /\ ReadPart(r) /\ UNCHANGED vars
  /\ reading'[r] = reading[r] /\ r \notin Finished'

LEMMA ReaderStep ==
  ASSUME Typed, ReadersTyped, [SignatureNext]_<<vars, signatureVars>>, NEW r \in Reader, Engaged(r)'
  PROVE  Untouched(r) \/ Opens(r) \/ Reads(r)
<1> USE SignatureAssumption
<1>0. r = Verifier \/ (r \in Signer /\ r # Verifier)
  BY DEF Reader
<1>1. CASE UNCHANGED <<vars, signatureVars>> \/ Packing
  BY <1>1 DEF signatureVars, Packing, Untouched, Engaged, Finished
<1>2. ASSUME NEW s \in Signer,
             SignCheck(s) \/ HashEnd(s) \/ CreateSignature(s) \/ WriteSignature(s)
      PROVE  Untouched(r)
  <2>1. /\ UNCHANGED <<vars, reading, seen, checking>>
        /\ \A q \in Signer : q # s => signing'[q] = signing[q]
        /\ \/ signing[s] = "start" /\ signing'[s] = "checked"
           \/ signing[s] = "hashing" /\ signing'[s] = "signed" /\ ~MoreToRead(s)
           \/ signing[s] = "signed" /\ signing'[s] = "writing"
           \/ signing[s] = "writing" /\ signing'[s] = "done"
    BY <1>2 DEF SignCheck, HashEnd, CreateSignature, WriteSignature, SignStage, ReadersTyped
  <2> QED
    BY <1>0, <2>1 DEF Untouched, Engaged, Finished
<1>3. ASSUME NEW s \in Signer, SignOpen(s) \/ HashPart(s)
      PROVE  Untouched(r) \/ Opens(r) \/ Reads(r)
  <2>1. /\ UNCHANGED <<vars, checking>>
        /\ signing'[s] = "hashing"
        /\ \A q \in Signer : q # s => signing'[q] = signing[q]
        /\ \A q \in Reader : q # s => reading'[q] = reading[q] /\ seen'[q] = seen[q]
    BY <1>3 DEF SignOpen, HashPart, SignStage, OpenArchive, ReadPart, ReadersTyped
  <2>2. CASE r # s
    BY <1>0, <2>1, <2>2 DEF Untouched, Engaged, Finished
  <2>3. CASE r = s /\ SignOpen(s)
    <3>1. /\ signing[s] = "checked" /\ seen' = seen /\ reading'[s] = bound /\ bound \in File
      BY <2>3 DEF SignOpen, SignStage, OpenArchive, ReadersTyped, Reader, Typed, TypeOK
    <3> QED
      BY <1>0, <2>1, <2>3, <3>1 DEF Opens, Engaged, Finished
  <2>4. CASE r = s /\ HashPart(s)
    <3>1. signing[s] = "hashing" /\ ReadPart(s) /\ reading' = reading
      BY <2>4 DEF HashPart, SignStage
    <3> QED
      BY <1>0, <2>1, <2>4, <3>1 DEF Reads, Engaged, Finished
  <2> QED
    BY <1>3, <2>2, <2>3, <2>4
<1>4. ASSUME NEW s \in Signer, WriteSignatureInPart(s) \/ SignFails(s)
      PROVE  Untouched(r)
  <2>1. /\ checking' = checking
        /\ signing'[s] = "failed"
        /\ \A q \in Signer : q # s => signing'[q] = signing[q]
        /\ \A q \in Reader : q # s => reading'[q] = reading[q] /\ seen'[q] = seen[q]
    BY <1>4 DEF WriteSignatureInPart, SignFails, SignStage, Gone, ReadersTyped
  <2>2. r # s
    BY <1>0, <2>1 DEF Engaged
  <2> QED
    BY <1>0, <2>1, <2>2 DEF Untouched, Engaged, Finished
<1>5. CASE ReadSignature \/ LoadPublicKey \/ LoadSigningKey \/ Verified \/ SwapKey
  <2>1. /\ UNCHANGED <<vars, signing, reading, seen>>
        /\ \/ checking' = checking
           \/ checking \notin {"hashing", "verified"} /\ checking' \notin {"hashing", "verified"}
           \/ checking = "hashing" /\ checking' = "verified" /\ ~MoreToRead(Verifier)
    BY <1>5 DEF ReadSignature, LoadPublicKey, LoadSigningKey, Verified, SwapKey, CheckStage
  <2> QED
    BY <1>0, <2>1 DEF Untouched, Engaged, Finished
<1>6. CASE VerifyOpen \/ VerifyPart
  <2>1. /\ UNCHANGED <<vars, signing>>
        /\ checking' = "hashing"
        /\ \A q \in Reader : q # Verifier => reading'[q] = reading[q] /\ seen'[q] = seen[q]
    BY <1>6 DEF VerifyOpen, VerifyPart, CheckStage, OpenArchive, ReadPart, ReadersTyped
  <2>2. CASE r # Verifier
    BY <1>0, <2>1, <2>2 DEF Untouched, Engaged, Finished
  <2>3. CASE r = Verifier /\ VerifyOpen
    <3>1. checking = "trusting" /\ seen' = seen /\ reading'[r] = bound /\ bound \in File
      BY <2>3 DEF VerifyOpen, CheckStage, OpenArchive, ReadersTyped, Reader, Typed, TypeOK
    <3> QED
      BY <1>0, <2>1, <2>3, <3>1 DEF Opens, Engaged, Finished
  <2>4. CASE r = Verifier /\ VerifyPart
    <3>1. checking = "hashing" /\ ReadPart(r) /\ reading' = reading
      BY <2>4 DEF VerifyPart, CheckStage
    <3> QED
      BY <1>0, <2>1, <2>4, <3>1 DEF Reads, Engaged, Finished
  <2> QED
    BY <1>6, <2>2, <2>3, <2>4
<1>7. CASE VerifyFails
  <2>1. /\ signing' = signing /\ checking' = "failed"
        /\ \A q \in Reader : q # Verifier => reading'[q] = reading[q] /\ seen'[q] = seen[q]
    BY <1>7 DEF VerifyFails, CheckStage, Gone, ReadersTyped
  <2>2. r # Verifier
    BY <2>1 DEF Engaged
  <2> QED
    BY <1>0, <2>1, <2>2 DEF Untouched, Engaged, Finished
<1> QED
  BY <1>1, <1>2, <1>3, <1>4, <1>5, <1>6, <1>7 DEF SignatureNext, Signing, Checking

\* What a reader has read are the first parts of the file it has open.
OneReading(r) == \E n \in 0..Parts : seen[r] = FirstParts(reading[r], n)

\* Every part of a file is of its own process.
Pure(f) == \E n \in 0..Parts : content[f] = FirstParts(f, n)

LEMMA NextOneReading ==
  ASSUME Typed, ReadersTyped, [SignatureNext]_<<vars, signatureVars>>,
         NEW r \in Reader, Engaged(r)',
         Engaged(r) => OneReading(r) /\ Pure(reading[r])
  PROVE  OneReading(r)'
<1>1. CASE Untouched(r)
  BY <1>1 DEF Untouched, OneReading, FirstParts
<1>2. CASE Opens(r)
  <2>1. seen'[r] = <<>>
    BY <1>2 DEF Opens, ReadersTyped
  <2>2. <<>> = FirstParts(reading'[r], 0)
    BY DEF FirstParts
  <2> QED
    BY <2>1, <2>2, OutputAssumption DEF OneReading, FirstParts
<1>3. CASE Reads(r)
  <2>1. PICK m \in 0..Parts : content[reading[r]] = FirstParts(reading[r], m)
    BY <1>3 DEF Reads, Pure
  <2>2. PICK n \in 0..Parts : seen[r] = FirstParts(reading[r], n)
    BY <1>3 DEF Reads, OneReading
  <2>3. Len(seen[r]) = n /\ Len(content[reading[r]]) = m
    BY <2>1, <2>2 DEF FirstParts
  <2>4. n + 1 \in 1..m /\ seen'[r] = Append(seen[r], content[reading[r]][n + 1])
    BY <1>3, <2>3, ReadPartType DEF Reads
  <2>5. seen'[r] = FirstParts(reading[r], n + 1)
    BY <2>1, <2>2, <2>4 DEF FirstParts
  <2>6. n + 1 \in 0..Parts /\ reading'[r] = reading[r]
    BY <1>3, <2>4, OutputAssumption DEF Reads
  <2> QED
    BY <2>5, <2>6 DEF OneReading, FirstParts
<1> QED
  BY <1>1, <1>2, <1>3, ReaderStep

\* At most one process has begun to pack.
Alone == \A p, q \in Process : stage[p] # "start" /\ stage[q] # "start" => p = q

\* A process that packs alone found the name free, and writes its own file.
OwnFiles ==
  /\ \A f \in File : Pure(f)
  /\ \A p \in Process :
       /\ stage[p] \in {"start", "checked"} => written[p] = 0 /\ content[p] = <<>>
       /\ stage[p] = "checked" => bound = Absent
       /\ stage[p] = "writing" => open[p] = p /\ content[p] = FirstParts(p, written[p])

LEMMA InitOwnFiles == Init => OwnFiles
<1> SUFFICES ASSUME Init PROVE OwnFiles
  OBVIOUS
<1>1. Whole(Earlier) = FirstParts(Earlier, Parts) /\ \A f \in File : <<>> = FirstParts(f, 0)
  BY DEF Whole, FirstParts
<1>2. \A f \in File : Pure(f)
  BY <1>1, OutputAssumption DEF Init, Pure
<1> QED
  BY <1>2, OutputAssumption DEF Init, OwnFiles, File

\* No process goes back to its start.
LEMMA StaysAlone ==
  ASSUME Typed, [Next]_vars, Alone'
  PROVE  Alone
<1>1. \A p \in Process : stage[p] # "start" => stage'[p] # "start"
  BY DEF Next, vars, Typed, TypeOK, Refuse, Check, Create, CreateTemp, WritePart, Finish, Persist,
         Fail, Crash, Goto
<1> QED
  BY <1>1 DEF Alone

LEMMA NextOwnFiles ==
  ASSUME Typed, OwnFiles, [Next]_vars, Alone'
  PROVE  OwnFiles'
<1> USE OutputAssumption
<1>0. \A p \in Process : p \in File /\ p # Absent
  BY DEF File
<1>t. Typed' /\ Alone
  BY NextTyped, StaysAlone
<1>1. CASE UNCHANGED vars
  BY <1>1 DEF vars, OwnFiles, Pure, FirstParts
<1>2. ASSUME NEW p \in Process, Refuse(p) \/ Check(p) \/ Fail(p) \/ Crash(p) \/ Finish(p)
      PROVE  OwnFiles'
  <2>1. /\ UNCHANGED <<written, open, content, bound>>
        /\ stage'[p] = "checked" => stage[p] = "start" /\ bound = Absent
        /\ stage'[p] \notin {"start", "writing"}
        /\ \A q \in Process : q # p => stage'[q] = stage[q]
    BY <1>2 DEF Typed, TypeOK, Refuse, Check, Fail, Crash, Finish, Goto
  <2> QED
    BY <2>1 DEF OwnFiles, Pure, FirstParts
<1>3. ASSUME NEW p \in Process, Create(p)
      PROVE  OwnFiles'
  <2>1. /\ stage[p] = "checked" /\ bound = Absent /\ content[p] = <<>> /\ written[p] = 0
        /\ stage'[p] = "writing" /\ open'[p] = p /\ content' = [content EXCEPT ![p] = <<>>]
        /\ written' = written
        /\ \A q \in Process : q # p => stage'[q] = stage[q] /\ open'[q] = open[q]
    BY <1>0, <1>3 DEF Create, OwnFiles, Typed, TypeOK, Goto
  <2>2. content' = content
    BY <1>0, <2>1 DEF Typed, TypeOK
  <2>3. \A q \in Process : q # p => stage'[q] = "start"
    BY <1>t, <2>1 DEF Alone
  <2>4. <<>> = FirstParts(p, 0)
    BY DEF FirstParts
  <2> QED
    BY <2>1, <2>2, <2>3, <2>4 DEF OwnFiles, Pure, FirstParts
<1>4. ASSUME NEW p \in Process, CreateTemp(p)
      PROVE  OwnFiles'
  <2>1. /\ stage[p] = "checked" /\ content[p] = <<>> /\ written[p] = 0
        /\ stage'[p] = "writing" /\ open'[p] = p /\ UNCHANGED <<written, content, bound>>
        /\ \A q \in Process : q # p => stage'[q] = stage[q] /\ open'[q] = open[q]
    BY <1>4 DEF CreateTemp, OwnFiles, Typed, TypeOK, Goto
  <2>2. <<>> = FirstParts(p, 0)
    BY DEF FirstParts
  <2> QED
    BY <2>1, <2>2 DEF OwnFiles, Pure, FirstParts
<1>5. ASSUME NEW p \in Process, WritePart(p)
      PROVE  OwnFiles'
  <2>1. /\ stage[p] = "writing" /\ open[p] = p /\ content[p] = FirstParts(p, written[p])
        /\ written[p] \in Nat /\ written[p] < Parts /\ written'[p] = written[p] + 1
        /\ UNCHANGED <<stage, open, bound>>
        /\ \A q \in Process : q # p => written'[q] = written[q]
    BY <1>5 DEF WritePart, OwnFiles, Typed, TypeOK
  <2>2. content' = [content EXCEPT ![p] = Overwrite(FirstParts(p, written[p]), written[p], p)]
    BY <1>0, <1>5, <2>1 DEF WritePart, Typed, TypeOK
  <2>3. content'[p] = FirstParts(p, written'[p])
    BY <1>0, <2>1, <2>2, OverwriteAtEnd DEF FirstParts, Typed, TypeOK
  <2>4. \A f \in File : f # p => content'[f] = content[f]
    BY <2>2 DEF Typed, TypeOK
  <2>5. written'[p] \in 0..Parts
    BY <2>1
  <2>6. \A f \in File : Pure(f)'
    <3>1. ASSUME NEW f \in File, f # p PROVE Pure(f)'
      <4>1. content'[f] = content[f] /\ Pure(f)
        BY <2>4, <3>1 DEF OwnFiles
      <4> QED
        BY <4>1 DEF Pure, FirstParts
    <3>2. Pure(p)'
      BY <2>3, <2>5 DEF Pure, FirstParts
    <3> QED
      BY <3>1, <3>2
  <2>7. ASSUME NEW q \in Process
        PROVE  /\ stage'[q] \in {"start", "checked"} => written'[q] = 0 /\ content'[q] = <<>>
               /\ stage'[q] = "checked" => bound' = Absent
               /\ stage'[q] = "writing" => open'[q] = q /\ content'[q] = FirstParts(q, written'[q])
    <3>1. CASE q = p
      BY <2>1, <2>3, <3>1
    <3>2. CASE q # p
      BY <1>0, <2>1, <2>4, <3>2 DEF OwnFiles
    <3> QED
      BY <3>1, <3>2
  <2> QED
    BY <2>6, <2>7 DEF OwnFiles, FirstParts
<1>6. ASSUME NEW p \in Process, Persist(p)
      PROVE  OwnFiles'
  <2>1. /\ stage[p] = "writing" /\ stage'[p] = "done" /\ UNCHANGED <<written, open, content>>
        /\ \A q \in Process : q # p => stage'[q] = stage[q]
    BY <1>6 DEF Persist, Typed, TypeOK, Goto
  <2>2. \A q \in Process : q # p => stage'[q] = "start"
    BY <1>t, <2>1 DEF Alone
  <2> QED
    BY <2>1, <2>2 DEF OwnFiles, Pure, FirstParts
<1> QED
  BY <1>1, <1>2, <1>3, <1>4, <1>5, <1>6 DEF Next

\* A file that was there beforehand or has been published whole.
Settled(f) == f = Earlier \/ (f \in Process /\ stage[f] = "done")

\* Where all archives are encrypted, what is read is settled, and what was
\* read to its end is whole.
WholeReads ==
  \A r \in Reader : Engaged(r) =>
    /\ Settled(reading[r]) /\ OneReading(r)
    /\ r \in Finished => seen[r] = Whole(reading[r])

LEMMA SettledWhole ==
  ASSUME Publication, NEW f, Settled(f)
  PROVE  content[f] = Whole(f) /\ Pure(f)
<1>1. content[f] = Whole(f)
  BY DEF Settled, Publication, Own, Partial, Whole
<1> QED
  BY <1>1, OutputAssumption DEF Pure, Whole, FirstParts

\* Nobody reports a success and goes on.
LEMMA StaysSettled ==
  ASSUME Typed, [Next]_vars, NEW f, Settled(f)
  PROVE  Settled(f)'
BY DEF Settled, Next, vars, Typed, TypeOK, Refuse, Check, Create, CreateTemp, WritePart, Finish,
       Persist, Fail, Crash, Goto

LEMMA NextWholeReads ==
  ASSUME Typed, ReadersTyped, Publication, WholeReads,
         [SignatureNext]_<<vars, signatureVars>>
  PROVE  WholeReads'
<1>s. [Next]_vars
  BY SignatureStep
<1>1. ASSUME NEW r \in Reader, Engaged(r)' PROVE OneReading(r)'
  BY <1>1, NextOneReading, SettledWhole DEF WholeReads
<1>2. ASSUME NEW r \in Reader, Engaged(r)' PROVE Settled(reading[r])'
  <2>1. CASE Untouched(r) \/ Reads(r)
    <3>1. Settled(reading[r]) /\ reading'[r] = reading[r]
      BY <2>1 DEF Untouched, Reads, WholeReads
    <3>2. ASSUME NEW f, Settled(f) PROVE Settled(f)'
      BY <1>s, <3>2, StaysSettled
    <3> QED
      BY <3>1, <3>2 DEF Settled
  <2>2. CASE Opens(r)
    <3>1. bound \in File /\ reading'[r] = bound /\ stage' = stage
      BY <2>2 DEF Opens, vars
    <3> QED
      BY <3>1 DEF Publication, Own, Settled, File
  <2> QED
    BY <1>2, <2>1, <2>2, ReaderStep
<1>3. ASSUME NEW r \in Reader, Engaged(r)', r \in Finished'
      PROVE  seen'[r] = Whole(reading'[r])
  <2>1. Untouched(r)
    BY <1>3, ReaderStep DEF Opens, Reads
  <2>2. CASE r \in Finished
    BY <2>1, <2>2 DEF Untouched, WholeReads
  <2>3. CASE ~MoreToRead(r)
    <3>1. content[reading[r]] = Whole(reading[r]) /\ OneReading(r)
      BY <2>1, SettledWhole DEF Untouched, WholeReads
    <3>2. PICK n \in 0..Parts : seen[r] = FirstParts(reading[r], n)
      BY <3>1 DEF OneReading
    <3>3. Len(seen[r]) = n /\ Len(content[reading[r]]) = Parts
      BY <3>1, <3>2, OutputAssumption DEF FirstParts, Whole
    <3>4. n = Parts
      BY <2>3, <3>3, OutputAssumption DEF MoreToRead
    <3> QED
      BY <2>1, <3>2, <3>4 DEF Untouched, FirstParts, Whole
  <2> QED
    BY <1>3, <2>1, <2>2, <2>3 DEF Untouched
<1> QED
  BY <1>1, <1>2, <1>3 DEF WholeReads, Whole

\* What readers have read, in each of the two cases.
OneArchive ==
  /\ sealed = Process => Publication /\ WholeReads
  /\ Alone => OwnFiles /\ \A r \in Reader : Engaged(r) => OneReading(r)

LEMMA InitOneArchive == SignatureInit => OneArchive
<1>1. SignatureInit => Init /\ \A r \in Reader : ~Engaged(r)
  BY SignatureAssumption DEF SignatureInit, Reader, Engaged
<1> QED
  BY <1>1, InitPublication, InitOwnFiles DEF OneArchive, WholeReads

LEMMA NextOneArchive ==
  ASSUME Typed, ReadersTyped, OneArchive, [SignatureNext]_<<vars, signatureVars>>
  PROVE  OneArchive'
<1>1. [Next]_vars /\ sealed' = sealed
  BY SignatureStep, Constant
<1>2. sealed = Process => Publication' /\ WholeReads'
  BY <1>1, NextPublication, NextWholeReads DEF OneArchive
<1>3. ASSUME Alone' PROVE OwnFiles' /\ \A r \in Reader : Engaged(r)' => OneReading(r)'
  <2>1. Alone /\ OwnFiles /\ OwnFiles'
    BY <1>1, <1>3, StaysAlone, NextOwnFiles DEF OneArchive
  <2>2. ASSUME NEW r \in Reader, Engaged(r)' PROVE OneReading(r)'
    <3>1. Engaged(r) => OneReading(r) /\ Pure(reading[r])
      BY <2>1 DEF OneArchive, ReadersTyped, OwnFiles
    <3> QED
      BY <2>2, <3>1, NextOneReading
  <2> QED
    BY <2>1, <2>2
<1> QED
  BY <1>1, <1>2, <1>3 DEF OneArchive

\* However many processes pack to the name while signers and the verifier
\* read it part by part, with failures and crashes anywhere: what is signed or
\* accepted is a whole archive where all are encrypted, and the beginning of
\* one where a single process packs.
THEOREM SignatureOneArchive == SignatureSpec => []SignsOneArchive
<1>1. SignatureInit => OneArchive
  BY InitOneArchive
<1>2. Typed /\ ReadersTyped /\ Texts /\ OneArchive /\ [SignatureNext]_<<vars, signatureVars>>
        => OneArchive'
  BY NextOneArchive
<1>3. Typed /\ ReadersTyped /\ Texts /\ OneArchive => SignsOneArchive
  <2> SUFFICES ASSUME ReadersTyped, OneArchive, NEW r \in Finished
               PROVE  /\ sealed = Process => \E w \in File : seen[r] = Whole(w)
                      /\ Alone => \E w \in File : seen[r] = SubSeq(Whole(w), 1, Len(seen[r]))
    BY DEF SignsOneArchive, Alone
  <2>1. r \in Reader /\ Engaged(r) /\ reading[r] \in File
    BY SignatureAssumption DEF Finished, Reader, Engaged, ReadersTyped
  <2>2. ASSUME Alone PROVE seen[r] = SubSeq(Whole(reading[r]), 1, Len(seen[r]))
    <3>1. PICK n \in 0..Parts : seen[r] = FirstParts(reading[r], n)
      BY <2>1, <2>2 DEF OneArchive, OneReading
    <3>2. Len(seen[r]) = n /\ SubSeq(Whole(reading[r]), 1, n) = FirstParts(reading[r], n)
      BY <3>1, OutputAssumption DEF FirstParts, Whole
    <3> QED
      BY <3>1, <3>2
  <2> QED
    BY <2>1, <2>2 DEF OneArchive, WholeReads
<1> QED
  BY <1>1, <1>2, <1>3, SignatureInv, PTL DEF SignatureSpec
================================================================================
