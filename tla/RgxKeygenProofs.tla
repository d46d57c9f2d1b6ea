---------------------------- MODULE RgxKeygenProofs ----------------------------
(***************************************************************************)
(* The files of a generated identity, for every number of processes and    *)
(* of paths.                                                               *)
(***************************************************************************)
EXTENDS RgxKeygen, TLAPS

\* No file is there at first.
LEMMA InitType == Init => TypeOK
BY DEF Init, TypeOK, Stages, KeyFiles, None

\* Every step keeps the types.
LEMMA NextType == TypeOK /\ [Next]_vars => TypeOK'
<1> SUFFICES ASSUME TypeOK, [Next]_vars PROVE TypeOK'
  OBVIOUS
<1> USE DEF TypeOK, Goto, Put
<1>0. /\ None \in KeyFiles
      /\ \A p \in Process, b \in BOOLEAN : KeyFile(p, b) \in KeyFiles
      /\ \A p \in Process : target[p] \in Path
  BY DEF None, KeyFile, KeyFiles
<1>1. CASE UNCHANGED vars
  BY <1>1 DEF vars
<1>2. ASSUME NEW p \in Process, CheckPrivate(p) \/ CheckPublic(p)
      PROVE  TypeOK'
  BY <1>2 DEF CheckPrivate, CheckPublic, Stages
<1>3. ASSUME NEW p \in Process, CreatePrivate(p) \/ WritePrivate(p)
      PROVE  TypeOK'
  <2>1. stage' \in [Process -> Stages]
    BY <1>3 DEF CreatePrivate, WritePrivate, Stages
  <2>2. private' \in [Path -> KeyFiles]
    BY <1>0, <1>3 DEF CreatePrivate, WritePrivate
  <2> QED
    BY <1>3, <2>1, <2>2 DEF CreatePrivate, WritePrivate
<1>4. ASSUME NEW p \in Process, CreatePublic(p) \/ WritePublic(p)
      PROVE  TypeOK'
  <2>1. stage' \in [Process -> Stages]
    BY <1>4 DEF CreatePublic, WritePublic, Stages
  <2>2. public' \in [Path -> KeyFiles]
    BY <1>0, <1>4 DEF CreatePublic, WritePublic
  <2> QED
    BY <1>4, <2>1, <2>2 DEF CreatePublic, WritePublic
<1>5. ASSUME NEW p \in Process, CreateFails(p) \/ Crash(p)
      PROVE  TypeOK'
  BY <1>5 DEF CreateFails, Crash, Stages
<1>6. ASSUME NEW p \in Process, WriteFails(p)
      PROVE  TypeOK'
  <2>1. stage' \in [Process -> Stages]
    <3>1. stage' = [stage EXCEPT ![p] = "failed"] \/ stage' = [stage EXCEPT ![p] = "left"]
      BY <1>6 DEF WriteFails
    <3> QED
      BY <3>1 DEF Stages
  <2>2. private' \in [Path -> KeyFiles]
    <3>1. private' = [private EXCEPT ![target[p]] = None] \/ private' = private
      BY <1>6 DEF WriteFails
    <3> QED
      BY <1>0, <3>1
  <2>3. target' = target /\ public' = public
    BY <1>6 DEF WriteFails
  <2> QED
    BY <2>1, <2>2, <2>3
<1> QED
  BY <1>1, <1>2, <1>3, <1>4, <1>5, <1>6 DEF Next

-----------------------------------------------------------------------------
(* While a process has its private file open, or has reported success, the *)
(* file at its path is its own; so two processes are never there at once   *)
(* with one path.  A public file is whole only once its owner is done.     *)

Holding == {"created", "private_saved", "public_created", "done"}
Saved   == {"private_saved", "public_created", "done"}

Held(p) ==
  /\ stage[p] \in Holding => private[target[p]].owner = p
  /\ stage[p] \in Saved => private[target[p]].whole
  /\ stage[p] \in {"public_created", "done"} => public[target[p]].owner = p
  /\ stage[p] = "done" => public[target[p]].whole
  /\ stage[p] \in Stages \ (Holding \union {"left", "dead"}) => private[target[p]].owner # p

PublicDone(x) ==
  public[x].whole =>
    /\ public[x].owner \in Process
    /\ stage[public[x].owner] = "done" /\ target[public[x].owner] = x

Ownership ==
  /\ TypeOK
  /\ \A p \in Process : Held(p)
  /\ \A x \in Path : PublicDone(x)

\* No key is there at first.
LEMMA InitOwnership == Init => Ownership
<1> SUFFICES ASSUME Init PROVE Ownership
  OBVIOUS
<1>1. TypeOK
  BY InitType
<1>2. \A p \in Process : Held(p)
  BY KeygenAssumption DEF Init, Held, Holding, Saved, Stages, None
<1>3. \A x \in Path : PublicDone(x)
  BY DEF Init, PublicDone, None
<1> QED
  BY <1>1, <1>2, <1>3 DEF Ownership

\* create_new keeps everybody off a path whose private key is there.
LEMMA NextOwnership == Ownership /\ [Next]_vars => Ownership'
<1> SUFFICES ASSUME Ownership, [Next]_vars PROVE Ownership'
  OBVIOUS
<1> USE KeygenAssumption DEF Goto, Put, KeyFile, None
<1>0. TypeOK'
  BY NextType DEF Ownership
<1>1. CASE UNCHANGED vars
  BY <1>0, <1>1 DEF vars, Ownership, Held, PublicDone
<1>2. ASSUME NEW p \in Process,
             CheckPrivate(p) \/ CheckPublic(p) \/ CreateFails(p) \/ Crash(p)
      PROVE  Ownership'
  <2> USE <1>2 DEF Ownership, TypeOK, CheckPrivate, CheckPublic, CreateFails, Crash
  <2>1. \A q \in Process : Held(q)'
    BY DEF Held, Holding, Saved, Stages
  <2>2. \A x \in Path : PublicDone(x)'
    BY DEF PublicDone, KeyFiles
  <2> QED
    BY <1>0, <2>1, <2>2
<1>3. ASSUME NEW p \in Process, CreatePrivate(p) PROVE Ownership'
  <2> USE <1>3 DEF Ownership, TypeOK, KeyFiles, CreatePrivate
  <2>1. ASSUME NEW q \in Process PROVE Held(q)'
    BY DEF Held, Holding, Saved, Stages
  <2>2. \A x \in Path : PublicDone(x)'
    BY DEF PublicDone
  <2> QED
    BY <1>0, <2>1, <2>2
<1>4. ASSUME NEW p \in Process, WritePrivate(p) PROVE Ownership'
  <2> USE <1>4 DEF Ownership, TypeOK, KeyFiles, WritePrivate
  <2>1. ASSUME NEW q \in Process PROVE Held(q)'
    BY DEF Held, Holding, Saved, Stages
  <2>2. \A x \in Path : PublicDone(x)'
    BY DEF PublicDone
  <2> QED
    BY <1>0, <2>1, <2>2
<1>5. ASSUME NEW p \in Process, CreatePublic(p) PROVE Ownership'
  <2> USE <1>5 DEF Ownership, TypeOK, KeyFiles, CreatePublic
  <2>1. ASSUME NEW q \in Process PROVE Held(q)'
    BY DEF Held, Holding, Saved, Stages
  <2>2. ASSUME NEW x \in Path PROVE PublicDone(x)'
    BY DEF PublicDone
  <2> QED
    BY <1>0, <2>1, <2>2
<1>6. ASSUME NEW p \in Process, WritePublic(p) PROVE Ownership'
  <2> USE <1>6 DEF Ownership, TypeOK, KeyFiles, WritePublic
  <2>1. ASSUME NEW q \in Process PROVE Held(q)'
    BY DEF Held, Holding, Saved, Stages
  <2>2. ASSUME NEW x \in Path PROVE PublicDone(x)'
    BY DEF PublicDone
  <2> QED
    BY <1>0, <2>1, <2>2
<1>7. ASSUME NEW p \in Process, WriteFails(p) PROVE Ownership'
  <2> USE DEF Ownership, TypeOK, KeyFiles
  <2>1. /\ stage[p] \in {"created", "private_saved", "public_created"}
        /\ target' = target /\ public' = public
    BY <1>7 DEF WriteFails
  <2>2. \/ /\ private' = [private EXCEPT ![target[p]] = None]
           /\ stage' = [stage EXCEPT ![p] = "failed"]
        \/ private' = private /\ stage' = [stage EXCEPT ![p] = "left"]
    BY <1>7 DEF WriteFails
  <2>3. ASSUME NEW q \in Process PROVE Held(q)'
    <3>1. CASE private' = private
      BY <2>1, <2>2, <3>1 DEF Held, Holding, Saved, Stages
    <3>2. CASE /\ private' = [private EXCEPT ![target[p]] = None]
               /\ stage' = [stage EXCEPT ![p] = "failed"]
      BY <2>1, <3>2 DEF Held, Holding, Saved, Stages
    <3> QED
      BY <2>2, <3>1, <3>2
  <2>4. ASSUME NEW x \in Path PROVE PublicDone(x)'
    BY <2>1, <2>2 DEF PublicDone
  <2> QED
    BY <1>0, <2>3, <2>4
<1> QED
  BY <1>1, <1>2, <1>3, <1>4, <1>5, <1>6, <1>7 DEF Next

\* Ownership holds throughout.
LEMMA Owned == Spec => []Ownership
BY InitOwnership, NextOwnership, PTL DEF Spec

-----------------------------------------------------------------------------
\* Every reachable state is of the declared types.
THEOREM KeygenTypeOK == Spec => []TypeOK
BY InitType, NextType, PTL DEF Spec

\* Whatever else runs, fails or dies on the same paths, a key pair that was
\* reported stays whole at its path.
THEOREM KeygenHandedOutStays == Spec => []HandedOutStays
<1>1. Ownership => HandedOutStays
  BY DEF Ownership, TypeOK, KeyFiles, Held, Holding, Saved, HandedOutStays, KeyFile
<1> QED
  BY <1>1, Owned, PTL

\* Two whole files of a path are of one identity.
THEOREM KeygenPairMatches == Spec => []PairMatches
<1>1. Ownership => PairMatches
  <2> SUFFICES ASSUME Ownership, NEW x \in Path, private[x].whole, public[x].whole
               PROVE  private[x].owner = public[x].owner
    BY DEF PairMatches
  <2> QED
    BY DEF Ownership, PublicDone, Held, Holding
<1> QED
  BY <1>1, Owned, PTL

\* A run that reports a failure leaves its private key behind only if it could
\* not remove it, and then never next to a whole public key: who holds that one
\* is done, and the private key at the path is its own.
THEOREM KeygenFailureLeavesNoSecret == Spec => []FailureLeavesNoSecret
<1>1. Ownership => FailureLeavesNoSecret
  <2> SUFFICES ASSUME Ownership, NEW p \in Process, stage[p] \in {"failed", "left"},
                      private[target[p]].owner = p
               PROVE  stage[p] = "left" /\ ~public[target[p]].whole
    BY DEF FailureLeavesNoSecret
  <2>1. stage[p] = "left"
    BY DEF Ownership, Held, Holding, Stages
  <2>2. ASSUME public[target[p]].whole PROVE FALSE
    <3>1. PICK q \in Process : stage[q] = "done" /\ target[q] = target[p]
      BY <2>2 DEF Ownership, TypeOK, PublicDone
    <3>2. private[target[q]].owner = q
      BY <3>1 DEF Ownership, Held, Holding
    <3> QED
      BY <2>1, <3>1, <3>2
  <2> QED
    BY <2>1, <2>2
<1> QED
  BY <1>1, Owned, PTL
================================================================================
