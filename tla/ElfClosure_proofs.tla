------------------------- MODULE ElfClosure_proofs -------------------------
(***************************************************************************)
(* update_elf_closure computes the transitive closure for every set of     *)
(* files, every dependency graph and every previous content of the table.  *)
(* Inductive invariant: deps holds the direct dependencies (HasDirect) and *)
(* only pairs that are in every transitive relation with them (InEvery);   *)
(* while a pass has not changed anything, the files it has passed need     *)
(* nothing more (FilesSettled, DepsSettled).  A pass that ends unchanged   *)
(* has passed all files, so deps is transitive.                            *)
(***************************************************************************)
EXTENDS ElfClosure, TLAPS

HasDirect == \A f, g \in Files : <<f, g>> \in direct => g \in deps[f]

InEvery ==
  \A S \in SUBSET Pairs :
    direct \subseteq S /\ Transitive(S) =>
      \A f \in Files : \A g \in deps[f] : <<f, g>> \in S

Settled(f, d) == deps[d] \subseteq deps[f]

Passed(f) ==
  \/ pc \in {"while", "done"}
  \/ pc = "file" /\ f <= needing
  \/ pc = "dep" /\ f < needing

FilesSettled ==
  ~changed => \A f \in Files : Passed(f) => \A d \in deps[f] : Settled(f, d)

DepsSettled ==
  ~changed /\ pc = "dep" =>
    \A d \in deps[needing] : d <= dep => Settled(needing, d)

Written == pc = "done" => ~changed /\ (~skip => table = Computed)

IInv ==
  TypeOK /\ HasDirect /\ InEvery /\ FilesSettled /\ DepsSettled /\ Written

-----------------------------------------------------------------------------
(* The start of update_elf_closure's loop: nothing has been passed yet.    *)
LEMMA InitIInv == Init => IInv
<1> SUFFICES ASSUME Init PROVE IInv
    OBVIOUS
<1> USE ElfClosureAssumption DEF Init
<1>1. TypeOK
    BY DEF TypeOK, Pairs
<1>2. HasDirect
    BY DEF HasDirect
<1>3. InEvery
    BY DEF InEvery
<1>4. FilesSettled /\ DepsSettled /\ Written
    BY DEF FilesSettled, DepsSettled, Written
<1>5. QED
    BY <1>1, <1>2, <1>3, <1>4 DEF IInv

(* Every statement of the loops keeps the types.                           *)
LEMMA TypeStep == TypeOK /\ [Next]_vars => TypeOK'
<1> SUFFICES ASSUME TypeOK, [Next]_vars PROVE TypeOK'
    OBVIOUS
<1> USE ElfClosureAssumption DEF TypeOK
<1>1. CASE StartPass
    BY <1>1 DEF StartPass
<1>2. CASE NextFile
    BY <1>2 DEF NextFile
<1>3. CASE NextDep
  <2>1. CASE DepsLeft = {} /\ pc' = "file" /\ UNCHANGED <<deps, dep, changed>>
      BY <1>3, <2>1 DEF NextDep
  <2>2. ASSUME NEW d \in Files, dep' = d, InsertAll(d), UNCHANGED pc
        PROVE  TypeOK'
      BY <1>3, <2>2 DEF NextDep, InsertAll
  <2>3. QED
      BY <1>3, <2>1, <2>2 DEF NextDep
<1>4. CASE Finish
  <2>1. Computed \in SUBSET Pairs
      BY DEF Computed
  <2>2. table' \in SUBSET Pairs
      BY <1>4, <2>1 DEF Finish, UpdateTable
  <2>3. QED
      BY <1>4, <2>2 DEF Finish
<1>5. CASE UNCHANGED vars
    BY <1>5 DEF vars
<1>6. QED
    BY <1>1, <1>2, <1>3, <1>4, <1>5 DEF Next

(* InsertAll adds what transitivity demands, and nothing if changed stays  *)
(* FALSE.                                                                  *)
LEMMA InsertStep ==
  ASSUME IInv, pc = "dep", NEW d \in Files, d \in deps[needing], InsertAll(d),
         UNCHANGED <<direct, needing, pc>>
  PROVE  /\ HasDirect' /\ InEvery'
         /\ \A f \in Files : deps[f] \subseteq deps'[f]
         /\ ~changed' => ~changed /\ deps' = deps /\ Settled(needing, d)
<1> USE DEF IInv, TypeOK, InsertAll
<1>1. \A f \in Files : deps[f] \subseteq deps'[f]
    OBVIOUS
<1>2. HasDirect'
    BY <1>1 DEF HasDirect
<1>3. InEvery'
  <2> SUFFICES ASSUME NEW S \in SUBSET Pairs, direct \subseteq S, Transitive(S),
                      NEW f \in Files, NEW g \in deps'[f]
               PROVE  <<f, g>> \in S
      BY DEF InEvery, Transitive
  <2>1. \A x \in Files : \A y \in deps[x] : <<x, y>> \in S
      BY DEF InEvery
  <2>2. CASE g \in deps[f]
      BY <2>1, <2>2
  <2>3. CASE g \notin deps[f]
    <3>1. f = needing /\ g \in deps[d]
        BY <2>3
    <3>2. <<f, d>> \in S /\ <<d, g>> \in S
        BY <2>1, <3>1
    <3>3. g \in Files
        BY <3>1
    <3>4. QED
        BY <3>2, <3>3 DEF Transitive
  <2>4. QED
      BY <2>2, <2>3
<1>4. ASSUME ~changed'
      PROVE  ~changed /\ deps' = deps /\ Settled(needing, d)
  <2>1. ~changed /\ deps[d] \subseteq deps[needing]
      BY <1>4
  <2>2. deps' = deps
      BY <2>1
  <2>3. QED
      BY <2>1, <2>2 DEF Settled
<1>5. QED
    BY <1>1, <1>2, <1>3, <1>4

(* No statement of the loops breaks the invariant.                         *)
LEMMA StepIInv == IInv /\ [Next]_vars => IInv'
<1> SUFFICES ASSUME IInv, [Next]_vars PROVE IInv'
    OBVIOUS
<1>t. TypeOK /\ TypeOK'
    BY TypeStep DEF IInv
<1>n. \A f \in Files \cup {0} : f \in Nat
    BY ElfClosureAssumption
<1>1. CASE StartPass
  <2>1. HasDirect' /\ InEvery'
      BY <1>1 DEF StartPass, IInv, HasDirect, InEvery, Transitive
  <2>2. \A f \in Files : ~(f <= needing')
      BY <1>1, ElfClosureAssumption DEF StartPass
  <2>3. FilesSettled' /\ DepsSettled' /\ Written'
      BY <1>1, <2>2 DEF StartPass, FilesSettled, DepsSettled, Written, Passed
  <2>4. QED
      BY <1>t, <2>1, <2>3 DEF IInv
<1>2. CASE NextFile
  <2>1. HasDirect' /\ InEvery' /\ Written'
      BY <1>2 DEF NextFile, IInv, HasDirect, InEvery, Transitive, Written
  <2>2. UNCHANGED <<deps, changed>>
      BY <1>2 DEF NextFile
  <2>3. CASE FilesLeft = {} /\ pc' = "while" /\ UNCHANGED <<needing, dep>>
    <3>1. \A f \in Files : f > needing => deps[f] = {}
        BY <2>3 DEF FilesLeft
    <3>2. \A f \in Files : f <= needing \/ f > needing
        BY <1>t, <1>n DEF TypeOK
    <3>3. FilesSettled'
        BY <1>2, <2>2, <2>3, <3>1, <3>2
        DEF NextFile, IInv, FilesSettled, Passed, Settled
    <3>4. DepsSettled'
        BY <2>3 DEF DepsSettled
    <3>5. QED
        BY <1>t, <2>1, <3>3, <3>4 DEF IInv
  <2>4. CASE (\E f \in Files : Smallest(FilesLeft, f) /\ needing' = f)
               /\ dep' = 0 /\ pc' = "dep"
    <3>1. needing' \in Files /\ Smallest(FilesLeft, needing')
        BY <2>4
    <3>2. \A f \in Files : f < needing' => f <= needing \/ deps[f] = {}
        BY <3>1, <1>t, <1>n DEF Smallest, FilesLeft, TypeOK
    <3>3. FilesSettled'
        BY <1>2, <2>2, <2>4, <3>2
        DEF NextFile, IInv, FilesSettled, Passed, Settled
    <3>4. \A d \in deps[needing'] : ~(d <= dep')
        BY <2>4, <3>1, <1>t, ElfClosureAssumption DEF TypeOK
    <3>5. DepsSettled'
        BY <2>2, <3>4 DEF DepsSettled
    <3>6. QED
        BY <1>t, <2>1, <3>3, <3>5 DEF IInv
  <2>5. QED
      BY <1>2, <2>3, <2>4 DEF NextFile
<1>3. CASE NextDep
  <2>1. CASE DepsLeft = {} /\ pc' = "file" /\ UNCHANGED <<deps, dep, changed>>
    <3>1. HasDirect' /\ InEvery' /\ Written'
        BY <1>3, <2>1 DEF NextDep, IInv, HasDirect, InEvery, Transitive, Written
    <3>2. \A d \in deps[needing] : d <= dep
        BY <1>3, <2>1, <1>t, <1>n DEF NextDep, DepsLeft, TypeOK
    <3>3. UNCHANGED needing /\ pc = "dep" /\ needing \in Files
        BY <1>3, <1>t DEF NextDep, TypeOK
    <3>4. ~changed => \A d \in deps[needing] : Settled(needing, d)
        BY <3>2, <3>3 DEF IInv, DepsSettled
    <3>5. \A f \in Files : f <= needing => f < needing \/ f = needing
        BY <3>3, <1>n
    <3>6. FilesSettled'
        BY <2>1, <3>3, <3>4, <3>5 DEF IInv, FilesSettled, Passed, Settled
    <3>7. DepsSettled'
        BY <2>1 DEF DepsSettled
    <3>8. QED
        BY <1>t, <3>1, <3>6, <3>7 DEF IInv
  <2>2. ASSUME NEW d \in Files, Smallest(DepsLeft, d), dep' = d, InsertAll(d),
               UNCHANGED pc
        PROVE  IInv'
    <3>1. /\ pc = "dep" /\ UNCHANGED <<direct, needing, skip, table>>
          /\ d \in deps[needing] /\ needing \in Files
        BY <1>3, <2>2, <1>t DEF NextDep, Smallest, DepsLeft, TypeOK
    <3>2. /\ HasDirect' /\ InEvery'
          /\ ~changed' => ~changed /\ deps' = deps /\ Settled(needing, d)
        BY <2>2, <3>1, InsertStep
    <3>3. FilesSettled'
        BY <2>2, <3>1, <3>2 DEF IInv, FilesSettled, Passed, Settled
    <3>4. \A e \in deps[needing] : e <= d => e <= dep \/ e = d
        BY <2>2, <3>1, <1>t, <1>n DEF Smallest, DepsLeft, TypeOK
    <3>5. DepsSettled'
        BY <2>2, <3>1, <3>2, <3>4 DEF IInv, DepsSettled, Settled
    <3>6. Written'
        BY <2>2, <3>1 DEF Written
    <3>7. QED
        BY <1>t, <3>2, <3>3, <3>5, <3>6 DEF IInv
  <2>3. QED
      BY <1>3, <2>1, <2>2 DEF NextDep
<1>4. CASE Finish
  <2>1. HasDirect' /\ InEvery'
      BY <1>4 DEF Finish, IInv, HasDirect, InEvery, Transitive
  <2>2. FilesSettled' /\ DepsSettled'
      BY <1>4 DEF Finish, IInv, FilesSettled, DepsSettled, Passed, Settled
  <2>3. Computed' = Computed
      BY <1>4 DEF Finish, Computed
  <2>4. Written'
      BY <1>4, <2>3 DEF Finish, UpdateTable, Written
  <2>5. QED
      BY <1>t, <2>1, <2>2, <2>4 DEF IInv
<1>5. CASE UNCHANGED vars
  <2>1. Computed' = Computed
      BY <1>5 DEF vars, Computed
  <2>2. QED
      BY <1>5, <1>t, <2>1 DEF vars, IInv, HasDirect, InEvery, Transitive,
        FilesSettled, DepsSettled, Passed, Settled, Written
<1>6. QED
    BY <1>1, <1>2, <1>3, <1>4, <1>5 DEF Next

(* The invariant of the fixpoint loop holds throughout.                    *)
THEOREM Inductive == Spec => []IInv
BY InitIInv, StepIInv, PTL DEF Spec

(* The locals of update_elf_closure keep their types.                      *)
THEOREM TypeCorrect == Spec => []TypeOK
<1>1. IInv => TypeOK
    BY DEF IInv
<1>2. QED
    BY <1>1, Inductive, PTL

-----------------------------------------------------------------------------
(* What update_elf_closure leaves in elf_closure is the transitive closure *)
(* of the dependencies lookup found.                                       *)
THEOREM ClosureCorrect == Spec => []TableIsClosure
<1>1. IInv => TableIsClosure
  <2> SUFFICES ASSUME IInv, pc = "done", ~skip
               PROVE  /\ direct \subseteq table
                      /\ Transitive(table)
                      /\ \A X \in SUBSET (table \ direct) :
                           Transitive(direct \cup X) => X = table \ direct
      BY DEF TableIsClosure
  <2>1. TypeOK /\ table = Computed /\ ~changed
      BY DEF IInv, Written
  <2>2. \A f, g \in Files : <<f, g>> \in table <=> g \in deps[f]
      BY <2>1 DEF Computed, Pairs
  <2>3. direct \subseteq table
    <3> SUFFICES ASSUME NEW e \in direct PROVE e \in table
        OBVIOUS
    <3>1. PICK f, g \in Files : e = <<f, g>>
        BY <2>1 DEF TypeOK, Pairs
    <3>2. QED
        BY <2>2, <3>1 DEF IInv, HasDirect
  <2>4. Transitive(table)
    <3>1. \A f \in Files : \A d \in deps[f] : deps[d] \subseteq deps[f]
        BY <2>1 DEF IInv, FilesSettled, Passed, Settled
    <3>2. QED
        BY <2>2, <3>1 DEF Transitive
  <2>5. ASSUME NEW X \in SUBSET (table \ direct), Transitive(direct \cup X)
        PROVE  X = table \ direct
    <3> DEFINE S == direct \cup X
    <3>1. S \in SUBSET Pairs
        BY <2>1 DEF TypeOK
    <3>2. \A f \in Files : \A g \in deps[f] : <<f, g>> \in S
        BY <2>5, <3>1 DEF IInv, InEvery
    <3>3. table \subseteq S
      <4> SUFFICES ASSUME NEW e \in table PROVE e \in S
          OBVIOUS
      <4>1. PICK f, g \in Files : e = <<f, g>>
          BY <2>1 DEF TypeOK, Pairs
      <4>2. QED
          BY <2>2, <3>2, <4>1
    <3>4. QED
        BY <3>3
  <2>6. QED
      BY <2>3, <2>4, <2>5
<1>2. QED
    BY <1>1, Inductive, PTL

(* The loops never give a file a dependency that is not reachable from it. *)
THEOREM ReachableCorrect == Spec => []OnlyReachable
<1>1. IInv => OnlyReachable
  <2> SUFFICES ASSUME IInv, NEW f \in Files, NEW g \in deps[f],
                      NEW S \in SUBSET Files,
                      {h \in Files : <<f, h>> \in direct} \subseteq S,
                      \A x \in S : \A y \in Files : <<x, y>> \in direct => y \in S
               PROVE  g \in S
      BY DEF OnlyReachable
  <2> DEFINE R == {e \in Pairs : e[1] \in S \cup {f} => e[2] \in S}
  <2>1. \A x, y \in Files : <<x, y>> \in R <=> (x \in S \cup {f} => y \in S)
      BY DEF Pairs
  <2>2. direct \subseteq R
    <3> SUFFICES ASSUME NEW e \in direct PROVE e \in R
        OBVIOUS
    <3>1. PICK x, y \in Files : e = <<x, y>>
        BY DEF IInv, TypeOK, Pairs
    <3>2. QED
        BY <2>1, <3>1
  <2> HIDE DEF R
  <2>3. Transitive(R)
      BY <2>1 DEF Transitive
  <2>4. R \in SUBSET Pairs
      BY DEF R
  <2>5. <<f, g>> \in R
      BY <2>2, <2>3, <2>4 DEF IInv, InEvery
  <2>6. g \in Files
      BY DEF IInv, TypeOK
  <2>7. QED
      BY <2>1, <2>5, <2>6
<1>2. QED
    BY <1>1, Inductive, PTL
=============================================================================
