------------------------- MODULE SonameLookup_proofs ------------------------
(***************************************************************************)
(* For any package set, any order of its rows and any priorities: a NEEDED *)
(* entry is resolved whenever the set provides its soname, to the best     *)
(* library left, and every conflict is reported with all its choices.      *)
(***************************************************************************)
EXTENDS SonameLookup, SequenceTheorems, FiniteSetTheorems, TLAPS

Need == [arch : Arches, soname : Sonames]

TypeOK ==
  /\ rows \in Seq(Row)
  /\ arch_soname \subseteq DOMAIN rows
  /\ best \in Nat /\ at \in Nat /\ choices \in Seq(Nat) /\ result \in Nat
  /\ report \in [kind : {"none", "missing", "conflict"}, choices : Seq(Nat)]
  /\ pc \in {"map", "ready", "scan", "list", "done"}
  /\ pc \in {"scan", "list", "done"} => need \in Need /\ priority \in [Names -> Priorities]

(* After ignore_some_conflicts, just its victims are missing in the map.   *)
Mapped == pc # "map" => arch_soname = DOMAIN rows \ Suppressed

(* Row b is the best of the candidates up to row m.                        *)
BestUpTo(b, m) ==
  /\ b \in Candidates(need)
  /\ \A k \in Candidates(need) :
       k <= m =>
         /\ priority[rows[k].name] <= priority[rows[b].name]
         /\ rows[k].name = rows[b].name => rows[b].package <= rows[k].package

(* The first loop has compared the rows up to at, ...                      *)
Scanned ==
  pc = "scan" =>
    /\ BestUpTo(best, at)
    /\ \E k \in Candidates(need) : k # best

(* ... the second one has listed them, after the choice.                   *)
Lists(c, b, m) ==
  /\ Len(c) > 0 /\ c[1] = b
  /\ \A i, j \in 1..Len(c) : c[i] = c[j] => i = j
  /\ \A x \in Nat :
       (\E i \in 1..Len(c) : c[i] = x) <=> x = b \/ (x \in Candidates(need) /\ x <= m)

BestOfAll(b) == \A m \in Nat : BestUpTo(b, m)

Listed ==
  pc = "list" =>
    /\ BestOfAll(best)
    /\ \E k \in Candidates(need) : k # best
    /\ Lists(choices, best, at)

(* What lookup has returned and reported.                                  *)
Returned ==
  pc = "done" =>
    \/ result = 0 /\ Candidates(need) = {} /\ report.kind # "conflict"
    \/ Candidates(need) = {result} /\ report.kind # "conflict"
    \/ /\ BestOfAll(result)
       /\ \E k \in Candidates(need) : k # result
       /\ report.kind = "conflict"
       /\ \A m \in Nat : (\A k \in Candidates(need) : k <= m) => Lists(report.choices, result, m)

IInv == TypeOK /\ Mapped /\ Scanned /\ Listed /\ Returned

-----------------------------------------------------------------------------
(* The candidates depend on the map, the rows and the name looked up only. *)
LEMMA CandidatesSame ==
  ASSUME UNCHANGED <<rows, arch_soname, need>>
  PROVE  Candidates(need)' = Candidates(need)
BY DEF Candidates, Provides, SonameOf

(* A candidate is a row, and a row has the fields of a library.            *)
LEMMA CandidateRow ==
  ASSUME TypeOK, NEW k \in Candidates(need)
  PROVE  /\ k \in Nat \ {0} /\ k \in DOMAIN rows /\ rows[k].name \in Names
         /\ rows[k].package \in Nat
<1>1. k \in DOMAIN rows /\ DOMAIN rows = 1..Len(rows) /\ Len(rows) \in Nat
  BY LenProperties DEF TypeOK, Candidates
<1>2. rows[k] \in Row
  BY <1>1 DEF TypeOK
<1>3. rows[k].name \in Names /\ rows[k].package \in Nat
  BY <1>2, SonameLookupAssumption DEF Row
<1>4. k \in Nat \ {0}
  BY <1>1
<1> QED BY <1>1, <1>3, <1>4

(* The priority of a candidate is a number.                                *)
LEMMA CandidatePriority ==
  ASSUME TypeOK, pc \in {"scan", "list", "done"}, NEW k \in Candidates(need)
  PROVE  priority[rows[k].name] \in Nat
<1>1. rows[k].name \in Names
  BY CandidateRow
<1> QED BY <1>1, SonameLookupAssumption DEF TypeOK

-----------------------------------------------------------------------------
(* Initially nothing is looked up.                                         *)
LEMMA InitIInv == Init => IInv
<1> SUFFICES ASSUME Init PROVE IInv
  OBVIOUS
<1>1. rows \in Seq(Row)
  <2>1. PICK m \in 0..MaxRows : rows \in [1..m -> Row]
    BY DEF Init, BoundedSeq, SeqOf
  <2>2. m \in Nat
    BY <2>1, SonameLookupAssumption
  <2> QED BY <2>1, <2>2, SeqDef
<1>2. <<>> \in Seq(Nat)
  BY EmptySeq
<1>3. report \in [kind : {"none", "missing", "conflict"}, choices : Seq(Nat)]
  BY <1>2 DEF Init, Nothing
<1>4. TypeOK
  BY <1>1, <1>2, <1>3 DEF Init, TypeOK
<1> QED BY <1>4 DEF Init, IInv, Mapped, Scanned, Listed, Returned

(* The map is filled.                                                      *)
LEMMA FillMapStep == ASSUME IInv, FillMap PROVE IInv'
<1>1. TypeOK'
  BY DEF IInv, TypeOK, FillMap
<1>2. Mapped'
  BY DEF FillMap, Mapped, Suppressed, Ignorable, Rivals, Provides, SonameOf
<1> QED BY <1>1, <1>2 DEF FillMap, IInv, Scanned, Listed, Returned

(* The map stays as it is.                                                 *)
LEMMA MappedSame ==
  ASSUME Mapped, pc # "map", UNCHANGED <<rows, arch_soname>>
  PROVE  Mapped'
BY DEF Mapped, Suppressed, Ignorable, Rivals, Provides, SonameOf

(* lookup up to the loop: none, one or several libraries.                  *)
LEMMA FindStep ==
  ASSUME IInv, NEW n \in Need, NEW prio \in [Names -> Priorities], Find(n, prio)
  PROVE  IInv'
<1>0. TypeOK /\ Mapped /\ pc = "ready"
  BY DEF IInv, Find
<1>1. need' = n /\ priority' = prio /\ UNCHANGED <<rows, arch_soname, choices>>
  BY DEF Find
<1>2. Mapped'
  BY <1>0, <1>1, MappedSame
<1>3. Candidates(need)' = Candidates(n)
  BY <1>1 DEF Candidates, Provides, SonameOf
<1>4. Candidates(n) \subseteq Nat \ {0}
  BY <1>0, LenProperties DEF Candidates, TypeOK
<1>5. CASE pc' = "done" /\ result' = 0 /\ Candidates(n) = {} /\ UNCHANGED <<best, at>>
           /\ report' \in [kind : {"none", "missing"}, choices : {<<>>}]
  <2>1. report' \in [kind : {"none", "missing", "conflict"}, choices : Seq(Nat)]
    BY <1>5, EmptySeq
  <2>2. TypeOK'
    BY <1>0, <1>1, <1>5, <2>1 DEF TypeOK
  <2>3. report'.kind # "conflict"
    BY <1>5
  <2> QED BY <1>2, <1>3, <1>5, <2>2, <2>3 DEF IInv, Scanned, Listed, Returned
<1>6. ASSUME NEW k \in Candidates(n), Candidates(n) = {k}, Returns(k, Nothing),
             UNCHANGED <<best, at>>
      PROVE  IInv'
  <2>1. /\ report' \in [kind : {"none", "missing", "conflict"}, choices : Seq(Nat)]
        /\ report'.kind # "conflict"
    BY <1>6, EmptySeq DEF Returns, Nothing
  <2>2. TypeOK'
    BY <1>0, <1>1, <1>4, <1>6, <2>1 DEF TypeOK, Returns
  <2> QED BY <1>2, <1>3, <1>6, <2>1, <2>2 DEF IInv, Scanned, Listed, Returned, Returns
<1>7. ASSUME NEW k \in Candidates(n), Candidates(n) # {k}, First(Candidates(n), k),
             best' = k, at' = k, pc' = "scan", UNCHANGED <<result, report>>
      PROVE  IInv'
  <2>1. TypeOK'
    BY <1>0, <1>1, <1>4, <1>7 DEF TypeOK
  <2>2. ASSUME NEW j \in Candidates(n), j <= k
        PROVE  /\ prio[rows[j].name] <= prio[rows[k].name]
               /\ rows[j].name = rows[k].name => rows[k].package <= rows[j].package
    <3>1. j = k
      BY <1>4, <1>7, <2>2 DEF First
    <3>2. k \in Candidates(need)'
      BY <1>3
    <3>3. prio[rows[k].name] \in Nat /\ rows[k].package \in Nat
      <4>1. k \in DOMAIN rows
        BY <1>0 DEF TypeOK, Candidates
      <4>2. rows[k] \in Row
        BY <1>0, <4>1 DEF TypeOK
      <4> QED BY <4>2, SonameLookupAssumption DEF Row
    <3> QED BY <3>1, <3>3
  <2>3. Scanned'
    BY <1>1, <1>3, <1>7, <2>2 DEF Scanned, BestUpTo
  <2> QED BY <1>2, <1>7, <2>1, <2>3 DEF IInv, Listed, Returned
<1> QED
  <2>1. CASE (\A k \in arch_soname : rows[k].arch # n.arch)
             /\ Returns(0, Nothing) /\ UNCHANGED <<best, at>>
    <3>1. Candidates(n) = {}
      BY <2>1 DEF Candidates, Provides
    <3> QED BY <1>5, <2>1, <3>1 DEF Returns, Nothing
  <2>2. CASE /\ Candidates(n) = {}
             /\ Returns(0, [kind |-> "missing", choices |-> <<>>])
             /\ UNCHANGED <<best, at>>
    BY <1>5, <2>2 DEF Returns
  <2> QED BY <1>6, <1>7, <2>1, <2>2 DEF Find

-----------------------------------------------------------------------------
(* First names an element that is left, and the rows before it are done.   *)
LEMMA FirstLeft ==
  ASSUME TypeOK, NEW k \in Left, First(Left, k)
  PROVE  /\ k \in Candidates(need) /\ k > at /\ k \in Nat
         /\ \A j \in Candidates(need) : j <= k <=> j <= at \/ j = k
<1>1. \A j \in Candidates(need) : j \in Nat
  BY CandidateRow
<1>2. at \in Nat
  BY DEF TypeOK
<1> QED BY <1>1, <1>2 DEF Left, First

(* One turn of the first loop.                                             *)
LEMMA CompareStep == ASSUME IInv, Compare PROVE IInv'
<1>0. TypeOK /\ Mapped /\ Scanned /\ pc = "scan" /\ pc' = "scan"
  BY DEF IInv, Compare
<1>1. UNCHANGED <<rows, arch_soname, need, priority, choices, result, report>>
  BY DEF Compare
<1>2. PICK k \in Left : /\ First(Left, k) /\ at' = k
                        /\ best' = IF Better(k) THEN k ELSE best
  BY DEF Compare
<1>3. /\ k \in Candidates(need) /\ k > at /\ k \in Nat
      /\ \A j \in Candidates(need) : j <= k <=> j <= at \/ j = k
  BY <1>0, <1>2, FirstLeft
<1>4. best \in Candidates(need) /\ best \in Nat
  BY <1>0, CandidateRow DEF Scanned, BestUpTo
<1>5. TypeOK'
  BY <1>0, <1>1, <1>2, <1>3 DEF TypeOK
<1>6. Candidates(need)' = Candidates(need)
  BY <1>1, CandidatesSame
<1>7. \A j \in Candidates(need) :
        priority[rows[j].name] \in Nat /\ rows[j].package \in Nat
  BY <1>0, CandidateRow, CandidatePriority
<1>8. ASSUME NEW j \in Candidates(need), j <= k
      PROVE  /\ priority[rows[j].name] <= priority[rows[best'].name]
             /\ rows[j].name = rows[best'].name => rows[best'].package <= rows[j].package
  <2>1. j <= at \/ j = k
    BY <1>3, <1>8
  <2>2. j <= at =>
          /\ priority[rows[j].name] <= priority[rows[best].name]
          /\ rows[j].name = rows[best].name => rows[best].package <= rows[j].package
    BY <1>0 DEF Scanned, BestUpTo
  <2> DEFINE P(r) == priority[rows[r].name]
             K(r) == rows[r].package
  <2>0. P(j) \in Nat /\ P(k) \in Nat /\ P(best) \in Nat
        /\ K(j) \in Nat /\ K(k) \in Nat /\ K(best) \in Nat
    BY <1>3, <1>4, <1>7
  <2>3. CASE Better(k)
    <3>1. best' = k
      BY <1>2, <2>3
    <3>2. CASE priority[rows[k].name] > priority[rows[best].name]
      <4>1. CASE j = k
        BY <1>7, <3>1, <4>1
      <4>2. CASE j <= at
        <5>1. P(j) <= P(best) /\ P(k) > P(best)
          BY <2>2, <3>2, <4>2
        <5>2. rows[j].name = rows[k].name => P(j) = P(k)
          OBVIOUS
        <5> HIDE DEF P, K
        <5>3. P(j) <= P(k) /\ P(j) # P(k)
          BY <2>0, <5>1
        <5>4. P(j) <= P(k) /\ rows[j].name # rows[k].name
          BY <5>2, <5>3
        <5> QED BY <3>1, <5>4 DEF P
      <4> QED BY <2>1, <4>1, <4>2
    <3>3. CASE rows[k].name = rows[best].name /\ rows[k].package < rows[best].package
      <4>1. CASE j = k
        BY <1>7, <3>1, <4>1
      <4>2. CASE j <= at
        <5>1. priority[rows[j].name] <= priority[rows[k].name]
          BY <2>2, <3>3, <4>2
        <5>2. rows[j].name = rows[k].name => rows[k].package <= rows[j].package
          <6>1. ASSUME rows[j].name = rows[k].name PROVE K(best) <= K(j) /\ K(k) < K(best)
            BY <2>2, <3>3, <4>2, <6>1
          <6>2. ASSUME rows[j].name = rows[k].name PROVE K(k) <= K(j)
            <7> HIDE DEF K
            <7> QED BY <2>0, <6>1, <6>2
          <6> QED BY <6>2
        <5> QED BY <3>1, <5>1, <5>2
      <4> QED BY <2>1, <4>1, <4>2
    <3> QED BY <2>3, <3>2, <3>3 DEF Better
  <2>4. CASE ~Better(k)
    <3>1. best' = best
      BY <1>2, <2>4
    <3>2. /\ priority[rows[k].name] <= priority[rows[best].name]
          /\ rows[k].name = rows[best].name => rows[best].package <= rows[k].package
      BY <1>3, <1>4, <1>7, <2>4 DEF Better
    <3> QED BY <2>1, <2>2, <3>1, <3>2
  <2> QED BY <2>3, <2>4
<1>9. best' \in Candidates(need) /\ \E j \in Candidates(need) : j # best'
  BY <1>0, <1>2, <1>3, <1>4 DEF Scanned
<1>10. Scanned'
  BY <1>0, <1>1, <1>2, <1>6, <1>8, <1>9 DEF Scanned, BestUpTo
<1> QED BY <1>0, <1>1, <1>5, <1>10, MappedSame DEF IInv, Listed, Returned

(* The choice is made.                                                     *)
LEMMA ChooseStep == ASSUME IInv, Choose PROVE IInv'
<1>0. TypeOK /\ Mapped /\ Scanned /\ pc = "scan" /\ pc' = "list" /\ Left = {}
  BY DEF IInv, Choose
<1>1. /\ UNCHANGED <<rows, arch_soname, need, priority, best, result, report>>
      /\ choices' = <<best>> /\ at' = 0
  BY DEF Choose
<1>2. best \in Nat /\ at \in Nat
  BY <1>0 DEF TypeOK
<1>3. Candidates(need)' = Candidates(need)
  BY <1>1, CandidatesSame
<1>4. \A j \in Candidates(need) : j \in Nat \ {0} /\ j <= at
  BY <1>0, <1>2, CandidateRow DEF Left
<1>5. BestOfAll(best)'
  BY <1>0, <1>1, <1>3, <1>4 DEF Scanned, BestUpTo, BestOfAll
<1>6. <<best>> \in Seq(Nat) /\ Len(<<best>>) = 1 /\ <<best>>[1] = best
  BY <1>2
<1>7. TypeOK'
  BY <1>0, <1>1, <1>6 DEF TypeOK
<1>8. Lists(choices, best, at)'
  BY <1>1, <1>2, <1>3, <1>4, <1>6 DEF Lists
<1>9. Listed'
  BY <1>0, <1>1, <1>3, <1>5, <1>8 DEF Listed, Scanned
<1> QED BY <1>0, <1>1, <1>7, <1>9, MappedSame DEF IInv, Scanned, Returned

(* One turn of the second loop.                                            *)
LEMMA ListStep == ASSUME IInv, ListChoice PROVE IInv'
<1>0. TypeOK /\ Mapped /\ Listed /\ pc = "list" /\ pc' = "list"
  BY DEF IInv, ListChoice
<1>1. UNCHANGED <<rows, arch_soname, need, priority, best, result, report>>
  BY DEF ListChoice
<1>2. PICK k \in Left : First(Left, k) /\ at' = k /\ choices' = WithChoice(k)
  BY DEF ListChoice
<1>3. /\ k \in Candidates(need) /\ k > at /\ k \in Nat
      /\ \A j \in Candidates(need) : j <= k <=> j <= at \/ j = k
  BY <1>0, <1>2, FirstLeft
<1>4. Candidates(need)' = Candidates(need)
  BY <1>1, CandidatesSame
<1>5. best \in Nat /\ at \in Nat /\ choices \in Seq(Nat) /\ Len(choices) \in Nat
  BY <1>0, LenProperties DEF TypeOK
<1>6. Lists(choices, best, at) /\ BestOfAll(best) /\ \E j \in Candidates(need) : j # best
  BY <1>0 DEF Listed
<1>7. choices' \in Seq(Nat)
  BY <1>2, <1>3, <1>5, AppendProperties DEF WithChoice
<1>8. TypeOK'
  BY <1>0, <1>1, <1>2, <1>3, <1>7 DEF TypeOK
<1>9. Lists(choices', best, k)
  <2>1. CASE k = best
    BY <1>2, <1>3, <1>5, <1>6, <2>1 DEF WithChoice, Lists
  <2>2. CASE k # best
    <3>1. /\ Len(choices') = Len(choices) + 1 /\ choices'[Len(choices) + 1] = k
          /\ \A i \in 1..Len(choices) : choices'[i] = choices[i]
      BY <1>2, <1>3, <1>5, <2>2, AppendProperties DEF WithChoice
    <3>2. \A i \in 1..Len(choices) : choices[i] # k
      BY <1>3, <1>5, <1>6, <2>2 DEF Lists
    <3>3. Len(choices') > 0 /\ choices'[1] = best
      BY <1>5, <1>6, <3>1 DEF Lists
    <3>4. \A i, j \in 1..Len(choices') : choices'[i] = choices'[j] => i = j
      <4>1. \A i, j \in 1..Len(choices) : choices[i] = choices[j] => i = j
        BY <1>6 DEF Lists
      <4> QED BY <1>5, <3>1, <3>2, <4>1
    <3>5. ASSUME NEW x \in Nat
          PROVE  (\E i \in 1..Len(choices') : choices'[i] = x)
                   <=> x = best \/ (x \in Candidates(need) /\ x <= k)
      <4>1. (\E i \in 1..Len(choices') : choices'[i] = x)
              <=> x = k \/ \E i \in 1..Len(choices) : choices[i] = x
        BY <1>5, <3>1
      <4>2. (\E i \in 1..Len(choices) : choices[i] = x)
              <=> x = best \/ (x \in Candidates(need) /\ x <= at)
        BY <1>6 DEF Lists
      <4> QED BY <1>3, <1>5, <4>1, <4>2
    <3> QED BY <3>3, <3>4, <3>5 DEF Lists
  <2> QED BY <2>1, <2>2
<1>10. Listed'
  BY <1>0, <1>1, <1>2, <1>4, <1>6, <1>9 DEF Listed, BestOfAll, BestUpTo, Lists
<1> QED BY <1>0, <1>1, <1>8, <1>10, MappedSame DEF IInv, Scanned, Returned

(* The conflict is reported and the choice returned.                       *)
LEMMA ReportStep == ASSUME IInv, Report PROVE IInv'
<1>0. TypeOK /\ Mapped /\ Listed /\ pc = "list" /\ pc' = "done" /\ Left = {}
  BY DEF IInv, Report, Returns
<1>1. /\ UNCHANGED <<rows, arch_soname, need, priority, best, at, choices>>
      /\ result' = best /\ report' = [kind |-> "conflict", choices |-> choices]
  BY DEF Report, Returns
<1>2. best \in Nat /\ at \in Nat /\ choices \in Seq(Nat)
  BY <1>0 DEF TypeOK
<1>3. Candidates(need)' = Candidates(need)
  BY <1>1, CandidatesSame
<1>4. \A j \in Candidates(need) : j \in Nat /\ j <= at
  BY <1>0, <1>2, CandidateRow DEF Left
<1>5. TypeOK'
  <2>1. /\ report' \in [kind : {"none", "missing", "conflict"}, choices : Seq(Nat)]
    BY <1>1, <1>2
  <2> QED BY <1>0, <1>1, <1>2, <2>1 DEF TypeOK
<1>6. ASSUME NEW m \in Nat, \A k \in Candidates(need) : k <= m
      PROVE  Lists(choices, best, m)
  BY <1>0, <1>4, <1>6 DEF Listed, Lists
<1>7. report'.kind = "conflict" /\ report'.choices = choices
  BY <1>1
<1>8. /\ BestOfAll(result)'
      /\ \E k \in Candidates(need) : k # best
  BY <1>0, <1>1, <1>3 DEF Listed, BestOfAll, BestUpTo
<1>9. (\A m \in Nat : (\A k \in Candidates(need) : k <= m)
                        => Lists(report.choices, result, m))'
  BY <1>1, <1>3, <1>6, <1>7 DEF Lists
<1>10. Returned'
  BY <1>1, <1>3, <1>7, <1>8, <1>9 DEF Returned
<1> QED BY <1>0, <1>1, <1>5, <1>10, MappedSame DEF IInv, Scanned, Listed

(* The invariant is inductive.                                             *)
LEMMA NextIInv == IInv /\ [Next]_vars => IInv'
<1> SUFFICES ASSUME IInv, [Next]_vars PROVE IInv'
  OBVIOUS
<1>1. CASE FillMap
  BY <1>1, FillMapStep
<1>2. ASSUME NEW n \in [arch : Arches, soname : Sonames],
             NEW prio \in [Names -> Priorities], Find(n, prio)
      PROVE  IInv'
  BY <1>2, FindStep DEF Need
<1>3. CASE Compare
  BY <1>3, CompareStep
<1>4. CASE Choose
  BY <1>4, ChooseStep
<1>5. CASE ListChoice
  BY <1>5, ListStep
<1>6. CASE Report
  BY <1>6, ReportStep
<1>7. CASE UNCHANGED vars
  <2>1. UNCHANGED <<rows, arch_soname, need, priority, best, at, choices, result, report, pc>>
    BY <1>7 DEF vars
  <2>2. Candidates(need)' = Candidates(need)
    BY <2>1, CandidatesSame
  <2>3. TypeOK' /\ Scanned'
    BY <2>1, <2>2 DEF IInv, TypeOK, Scanned, BestUpTo
  <2>4. Mapped'
    BY <2>1 DEF IInv, Mapped, Suppressed, Ignorable, Rivals, Provides, SonameOf
  <2>5. Listed' /\ Returned'
    BY <2>1, <2>2 DEF IInv, Listed, Returned, Lists, BestOfAll, BestUpTo
  <2> QED BY <2>3, <2>4, <2>5 DEF IInv
<1> QED BY <1>1, <1>2, <1>3, <1>4, <1>5, <1>6, <1>7 DEF Next

-----------------------------------------------------------------------------
(* The inductive invariant holds in every behaviour of the lookup.         *)
THEOREM Invariance == Spec => []IInv
<1>1. Init => IInv
  BY InitIInv
<1> QED BY <1>1, NextIInv, PTL DEF Spec

(* The map, the vector and the result keep their types.                    *)
THEOREM TypeCorrect == Spec => []TypeOK
<1>1. IInv => TypeOK
  BY DEF IInv
<1> QED BY <1>1, Invariance, PTL

(* A row number above every candidate: the number of rows.                 *)
LEMMA CandidatesBounded ==
  ASSUME TypeOK
  PROVE  /\ Len(rows) \in Nat /\ IsFiniteSet(DOMAIN rows)
         /\ \A k \in Candidates(need) : k <= Len(rows)
<1>1. Len(rows) \in Nat /\ DOMAIN rows = 1..Len(rows)
  BY LenProperties DEF TypeOK
<1>2. IsFiniteSet(1..Len(rows))
  BY <1>1, FS_Interval
<1>3. \A k \in Candidates(need) : k \in 1..Len(rows)
  BY <1>1 DEF TypeOK, Candidates
<1> QED BY <1>1, <1>2, <1>3

(* Of the libraries left, the one returned has the highest priority, and   *)
(* among those of its name the smallest package name.                      *)
THEOREM BestReturned == Spec => []BestChosen
<1>1. ASSUME IInv, Done, result # 0, NEW k \in Candidates(need)
      PROVE  /\ priority[rows[k].name] <= priority[rows[result].name]
             /\ rows[k].name = rows[result].name => rows[result].package <= rows[k].package
  <2>1. TypeOK /\ Returned /\ pc = "done"
    BY <1>1 DEF IInv, Done
  <2>2. CASE Candidates(need) = {result}
    BY <1>1, <2>1, <2>2, CandidateRow, CandidatePriority
  <2>3. CASE BestOfAll(result)
    BY <1>1, <2>1, <2>3, CandidatesBounded DEF BestOfAll, BestUpTo
  <2> QED BY <1>1, <2>1, <2>2, <2>3 DEF Returned
<1>2. IInv => BestChosen
  BY <1>1 DEF BestChosen
<1> QED BY <1>2, Invariance, PTL

(* A conflict is reported just when several libraries are left, each of    *)
(* them once, the chosen one first.                                        *)
THEOREM AllConflictsReported == Spec => []ConflictsReported
<1>1. ASSUME IInv, Done PROVE ConflictsReported
  <2>0. TypeOK /\ Returned /\ pc = "done"
    BY <1>1 DEF IInv, Done
  <2>1. /\ Len(rows) \in Nat /\ IsFiniteSet(DOMAIN rows)
        /\ \A k \in Candidates(need) : k <= Len(rows)
    BY <2>0, CandidatesBounded
  <2>2. IsFiniteSet(Candidates(need)) /\ Cardinality(Candidates(need)) \in Nat
    <3>1. Candidates(need) \subseteq DOMAIN rows
      BY <2>0 DEF TypeOK, Candidates
    <3> QED BY <2>1, <3>1, FS_Subset, FS_CardinalityType
  <2>3. CASE Candidates(need) = {} /\ report.kind # "conflict"
    BY <2>3, FS_EmptySet DEF ConflictsReported
  <2>4. CASE Candidates(need) = {result} /\ report.kind # "conflict"
    <3>1. Cardinality({result}) = 1
      BY FS_Singleton
    <3> QED BY <2>4, <3>1 DEF ConflictsReported
  <2>5. CASE /\ BestOfAll(result)
             /\ \E k \in Candidates(need) : k # result
             /\ report.kind = "conflict"
             /\ \A m \in Nat : (\A k \in Candidates(need) : k <= m)
                                 => Lists(report.choices, result, m)
    <3>1. Lists(report.choices, result, Len(rows))
      BY <2>1, <2>5
    <3>2. result \in Candidates(need)
      BY <2>5 DEF BestOfAll, BestUpTo
    <3>3. ~(Cardinality(Candidates(need)) <= 1)
      <4>1. Cardinality(Candidates(need)) # 0 /\ Cardinality(Candidates(need)) # 1
        BY <2>2, <2>5, <3>2, FS_EmptySet, FS_Singleton
      <4> QED BY <2>2, <4>1
    <3>4. report.choices \in Seq(Nat)
      BY <2>0 DEF TypeOK
    <3>5. /\ DOMAIN report.choices = 1..Len(report.choices)
          /\ \A i \in 1..Len(report.choices) : report.choices[i] \in Nat
      BY <3>4, LenProperties, ElementOfSeq
    <3>6. IsInjective(report.choices)
      BY <3>1, <3>5 DEF Lists, IsInjective
    <3>7. ToSet(report.choices) = Candidates(need)
      <4>1. \A x : x \in ToSet(report.choices)
                     <=> \E i \in 1..Len(report.choices) : report.choices[i] = x
        BY <3>5 DEF ToSet
      <4>2. \A x \in Candidates(need) : x \in Nat
        BY <2>0, CandidateRow
      <4>3. \A x \in Nat : (\E i \in 1..Len(report.choices) : report.choices[i] = x)
                            <=> x \in Candidates(need)
        BY <2>1, <3>1, <3>2 DEF Lists
      <4>4. \A x \in ToSet(report.choices) : x \in Nat
        BY <3>5, <4>1
      <4> QED BY <4>1, <4>2, <4>3, <4>4
    <3>8. Head(report.choices) = result
      BY <3>1, <3>4 DEF Lists
    <3> QED BY <2>5, <3>3, <3>6, <3>7, <3>8 DEF ConflictsReported
  <2> QED BY <2>0, <2>3, <2>4, <2>5 DEF Returned
<1>2. IInv => ConflictsReported
  BY <1>1 DEF ConflictsReported
<1> QED BY <1>2, Invariance, PTL

-----------------------------------------------------------------------------
(* All rows with the same architecture and soname are rivals.              *)
LEMMA RivalsOfProvider ==
  ASSUME NEW k \in Providers
  PROVE  Rivals(k) = Providers
BY DEF Providers, Rivals, Provides

(* ignore_some_conflicts leaves one of the providers of a soname, and if   *)
(* just one of them may not be ignored, it removes all others.             *)
LEMMA LeftOver ==
  ASSUME TypeOK, Mapped, pc # "map"
  PROVE  /\ Providers # {} => Candidates(need) # {}
         /\ Candidates(need) \subseteq Providers
         /\ \A k \in Candidates(need) :
              Ignorable(k) => Cardinality({j \in Providers : ~Ignorable(j)}) # 1
<1> DEFINE Ign == {j \in Providers : Ignorable(j)}
           Not == {j \in Providers : ~Ignorable(j)}
<1>1. arch_soname = DOMAIN rows \ Suppressed
  BY DEF Mapped
<1>2. Candidates(need) = Providers \ Suppressed
  BY <1>1 DEF Candidates, Providers
<1>3. \A k \in Providers :
        k \in Suppressed <=> Ignorable(k) /\ Cardinality(Ign) + 1 = Cardinality(Providers)
  <2> SUFFICES ASSUME NEW k \in Providers
               PROVE  k \in Suppressed <=>
                        Ignorable(k) /\ Cardinality(Ign) + 1 = Cardinality(Providers)
    OBVIOUS
  <2>1. Rivals(k) = Providers /\ k \in DOMAIN rows
    BY RivalsOfProvider DEF Providers
  <2>2. {j \in Rivals(k) : Ignorable(j)} = Ign
    BY <2>1
  <2> HIDE DEF Ign
  <2> QED BY <2>1, <2>2 DEF Suppressed
<1>4. IsFiniteSet(Providers)
  <2>1. Providers \subseteq DOMAIN rows /\ IsFiniteSet(DOMAIN rows)
    BY CandidatesBounded DEF Providers
  <2> QED BY <2>1, FS_Subset
<1>5. /\ IsFiniteSet(Ign) /\ IsFiniteSet(Not) /\ Ign \cup Not = Providers /\ Ign \cap Not = {}
  <2>1. Ign \subseteq Providers /\ Not \subseteq Providers
    OBVIOUS
  <2> QED BY <1>4, <2>1, FS_Subset
<1>6. Cardinality(Providers) = Cardinality(Ign) + Cardinality(Not)
      /\ Cardinality(Ign) \in Nat /\ Cardinality(Not) \in Nat
  <2>1. Cardinality(Ign \cup Not)
          = Cardinality(Ign) + Cardinality(Not) - Cardinality(Ign \cap Not)
    BY <1>5, FS_Union
  <2>2. Cardinality(Ign \cap Not) = 0
    BY <1>5, FS_EmptySet
  <2>3. Cardinality(Ign) \in Nat /\ Cardinality(Not) \in Nat
    BY <1>5, FS_CardinalityType
  <2>4. Cardinality(Providers) = Cardinality(Ign \cup Not)
    BY <1>5
  <2> HIDE DEF Ign, Not
  <2> QED BY <2>1, <2>2, <2>3, <2>4
<1>7. ASSUME Providers # {} PROVE Candidates(need) # {}
  <2>1. PICK k \in Providers : TRUE
    BY <1>7
  <2>2. CASE k \in Suppressed
    <3>1. Cardinality(Not) # 0
      <4> HIDE DEF Ign, Not
      <4> QED BY <1>3, <1>6, <2>1, <2>2
    <3>2. PICK j \in Not : TRUE
      BY <3>1, FS_EmptySet
    <3>3. j \in Providers /\ j \notin Suppressed
      BY <3>2 DEF Suppressed
    <3> QED BY <1>2, <3>3
  <2>3. CASE k \notin Suppressed
    BY <1>2, <2>1, <2>3
  <2> QED BY <2>2, <2>3
<1>8. ASSUME NEW k \in Candidates(need), Ignorable(k) PROVE Cardinality(Not) # 1
  <2>1. k \in Providers /\ k \notin Suppressed
    BY <1>2
  <2> HIDE DEF Ign, Not
  <2> QED BY <1>3, <1>6, <1>8, <2>1
<1> QED BY <1>2, <1>7, <1>8

(* A soname that the set provides for the architecture is resolved to one  *)
(* of its providers, whatever ignore_some_conflicts has removed, and not   *)
(* to one that may be ignored if exactly one may not.                      *)
THEOREM Resolved == Spec => []ResolvedIfProvided
<1>1. ASSUME IInv, Done PROVE ResolvedIfProvided
  <2>0. TypeOK /\ Mapped /\ Returned /\ pc = "done"
    BY <1>1 DEF IInv, Done
  <2>1. /\ Providers # {} => Candidates(need) # {}
        /\ Candidates(need) \subseteq Providers
        /\ \A k \in Candidates(need) :
             Ignorable(k) => Cardinality({j \in Providers : ~Ignorable(j)}) # 1
    BY <2>0, LeftOver
  <2>2. \/ result = 0 /\ Candidates(need) = {}
        \/ result \in Candidates(need) /\ result # 0
    <3>1. 0 \notin Candidates(need)
      BY <2>0, CandidateRow
    <3> QED BY <2>0, <3>1 DEF Returned, BestOfAll, BestUpTo
  <2> QED BY <2>1, <2>2 DEF ResolvedIfProvided
<1>2. IInv => ResolvedIfProvided
  BY <1>1 DEF ResolvedIfProvided
<1> QED BY <1>2, Invariance, PTL
=============================================================================
