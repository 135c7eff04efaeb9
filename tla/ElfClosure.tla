---------------------------- MODULE ElfClosure ----------------------------
(***************************************************************************)
(* The second half of update_elf_closure                                   *)
(* (lib/symboldb/update_elf_closure.cpp): the fixpoint iteration over the  *)
(* dependency map that the lookups of the NEEDED entries have filled, and  *)
(* the update of table elf_closure with the result.  The loops run over    *)
(* std::map and std::set in the order of the file IDs; elements inserted   *)
(* into the set that is being traversed are visited in the same pass only  *)
(* if they are larger than the current one.                                *)
(***************************************************************************)
EXTENDS Naturals, FiniteSets

CONSTANTS
  Files,     \* file IDs; database::file_id() is 0
  Graphs,    \* the dependencies the lookups may have found
  Tables     \* the rows elf_closure may have for the set before

Pairs == Files \X Files

ASSUME ElfClosureAssumption ==
  /\ Files \subseteq Nat \ {0}
  /\ Graphs \subseteq SUBSET Pairs
  /\ Tables \subseteq SUBSET Pairs

VARIABLES
  direct,   \* the dependencies found by lookup
  deps,     \* closure: deps[f] is {} if f is not a key of the map
  needing,  \* the file of the outer loop, 0 before the first
  dep,      \* the dependency of the inner loop, 0 before the first
  changed,
  skip,     \* conflicts && conflicts->skip_update()
  table,    \* the rows of elf_closure for the set
  pc

vars == <<direct, deps, needing, dep, changed, skip, table, pc>>

Init ==
  /\ direct \in Graphs
  /\ deps = [f \in Files |-> {g \in Files : <<f, g>> \in direct}]
  /\ needing = 0 /\ dep = 0
  /\ changed = TRUE
  /\ skip \in BOOLEAN
  /\ table \in Tables
  /\ pc = "while"

Smallest(S, f) == f \in S /\ \A g \in S : f <= g

StartPass ==
  /\ pc = "while" /\ changed
  /\ changed' = FALSE
  /\ needing' = 0
  /\ pc' = "file"
  /\ UNCHANGED <<direct, deps, dep, skip, table>>

(* The next key of the map after needing, if any.                          *)
FilesLeft == {f \in Files : f > needing /\ deps[f] # {}}

NextFile ==
  /\ pc = "file"
  /\ \/ /\ FilesLeft = {}
        /\ pc' = "while"
        /\ UNCHANGED <<needing, dep>>
     \/ /\ \E f \in Files : Smallest(FilesLeft, f) /\ needing' = f
        /\ dep' = 0
        /\ pc' = "dep"
  /\ UNCHANGED <<direct, deps, changed, skip, table>>

DepsLeft == {d \in deps[needing] : d > dep}

\* MUTANT: changed tells only about the last element.
InsertAllLast(d) ==
  /\ deps' = [deps EXCEPT ![needing] = @ \cup deps[d]]
  /\ changed' = ~(deps[d] \subseteq deps[needing])

\* MUTANT: changed is set whenever the dependency has dependencies.
InsertAllAlways(d) ==
  /\ deps' = [deps EXCEPT ![needing] = @ \cup deps[d]]
  /\ changed' = (changed \/ deps[d] # {})

(* The innermost loop: the dependencies of d become those of needing.      *)
InsertAll(d) ==
  /\ deps' = [deps EXCEPT ![needing] = @ \cup deps[d]]
  /\ changed' = (changed \/ ~(deps[d] \subseteq deps[needing]))

NextDep ==
  /\ pc = "dep"
  /\ \/ /\ DepsLeft = {}
        /\ pc' = "file"
        /\ UNCHANGED <<deps, dep, changed>>
     \/ /\ \E d \in Files : Smallest(DepsLeft, d) /\ dep' = d /\ InsertAll(d)
        /\ UNCHANGED pc
  /\ UNCHANGED <<direct, needing, skip, table>>

Computed == {e \in Pairs : e[2] \in deps[e[1]]}

(* DELETE the rows that are not in the closure, INSERT those that are not  *)
(* in the table.                                                           *)
UpdateTable ==
  table' = IF skip THEN table
           ELSE LET kept == table \cap Computed
                IN kept \cup (Computed \ kept)

Finish ==
  /\ pc = "while" /\ ~changed
  /\ UpdateTable
  /\ pc' = "done"
  /\ UNCHANGED <<direct, deps, needing, dep, changed, skip>>

Next == StartPass \/ NextFile \/ NextDep \/ Finish

Spec == Init /\ [][Next]_vars

(* The computation is a loop in one thread.                                *)
FairSpec == Spec /\ WF_vars(Next)

-----------------------------------------------------------------------------
(* The locals of update_elf_closure have values of their types.            *)
TypeOK ==
  /\ direct \in SUBSET Pairs
  /\ deps \in [Files -> SUBSET Files]
  /\ needing \in Files \cup {0} /\ dep \in Files \cup {0}
  /\ changed \in BOOLEAN /\ skip \in BOOLEAN
  /\ table \in SUBSET Pairs
  /\ pc \in {"while", "file", "dep", "done"}
  /\ pc = "dep" => needing \in Files

Transitive(R) ==
  \A x, y, z \in Files : <<x, y>> \in R /\ <<y, z>> \in R => <<x, z>> \in R

(* When update_elf_closure has written, elf_closure is the transitive      *)
(* closure of the direct dependencies: it has them all, it is transitive,  *)
(* and nothing could be left out, although the loops insert into the sets  *)
(* they traverse and elf_closure had other rows before.                    *)
TableIsClosure ==
  pc = "done" /\ ~skip =>
    /\ direct \subseteq table
    /\ Transitive(table)
    /\ \A X \in SUBSET (table \ direct) :
         Transitive(direct \cup X) => X = table \ direct

(* At no time does a file get a dependency that no chain of NEEDED entries *)
(* leads to.                                                               *)
OnlyReachable ==
  \A f \in Files : \A g \in deps[f] :
    \A S \in SUBSET Files :
      /\ {h \in Files : <<f, h>> \in direct} \subseteq S
      /\ \A x \in S : \A y \in Files : <<x, y>> \in direct => y \in S
      => g \in S

(* The iteration ends, with cycles among the libraries, too.               *)
FixpointReached == <>(pc = "done")
=============================================================================
