--------------------------- MODULE SonameLookup ---------------------------
(***************************************************************************)
(* The first half of update_elf_closure                                    *)
(* (lib/symboldb/update_elf_closure.cpp): the map of the shared libraries  *)
(* of a package set by architecture and soname, ignore_some_conflicts, and *)
(* the lookup of one NEEDED entry in it, with what it reports to the       *)
(* conflicts object (that of --show-soname-conflicts in                    *)
(* lib/symboldb/database.cpp prints it).  The query has no ORDER BY, so    *)
(* the rows come in any order; the map keeps the order of those with the   *)
(* same soname.                                                            *)
(***************************************************************************)
EXTENDS Naturals, Sequences, FiniteSets, SequencesExt

CONSTANTS
  Arches, Sonames,
  Names,           \* file names
  BaseName,        \* BaseName[n]: the part of n after the last slash
  IgnoredNames,    \* ignored_file_name
  Packages,        \* package names, as their places in string order
  IgnoredPackages, \* ignored_package_name
  Priorities,      \* values of file_ref::priority
  MaxRows,         \* bound on the number of rows
  None

Row == [arch : Arches, soname : Sonames \cup {None}, name : Names,
        package : Packages]

ASSUME SonameLookupAssumption ==
  /\ BaseName \in [Names -> Sonames]
  /\ IgnoredNames \subseteq Names
  /\ Packages \subseteq Nat /\ IgnoredPackages \subseteq Packages
  /\ Priorities \subseteq Nat
  /\ MaxRows \in Nat
  /\ None \notin Sonames

VARIABLES
  rows,     \* the shared libraries; a row number is a file ID, 0 none
  arch_soname, \* the row numbers in the map
  need,     \* the architecture and the soname that is looked up
  priority, \* priority[n]: how well name n suits the needing file
  best, at, \* the choice so far, and the row the loop has come to
  choices,  \* the vector that is filled for the conflicts object
  result,   \* the file ID returned
  report,   \* the call to the conflicts object
  pc

vars == <<rows, arch_soname, need, priority, best, at, choices, result, report, pc>>

Nothing == [kind |-> "none", choices |-> <<>>]

Init ==
  /\ rows \in BoundedSeq(Row, MaxRows)
  /\ arch_soname = {}
  /\ need = None /\ priority = None
  /\ best = 0 /\ at = 0 /\ choices = <<>>
  /\ result = 0 /\ report = Nothing
  /\ pc = "map"

(* synthesize_soname for libraries without one.                            *)
SonameOf(r) == IF r.soname = None THEN BaseName[r.name] ELSE r.soname

Provides(k, arch, soname) == rows[k].arch = arch /\ SonameOf(rows[k]) = soname

Rivals(k) == {j \in DOMAIN rows : Provides(j, rows[k].arch, SonameOf(rows[k]))}

Ignorable(k) ==
  rows[k].name \in IgnoredNames \/ rows[k].package \in IgnoredPackages

\* MUTANT: every library that can be ignored is.
SuppressedAlways == {k \in DOMAIN rows : Ignorable(k)}

(* ignore_some_conflicts: the rows that leave exactly one of their rivals  *)
(* when they are all removed.                                              *)
Suppressed ==
  {k \in DOMAIN rows :
     /\ Ignorable(k)
     /\ Cardinality({j \in Rivals(k) : Ignorable(j)}) + 1
          = Cardinality(Rivals(k))}

FillMap ==
  /\ pc = "map"
  /\ arch_soname' = DOMAIN rows \ Suppressed
  /\ pc' = "ready"
  /\ UNCHANGED <<rows, need, priority, best, at, choices, result, report>>

Candidates(n) == {k \in arch_soname : Provides(k, n.arch, n.soname)}
First(S, k) == k \in S /\ \A j \in S : k <= j

Returns(k, what) == pc' = "done" /\ result' = k /\ report' = what

(* lookup, up to the loop.  For an architecture without libraries it       *)
(* returns before anything is reported.                                    *)
Find(n, prio) ==
  /\ pc = "ready"
  /\ need' = n /\ priority' = prio
  /\ LET found == Candidates(n) IN
     \/ /\ \A k \in arch_soname : rows[k].arch # n.arch
        /\ Returns(0, Nothing) /\ UNCHANGED <<best, at>>
     \/ /\ \E k \in arch_soname : rows[k].arch = n.arch
        /\ found = {}
        /\ Returns(0, [kind |-> "missing", choices |-> <<>>])
        /\ UNCHANGED <<best, at>>
     \/ \E k \in found :
          /\ found = {k}
          /\ Returns(k, Nothing) /\ UNCHANGED <<best, at>>
     \/ \E k \in found :
          /\ found # {k} /\ First(found, k)
          /\ best' = k /\ at' = k
          /\ pc' = "scan" /\ UNCHANGED <<result, report>>
  /\ UNCHANGED <<rows, arch_soname, choices>>

\* MUTANT: a library as good as the best one replaces it.
BetterOrEqual(k) == priority[rows[k].name] >= priority[rows[best].name]

(* "On a file name conflict, pick the package with the lexicographically   *)
(* smaller name."                                                          *)
Better(k) ==
  \/ priority[rows[k].name] > priority[rows[best].name]
  \/ /\ rows[k].name = rows[best].name
     /\ rows[k].package < rows[best].package

Left == {k \in Candidates(need) : k > at}

Compare ==
  /\ pc = "scan"
  /\ \E k \in Left :
       /\ First(Left, k)
       /\ at' = k
       /\ best' = IF Better(k) THEN k ELSE best
  /\ UNCHANGED <<rows, arch_soname, need, priority, choices, result, report, pc>>

(* The loop is over; the vector of the conflict starts with the choice.    *)
Choose ==
  /\ pc = "scan"
  /\ Left = {}
  /\ choices' = <<best>> /\ at' = 0
  /\ pc' = "list"
  /\ UNCHANGED <<rows, arch_soname, need, priority, best, result, report>>

\* MUTANT: the choice is listed twice.
WithChoiceAll(k) == Append(choices, k)

WithChoice(k) == IF k # best THEN Append(choices, k) ELSE choices

(* The second loop, over the others in the order of the map.               *)
ListChoice ==
  /\ pc = "list"
  /\ \E k \in Left : First(Left, k) /\ at' = k /\ choices' = WithChoice(k)
  /\ UNCHANGED <<rows, arch_soname, need, priority, best, result, report, pc>>

Report ==
  /\ pc = "list"
  /\ Left = {}
  /\ Returns(best, [kind |-> "conflict", choices |-> choices])
  /\ UNCHANGED <<rows, arch_soname, need, priority, best, at, choices>>

Next ==
  \/ FillMap
  \/ \E n \in [arch : Arches, soname : Sonames], prio \in [Names -> Priorities] :
       Find(n, prio)
  \/ Compare \/ Choose \/ ListChoice \/ Report

Spec == Init /\ [][Next]_vars

-----------------------------------------------------------------------------
Done == pc = "done"
Providers == {k \in DOMAIN rows : Provides(k, need.arch, need.soname)}

(* A soname that the set provides for the architecture is resolved to one  *)
(* of its providers, whatever ignore_some_conflicts has removed ("We must  *)
(* make sure that at least one non-ignored file is left"); and not to one  *)
(* that may be ignored if there is exactly one that may not.               *)
ResolvedIfProvided ==
  Done =>
    /\ IF Providers = {} THEN result = 0 ELSE result \in Providers
    /\ result # 0 /\ Ignorable(result) =>
         Cardinality({k \in Providers : ~Ignorable(k)}) # 1

(* Of the libraries left none is better, and of those with the name of the *)
(* one returned none is in a package with a smaller name, whatever the     *)
(* order of the rows.                                                      *)
BestChosen ==
  Done /\ result # 0 =>
    \A k \in Candidates(need) :
      /\ priority[rows[k].name] <= priority[rows[result].name]
      /\ rows[k].name = rows[result].name =>
           rows[result].package <= rows[k].package

(* A conflict is reported just when several libraries are left, with each  *)
(* of them once and "the first element of CHOICES is the chosen            *)
(* resolution".                                                            *)
ConflictsReported ==
  Done => IF Cardinality(Candidates(need)) <= 1 THEN report.kind # "conflict"
          ELSE /\ report.kind = "conflict"
               /\ IsInjective(report.choices)
               /\ ToSet(report.choices) = Candidates(need)
               /\ Head(report.choices) = result

=============================================================================
