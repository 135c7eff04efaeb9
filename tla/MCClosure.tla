----------------------------- MODULE MCClosure -----------------------------
(* Every dependency graph on four files in which at most the first depends *)
(* on itself.  Some rows of elf_closure have to be kept, some to be        *)
(* deleted.                                                                *)
EXTENDS ElfClosure

MCGraphs == SUBSET {e \in Pairs : e[1] # e[2] \/ e[1] = 1}
MCTables == {{<<1, 2>>, <<2, 1>>}}
=============================================================================
