------------------------------ MODULE MCFiles ------------------------------
(* Two processes and one digest: all races are about one file.             *)
EXTENDS FileCache
=============================================================================
