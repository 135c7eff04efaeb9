----------------------------- MODULE MCLookup -----------------------------
(* Up to three libraries, of two architectures, some of them in a package  *)
(* that may be ignored, in any order.                                      *)
EXTENDS SonameLookup
CONSTANTS s, t, a, b

MCBaseName == (a :> s) @@ (b :> t)
=============================================================================
