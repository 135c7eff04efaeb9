----------------------------- MODULE MCDownload -----------------------------
(* A file of two blocks, of which a callback may bring one or both and a   *)
(* read may take one or both, that is replaced by an empty one.            *)
EXTENDS Download

MCSizes == <<2, 0>>
=============================================================================
