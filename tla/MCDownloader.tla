---------------------------- MODULE MCDownloader ----------------------------
(* Three packages for two helpers: the queue has room for two, so a push   *)
(* can block.                                                              *)
EXTENDS Downloader
CONSTANTS u1, u2, u3

MCUrlList == <<u1, u2, u3>>
MCNameOrder == (u1 :> 2) @@ (u2 :> 3) @@ (u3 :> 1)
=============================================================================
