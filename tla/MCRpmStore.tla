----------------------------- MODULE MCRpmStore -----------------------------
(* RPMs that share their contents.  bin1 and bin2 add the two of them in   *)
(* opposite order, bin2 under names that keep the full contents; src has   *)
(* one of them in a source package, and link gives it a second name by a   *)
(* hard link that ends in .py.                                             *)
EXTENDS RpmStore
CONSTANTS bin1, bin2, src, link, elf, text, lib, plain, conf, py, rawhide

F(c, names) == [content |-> c, names |-> names]

MCNames == {lib, plain, conf, py}
MCFormat == (elf :> "elf") @@ (text :> "text")
MCFilesOf ==
  (bin1 :> <<F(elf, <<lib>>), F(text, <<plain>>)>>) @@
  (bin2 :> <<F(text, <<conf>>), F(elf, <<lib>>)>>) @@
  (src :> <<F(text, <<plain>>)>>) @@
  (link :> <<F(text, <<plain, py>>)>>)

LoadOnly(rpms) == [rpms |-> rpms, set |-> None, create |-> FALSE]
UpdateTo(rpms) == [rpms |-> rpms, set |-> rawhide, create |-> FALSE]
CreateOf(rpms) == [rpms |-> rpms, set |-> rawhide, create |-> TRUE]

(* A load only, an update of a set, and the creation of the same set.      *)
LoadCommands == {LoadOnly(<<bin1>>), UpdateTo(<<bin2>>), CreateOf(<<src>>)}
SetCommands == {UpdateTo(<<link>>), UpdateTo(<<link, bin1>>), UpdateTo(<<>>), CreateOf(<<link>>)}
=============================================================================
