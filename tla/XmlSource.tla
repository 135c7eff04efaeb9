----------------------------- MODULE XmlSource -----------------------------
(***************************************************************************)
(* The sources that expat_source reads from, on demand.  repomd.xml and    *)
(* POM files come as they are; primary.xml comes through primary_xml of    *)
(* lib/symboldb/repomd_primary_xml.cpp, which decompresses a file.  What a *)
(* source returns depends on its data only, so a source is the sequence of *)
(* its reads to come: the tokens each one gives, and whether it throws.    *)
(* One that is never made has no effect.                                   *)
(***************************************************************************)
EXTENDS GunzipSource

Reading(out, throws) == [out |-> out, throws |-> throws]
Source(reads) == [reads |-> reads, taken |-> <<>>]

(* A source that holds the data; behind it, a read returns nothing.        *)
plain_source(chunks) ==
  Source([i \in 1..Len(chunks) + 1 |->
            Reading(IF i <= Len(chunks) THEN chunks[i] ELSE <<>>, FALSE)])

(* primary_xml::impl::read, again and again.  The digest of data is the    *)
(* data itself: hash is what was written to hash_, and expected is what    *)
(* repomd.xml has for the compressed file.  Only a read that returns       *)
(* nothing compares the two.                                               *)
RECURSIVE primary_reads(_, _, _, _)
AfterRead(r, length, hash, expected) ==
  IF r.z.thrown THEN <<Reading(<<>>, TRUE)>>
  ELSE IF r.out = <<>> THEN <<Reading(<<>>, hash # expected)>>
  ELSE <<Reading(r.out, FALSE)>> \o primary_reads(r.z, length, hash \o r.out, expected)
primary_reads(z, length, hash, expected) ==
  AfterRead(gunzip_read(z, length), length, hash, expected)

(* primary_xml::impl, for reads of up to length tokens.                    *)
primary_xml(file, length) ==
  Source(primary_reads(NewGunzip(file), length, <<>>, FlattenSeq(file)))

(* source::read, which takes the next of the reads.                        *)
read(s) == [s EXCEPT !.reads = Tail(@), !.taken = @ \o Head(s.reads).out]
=============================================================================
