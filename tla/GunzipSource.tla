---------------------------- MODULE GunzipSource ----------------------------
(***************************************************************************)
(* lib/cxxll/gunzip_source.cpp: decompresses a source.  A gzip file is a   *)
(* sequence of members, a member a header, units of compressed data and a  *)
(* trailer; a unit expands to some blocks.  The state is a record, read an *)
(* operator on it; chunks is what the reads of the source will return.     *)
(***************************************************************************)
EXTENDS Integers, Sequences, SequencesExt

Header == [u |-> "header"]
Data(blocks) == [u |-> "data", blocks |-> blocks]
Trailer == [u |-> "trailer"]
Garbage == [u |-> "garbage"]

(* avail_in: the part of buffer_ that inflate has not consumed.  window    *)
(* and inside: output that inflate still holds, and whether it is behind a *)
(* header.                                                                 *)
NewGunzip(chunks) ==
  [chunks |-> chunks, avail_in |-> <<>>, window |-> <<>>, inside |-> FALSE,
   end_seen_ |-> FALSE, thrown |-> FALSE]

Throw(z, out) == [z |-> [z EXCEPT !.thrown = TRUE], out |-> out]

(* inflate (zlib): goes on while there is input and room for output.       *)
Inflated(z, out, ret) == [z |-> z, out |-> out, ret |-> ret]

RECURSIVE Inflate(_, _, _, _)
Inflate(z, out, room, ret) ==
  IF z.window # <<>>
  THEN IF room = 0 THEN Inflated(z, out, ret)
       ELSE Inflate([z EXCEPT !.window = Tail(@)],
                    Append(out, Head(z.window)), room - 1, "Z_OK")
  ELSE IF z.avail_in = <<>> THEN Inflated(z, out, ret)
  ELSE LET unit == Head(z.avail_in)
           y == [z EXCEPT !.avail_in = Tail(@)]
       IN CASE unit.u = "header" /\ ~z.inside ->
                 Inflate([y EXCEPT !.inside = TRUE], out, room, "Z_OK")
            [] unit.u = "data" /\ z.inside ->
                 Inflate([y EXCEPT !.window = unit.blocks], out, room, "Z_OK")
            [] unit.u = "trailer" /\ z.inside ->
                 Inflated(y, out, "Z_STREAM_END")
            [] OTHER -> Inflated(z, out, "Z_DATA_ERROR")

(* source_->read into buffer_.                                             *)
Refill(z) == [z EXCEPT !.avail_in = Head(z.chunks), !.chunks = Tail(@)]

(* The loop of read.  At the end of a member, the source has to be at its  *)
(* end, or another member follows.                                         *)
RECURSIVE ReadLoop(_, _, _)
ReadLoop(z, out, length) ==
  IF z.avail_in = <<>> /\ z.chunks = <<>>
  THEN Throw(z, out)               \* unexpected end of stream
  ELSE LET x == IF z.avail_in = <<>> THEN Refill(z) ELSE z
           r == Inflate(x, out, length - Len(out), "Z_BUF_ERROR")
       IN CASE r.ret = "Z_OK" /\ Len(r.out) < length ->
                 ReadLoop(r.z, r.out, length)
            [] r.ret = "Z_OK" /\ Len(r.out) = length ->
                 [z |-> r.z, out |-> r.out]
            [] r.ret = "Z_STREAM_END" ->
                 IF r.z.avail_in = <<>> /\ r.z.chunks = <<>>
                 THEN [z |-> [r.z EXCEPT !.end_seen_ = TRUE], out |-> r.out]
                 ELSE LET y == IF r.z.avail_in = <<>> THEN Refill(r.z) ELSE r.z
                      IN ReadLoop([y EXCEPT !.inside = FALSE], r.out, length)
            [] OTHER -> Throw(r.z, r.out)

gunzip_read(z, length) ==
  IF z.end_seen_ \/ length = 0 THEN [z |-> z, out |-> <<>>]
  ELSE ReadLoop(z, <<>>, length)
=============================================================================
