----------------------------- MODULE UrlSource -----------------------------
(***************************************************************************)
(* lib/cxxll/url_source.cpp: a source to read from, on top of libcurl,     *)
(* which pushes data into a callback.  The state of one url_source is a    *)
(* record; its methods are operators from one state to the next.  A file   *)
(* is a sequence of numbered blocks.                                       *)
(***************************************************************************)
EXTENDS Integers, Sequences, SequencesExt

CONSTANTS
  Sizes,  \* Sizes[v]: the number of blocks of version v of the file
  None

Versions == 1..Len(Sizes)
ErrorPage == 0    \* what a server sends with a status other than 200

ASSUME UrlSourceAssumption ==
  Sizes \in Seq(Nat) /\ None \notin Versions \cup {ErrorPage}

(* What the server sends for version v, complete.                          *)
Blocks(v) == IF v = ErrorPage THEN 1 ELSE Sizes[v]
Whole(v) == [i \in 1..Blocks(v) |-> i]

(* The members of url_source::impl, then the state of the transfer in      *)
(* libcurl: running_handles, the version being sent (None until a response *)
(* has come in) and how many blocks of it write_function has got.          *)
NewSource ==
  [connected_ |-> FALSE, before_data_ |-> TRUE, write_callback_ |-> FALSE,
   pending_ |-> <<>>, pending_pos_ |-> 0,
   buffer_ |-> <<>>, buffer_length_ |-> 0,
   http_date_ |-> -1, file_size_ |-> -1,
   running |-> FALSE, version |-> None, dated |-> FALSE, received |-> 0]

-----------------------------------------------------------------------------
HasPending(s) == s.pending_pos_ < Len(s.pending_)

Rest(s) == SubSeq(s.pending_, s.pending_pos_ + 1, Len(s.pending_))

(* The first part of read: how much of the excess data of earlier          *)
(* callbacks it returns.                                                   *)
FromPending(s, length) ==
  LET to_copy == IF Len(Rest(s)) < length THEN Len(Rest(s)) ELSE length IN
  [bytes |-> SubSeq(Rest(s), 1, to_copy),
   source |-> [s EXCEPT !.pending_pos_ = @ + to_copy]]

\* MUTANT: the excess data that has been read is not cleared.
BeginReadKeep(s, length) ==
  [s EXCEPT !.pending_pos_ = 0,
            !.buffer_ = <<>>, !.buffer_length_ = length,
            !.write_callback_ = FALSE,
            !.connected_ = TRUE, !.running = @ \/ ~s.connected_]

(* The second part, up to the loop around curl_multi_perform.  connect     *)
(* adds the transfer to the multi handle the first time.                   *)
BeginRead(s, length) ==
  [s EXCEPT !.pending_ = <<>>, !.pending_pos_ = 0,
            !.buffer_ = <<>>, !.buffer_length_ = length,
            !.write_callback_ = FALSE,
            !.connected_ = TRUE, !.running = @ \/ ~s.connected_]

(* curl_multi_perform calls this with the next n blocks.  What does not    *)
(* fit into the buffer of the reader is kept.                              *)
write_function(s, n) ==
  LET data == [i \in 1..n |-> s.received + i]
      remaining == s.buffer_length_ - Len(s.buffer_)
      to_copy == IF n < remaining THEN n ELSE remaining IN
  [s EXCEPT !.buffer_ = @ \o SubSeq(data, 1, to_copy),
            !.pending_ = @ \o SubSeq(data, to_copy + 1, n),
            !.write_callback_ = TRUE,
            !.received = @ + n]

\* MUTANT: the loop waits for data even if no transfer is running.
PerformedIfData(s) == s.write_callback_

(* The loop is left once data has come in or the transfer is over.  Why it *)
(* is over is not asked: curl_multi_info_read is never called.             *)
Performed(s) == s.write_callback_ \/ ~s.running

\* MUTANT: only a read that returns data looks at the response.
CheckThrowsIfData(s) ==
  s.before_data_ /\ s.version = ErrorPage /\ s.buffer_ # <<>>

(* check throws if there is a response with a status other than 200.       *)
CheckThrows(s) == s.before_data_ /\ s.version = ErrorPage

(* Otherwise it notes what the server says about the file, once.           *)
Checked(s) ==
  IF ~s.before_data_ THEN s
  ELSE [s EXCEPT !.before_data_ = FALSE,
                 !.http_date_ = IF s.dated THEN s.version ELSE -1,
                 !.file_size_ = IF s.dated THEN Blocks(s.version) ELSE -1]

(* The clearer object at the end of read.                                  *)
Cleared(s) == [s EXCEPT !.buffer_ = <<>>, !.buffer_length_ = 0]

-----------------------------------------------------------------------------
(* libcurl and the server, as far as url_source can see them: a response   *)
(* for version v, with or without a date and a length ...                  *)
Responded(s, v, dated) == [s EXCEPT !.version = v, !.dated = dated]

MayRespond(s) == s.running /\ s.version = None

(* ... blocks of it in order, an empty file being one callback without     *)
(* data ...                                                                *)
MayDeliver(s, n) ==
  /\ s.received + n <= Blocks(s.version)
  /\ n = 0 => Blocks(s.version) = 0 /\ ~s.write_callback_

(* ... and the end, which is early if there is no connection, or it is     *)
(* reset or times out.                                                     *)
AllSent(s) == s.version # None /\ s.received = Blocks(s.version)

Ended(s) == [s EXCEPT !.running = FALSE]
=============================================================================
