------------------------------ MODULE Download ------------------------------
(***************************************************************************)
(* download() of lib/symboldb/download_source.cpp, with the cache in the   *)
(* table url_cache (lib/symboldb/database.cpp): several processes read the *)
(* same URL in any of the cache modes, while the file on the server        *)
(* changes, connections break off and --expire removes the row.  The table *)
(* is used outside of transactions, so every statement is one step.        *)
(***************************************************************************)
EXTENDS UrlSource, FiniteSets

CONSTANTS
  Procs,       \* processes that download the URL
  MaxRead,     \* the largest buffer given to read, in blocks
  MaxRequests, \* bound on the number of downloads
  MaxExpires   \* bound on the number of times the row expires

ASSUME DownloadAssumption ==
  /\ MaxRead \in Nat \ {0} /\ MaxRequests \in Nat /\ MaxExpires \in Nat
  /\ Len(Sizes) > 0

Modes == {"no_cache", "check_cache", "always_cache", "only_cache"}

VARIABLES
  row,      \* the row of the URL in url_cache: time and data, or None
  current,  \* the version of the file that the server has
  pc,       \* pc[p]: where p is in download or in read
  mode,     \* mode[p]: the cache mode of p's download
  src,      \* src[p]: p's url_source
  buffer,   \* buffer[p]: download_source::buffer, all that was read
  exists,   \* exists[p]: what the SELECT of url_cache_update has found
  counters  \* downloads started and rows expired

local == <<mode, src, buffer, exists>>
vars == <<row, current, pc, local, counters>>

Init ==
  /\ row = None
  /\ current = 1
  /\ pc = [p \in Procs |-> "idle"]
  /\ mode = [p \in Procs |-> None]
  /\ src = [p \in Procs |-> NewSource]
  /\ buffer = [p \in Procs |-> <<>>]
  /\ exists = [p \in Procs |-> FALSE]
  /\ counters = [requests |-> 0, expires |-> 0]

At(p, where) == pc[p] = where
Goto(p, where) == pc' = [pc EXCEPT ![p] = where]
SetSource(p, s) == src' = [src EXCEPT ![p] = s]

(* The download ends, with the data of the row, all data of the server or  *)
(* an exception: the source is destroyed.                                  *)
Finish(p) ==
  /\ SetSource(p, NewSource)
  /\ buffer' = [buffer EXCEPT ![p] = <<>>]
  /\ exists' = [exists EXCEPT ![p] = FALSE]
  /\ mode' = [mode EXCEPT ![p] = None]
  /\ Goto(p, "idle")

-----------------------------------------------------------------------------
(* download: the choice of the mode.                                       *)
Start(p, m) ==
  /\ At(p, "idle")
  /\ counters.requests < MaxRequests
  /\ counters' = [counters EXCEPT !.requests = @ + 1]
  /\ mode' = [mode EXCEPT ![p] = m]
  /\ Goto(p, CASE m = "no_cache" -> "read"
               [] m = "check_cache" -> "connect"
               [] OTHER -> "fetch")
  /\ UNCHANGED <<row, current, src, buffer, exists>>

(* url_cache_fetch, without a look at the server.  If there is no row,     *)
(* only_cache throws and always_cache turns to the network.                *)
Fetch(p) ==
  /\ At(p, "fetch")
  /\ IF row # None \/ mode[p] = "only_cache" THEN Finish(p)
     ELSE Goto(p, "connect") /\ UNCHANGED local
  /\ UNCHANGED <<row, current, counters>>

(* url_source::connect: a read without a buffer, to get the response.      *)
Connect(p) ==
  /\ At(p, "connect")
  /\ SetSource(p, BeginRead(src[p], 0))
  /\ Goto(p, "connecting")
  /\ UNCHANGED <<row, current, mode, buffer, exists, counters>>

\* MUTANT: the length of the cached data is not compared.
MatchesTime(s, r) ==
  /\ s.http_date_ > 0 /\ s.file_size_ >= 0
  /\ r # None /\ r.time = s.http_date_

(* The conditions in download and in the second url_cache_fetch.           *)
Matches(s, r) ==
  /\ s.http_date_ > 0 /\ s.file_size_ >= 0
  /\ r # None /\ r.time = s.http_date_ /\ Len(r.data) = s.file_size_

(* What the server said against the row.                                   *)
Compare(p) ==
  /\ At(p, "compare")
  /\ IF Matches(src[p], row)
     THEN Finish(p)
     ELSE Goto(p, "read") /\ UNCHANGED local
  /\ UNCHANGED <<row, current, counters>>

-----------------------------------------------------------------------------
(* The reader of the source, a parser that reads to the end.               *)

(* read of s returned these bytes.  At the end, a download_source stores   *)
(* what it has read; an url_source does not.                               *)
Got(p, s, bytes) ==
  IF bytes = <<>> /\ mode[p] = "no_cache"
  THEN Finish(p)
  ELSE /\ SetSource(p, s)
       /\ buffer' = [buffer EXCEPT ![p] = @ \o bytes]
       /\ Goto(p, IF bytes # <<>> THEN "read" ELSE "select")
       /\ UNCHANGED <<mode, exists>>

Read(p, length) ==
  /\ At(p, "read")
  /\ IF HasPending(src[p])
     THEN LET r == FromPending(src[p], length) IN Got(p, r.source, r.bytes)
     ELSE /\ SetSource(p, BeginRead(src[p], length))
          /\ Goto(p, "reading")
          /\ UNCHANGED <<mode, buffer, exists>>
  /\ UNCHANGED <<row, current, counters>>

Performing(p) == At(p, "connecting") \/ At(p, "reading")

Respond(p) ==
  /\ Performing(p) /\ MayRespond(src[p])
  /\ \E v \in {current, ErrorPage}, dated \in BOOLEAN :
       SetSource(p, Responded(src[p], v, dated))
  /\ UNCHANGED <<row, current, pc, mode, buffer, exists, counters>>

Deliver(p) ==
  /\ Performing(p) /\ src[p].running /\ src[p].version # None
  /\ \E n \in 0..Blocks(src[p].version) :
       MayDeliver(src[p], n) /\ SetSource(p, write_function(src[p], n))
  /\ UNCHANGED <<row, current, pc, mode, buffer, exists, counters>>

Complete(p) ==
  /\ Performing(p) /\ src[p].running /\ AllSent(src[p])
  /\ SetSource(p, Ended(src[p]))
  /\ UNCHANGED <<row, current, pc, mode, buffer, exists, counters>>

BreakOff(p) ==
  /\ Performing(p) /\ src[p].running /\ ~AllSent(src[p])
  /\ SetSource(p, Ended(src[p]))
  /\ UNCHANGED <<row, current, pc, mode, buffer, exists, counters>>

(* The end of impl::read.                                                  *)
Return(p) ==
  /\ Performing(p)
  /\ Performed(src[p])
  /\ LET s == Cleared(Checked(src[p])) IN
     \/ CheckThrows(src[p]) /\ Finish(p)
     \/ /\ ~CheckThrows(src[p]) /\ At(p, "reading")
        /\ Got(p, s, src[p].buffer_)
     \/ /\ ~CheckThrows(src[p]) /\ At(p, "connecting")
        /\ SetSource(p, s)
        /\ Goto(p, IF mode[p] = "check_cache" THEN "compare" ELSE "read")
        /\ UNCHANGED <<mode, buffer, exists>>
  /\ UNCHANGED <<row, current, counters>>

(* The reader gives up: the data is malformed.                             *)
GiveUp(p) ==
  /\ At(p, "read")
  /\ Finish(p)
  /\ UNCHANGED <<row, current, counters>>

-----------------------------------------------------------------------------
(* url_cache_update.  The lock of SELECT FOR UPDATE ends with the          *)
(* statement.                                                              *)
SelectForUpdate(p) ==
  /\ At(p, "select")
  /\ exists' = [exists EXCEPT ![p] = row # None]
  /\ Goto(p, "write")
  /\ UNCHANGED <<row, current, mode, src, buffer, counters>>

NewRow(p) ==
  [time |-> src[p].http_date_, data |-> buffer[p], version |-> src[p].version]

(* UPDATE changes nothing if the row is gone by now; INSERT throws if      *)
(* there is one.                                                           *)
WriteRow(p) ==
  /\ At(p, "write")
  /\ row' = IF exists[p] = (row # None) THEN NewRow(p) ELSE row
  /\ Finish(p)
  /\ UNCHANGED <<current, counters>>

(* expire_url_cache.                                                       *)
ExpireUrlCache ==
  /\ counters.expires < MaxExpires
  /\ counters' = [counters EXCEPT !.expires = @ + 1]
  /\ row # None /\ row' = None
  /\ UNCHANGED <<current, pc, mode, src, buffer, exists>>

(* The repository is updated.                                              *)
Publish ==
  /\ current + 1 \in Versions
  /\ current' = current + 1
  /\ UNCHANGED <<row, pc, mode, src, buffer, exists, counters>>

-----------------------------------------------------------------------------
Step(p) ==
  \/ Fetch(p) \/ Connect(p) \/ Compare(p)
  \/ \E length \in 1..MaxRead : Read(p, length)
  \/ Respond(p) \/ Complete(p) \/ BreakOff(p) \/ Return(p)
  \/ Deliver(p) \/ GiveUp(p) \/ SelectForUpdate(p) \/ WriteRow(p)

Next ==
  \/ \E p \in Procs : Step(p) \/ \E m \in Modes : Start(p, m)
  \/ ExpireUrlCache
  \/ Publish

Spec == Init /\ [][Next]_vars

(* Processes run, and libcurl ends a transfer that does not get on         *)
(* (CURLOPT_CONNECTTIMEOUT, CURLOPT_LOW_SPEED_TIME).                       *)
Fairness == \A p \in Procs : WF_vars(Step(p))

FairSpec == Spec /\ Fairness

-----------------------------------------------------------------------------
(* No block is lost, repeated or moved between libcurl's callbacks and the *)
(* reader, whatever the sizes of callbacks and buffers: what was read,     *)
(* what is in the reader's buffer and what is pending is all that came in, *)
(* and what is put into the buffer fits.                                   *)
InOrder ==
  \A p \in Procs :
    /\ buffer[p] \o src[p].buffer_ \o Rest(src[p]) =
         [i \in 1..src[p].received |-> i]
    /\ src[p].pending_pos_ <= Len(src[p].pending_)
    /\ Len(src[p].buffer_) <= src[p].buffer_length_

(* The body of an error response is neither passed on nor stored.          *)
NoErrorPage ==
  /\ row # None => row.version # ErrorPage
  /\ \A p \in Procs : src[p].version = ErrorPage => buffer[p] = <<>>

(* "use the cache if it is current": data that check_cache takes from the  *)
(* cache is the whole file that the server announced on connecting, even   *)
(* if other processes replace, expire or truncate the row.                 *)
CheckedIsCurrent ==
  \A p \in Procs :
    At(p, "compare") /\ Matches(src[p], row) =>
      row.version = src[p].version /\ row.data = Whole(src[p].version)

(* Every download ends, with data or an exception.                         *)
DownloadsEnd == \A p \in Procs : ~At(p, "idle") ~> At(p, "idle")

(* "We got the entire data.  Store it in the database."                    *)
StoredIsWhole ==
  row # None => row.version \in Versions /\ row.data = Whole(row.version)
=============================================================================
