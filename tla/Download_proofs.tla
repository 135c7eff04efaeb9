-------------------------- MODULE Download_proofs ---------------------------
(***************************************************************************)
(* For any file versions, processes and sizes of buffers and callbacks:    *)
(* no block is lost, repeated or moved on its way to the reader, the body  *)
(* of an error response is neither passed on nor stored, and what          *)
(* check_cache takes from the cache is the file that the server announced. *)
(***************************************************************************)
EXTENDS Download, SequenceTheorems, TLAPS

Count(n) == [i \in 1..n |-> i]

Source ==
  [connected_ : BOOLEAN, before_data_ : BOOLEAN, write_callback_ : BOOLEAN,
   pending_ : Seq(Nat), pending_pos_ : Nat, buffer_ : Seq(Nat), buffer_length_ : Nat,
   http_date_ : Int, file_size_ : Int, running : BOOLEAN,
   version : Versions \cup {ErrorPage, None}, dated : BOOLEAN, received : Nat]

Phases == {"idle", "fetch", "connect", "connecting", "compare", "read", "reading", "select",
           "write"}

TypeOK ==
  /\ current \in Versions
  /\ pc \in [Procs -> Phases]
  /\ mode \in [Procs -> Modes \cup {None}]
  /\ src \in [Procs -> Source]
  /\ buffer \in [Procs -> Seq(Nat)]
  /\ exists \in [Procs -> BOOLEAN]

-----------------------------------------------------------------------------
(* A source s and the data b read from it, in phase w.                     *)

(* InOrder.                                                                *)
Chained(s, b) ==
  /\ (b \o s.buffer_) \o Rest(s) = Count(s.received)
  /\ s.pending_pos_ <= Len(s.pending_)
  /\ Len(s.buffer_) <= s.buffer_length_

(* In libcurl, nothing is pending before the buffer of the reader is full; *)
(* elsewhere there is no such buffer.                                      *)
Busy == {"connecting", "reading"}

Phase(w, s) ==
  /\ w \notin Busy => s.buffer_ = <<>>
  /\ w \in Busy => /\ s.connected_ /\ s.pending_pos_ = 0
                   /\ s.pending_ # <<>> => Len(s.buffer_) = s.buffer_length_
  /\ w = "connecting" => s.buffer_length_ = 0
  /\ w \in {"idle", "fetch", "connect"} => s = NewSource
  /\ w \in {"compare", "select", "write"} => ~s.before_data_

(* Nothing is read before the response was looked at.  Then it was not an  *)
(* error and does not change, and what was noted of it is about the        *)
(* version that is sent.                                                   *)
Unseen(w, s, b) == s.before_data_ => b = <<>> /\ (w \in Busy \/ s = NewSource)

Seen(s) ==
  ~s.before_data_ =>
    /\ s.connected_ /\ s.version # ErrorPage /\ (s.version = None => ~s.running)
    /\ s.http_date_ = IF s.dated THEN s.version ELSE -1
    /\ s.file_size_ = IF s.dated THEN Blocks(s.version) ELSE -1

Unanswered(s) == s.version = None => ~s.dated /\ ~s.write_callback_

Sound(w, s, b) ==
  Chained(s, b) /\ Phase(w, s) /\ Unseen(w, s, b) /\ Seen(s) /\ Unanswered(s)

(* A row holds the first blocks of a version, and if it has a time, it is  *)
(* that of the version.                                                    *)
RowOK(r) ==
  r # None =>
    /\ r.data \in Seq(Nat) /\ \A i \in 1..Len(r.data) : r.data[i] = i
    /\ r.version # ErrorPage
    /\ r.time > 0 => r.time = r.version

IInv ==
  /\ TypeOK
  /\ \A p \in Procs : Sound(pc[p], src[p], buffer[p])
  /\ RowOK(row)

-----------------------------------------------------------------------------
(* The blocks from the first one on.                                       *)
LEMMA CountIsSeq ==
  ASSUME NEW n \in Nat
  PROVE  /\ Count(n) \in Seq(Nat) /\ Len(Count(n)) = n
         /\ \A i \in 1..n : Count(n)[i] = i
<1>1. Count(n) \in [1..n -> Nat]
  BY DEF Count
<1>2. Count(n) \in Seq(Nat)
  BY <1>1, SeqDef
<1> QED BY <1>1, <1>2 DEF Count

(* More blocks after the first ones.                                       *)
LEMMA CountMore ==
  ASSUME NEW m \in Nat, NEW n \in Nat
  PROVE  /\ [i \in 1..n |-> m + i] \in Seq(Nat) /\ Len([i \in 1..n |-> m + i]) = n
         /\ Count(m) \o [i \in 1..n |-> m + i] = Count(m + n)
<1> DEFINE d == [i \in 1..n |-> m + i]
<1>1. d \in Seq(Nat) /\ Len(d) = n
  <2>1. d \in [1..n -> Nat]
    OBVIOUS
  <2>2. d \in Seq(Nat)
    BY <2>1, SeqDef
  <2> QED BY <2>1, <2>2
<1>2. \A i \in 1..n : d[i] = m + i
  OBVIOUS
<1> HIDE DEF d
<1>3. /\ Count(m) \o d \in Seq(Nat) /\ Len(Count(m) \o d) = m + n
      /\ \A i \in 1..(m + n) : (Count(m) \o d)[i] = IF i <= m THEN Count(m)[i] ELSE d[i - m]
  <2>1. Count(m) \in Seq(Nat) /\ Len(Count(m)) = m
    BY CountIsSeq
  <2>2. /\ Count(m) \o d \in Seq(Nat) /\ Len(Count(m) \o d) = Len(Count(m)) + Len(d)
        /\ \A i \in 1..(Len(Count(m)) + Len(d)) :
             (Count(m) \o d)[i] = IF i <= Len(Count(m)) THEN Count(m)[i]
                                  ELSE d[i - Len(Count(m))]
    BY <1>1, <2>1, ConcatProperties
  <2> QED BY <1>1, <2>1, <2>2
<1>4. \A i \in 1..(m + n) : (Count(m) \o d)[i] = i
  <2> SUFFICES ASSUME NEW i \in 1..(m + n) PROVE (Count(m) \o d)[i] = i
    OBVIOUS
  <2>1. CASE i <= m
    BY <1>3, <2>1, CountIsSeq
  <2>2. CASE ~(i <= m)
    <3>1. i - m \in 1..n
      BY <2>2
    <3> QED BY <1>2, <1>3, <2>2, <3>1
  <2> QED BY <2>1, <2>2
<1>5. m + n \in Nat
  OBVIOUS
<1>6. /\ Count(m + n) \in Seq(Nat) /\ Len(Count(m + n)) = m + n
      /\ \A i \in 1..(m + n) : Count(m + n)[i] = i
  BY <1>5, CountIsSeq
<1>7. Count(m) \o d = Count(m + n)
  BY <1>3, <1>4, <1>6, SeqEqual
<1> QED BY <1>1, <1>7 DEF d

(* Concatenation of blocks is associative.                                 *)
LEMMA Associative ==
  ASSUME NEW q \in Seq(Nat), NEW r \in Seq(Nat), NEW t \in Seq(Nat)
  PROVE  (q \o r) \o t = q \o (r \o t)
<1>1. /\ Len(q) \in Nat /\ Len(r) \in Nat /\ Len(t) \in Nat
      /\ q \o r \in Seq(Nat) /\ r \o t \in Seq(Nat)
      /\ Len(q \o r) = Len(q) + Len(r) /\ Len(r \o t) = Len(r) + Len(t)
  BY LenProperties, ConcatProperties
<1>2. /\ (q \o r) \o t \in Seq(Nat) /\ q \o (r \o t) \in Seq(Nat)
      /\ Len((q \o r) \o t) = Len(q) + Len(r) + Len(t)
      /\ Len(q \o (r \o t)) = Len(q) + Len(r) + Len(t)
  BY <1>1, ConcatProperties
<1>3. ASSUME NEW i \in 1..(Len(q) + Len(r) + Len(t))
      PROVE  ((q \o r) \o t)[i] = (q \o (r \o t))[i]
  BY <1>1
<1> QED BY <1>2, <1>3, SeqEqual

(* The parts of a sequence.                                                *)
LEMMA Split ==
  ASSUME NEW q \in Seq(Nat), NEW k \in 0..Len(q)
  PROVE  /\ SubSeq(q, 1, k) \in Seq(Nat) /\ Len(SubSeq(q, 1, k)) = k
         /\ SubSeq(q, k + 1, Len(q)) \in Seq(Nat)
         /\ Len(SubSeq(q, k + 1, Len(q))) = Len(q) - k
         /\ SubSeq(q, 1, k) \o SubSeq(q, k + 1, Len(q)) = q
<1>1. Len(q) \in Nat /\ k \in Nat /\ k <= Len(q)
  BY LenProperties
<1>2. \A i \in 1..Len(q) : q[i] \in Nat
  BY ElementOfSeq
<1>3. SubSeq(q, 1, k) \in Seq(Nat) /\ Len(SubSeq(q, 1, k)) = k
  <2>1. \A i \in 1..k : q[i] \in Nat
    BY <1>1, <1>2
  <2> QED BY <1>1, <2>1, SubSeqProperties
<1>4. /\ SubSeq(q, k + 1, Len(q)) \in Seq(Nat)
      /\ Len(SubSeq(q, k + 1, Len(q))) = Len(q) - k
  <2>1. \A i \in (k + 1)..Len(q) : q[i] \in Nat
    BY <1>1, <1>2
  <2>2. k + 1 \in Int /\ Len(q) \in Int
    BY <1>1
  <2>3. /\ SubSeq(q, k + 1, Len(q)) \in Seq(Nat)
        /\ Len(SubSeq(q, k + 1, Len(q)))
             = IF k + 1 <= Len(q) THEN Len(q) - (k + 1) + 1 ELSE 0
    BY <2>1, <2>2, SubSeqProperties
  <2> QED BY <1>1, <2>3
<1>5. SubSeq(q, 1, k) \o SubSeq(q, k + 1, Len(q)) = SubSeq(q, 1, Len(q))
  <2>1. 1 \in 1..(Len(q) + 1) /\ k \in (1 - 1)..Len(q) /\ Len(q) \in k..Len(q)
    BY <1>1
  <2> QED BY <2>1, ConcatAdjacentSubSeq
<1> QED BY <1>3, <1>4, <1>5, SubSeqFull

(* What is pending is a sequence of blocks.                                *)
LEMMA RestIsSeq ==
  ASSUME NEW s \in Source, s.pending_pos_ <= Len(s.pending_)
  PROVE  /\ Rest(s) \in Seq(Nat) /\ Len(Rest(s)) = Len(s.pending_) - s.pending_pos_
         /\ s.pending_pos_ = 0 => Rest(s) = s.pending_
<1>1. s.pending_ \in Seq(Nat) /\ s.pending_pos_ \in Nat /\ Len(s.pending_) \in Nat
  BY LenProperties DEF Source
<1>2. s.pending_pos_ \in 0..Len(s.pending_)
  BY <1>1
<1>3. s.pending_pos_ = 0 => s.pending_pos_ + 1 = 1
  BY <1>1
<1> QED BY <1>1, <1>2, <1>3, Split, SubSeqFull DEF Rest

(* A new source has nothing.                                               *)
LEMMA NewSourceSound ==
  /\ NewSource \in Source
  /\ \A w \in {"idle", "fetch", "connect", "read"} : Sound(w, NewSource, <<>>)
<1>1. <<>> \in Seq(Nat) /\ Len(<<>>) = 0
  BY EmptySeq
<1>2. NewSource \in Source
  BY <1>1 DEF NewSource, Source
<1>3. /\ NewSource.pending_ = <<>> /\ NewSource.pending_pos_ = 0 /\ NewSource.buffer_ = <<>>
      /\ NewSource.buffer_length_ = 0 /\ NewSource.received = 0 /\ NewSource.before_data_
      /\ NewSource.version = None /\ ~NewSource.dated /\ ~NewSource.write_callback_
  BY DEF NewSource
<1>4. Rest(NewSource) = <<>>
  BY <1>1, <1>2, <1>3, RestIsSeq
<1>5. (<<>> \o <<>>) \o <<>> = <<>>
  BY <1>1, ConcatEmptySeq
<1>6. Count(0) = <<>>
  <2>1. Count(0) \in Seq(Nat) /\ Len(Count(0)) = 0
    BY CountIsSeq
  <2> QED BY <2>1
<1>7. Chained(NewSource, <<>>)
  BY <1>1, <1>3, <1>4, <1>5, <1>6 DEF Chained
<1> QED BY <1>2, <1>3, <1>7 DEF Sound, Phase, Unseen, Seen, Unanswered, Busy

-----------------------------------------------------------------------------
(* read returns some of what is pending.                                   *)
LEMMA FromPendingSound ==
  ASSUME NEW s \in Source, NEW b \in Seq(Nat), Sound("read", s, b), HasPending(s),
         NEW length \in Nat \ {0}
  PROVE  LET r == FromPending(s, length) IN
         /\ r.source \in Source /\ r.bytes \in Seq(Nat) /\ r.bytes # <<>>
         /\ Sound("read", r.source, b \o r.bytes)
<1> DEFINE k == IF Len(Rest(s)) < length THEN Len(Rest(s)) ELSE length
           t == [s EXCEPT !.pending_pos_ = @ + k]
           x == SubSeq(Rest(s), 1, k)
<1>1. Chained(s, b) /\ s.buffer_ = <<>> /\ ~s.before_data_ /\ Seen(s) /\ Unanswered(s)
  <2>1. NewSource.pending_ = <<>> /\ Len(<<>>) = 0 /\ NewSource.pending_pos_ = 0
    BY EmptySeq DEF NewSource
  <2>2. s # NewSource
    BY <2>1 DEF HasPending
  <2> QED BY <2>2 DEF Sound, Phase, Unseen, Busy
<1>2. /\ s.pending_ \in Seq(Nat) /\ s.pending_pos_ \in Nat /\ Len(s.pending_) \in Nat
      /\ s.pending_pos_ < Len(s.pending_) /\ s.received \in Nat
  BY LenProperties DEF Source, HasPending
<1>3. /\ Rest(s) \in Seq(Nat) /\ Len(Rest(s)) = Len(s.pending_) - s.pending_pos_
  BY <1>2, RestIsSeq
<1>4. k \in 1..Len(Rest(s)) /\ k \in 0..Len(Rest(s)) /\ k \in Nat
  BY <1>2, <1>3
<1>5. /\ t \in Source /\ t.pending_ = s.pending_ /\ t.pending_pos_ = s.pending_pos_ + k
      /\ t.buffer_ = s.buffer_ /\ t.buffer_length_ = s.buffer_length_
      /\ t.received = s.received /\ t.before_data_ = s.before_data_
      /\ t.connected_ = s.connected_ /\ t.version = s.version /\ t.running = s.running
      /\ t.http_date_ = s.http_date_ /\ t.file_size_ = s.file_size_ /\ t.dated = s.dated
      /\ t.write_callback_ = s.write_callback_
  <2> HIDE DEF k
  <2>1. s.pending_pos_ + k \in Nat
    BY <1>2, <1>4
  <2> QED BY <2>1 DEF Source
<1>6. FromPending(s, length).source = t /\ FromPending(s, length).bytes = x
  BY DEF FromPending
<1> HIDE DEF t, k
<1>7. x \in Seq(Nat) /\ Len(x) = k /\ x \o SubSeq(Rest(s), k + 1, Len(Rest(s))) = Rest(s)
  BY <1>3, <1>4, Split
<1>8. Rest(t) = SubSeq(Rest(s), k + 1, Len(Rest(s)))
  <2> DEFINE y == SubSeq(Rest(s), k + 1, Len(Rest(s)))
  <2>1. t.pending_pos_ <= Len(t.pending_)
    BY <1>2, <1>3, <1>4, <1>5
  <2>2. Rest(t) \in Seq(Nat) /\ Len(Rest(t)) = Len(s.pending_) - (s.pending_pos_ + k)
    BY <1>5, <2>1, RestIsSeq
  <2>3. y \in Seq(Nat) /\ Len(y) = Len(Rest(s)) - k
    BY <1>3, <1>4, Split
  <2>4. \A i \in 1..Len(s.pending_) : s.pending_[i] \in Nat
    BY <1>2, ElementOfSeq
  <2>5. \A i \in 1..Len(Rest(s)) : Rest(s)[i] = s.pending_[s.pending_pos_ + i]
    <3>1. \A i \in (s.pending_pos_ + 1)..Len(s.pending_) : s.pending_[i] \in Nat
      BY <1>2, <2>4
    <3>2. s.pending_pos_ + 1 \in Int /\ Len(s.pending_) \in Int
      BY <1>2
    <3>3. \A i \in 1..(Len(s.pending_) - (s.pending_pos_ + 1) + 1) :
            Rest(s)[i] = s.pending_[s.pending_pos_ + 1 + i - 1]
      BY <3>1, <3>2, SubSeqProperties DEF Rest
    <3>4. ASSUME NEW i \in 1..Len(Rest(s)) PROVE Rest(s)[i] = s.pending_[s.pending_pos_ + i]
      <4>1. i \in 1..(Len(s.pending_) - (s.pending_pos_ + 1) + 1)
        BY <1>2, <1>3
      <4>2. s.pending_pos_ + 1 + i - 1 = s.pending_pos_ + i
        BY <1>2
      <4> QED BY <3>3, <4>1, <4>2
    <3> QED BY <3>4
  <2>6. \A i \in 1..Len(y) : y[i] = Rest(s)[k + i]
    <3>1. \A i \in (k + 1)..Len(Rest(s)) : Rest(s)[i] \in Nat
      <4>1. \A i \in 1..Len(Rest(s)) : Rest(s)[i] \in Nat
        BY <1>3, ElementOfSeq
      <4> QED BY <1>4, <4>1
    <3>2. k + 1 \in Int /\ Len(Rest(s)) \in Int
      BY <1>2, <1>3, <1>4
    <3>3. \A i \in 1..(Len(Rest(s)) - (k + 1) + 1) : y[i] = Rest(s)[k + 1 + i - 1]
      BY <3>1, <3>2, SubSeqProperties
    <3> HIDE DEF y
    <3>4. ASSUME NEW i \in 1..Len(y) PROVE y[i] = Rest(s)[k + i]
      <4>1. i \in 1..(Len(Rest(s)) - (k + 1) + 1)
        BY <1>2, <1>3, <1>4, <2>3
      <4>2. k + 1 + i - 1 = k + i
        BY <1>4
      <4> QED BY <3>3, <4>1, <4>2
    <3> QED BY <3>4
  <2>7. \A i \in 1..Len(Rest(t)) : Rest(t)[i] = s.pending_[s.pending_pos_ + k + i]
    <3>1. \A i \in (s.pending_pos_ + k + 1)..Len(s.pending_) : s.pending_[i] \in Nat
      BY <1>2, <1>4, <2>4
    <3>2. s.pending_pos_ + k + 1 \in Int /\ Len(s.pending_) \in Int
      BY <1>2, <1>4
    <3>3. \A i \in 1..(Len(s.pending_) - (s.pending_pos_ + k + 1) + 1) :
            Rest(t)[i] = s.pending_[s.pending_pos_ + k + 1 + i - 1]
      BY <1>5, <3>1, <3>2, SubSeqProperties DEF Rest
    <3>4. ASSUME NEW i \in 1..Len(Rest(t))
          PROVE  Rest(t)[i] = s.pending_[s.pending_pos_ + k + i]
      <4>1. i \in 1..(Len(s.pending_) - (s.pending_pos_ + k + 1) + 1)
        <5> DEFINE m == Len(s.pending_)
                   o == s.pending_pos_
        <5>1. i \in 1..(m - (o + k)) /\ m \in Nat /\ o \in Nat /\ k \in Nat
          BY <1>2, <1>4, <2>2
        <5> HIDE DEF m, o
        <5>2. i \in 1..(m - (o + k + 1) + 1)
          BY <5>1
        <5> QED BY <5>2 DEF m, o
      <4>2. s.pending_pos_ + k + 1 + i - 1 = s.pending_pos_ + k + i
        BY <1>2, <1>4
      <4> QED BY <3>3, <4>1, <4>2
    <3> QED BY <3>4
  <2> HIDE DEF y
  <2>8. Len(Rest(t)) = Len(y)
    <3> DEFINE m == Len(s.pending_)
               o == s.pending_pos_
    <3>1. /\ m \in Nat /\ o \in Nat /\ k \in Nat
          /\ Len(Rest(t)) = m - (o + k) /\ Len(y) = (m - o) - k
      BY <1>2, <1>3, <1>4, <2>2, <2>3
    <3> HIDE DEF m, o
    <3> QED BY <3>1
  <2>9. ASSUME NEW i \in 1..Len(Rest(t)) PROVE Rest(t)[i] = y[i]
    <3>1. i \in 1..Len(y) /\ k + i \in 1..Len(Rest(s)) /\ i \in Nat
      BY <1>2, <1>3, <1>4, <2>2, <2>3, <2>8
    <3>2. y[i] = s.pending_[s.pending_pos_ + (k + i)]
      BY <2>5, <2>6, <3>1
    <3>3. Rest(t)[i] = s.pending_[s.pending_pos_ + k + i]
      BY <2>7
    <3>4. s.pending_pos_ + (k + i) = s.pending_pos_ + k + i
      BY <1>2, <1>4, <3>1
    <3> QED BY <3>2, <3>3, <3>4
  <2> QED BY <2>2, <2>3, <2>8, <2>9, SeqEqual DEF y
<1> HIDE DEF x
<1>9. ((b \o x) \o t.buffer_) \o Rest(t) = Count(t.received)
  <2>1. b \o <<>> = b /\ (b \o x) \o <<>> = b \o x
    BY <1>7, ConcatProperties, ConcatEmptySeq
  <2>2. Rest(t) \in Seq(Nat)
    BY <1>3, <1>4, <1>8, Split
  <2>3. (b \o x) \o Rest(t) = b \o (x \o Rest(t))
    BY <1>7, <2>2, Associative
  <2>4. b \o Rest(s) = Count(s.received)
    BY <1>1, <2>1 DEF Chained
  <2> QED BY <1>1, <1>5, <1>7, <1>8, <2>1, <2>3, <2>4
<1>10. x # <<>>
  BY <1>4, <1>7, EmptySeq
<1>11. Chained(t, b \o x)
  <2>1. t.pending_pos_ <= Len(t.pending_)
    BY <1>2, <1>3, <1>4, <1>5
  <2>2. Len(t.buffer_) <= t.buffer_length_
    BY <1>1, <1>5 DEF Chained
  <2> QED BY <1>9, <2>1, <2>2 DEF Chained
<1>12. Seen(t) /\ Unanswered(t)
  BY <1>1, <1>5 DEF Seen, Unanswered
<1>13. Phase("read", t) /\ Unseen("read", t, b \o x)
  BY <1>1, <1>5 DEF Phase, Unseen, Busy
<1> QED BY <1>5, <1>6, <1>7, <1>10, <1>11, <1>12, <1>13 DEF Sound

(* read turns to libcurl when nothing is pending.                          *)
LEMMA BeginReadSound ==
  ASSUME NEW s \in Source, NEW b \in Seq(Nat), NEW length \in Nat, ~HasPending(s),
         NEW w, NEW x, Sound(w, s, b),
         \/ w = "connect" /\ x = "connecting" /\ length = 0
         \/ w = "read" /\ x = "reading"
  PROVE  BeginRead(s, length) \in Source /\ Sound(x, BeginRead(s, length), b)
<1> DEFINE t == BeginRead(s, length)
<1>1. s.buffer_ = <<>> /\ Chained(s, b) /\ Unseen(w, s, b) /\ Seen(s) /\ Unanswered(s)
  BY DEF Sound, Phase, Busy
<1>2. <<>> \in Seq(Nat) /\ Len(<<>>) = 0
  BY EmptySeq
<1>3. /\ t \in Source /\ t.pending_ = <<>> /\ t.pending_pos_ = 0 /\ t.buffer_ = <<>>
      /\ t.buffer_length_ = length /\ t.write_callback_ = FALSE /\ t.connected_ = TRUE
      /\ t.running = (s.running \/ ~s.connected_) /\ t.received = s.received
      /\ t.before_data_ = s.before_data_ /\ t.version = s.version /\ t.dated = s.dated
      /\ t.http_date_ = s.http_date_ /\ t.file_size_ = s.file_size_
  BY <1>2 DEF BeginRead, Source
<1> HIDE DEF t
<1>4. Rest(s) = <<>> /\ Rest(t) = <<>>
  <2>1. s.pending_pos_ \in Nat /\ Len(s.pending_) \in Nat /\ s.pending_pos_ <= Len(s.pending_)
    BY <1>1, LenProperties DEF Source, Chained
  <2>2. Rest(s) \in Seq(Nat) /\ Len(Rest(s)) = 0
    BY <2>1, RestIsSeq DEF HasPending
  <2>3. Rest(t) = <<>>
    BY <1>2, <1>3, RestIsSeq
  <2> QED BY <2>2, <2>3, EmptySeq
<1>5. Chained(t, b)
  BY <1>1, <1>2, <1>3, <1>4 DEF Chained
<1>6. x \in Busy /\ Phase(x, t)
  BY <1>2, <1>3 DEF Phase, Busy
<1>7. Unseen(x, t, b)
  BY <1>1, <1>3, <1>6 DEF Unseen
<1>8. s.running \in BOOLEAN /\ s.connected_ \in BOOLEAN
  BY DEF Source
<1>9. Seen(t) /\ Unanswered(t)
  BY <1>1, <1>3, <1>8 DEF Seen, Unanswered
<1> QED BY <1>3, <1>5, <1>6, <1>7, <1>9 DEF Sound, t

-----------------------------------------------------------------------------
(* What libcurl may change of a source without an answer, or at its end.   *)
LEMMA RespondedSound ==
  ASSUME NEW s \in Source, NEW b \in Seq(Nat), NEW w \in Busy, Sound(w, s, b), MayRespond(s),
         NEW v \in Versions \cup {ErrorPage}, NEW d \in BOOLEAN
  PROVE  Responded(s, v, d) \in Source /\ Sound(w, Responded(s, v, d), b)
<1> DEFINE t == Responded(s, v, d)
<1>1. /\ t \in Source /\ t.pending_ = s.pending_ /\ t.pending_pos_ = s.pending_pos_
      /\ t.buffer_ = s.buffer_ /\ t.buffer_length_ = s.buffer_length_
      /\ t.received = s.received /\ t.before_data_ = s.before_data_
      /\ t.connected_ = s.connected_ /\ t.version = v
  BY DEF Responded, Source
<1>2. Chained(s, b) /\ Phase(w, s) /\ Unseen(w, s, b) /\ Seen(s)
  BY DEF Sound
<1>3. s.before_data_ /\ v # None
  BY <1>2, UrlSourceAssumption DEF MayRespond, Seen
<1> HIDE DEF t
<1>4. Rest(t) = Rest(s)
  BY <1>1 DEF Rest
<1>5. Chained(t, b)
  BY <1>1, <1>2, <1>4 DEF Chained
<1>6. Phase(w, t)
  BY <1>1, <1>2 DEF Phase, Busy
<1>7. Unseen(w, t, b) /\ Seen(t) /\ Unanswered(t)
  BY <1>1, <1>2, <1>3 DEF Unseen, Seen, Unanswered
<1> QED BY <1>1, <1>5, <1>6, <1>7 DEF Sound, t

(* The transfer is over.                                                   *)
LEMMA EndedSound ==
  ASSUME NEW s \in Source, NEW b \in Seq(Nat), NEW w \in Busy, Sound(w, s, b)
  PROVE  Ended(s) \in Source /\ Sound(w, Ended(s), b)
<1> DEFINE t == Ended(s)
<1>1. /\ t \in Source /\ t.pending_ = s.pending_ /\ t.pending_pos_ = s.pending_pos_
      /\ t.buffer_ = s.buffer_ /\ t.buffer_length_ = s.buffer_length_
      /\ t.received = s.received /\ t.before_data_ = s.before_data_
      /\ t.connected_ = s.connected_ /\ t.version = s.version /\ ~t.running
      /\ t.http_date_ = s.http_date_ /\ t.file_size_ = s.file_size_ /\ t.dated = s.dated
      /\ t.write_callback_ = s.write_callback_
  BY DEF Ended, Source
<1>2. Chained(s, b) /\ Phase(w, s) /\ Unseen(w, s, b) /\ Seen(s) /\ Unanswered(s)
  BY DEF Sound
<1> HIDE DEF t
<1>3. Rest(t) = Rest(s)
  BY <1>1 DEF Rest
<1>4. Chained(t, b)
  BY <1>1, <1>2, <1>3 DEF Chained
<1>5. Phase(w, t)
  BY <1>1, <1>2 DEF Phase, Busy
<1>6. Unseen(w, t, b) /\ Seen(t) /\ Unanswered(t)
  BY <1>1, <1>2 DEF Unseen, Seen, Unanswered
<1> QED BY <1>1, <1>4, <1>5, <1>6 DEF Sound, t

(* libcurl delivers the next n blocks.                                     *)
LEMMA WriteSound ==
  ASSUME NEW s \in Source, NEW b \in Seq(Nat), NEW w \in Busy, Sound(w, s, b),
         s.version # None, NEW n \in Nat
  PROVE  write_function(s, n) \in Source /\ Sound(w, write_function(s, n), b)
<1> DEFINE t == write_function(s, n)
           data == [i \in 1..n |-> s.received + i]
           remaining == s.buffer_length_ - Len(s.buffer_)
           k == IF n < remaining THEN n ELSE remaining
           d1 == SubSeq(data, 1, k)
           d2 == SubSeq(data, k + 1, n)
<1>1. /\ s.buffer_ \in Seq(Nat) /\ s.pending_ \in Seq(Nat) /\ s.received \in Nat
      /\ s.buffer_length_ \in Nat /\ Len(s.buffer_) \in Nat /\ Len(s.pending_) \in Nat
  BY LenProperties DEF Source
<1>2. Chained(s, b) /\ Phase(w, s) /\ Unseen(w, s, b) /\ Seen(s) /\ Unanswered(s)
  BY DEF Sound
<1>3. /\ Len(s.buffer_) <= s.buffer_length_ /\ s.connected_ /\ s.pending_pos_ = 0
      /\ s.pending_ # <<>> => Len(s.buffer_) = s.buffer_length_
  BY <1>2 DEF Chained, Phase
<1>4. /\ data \in Seq(Nat) /\ Len(data) = n
      /\ Count(s.received) \o data = Count(s.received + n)
  BY <1>1, CountMore
<1> HIDE DEF data
<1>5. k \in 0..n /\ k \in Nat /\ k <= remaining /\ (k < n => k = remaining)
  <2>1. remaining \in Nat
    BY <1>1, <1>3
  <2> HIDE DEF remaining
  <2> QED BY <2>1
<1>6. /\ d1 \in Seq(Nat) /\ Len(d1) = k /\ d2 \in Seq(Nat) /\ Len(d2) = n - k
      /\ d1 \o d2 = data
  <2> HIDE DEF k
  <2> QED BY <1>4, <1>5, Split
<1>7. t = [s EXCEPT !.buffer_ = @ \o d1, !.pending_ = @ \o d2, !.write_callback_ = TRUE,
                    !.received = @ + n]
  BY DEF write_function, data
<1> HIDE DEF t, d1, d2, k
<1>8. s.buffer_ \o d1 \in Seq(Nat) /\ s.pending_ \o d2 \in Seq(Nat) /\ s.received + n \in Nat
      /\ Len(s.buffer_ \o d1) = Len(s.buffer_) + k
  <2>1. d1 \in Seq(Nat) /\ d2 \in Seq(Nat) /\ Len(d1) = k
    BY <1>6
  <2>2. s.buffer_ \o d1 \in Seq(Nat) /\ Len(s.buffer_ \o d1) = Len(s.buffer_) + Len(d1)
    BY <1>1, <2>1, ConcatProperties
  <2>3. s.pending_ \o d2 \in Seq(Nat)
    BY <1>1, <2>1, ConcatProperties
  <2>4. s.received + n \in Nat
    BY <1>1
  <2> QED BY <2>1, <2>2, <2>3, <2>4
<1>9. /\ t \in Source /\ t.pending_ = s.pending_ \o d2 /\ t.pending_pos_ = s.pending_pos_
      /\ t.buffer_ = s.buffer_ \o d1 /\ t.buffer_length_ = s.buffer_length_
      /\ t.received = s.received + n /\ t.before_data_ = s.before_data_
      /\ t.connected_ = s.connected_ /\ t.version = s.version /\ t.running = s.running
      /\ t.http_date_ = s.http_date_ /\ t.file_size_ = s.file_size_ /\ t.dated = s.dated
  BY <1>7, <1>8 DEF Source
<1>10. Rest(s) = s.pending_
  BY <1>1, <1>3, RestIsSeq
<1>11. t.pending_pos_ = 0 /\ Len(t.pending_) \in Nat /\ t.pending_pos_ <= Len(t.pending_)
  BY <1>3, <1>8, <1>9, LenProperties
<1>12. Rest(t) = s.pending_ \o d2
  BY <1>9, <1>11, RestIsSeq
<1>13. (b \o (s.buffer_ \o d1)) \o (s.pending_ \o d2) = ((b \o s.buffer_) \o s.pending_) \o data
  <2>1. b \o s.buffer_ \in Seq(Nat)
    BY <1>1, ConcatProperties
  <2>2. CASE s.pending_ = <<>>
    <3>1. s.pending_ \o d2 = d2 /\ (b \o s.buffer_) \o s.pending_ = b \o s.buffer_
      BY <1>6, <2>1, <2>2, ConcatEmptySeq
    <3>2. b \o (s.buffer_ \o d1) = (b \o s.buffer_) \o d1
      BY <1>1, <1>6, Associative
    <3>3. ((b \o s.buffer_) \o d1) \o d2 = (b \o s.buffer_) \o (d1 \o d2)
      BY <1>6, <2>1, Associative
    <3> QED BY <1>6, <3>1, <3>2, <3>3
  <2>3. CASE s.pending_ # <<>>
    <3>1. k = 0
      <4>1. remaining = 0
        BY <1>1, <1>3, <2>3
      <4> HIDE DEF remaining
      <4> QED BY <1>5, <4>1
    <3>2. d1 = <<>>
      BY <1>6, <3>1, EmptySeq
    <3>3. s.buffer_ \o d1 = s.buffer_ /\ d2 = data
      BY <1>1, <1>6, <3>2, ConcatEmptySeq
    <3>4. (b \o s.buffer_) \o (s.pending_ \o d2) = ((b \o s.buffer_) \o s.pending_) \o d2
      BY <1>1, <1>6, <2>1, Associative
    <3> QED BY <3>3, <3>4
  <2> QED BY <2>2, <2>3
<1>14. (b \o t.buffer_) \o Rest(t) = Count(t.received)
  BY <1>2, <1>4, <1>9, <1>10, <1>12, <1>13 DEF Chained
<1>15. Len(t.buffer_) <= t.buffer_length_
  BY <1>1, <1>5, <1>8, <1>9
<1>16. t.pending_ # <<>> => Len(t.buffer_) = t.buffer_length_
  <2>1. CASE s.pending_ # <<>>
    <3>1. k = 0
      <4>1. remaining = 0
        BY <1>1, <1>3, <2>1
      <4> HIDE DEF remaining
      <4> QED BY <1>5, <4>1
    <3> QED BY <1>1, <1>3, <1>8, <1>9, <2>1, <3>1
  <2>2. CASE s.pending_ = <<>> /\ k = n
    <3>1. d2 = <<>>
      BY <1>5, <1>6, <2>2, EmptySeq
    <3> QED BY <1>1, <1>9, <2>2, <3>1, ConcatEmptySeq
  <2>3. CASE k < n
    <3> DEFINE m == Len(s.buffer_)
               l == s.buffer_length_
    <3>1. m \in Nat /\ l \in Nat /\ k = l - m
      BY <1>1, <1>5, <2>3
    <3>2. Len(t.buffer_) = m + k /\ t.buffer_length_ = l
      BY <1>8, <1>9
    <3> HIDE DEF m, l
    <3> QED BY <3>1, <3>2
  <2> QED BY <1>5, <2>1, <2>2, <2>3
<1>17. w = "connecting" => t.buffer_length_ = 0
  BY <1>2, <1>9 DEF Phase
<1>18. Chained(t, b)
  BY <1>11, <1>14, <1>15 DEF Chained
<1>19. Phase(w, t)
  BY <1>3, <1>9, <1>11, <1>16, <1>17 DEF Phase, Busy
<1>20. Unseen(w, t, b) /\ Seen(t) /\ Unanswered(t)
  BY <1>2, <1>9 DEF Unseen, Seen, Unanswered
<1> QED BY <1>9, <1>18, <1>19, <1>20 DEF Sound, t

(* impl::read returns after the look at the response.                      *)
LEMMA ReturnSound ==
  ASSUME NEW s \in Source, NEW b \in Seq(Nat), NEW w \in Busy, Sound(w, s, b),
         Performed(s), ~CheckThrows(s)
  PROVE  LET t == Cleared(Checked(s)) IN
         /\ t \in Source /\ s.buffer_ \in Seq(Nat) /\ b \o s.buffer_ \in Seq(Nat)
         /\ w = "connecting" => b \o s.buffer_ = b
         /\ \A x \in {"read", "select", "compare"} : Sound(x, t, b \o s.buffer_)
<1> DEFINE c == Checked(s)
           t == Cleared(c)
<1>1. /\ s.buffer_ \in Seq(Nat) /\ s.received \in Nat /\ s.buffer_length_ \in Nat
      /\ s.before_data_ \in BOOLEAN /\ s.running \in BOOLEAN /\ s.dated \in BOOLEAN
      /\ s.version \in Versions \cup {ErrorPage, None} /\ s.write_callback_ \in BOOLEAN
  BY DEF Source
<1>2. Chained(s, b) /\ Phase(w, s) /\ Unseen(w, s, b) /\ Seen(s) /\ Unanswered(s)
  BY DEF Sound
<1>3. s.dated => s.version # None
  BY <1>2 DEF Unanswered
<1>4. s.before_data_ => s.version # ErrorPage
  BY DEF CheckThrows
<1>5. s.version = None => ~s.running
  BY <1>1, <1>2 DEF Performed, Unanswered
<1>6. s.dated /\ s.before_data_ => s.version \in Int /\ Blocks(s.version) \in Nat
  <2>1. s.dated /\ s.before_data_ => s.version \in 1..Len(Sizes) /\ s.version # ErrorPage
    BY <1>1, <1>3, <1>4 DEF Versions
  <2>2. \A v \in 1..Len(Sizes) : Sizes[v] \in Nat /\ v \in Int
    BY ElementOfSeq, UrlSourceAssumption
  <2> QED BY <2>1, <2>2 DEF Blocks
<1>7. /\ c \in Source /\ c.pending_ = s.pending_ /\ c.pending_pos_ = s.pending_pos_
      /\ c.received = s.received /\ ~c.before_data_
      /\ c.connected_ = s.connected_ /\ c.version = s.version /\ c.running = s.running
      /\ c.dated = s.dated /\ c.write_callback_ = s.write_callback_
      /\ c.http_date_ = IF s.dated THEN s.version ELSE -1
      /\ c.file_size_ = IF s.dated THEN Blocks(s.version) ELSE -1
  <2>1. CASE ~s.before_data_
    BY <1>2, <2>1 DEF Checked, Seen
  <2>2. CASE s.before_data_
    <3> DEFINE hd == IF s.dated THEN s.version ELSE -1
               fs == IF s.dated THEN Blocks(s.version) ELSE -1
    <3>1. hd \in Int /\ fs \in Int
      BY <1>1, <1>6, <2>2
    <3>2. c = [s EXCEPT !.before_data_ = FALSE, !.http_date_ = hd, !.file_size_ = fs]
      BY <2>2 DEF Checked
    <3> HIDE DEF hd, fs, c
    <3>3. /\ c \in Source /\ c.pending_ = s.pending_ /\ c.pending_pos_ = s.pending_pos_
          /\ c.received = s.received /\ c.before_data_ = FALSE
          /\ c.connected_ = s.connected_ /\ c.version = s.version /\ c.running = s.running
          /\ c.dated = s.dated /\ c.write_callback_ = s.write_callback_
          /\ c.http_date_ = hd /\ c.file_size_ = fs
      BY <3>1, <3>2 DEF Source
    <3> QED BY <3>3 DEF hd, fs
  <2> QED BY <1>1, <2>1, <2>2
<1> HIDE DEF c
<1>8. <<>> \in Seq(Nat) /\ Len(<<>>) = 0
  BY EmptySeq
<1>9. /\ t \in Source /\ t.pending_ = s.pending_ /\ t.pending_pos_ = s.pending_pos_
      /\ t.buffer_ = <<>> /\ t.buffer_length_ = 0
      /\ t.received = c.received /\ t.before_data_ = c.before_data_
      /\ t.connected_ = c.connected_ /\ t.version = c.version /\ t.running = c.running
      /\ t.http_date_ = c.http_date_ /\ t.file_size_ = c.file_size_ /\ t.dated = c.dated
      /\ t.write_callback_ = c.write_callback_
  BY <1>7, <1>8 DEF Cleared, Source
<1> HIDE DEF t
<1>10. b \o s.buffer_ \in Seq(Nat) /\ (b \o s.buffer_) \o <<>> = b \o s.buffer_
  <2>1. b \o s.buffer_ \in Seq(Nat)
    BY <1>1, ConcatProperties
  <2> QED BY <2>1, ConcatEmptySeq
<1>11. Rest(t) = Rest(s)
  BY <1>9 DEF Rest
<1>12. Chained(t, b \o s.buffer_)
  BY <1>2, <1>7, <1>8, <1>9, <1>10, <1>11 DEF Chained
<1>13. w = "connecting" => b \o s.buffer_ = b
  <2>1. ASSUME w = "connecting" PROVE s.buffer_ = <<>>
    <3>1. Len(s.buffer_) <= 0 /\ Len(s.buffer_) \in Nat
      BY <1>1, <1>2, <2>1, LenProperties DEF Phase, Chained
    <3> QED BY <1>1, <3>1, EmptySeq
  <2> QED BY <2>1, ConcatEmptySeq
<1>14. s.connected_ /\ (~s.before_data_ => s.version # ErrorPage)
  BY <1>2 DEF Phase, Seen
<1>15. Seen(t)
  BY <1>4, <1>5, <1>7, <1>9, <1>14 DEF Seen
<1>16. Unanswered(t)
  BY <1>2, <1>7, <1>9 DEF Unanswered
<1>17. \A x \in {"read", "select", "compare"} : Phase(x, t) /\ Unseen(x, t, b \o s.buffer_)
  BY <1>7, <1>9 DEF Phase, Unseen, Busy
<1>18. \A x \in {"read", "select", "compare"} : Sound(x, t, b \o s.buffer_)
  BY <1>12, <1>15, <1>16, <1>17 DEF Sound
<1> QED BY <1>1, <1>9, <1>10, <1>13, <1>18 DEF t, c

-----------------------------------------------------------------------------
(* A step of process p leaves the others alone.                            *)
LEMMA ProcStep ==
  ASSUME IInv, NEW p \in Procs, TypeOK', RowOK(row'), Sound(pc'[p], src'[p], buffer'[p]),
         \A q \in Procs \ {p} : pc'[q] = pc[q] /\ src'[q] = src[q] /\ buffer'[q] = buffer[q]
  PROVE  IInv'
<1>1. ASSUME NEW q \in Procs PROVE Sound(pc'[q], src'[q], buffer'[q])
  <2>1. CASE q = p
    BY <2>1
  <2>2. CASE q # p
    BY <2>2 DEF IInv
  <2> QED BY <2>1, <2>2
<1> QED BY <1>1 DEF IInv

(* Initially nothing is downloaded.                                        *)
LEMMA InitIInv == Init => IInv
<1> SUFFICES ASSUME Init PROVE IInv
  OBVIOUS
<1>1. NewSource \in Source /\ Sound("idle", NewSource, <<>>) /\ <<>> \in Seq(Nat)
  BY NewSourceSound, EmptySeq
<1>2. 1 \in Versions
  BY DownloadAssumption, UrlSourceAssumption, LenProperties DEF Versions
<1>3. TypeOK
  BY <1>1, <1>2 DEF Init, TypeOK, Phases
<1>4. \A p \in Procs : Sound(pc[p], src[p], buffer[p])
  BY <1>1 DEF Init
<1> QED BY <1>3, <1>4 DEF Init, IInv, RowOK

(* The end of a download.                                                  *)
LEMMA FinishStep ==
  ASSUME IInv, NEW p \in Procs, Finish(p), UNCHANGED current, RowOK(row')
  PROVE  IInv'
<1>1. NewSource \in Source /\ Sound("idle", NewSource, <<>>) /\ <<>> \in Seq(Nat)
  BY NewSourceSound, EmptySeq
<1>2. TypeOK
  BY DEF IInv
<1>3. /\ src' = [src EXCEPT ![p] = NewSource] /\ buffer' = [buffer EXCEPT ![p] = <<>>]
      /\ exists' = [exists EXCEPT ![p] = FALSE] /\ mode' = [mode EXCEPT ![p] = None]
      /\ pc' = [pc EXCEPT ![p] = "idle"]
  BY DEF Finish, SetSource, Goto
<1>4. TypeOK'
  BY <1>1, <1>2, <1>3 DEF TypeOK, Phases
<1>5. pc'[p] = "idle" /\ src'[p] = NewSource /\ buffer'[p] = <<>>
  BY <1>2, <1>3 DEF TypeOK
<1>6. \A q \in Procs \ {p} : pc'[q] = pc[q] /\ src'[q] = src[q] /\ buffer'[q] = buffer[q]
  BY <1>2, <1>3 DEF TypeOK
<1> QED BY <1>1, <1>4, <1>5, <1>6, ProcStep

(* A step that changes the source and the phase, and no more.              *)
LEMMA SourceStep ==
  ASSUME IInv, NEW p \in Procs, NEW s \in Source, NEW w \in Phases,
         pc' = [pc EXCEPT ![p] = w], src' = [src EXCEPT ![p] = s], Sound(w, s, buffer[p]),
         UNCHANGED <<row, current, mode, buffer, exists>>
  PROVE  IInv'
<1>1. TypeOK /\ RowOK(row')
  BY DEF IInv
<1>2. TypeOK'
  BY <1>1 DEF TypeOK
<1>3. pc'[p] = w /\ src'[p] = s /\ buffer'[p] = buffer[p]
  BY <1>1 DEF TypeOK
<1>4. \A q \in Procs \ {p} : pc'[q] = pc[q] /\ src'[q] = src[q] /\ buffer'[q] = buffer[q]
  BY <1>1 DEF TypeOK
<1> QED BY <1>1, <1>2, <1>3, <1>4, ProcStep

(* A step that changes the phase only.                                     *)
LEMMA PhaseStep ==
  ASSUME IInv, NEW p \in Procs, NEW w \in Phases, pc' = [pc EXCEPT ![p] = w],
         Sound(w, src[p], buffer[p]), UNCHANGED <<row, current, src, buffer>>,
         mode' \in [Procs -> Modes \cup {None}], exists' \in [Procs -> BOOLEAN]
  PROVE  IInv'
<1>1. TypeOK /\ RowOK(row')
  BY DEF IInv
<1>2. TypeOK'
  BY <1>1 DEF TypeOK
<1>3. pc'[p] = w /\ src'[p] = src[p] /\ buffer'[p] = buffer[p]
  BY <1>1 DEF TypeOK
<1>4. \A q \in Procs \ {p} : pc'[q] = pc[q] /\ src'[q] = src[q] /\ buffer'[q] = buffer[q]
  BY <1>1 DEF TypeOK
<1> QED BY <1>1, <1>2, <1>3, <1>4, ProcStep

(* read has returned these bytes, of source s.                             *)
LEMMA GotStep ==
  ASSUME IInv, NEW p \in Procs, NEW s \in Source, NEW bytes \in Seq(Nat), Got(p, s, bytes),
         \A x \in {"read", "select"} : (x = "select" => bytes = <<>>)
                                          => Sound(x, s, buffer[p] \o bytes),
         UNCHANGED <<row, current>>
  PROVE  IInv'
<1>0. TypeOK /\ RowOK(row')
  BY DEF IInv
<1>1. CASE bytes = <<>> /\ mode[p] = "no_cache"
  BY <1>0, <1>1, FinishStep DEF Got
<1>2. CASE ~(bytes = <<>> /\ mode[p] = "no_cache")
  <2> DEFINE x == IF bytes # <<>> THEN "read" ELSE "select"
             b == buffer[p] \o bytes
  <2>1. /\ src' = [src EXCEPT ![p] = s] /\ buffer' = [buffer EXCEPT ![p] = b]
        /\ pc' = [pc EXCEPT ![p] = x] /\ UNCHANGED <<mode, exists>>
    BY <1>2 DEF Got, SetSource, Goto
  <2>2. b \in Seq(Nat)
    <3>1. buffer[p] \in Seq(Nat)
      BY <1>0 DEF TypeOK
    <3> QED BY <3>1, ConcatProperties
  <2>3. Sound(x, s, b) /\ x \in Phases
    BY DEF Phases
  <2> HIDE DEF x, b
  <2>4. TypeOK'
    BY <1>0, <2>1, <2>2, <2>3 DEF TypeOK
  <2>5. pc'[p] = x /\ src'[p] = s /\ buffer'[p] = b
    BY <1>0, <2>1 DEF TypeOK
  <2>6. \A q \in Procs \ {p} : pc'[q] = pc[q] /\ src'[q] = src[q] /\ buffer'[q] = buffer[q]
    BY <1>0, <2>1 DEF TypeOK
  <2> QED BY <1>0, <2>3, <2>4, <2>5, <2>6, ProcStep
<1> QED BY <1>1, <1>2

-----------------------------------------------------------------------------
(* What a process has before a step.                                       *)
LEMMA ProcFacts ==
  ASSUME IInv, NEW p \in Procs
  PROVE  /\ TypeOK /\ RowOK(row) /\ src[p] \in Source /\ buffer[p] \in Seq(Nat)
         /\ pc[p] \in Phases /\ Sound(pc[p], src[p], buffer[p])
<1>1. TypeOK
  BY DEF IInv
<1> QED BY <1>1 DEF IInv, TypeOK

(* The choice of the cache mode, and the first look at the row.            *)
LEMMA StartStep ==
  ASSUME IInv, NEW p \in Procs, NEW m \in Modes, Start(p, m) PROVE IInv'
<1> DEFINE w == CASE m = "no_cache" -> "read" [] m = "check_cache" -> "connect"
                  [] OTHER -> "fetch"
<1>1. /\ pc[p] = "idle" /\ mode' = [mode EXCEPT ![p] = m] /\ pc' = [pc EXCEPT ![p] = w]
      /\ UNCHANGED <<row, current, src, buffer, exists>>
  BY DEF Start, At, Goto
<1>2. w \in {"read", "connect", "fetch"}
  BY DEF Modes
<1> HIDE DEF w
<1>3. /\ mode' \in [Procs -> Modes \cup {None}] /\ exists' \in [Procs -> BOOLEAN]
  BY <1>1 DEF IInv, TypeOK
<1>4. Sound(w, src[p], buffer[p])
  <2>1. Sound("idle", src[p], buffer[p])
    BY <1>1, ProcFacts
  <2>2. src[p] = NewSource /\ src[p].before_data_
    BY <2>1 DEF Sound, Phase, NewSource
  <2>3. buffer[p] = <<>>
    BY <2>1, <2>2 DEF Sound, Unseen
  <2> QED BY <1>2, <2>2, <2>3, NewSourceSound
<1>5. w \in Phases
  BY <1>2 DEF Phases
<1> QED BY <1>1, <1>3, <1>4, <1>5, PhaseStep

(* The steps of download before the data is read.                          *)
LEMMA BeforeReadStep ==
  ASSUME IInv, NEW p \in Procs, Fetch(p) \/ Connect(p) \/ Compare(p) PROVE IInv'
<1>0. /\ TypeOK /\ RowOK(row) /\ src[p] \in Source /\ buffer[p] \in Seq(Nat)
      /\ Sound(pc[p], src[p], buffer[p])
  BY ProcFacts
<1>1. CASE Finish(p) /\ UNCHANGED <<row, current>>
  BY <1>0, <1>1, FinishStep
<1>2. CASE pc[p] = "fetch" /\ Goto(p, "connect") /\ UNCHANGED <<row, current, local>>
  <2>1. Sound("connect", src[p], buffer[p])
    BY <1>0, <1>2 DEF Sound, Phase, Unseen, Busy
  <2>2. mode' \in [Procs -> Modes \cup {None}] /\ exists' \in [Procs -> BOOLEAN]
    BY <1>0, <1>2 DEF TypeOK, local
  <2>3. pc' = [pc EXCEPT ![p] = "connect"] /\ UNCHANGED <<row, current, src, buffer>>
    BY <1>2 DEF local, Goto
  <2> QED BY <2>1, <2>2, <2>3, PhaseStep DEF Phases
<1>3. CASE pc[p] = "compare" /\ Goto(p, "read") /\ UNCHANGED <<row, current, local>>
  <2>1. Sound("read", src[p], buffer[p])
    BY <1>0, <1>3 DEF Sound, Phase, Unseen, Busy
  <2>2. mode' \in [Procs -> Modes \cup {None}] /\ exists' \in [Procs -> BOOLEAN]
    BY <1>0, <1>3 DEF TypeOK, local
  <2>3. pc' = [pc EXCEPT ![p] = "read"] /\ UNCHANGED <<row, current, src, buffer>>
    BY <1>3 DEF local, Goto
  <2> QED BY <2>1, <2>2, <2>3, PhaseStep DEF Phases
<1>4. CASE Connect(p)
  <2> DEFINE s == BeginRead(src[p], 0)
  <2>1. /\ pc[p] = "connect" /\ src' = [src EXCEPT ![p] = s]
        /\ pc' = [pc EXCEPT ![p] = "connecting"]
        /\ UNCHANGED <<row, current, mode, buffer, exists>>
    BY <1>4 DEF Connect, At, SetSource, Goto
  <2>2. ~HasPending(src[p])
    <3>1. src[p] = NewSource
      BY <1>0, <2>1 DEF Sound, Phase
    <3>2. NewSource.pending_ = <<>> /\ NewSource.pending_pos_ = 0 /\ Len(<<>>) = 0
      BY EmptySeq DEF NewSource
    <3> QED BY <3>1, <3>2 DEF HasPending
  <2>3. s \in Source /\ Sound("connecting", s, buffer[p])
    <3>1. Sound("connect", src[p], buffer[p]) /\ 0 \in Nat
      BY <1>0, <2>1
    <3> QED BY ONLY <1>0, <2>2, <3>1, BeginReadSound
  <2> HIDE DEF s
  <2> QED BY <2>1, <2>3, SourceStep DEF Phases
<1> QED BY <1>1, <1>2, <1>3, <1>4 DEF Fetch, Compare, At

(* read, by the reader.                                                    *)
LEMMA ReadStep ==
  ASSUME IInv, NEW p \in Procs, NEW length \in 1..MaxRead, Read(p, length) PROVE IInv'
<1>0. /\ src[p] \in Source /\ buffer[p] \in Seq(Nat) /\ Sound("read", src[p], buffer[p])
      /\ UNCHANGED <<row, current>> /\ length \in Nat \ {0}
  <2>1. pc[p] = "read" /\ UNCHANGED <<row, current>>
    BY DEF Read, At
  <2>2. length \in Nat \ {0}
    BY DownloadAssumption
  <2> QED BY <2>1, <2>2, ProcFacts
<1>1. CASE HasPending(src[p])
  <2> DEFINE r == FromPending(src[p], length)
  <2>1. /\ r.source \in Source /\ r.bytes \in Seq(Nat) /\ r.bytes # <<>>
        /\ Sound("read", r.source, buffer[p] \o r.bytes)
    BY <1>0, <1>1, FromPendingSound
  <2>2. Got(p, r.source, r.bytes)
    BY <1>1 DEF Read
  <2> HIDE DEF r
  <2> QED BY <1>0, <2>1, <2>2, GotStep
<1>2. CASE ~HasPending(src[p])
  <2> DEFINE s == BeginRead(src[p], length)
  <2>1. /\ src' = [src EXCEPT ![p] = s] /\ pc' = [pc EXCEPT ![p] = "reading"]
        /\ UNCHANGED <<row, current, mode, buffer, exists>>
    BY <1>2 DEF Read, SetSource, Goto
  <2>2. s \in Source /\ Sound("reading", s, buffer[p])
    BY <1>0, <1>2, BeginReadSound
  <2> HIDE DEF s
  <2> QED BY <2>1, <2>2, SourceStep DEF Phases
<1> QED BY <1>1, <1>2

(* What libcurl does.                                                      *)
LEMMA CurlStep ==
  ASSUME IInv, NEW p \in Procs,
         Respond(p) \/ Deliver(p) \/ Complete(p) \/ BreakOff(p)
  PROVE  IInv'
<1>0. /\ TypeOK /\ src[p] \in Source /\ buffer[p] \in Seq(Nat) /\ pc[p] \in Phases
      /\ Sound(pc[p], src[p], buffer[p]) /\ pc[p] \in Busy
      /\ UNCHANGED <<row, current, pc, mode, buffer, exists>>
  <2>1. pc[p] \in Busy /\ UNCHANGED <<row, current, pc, mode, buffer, exists>>
    BY DEF Respond, Deliver, Complete, BreakOff, Performing, At, Busy
  <2> QED BY <2>1, ProcFacts
<1>1. \E s \in Source : src' = [src EXCEPT ![p] = s] /\ Sound(pc[p], s, buffer[p])
  <2>1. CASE Respond(p)
    <3>1. PICK v \in {current, ErrorPage}, d \in BOOLEAN :
            src' = [src EXCEPT ![p] = Responded(src[p], v, d)] /\ MayRespond(src[p])
      BY <2>1 DEF Respond, SetSource
    <3>2. v \in Versions \cup {ErrorPage}
      BY <1>0 DEF TypeOK
    <3> QED BY <1>0, <3>1, <3>2, RespondedSound
  <2>2. CASE Deliver(p)
    <3>1. PICK n \in 0..Blocks(src[p].version) :
            src' = [src EXCEPT ![p] = write_function(src[p], n)] /\ src[p].version # None
      BY <2>2 DEF Deliver, SetSource
    <3>2. Blocks(src[p].version) \in Nat
      <4>1. src[p].version \in Versions \cup {ErrorPage}
        BY <1>0, <3>1 DEF Source
      <4>2. \A v \in 1..Len(Sizes) : Sizes[v] \in Nat
        BY ElementOfSeq, UrlSourceAssumption
      <4> QED BY <4>1, <4>2 DEF Blocks, Versions
    <3>3. n \in Nat
      BY <3>2
    <3> QED BY <1>0, <3>1, <3>3, WriteSound
  <2>3. CASE Complete(p) \/ BreakOff(p)
    <3>1. src' = [src EXCEPT ![p] = Ended(src[p])]
      BY <2>3 DEF Complete, BreakOff, SetSource
    <3> QED BY <1>0, <3>1, EndedSound
  <2> QED BY <2>1, <2>2, <2>3
<1>2. PICK s \in Source : src' = [src EXCEPT ![p] = s] /\ Sound(pc[p], s, buffer[p])
  BY <1>1
<1>3. pc' = [pc EXCEPT ![p] = pc[p]]
  BY <1>0 DEF TypeOK
<1> QED BY <1>0, <1>2, <1>3, SourceStep

(* The end of impl::read.                                                  *)
LEMMA ReturnStep == ASSUME IInv, NEW p \in Procs, Return(p) PROVE IInv'
<1> DEFINE s == Cleared(Checked(src[p]))
<1>0. /\ TypeOK /\ RowOK(row) /\ src[p] \in Source /\ buffer[p] \in Seq(Nat)
      /\ Sound(pc[p], src[p], buffer[p]) /\ pc[p] \in Busy
      /\ UNCHANGED <<row, current>> /\ Performed(src[p])
  <2>1. pc[p] \in Busy /\ UNCHANGED <<row, current>> /\ Performed(src[p])
    BY DEF Return, Performing, At, Busy
  <2> QED BY <2>1, ProcFacts
<1>1. CASE Finish(p)
  BY <1>0, <1>1, FinishStep
<1>2. ~CheckThrows(src[p]) =>
        /\ s \in Source /\ src[p].buffer_ \in Seq(Nat)
        /\ pc[p] = "connecting" => buffer[p] \o src[p].buffer_ = buffer[p]
        /\ \A x \in {"read", "select", "compare"} : Sound(x, s, buffer[p] \o src[p].buffer_)
  BY <1>0, ReturnSound
<1>3. CASE ~CheckThrows(src[p]) /\ pc[p] = "reading" /\ Got(p, s, src[p].buffer_)
  <2> HIDE DEF s
  <2> QED BY <1>0, <1>2, <1>3, GotStep
<1>4. CASE /\ ~CheckThrows(src[p]) /\ pc[p] = "connecting"
           /\ SetSource(p, s)
           /\ Goto(p, IF mode[p] = "check_cache" THEN "compare" ELSE "read")
           /\ UNCHANGED <<mode, buffer, exists>>
  <2> DEFINE w == IF mode[p] = "check_cache" THEN "compare" ELSE "read"
  <2> HIDE DEF s
  <2>1. src' = [src EXCEPT ![p] = s] /\ pc' = [pc EXCEPT ![p] = w]
    BY <1>4 DEF SetSource, Goto
  <2>2. w \in {"compare", "read"} /\ w \in Phases
    BY DEF Phases
  <2>3. s \in Source /\ Sound(w, s, buffer[p])
    BY <1>2, <1>4, <2>2
  <2> HIDE DEF w
  <2> QED BY <1>0, <1>4, <2>1, <2>2, <2>3, SourceStep
<1> QED BY <1>1, <1>3, <1>4 DEF Return, At

(* url_cache_update: a row is written from what was read.                  *)
LEMMA UpdateStep ==
  ASSUME IInv, NEW p \in Procs, SelectForUpdate(p) \/ WriteRow(p) PROVE IInv'
<1>0. /\ TypeOK /\ RowOK(row) /\ src[p] \in Source /\ buffer[p] \in Seq(Nat)
      /\ Sound(pc[p], src[p], buffer[p])
  BY ProcFacts
<1>1. CASE SelectForUpdate(p)
  <2>1. /\ pc[p] = "select" /\ exists' = [exists EXCEPT ![p] = row # None]
        /\ pc' = [pc EXCEPT ![p] = "write"] /\ UNCHANGED <<row, current, mode, src, buffer>>
    BY <1>1 DEF SelectForUpdate, At, Goto
  <2>2. Sound("write", src[p], buffer[p])
    BY <1>0, <2>1 DEF Sound, Phase, Unseen, Busy
  <2>3. mode' \in [Procs -> Modes \cup {None}] /\ exists' \in [Procs -> BOOLEAN]
    BY <1>0, <2>1 DEF TypeOK
  <2> QED BY <2>1, <2>2, <2>3, PhaseStep DEF Phases
<1>2. CASE WriteRow(p)
  <2>1. /\ pc[p] = "write" /\ Finish(p) /\ UNCHANGED current
        /\ row' = NewRow(p) \/ row' = row
    BY <1>2 DEF WriteRow, At
  <2>2. /\ Chained(src[p], buffer[p]) /\ Seen(src[p]) /\ ~src[p].before_data_
        /\ Unanswered(src[p])
    BY <1>0, <2>1 DEF Sound, Phase
  <2>3. /\ NewRow(p).data = buffer[p] /\ NewRow(p).version = src[p].version
        /\ NewRow(p).time = src[p].http_date_
    BY DEF NewRow
  <2>4. \A i \in 1..Len(buffer[p]) : buffer[p][i] = i
    <3> DEFINE b == buffer[p]
               x == src[p].buffer_
               y == Rest(src[p])
    <3>1. x \in Seq(Nat) /\ y \in Seq(Nat) /\ src[p].received \in Nat
      BY <1>0, <2>2, RestIsSeq DEF Source, Chained
    <3>2. (b \o x) \o y = Count(src[p].received)
      BY <2>2 DEF Chained
    <3> HIDE DEF b, x, y
    <3>3. b \in Seq(Nat) /\ Len(b) \in Nat /\ Len(x) \in Nat /\ Len(y) \in Nat
      BY <1>0, <3>1, LenProperties DEF b
    <3>4. b \o x \in Seq(Nat) /\ Len(b \o x) = Len(b) + Len(x)
      BY <3>1, <3>3, ConcatProperties
    <3>5. Len((b \o x) \o y) = Len(b) + Len(x) + Len(y)
      BY <3>1, <3>3, <3>4, ConcatProperties
    <3>6. Len(Count(src[p].received)) = src[p].received
          /\ \A i \in 1..src[p].received : Count(src[p].received)[i] = i
      BY <3>1, CountIsSeq
    <3>7. ASSUME NEW i \in 1..Len(b) PROVE b[i] = i
      <4>1. /\ i \in 1..(Len(b) + Len(x)) /\ i <= Len(b) /\ i \in 1..src[p].received
            /\ i \in 1..(Len(b) + Len(x) + Len(y)) /\ i <= Len(b) + Len(x)
        BY <3>2, <3>3, <3>5, <3>6
      <4>2. (b \o x)[i] = b[i]
        BY <3>1, <3>3, <4>1, ConcatProperties
      <4>3. ((b \o x) \o y)[i] = (b \o x)[i]
        BY <3>1, <3>3, <3>4, <4>1, ConcatProperties
      <4> QED BY <3>2, <3>6, <4>1, <4>2, <4>3
    <3> QED BY <3>7 DEF b
  <2>5. src[p].version # ErrorPage /\ (src[p].http_date_ > 0 => src[p].http_date_ = src[p].version)
    <3>1. src[p].http_date_ = IF src[p].dated THEN src[p].version ELSE -1
      BY <2>2 DEF Seen
    <3>2. src[p].dated => src[p].http_date_ = src[p].version
      BY <3>1
    <3>3. ~src[p].dated => ~(src[p].http_date_ > 0)
      BY <3>1
    <3>4. src[p].version # ErrorPage
      BY <2>2 DEF Seen
    <3> QED BY <3>2, <3>3, <3>4
  <2>6. RowOK(NewRow(p))
    BY <1>0, <2>3, <2>4, <2>5 DEF RowOK
  <2>7. RowOK(row')
    BY <1>0, <2>1, <2>6
  <2> QED BY <2>1, <2>7, FinishStep
<1> QED BY <1>1, <1>2

(* The invariant is inductive.                                             *)
LEMMA NextIInv == IInv /\ [Next]_vars => IInv'
<1> SUFFICES ASSUME IInv, [Next]_vars PROVE IInv'
  OBVIOUS
<1>1. ASSUME NEW p \in Procs, Step(p) PROVE IInv'
  <2>1. CASE GiveUp(p)
    <3>1. Finish(p) /\ UNCHANGED <<row, current>> /\ RowOK(row')
      BY <2>1 DEF GiveUp, IInv
    <3> QED BY <3>1, FinishStep
  <2> QED BY <1>1, <2>1, BeforeReadStep, ReadStep, CurlStep, ReturnStep, UpdateStep DEF Step
<1>2. ASSUME NEW p \in Procs, NEW m \in Modes, Start(p, m) PROVE IInv'
  BY <1>2, StartStep
<1>3. CASE UNCHANGED <<pc, mode, src, buffer, exists>> /\ row' \in {row, None}
           /\ current' \in Versions
  <2>1. TypeOK'
    <3>1. TypeOK
      BY DEF IInv
    <3> QED BY <1>3, <3>1 DEF TypeOK
  <2>2. RowOK(row')
    BY <1>3 DEF IInv, RowOK
  <2> QED BY <1>3, <2>1, <2>2 DEF IInv
<1>4. CASE ExpireUrlCache \/ Publish \/ UNCHANGED vars
  <2>1. current \in Versions
    BY DEF IInv, TypeOK
  <2> QED BY <1>3, <1>4, <2>1 DEF ExpireUrlCache, Publish, vars, local
<1> QED BY <1>1, <1>2, <1>4 DEF Next

-----------------------------------------------------------------------------
(* The inductive invariant holds in every behaviour.                       *)
THEOREM Invariance == Spec => []IInv
<1>1. Init => IInv
  BY InitIInv
<1> QED BY <1>1, NextIInv, PTL DEF Spec

(* The variables of download and url_source keep their types.              *)
THEOREM TypeCorrect == Spec => []TypeOK
<1>1. IInv => TypeOK
  BY DEF IInv
<1> QED BY <1>1, Invariance, PTL

(* No block is lost, repeated or moved between libcurl's callbacks and the *)
(* reader, whatever the sizes of callbacks and buffers.                    *)
THEOREM BlocksInOrder == Spec => []InOrder
<1>1. ASSUME IInv PROVE InOrder
  <2>1. \A p \in Procs : Chained(src[p], buffer[p])
    BY <1>1 DEF IInv, Sound
  <2>2. ASSUME NEW p \in Procs
        PROVE  (buffer[p] \o src[p].buffer_) \o Rest(src[p]) = [i \in 1..src[p].received |-> i]
    BY <2>1 DEF Chained, Count
  <2> QED BY <2>1, <2>2 DEF InOrder, Chained
<1> QED BY <1>1, Invariance, PTL

(* The body of an error response is neither passed on nor stored.          *)
THEOREM ErrorPagesDropped == Spec => []NoErrorPage
<1>1. ASSUME IInv PROVE NoErrorPage
  <2>1. row # None => row.version # ErrorPage
    BY <1>1 DEF IInv, RowOK
  <2>2. ASSUME NEW p \in Procs, src[p].version = ErrorPage PROVE buffer[p] = <<>>
    BY <1>1, <2>2 DEF IInv, Sound, Unseen, Seen
  <2> QED BY <2>1, <2>2 DEF NoErrorPage
<1> QED BY <1>1, Invariance, PTL

(* What check_cache takes from the cache is the whole file that the server *)
(* announced, whatever other processes have done to the row.               *)
THEOREM CacheCurrent == Spec => []CheckedIsCurrent
<1>1. ASSUME IInv, NEW p \in Procs, At(p, "compare"), Matches(src[p], row)
      PROVE  row.version = src[p].version /\ row.data = Whole(src[p].version)
  <2>1. Sound("compare", src[p], buffer[p]) /\ RowOK(row) /\ src[p] \in Source
    BY <1>1, ProcFacts DEF At
  <2>2. /\ row # None /\ row.time = src[p].http_date_ /\ Len(row.data) = src[p].file_size_
        /\ src[p].http_date_ > 0
    BY <1>1 DEF Matches
  <2>3. /\ src[p].http_date_ = IF src[p].dated THEN src[p].version ELSE -1
        /\ src[p].file_size_ = IF src[p].dated THEN Blocks(src[p].version) ELSE -1
    BY <2>1 DEF Sound, Phase, Seen
  <2>4. /\ src[p].http_date_ = src[p].version
        /\ src[p].file_size_ = Blocks(src[p].version)
    BY <2>2, <2>3
  <2>5. row.version = src[p].version
    BY <2>1, <2>2, <2>4 DEF RowOK
  <2>6. /\ row.data \in Seq(Nat) /\ \A i \in 1..Len(row.data) : row.data[i] = i
        /\ Len(row.data) = Blocks(src[p].version)
    BY <2>1, <2>2, <2>4 DEF RowOK
  <2>7. row.data = [i \in 1..Len(row.data) |-> i]
    <3>1. row.data \in [1..Len(row.data) -> Nat]
      BY <2>6, LenProperties
    <3> QED BY <2>6, <3>1
  <2> QED BY <2>5, <2>6, <2>7 DEF Whole
<1>2. IInv => CheckedIsCurrent
  BY <1>1 DEF CheckedIsCurrent
<1> QED BY <1>2, Invariance, PTL
=============================================================================
