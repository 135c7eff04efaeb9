-------------------------- MODULE Downloader_proofs -------------------------
(***************************************************************************)
(* For any URLs and any number of helper threads: the assertions of        *)
(* process() hold, no URL is lost or handled twice, and the package set is *)
(* only updated to what was asked for.                                     *)
(***************************************************************************)
EXTENDS Downloader, SequenceTheorems, FiniteSetTheorems, TLAPS

Threads == Helpers \cup {Main}

TypeOK ==
  /\ content \subseteq LoadInfo /\ producers \in Nat /\ reading \subseteq Threads
  /\ writing \in [Threads -> LoadInfo \cup {None}]
  /\ load \in BOOLEAN /\ transient \in BOOLEAN
  /\ urls_ \in Seq(Urls) /\ failed_urls_ \in Seq(Urls) /\ pids_ \subseteq Urls
  /\ round \in Nat
  /\ mpc \in {"spawn", "pop", "popping", "load", "round_end", "report", "exit", "aborted"}
  /\ tasks \subseteq Helpers /\ to_load \in LoadInfo \cup {None}
  /\ hpc \in [Helpers -> {"none", "take", "lock", "fast_track", "cached", "download",
                          "downloaded", "push", "finish"}]
  /\ url \in [Helpers -> Urls \cup {None}] /\ held \in [Helpers -> BOOLEAN]
  /\ others \subseteq Urls /\ packages \subseteq Urls /\ cache \subseteq Urls
  /\ tries \in [Urls -> Nat]

(* A helper works on a URL between taking it and the end of download_url.  *)
HelperOK(h) ==
  /\ url[h] = None <=> hpc[h] \in {"none", "take", "finish"}
  /\ hpc[h] = "push" => writing[h] \in LoadInfo /\ writing[h].url = url[h]
  /\ hpc[h] \in {"cached", "downloaded", "push"} /\ ~load => url[h] \in cache

(* The helpers that have not ended are registered, the others have found   *)
(* urls_ empty.                                                            *)
Active == {h \in Helpers : hpc[h] # "none"}
HelpersCounted ==
  /\ producers = Cardinality(Active)
  /\ \A h \in Helpers : h \notin tasks => hpc[h] = "none"
  /\ \A h \in tasks : hpc[h] \in {"none", "finish"} => urls_ = <<>>

(* Where the main thread is in the rounds.                                 *)
MainOK ==
  /\ mpc \in {"pop", "popping", "load", "round_end"} => tasks = Helpers
  /\ mpc \in {"round_end", "report", "exit"} => content = {} /\ Active = {}
  /\ mpc = "round_end" => urls_ = <<>>
  /\ mpc \in {"report", "exit"} => failed_urls_ = <<>> /\ (urls_ = <<>> \/ round = Rounds)
  /\ mpc \in {"spawn", "pop", "popping", "load", "round_end"} => round < Rounds
  /\ to_load # None <=> mpc = "load"
  /\ to_load # None => load
  /\ ended # None =>
       /\ mpc = "exit"
       /\ ended.set # None => load /\ ended.set = pids_ /\ (urls_ = <<>> \/ ended.ignore)

-----------------------------------------------------------------------------
(* The places a URL can be at, and that it is at one of them only.         *)
PlaceNames == {"urls", "failed", "helper", "queue", "main", "loaded"}

In(u, place) ==
  \/ place = "urls" /\ \E k \in DOMAIN urls_ : urls_[k] = u
  \/ place = "failed" /\ \E k \in DOMAIN failed_urls_ : failed_urls_[k] = u
  \/ place = "helper" /\ \E h \in Helpers : url[h] = u
  \/ place = "queue" /\ \E i \in content : i.url = u
  \/ place = "main" /\ to_load # None /\ to_load.url = u
  \/ place = "loaded" /\ u \in pids_

InOnePlace ==
  \A u \in Urls : \A x, y \in PlaceNames : In(u, x) /\ In(u, y) => x = y

(* ... and there only once.                                                *)
OnceThere ==
  /\ \A j, k \in DOMAIN urls_ : urls_[j] = urls_[k] => j = k
  /\ \A j, k \in DOMAIN failed_urls_ : failed_urls_[j] = failed_urls_[k] => j = k
  /\ \A g, h \in Helpers : url[g] # None /\ url[g] = url[h] => g = h
  /\ \A i, j \in content : i.url = j.url => i = j

NoneLost ==
  /\ \A u \in Urls : (\E x \in PlaceNames : In(u, x)) \/ (~load /\ u \in cache)
  /\ \A u \in Urls : ~load /\ In(u, "queue") => u \in cache

TriesOK ==
  \A u \in Urls :
    /\ In(u, "failed") => tries[u] = round + 1
    /\ In(u, "urls") \/ In(u, "helper") => tries[u] = round

PlacesOK == InOnePlace /\ OnceThere /\ NoneLost /\ TriesOK

IInv ==
  /\ TypeOK
  /\ \A h \in Helpers : HelperOK(h)
  /\ HelpersCounted
  /\ MainOK
  /\ mpc # "aborted" => PlacesOK

-----------------------------------------------------------------------------
(* What vector::back and pop_back leave of a vector.                       *)
LEMMA FrontLast ==
  ASSUME NEW S, NEW s \in Seq(S), s # <<>>
  PROVE  /\ Last(s) \in S /\ Front(s) \in Seq(S) /\ Len(s) \in DOMAIN s
         /\ DOMAIN s = 1..Len(s) /\ Len(s) \in Nat \ {0}
         /\ DOMAIN Front(s) = DOMAIN s \ {Len(s)} /\ Last(s) = s[Len(s)]
         /\ \A k \in DOMAIN Front(s) : Front(s)[k] = s[k]
<1>1. DOMAIN s = 1..Len(s) /\ Len(s) \in Nat \ {0}
  BY LenProperties, EmptySeq
<1>2. \A i \in 1..(Len(s) - 1) : s[i] \in S
  BY <1>1, ElementOfSeq
<1>3. 1 \in Int /\ Len(s) - 1 \in Int
  BY <1>1
<1> DEFINE f == Front(s)
           n == Len(s) - 1
<1>4. n \in Nat /\ Len(s) = n + 1 /\ f = SubSeq(s, 1, n)
  BY <1>1 DEF Front
<1> HIDE DEF n, f
<1>5. /\ f \in Seq(S) /\ Len(f) = IF 1 <= n THEN n - 1 + 1 ELSE 0
      /\ \A i \in 1..(n - 1 + 1) : f[i] = s[1 + i - 1]
  <2>1. \A i \in 1..n : s[i] \in S
    BY <1>2 DEF n
  <2> QED BY <1>4, <2>1, SubSeqProperties
<1>6. Len(f) = n
  BY <1>4, <1>5
<1>7. DOMAIN f = 1..n
  BY <1>5, <1>6, LenProperties
<1>8. DOMAIN f = DOMAIN s \ {Len(s)}
  BY <1>1, <1>4, <1>7
<1>9. ASSUME NEW k \in 1..n PROVE f[k] = s[k]
  <2>1. k \in 1..(n - 1 + 1) /\ 1 + k - 1 = k
    BY <1>4
  <2> QED BY <1>5, <2>1
<1>10. s[Len(s)] \in S
  BY <1>1, ElementOfSeq
<1>11. Len(s) \in DOMAIN s /\ Last(s) = s[Len(s)]
  BY <1>1 DEF Last
<1>12. \A k \in DOMAIN f : f[k] = s[k]
  BY <1>7, <1>9
<1> QED BY <1>1, <1>5, <1>8, <1>10, <1>11, <1>12 DEF f

(* The URLs at first: all of them, once.                                   *)
LEMMA Reversed ==
  /\ Reverse(UrlList) \in Seq(Urls)
  /\ \A u \in Urls : \E k \in DOMAIN Reverse(UrlList) : Reverse(UrlList)[k] = u
  /\ \A j, k \in DOMAIN Reverse(UrlList) :
       Reverse(UrlList)[j] = Reverse(UrlList)[k] => j = k
<1> DEFINE n == Len(UrlList)
           r == Reverse(UrlList)
<1>1. UrlList \in Seq(Urls) /\ n \in Nat /\ DOMAIN UrlList = 1..n
  BY DownloaderAssumption, LenProperties
<1>2. \A j, k \in 1..n : UrlList[j] = UrlList[k] => j = k
  BY <1>1, DownloaderAssumption DEF IsInjective
<1>3. \A k \in 1..n : UrlList[k] \in Urls
  BY <1>1, ElementOfSeq
<1>4. r = [i \in 1..n |-> UrlList[(n - i) + 1]]
  BY DEF Reverse
<1> HIDE DEF n, r
<1>5. \A i \in 1..n : (n - i) + 1 \in 1..n /\ (n - ((n - i) + 1)) + 1 = i
  BY <1>1
<1>6. DOMAIN r = 1..n /\ \A i \in 1..n : r[i] = UrlList[(n - i) + 1]
  BY <1>4
<1>7. r \in [1..n -> Urls]
  BY <1>3, <1>4, <1>5
<1>8. r \in Seq(Urls)
  BY <1>1, <1>7, SeqDef
<1>9. ASSUME NEW u \in Urls PROVE \E k \in DOMAIN r : r[k] = u
  <2>1. PICK i \in 1..n : UrlList[i] = u
    BY <1>1 DEF Urls, ToSet
  <2>2. (n - i) + 1 \in 1..n /\ r[(n - i) + 1] = UrlList[(n - ((n - i) + 1)) + 1]
    BY <1>5, <1>6
  <2> QED BY <1>5, <1>6, <2>1, <2>2
<1>10. ASSUME NEW j \in 1..n, NEW k \in 1..n, r[j] = r[k] PROVE j = k
  <2>1. (n - j) + 1 = (n - k) + 1
    BY <1>2, <1>5, <1>6, <1>10
  <2> QED BY <1>1, <2>1
<1> QED BY <1>6, <1>8, <1>9, <1>10 DEF r

(* The helpers are finitely many, and None is nothing else.                *)
LEMMA Constants ==
  /\ IsFiniteSet(Helpers) /\ Helpers # {} /\ None \notin LoadInfo /\ None \notin Urls
  /\ \A i \in LoadInfo : i.url \in Urls
BY DownloaderAssumption DEF LoadInfo

(* The command starts with all URLs in urls_.                              *)
LEMMA InitIInv == Init => IInv
<1> SUFFICES ASSUME Init PROVE IInv
  OBVIOUS
<1> USE Constants, Reversed
<1>1. TypeOK
  <2>1. <<>> \in Seq(Urls)
    BY EmptySeq
  <2> QED BY <2>1 DEF Init, TypeOK, Threads
<1>2. \A h \in Helpers : HelperOK(h)
  BY DEF Init, HelperOK
<1>3. HelpersCounted
  BY FS_EmptySet DEF Init, HelpersCounted, Active
<1>4. MainOK
  BY DEF Init, MainOK, Rounds
<1>5. \A u \in Urls : In(u, "urls")
  BY DEF Init, In
<1>6. \A u \in Urls : \A x \in PlaceNames : x # "urls" => ~In(u, x)
  <2>1. DOMAIN failed_urls_ = {}
    BY DEF Init
  <2> QED BY <2>1 DEF Init, In, PlaceNames
<1>7. OnceThere
  <2>1. DOMAIN failed_urls_ = {}
    BY DEF Init
  <2> QED BY <2>1 DEF Init, OnceThere
<1>8. InOnePlace /\ NoneLost /\ TriesOK
  BY <1>5, <1>6 DEF InOnePlace, NoneLost, TriesOK, PlaceNames, Init
<1> QED BY <1>1, <1>2, <1>3, <1>4, <1>7, <1>8 DEF IInv, PlacesOK

-----------------------------------------------------------------------------
(* URL v goes from one place to another, or, without load, is done with:   *)
(* its file is in the cache.                                               *)
Moved(v, from, to) ==
  \A u \in Urls : \A x \in PlaceNames :
    In(u, x)' <=> (u = v /\ x = to) \/ (In(u, x) /\ ~(u = v /\ x = from))

(* Such a move keeps every URL in one place.                               *)
LEMMA MoveStep ==
  ASSUME PlacesOK, NEW v \in Urls, NEW from \in PlaceNames, NEW to \in PlaceNames \cup {"gone"},
         In(v, from), from # to, Moved(v, from, to), OnceThere',
         UNCHANGED <<load, round>>, load \/ cache \subseteq cache',
         \A u \in Urls : u # v => tries'[u] = tries[u],
         to = "failed" => tries'[v] = round + 1,
         to = "helper" => tries'[v] = round,
         to # "urls",
         to \in {"queue", "gone"} /\ ~load => v \in cache',
         to = "gone" => ~load
  PROVE  PlacesOK'
<1>1. InOnePlace /\ NoneLost /\ TriesOK
  BY DEF PlacesOK
<1>2. InOnePlace'
  BY <1>1 DEF InOnePlace, Moved
<1>3. NoneLost'
  <2>1. ASSUME NEW u \in Urls PROVE (\E x \in PlaceNames : In(u, x)') \/ (~load /\ u \in cache')
    <3>1. CASE u = v /\ to \in PlaceNames
      BY <3>1 DEF Moved
    <3>2. CASE u = v /\ to = "gone"
      BY <3>2
    <3>3. CASE u # v
      BY <1>1, <3>3 DEF Moved, NoneLost
    <3> QED BY <3>1, <3>2, <3>3
  <2>2. ASSUME NEW u \in Urls, ~load, In(u, "queue")' PROVE u \in cache'
    BY <1>1, <2>2 DEF Moved, NoneLost, PlaceNames
  <2> QED BY <2>1, <2>2 DEF NoneLost
<1>4. TriesOK'
  <2>1. \A x \in PlaceNames : In(v, x)' => x = to
    BY <1>1 DEF Moved, InOnePlace
  <2>2. \A u \in Urls : u # v => \A x \in PlaceNames : In(u, x)' => In(u, x)
    BY DEF Moved
  <2> QED BY <1>1, <2>1, <2>2 DEF TriesOK, PlaceNames
<1> QED BY <1>2, <1>3, <1>4 DEF PlacesOK

(* A step that moves no URL.                                               *)
LEMMA StayStep ==
  ASSUME PlacesOK, UNCHANGED <<urls_, failed_urls_, url, content, to_load, pids_>>,
         UNCHANGED <<load, round, tries>>, load \/ cache \subseteq cache'
  PROVE  PlacesOK'
<1>1. \A u \in Urls : \A x \in PlaceNames : In(u, x)' <=> In(u, x)
  BY DEF In
<1>2. InOnePlace' /\ TriesOK'
  BY <1>1 DEF PlacesOK, InOnePlace, TriesOK, PlaceNames
<1>3. NoneLost'
  BY <1>1 DEF PlacesOK, NoneLost, PlaceNames
<1>4. OnceThere'
  BY DEF PlacesOK, OnceThere
<1> QED BY <1>2, <1>3, <1>4 DEF PlacesOK

(* A step of helper h between its start and its end.                       *)
LEMMA HelperAct ==
  ASSUME IInv, NEW h \in Helpers, hpc[h] # "none", Running, TypeOK', PlacesOK',
         hpc'[h] # "none", \A g \in Helpers : g # h => hpc'[g] = hpc[g],
         UNCHANGED <<producers, tasks, mpc, round, to_load, ended, load>>,
         urls_' = urls_ \/ urls_ # <<>>,
         hpc'[h] = "finish" => urls_' = <<>>,
         HelperOK(h)',
         \A g \in Helpers : g # h => url'[g] = url[g] /\ writing'[g] = writing[g],
         load \/ cache \subseteq cache'
  PROVE  IInv'
<1>0. HelpersCounted /\ MainOK /\ TypeOK
  BY DEF IInv
<1>1. Active' = Active
  BY DEF Active
<1>2. h \in tasks
  BY <1>0 DEF HelpersCounted
<1>3. HelpersCounted'
  <2>1. \A g \in tasks : hpc'[g] \in {"none", "finish"} => urls_' = <<>>
    BY <1>0 DEF HelpersCounted, TypeOK
  <2> QED BY <1>0, <1>1, <2>1 DEF HelpersCounted, TypeOK
<1>4. mpc \in {"spawn", "pop", "popping", "load"}
  BY <1>0 DEF MainOK, Active, Running, TypeOK
<1>5. MainOK'
  BY <1>0, <1>1, <1>4 DEF MainOK
<1>6. ASSUME NEW g \in Helpers PROVE HelperOK(g)'
  <2>1. HelperOK(g)
    BY DEF IInv
  <2> QED BY <2>1 DEF HelperOK
<1> QED BY <1>3, <1>5, <1>6 DEF IInv

-----------------------------------------------------------------------------
(* A helper that is between its start and its end runs in a round.         *)
LEMMA HelperFacts ==
  ASSUME IInv, NEW h \in Helpers, NEW where, At(h, where)
  PROVE  /\ TypeOK /\ HelperOK(h) /\ PlacesOK /\ Running /\ hpc[h] = where
         /\ hpc[h] \notin {"none", "take", "finish"} => url[h] \in Urls /\ In(url[h], "helper")
<1>1. TypeOK /\ HelperOK(h) /\ PlacesOK /\ Running /\ hpc[h] = where
  BY DEF IInv, At, Running
<1> QED BY <1>1 DEF HelperOK, TypeOK, In

(* The effect of Goto and NextUrl.                                         *)
LEMMA GotoFacts ==
  ASSUME TypeOK, NEW h \in Helpers, Goto(h, "take"),
         held' = [held EXCEPT ![h] = FALSE], url' = [url EXCEPT ![h] = None]
  PROVE  /\ hpc' \in [Helpers -> {"none", "take", "lock", "fast_track", "cached", "download",
                                  "downloaded", "push", "finish"}]
         /\ url' \in [Helpers -> Urls \cup {None}] /\ held' \in [Helpers -> BOOLEAN]
         /\ hpc'[h] = "take" /\ url'[h] = None
         /\ \A g \in Helpers : g # h => hpc'[g] = hpc[g] /\ url'[g] = url[g]
BY DEF TypeOK, Goto

(* A helper takes a URL from urls_, or finds none.                         *)
LEMMA TakeUrlStep == ASSUME IInv, NEW h \in Helpers, TakeUrl(h) PROVE IInv'
<1> USE Constants
<1>0. TypeOK /\ HelperOK(h) /\ PlacesOK /\ Running /\ hpc[h] = "take" /\ url[h] = None
  BY HelperFacts DEF TakeUrl, HelperOK
<1>1. /\ UNCHANGED <<content, producers, writing, reading, failed_urls_, pids_, load, transient>>
      /\ UNCHANGED <<round, mpc, tasks, to_load, ended, held, others, packages, cache, tries>>
  BY DEF TakeUrl, queue, main, world
<1>2. CASE urls_ = <<>>
  <2>1. UNCHANGED <<urls_, url>> /\ hpc' = [hpc EXCEPT ![h] = "finish"]
    BY <1>2 DEF TakeUrl, Goto
  <2>2. /\ hpc'[h] = "finish" /\ \A g \in Helpers : g # h => hpc'[g] = hpc[g]
        /\ TypeOK'
    BY <1>0, <1>1, <2>1 DEF TypeOK
  <2>3. PlacesOK'
    BY <1>0, <1>1, <2>1, StayStep
  <2>4. HelperOK(h)'
    BY <1>0, <2>1, <2>2 DEF HelperOK
  <2> QED BY <1>0, <1>1, <1>2, <2>1, <2>2, <2>3, <2>4, HelperAct
<1>3. CASE urls_ # <<>>
  <2> DEFINE v == Last(urls_)
  <2>1. /\ url' = [url EXCEPT ![h] = v] /\ urls_' = Front(urls_)
        /\ hpc' = [hpc EXCEPT ![h] = "lock"]
    BY <1>3 DEF TakeUrl, Goto
  <2>2. /\ v \in Urls /\ urls_' \in Seq(Urls) /\ Len(urls_) \in DOMAIN urls_
        /\ DOMAIN urls_' = DOMAIN urls_ \ {Len(urls_)} /\ v = urls_[Len(urls_)]
        /\ \A k \in DOMAIN urls_' : urls_'[k] = urls_[k]
    <3>1. urls_ \in Seq(Urls)
      BY <1>0 DEF TypeOK
    <3>2. /\ v \in Urls /\ Front(urls_) \in Seq(Urls) /\ Len(urls_) \in DOMAIN urls_
          /\ DOMAIN Front(urls_) = DOMAIN urls_ \ {Len(urls_)} /\ v = urls_[Len(urls_)]
          /\ \A k \in DOMAIN Front(urls_) : Front(urls_)[k] = urls_[k]
      BY <1>3, <3>1, FrontLast
    <3> QED BY <2>1, <3>2
  <2> HIDE DEF v
  <2>3. /\ url' \in [Helpers -> Urls \cup {None}] /\ url'[h] = v /\ hpc'[h] = "lock"
        /\ hpc' \in [Helpers -> {"none", "take", "lock", "fast_track", "cached", "download",
                                 "downloaded", "push", "finish"}]
        /\ \A g \in Helpers : g # h => hpc'[g] = hpc[g] /\ url'[g] = url[g]
    BY <1>0, <2>1, <2>2 DEF TypeOK
  <2>4. TypeOK'
    BY <1>0, <1>1, <2>2, <2>3 DEF TypeOK
  <2>5. In(v, "urls") /\ OnceThere /\ InOnePlace /\ TriesOK
    BY <1>0, <2>2 DEF In, PlacesOK
  <2>6. ~In(v, "helper")
    BY <2>2, <2>5 DEF InOnePlace, PlaceNames
  <2>7. Moved(v, "urls", "helper")
    <3>1. ASSUME NEW u \in Urls PROVE In(u, "urls")' <=> In(u, "urls") /\ u # v
      BY <2>2, <2>5 DEF In, OnceThere
    <3>2. ASSUME NEW u \in Urls PROVE In(u, "helper")' <=> In(u, "helper") \/ u = v
      BY <1>0, <2>3 DEF In
    <3>3. ASSUME NEW u \in Urls, NEW x \in PlaceNames, x # "urls", x # "helper"
          PROVE  In(u, x)' <=> In(u, x)
      BY <1>1, <3>3 DEF In
    <3> QED BY <3>1, <3>2, <3>3 DEF Moved, PlaceNames
  <2>8. OnceThere'
    <3>1. \A g \in Helpers : url[g] # v
      BY <2>6 DEF In
    <3> QED BY <1>0, <1>1, <2>2, <2>3, <2>5, <3>1 DEF OnceThere
  <2>9. PlacesOK'
    <3>1. tries[v] = round
      BY <2>2, <2>5 DEF TriesOK
    <3> QED BY <1>0, <1>1, <2>2, <2>5, <2>7, <2>8, <3>1, MoveStep DEF PlaceNames
  <2>10. HelperOK(h)'
    BY <2>2, <2>3 DEF HelperOK
  <2> QED BY <1>0, <1>1, <1>3, <2>3, <2>4, <2>9, <2>10, HelperAct
<1> QED BY <1>2, <1>3

(* A helper gets the lock, or has downloaded the file.                     *)
LEMMA LockAndDownloadStep ==
  ASSUME IInv, NEW h \in Helpers, LockDigest(h) \/ DownloadGood(h) PROVE IInv'
<1> USE Constants
<1>0. /\ TypeOK /\ HelperOK(h) /\ PlacesOK /\ Running /\ hpc[h] \in {"lock", "download"}
      /\ url[h] \in Urls
  BY HelperFacts DEF LockDigest, DownloadGood
<1>1. /\ UNCHANGED <<content, producers, writing, reading, urls_, failed_urls_, pids_, load>>
      /\ UNCHANGED <<transient, round, mpc, tasks, to_load, ended, url, others, packages, tries>>
  BY DEF LockDigest, DownloadGood, queue, shared, main, world
<1>2. /\ hpc' \in [Helpers -> {"none", "take", "lock", "fast_track", "cached", "download",
                               "downloaded", "push", "finish"}]
      /\ \A g \in Helpers : g # h => hpc'[g] = hpc[g]
      /\ hpc'[h] = "fast_track" \/ (hpc'[h] = "downloaded" /\ url[h] \in cache')
      /\ held' \in [Helpers -> BOOLEAN] /\ cache \subseteq cache' /\ cache' \subseteq Urls
  <2>1. /\ hpc \in [Helpers -> {"none", "take", "lock", "fast_track", "cached", "download",
                                "downloaded", "push", "finish"}]
        /\ held \in [Helpers -> BOOLEAN] /\ cache \subseteq Urls
    BY <1>0 DEF TypeOK
  <2>2. CASE LockDigest(h)
    BY <2>1, <2>2 DEF LockDigest, Goto, world
  <2>3. CASE DownloadGood(h)
    BY <1>0, <2>1, <2>3 DEF DownloadGood, Goto
  <2> QED BY <2>2, <2>3
<1>3. TypeOK'
  BY <1>0, <1>1, <1>2 DEF TypeOK
<1>4. PlacesOK'
  BY <1>0, <1>1, <1>2, StayStep
<1>5. HelperOK(h)'
  BY <1>0, <1>1, <1>2 DEF HelperOK
<1> QED BY <1>0, <1>1, <1>2, <1>3, <1>4, <1>5, HelperAct

(* download_fast_track.                                                    *)
LEMMA FastTrackStep == ASSUME IInv, NEW h \in Helpers, FastTrack(h) PROVE IInv'
<1> USE Constants
<1> DEFINE v == url[h]
<1>0. /\ TypeOK /\ HelperOK(h) /\ PlacesOK /\ Running /\ hpc[h] = "fast_track"
      /\ v \in Urls /\ In(v, "helper")
  BY HelperFacts DEF FastTrack
<1>1. /\ UNCHANGED <<content, producers, writing, reading, urls_, failed_urls_, load, transient>>
      /\ UNCHANGED <<round, mpc, tasks, to_load, ended, others, packages, cache, tries>>
  BY DEF FastTrack, queue, main, world
<1>2. CASE v \in packages
  <2>1. /\ pids_' = pids_ \cup {v} /\ held' = [held EXCEPT ![h] = FALSE]
        /\ url' = [url EXCEPT ![h] = None] /\ Goto(h, "take")
    BY <1>2 DEF FastTrack, NextUrl
  <2>2. /\ hpc' \in [Helpers -> {"none", "take", "lock", "fast_track", "cached", "download",
                                 "downloaded", "push", "finish"}]
        /\ url' \in [Helpers -> Urls \cup {None}] /\ held' \in [Helpers -> BOOLEAN]
        /\ hpc'[h] = "take" /\ url'[h] = None
        /\ \A g \in Helpers : g # h => hpc'[g] = hpc[g] /\ url'[g] = url[g]
    BY <1>0, <2>1, GotoFacts
  <2>3. TypeOK'
    BY <1>0, <1>1, <2>1, <2>2 DEF TypeOK
  <2>4. OnceThere
    BY <1>0 DEF PlacesOK
  <2>5. OnceThere'
    BY <1>1, <2>2, <2>4 DEF OnceThere
  <2>6. Moved(v, "helper", "loaded")
    <3>1. ASSUME NEW u \in Urls PROVE In(u, "helper")' <=> In(u, "helper") /\ u # v
      BY <1>0, <2>2, <2>4 DEF In, OnceThere
    <3>2. ASSUME NEW u \in Urls PROVE In(u, "loaded")' <=> In(u, "loaded") \/ u = v
      BY <2>1 DEF In
    <3>3. ASSUME NEW u \in Urls, NEW x \in PlaceNames, x # "helper", x # "loaded"
          PROVE  In(u, x)' <=> In(u, x)
      BY <1>1, <3>3 DEF In
    <3> QED BY <3>1, <3>2, <3>3 DEF Moved, PlaceNames
  <2> HIDE DEF v
  <2>7. PlacesOK'
    BY <1>0, <1>1, <2>5, <2>6, MoveStep DEF PlaceNames
  <2>8. HelperOK(h)'
    BY <2>2 DEF HelperOK
  <2> QED BY <1>0, <1>1, <2>2, <2>3, <2>7, <2>8, HelperAct
<1>3. CASE v \notin packages
  <2>1. /\ UNCHANGED <<pids_, url, held>>
        /\ hpc' = [hpc EXCEPT ![h] = IF v \in cache THEN "cached" ELSE "download"]
    BY <1>3 DEF FastTrack, Goto
  <2>2. /\ \A g \in Helpers : g # h => hpc'[g] = hpc[g]
        /\ (hpc'[h] = "cached" /\ v \in cache) \/ hpc'[h] = "download"
        /\ hpc' \in [Helpers -> {"none", "take", "lock", "fast_track", "cached", "download",
                                 "downloaded", "push", "finish"}]
    BY <1>0, <2>1 DEF TypeOK
  <2>3. TypeOK'
    BY <1>0, <1>1, <2>1, <2>2 DEF TypeOK
  <2>4. PlacesOK'
    BY <1>0, <1>1, <2>1, StayStep
  <2>5. HelperOK(h)'
    BY <1>0, <1>1, <2>1, <2>2 DEF HelperOK
  <2> QED BY <1>0, <1>1, <2>1, <2>2, <2>3, <2>4, <2>5, HelperAct
<1> QED BY <1>2, <1>3

(* A failed download: the URL is tried again in the next round.            *)
LEMMA DownloadBadStep == ASSUME IInv, NEW h \in Helpers, DownloadBad(h) PROVE IInv'
<1> USE Constants
<1> DEFINE v == url[h]
           n == Len(failed_urls_)
<1>0. /\ TypeOK /\ HelperOK(h) /\ PlacesOK /\ Running /\ hpc[h] = "download"
      /\ v \in Urls /\ In(v, "helper")
  BY HelperFacts DEF DownloadBad
<1>1. /\ UNCHANGED <<content, producers, writing, reading, urls_, pids_, load, transient>>
      /\ UNCHANGED <<round, mpc, tasks, to_load, ended, others, packages, cache>>
      /\ failed_urls_' = Append(failed_urls_, v) /\ tries' = [tries EXCEPT ![v] = tries[v] + 1]
      /\ held' = [held EXCEPT ![h] = FALSE] /\ url' = [url EXCEPT ![h] = None] /\ Goto(h, "take")
  BY DEF DownloadBad, queue, main, NextUrl
<1>2. /\ hpc' \in [Helpers -> {"none", "take", "lock", "fast_track", "cached", "download",
                               "downloaded", "push", "finish"}]
      /\ url' \in [Helpers -> Urls \cup {None}] /\ held' \in [Helpers -> BOOLEAN]
      /\ hpc'[h] = "take" /\ url'[h] = None
      /\ \A g \in Helpers : g # h => hpc'[g] = hpc[g] /\ url'[g] = url[g]
  BY <1>0, <1>1, GotoFacts
<1>3. /\ failed_urls_' \in Seq(Urls) /\ n \in Nat /\ DOMAIN failed_urls_ = 1..n
      /\ DOMAIN failed_urls_' = 1..(n + 1) /\ failed_urls_'[n + 1] = v
      /\ \A k \in 1..n : failed_urls_'[k] = failed_urls_[k]
  <2>1. failed_urls_ \in Seq(Urls)
    BY <1>0 DEF TypeOK
  <2>2. failed_urls_' \in Seq(Urls) /\ Len(failed_urls_') = n + 1 /\ failed_urls_'[n + 1] = v
        /\ \A k \in 1..n : failed_urls_'[k] = failed_urls_[k]
    BY <1>0, <1>1, <2>1, AppendProperties
  <2> QED BY <2>1, <2>2, LenProperties
<1>4. /\ tries' \in [Urls -> Nat] /\ tries'[v] = tries[v] + 1
      /\ \A u \in Urls : u # v => tries'[u] = tries[u]
  BY <1>0, <1>1 DEF TypeOK
<1>5. TypeOK'
  BY <1>0, <1>1, <1>2, <1>3, <1>4 DEF TypeOK
<1>6. OnceThere /\ InOnePlace /\ TriesOK
  BY <1>0 DEF PlacesOK
<1> HIDE DEF v, n
<1>7. \A k \in 1..n : failed_urls_[k] # v
  <2>1. ~In(v, "failed")
    BY <1>0, <1>6 DEF InOnePlace, PlaceNames
  <2> QED BY <1>3, <2>1 DEF In
<1>8. \A k \in 1..(n + 1) : k \in 1..n \/ k = n + 1
  BY <1>3
<1>9. OnceThere'
  <2>1. \A j, k \in DOMAIN failed_urls_' : failed_urls_'[j] = failed_urls_'[k] => j = k
    BY <1>3, <1>6, <1>7, <1>8 DEF OnceThere
  <2> QED BY <1>1, <1>2, <1>6, <2>1 DEF OnceThere
<1>10. Moved(v, "helper", "failed")
  <2>1. ASSUME NEW u \in Urls PROVE In(u, "helper")' <=> In(u, "helper") /\ u # v
    BY <1>0, <1>2, <1>6 DEF In, OnceThere, v
  <2>2. ASSUME NEW u \in Urls PROVE In(u, "failed")' <=> In(u, "failed") \/ u = v
    <3>1. n + 1 \in 1..(n + 1) /\ 1..n \subseteq 1..(n + 1)
      BY <1>3
    <3> QED BY <1>3, <1>8, <3>1 DEF In
  <2>3. ASSUME NEW u \in Urls, NEW x \in PlaceNames, x # "helper", x # "failed"
        PROVE  In(u, x)' <=> In(u, x)
    BY <1>1, <2>3 DEF In
  <2> QED BY <2>1, <2>2, <2>3 DEF Moved, PlaceNames
<1>11. PlacesOK'
  <2>1. tries'[v] = round + 1
    BY <1>0, <1>4, <1>6 DEF TriesOK
  <2> QED BY <1>0, <1>1, <1>4, <1>9, <1>10, <2>1, MoveStep DEF PlaceNames
<1>12. HelperOK(h)'
  BY <1>2 DEF HelperOK
<1> QED BY <1>0, <1>1, <1>2, <1>5, <1>11, <1>12, HelperAct

(* A push that has room: the package goes from the helper to the queue.    *)
LEMMA Inserted ==
  ASSUME IInv, NEW h \in Helpers, NEW where \in {"cached", "downloaded", "push"}, At(h, where),
         NEW i \in LoadInfo, i.url = url[h], content' = content \cup {i},
         writing' = [writing EXCEPT ![h] = None], NextUrl(h),
         UNCHANGED <<producers, reading, shared, main, world>>
  PROVE  IInv'
<1> USE Constants
<1> DEFINE v == url[h]
<1>0. /\ TypeOK /\ HelperOK(h) /\ PlacesOK /\ Running /\ hpc[h] = where
      /\ v \in Urls /\ In(v, "helper")
  BY HelperFacts
<1>1. /\ UNCHANGED <<producers, reading, urls_, failed_urls_, pids_, load, transient>>
      /\ UNCHANGED <<round, mpc, tasks, to_load, ended, others, packages, cache, tries>>
      /\ held' = [held EXCEPT ![h] = FALSE] /\ url' = [url EXCEPT ![h] = None] /\ Goto(h, "take")
  BY DEF shared, main, world, NextUrl
<1>2. /\ hpc' \in [Helpers -> {"none", "take", "lock", "fast_track", "cached", "download",
                               "downloaded", "push", "finish"}]
      /\ url' \in [Helpers -> Urls \cup {None}] /\ held' \in [Helpers -> BOOLEAN]
      /\ hpc'[h] = "take" /\ url'[h] = None
      /\ \A g \in Helpers : g # h => hpc'[g] = hpc[g] /\ url'[g] = url[g]
  BY <1>0, <1>1, GotoFacts
<1>3. /\ writing' \in [Threads -> LoadInfo \cup {None}] /\ content' \subseteq LoadInfo
      /\ \A g \in Helpers : g # h => writing'[g] = writing[g]
  BY <1>0 DEF TypeOK, Threads
<1>4. TypeOK'
  BY <1>0, <1>1, <1>2, <1>3 DEF TypeOK
<1>5. OnceThere /\ InOnePlace
  BY <1>0 DEF PlacesOK
<1>6. \A j \in content : j.url # v
  <2>1. ~In(v, "queue")
    BY <1>0, <1>5 DEF InOnePlace, PlaceNames
  <2> QED BY <2>1 DEF In
<1>7. OnceThere'
  BY <1>1, <1>2, <1>5, <1>6 DEF OnceThere
<1>8. Moved(v, "helper", "queue")
  <2>1. ASSUME NEW u \in Urls PROVE In(u, "helper")' <=> In(u, "helper") /\ u # v
    BY <1>0, <1>2, <1>5 DEF In, OnceThere
  <2>2. ASSUME NEW u \in Urls PROVE In(u, "queue")' <=> In(u, "queue") \/ u = v
    BY DEF In
  <2>3. ASSUME NEW u \in Urls, NEW x \in PlaceNames, x # "helper", x # "queue"
        PROVE  In(u, x)' <=> In(u, x)
    BY <1>1, <2>3 DEF In
  <2> QED BY <2>1, <2>2, <2>3 DEF Moved, PlaceNames
<1>9. ~load => v \in cache'
  BY <1>0, <1>1 DEF HelperOK
<1> HIDE DEF v
<1>10. PlacesOK'
  BY <1>0, <1>1, <1>7, <1>8, <1>9, MoveStep DEF PlaceNames
<1>11. HelperOK(h)'
  BY <1>2 DEF HelperOK
<1> QED BY <1>0, <1>1, <1>2, <1>3, <1>4, <1>10, <1>11, HelperAct

(* queue_.push.                                                            *)
LEMMA PushStep == ASSUME IInv, NEW h \in Helpers, Push(h) \/ PushReturns(h) PROVE IInv'
<1> USE Constants
<1>1. CASE Push(h)
  <2> DEFINE i == [url |-> url[h], download |-> hpc[h] = "downloaded"]
  <2>0. /\ TypeOK /\ HelperOK(h) /\ PlacesOK /\ Running /\ url[h] \in Urls
        /\ hpc[h] \in {"cached", "downloaded"} /\ At(h, hpc[h])
    <3>1. At(h, hpc[h]) /\ hpc[h] \in {"cached", "downloaded"}
      BY <1>1 DEF Push, At
    <3> QED BY <3>1, HelperFacts
  <2>1. /\ Queue!BeginPush(h, i) /\ UNCHANGED <<shared, main, world>>
        /\ IF writing'[h] # None THEN Goto(h, "push") /\ UNCHANGED <<url, held>> ELSE NextUrl(h)
    BY <1>1 DEF Push
  <2>2. i \in LoadInfo /\ i.url = url[h]
    BY <2>0 DEF LoadInfo
  <2> HIDE DEF i
  <2>3. writing \in [Threads -> LoadInfo \cup {None}] /\ h \in Threads
    BY <2>0 DEF TypeOK, Threads
  <2>4. CASE Queue!Insert(h, i)
    <3>1. /\ content' = content \cup {i} /\ writing' = [writing EXCEPT ![h] = None]
          /\ UNCHANGED <<producers, reading>>
      BY <2>4 DEF Queue!Insert
    <3>2. NextUrl(h)
      BY <2>1, <2>3, <3>1
    <3> QED BY <2>0, <2>1, <2>2, <3>1, <3>2, Inserted
  <2>5. CASE Queue!WaitForRoom(h, i)
    <3>1. writing' = [writing EXCEPT ![h] = i] /\ UNCHANGED <<content, producers, reading>>
      BY <2>5 DEF Queue!WaitForRoom
    <3>2. /\ writing' \in [Threads -> LoadInfo \cup {None}] /\ writing'[h] = i /\ i # None
          /\ \A g \in Helpers : g # h => writing'[g] = writing[g]
      BY <2>2, <2>3, <3>1 DEF Threads
    <3>3. Goto(h, "push") /\ UNCHANGED <<url, held>>
      BY <2>1, <3>2
    <3>4. /\ UNCHANGED <<urls_, failed_urls_, pids_, load, transient, round, mpc, tasks, to_load>>
          /\ UNCHANGED <<ended, others, packages, cache, tries>>
      BY <2>1 DEF shared, main, world
    <3>5. /\ hpc' \in [Helpers -> {"none", "take", "lock", "fast_track", "cached", "download",
                                   "downloaded", "push", "finish"}]
          /\ hpc'[h] = "push" /\ \A g \in Helpers : g # h => hpc'[g] = hpc[g]
      BY <2>0, <3>3 DEF TypeOK, Goto
    <3>6. TypeOK'
      BY <2>0, <3>1, <3>2, <3>3, <3>4, <3>5 DEF TypeOK
    <3>7. PlacesOK'
      BY <2>0, <3>1, <3>3, <3>4, StayStep
    <3>8. HelperOK(h)'
      BY <2>0, <2>2, <3>2, <3>3, <3>4, <3>5 DEF HelperOK
    <3> QED BY <2>0, <3>1, <3>2, <3>3, <3>4, <3>5, <3>6, <3>7, <3>8, HelperAct
  <2> QED BY <2>1, <2>4, <2>5 DEF Queue!BeginPush
<1>2. CASE PushReturns(h)
  <2>1. /\ At(h, "push") /\ Queue!Insert(h, writing[h]) /\ NextUrl(h)
        /\ UNCHANGED <<shared, main, world>>
    BY <1>2 DEF PushReturns, Queue!EndPush
  <2>2. writing[h] \in LoadInfo /\ writing[h].url = url[h]
    BY <2>1, HelperFacts DEF HelperOK
  <2>3. /\ content' = content \cup {writing[h]} /\ writing' = [writing EXCEPT ![h] = None]
        /\ UNCHANGED <<producers, reading>>
    BY <2>1 DEF Queue!Insert
  <2> QED BY <2>1, <2>2, <2>3, Inserted
<1> QED BY <1>1, <1>2

(* The helper ends: its registration ends with it.                         *)
LEMMA FinishStep == ASSUME IInv, NEW h \in Helpers, FinishHelper(h) PROVE IInv'
<1> USE Constants
<1>0. /\ TypeOK /\ HelperOK(h) /\ PlacesOK /\ Running /\ hpc[h] = "finish" /\ url[h] = None
      /\ HelpersCounted /\ MainOK
  <2>1. TypeOK /\ HelperOK(h) /\ PlacesOK /\ Running /\ hpc[h] = "finish"
    BY HelperFacts DEF FinishHelper
  <2> QED BY <2>1 DEF HelperOK, IInv
<1>1. /\ producers' = producers - 1 /\ hpc' = [hpc EXCEPT ![h] = "none"]
      /\ UNCHANGED <<content, writing, reading, urls_, failed_urls_, pids_, load, transient>>
      /\ UNCHANGED <<round, mpc, tasks, to_load, ended, url, held, others, packages, cache, tries>>
  BY DEF FinishHelper, Queue!RemoveProducer, Goto, shared, main, world
<1>2. /\ hpc' \in [Helpers -> {"none", "take", "lock", "fast_track", "cached", "download",
                               "downloaded", "push", "finish"}]
      /\ hpc'[h] = "none" /\ \A g \in Helpers : g # h => hpc'[g] = hpc[g]
  BY <1>0, <1>1 DEF TypeOK
<1>3. Active' = Active \ {h} /\ h \in Active /\ IsFiniteSet(Active)
  <2>1. IsFiniteSet(Active)
    BY FS_Subset DEF Active
  <2> QED BY <1>0, <1>2, <2>1 DEF Active
<1>4. Cardinality(Active) \in Nat /\ Cardinality(Active') = Cardinality(Active) - 1
      /\ Cardinality(Active') \in Nat
  BY <1>3, FS_RemoveElement, FS_CardinalityType
<1>5. TypeOK'
  BY <1>0, <1>1, <1>2, <1>4 DEF TypeOK, HelpersCounted
<1>6. h \in tasks /\ urls_ = <<>>
  BY <1>0 DEF HelpersCounted
<1>7. HelpersCounted'
  BY <1>0, <1>1, <1>2, <1>4, <1>6 DEF HelpersCounted
<1>8. MainOK'
  BY <1>0, <1>1, <1>3 DEF MainOK
<1>9. PlacesOK'
  BY <1>0, <1>1, StayStep
<1>10. ASSUME NEW g \in Helpers PROVE HelperOK(g)'
  <2>1. HelperOK(g)
    BY DEF IInv
  <2> QED BY <1>0, <1>1, <1>2, <2>1 DEF HelperOK
<1> QED BY <1>5, <1>7, <1>8, <1>9, <1>10 DEF IInv

-----------------------------------------------------------------------------
(* A step that leaves the helpers and urls_ alone.                         *)
LEMMA MainAct ==
  ASSUME IInv, UNCHANGED <<hpc, url, writing, producers, urls_, tasks, load>>,
         load \/ cache \subseteq cache', TypeOK', MainOK', PlacesOK'
  PROVE  IInv'
<1>1. ASSUME NEW g \in Helpers PROVE HelperOK(g)'
  <2>1. HelperOK(g)
    BY DEF IInv
  <2> QED BY <2>1 DEF HelperOK
<1>2. HelpersCounted'
  BY DEF IInv, HelpersCounted, Active
<1> QED BY <1>1, <1>2 DEF IInv

(* A producer is registered and its thread started.                        *)
LEMMA SpawnStep == ASSUME IInv, Spawn PROVE IInv'
<1> USE Constants
<1>0. TypeOK /\ HelpersCounted /\ MainOK /\ PlacesOK /\ mpc = "spawn"
  BY DEF IInv, Spawn
<1>1. PICK h \in Helpers \ tasks : tasks' = tasks \cup {h} /\ hpc' = [hpc EXCEPT ![h] = "take"]
  BY DEF Spawn, Goto
<1>2. /\ producers' = producers + 1 /\ mpc' = (IF tasks' = Helpers THEN "pop" ELSE "spawn")
      /\ UNCHANGED <<content, writing, reading, urls_, failed_urls_, pids_, load, transient>>
      /\ UNCHANGED <<round, to_load, ended, url, held, others, packages, cache, tries>>
  BY DEF Spawn, Queue!AddProducer, shared, options, world
<1>3. /\ hpc' \in [Helpers -> {"none", "take", "lock", "fast_track", "cached", "download",
                               "downloaded", "push", "finish"}]
      /\ hpc'[h] = "take" /\ \A g \in Helpers : g # h => hpc'[g] = hpc[g]
      /\ hpc[h] = "none"
  <2>1. hpc[h] = "none"
    BY <1>0 DEF HelpersCounted
  <2> QED BY <1>0, <1>1, <2>1 DEF TypeOK
<1>4. Active' = Active \cup {h} /\ h \notin Active /\ IsFiniteSet(Active)
  <2>1. IsFiniteSet(Active)
    BY FS_Subset DEF Active
  <2> QED BY <1>3, <2>1 DEF Active
<1>5. Cardinality(Active') = Cardinality(Active) + 1
  BY <1>4, FS_AddElement
<1>6. TypeOK'
  BY <1>0, <1>1, <1>2, <1>3 DEF TypeOK
<1>7. HelpersCounted'
  BY <1>0, <1>1, <1>2, <1>3, <1>5 DEF HelpersCounted
<1>8. MainOK'
  BY <1>0, <1>2 DEF MainOK
<1>9. PlacesOK'
  BY <1>0, <1>2, StayStep
<1>10. ASSUME NEW g \in Helpers PROVE HelperOK(g)'
  <2>1. HelperOK(g)
    BY DEF IInv
  <2> QED BY <1>2, <1>3, <2>1 DEF HelperOK
<1> QED BY <1>6, <1>7, <1>8, <1>9, <1>10 DEF IInv

(* pop returns an element.                                                 *)
LEMMA PoppedStep ==
  ASSUME IInv, mpc \in {"pop", "popping"}, NEW i \in content, Popped(i),
         UNCHANGED <<shared, options, round, ended, tasks, helper, world>>
  PROVE  IInv'
<1> USE Constants
<1>0. TypeOK /\ MainOK /\ PlacesOK /\ i \in LoadInfo /\ i.url \in Urls /\ to_load = None
  BY DEF IInv, TypeOK, MainOK
<1> DEFINE v == i.url
           to == IF load THEN "main" ELSE "gone"
<1>1. /\ content' = content \ {i} /\ reading' = reading \ {Main}
      /\ UNCHANGED <<producers, writing, urls_, failed_urls_, pids_, load, transient, round, ended>>
      /\ UNCHANGED <<tasks, hpc, url, held, others, packages, cache, tries>>
      /\ IF load THEN mpc' = "load" /\ to_load' = i ELSE mpc' = "pop" /\ to_load' = to_load
  BY DEF Popped, Queue!Remove, shared, options, helper, world
<1>2. TypeOK'
  BY <1>0, <1>1 DEF TypeOK
<1>3. MainOK'
  BY <1>0, <1>1 DEF MainOK, Active
<1>4. OnceThere /\ NoneLost /\ In(v, "queue")
  BY <1>0 DEF PlacesOK, In
<1>5. OnceThere'
  BY <1>1, <1>4 DEF OnceThere
<1>6. Moved(v, "queue", to)
  <2>1. ASSUME NEW u \in Urls PROVE In(u, "queue")' <=> In(u, "queue") /\ u # v
    BY <1>1, <1>4 DEF In, OnceThere
  <2>2. ASSUME NEW u \in Urls PROVE In(u, "main")' <=> load /\ u = v
    BY <1>0, <1>1 DEF In
  <2>3. \A u \in Urls : ~In(u, "main")
    BY <1>0 DEF In
  <2>4. ASSUME NEW u \in Urls, NEW x \in PlaceNames, x # "queue", x # "main"
        PROVE  In(u, x)' <=> In(u, x)
    BY <1>1, <2>4 DEF In
  <2> QED BY <2>1, <2>2, <2>3, <2>4 DEF Moved, PlaceNames
<1>7. /\ ~load => v \in cache' /\ to = "gone"
      /\ load => to = "main"
      /\ to \in PlaceNames \cup {"gone"}
  BY <1>0, <1>1, <1>4 DEF NoneLost, PlaceNames
<1> HIDE DEF v, to
<1>8. PlacesOK'
  <2>1. to \in {"main", "gone"} /\ load \in BOOLEAN /\ (to = "gone" => ~load)
    BY <1>0, <1>7 DEF TypeOK
  <2>2. v \in Urls
    BY <1>0 DEF v
  <2> QED BY <1>0, <1>1, <1>4, <1>5, <1>6, <1>7, <2>1, <2>2, MoveStep DEF PlaceNames
<1> QED BY <1>1, <1>2, <1>3, <1>8, MainAct

(* pop finds nothing: it waits, or no helper is left and the round ends.   *)
LEMMA PopStep == ASSUME IInv, Pop \/ PopReturns PROVE IInv'
<1> USE Constants
<1>0. TypeOK /\ MainOK /\ HelpersCounted /\ mpc \in {"pop", "popping"} /\ PlacesOK
  BY DEF IInv, Pop, PopReturns
<1>1. UNCHANGED <<shared, options, round, ended, tasks, helper, world>>
  BY DEF Pop, PopReturns
<1>2. CASE \E i \in content : Popped(i)
  BY <1>0, <1>1, <1>2, PoppedStep
<1>3. CASE RoundOver \/ (Queue!WaitForElement(Main) /\ mpc' = "popping" /\ UNCHANGED to_load)
  <2>1. /\ UNCHANGED <<content, producers, writing, to_load, urls_, failed_urls_, pids_, load>>
        /\ UNCHANGED <<transient, round, ended, tasks, hpc, url, held, others, packages, cache>>
        /\ UNCHANGED tries /\ content = {} /\ reading' \subseteq reading \cup {Main}
        /\ mpc' = "popping" \/ (mpc' = "round_end" /\ producers = 0)
    BY <1>1, <1>3 DEF RoundOver, Queue!NothingLeft, Queue!WaitForElement, shared, options,
                      helper, world
  <2>2. TypeOK'
    BY <1>0, <2>1 DEF TypeOK, Threads
  <2>3. producers = 0 => Active = {}
    <3>1. IsFiniteSet(Active)
      BY FS_Subset DEF Active
    <3> QED BY <1>0, <3>1, FS_EmptySet DEF HelpersCounted
  <2>4. producers = 0 => urls_ = <<>>
    <3>1. tasks = Helpers
      BY <1>0 DEF MainOK
    <3> QED BY <1>0, <2>3, <3>1 DEF HelpersCounted, Active
  <2>5. MainOK'
    BY <1>0, <2>1, <2>3, <2>4 DEF MainOK, Active
  <2>6. PlacesOK'
    BY <1>0, <2>1, StayStep
  <2> QED BY <2>1, <2>2, <2>5, <2>6, MainAct
<1> QED BY <1>2, <1>3 DEF Pop, PopReturns

(* The package is loaded.                                                  *)
LEMMA LoadStep == ASSUME IInv, Load PROVE IInv'
<1> USE Constants
<1> DEFINE v == to_load.url
<1>0. /\ TypeOK /\ MainOK /\ PlacesOK /\ mpc = "load" /\ to_load \in LoadInfo /\ load
      /\ to_load # None /\ v \in Urls /\ In(v, "main")
  BY DEF IInv, Load, TypeOK, MainOK, In
<1>1. /\ packages' = packages \cup {v} /\ pids_' = pids_ \cup {v} /\ to_load' = None
      /\ cache' \subseteq cache /\ mpc' = "pop"
      /\ UNCHANGED <<content, producers, writing, reading, urls_, failed_urls_, load, transient>>
      /\ UNCHANGED <<round, ended, tasks, hpc, url, held, others, tries>>
  BY DEF Load, queue, options, helper
<1>2. TypeOK'
  BY <1>0, <1>1 DEF TypeOK
<1>3. MainOK'
  BY <1>0, <1>1 DEF MainOK
<1>4. OnceThere'
  BY <1>0, <1>1 DEF PlacesOK, OnceThere
<1>5. Moved(v, "main", "loaded")
  <2>1. ASSUME NEW u \in Urls PROVE ~In(u, "main")' /\ (In(u, "main") <=> u = v)
    BY <1>0, <1>1 DEF In
  <2>2. ASSUME NEW u \in Urls PROVE In(u, "loaded")' <=> In(u, "loaded") \/ u = v
    BY <1>1 DEF In
  <2>3. ASSUME NEW u \in Urls, NEW x \in PlaceNames, x # "main", x # "loaded"
        PROVE  In(u, x)' <=> In(u, x)
    BY <1>1, <2>3 DEF In
  <2> QED BY <2>1, <2>2, <2>3 DEF Moved, PlaceNames
<1> HIDE DEF v
<1>6. PlacesOK'
  BY <1>0, <1>1, <1>4, <1>5, MoveStep DEF PlaceNames
<1> QED BY <1>0, <1>1, <1>2, <1>3, <1>6, MainAct

(* The end of a round: the failed URLs are the ones to try again.          *)
LEMMA EndRoundStep == ASSUME IInv, EndRound PROVE IInv'
<1> USE Constants
<1>0. /\ TypeOK /\ HelpersCounted /\ MainOK /\ PlacesOK /\ mpc = "round_end" /\ content = {}
      /\ Active = {} /\ urls_ = <<>> /\ tasks = Helpers /\ round < Rounds /\ to_load = None
      /\ ended = None
  BY DEF IInv, EndRound, MainOK
<1>1. /\ tasks' = {}
      /\ UNCHANGED <<content, producers, writing, reading, pids_, load, transient, to_load, ended>>
      /\ UNCHANGED <<hpc, url, held, others, packages, cache, tries>>
      /\ \/ /\ failed_urls_ = <<>> /\ mpc' = "report"
            /\ UNCHANGED <<urls_, failed_urls_, round>>
         \/ /\ urls_' = failed_urls_ /\ failed_urls_' = urls_ /\ round' = round + 1
            /\ mpc' = IF round' = Rounds THEN "report" ELSE "spawn"
  BY DEF EndRound, queue, options, helper, world
<1>2. TypeOK'
  <2>1. /\ urls_' \in Seq(Urls) /\ failed_urls_' \in Seq(Urls) /\ round' \in Nat
        /\ mpc' = "report" \/ mpc' = "spawn"
    <3>1. urls_ \in Seq(Urls) /\ failed_urls_ \in Seq(Urls) /\ round \in Nat
      BY <1>0 DEF TypeOK
    <3> QED BY <1>1, <3>1
  <2>2. tasks' \subseteq Helpers
    BY <1>1
  <2> QED BY <1>0, <1>1, <2>1, <2>2 DEF TypeOK
<1>3. /\ \A h \in Helpers : hpc[h] = "none" /\ url[h] = None
  <2>1. \A h \in Helpers : hpc[h] = "none"
    BY <1>0 DEF Active
  <2> QED BY <2>1 DEF IInv, HelperOK
<1>4. HelpersCounted'
  BY <1>0, <1>1, <1>3 DEF HelpersCounted, Active
<1>5. MainOK'
  BY <1>0, <1>1 DEF MainOK, Active, Rounds, TypeOK
<1>6. PlacesOK'
  <2>1. CASE UNCHANGED <<urls_, failed_urls_, round>>
    BY <1>0, <1>1, <2>1, StayStep
  <2>2. CASE urls_' = failed_urls_ /\ failed_urls_' = urls_ /\ round' = round + 1
    <3>0. InOnePlace /\ OnceThere /\ NoneLost /\ TriesOK /\ DOMAIN urls_ = {}
      BY <1>0 DEF PlacesOK
    <3>1. \A u \in Urls : /\ In(u, "urls")' <=> In(u, "failed")
                          /\ ~In(u, "urls") /\ ~In(u, "failed")'
      BY <2>2, <3>0 DEF In
    <3>2. \A u \in Urls : \A x \in PlaceNames :
            x # "urls" /\ x # "failed" => (In(u, x)' <=> In(u, x))
      BY <1>1 DEF In
    <3>3. \A u \in Urls : ~In(u, "helper")'
      BY <1>1, <1>3 DEF In
    <3>4. OnceThere'
      BY <1>1, <2>2, <3>0 DEF OnceThere
    <3>5. InOnePlace'
      BY <3>0, <3>1, <3>2 DEF InOnePlace, PlaceNames
    <3>6. NoneLost'
      <4>1. ASSUME NEW u \in Urls
            PROVE  (\E x \in PlaceNames : In(u, x)') \/ (~load /\ u \in cache)
        <5>1. CASE ~load /\ u \in cache
          BY <5>1
        <5>2. CASE \E x \in PlaceNames : In(u, x)
          <6>1. PICK x \in PlaceNames : In(u, x)
            BY <5>2
          <6>2. CASE x = "failed"
            BY <3>1, <6>1, <6>2 DEF PlaceNames
          <6>3. CASE x # "failed"
            BY <3>1, <3>2, <6>1, <6>3
          <6> QED BY <6>2, <6>3
        <5> QED BY <3>0, <5>1, <5>2 DEF NoneLost
      <4> QED BY <1>1, <3>0, <3>2, <4>1 DEF NoneLost, PlaceNames
    <3>7. TriesOK'
      BY <1>1, <2>2, <3>0, <3>1, <3>3 DEF TriesOK
    <3> QED BY <3>4, <3>5, <3>6, <3>7 DEF PlacesOK
  <2> QED BY <1>1, <2>1, <2>2
<1>7. ASSUME NEW g \in Helpers PROVE HelperOK(g)'
  <2>1. HelperOK(g)
    BY DEF IInv
  <2> QED BY <1>1, <2>1 DEF HelperOK
<1> QED BY <1>2, <1>4, <1>5, <1>6, <1>7 DEF IInv

(* The package set is updated, or not.                                     *)
LEMMA UpdateSetStep ==
  ASSUME IInv, NEW set \in BOOLEAN, NEW ignore \in BOOLEAN, UpdateSet(set, ignore)
  PROVE  IInv'
<1>0. TypeOK /\ MainOK /\ PlacesOK /\ mpc = "report"
  BY DEF IInv, UpdateSet
<1>1. /\ mpc' = "exit" /\ (set => load)
      /\ ended' = [ignore |-> ignore,
                   set |-> IF set /\ (urls_ = <<>> \/ ignore) THEN pids_ ELSE None]
      /\ UNCHANGED <<content, producers, writing, reading, urls_, failed_urls_, pids_, load>>
      /\ UNCHANGED <<transient, round, to_load, tasks, hpc, url, held, others, packages, cache>>
      /\ UNCHANGED tries
  BY DEF UpdateSet, queue, shared, options, helper, world
<1>2. TypeOK'
  BY <1>0, <1>1 DEF TypeOK
<1>3. ended'.ignore = ignore
      /\ (ended'.set # None => set /\ ended'.set = pids_ /\ (urls_ = <<>> \/ ignore))
  BY <1>1
<1>4. MainOK'
  BY <1>0, <1>1, <1>3 DEF MainOK, Active
<1>5. PlacesOK'
  BY <1>0, <1>1, StayStep
<1> QED BY <1>1, <1>2, <1>4, <1>5, MainAct

(* The process is gone.                                                    *)
LEMMA AbortStep == ASSUME IInv, Abort PROVE IInv'
<1> USE Constants
<1>0. TypeOK /\ MainOK /\ Running
  BY DEF IInv, Abort
<1>1. /\ mpc' = "aborted" /\ content' = {} /\ producers' = 0 /\ reading' = {}
      /\ writing' = [t \in Helpers \cup {Main} |-> None]
      /\ urls_' = <<>> /\ failed_urls_' = <<>> /\ pids_' = {}
      /\ tasks' = {} /\ to_load' = None
      /\ hpc' = [h \in Helpers |-> "none"] /\ url' = [h \in Helpers |-> None]
      /\ held' = [h \in Helpers |-> FALSE]
      /\ UNCHANGED <<load, transient, round, ended, others, packages, cache, tries>>
  BY DEF Abort, options, world
<1>2. TypeOK'
  <2>1. <<>> \in Seq(Urls)
    BY EmptySeq
  <2> QED BY <1>0, <1>1, <2>1 DEF TypeOK, Threads
<1>3. HelpersCounted'
  BY <1>1, FS_EmptySet DEF HelpersCounted, Active
<1>4. MainOK'
  BY <1>0, <1>1 DEF MainOK, Running
<1>5. \A h \in Helpers : HelperOK(h)'
  BY <1>1 DEF HelperOK
<1> QED BY <1>1, <1>2, <1>3, <1>4, <1>5 DEF IInv

(* What other processes do.                                                *)
LEMMA OtherStep ==
  ASSUME IInv, NEW u \in Shared, OtherLocks(u) \/ OtherUnlocks(u) \/ OtherLoads(u)
  PROVE  IInv'
<1>0. TypeOK /\ MainOK /\ PlacesOK /\ u \in Urls
  BY DownloaderAssumption DEF IInv, OtherLocks, OtherUnlocks, OtherLoads, Running
<1>1. /\ UNCHANGED <<content, producers, writing, reading, urls_, failed_urls_, pids_, load>>
      /\ UNCHANGED <<transient, round, mpc, tasks, to_load, ended, hpc, url, held, tries>>
      /\ cache \subseteq cache' /\ cache' \subseteq cache \cup {u}
      /\ packages' \subseteq packages \cup {u} /\ others' \subseteq others \cup {u}
  BY DEF OtherLocks, OtherUnlocks, OtherLoads, queue, shared, main, helper
<1>2. TypeOK'
  BY <1>0, <1>1 DEF TypeOK
<1>3. MainOK' /\ PlacesOK'
  <2>1. MainOK'
    BY <1>0, <1>1 DEF MainOK, Active
  <2> QED BY <1>0, <1>1, <2>1, StayStep
<1> QED BY <1>1, <1>2, <1>3, MainAct

-----------------------------------------------------------------------------
(* The invariant is inductive.                                             *)
LEMMA NextIInv == IInv /\ [Next]_vars => IInv'
<1> SUFFICES ASSUME IInv, [Next]_vars PROVE IInv'
  OBVIOUS
<1>1. ASSUME NEW h \in Helpers, HelperStep(h) PROVE IInv'
  BY <1>1, TakeUrlStep, LockAndDownloadStep, FastTrackStep, DownloadBadStep, PushStep, FinishStep
     DEF HelperStep
<1>2. CASE MainStep
  BY <1>2, SpawnStep, PopStep, LoadStep, EndRoundStep, UpdateSetStep DEF MainStep
<1>3. CASE Abort
  BY <1>3, AbortStep
<1>4. ASSUME NEW u \in Shared, OtherLocks(u) \/ OtherUnlocks(u) \/ OtherLoads(u) PROVE IInv'
  BY <1>4, OtherStep
<1>5. CASE UNCHANGED vars
  <2>1. /\ UNCHANGED <<content, producers, writing, reading, urls_, failed_urls_, pids_, load>>
        /\ UNCHANGED <<transient, round, mpc, tasks, to_load, ended, hpc, url, held>>
        /\ UNCHANGED <<others, packages, cache, tries>>
    BY <1>5 DEF vars, queue, shared, main, helper, world
  <2>2. TypeOK' /\ MainOK' /\ HelpersCounted'
    BY <2>1 DEF IInv, TypeOK, MainOK, HelpersCounted, Active
  <2>3. \A h \in Helpers : HelperOK(h)'
    BY <2>1 DEF IInv, HelperOK
  <2>4. mpc' # "aborted" => PlacesOK'
    BY <2>1, StayStep DEF IInv
  <2> QED BY <2>2, <2>3, <2>4 DEF IInv
<1> QED BY <1>1, <1>2, <1>3, <1>4, <1>5 DEF Next

(* The inductive invariant holds in every behaviour of the downloader.     *)
THEOREM Invariance == Spec => []IInv
<1>1. Init => IInv
  BY InitIInv
<1> QED BY <1>1, NextIInv, PTL DEF Spec

(* Every variable keeps its type.                                          *)
THEOREM TypeCorrect == Spec => []TypeOK
<1>1. IInv => TypeOK
  BY DEF IInv
<1> QED BY <1>1, Invariance, PTL

(* The assertions of process() hold at the end of each round, and the      *)
(* helpers that may still push are exactly the registered producers.       *)
THEOREM RoundsAsserted == Spec => []RoundAssertions
<1>1. ASSUME IInv PROVE RoundAssertions
  <2>1. HelpersCounted /\ MainOK
    BY <1>1 DEF IInv
  <2>2. producers = Cardinality({h \in Helpers : hpc[h] # "none"})
    BY <2>1 DEF HelpersCounted, Active
  <2>3. ASSUME mpc = "round_end"
        PROVE  /\ producers = 0 /\ urls_ = <<>> /\ content = {}
               /\ \A h \in Helpers : hpc[h] = "none"
    <3>1. Active = {} /\ urls_ = <<>> /\ content = {}
      BY <2>1, <2>3 DEF MainOK
    <3>2. producers = 0
      BY <2>1, <3>1, FS_EmptySet DEF HelpersCounted
    <3> QED BY <3>1, <3>2 DEF Active
  <2> QED BY <2>2, <2>3 DEF RoundAssertions
<1> QED BY <1>1, Invariance, PTL

-----------------------------------------------------------------------------
(* After process(), a URL is in urls_ or in the set of loaded packages, or *)
(* it was only to be downloaded and is in the cache.                       *)
LEMMA AtTheEnd ==
  ASSUME IInv, mpc \in {"report", "exit"}, NEW u \in Urls
  PROVE  /\ In(u, "urls") \/ In(u, "loaded") \/ (~load /\ u \in cache)
         /\ ~(In(u, "urls") /\ In(u, "loaded"))
         /\ In(u, "urls") => tries[u] = Rounds
<1> USE Constants
<1>0. /\ TypeOK /\ MainOK /\ InOnePlace /\ NoneLost /\ TriesOK
      /\ \A h \in Helpers : HelperOK(h)
  BY DEF IInv, PlacesOK
<1>1. /\ content = {} /\ Active = {} /\ failed_urls_ = <<>> /\ to_load = None
      /\ urls_ = <<>> \/ round = Rounds
  BY <1>0 DEF MainOK
<1>2. ~In(u, "helper")
  <2>1. \A h \in Helpers : url[h] = None
    BY <1>0, <1>1 DEF Active, HelperOK
  <2> QED BY <2>1 DEF In
<1>3. ~In(u, "failed") /\ ~In(u, "queue") /\ ~In(u, "main")
  BY <1>1 DEF In
<1>4. In(u, "urls") \/ In(u, "loaded") \/ (~load /\ u \in cache)
  BY <1>0, <1>2, <1>3 DEF NoneLost, PlaceNames
<1>5. ~(In(u, "urls") /\ In(u, "loaded"))
  BY <1>0 DEF InOnePlace, PlaceNames
<1>6. ASSUME In(u, "urls") PROVE tries[u] = Rounds
  <2>1. round = Rounds
    BY <1>1, <1>6 DEF In
  <2> QED BY <1>0, <1>6, <2>1 DEF TriesOK
<1> QED BY <1>4, <1>5, <1>6

(* In(u, "urls") in the terms of the library.                              *)
LEMMA InUrls ==
  ASSUME TypeOK, NEW u \in Urls
  PROVE  /\ In(u, "urls") <=> Contains(urls_, u)
         /\ In(u, "urls") <=> u \in ToSet(urls_)
<1>1. urls_ \in Seq(Urls) /\ DOMAIN urls_ = 1 .. Len(urls_)
  BY LenProperties DEF TypeOK
<1> QED BY <1>1 DEF In, Contains, ToSet

(* The package set is only updated to all packages asked for, or with      *)
(* --ignore-download-errors to those without a download error.             *)
THEOREM SetsComplete == Spec => []SetUpdateComplete
<1>1. ASSUME IInv, ended # None, ended.set # None
      PROVE  ended.set = IF ended.ignore THEN Urls \ ToSet(urls_) ELSE Urls
  <2>1. /\ mpc = "exit" /\ load /\ ended.set = pids_ /\ (urls_ = <<>> \/ ended.ignore)
        /\ TypeOK
    BY <1>1 DEF IInv, MainOK
  <2>2. pids_ \subseteq Urls
    BY <2>1 DEF TypeOK
  <2>3. \A u \in Urls : u \in pids_ <=> u \notin ToSet(urls_)
    <3> SUFFICES ASSUME NEW u \in Urls PROVE u \in pids_ <=> u \notin ToSet(urls_)
      OBVIOUS
    <3>1. In(u, "loaded") <=> u \in pids_
      BY DEF In
    <3>2. In(u, "urls") <=> u \in ToSet(urls_)
      BY <2>1, InUrls
    <3> QED BY <1>1, <2>1, <3>1, <3>2, AtTheEnd
  <2>4. pids_ = Urls \ ToSet(urls_)
    BY <2>2, <2>3
  <2>5. urls_ = <<>> => ToSet(urls_) = {}
    BY DEF ToSet
  <2> QED BY <2>1, <2>4, <2>5
<1>2. IInv => SetUpdateComplete
  BY <1>1 DEF SetUpdateComplete
<1> QED BY <1>2, Invariance, PTL

-----------------------------------------------------------------------------
(* The element of Places(u) for a place u is at.                           *)
LEMMA PlacesOf ==
  ASSUME NEW u \in Urls, NEW p \in Places(u)
  PROVE  \/ \E k \in DOMAIN urls_ : urls_[k] = u /\ p = <<"urls", k>>
         \/ \E k \in DOMAIN failed_urls_ : failed_urls_[k] = u /\ p = <<"failed", k>>
         \/ \E h \in Helpers : url[h] = u /\ p = <<"helper", h>>
         \/ \E i \in content : i.url = u /\ p = <<"queue", i>>
         \/ to_load # None /\ to_load.url = u /\ p = <<"main", to_load>>
         \/ u \in pids_ /\ p = <<"loaded", u>>
BY DEF Places

(* A URL is at one place at most.                                          *)
LEMMA OnePlace ==
  ASSUME IInv, mpc # "aborted", NEW u \in Urls, NEW p \in Places(u), NEW q \in Places(u)
  PROVE  p = q
<1> USE Constants
<1>0. InOnePlace /\ OnceThere
  BY DEF IInv, PlacesOK
<1>1. \A r \in Places(u) :
        /\ In(u, r[1]) /\ r[1] \in PlaceNames
        /\ r = <<r[1], r[2]>>
        /\ r[1] = "urls" => r[2] \in DOMAIN urls_ /\ urls_[r[2]] = u
        /\ r[1] = "failed" => r[2] \in DOMAIN failed_urls_ /\ failed_urls_[r[2]] = u
        /\ r[1] = "helper" => r[2] \in Helpers /\ url[r[2]] = u
        /\ r[1] = "queue" => r[2] \in content /\ r[2].url = u
        /\ r[1] = "main" => r[2] = to_load
        /\ r[1] = "loaded" => r[2] = u
  <2> SUFFICES ASSUME NEW r \in Places(u)
               PROVE  /\ In(u, r[1]) /\ r[1] \in PlaceNames
                      /\ r = <<r[1], r[2]>>
                      /\ r[1] = "urls" => r[2] \in DOMAIN urls_ /\ urls_[r[2]] = u
                      /\ r[1] = "failed" =>
                           r[2] \in DOMAIN failed_urls_ /\ failed_urls_[r[2]] = u
                      /\ r[1] = "helper" => r[2] \in Helpers /\ url[r[2]] = u
                      /\ r[1] = "queue" => r[2] \in content /\ r[2].url = u
                      /\ r[1] = "main" => r[2] = to_load
                      /\ r[1] = "loaded" => r[2] = u
    OBVIOUS
  <2>1. CASE \E k \in DOMAIN urls_ : urls_[k] = u /\ r = <<"urls", k>>
    BY <2>1 DEF In, PlaceNames
  <2>2. CASE \E k \in DOMAIN failed_urls_ : failed_urls_[k] = u /\ r = <<"failed", k>>
    BY <2>2 DEF In, PlaceNames
  <2>3. CASE \E h \in Helpers : url[h] = u /\ r = <<"helper", h>>
    BY <2>3 DEF In, PlaceNames
  <2>4. CASE \E i \in content : i.url = u /\ r = <<"queue", i>>
    BY <2>4 DEF In, PlaceNames
  <2>5. CASE to_load # None /\ to_load.url = u /\ r = <<"main", to_load>>
    BY <2>5 DEF In, PlaceNames
  <2>6. CASE u \in pids_ /\ r = <<"loaded", u>>
    BY <2>6 DEF In, PlaceNames
  <2> QED BY <2>1, <2>2, <2>3, <2>4, <2>5, <2>6, PlacesOf
<1>2. p[1] = q[1] /\ p[1] \in PlaceNames
  BY <1>0, <1>1 DEF InOnePlace
<1>3. u # None
  OBVIOUS
<1>4. p[2] = q[2]
  <2>1. CASE p[1] = "urls"
    <3>1. \A j, k \in DOMAIN urls_ : urls_[j] = urls_[k] => j = k
      BY <1>0 DEF OnceThere
    <3>2. /\ p[2] \in DOMAIN urls_ /\ urls_[p[2]] = u
          /\ q[2] \in DOMAIN urls_ /\ urls_[q[2]] = u
      BY <1>1, <1>2, <2>1
    <3> QED BY <3>1, <3>2
  <2>2. CASE p[1] = "failed"
    <3>1. \A j, k \in DOMAIN failed_urls_ : failed_urls_[j] = failed_urls_[k] => j = k
      BY <1>0 DEF OnceThere
    <3>2. /\ p[2] \in DOMAIN failed_urls_ /\ failed_urls_[p[2]] = u
          /\ q[2] \in DOMAIN failed_urls_ /\ failed_urls_[q[2]] = u
      BY <1>1, <1>2, <2>2
    <3> QED BY <3>1, <3>2
  <2>3. CASE p[1] = "helper"
    <3>1. \A g, h \in Helpers : url[g] # None /\ url[g] = url[h] => g = h
      BY <1>0 DEF OnceThere
    <3>2. p[2] \in Helpers /\ url[p[2]] = u /\ q[2] \in Helpers /\ url[q[2]] = u
      BY <1>1, <1>2, <2>3
    <3> QED BY <1>3, <3>1, <3>2
  <2>4. CASE p[1] = "queue"
    <3>1. \A i, j \in content : i.url = j.url => i = j
      BY <1>0 DEF OnceThere
    <3>2. p[2] \in content /\ p[2].url = u /\ q[2] \in content /\ q[2].url = u
      BY <1>1, <1>2, <2>4
    <3> QED BY <3>1, <3>2
  <2>5. CASE p[1] \in {"main", "loaded"}
    BY <1>1, <1>2, <2>5
  <2> QED BY <1>2, <2>1, <2>2, <2>3, <2>4, <2>5 DEF PlaceNames
<1> QED BY <1>1, <1>2, <1>4

(* A URL that is somewhere has an element of Places(u).                    *)
LEMMA SomePlace ==
  ASSUME NEW u \in Urls, NEW x \in PlaceNames, In(u, x)
  PROVE  Places(u) # {}
<1>1. CASE x = "urls"
  <2>1. PICK k \in DOMAIN urls_ : urls_[k] = u
    BY <1>1 DEF In
  <2> QED BY <2>1 DEF Places
<1>2. CASE x = "failed"
  <2>1. PICK k \in DOMAIN failed_urls_ : failed_urls_[k] = u
    BY <1>2 DEF In
  <2> QED BY <2>1 DEF Places
<1>3. CASE x = "helper"
  <2>1. PICK h \in Helpers : url[h] = u
    BY <1>3 DEF In
  <2> QED BY <2>1 DEF Places
<1>4. CASE x = "queue"
  <2>1. PICK i \in content : i.url = u
    BY <1>4 DEF In
  <2> QED BY <2>1 DEF Places
<1>5. CASE x = "main"
  <2>1. to_load # None /\ to_load.url = u
    BY <1>5 DEF In
  <2>2. <<"main", to_load>> \in Places(u)
    BY <2>1 DEF Places
  <2> QED BY <2>2
<1>6. CASE x = "loaded"
  <2>1. u \in pids_
    BY <1>6 DEF In
  <2>2. <<"loaded", u>> \in Places(u)
    BY <2>1 DEF Places
  <2> QED BY <2>2
<1> QED BY <1>1, <1>2, <1>3, <1>4, <1>5, <1>6 DEF PlaceNames

(* No URL is lost or handled twice while the threads run, and process()    *)
(* leaves exactly the URLs in urls_ that failed in every round.            *)
THEOREM UrlsOnce == Spec => []EachUrlOnce
<1>1. ASSUME IInv, mpc # "aborted", NEW u \in Urls
      PROVE  Cardinality(Places(u)) \in IF load THEN {1} ELSE {0, 1}
  <2>1. NoneLost
    BY <1>1 DEF IInv, PlacesOK
  <2>2. CASE Places(u) = {}
    <3>1. ~load
      BY <2>1, <2>2, SomePlace DEF NoneLost
    <3> QED BY <2>2, <3>1, FS_EmptySet
  <2>3. CASE Places(u) # {}
    <3>1. PICK p \in Places(u) : TRUE
      BY <2>3
    <3>2. Places(u) = {p}
      BY <1>1, <3>1, OnePlace
    <3>3. Cardinality({p}) = 1
      BY FS_Singleton
    <3> QED BY <3>2, <3>3
  <2> QED BY <2>2, <2>3
<1>2. ASSUME IInv, mpc \in {"report", "exit"}, NEW u \in Urls
      PROVE  IF Contains(urls_, u) THEN tries[u] = Rounds
             ELSE u \in pids_ \/ (~load /\ u \in cache)
  <2>1. In(u, "urls") <=> Contains(urls_, u)
    BY <1>2, InUrls DEF IInv
  <2>2. In(u, "loaded") <=> u \in pids_
    BY DEF In
  <2> QED BY <1>2, <2>1, <2>2, AtTheEnd
<1>3. IInv => EachUrlOnce
  BY <1>1, <1>2 DEF EachUrlOnce
<1> QED BY <1>3, Invariance, PTL
=============================================================================
