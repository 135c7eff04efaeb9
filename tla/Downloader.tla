----------------------------- MODULE Downloader -----------------------------
(***************************************************************************)
(* symboldb_download_repo (lib/symboldb/download_repo.cpp): the downloader *)
(* of one process, its main thread and the helper threads of each round,   *)
(* which meet in a bounded_ordered_queue (module OrderedQueue is what it   *)
(* promises).  Helpers take URLs from urls_, skip the packages that are in *)
(* the database already, fetch the others into the file cache and queue    *)
(* them; the main thread loads what it pops, repeats the failed URLs for   *)
(* up to three rounds, and updates the package set.  Other processes       *)
(* working on the same packages are represented by what they do to the     *)
(* advisory locks, the database and the cache.                             *)
(***************************************************************************)
EXTENDS Naturals, Sequences, FiniteSets, SequencesExt

CONSTANTS
  Shared,    \* packages other processes may be working on, too
  Helpers,   \* opt.download_threads helper threads
  Main,      \* the thread that runs process()
  UrlList,   \* the packages to obtain (pset.values()), without duplicates
  NameOrder, \* NameOrder[u]: the place of u's package name in string order
  None

Urls == ToSet(UrlList)
LoadInfo == [url : Urls, download : BOOLEAN]
Rounds == 3

ASSUME DownloaderAssumption ==
  /\ IsFiniteSet(Helpers) /\ Helpers # {}
  /\ Main \notin Helpers
  /\ UrlList \in Seq(Urls) /\ IsInjective(UrlList)
  /\ NameOrder \in [Urls -> Nat]
  /\ Shared \subseteq Urls
  /\ None \notin LoadInfo /\ None \notin Helpers \cup {Main} \cup Urls

VARIABLES
  content, producers, writing, reading,            \* queue_
  load,      \* load_: the command loads what it downloads
  transient, \* --delete-rpms
  urls_, failed_urls_, pids_,                      \* guarded by mutex_
  round,     \* the round of process(); Rounds after the last
  mpc,       \* where the main thread is
  tasks,     \* the helpers started in this round
  to_load,   \* what the main thread popped
  hpc,       \* hpc[h]: where helper h is
  url,       \* url[h]: the URL helper h works on
  held,      \* held[h]: helper h holds the advisory lock on its URL's digest
  others,    \* URLs whose digest another process has locked
  packages,  \* URLs whose package is in the database
  cache,     \* URLs whose file is in the file cache
  tries,     \* tries[u]: how often u was fetched in vain (history)
  ended      \* how the command ended

queue == <<content, producers, writing, reading>>
shared == <<urls_, failed_urls_, pids_>>
main == <<load, transient, round, mpc, tasks, to_load, ended>>
helper == <<hpc, url, held>>
world == <<others, packages, cache, tries>>
vars == <<queue, shared, main, helper, world>>

Queue == INSTANCE OrderedQueue WITH
  Threads <- Helpers \cup {Main}, Items <- LoadInfo,
  KeyOf <- [i \in LoadInfo |-> NameOrder[i.url]],
  Capacity <- Cardinality(Helpers), MaxProducers <- Cardinality(Helpers)

Init ==
  /\ content = {} /\ producers = 0 /\ reading = {}
  /\ writing = [t \in Helpers \cup {Main} |-> None]
  /\ load \in BOOLEAN /\ transient \in BOOLEAN
  /\ urls_ = Reverse(UrlList)
  /\ failed_urls_ = <<>>
  /\ pids_ = {}
  /\ round = 0 /\ mpc = "spawn" /\ tasks = {} /\ to_load = None
  /\ ended = None
  /\ hpc = [h \in Helpers |-> "none"]
  /\ url = [h \in Helpers |-> None]
  /\ held = [h \in Helpers |-> FALSE]
  /\ others = {}
  /\ packages = {} /\ cache = {}
  /\ tries = [u \in Urls |-> 0]

Running == mpc # "exit" /\ mpc # "aborted"

options == <<load, transient>>

At(h, where) == hpc[h] = where /\ Running
Goto(h, where) == hpc' = [hpc EXCEPT ![h] = where]

-----------------------------------------------------------------------------
(* The helper threads.                                                     *)

(* download_helper_task: the next URL from the back of urls_, or the end.  *)
TakeUrl(h) ==
  /\ At(h, "take")
  /\ IF urls_ = <<>>
     THEN Goto(h, "finish") /\ UNCHANGED <<urls_, url>>
     ELSE /\ url' = [url EXCEPT ![h] = Last(urls_)]
          /\ urls_' = Front(urls_)
          /\ Goto(h, "lock")
  /\ UNCHANGED <<queue, failed_urls_, pids_, main, held, world>>

(* download_url: the session lock on the digest, first of all.             *)
LockDigest(h) ==
  /\ At(h, "lock")
  /\ url[h] \notin others
  /\ held' = [held EXCEPT ![h] = TRUE]
  /\ Goto(h, "fast_track")
  /\ UNCHANGED <<queue, shared, main, url, world>>

(* The end of download_url: the lock object goes out of scope.             *)
NextUrl(h) ==
  /\ held' = [held EXCEPT ![h] = FALSE]
  /\ url' = [url EXCEPT ![h] = None]
  /\ Goto(h, "take")

(* download_fast_track, and the look into the cache if it fails.  Opening  *)
(* the sink creates the temporary file.                                    *)
FastTrack(h) ==
  /\ At(h, "fast_track")
  /\ IF url[h] \in packages
     THEN /\ pids_' = pids_ \cup {url[h]}
          /\ NextUrl(h)
     ELSE /\ Goto(h, IF url[h] \in cache THEN "cached" ELSE "download")
          /\ UNCHANGED <<pids_, url, held>>
  /\ UNCHANGED <<queue, urls_, failed_urls_, main, world>>

(* copy_source_to_sink and finish.  The file appears under its final name  *)
(* when its length and digest are right.                                   *)
DownloadGood(h) ==
  /\ At(h, "download")
  /\ cache' = cache \cup {url[h]}
  /\ Goto(h, "downloaded")
  /\ UNCHANGED <<queue, shared, main, url, held, others, packages, tries>>

(* curl_exception, unsupported_hash and checksum_mismatch are caught.      *)
DownloadBad(h) ==
  /\ At(h, "download")
  /\ failed_urls_' = Append(failed_urls_, url[h])
  /\ tries' = [tries EXCEPT ![url[h]] = @ + 1]
  /\ NextUrl(h)
  /\ UNCHANGED <<queue, urls_, pids_, main, others, packages, cache>>

(* queue_.push, from its call to its return or its wait.                   *)
Push(h) ==
  /\ At(h, "downloaded") \/ At(h, "cached")
  /\ Queue!BeginPush(h, [url |-> url[h], download |-> hpc[h] = "downloaded"])
  /\ IF writing'[h] # None
     THEN Goto(h, "push") /\ UNCHANGED <<url, held>>
     ELSE NextUrl(h)
  /\ UNCHANGED <<shared, main, world>>

PushReturns(h) ==
  /\ At(h, "push")
  /\ Queue!EndPush(h)
  /\ NextUrl(h)
  /\ UNCHANGED <<shared, main, world>>

\* MUTANT: the helper ends without remove_producer.
FinishRegistered(h) ==
  /\ At(h, "finish")
  /\ Goto(h, "none")
  /\ UNCHANGED <<queue, shared, main, url, held, world>>

FinishHelper(h) ==
  /\ At(h, "finish")
  /\ Queue!RemoveProducer(h)
  /\ Goto(h, "none")
  /\ UNCHANGED <<shared, main, url, held, world>>

-----------------------------------------------------------------------------
(* The main thread.                                                        *)

\* MUTANT: the producer is not registered before its thread starts.
SpawnUnregistered ==
  /\ mpc = "spawn"
  /\ \E h \in Helpers \ tasks : tasks' = tasks \cup {h} /\ Goto(h, "take")
  /\ mpc' = IF tasks' = Helpers THEN "pop" ELSE "spawn"
  /\ UNCHANGED <<queue, shared, options, round, to_load, ended, url, held, world>>

(* One turn of the loop that registers a producer and starts its thread.   *)
Spawn ==
  /\ mpc = "spawn"
  /\ Queue!AddProducer(Main)
  /\ \E h \in Helpers \ tasks : tasks' = tasks \cup {h} /\ Goto(h, "take")
  /\ mpc' = IF tasks' = Helpers THEN "pop" ELSE "spawn"
  /\ UNCHANGED <<shared, options, round, to_load, ended, url, held, world>>

(* queue_.pop, from its call to its return or its wait, and from there.    *)
Popped(i) ==
  /\ Queue!Remove(Main, i)
  /\ IF load THEN mpc' = "load" /\ to_load' = i
     ELSE mpc' = "pop" /\ UNCHANGED to_load

RoundOver ==
  /\ Queue!NothingLeft(Main)
  /\ mpc' = "round_end"
  /\ UNCHANGED to_load

Pop ==
  /\ mpc = "pop"
  /\ \/ \E i \in content : Popped(i)
     \/ RoundOver
     \/ Queue!WaitForElement(Main) /\ mpc' = "popping" /\ UNCHANGED to_load
  /\ UNCHANGED <<shared, options, round, ended, tasks, helper, world>>

PopReturns ==
  /\ mpc = "popping"
  /\ (\E i \in content : Popped(i)) \/ RoundOver
  /\ UNCHANGED <<shared, options, round, ended, tasks, helper, world>>

(* rpm_load committed: the package is in the database, the file is removed *)
(* if it was fetched for this command only, and the set gets its ID.       *)
Load ==
  /\ mpc = "load"
  /\ packages' = packages \cup {to_load.url}
  /\ cache' = IF to_load.download /\ transient
              THEN cache \ {to_load.url} ELSE cache
  /\ pids_' = pids_ \cup {to_load.url}
  /\ to_load' = None
  /\ mpc' = "pop"
  /\ UNCHANGED <<queue, urls_, failed_urls_, options, round, ended, tasks,
                 helper, others, tries>>

\* MUTANT: the failed URLs are copied back and not cleared.
EndRoundCopy ==
  /\ mpc = "round_end"
  /\ urls_' = failed_urls_
  /\ round' = IF failed_urls_ = <<>> THEN round ELSE round + 1
  /\ mpc' = IF failed_urls_ = <<>> \/ round' = Rounds THEN "report" ELSE "spawn"
  /\ tasks' = {}
  /\ UNCHANGED <<queue, failed_urls_, pids_, options, to_load, ended, helper,
                 world>>

(* The end of a round, after the two assertions: swap and go on, or leave  *)
(* process().                                                              *)
EndRound ==
  /\ mpc = "round_end"
  /\ IF failed_urls_ = <<>>
     THEN UNCHANGED <<urls_, failed_urls_, round>> /\ mpc' = "report"
     ELSE /\ urls_' = failed_urls_ /\ failed_urls_' = urls_
          /\ round' = round + 1
          /\ mpc' = IF round' = Rounds THEN "report" ELSE "spawn"
  /\ tasks' = {}
  /\ UNCHANGED <<queue, pids_, options, to_load, ended, helper, world>>

\* MUTANT: a failed download no longer keeps the set from being updated.
UpdateAlways(set, ignore) ==
  /\ mpc = "report"
  /\ set => load
  /\ mpc' = "exit"
  /\ ended' = [ignore |-> ignore, set |-> IF set THEN pids_ ELSE None]
  /\ UNCHANGED <<queue, shared, options, round, to_load, tasks, helper, world>>

(* The rest of symboldb_download_repo, for a command that names a package  *)
(* set (set) and has --ignore-download-errors (ignore); neither is read    *)
(* before.  With errors ignored the set is updated even if no package is   *)
(* left.                                                                   *)
UpdateSet(set, ignore) ==
  /\ mpc = "report"
  /\ set => load
  /\ mpc' = "exit"
  /\ ended' = [ignore |-> ignore,
               set |-> IF set /\ (urls_ = <<>> \/ ignore) THEN pids_ ELSE None]
  /\ UNCHANGED <<queue, shared, options, round, to_load, tasks, helper, world>>

(* An exception nobody catches before main(): in a helper it terminates    *)
(* the process, in the main thread it unwinds process() and the command    *)
(* fails.  The memory of the process is gone.                              *)
Abort ==
  /\ mpc = "load" \/ \E h \in Helpers : At(h, "lock") \/ At(h, "download")
  /\ Running
  /\ mpc' = "aborted"
  /\ content' = {} /\ producers' = 0 /\ reading' = {}
  /\ writing' = [t \in Helpers \cup {Main} |-> None]
  /\ urls_' = <<>> /\ failed_urls_' = <<>> /\ pids_' = {}
  /\ tasks' = {} /\ to_load' = None
  /\ hpc' = [h \in Helpers |-> "none"]
  /\ url' = [h \in Helpers |-> None]
  /\ held' = [h \in Helpers |-> FALSE]
  /\ UNCHANGED <<options, round, ended, world>>

-----------------------------------------------------------------------------
(* Other processes.                                                        *)

OtherLocks(u) ==
  /\ Running
  /\ u \notin others
  /\ \A h \in Helpers : held[h] => url[h] # u
  /\ others' = others \cup {u}
  /\ UNCHANGED <<queue, shared, main, helper, packages, cache, tries>>

(* While it holds the lock, another process may have filled the cache.     *)
OtherUnlocks(u) ==
  /\ Running
  /\ u \in others
  /\ others' = others \ {u}
  /\ cache' \in {cache, cache \cup {u}}
  /\ UNCHANGED <<queue, shared, main, helper, packages, tries>>

(* Its load of the package happens later, without the lock, or is one of   *)
(* --load-rpm, which uses neither the lock nor the cache.                  *)
OtherLoads(u) ==
  /\ Running
  /\ u \notin packages
  /\ packages' = packages \cup {u}
  /\ UNCHANGED <<queue, shared, main, helper, others, cache, tries>>

-----------------------------------------------------------------------------
HelperStep(h) ==
  \/ TakeUrl(h) \/ LockDigest(h) \/ FastTrack(h)
  \/ DownloadGood(h) \/ DownloadBad(h)
  \/ Push(h) \/ PushReturns(h) \/ FinishHelper(h)

MainStep ==
  \/ Spawn \/ Pop \/ PopReturns \/ Load \/ EndRound
  \/ \E set, ignore \in BOOLEAN : UpdateSet(set, ignore)

Next ==
  \/ \E h \in Helpers : HelperStep(h)
  \/ MainStep
  \/ Abort
  \/ \E u \in Shared : OtherLocks(u) \/ OtherUnlocks(u) \/ OtherLoads(u)

Spec == Init /\ [][Next]_vars

(* Every thread of the process runs.  A transfer ends (curl gives up), the *)
(* load of a package ends, another process releases a lock, and since the  *)
(* server queues the waiters of a lock each of them gets it in the end.    *)
Fairness ==
  /\ \A h \in Helpers : WF_vars(HelperStep(h)) /\ SF_vars(LockDigest(h))
  /\ WF_vars(MainStep)
  /\ \A u \in Shared : WF_vars(OtherUnlocks(u))

FairSpec == Spec /\ Fairness

-----------------------------------------------------------------------------
(* The assertions of process(): when pop reports the end of a round, no    *)
(* producer is registered and every URL was taken.  Then also no helper is *)
(* left that could touch urls_ and failed_urls_, which the main thread     *)
(* reads and swaps without the mutex.  Always, the helpers that may still  *)
(* push or call remove_producer are the registered ones: neither call      *)
(* throws for want of a producer, and no pop waits for one that is gone.   *)
RoundAssertions ==
  /\ mpc = "round_end" =>
       /\ producers = 0 /\ urls_ = <<>> /\ content = {}
       /\ \A h \in Helpers : hpc[h] = "none"
  /\ producers = Cardinality({h \in Helpers : hpc[h] # "none"})

(* Where URL u is: still to take, failed, with a helper, in the queue or   *)
(* in a blocked push, with the main thread, or done.                       *)
Places(u) ==
  {<<"urls", n>> : n \in {k \in DOMAIN urls_ : urls_[k] = u}} \cup
  {<<"failed", n>> : n \in {k \in DOMAIN failed_urls_ : failed_urls_[k] = u}}
  \cup {<<"helper", h>> : h \in {g \in Helpers : url[g] = u}}
  \cup {<<"queue", i>> : i \in {j \in content : j.url = u}}
  \cup {<<"main", i>> : i \in {j \in {to_load} \ {None} : j.url = u}}
  \cup {<<"loaded", p>> : p \in pids_ \cap {u}}

(* No URL is lost or handled twice between the vectors, the helpers, the   *)
(* queue and the set of loaded packages, whatever the threads do; and      *)
(* "afterwards, urls_ contains those URLs for which the download failed":  *)
(* process() leaves a URL there only after three tries, and every other    *)
(* one is loaded, or, without load, in the cache or the database.          *)
EachUrlOnce ==
  /\ mpc # "aborted" =>
       \A u \in Urls : Cardinality(Places(u)) \in IF load THEN {1} ELSE {0, 1}
  /\ mpc \in {"report", "exit"} =>
       \A u \in Urls :
         IF Contains(urls_, u) THEN tries[u] = Rounds
         ELSE u \in pids_ \/ (~load /\ u \in cache)

(* The set is only ever updated to all the packages asked for, or with     *)
(* --ignore-download-errors to those without a download error.             *)
SetUpdateComplete ==
  ended # None /\ ended.set # None =>
    ended.set = IF ended.ignore THEN Urls \ ToSet(urls_) ELSE Urls

(* The command ends, even with full queues, contended locks and failures.  *)
Terminates == <>(mpc \in {"exit", "aborted"})
=============================================================================
