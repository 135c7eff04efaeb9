----------------------------- MODULE FileCache -----------------------------
(***************************************************************************)
(* lib/cxxll/file_cache.cpp with the code that uses it: download_url, the  *)
(* load in downloader::process, rpm_load's second reading of the file, and *)
(* the end of expire.  Processes share the directory.  A file is an inode  *)
(* with blocks, so that a file that is open and one that has a name can be *)
(* the same; a process follows one URL, whose digest names the file.       *)
(***************************************************************************)
EXTENDS Integers, Sequences, FiniteSets, FiniteSetsExt

CONSTANTS
  Procs,       \* processes
  Digests,     \* checksums of RPM files
  Blocks,      \* blocks of an RPM file
  Levels,      \* directories of the path to the cache
  MaxStarts,   \* how many commands are started in all
  MaxExpires,  \* runs of --expire
  MaxKills,    \* how many processes die
  MaxCrashes,  \* how many times the machine stops
  None

ASSUME FileCacheAssumption ==
  /\ IsFiniteSet(Procs) /\ IsFiniteSet(Digests)
  /\ None \notin Procs
  /\ {Blocks, Levels, MaxStarts, MaxExpires, MaxKills, MaxCrashes} \subseteq Nat
  /\ Blocks > 0

VARIABLES
  dirs,      \* how many directories of the path there are
  names,     \* names[d]: inodes of the files <hex> and <hex>.tmp, 0 for none
  inodes,    \* their blocks, how many reached the disk, if a crash hit them
  locks,     \* lock_digest: the process that holds the lock
  packages,  \* packages in the database
  members,   \* digests of packages that are in a package set
  proc,      \* the processes
  expiring,  \* --expire
  removed,   \* digests whose file was removed by somebody
  count      \* starts, expires, kills, crashes

vars == <<dirs, names, inodes, locks, packages, members, proc, expiring, removed, count>>

Whole == [i \in 1..Blocks |-> i]     \* the file with the digest
bad == Blocks + 1                    \* a block that is wrong
zero == 0                            \* a block that never reached the disk
Inodes == 1..2 * (Cardinality(Procs) + Cardinality(Digests))

Idle == [pc |-> "idle", d |-> None, transient |-> FALSE, fd |-> 0,
         wrote |-> <<>>, download |-> FALSE, from |-> 0, data |-> <<>>, why |-> None]
NewInode == [blocks |-> <<>>, synced |-> FALSE, torn |-> FALSE]

Init ==
  /\ dirs = 0
  /\ names = [d \in Digests |-> [hex |-> 0, tmp |-> 0]]
  /\ inodes = [i \in Inodes |-> NewInode]
  /\ locks = [d \in Digests |-> None]
  /\ packages = {}
  /\ members = {}
  /\ proc = [p \in Procs |-> Idle]
  /\ expiring = [pc |-> "idle", todo |-> {}]
  /\ removed = {}
  /\ count = [starts |-> 0, expires |-> 0, kills |-> 0, crashes |-> 0]

At(p, pc) == proc[p].pc = pc
Goto(p, pc) == proc' = [proc EXCEPT ![p].pc = pc]
Ended(p, pc, why) ==
  proc' = [proc EXCEPT ![p] = [Idle EXCEPT !.pc = pc, !.d = proc[p].d, !.why = why]]
Throw(p, why) == Ended(p, "aborted", why)

(* An inode that has neither a name nor an open descriptor, and is not the *)
(* one that a load has parsed.                                             *)
FreeInode ==
  CHOOSE i \in Inodes :
    /\ \A d \in Digests : i \notin {names[d].hex, names[d].tmp}
    /\ \A p \in Procs : i \notin {proc[p].fd, proc[p].from}

Released(p) == [d \in Digests |-> IF locks[d] = p THEN None ELSE locks[d]]

-----------------------------------------------------------------------------
(* A command, with or without --delete-rpms; then rpm_cache(), whose       *)
(* make_directory_hierarchy calls mkdir for each directory of the path and *)
(* ignores its errors.                                                     *)
Start(p) ==
  /\ proc[p].pc \in {"idle", "done", "failed", "aborted"}
  /\ count.starts < MaxStarts
  /\ \E d \in Digests, t \in BOOLEAN :
       proc' = [proc EXCEPT ![p] = [Idle EXCEPT !.pc = "mkdir", !.d = d, !.transient = t]]
  /\ count' = [count EXCEPT !.starts = @ + 1]
  /\ UNCHANGED <<dirs, names, inodes, locks, packages, members, expiring, removed>>

make_directory_hierarchy(p) ==
  /\ At(p, "mkdir")
  /\ IF dirs = Levels THEN Goto(p, "lock") /\ dirs' = dirs
     ELSE dirs' = dirs + 1 /\ UNCHANGED proc
  /\ UNCHANGED <<names, inodes, locks, packages, members, expiring, removed, count>>

-----------------------------------------------------------------------------
(* download_url                                                            *)
\* MUTANT: the digest is not locked.
NoLockDigest(p) ==
  /\ At(p, "lock")
  /\ Goto(p, "fast")
  /\ UNCHANGED <<dirs, names, inodes, locks, packages, members, expiring, removed, count>>

LockDigest(p) ==
  /\ At(p, "lock")
  /\ locks[proc[p].d] = None
  /\ locks' = [locks EXCEPT ![proc[p].d] = p]
  /\ Goto(p, "fast")
  /\ UNCHANGED <<dirs, names, inodes, packages, members, expiring, removed, count>>

FastTrack(p) ==
  /\ At(p, "fast")
  /\ IF \E c \in packages : c.digest = proc[p].d
     THEN Goto(p, "reference") /\ locks' = Released(p)
     ELSE Goto(p, "lookup") /\ UNCHANGED locks
  /\ UNCHANGED <<dirs, names, inodes, packages, members, expiring, removed, count>>

(* lookup_path only compares the length.                                   *)
lookup_path(p) ==
  /\ At(p, "lookup")
  /\ LET i == names[proc[p].d].hex IN
     IF i # 0 /\ Len(inodes[i].blocks) = Blocks
     THEN Goto(p, "push") ELSE Goto(p, "open")
  /\ UNCHANGED <<dirs, names, inodes, locks, packages, members, expiring, removed, count>>

(* The constructor of add_sink: O_CREAT | O_TRUNC.                         *)
add_sink(p) ==
  /\ At(p, "open")
  /\ LET d == proc[p].d
         i == IF names[d].tmp = 0 THEN FreeInode ELSE names[d].tmp
     IN /\ names' = [names EXCEPT ![d].tmp = i]
        /\ inodes' = [inodes EXCEPT ![i] = NewInode]
        /\ proc' = [proc EXCEPT ![p] = [@ EXCEPT !.pc = "write", !.fd = i, !.wrote = <<>>]]
  /\ UNCHANGED <<dirs, locks, packages, members, expiring, removed, count>>

(* copy_source_to_sink: a block goes to the place behind the last one that *)
(* this process wrote, and into the digest.                                *)
WriteAt(blocks, n, b) ==
  [i \in 1..Max({n, Len(blocks)}) |->
     IF i = n THEN b ELSE IF i <= Len(blocks) THEN blocks[i] ELSE zero]

write(p) ==
  /\ At(p, "write")
  /\ LET n == Len(proc[p].wrote) + 1 IN
     /\ n <= Blocks
     /\ \E b \in {n, bad} :
          /\ inodes' = [inodes EXCEPT ![proc[p].fd].blocks = WriteAt(@, n, b),
                                      ![proc[p].fd].synced = FALSE]
          /\ proc' = [proc EXCEPT ![p].wrote = Append(@, b)]
  /\ UNCHANGED <<dirs, names, locks, packages, members, expiring, removed, count>>

(* The download ends, at the end of the file or before.                    *)
EndOfData(p) ==
  /\ At(p, "write")
  /\ Goto(p, "finish")
  /\ UNCHANGED <<dirs, names, inodes, locks, packages, members, expiring, removed, count>>

curl_exception(p) ==
  /\ At(p, "write")
  /\ Goto(p, "cleanup")
  /\ UNCHANGED <<dirs, names, inodes, locks, packages, members, expiring, removed, count>>

(* finish: the length and the digest of what was written are compared; the *)
(* exception is caught by download_url.                                    *)
\* MUTANT: only the length is compared.
finish_length(p) ==
  /\ At(p, "finish")
  /\ IF Len(proc[p].wrote) = Blocks THEN Goto(p, "fsync") ELSE Goto(p, "cleanup")
  /\ UNCHANGED <<dirs, names, inodes, locks, packages, members, expiring, removed, count>>

finish(p) ==
  /\ At(p, "finish")
  /\ IF Len(proc[p].wrote) = Blocks /\ proc[p].wrote = Whole
     THEN Goto(p, "fsync") ELSE Goto(p, "cleanup")
  /\ UNCHANGED <<dirs, names, inodes, locks, packages, members, expiring, removed, count>>

fsync(p) ==
  /\ At(p, "fsync")
  /\ inodes' = IF proc[p].transient THEN inodes
               ELSE [inodes EXCEPT ![proc[p].fd].synced = TRUE]
  /\ proc' = [proc EXCEPT ![p] = [@ EXCEPT !.pc = "rename", !.fd = 0, !.wrote = <<>>]]
  /\ UNCHANGED <<dirs, names, locks, packages, members, expiring, removed, count>>

(* If there is no such file any more, the exception ends the process.      *)
renameat(p) ==
  /\ At(p, "rename")
  /\ LET d == proc[p].d IN
     IF names[d].tmp = 0
     THEN Throw(p, "rename") /\ locks' = Released(p) /\ UNCHANGED names
     ELSE /\ names' = [names EXCEPT ![d] = [hex |-> names[d].tmp, tmp |-> 0]]
          /\ proc' = [proc EXCEPT ![p] = [@ EXCEPT !.pc = "push", !.download = TRUE]]
          /\ UNCHANGED locks
  /\ UNCHANGED <<dirs, inodes, packages, members, expiring, removed, count>>

(* ~add_impl unlinks the temporary file, by its name.                      *)
CleanUp(p) ==
  /\ At(p, "cleanup")
  /\ names' = [names EXCEPT ![proc[p].d].tmp = 0]
  /\ proc' = [proc EXCEPT ![p] = [@ EXCEPT !.pc = "unlock", !.fd = 0, !.wrote = <<>>]]
  /\ UNCHANGED <<dirs, inodes, locks, packages, members, expiring, removed, count>>

(* The URL goes to failed_urls_.  The next round tries it again, as a new  *)
(* start does.                                                             *)
\* MUTANT: the lock is kept when the download has failed.
FailedLocked(p) ==
  /\ At(p, "unlock")
  /\ Ended(p, "failed", None)
  /\ UNCHANGED <<dirs, names, inodes, locks, packages, members, expiring, removed, count>>

Failed(p) ==
  /\ At(p, "unlock")
  /\ locks' = Released(p)
  /\ Ended(p, "failed", None)
  /\ UNCHANGED <<dirs, names, inodes, packages, members, expiring, removed, count>>

(* queue_.push returns, and the lock goes.                                 *)
Push(p) ==
  /\ At(p, "push")
  /\ Goto(p, "parse")
  /\ locks' = Released(p)
  /\ UNCHANGED <<dirs, names, inodes, packages, members, expiring, removed, count>>

-----------------------------------------------------------------------------
(* The main thread.  rpm_load opens the file to parse it; what is not an   *)
(* RPM file may be found out, or not.                                      *)
Parse(p) ==
  /\ At(p, "parse")
  /\ LET i == names[proc[p].d].hex IN
     \/ i = 0 /\ Throw(p, "gone")
     \/ i # 0 /\ inodes[i].blocks # Whole /\ Throw(p, "malformed")
     \/ /\ i # 0
        /\ proc' = [proc EXCEPT ![p] = [@ EXCEPT !.pc = "rehash", !.from = i, !.data = inodes[i].blocks]]
  /\ UNCHANGED <<dirs, names, inodes, locks, packages, members, expiring, removed, count>>

(* It opens the file again to compute the digest, and commits.             *)
Loaded(p, replaced) ==
  [digest |-> proc[p].d, data |-> proc[p].data, replaced |-> replaced]

\* MUTANT: the digest that finish has checked is relied upon.
Rehash_trust(p) ==
  /\ At(p, "rehash")
  /\ packages' = packages \cup {Loaded(p, FALSE)}
  /\ Goto(p, "unlink")
  /\ UNCHANGED <<dirs, names, inodes, locks, members, expiring, removed, count>>

Rehash(p) ==
  /\ At(p, "rehash")
  /\ LET i == names[proc[p].d].hex IN
     CASE i = 0 -> Throw(p, "gone") /\ UNCHANGED packages
       [] i # 0 /\ inodes[i].blocks # Whole ->
            Throw(p, "mismatch") /\ UNCHANGED packages
       [] OTHER ->
            /\ packages' = packages \cup {Loaded(p, i # proc[p].from)}
            /\ Goto(p, "unlink")
  /\ UNCHANGED <<dirs, names, inodes, locks, members, expiring, removed, count>>

UnlinkTransient(p) ==
  /\ At(p, "unlink")
  /\ LET d == proc[p].d IN
     IF proc[p].download /\ proc[p].transient
     THEN /\ names' = [names EXCEPT ![d].hex = 0]
          /\ removed' = removed \cup {d}
     ELSE UNCHANGED <<names, removed>>
  /\ proc' = [proc EXCEPT ![p] = [Idle EXCEPT !.pc = "reference", !.d = proc[p].d]]
  /\ UNCHANGED <<dirs, inodes, locks, packages, members, expiring, count>>

(* The update of the package set; without its packages it fails.           *)
Reference(p) ==
  /\ At(p, "reference")
  /\ LET there == \E c \in packages : c.digest = proc[p].d IN
     /\ members' = IF there THEN members \cup {proc[p].d} ELSE members
     /\ Ended(p, IF there THEN "done" ELSE "failed", None)
  /\ UNCHANGED <<dirs, names, inodes, locks, packages, expiring, removed, count>>

-----------------------------------------------------------------------------
(* expire: the packages that are in no set, then file_cache::digests,      *)
(* referenced_package_digests and their difference, and one unlinkat after *)
(* the other, which throws if the file is gone.                            *)
ExpirePackages ==
  /\ expiring.pc = "idle" /\ count.expires < MaxExpires
  /\ dirs = Levels
  /\ packages' = {c \in packages : c.digest \in members}
  /\ expiring' = [pc |-> "list", todo |-> {}]
  /\ count' = [count EXCEPT !.expires = @ + 1]
  /\ UNCHANGED <<dirs, names, inodes, locks, members, proc, removed>>

digests ==
  /\ expiring.pc = "list"
  /\ expiring' = [pc |-> "query", todo |-> {d \in Digests : names[d].hex # 0}]
  /\ UNCHANGED <<dirs, names, inodes, locks, packages, members, proc, removed, count>>

referenced_package_digests ==
  /\ expiring.pc = "query"
  /\ expiring' = [pc |-> "unlink", todo |-> expiring.todo \ members]
  /\ UNCHANGED <<dirs, names, inodes, locks, packages, members, proc, removed, count>>

ExpireFile ==
  /\ expiring.pc = "unlink"
  /\ IF expiring.todo = {}
     THEN expiring' = [expiring EXCEPT !.pc = "idle"] /\ UNCHANGED <<names, removed>>
     ELSE \E d \in expiring.todo :
            IF names[d].hex = 0
            THEN expiring' = [pc |-> "idle", todo |-> {}] /\ UNCHANGED <<names, removed>>
            ELSE /\ names' = [names EXCEPT ![d].hex = 0]
                 /\ removed' = removed \cup {d}
                 /\ expiring' = [expiring EXCEPT !.todo = @ \ {d}]
  /\ UNCHANGED <<dirs, inodes, locks, packages, members, proc, count>>

-----------------------------------------------------------------------------
Running(p) == proc[p].pc \notin {"idle", "done", "failed", "aborted"}

(* A process dies: the server ends its session, which releases its lock.   *)
Kill(p) ==
  /\ Running(p) /\ count.kills < MaxKills
  /\ proc' = [proc EXCEPT ![p] = Idle]
  /\ locks' = Released(p)
  /\ count' = [count EXCEPT !.kills = @ + 1]
  /\ UNCHANGED <<dirs, names, inodes, packages, members, expiring, removed>>

(* The machine stops.  Data that were not synchronised may be there, or    *)
(* have become zeros, or the file may be empty.                            *)
Unsynced == {i \in Inodes : ~inodes[i].synced /\ inodes[i].blocks # <<>>}
Torn(blocks) == [blocks |-> blocks, synced |-> FALSE, torn |-> TRUE]

Crash ==
  /\ count.crashes < MaxCrashes
  /\ proc' = [p \in Procs |-> Idle]
  /\ locks' = [d \in Digests |-> None]
  /\ expiring' = [pc |-> "idle", todo |-> {}]
  /\ \E lost \in SUBSET Unsynced : \E zeros \in SUBSET lost :
         inodes' = [i \in Inodes |->
            IF i \in zeros THEN Torn([n \in 1..Len(inodes[i].blocks) |-> zero])
            ELSE IF i \in lost THEN Torn(<<>>) ELSE inodes[i]]
  /\ count' = [count EXCEPT !.crashes = @ + 1]
  /\ UNCHANGED <<dirs, names, packages, members, removed>>

-----------------------------------------------------------------------------
Step(p) ==
  \/ make_directory_hierarchy(p) \/ LockDigest(p) \/ FastTrack(p) \/ lookup_path(p)
  \/ add_sink(p) \/ write(p) \/ EndOfData(p) \/ curl_exception(p) \/ finish(p)
  \/ fsync(p) \/ renameat(p) \/ CleanUp(p) \/ Failed(p) \/ Push(p)
  \/ Parse(p) \/ Rehash(p) \/ UnlinkTransient(p) \/ Reference(p)

expire == ExpirePackages \/ digests \/ referenced_package_digests \/ ExpireFile

Next == \/ \E p \in Procs : Start(p) \/ Step(p) \/ Kill(p)
        \/ expire
        \/ Crash

Spec == Init /\ [][Next]_vars

(* A running thread is scheduled; libcurl delivers or fails; a lock that   *)
(* is released again and again is granted at last.                         *)
FairSpec ==
  /\ Spec
  /\ \A p \in Procs : WF_vars(Step(p)) /\ SF_vars(LockDigest(p))

-----------------------------------------------------------------------------
(* A file with the name of a digest has the data of that digest, at every  *)
(* moment and whoever writes, fails or dies: the temporary file is shared  *)
(* by all writers, and only what was compared may be renamed and never     *)
(* written to afterwards.  The one exception is a crash of the machine     *)
(* before the data of a transient file, which fsync skips, reached disk.   *)
CachedIsWhole ==
  \A d \in Digests : names[d].hex # 0 =>
    LET f == inodes[names[d].hex] IN f.blocks = Whole \/ f.torn

(* rpm_load reads the path twice, without a lock.  A package is committed  *)
(* with data that are not those of its digest only if another process put  *)
(* a new file in place between the two.                                    *)
LoadedIsVerified == \A c \in packages : c.data = Whole \/ c.replaced

(* A process is not brought down by another one that downloads the same    *)
(* file: the temporary file is there until it is renamed, a file that was  *)
(* found or added is gone only after --expire or --delete-rpms removed     *)
(* it, and its data are wrong only after a crash of the machine.           *)
FailsForReason ==
  \A p \in Procs : At(p, "aborted") =>
    \/ proc[p].why = "gone" /\ proc[p].d \in removed
    \/ proc[p].why \in {"malformed", "mismatch"} /\ count.crashes > 0

(* Every download ends and leaves no lock behind, unless the process is    *)
(* killed.                                                                 *)
EveryoneEnds == <>[](\A p \in Procs : ~Running(p)) /\ <>[](locks = [d \in Digests |-> None])
=============================================================================
