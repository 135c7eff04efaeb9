-------------------------- MODULE FileCache_proofs -------------------------
(***************************************************************************)
(* For any number of processes, digests and blocks, and however often      *)
(* processes start, die, expire or the machine stops: what the cache holds *)
(* under a digest is what was checked, and a package is loaded from it.    *)
(***************************************************************************)
EXTENDS FileCache, FiniteSetTheorems, SequenceTheorems, TLAPS

Data == Seq(0..Blocks + 1)
PCs == {"idle", "mkdir", "lock", "fast", "lookup", "open", "write", "finish",
        "fsync", "rename", "cleanup", "unlock", "push", "parse", "rehash",
        "unlink", "reference", "done", "failed", "aborted"}
Why == {None, "rename", "gone", "malformed", "mismatch"}
ProcState ==
  [pc : PCs, d : Digests \cup {None}, transient : BOOLEAN,
   fd : Inodes \cup {0}, wrote : Data, download : BOOLEAN,
   from : Inodes \cup {0}, data : Data, why : Why]

TypeOK ==
  /\ names \in [Digests -> [hex : Inodes \cup {0}, tmp : Inodes \cup {0}]]
  /\ inodes \in [Inodes -> [blocks : Data, synced : BOOLEAN, torn : BOOLEAN]]
  /\ locks \in [Digests -> Procs \cup {None}]
  /\ packages \subseteq [digest : Digests, data : Data, replaced : BOOLEAN]
  /\ members \subseteq Digests
  /\ proc \in [Procs -> ProcState]
  /\ \A p \in Procs : proc[p].pc # "idle" => proc[p].d \in Digests
  /\ expiring \in [pc : {"idle", "list", "query", "unlink"}, todo : SUBSET Digests]
  /\ removed \subseteq Digests
  /\ count \in [starts : Nat, expires : Nat, kills : Nat, crashes : Nat]

-----------------------------------------------------------------------------
(* The inductive invariant.  The lock gives a writer the temporary file to *)
(* itself; what was compared is therefore still there when it is renamed;  *)
(* and an inode that had the final name is never opened for writing again. *)

(* From LockDigest to the release, the digest is the process's own.        *)
HoldsLock(p) ==
  proc[p].pc \in {"fast", "lookup", "open", "write", "finish", "fsync", "rename",
                  "cleanup", "unlock", "push"} => locks[proc[p].d] = p

(* Between open and close, the temporary file is the open one and has the  *)
(* blocks that went into the digest.                                       *)
OwnsTmp(p) ==
  /\ proc[p].pc \in {"write", "finish", "fsync", "cleanup"} =>
       /\ proc[p].fd # 0
       /\ proc[p].fd = names[proc[p].d].tmp
       /\ inodes[proc[p].fd].blocks = proc[p].wrote
  /\ proc[p].pc = "fsync" => proc[p].wrote = Whole
  /\ proc[p].pc = "rename" =>
       /\ names[proc[p].d].tmp # 0
       /\ inodes[names[proc[p].d].tmp].blocks = Whole

(* What was parsed stays in the inode it was read from.                    *)
ParsedStays(p) ==
  proc[p].pc = "rehash" =>
    /\ proc[p].from # 0
    /\ inodes[proc[p].from].blocks = proc[p].data
    /\ \A d \in Digests : names[d].tmp # proc[p].from

FileThere(p) ==
  proc[p].pc \in {"push", "parse", "rehash"} =>
    names[proc[p].d].hex # 0 \/ proc[p].d \in removed

Excused(p) ==
  At(p, "aborted") =>
    \/ proc[p].why = "gone" /\ proc[p].d \in removed
    \/ proc[p].why \in {"malformed", "mismatch"} /\ count.crashes > 0

ProcInv(p) ==
  HoldsLock(p) /\ OwnsTmp(p) /\ ParsedStays(p) /\ FileThere(p) /\ Excused(p)

(* A temporary file is neither a cached file nor that of another digest.   *)
TmpPrivate ==
  \A d \in Digests : names[d].tmp # 0 =>
    \A e \in Digests : /\ names[e].hex # names[d].tmp
                       /\ names[e].tmp = names[d].tmp => e = d

TornAfterCrash == \A i \in Inodes : inodes[i].torn => count.crashes > 0

FilesInv == TmpPrivate /\ TornAfterCrash /\ CachedIsWhole /\ LoadedIsVerified

IInv == TypeOK /\ FilesInv /\ \A p \in Procs : ProcInv(p)

-----------------------------------------------------------------------------
(* The sizes are numbers; 0 is no inode.                                   *)
LEMMA Sizes ==
  /\ Blocks \in Nat /\ Blocks > 0 /\ None \notin Procs
  /\ Inodes \subseteq Nat \ {0}
  /\ Whole \in Data /\ Len(Whole) = Blocks /\ <<>> \in Data
<1>1. /\ Blocks \in Nat /\ Blocks > 0 /\ None \notin Procs
      /\ Cardinality(Procs) \in Nat /\ Cardinality(Digests) \in Nat
  BY FileCacheAssumption, FS_CardinalityType
<1>2. Inodes \subseteq Nat \ {0}
  BY <1>1 DEF Inodes
<1>3. Whole \in Data /\ Len(Whole) = Blocks
  BY <1>1 DEF Whole, Data
<1>4. <<>> \in Data
  BY DEF Data
<1> QED BY <1>1, <1>2, <1>3, <1>4

(* At first there is neither a file nor a process.                         *)
LEMMA InitIInv == Init => IInv
<1> SUFFICES ASSUME Init PROVE IInv
  OBVIOUS
<1> USE Sizes
<1>1. TypeOK
  BY DEF Init, TypeOK, Idle, NewInode, PCs, ProcState, Why
<1>2. FilesInv
  BY DEF Init, FilesInv, TmpPrivate, TornAfterCrash, CachedIsWhole, LoadedIsVerified,
         NewInode
<1>3. ASSUME NEW p \in Procs PROVE ProcInv(p)
  BY <1>3 DEF Init, Idle, ProcInv, HoldsLock, OwnsTmp, ParsedStays, FileThere, Excused, At
<1> QED BY <1>1, <1>2, <1>3 DEF IInv

-----------------------------------------------------------------------------
Others(p) == \A q \in Procs : q # p => proc'[q] = proc[q]

(* What the assignments to proc do, field by field.                        *)
LEMMA GotoEffect ==
  ASSUME TypeOK, NEW p \in Procs, NEW pc \in PCs, Goto(p, pc)
  PROVE  /\ proc' \in [Procs -> ProcState] /\ Others(p)
         /\ proc'[p].pc = pc /\ proc'[p].d = proc[p].d
         /\ proc'[p].fd = proc[p].fd /\ proc'[p].wrote = proc[p].wrote
         /\ proc'[p].from = proc[p].from /\ proc'[p].data = proc[p].data
<1> DEFINE s == proc[p]
           r == [s EXCEPT !.pc = pc]
<1>1. s \in ProcState
  BY DEF TypeOK
<1>2. proc' = [proc EXCEPT ![p] = r]
  BY DEF Goto
<1> HIDE DEF s
<1>3. /\ r \in ProcState /\ r.pc = pc /\ r.d = s.d /\ r.fd = s.fd
      /\ r.wrote = s.wrote /\ r.from = s.from /\ r.data = s.data
  BY <1>1 DEF ProcState
<1> HIDE DEF r
<1>4. proc' \in [Procs -> ProcState] /\ Others(p) /\ proc'[p] = r
  BY <1>2, <1>3 DEF Others, TypeOK
<1> QED BY <1>3, <1>4 DEF s

(* The same for a process that ends.                                       *)
LEMMA EndedEffect ==
  ASSUME TypeOK, NEW p \in Procs, proc[p].d \in Digests,
         NEW pc \in PCs, NEW why \in Why, Ended(p, pc, why)
  PROVE  /\ proc' \in [Procs -> ProcState] /\ Others(p)
         /\ proc'[p].pc = pc /\ proc'[p].d = proc[p].d /\ proc'[p].why = why
<1> DEFINE r == [Idle EXCEPT !.pc = pc, !.d = proc[p].d, !.why = why]
<1>1. r \in ProcState /\ r.pc = pc /\ r.d = proc[p].d /\ r.why = why
  BY Sizes DEF Idle, ProcState, TypeOK
<1>2. proc' = [proc EXCEPT ![p] = r]
  BY DEF Ended
<1> HIDE DEF r
<1> QED BY <1>1, <1>2 DEF Others, TypeOK

(* A process that releases its locks takes none of another.                *)
LEMMA ReleasedEffect ==
  ASSUME TypeOK, NEW p \in Procs, locks' = Released(p)
  PROVE  /\ locks' \in [Digests -> Procs \cup {None}]
         /\ \A q \in Procs, d \in Digests : q # p /\ locks[d] = q => locks'[d] = q
BY DEF Released, TypeOK

(* A step of p that touches no file concerns only p.                       *)
LEMMA LocalStep ==
  ASSUME IInv, NEW p \in Procs, Others(p), UNCHANGED <<names, inodes, removed>>,
         packages' \subseteq packages, count'.crashes = count.crashes,
         \A q \in Procs, d \in Digests : q # p /\ locks[d] = q => locks'[d] = q,
         TypeOK', ProcInv(p)'
  PROVE  IInv'
<1>1. ASSUME NEW q \in Procs, q # p PROVE ProcInv(q)'
  <2>1. proc'[q] = proc[q] /\ ProcInv(q)
    BY <1>1 DEF Others, IInv
  <2>2. proc[q].pc # "idle" => proc[q].d \in Digests
    BY DEF IInv, TypeOK
  <2> QED
    BY <1>1, <2>1, <2>2 DEF ProcInv, HoldsLock, OwnsTmp, ParsedStays, FileThere, Excused, At
<1>2. FilesInv'
  BY DEF IInv, FilesInv, TmpPrivate, TornAfterCrash, CachedIsWhole, LoadedIsVerified
<1> QED BY <1>1, <1>2 DEF IInv

(* A process goes on, and may have released its lock.                      *)
LEMMA GotoStep ==
  ASSUME IInv, NEW p \in Procs, proc[p].d \in Digests, NEW pc \in PCs, Goto(p, pc),
         UNCHANGED <<names, inodes, packages, members, expiring, removed, count>>,
         \/ locks' = locks
         \/ locks' = Released(p),
         ProcInv(p)'
  PROVE  IInv'
<1>0. TypeOK
  BY DEF IInv
<1>1. /\ locks' \in [Digests -> Procs \cup {None}]
      /\ \A q \in Procs, d \in Digests : q # p /\ locks[d] = q => locks'[d] = q
  BY <1>0, ReleasedEffect DEF TypeOK
<1>2. proc' \in [Procs -> ProcState] /\ Others(p) /\ proc'[p].d = proc[p].d
  BY <1>0, GotoEffect
<1>3. TypeOK'
  BY <1>0, <1>1, <1>2 DEF TypeOK, Others
<1> QED BY <1>1, <1>2, <1>3, LocalStep

(* A process ends, or throws for a reason, and may have released its lock. *)
LEMMA EndedStep ==
  ASSUME IInv, NEW p \in Procs, proc[p].d \in Digests,
         NEW pc \in {"done", "failed", "aborted"}, NEW why \in Why, Ended(p, pc, why),
         UNCHANGED <<names, inodes, packages, expiring, removed, count>>,
         members' \subseteq Digests,
         \/ locks' = locks
         \/ locks' = Released(p),
         pc = "aborted" =>
           \/ why = "gone" /\ proc[p].d \in removed
           \/ why \in {"malformed", "mismatch"} /\ count.crashes > 0
  PROVE  IInv'
<1>0. TypeOK /\ pc \in PCs
  BY DEF IInv, PCs
<1>1. /\ locks' \in [Digests -> Procs \cup {None}]
      /\ \A q \in Procs, d \in Digests : q # p /\ locks[d] = q => locks'[d] = q
  BY <1>0, ReleasedEffect DEF TypeOK
<1>2. /\ proc' \in [Procs -> ProcState] /\ Others(p)
      /\ proc'[p].pc = pc /\ proc'[p].d = proc[p].d /\ proc'[p].why = why
  BY <1>0, EndedEffect
<1>3. TypeOK'
  BY <1>0, <1>1, <1>2 DEF TypeOK, Others
<1>4. ProcInv(p)'
  BY <1>2 DEF ProcInv, HoldsLock, OwnsTmp, ParsedStays, FileThere, Excused, At
<1> QED BY <1>1, <1>2, <1>3, <1>4, LocalStep

-----------------------------------------------------------------------------
(* The steps of a process that touch no file.                              *)
LEMMA LocalSteps ==
  ASSUME IInv, NEW p \in Procs,
         \/ Start(p) \/ make_directory_hierarchy(p) \/ LockDigest(p) \/ FastTrack(p)
         \/ lookup_path(p) \/ EndOfData(p) \/ curl_exception(p) \/ finish(p)
         \/ Failed(p) \/ Push(p) \/ Parse(p) \/ Reference(p) \/ Kill(p)
  PROVE  IInv'
<1> USE Sizes
<1>0. TypeOK /\ FilesInv /\ ProcInv(p) /\ (proc[p].pc # "idle" => proc[p].d \in Digests)
  BY DEF IInv, TypeOK
<1>1. CASE Start(p)
  <2>1. PICK d \in Digests, t \in BOOLEAN :
          proc' = [proc EXCEPT ![p] = [Idle EXCEPT !.pc = "mkdir", !.d = d, !.transient = t]]
    BY <1>1 DEF Start
  <2> DEFINE r == [Idle EXCEPT !.pc = "mkdir", !.d = d, !.transient = t]
  <2>2. r \in ProcState /\ r.pc = "mkdir" /\ r.d = d
    BY DEF Idle, ProcState, PCs, Why
  <2>3. proc' = [proc EXCEPT ![p] = r]
    BY <2>1
  <2> HIDE DEF r
  <2>4. /\ proc' \in [Procs -> ProcState] /\ Others(p)
        /\ proc'[p].pc = "mkdir" /\ proc'[p].d = d
    BY <1>0, <2>2, <2>3 DEF Others, TypeOK
  <2>5. /\ count' \in [starts : Nat, expires : Nat, kills : Nat, crashes : Nat]
        /\ count'.crashes = count.crashes
    <3>1. count' = [count EXCEPT !.starts = @ + 1]
      BY <1>1 DEF Start
    <3>2. count \in [starts : Nat, expires : Nat, kills : Nat, crashes : Nat]
      BY <1>0 DEF TypeOK
    <3> QED BY <3>1, <3>2
  <2>6. TypeOK'
    BY <1>0, <1>1, <2>4, <2>5 DEF Start, TypeOK, Others
  <2>7. ProcInv(p)'
    BY <2>4 DEF ProcInv, HoldsLock, OwnsTmp, ParsedStays, FileThere, Excused, At
  <2> QED BY <1>1, <2>4, <2>5, <2>6, <2>7, LocalStep DEF Start
<1>2. CASE make_directory_hierarchy(p)
  <2>1. CASE dirs = Levels
    <3>1. Goto(p, "lock") /\ "lock" \in PCs
      BY <1>2, <2>1 DEF make_directory_hierarchy, PCs
    <3>2. ProcInv(p)'
      <4>1. proc'[p].pc = "lock"
        BY <1>0, <3>1, GotoEffect
      <4> QED BY <4>1 DEF ProcInv, HoldsLock, OwnsTmp, ParsedStays, FileThere, Excused, At
    <3> QED BY <1>0, <1>2, <3>1, <3>2, GotoStep DEF make_directory_hierarchy, At
  <2>2. CASE dirs # Levels
    <3>1. /\ proc[p].pc = "mkdir" /\ dirs' = dirs + 1
          /\ UNCHANGED <<proc, names, inodes, locks, packages, members, expiring, removed, count>>
      BY <1>2, <2>2 DEF make_directory_hierarchy, At
    <3>2. TypeOK'
      BY <1>0, <3>1 DEF TypeOK
    <3>3. ProcInv(p)'
      BY <3>1 DEF ProcInv, HoldsLock, OwnsTmp, ParsedStays, FileThere, Excused, At
    <3> QED BY <3>1, <3>2, <3>3, LocalStep DEF Others
  <2> QED BY <2>1, <2>2
<1>3. CASE LockDigest(p)
  <2>1. Goto(p, "fast") /\ "fast" \in PCs /\ proc[p].d \in Digests
    BY <1>0, <1>3 DEF LockDigest, PCs, At
  <2>2. /\ proc' \in [Procs -> ProcState] /\ Others(p)
        /\ proc'[p].pc = "fast" /\ proc'[p].d = proc[p].d
    BY <1>0, <2>1, GotoEffect
  <2>3. /\ locks' \in [Digests -> Procs \cup {None}]
        /\ locks'[proc[p].d] = p
        /\ \A q \in Procs, d \in Digests : q # p /\ locks[d] = q => locks'[d] = q
    BY <1>0, <1>3, <2>1 DEF LockDigest, TypeOK
  <2>4. TypeOK'
    BY <1>0, <1>3, <2>1, <2>2, <2>3 DEF LockDigest, TypeOK, Others
  <2>5. ProcInv(p)'
    BY <2>2, <2>3 DEF ProcInv, HoldsLock, OwnsTmp, ParsedStays, FileThere, Excused, At
  <2> QED BY <1>3, <2>2, <2>3, <2>4, <2>5, LocalStep DEF LockDigest
<1>4. CASE FastTrack(p)
  <2>1. CASE \E c \in packages : c.digest = proc[p].d
    <3>1. Goto(p, "reference") /\ "reference" \in PCs
      BY <1>4, <2>1 DEF FastTrack, PCs
    <3>2. ProcInv(p)'
      BY <1>0, <3>1, GotoEffect
         DEF ProcInv, HoldsLock, OwnsTmp, ParsedStays, FileThere, Excused, At
    <3> QED BY <1>0, <1>4, <2>1, <3>1, <3>2, GotoStep DEF FastTrack, At
  <2>2. CASE ~\E c \in packages : c.digest = proc[p].d
    <3>1. Goto(p, "lookup") /\ "lookup" \in PCs /\ UNCHANGED locks
      BY <1>4, <2>2 DEF FastTrack, PCs
    <3>2. ProcInv(p)'
      BY <1>0, <1>4, <3>1, GotoEffect
         DEF FastTrack, ProcInv, HoldsLock, OwnsTmp, ParsedStays, FileThere, Excused, At
    <3> QED BY <1>0, <1>4, <3>1, <3>2, GotoStep DEF FastTrack, At
  <2> QED BY <2>1, <2>2
<1>5. CASE lookup_path(p)
  <2>1. PICK pc \in {"push", "open"} :
          Goto(p, pc) /\ pc \in PCs /\ (pc = "push" => names[proc[p].d].hex # 0)
    BY <1>5 DEF lookup_path, PCs
  <2>2. ProcInv(p)'
    BY <1>0, <1>5, <2>1, GotoEffect
       DEF lookup_path, ProcInv, HoldsLock, OwnsTmp, ParsedStays, FileThere, Excused, At
  <2> QED BY <1>0, <1>5, <2>1, <2>2, GotoStep DEF lookup_path, At
<1>6. CASE EndOfData(p) \/ curl_exception(p) \/ finish(p)
  <2>1. PICK pc \in {"finish", "fsync", "cleanup"} :
          Goto(p, pc) /\ pc \in PCs /\ (pc = "fsync" => proc[p].wrote = Whole)
    BY <1>6 DEF EndOfData, curl_exception, finish, PCs
  <2>2. /\ proc[p].pc \in {"write", "finish"}
        /\ UNCHANGED <<names, inodes, locks, packages, members, expiring, removed, count>>
    BY <1>6 DEF EndOfData, curl_exception, finish, At
  <2>3. ProcInv(p)'
    BY <1>0, <2>1, <2>2, GotoEffect
       DEF ProcInv, HoldsLock, OwnsTmp, ParsedStays, FileThere, Excused, At
  <2> QED BY <1>0, <2>1, <2>2, <2>3, GotoStep
<1>7. CASE Failed(p)
  BY <1>0, <1>7, EndedStep DEF Failed, At, Why, TypeOK
<1>8. CASE Push(p)
  <2>1. Goto(p, "parse") /\ "parse" \in PCs
    BY <1>8 DEF Push, PCs
  <2>2. ProcInv(p)'
    BY <1>0, <1>8, <2>1, GotoEffect
       DEF Push, ProcInv, HoldsLock, OwnsTmp, ParsedStays, FileThere, Excused, At
  <2> QED BY <1>0, <1>8, <2>1, <2>2, GotoStep DEF Push, At
<1>9. CASE Parse(p)
  <2> DEFINE i == names[proc[p].d].hex
  <2>0. /\ proc[p].d \in Digests /\ i \in Inodes \cup {0}
        /\ i = 0 => proc[p].d \in removed
        /\ i # 0 => /\ i \in Inodes
                    /\ inodes[i].blocks # Whole => count.crashes > 0
    BY <1>0, <1>9
       DEF Parse, At, TypeOK, ProcInv, FileThere, FilesInv, CachedIsWhole, TornAfterCrash
  <2>1. CASE \/ i = 0 /\ Throw(p, "gone")
             \/ i # 0 /\ inodes[i].blocks # Whole /\ Throw(p, "malformed")
    <3> HIDE DEF i
    <3> QED BY <1>0, <1>9, <2>0, <2>1, EndedStep DEF Parse, Throw, Why, TypeOK
  <2>2. CASE /\ i # 0
             /\ proc' = [proc EXCEPT ![p] = [@ EXCEPT !.pc = "rehash", !.from = i,
                                                      !.data = inodes[i].blocks]]
    <3>1. inodes[i].blocks \in Data
      BY <1>0, <2>0, <2>2 DEF TypeOK
    <3>2. /\ proc' \in [Procs -> ProcState] /\ Others(p)
          /\ proc'[p].pc = "rehash" /\ proc'[p].d = proc[p].d
          /\ proc'[p].from = i /\ proc'[p].data = inodes[i].blocks
      <4> DEFINE b == inodes[i].blocks
                 s == proc[p]
                 r == [s EXCEPT !.pc = "rehash", !.from = i, !.data = b]
      <4>0. s \in ProcState /\ i \in Inodes \cup {0} /\ b \in Data
        BY <1>0, <2>0, <3>1 DEF TypeOK
      <4>1. proc' = [proc EXCEPT ![p] = r]
        BY <2>2
      <4> HIDE DEF i, b, s
      <4>2. r \in ProcState /\ r.pc = "rehash" /\ r.d = s.d /\ r.from = i /\ r.data = b
        BY <4>0 DEF ProcState, PCs
      <4> HIDE DEF r
      <4> QED BY <1>0, <4>1, <4>2 DEF TypeOK, Others, b, s
    <3>3. TypeOK'
      BY <1>0, <1>9, <2>0, <3>2 DEF Parse, TypeOK, Others
    <3>4. \A d \in Digests : names[d].tmp # i
      <4>1. TmpPrivate /\ proc[p].d \in Digests /\ i # 0
        BY <1>0, <2>0, <2>2, Zenon DEF FilesInv
      <4> QED BY <4>1 DEF TmpPrivate
    <3>5. ProcInv(p)'
      BY <1>0, <1>9, <2>0, <2>2, <3>2, <3>4
         DEF Parse, ProcInv, HoldsLock, OwnsTmp, ParsedStays, FileThere, Excused, At
    <3> QED BY <1>9, <3>2, <3>3, <3>5, LocalStep DEF Parse
  <2> QED BY <1>9, <2>1, <2>2 DEF Parse
<1>10. CASE Reference(p)
  <2>1. PICK pc \in {"done", "failed"} : Ended(p, pc, None)
    BY <1>10 DEF Reference
  <2> QED BY <1>0, <1>10, <2>1, EndedStep DEF Reference, At, Why, TypeOK
<1>11. CASE Kill(p)
  <2>1. proc' = [proc EXCEPT ![p] = Idle] /\ Idle \in ProcState /\ Idle.pc = "idle"
    BY <1>11 DEF Kill, Idle, ProcState, PCs, Why
  <2>2. proc' \in [Procs -> ProcState] /\ Others(p) /\ proc'[p].pc = "idle"
    BY <1>0, <2>1 DEF Others, TypeOK
  <2>3. /\ count' \in [starts : Nat, expires : Nat, kills : Nat, crashes : Nat]
        /\ count'.crashes = count.crashes
    <3>1. count' = [count EXCEPT !.kills = @ + 1]
      BY <1>11 DEF Kill
    <3>2. count \in [starts : Nat, expires : Nat, kills : Nat, crashes : Nat]
      BY <1>0 DEF TypeOK
    <3> QED BY <3>1, <3>2
  <2>4. /\ locks' \in [Digests -> Procs \cup {None}]
        /\ \A q \in Procs, d \in Digests : q # p /\ locks[d] = q => locks'[d] = q
    BY <1>0, <1>11, ReleasedEffect DEF Kill
  <2>5. TypeOK'
    BY <1>0, <1>11, <2>2, <2>3, <2>4 DEF Kill, TypeOK, Others
  <2>6. ProcInv(p)'
    BY <2>2 DEF ProcInv, HoldsLock, OwnsTmp, ParsedStays, FileThere, Excused, At
  <2> QED BY <1>11, <2>2, <2>3, <2>4, <2>5, <2>6, LocalStep DEF Kill
<1> QED BY <1>1, <1>2, <1>3, <1>4, <1>5, <1>6, <1>7, <1>8, <1>9, <1>10, <1>11


-----------------------------------------------------------------------------
(* As many numbers as functions on the digests or the processes take.      *)
LEMMA ImageBound ==
  ASSUME NEW S, IsFiniteSet(S), NEW f
  PROVE  /\ IsFiniteSet({f[x] : x \in S})
         /\ Cardinality({f[x] : x \in S}) \in Nat
         /\ Cardinality({f[x] : x \in S}) <= Cardinality(S)
<1> DEFINE T == {f[x] : x \in S}
           g == [x \in S |-> f[x]]
<1>1. g \in Surjection(S, T)
  BY DEF Surjection
<1> HIDE DEF T, g
<1>2. IsFiniteSet(T) /\ Cardinality(T) <= Cardinality(S)
  BY <1>1, FS_Surjection
<1> QED BY <1>2, FS_CardinalityType DEF T

(* The union of two finite sets has at most as many elements as both.      *)
LEMMA UnionBound ==
  ASSUME NEW S, IsFiniteSet(S), NEW T, IsFiniteSet(T)
  PROVE  /\ IsFiniteSet(S \cup T)
         /\ Cardinality(S \cup T) \in Nat
         /\ Cardinality(S \cup T) <= Cardinality(S) + Cardinality(T)
<1>1. IsFiniteSet(S \cap T) /\ IsFiniteSet(S \cup T)
  BY FS_Intersection, FS_Union
<1>2. /\ Cardinality(S) \in Nat /\ Cardinality(T) \in Nat
      /\ Cardinality(S \cap T) \in Nat /\ Cardinality(S \cup T) \in Nat
  BY <1>1, FS_CardinalityType
<1>3. Cardinality(S \cup T) = Cardinality(S) + Cardinality(T) - Cardinality(S \cap T)
  BY FS_Union
<1> QED BY <1>1, <1>2, <1>3

(* There is a free inode when a temporary file is created: there are two   *)
(* inodes for each name and each process, and the file to be created has   *)
(* none.                                                                   *)
LEMMA FreeInodeExists ==
  ASSUME TypeOK, NEW e \in Digests, names[e].tmp = 0
  PROVE  /\ FreeInode \in Inodes
         /\ \A d \in Digests : FreeInode # names[d].hex /\ FreeInode # names[d].tmp
         /\ \A p \in Procs : FreeInode # proc[p].fd /\ FreeInode # proc[p].from
<1> DEFINE hex == [d \in Digests |-> names[d].hex]
           tmp == [d \in Digests |-> names[d].tmp]
           fd == [p \in Procs |-> proc[p].fd]
           from == [p \in Procs |-> proc[p].from]
           A == {hex[d] : d \in Digests}
           B == {tmp[d] : d \in Digests}
           C == {fd[p] : p \in Procs}
           D == {from[p] : p \in Procs}
           N == Cardinality(Digests)
           M == Cardinality(Procs)
           Used == (A \cup B) \cup (C \cup D)
<1>1. /\ IsFiniteSet(Digests) /\ IsFiniteSet(Procs) /\ N \in Nat /\ M \in Nat
  BY FileCacheAssumption, FS_CardinalityType
<1>2. IsFiniteSet(A) /\ Cardinality(A) \in Nat /\ Cardinality(A) <= N
  <2> HIDE DEF hex
  <2> QED BY <1>1, ImageBound
<1>3. IsFiniteSet(B) /\ Cardinality(B) \in Nat /\ Cardinality(B) <= N
  <2> HIDE DEF tmp
  <2> QED BY <1>1, ImageBound
<1>4. IsFiniteSet(C) /\ Cardinality(C) \in Nat /\ Cardinality(C) <= M
  <2> HIDE DEF fd
  <2> QED BY <1>1, ImageBound
<1>5. IsFiniteSet(D) /\ Cardinality(D) \in Nat /\ Cardinality(D) <= M
  <2> HIDE DEF from
  <2> QED BY <1>1, ImageBound
<1>6. 0 \in Used
  BY DEF Used
<1>7. /\ \A d \in Digests : names[d].hex \in Used /\ names[d].tmp \in Used
      /\ \A p \in Procs : proc[p].fd \in Used /\ proc[p].from \in Used
  OBVIOUS
<1>8. \A i \in Used : \/ \E d \in Digests : i \in {names[d].hex, names[d].tmp}
                      \/ \E p \in Procs : i \in {proc[p].fd, proc[p].from}
  OBVIOUS
<1> HIDE DEF A, B, C, D
<1>9. IsFiniteSet(Used) /\ Cardinality(Used) \in Nat /\ Cardinality(Used) <= 2 * (M + N)
  <2>1. /\ IsFiniteSet(A \cup B) /\ Cardinality(A \cup B) \in Nat
        /\ Cardinality(A \cup B) <= Cardinality(A) + Cardinality(B)
    BY <1>2, <1>3, UnionBound
  <2>2. /\ IsFiniteSet(C \cup D) /\ Cardinality(C \cup D) \in Nat
        /\ Cardinality(C \cup D) <= Cardinality(C) + Cardinality(D)
    BY <1>4, <1>5, UnionBound
  <2>3. /\ IsFiniteSet(Used) /\ Cardinality(Used) \in Nat
        /\ Cardinality(Used) <= Cardinality(A \cup B) + Cardinality(C \cup D)
    BY <2>1, <2>2, UnionBound
  <2> HIDE DEF Used, M, N
  <2> QED BY <1>1, <1>2, <1>3, <1>4, <1>5, <2>1, <2>2, <2>3
<1> HIDE DEF Used
<1>10. \E i \in Inodes : i \notin Used
  <2>1. SUFFICES ASSUME Inodes \subseteq Used PROVE FALSE
    OBVIOUS
  <2>2. 0..(2 * (M + N)) \subseteq Used
    BY <1>1, <1>6, <2>1 DEF Inodes
  <2>3. Cardinality(0..(2 * (M + N))) = 2 * (M + N) + 1
    <3>1. 0 \in Int /\ 2 * (M + N) \in Int /\ 2 * (M + N) >= 0
      BY <1>1
    <3> HIDE DEF M, N
    <3> QED BY <3>1, FS_Interval
  <2>4. Cardinality(0..(2 * (M + N))) <= Cardinality(Used)
    BY <1>9, <2>2, FS_Subset
  <2> QED BY <1>1, <1>9, <2>3, <2>4
<1>11. PICK i \in Inodes : /\ \A d \in Digests : i \notin {names[d].hex, names[d].tmp}
                          /\ \A p \in Procs : i \notin {proc[p].fd, proc[p].from}
  BY <1>7, <1>10
<1> QED BY <1>11 DEF FreeInode

-----------------------------------------------------------------------------
(* The owner of a digest works on an inode that nobody else knows: nothing *)
(* that another process relies on is changed.                              *)
LEMMA WriterStep ==
  ASSUME IInv, NEW p \in Procs, Others(p), TypeOK', ProcInv(p)',
         NEW d \in Digests, locks[d] = p, NEW i \in Inodes,
         \A e \in Digests : names[e].hex # i /\ (e # d => names[e].tmp # i),
         \A q \in Procs : proc[q].pc = "rehash" => proc[q].from # i,
         \A e \in Digests : e # d => names'[e] = names[e],
         names'[d].hex = names[d].hex, names'[d].tmp \in {i, 0},
         \A j \in Inodes : j # i => inodes'[j] = inodes[j],
         inodes'[i].torn => inodes[i].torn,
         UNCHANGED <<locks, packages, removed, count>>
  PROVE  IInv'
<1>0. TypeOK /\ FilesInv /\ i # 0
  BY Sizes DEF IInv
<1>1. ASSUME NEW q \in Procs, q # p PROVE ProcInv(q)'
  <2>0. /\ proc'[q] = proc[q] /\ ProcInv(q)
        /\ proc[q].pc # "idle" => proc[q].d \in Digests
        /\ proc[q].from \in Inodes \cup {0} /\ proc[q].fd \in Inodes \cup {0}
    BY <1>1 DEF IInv, TypeOK, Others, ProcState
  <2>1. HoldsLock(q)'
    BY <2>0 DEF ProcInv, HoldsLock
  <2>2. OwnsTmp(q)'
    <3>1. SUFFICES ASSUME proc[q].pc \in {"write", "finish", "fsync", "cleanup", "rename"}
                   PROVE  OwnsTmp(q)'
      BY <2>0 DEF OwnsTmp
    <3>2. proc[q].d \in Digests /\ locks[proc[q].d] = q
      BY <2>0, <3>1 DEF ProcInv, HoldsLock
    <3>3. proc[q].d # d
      BY <1>1, <3>2
    <3>4. /\ names[proc[q].d].tmp \in Inodes \cup {0} /\ names[proc[q].d].tmp # i
          /\ names'[proc[q].d] = names[proc[q].d]
      BY <1>0, <3>2, <3>3 DEF TypeOK
    <3> QED BY <2>0, <3>1, <3>4 DEF ProcInv, OwnsTmp
  <2>3. ParsedStays(q)'
    <3>1. CASE proc[q].pc = "rehash"
      <4>1. /\ proc[q].from \in Inodes /\ proc[q].from # i
            /\ inodes[proc[q].from].blocks = proc[q].data
            /\ \A e \in Digests : names[e].tmp # proc[q].from
        BY <2>0, <3>1 DEF ProcInv, ParsedStays
      <4>2. \A e \in Digests : names'[e].tmp # proc[q].from
        BY <1>0, <4>1, Sizes
      <4> QED BY <2>0, <4>1, <4>2, Sizes DEF ParsedStays
    <3> QED BY <2>0, <3>1 DEF ParsedStays
  <2>4. FileThere(q)'
    <3>1. \A e \in Digests : names'[e].hex = names[e].hex
      OBVIOUS
    <3> QED BY <2>0, <3>1 DEF ProcInv, FileThere
  <2>5. Excused(q)'
    BY <2>0 DEF ProcInv, Excused, At
  <2> QED BY <2>1, <2>2, <2>3, <2>4, <2>5 DEF ProcInv
<1>2. FilesInv'
  <2>1. \A e \in Digests : names'[e].hex = names[e].hex
    OBVIOUS
  <2>2. TmpPrivate'
    BY <1>0, <2>1 DEF FilesInv, TmpPrivate
  <2>3. TornAfterCrash'
    BY <1>0 DEF FilesInv, TornAfterCrash
  <2>4. CachedIsWhole'
    BY <1>0, <2>1 DEF FilesInv, CachedIsWhole, TypeOK
  <2> QED BY <1>0, <2>2, <2>3, <2>4 DEF FilesInv, LoadedIsVerified
<1> QED BY <1>1, <1>2 DEF IInv

(* Behind the last block that was written comes the next one.              *)
LEMMA WriteAtEnd ==
  ASSUME NEW s \in Data, NEW b \in 0..Blocks + 1
  PROVE  /\ Append(s, b) \in Data
         /\ WriteAt(s, Len(s) + 1, b) = Append(s, b)
<1> DEFINE n == Len(s) + 1
<1>1. Len(s) \in Nat /\ Append(s, b) \in Data
  BY DEF Data
<1>2. Max({n, Len(s)}) = n
  <2>1. n \in {n, Len(s)} /\ \A y \in {n, Len(s)} : n >= y
    BY <1>1
  <2>2. \A x \in {n, Len(s)} : (\A y \in {n, Len(s)} : x >= y) => x = n
    BY <1>1
  <2> QED BY <2>1, <2>2 DEF Max
<1> DEFINE f == [i \in 1..n |-> IF i = n THEN b ELSE IF i <= Len(s) THEN s[i] ELSE zero]
           g == Append(s, b)
<1>3. WriteAt(s, n, b) = f
  BY <1>2, Zenon DEF WriteAt
<1>4. Len(g) = n /\ \A i \in 1..n : g[i] = IF i = n THEN b ELSE s[i]
  BY <1>1 DEF Data
<1>5. f \in Seq(0..Blocks + 1)
  <2>1. \A i \in 1..n : (IF i = n THEN b ELSE IF i <= Len(s) THEN s[i] ELSE zero) \in 0..Blocks + 1
    BY <1>1, Sizes DEF Data, zero
  <2> QED BY <1>1, <2>1, IsASeq
<1>6. Len(f) = n /\ \A i \in 1..n : f[i] = g[i]
  BY <1>1, <1>4
<1>7. g \in Seq(0..Blocks + 1)
  BY <1>1 DEF Data
<1> HIDE DEF f, g, n
<1>8. f = g
  BY <1>4, <1>5, <1>6, <1>7, SeqEqual
<1> QED BY <1>1, <1>3, <1>8 DEF n, g

(* A record update of a process.                                           *)
LEMMA ProcEffect ==
  ASSUME TypeOK, NEW p \in Procs, NEW r \in ProcState, proc' = [proc EXCEPT ![p] = r]
  PROVE  proc' \in [Procs -> ProcState] /\ Others(p) /\ proc'[p] = r
BY DEF TypeOK, Others

(* The steps of a writer.                                                  *)
LEMMA WriterSteps ==
  ASSUME IInv, NEW p \in Procs, add_sink(p) \/ write(p) \/ fsync(p) \/ CleanUp(p)
  PROVE  IInv'
<1> USE Sizes
<1> DEFINE d == proc[p].d
           s == proc[p]
<1>0. /\ TypeOK /\ FilesInv /\ ProcInv(p) /\ \A q \in Procs : ProcInv(q)
      /\ proc[p].d \in Digests /\ proc[p] \in ProcState
      /\ locks[proc[p].d] = p
      /\ names \in [Digests -> [hex : Inodes \cup {0}, tmp : Inodes \cup {0}]]
      /\ inodes \in [Inodes -> [blocks : Data, synced : BOOLEAN, torn : BOOLEAN]]
  BY DEF IInv, TypeOK, add_sink, write, fsync, CleanUp, At, ProcInv, HoldsLock
<1>1. CASE add_sink(p)
  <2> DEFINE i == IF names[d].tmp = 0 THEN FreeInode ELSE names[d].tmp
  <2>1. /\ names' = [names EXCEPT ![d].tmp = i]
        /\ inodes' = [inodes EXCEPT ![i] = NewInode]
        /\ proc' = [proc EXCEPT ![p] = [@ EXCEPT !.pc = "write", !.fd = i, !.wrote = <<>>]]
        /\ UNCHANGED <<dirs, locks, packages, members, expiring, removed, count>>
        /\ proc[p].pc = "open"
    BY <1>1 DEF add_sink, At
  <2>2. /\ i \in Inodes
        /\ \A e \in Digests : names[e].hex # i /\ (e # d => names[e].tmp # i)
        /\ \A q \in Procs : proc[q].pc = "rehash" => proc[q].from # i
    <3>1. CASE names[d].tmp = 0
      BY <1>0, <3>1, FreeInodeExists
    <3>2. CASE names[d].tmp # 0
      BY <1>0, <3>2 DEF FilesInv, TmpPrivate, ProcInv, ParsedStays
    <3> QED BY <3>1, <3>2
  <2> HIDE DEF i
  <2> DEFINE r == [s EXCEPT !.pc = "write", !.fd = i, !.wrote = <<>>]
  <2>3. /\ r \in ProcState /\ r.pc = "write" /\ r.d = d /\ r.fd = i /\ r.wrote = <<>>
    <3>1. s \in ProcState
      BY <1>0
    <3> HIDE DEF s
    <3> QED BY <2>2, <3>1 DEF ProcState, PCs, s
  <2>4. proc' = [proc EXCEPT ![p] = r]
    BY <2>1
  <2> HIDE DEF r
  <2>5. proc' \in [Procs -> ProcState] /\ Others(p) /\ proc'[p] = r
    BY <1>0, <2>3, <2>4, ProcEffect
  <2>6. /\ names' \in [Digests -> [hex : Inodes \cup {0}, tmp : Inodes \cup {0}]]
        /\ names'[d].hex = names[d].hex /\ names'[d].tmp = i
        /\ \A e \in Digests : e # d => names'[e] = names[e]
    BY <1>0, <2>1, <2>2
  <2>7. /\ inodes' \in [Inodes -> [blocks : Data, synced : BOOLEAN, torn : BOOLEAN]]
        /\ \A j \in Inodes : j # i => inodes'[j] = inodes[j]
        /\ inodes'[i].blocks = <<>> /\ ~inodes'[i].torn
    BY <1>0, <2>1, <2>2 DEF NewInode
  <2>8. TypeOK'
    BY <1>0, <2>1, <2>3, <2>5, <2>6, <2>7 DEF TypeOK, Others
  <2>9. ProcInv(p)'
    <3>1. /\ proc'[p].pc = "write" /\ proc'[p].d = d /\ proc'[p].fd = i
          /\ proc'[p].wrote = <<>>
      BY <2>3, <2>5
    <3>2. locks'[d] = p /\ names'[d].tmp = i /\ i # 0 /\ inodes'[i].blocks = <<>>
      BY <1>0, <2>1, <2>2, <2>6, <2>7
    <3> HIDE DEF d
    <3> QED BY <3>1, <3>2
            DEF ProcInv, HoldsLock, OwnsTmp, ParsedStays, FileThere, Excused, At
  <2> QED BY <1>0, <2>1, <2>2, <2>5, <2>6, <2>7, <2>8, <2>9, WriterStep
<1> DEFINE i == s.fd
<1>2. ASSUME s.pc \in {"write", "fsync", "cleanup"}
      PROVE  /\ i \in Inodes /\ i = names[d].tmp /\ inodes[i].blocks = s.wrote
             /\ \A e \in Digests : names[e].hex # i /\ (e # d => names[e].tmp # i)
             /\ \A q \in Procs : proc[q].pc = "rehash" => proc[q].from # i
  BY <1>0, <1>2 DEF ProcInv, OwnsTmp, FilesInv, TmpPrivate, ParsedStays, ProcState
<1>3. CASE write(p)
  <2>1. PICK b \in {Len(s.wrote) + 1, bad} :
          /\ Len(s.wrote) + 1 <= Blocks
          /\ inodes' = [inodes EXCEPT ![i].blocks = WriteAt(@, Len(s.wrote) + 1, b),
                                      ![i].synced = FALSE]
          /\ proc' = [proc EXCEPT ![p].wrote = Append(@, b)]
          /\ UNCHANGED <<dirs, names, locks, packages, members, expiring, removed, count>>
          /\ s.pc = "write"
    BY <1>3 DEF write, At
  <2>2. s.wrote \in Data /\ b \in 0..Blocks + 1
    BY <1>0, <2>1 DEF ProcState, bad, Data
  <2>3. /\ Append(s.wrote, b) \in Data
        /\ WriteAt(inodes[i].blocks, Len(s.wrote) + 1, b) = Append(s.wrote, b)
    BY <1>2, <2>1, <2>2, WriteAtEnd
  <2> DEFINE w == Append(s.wrote, b)
             r == [s EXCEPT !.wrote = w]
  <2>4. proc' = [proc EXCEPT ![p] = r]
    BY <2>1
  <2>5. /\ inodes' \in [Inodes -> [blocks : Data, synced : BOOLEAN, torn : BOOLEAN]]
        /\ \A j \in Inodes : j # i => inodes'[j] = inodes[j]
        /\ inodes'[i].blocks = w /\ inodes'[i].torn = inodes[i].torn
    <3>1. i \in Inodes /\ w \in Data /\ WriteAt(inodes[i].blocks, Len(s.wrote) + 1, b) = w
      BY <1>2, <2>1, <2>3
    <3>2. inodes' = [inodes EXCEPT ![i] = [@ EXCEPT !.blocks = w, !.synced = FALSE]]
      BY <1>0, <2>1, <3>1
    <3> HIDE DEF i, w
    <3> QED BY <1>0, <3>1, <3>2
  <2> HIDE DEF w
  <2>6. r \in ProcState /\ r.pc = "write" /\ r.d = d /\ r.fd = i /\ r.wrote = w
    <3>1. s \in ProcState /\ s.pc = "write" /\ w \in Data
      BY <1>0, <2>1, <2>3 DEF w
    <3> HIDE DEF s
    <3> QED BY <3>1 DEF ProcState, s
  <2> HIDE DEF r
  <2>7. proc' \in [Procs -> ProcState] /\ Others(p) /\ proc'[p] = r
    BY <1>0, <2>4, <2>6, ProcEffect
  <2>8. TypeOK'
    <3>1. \A q \in Procs : proc'[q].pc # "idle" => proc'[q].d \in Digests
      BY <1>0, <2>6, <2>7 DEF TypeOK, Others
    <3>2. UNCHANGED <<dirs, names, locks, packages, members, expiring, removed, count>>
      BY <2>1, Zenon
    <3> QED BY <1>0, <2>5, <2>7, <3>1, <3>2 DEF TypeOK
  <2>9. ProcInv(p)'
    BY <1>0, <1>2, <2>1, <2>5, <2>6, <2>7
       DEF ProcInv, HoldsLock, OwnsTmp, ParsedStays, FileThere, Excused, At
  <2>10. /\ i \in Inodes /\ names'[d].tmp = i
         /\ \A e \in Digests : names[e].hex # i /\ (e # d => names[e].tmp # i)
         /\ \A q \in Procs : proc[q].pc = "rehash" => proc[q].from # i
    BY <1>2, <2>1
  <2>11. UNCHANGED <<names, locks, packages, removed, count>>
    BY <2>1
  <2> HIDE DEF i, d, s
  <2> QED BY <1>0, <2>5, <2>7, <2>8, <2>9, <2>10, <2>11, WriterStep DEF d
<1>4. CASE fsync(p)
  <2>1. /\ inodes' \in {inodes, [inodes EXCEPT ![i].synced = TRUE]}
        /\ proc' = [proc EXCEPT ![p] = [@ EXCEPT !.pc = "rename", !.fd = 0, !.wrote = <<>>]]
        /\ UNCHANGED <<dirs, names, locks, packages, members, expiring, removed, count>>
        /\ s.pc = "fsync"
    BY <1>4 DEF fsync, At
  <2> DEFINE r == [s EXCEPT !.pc = "rename", !.fd = 0, !.wrote = <<>>]
  <2>2. proc' = [proc EXCEPT ![p] = r]
    BY <2>1
  <2>3. /\ inodes' \in [Inodes -> [blocks : Data, synced : BOOLEAN, torn : BOOLEAN]]
        /\ \A j \in Inodes : j # i => inodes'[j] = inodes[j]
        /\ inodes'[i].blocks = inodes[i].blocks /\ inodes'[i].torn = inodes[i].torn
    <3>1. i \in Inodes
      BY <1>2, <2>1
    <3>2. \/ inodes' = inodes
          \/ inodes' = [inodes EXCEPT ![i] = [@ EXCEPT !.synced = TRUE]]
      BY <2>1
    <3> HIDE DEF i
    <3>3. CASE inodes' = inodes
      BY <1>0, <3>3
    <3>4. CASE inodes' = [inodes EXCEPT ![i] = [@ EXCEPT !.synced = TRUE]]
      BY <1>0, <3>1, <3>4
    <3> QED BY <3>2, <3>3, <3>4
  <2>4. r \in ProcState /\ r.pc = "rename" /\ r.d = d
    <3>1. s \in ProcState
      BY <1>0
    <3> HIDE DEF s
    <3> QED BY <3>1 DEF ProcState, PCs, s
  <2> HIDE DEF r
  <2>5. proc' \in [Procs -> ProcState] /\ Others(p) /\ proc'[p] = r
    BY <1>0, <2>2, <2>4, ProcEffect
  <2>6. TypeOK'
    BY <1>0, <2>1, <2>3, <2>4, <2>5 DEF TypeOK, Others
  <2>7. ProcInv(p)'
    <3>1. proc'[p].pc = "rename" /\ proc'[p].d = d
      BY <2>4, <2>5
    <3>2. locks'[d] = p /\ names'[d].tmp = i /\ i # 0
      BY <1>0, <1>2, <2>1
    <3>3. inodes'[i].blocks = Whole
      BY <1>0, <1>2, <2>1, <2>3 DEF ProcInv, OwnsTmp
    <3> HIDE DEF d, i
    <3> QED BY <3>1, <3>2, <3>3
            DEF ProcInv, HoldsLock, OwnsTmp, ParsedStays, FileThere, Excused, At
  <2>8. /\ i \in Inodes /\ names'[d].tmp = i
        /\ \A e \in Digests : names[e].hex # i /\ (e # d => names[e].tmp # i)
        /\ \A q \in Procs : proc[q].pc = "rehash" => proc[q].from # i
    BY <1>2, <2>1
  <2> HIDE DEF i, d, s
  <2> QED BY <1>0, <2>1, <2>3, <2>5, <2>6, <2>7, <2>8, WriterStep DEF d
<1>5. CASE CleanUp(p)
  <2>1. /\ names' = [names EXCEPT ![d].tmp = 0]
        /\ proc' = [proc EXCEPT ![p] = [@ EXCEPT !.pc = "unlock", !.fd = 0, !.wrote = <<>>]]
        /\ UNCHANGED <<dirs, inodes, locks, packages, members, expiring, removed, count>>
        /\ s.pc = "cleanup"
    BY <1>5 DEF CleanUp, At
  <2> DEFINE r == [s EXCEPT !.pc = "unlock", !.fd = 0, !.wrote = <<>>]
  <2>2. proc' = [proc EXCEPT ![p] = r]
    BY <2>1
  <2>3. /\ names' \in [Digests -> [hex : Inodes \cup {0}, tmp : Inodes \cup {0}]]
        /\ names'[d].hex = names[d].hex /\ names'[d].tmp = 0
        /\ \A e \in Digests : e # d => names'[e] = names[e]
    BY <1>0, <2>1
  <2>4. r \in ProcState /\ r.pc = "unlock" /\ r.d = d
    <3>1. s \in ProcState
      BY <1>0
    <3> HIDE DEF s
    <3> QED BY <3>1 DEF ProcState, PCs, s
  <2> HIDE DEF r
  <2>5. proc' \in [Procs -> ProcState] /\ Others(p) /\ proc'[p] = r
    BY <1>0, <2>2, <2>4, ProcEffect
  <2>6. TypeOK'
    BY <1>0, <2>1, <2>3, <2>4, <2>5 DEF TypeOK, Others
  <2>7. ProcInv(p)'
    BY <1>0, <2>1, <2>3, <2>4, <2>5
       DEF ProcInv, HoldsLock, OwnsTmp, ParsedStays, FileThere, Excused, At
  <2>8. /\ i \in Inodes
        /\ \A e \in Digests : names[e].hex # i /\ (e # d => names[e].tmp # i)
        /\ \A q \in Procs : proc[q].pc = "rehash" => proc[q].from # i
    BY <1>2, <2>1
  <2> HIDE DEF i, d, s
  <2> QED BY <1>0, <2>1, <2>3, <2>5, <2>6, <2>7, <2>8, WriterStep DEF d
<1> QED BY <1>1, <1>3, <1>4, <1>5

-----------------------------------------------------------------------------
(* renameat.  Nobody else has the temporary file open, so it still has the *)
(* blocks that were compared; it now has the final name and no other.      *)
LEMMA RenameStep == ASSUME IInv, NEW p \in Procs, renameat(p) PROVE IInv'
<1> USE Sizes
<1> DEFINE d == proc[p].d
           i == names[d].tmp
           r == [proc[p] EXCEPT !.pc = "push", !.download = TRUE]
<1>0. /\ TypeOK /\ FilesInv /\ \A q \in Procs : ProcInv(q)
      /\ d \in Digests /\ proc[p] \in ProcState /\ locks[d] = p
      /\ names \in [Digests -> [hex : Inodes \cup {0}, tmp : Inodes \cup {0}]]
      /\ i \in Inodes /\ i # 0 /\ inodes[i].blocks = Whole
  BY DEF IInv, TypeOK, renameat, At, ProcInv, HoldsLock, OwnsTmp
<1>1. /\ names' = [names EXCEPT ![d] = [hex |-> i, tmp |-> 0]]
      /\ proc' = [proc EXCEPT ![p] = r]
      /\ UNCHANGED <<inodes, locks, packages, members, expiring, removed, count>>
  BY <1>0 DEF renameat
<1>2. r \in ProcState /\ r.pc = "push" /\ r.d = d
  BY <1>0 DEF ProcState, PCs
<1> HIDE DEF r, i, d
<1>3. proc' \in [Procs -> ProcState] /\ Others(p) /\ proc'[p] = r
  BY <1>0, <1>1, <1>2, ProcEffect
<1>4. /\ names' \in [Digests -> [hex : Inodes \cup {0}, tmp : Inodes \cup {0}]]
      /\ names'[d].hex = i /\ names'[d].tmp = 0
      /\ \A e \in Digests : e # d => names'[e] = names[e]
  BY <1>0, <1>1
<1>5. TypeOK'
  BY <1>0, <1>1, <1>2, <1>3, <1>4 DEF TypeOK, Others
<1>6. ProcInv(p)'
  BY <1>0, <1>1, <1>2, <1>3, <1>4
     DEF ProcInv, HoldsLock, OwnsTmp, ParsedStays, FileThere, Excused, At
<1>7. ASSUME NEW q \in Procs, q # p PROVE ProcInv(q)'
  <2>0. /\ proc'[q] = proc[q] /\ ProcInv(q)
        /\ proc[q].pc # "idle" => proc[q].d \in Digests
    BY <1>0, <1>3, <1>7 DEF TypeOK, Others
  <2>1. HoldsLock(q)'
    BY <1>1, <2>0 DEF ProcInv, HoldsLock
  <2>2. OwnsTmp(q)'
    <3>1. SUFFICES ASSUME proc[q].pc \in {"write", "finish", "fsync", "cleanup", "rename"}
                   PROVE  OwnsTmp(q)'
      BY <2>0 DEF OwnsTmp
    <3>2. proc[q].d \in Digests /\ locks[proc[q].d] = q
      BY <2>0, <3>1 DEF ProcInv, HoldsLock
    <3>3. names'[proc[q].d] = names[proc[q].d]
      BY <1>0, <1>4, <1>7, <3>2
    <3> QED BY <1>1, <2>0, <3>1, <3>3 DEF ProcInv, OwnsTmp
  <2>3. ParsedStays(q)'
    BY <1>0, <1>1, <1>4, <2>0 DEF ProcInv, ParsedStays
  <2>4. FileThere(q)'
    BY <1>0, <1>1, <1>4, <2>0 DEF ProcInv, FileThere
  <2>5. Excused(q)'
    BY <1>1, <2>0 DEF ProcInv, Excused, At
  <2> QED BY <2>1, <2>2, <2>3, <2>4, <2>5 DEF ProcInv
<1>8. TmpPrivate'
  BY <1>0, <1>4 DEF FilesInv, TmpPrivate, i
<1>9. CachedIsWhole'
  BY <1>0, <1>1, <1>4 DEF FilesInv, CachedIsWhole
<1> QED BY <1>0, <1>1, <1>5, <1>6, <1>7, <1>8, <1>9
        DEF IInv, FilesInv, TornAfterCrash, LoadedIsVerified

(* rpm_load.  If the file that is hashed is the one that was parsed, the   *)
(* data that were parsed have the digest.                                  *)
LEMMA RehashStep == ASSUME IInv, NEW p \in Procs, Rehash(p) PROVE IInv'
<1> USE Sizes
<1> DEFINE i == names[proc[p].d].hex
           c == Loaded(p, i # proc[p].from)
<1>0. /\ TypeOK /\ FilesInv /\ ProcInv(p)
      /\ proc[p].pc = "rehash" /\ proc[p].d \in Digests /\ proc[p] \in ProcState
      /\ i \in Inodes \cup {0} /\ (i = 0 => proc[p].d \in removed)
      /\ i # 0 => (inodes[i].blocks # Whole => count.crashes > 0)
  BY DEF IInv, TypeOK, Rehash, At, ProcInv, FileThere, FilesInv, CachedIsWhole, TornAfterCrash
<1>1. UNCHANGED <<names, inodes, locks, members, expiring, removed, count>>
  BY DEF Rehash
<1>2. \/ i = 0 /\ Throw(p, "gone") /\ UNCHANGED packages
      \/ i # 0 /\ inodes[i].blocks # Whole /\ Throw(p, "mismatch") /\ UNCHANGED packages
      \/ /\ i # 0 /\ inodes[i].blocks = Whole
         /\ packages' = packages \cup {c} /\ Goto(p, "unlink")
  BY DEF Rehash
<1>3. CASE i # 0 /\ inodes[i].blocks = Whole
  <2>1. packages' = packages \cup {c} /\ Goto(p, "unlink") /\ "unlink" \in PCs
    BY <1>2, <1>3 DEF PCs
  <2>2. c.data = Whole \/ c.replaced
    BY <1>0, <1>3 DEF Loaded, ProcInv, ParsedStays
  <2>3. c \in [digest : Digests, data : Data, replaced : BOOLEAN]
    BY <1>0 DEF Loaded, ProcState
  <2>4. /\ proc' \in [Procs -> ProcState] /\ Others(p)
        /\ proc'[p].pc = "unlink" /\ proc'[p].d = proc[p].d
    BY <1>0, <2>1, GotoEffect
  <2> HIDE DEF i, c
  <2>5. TypeOK'
    BY <1>0, <1>1, <2>1, <2>3, <2>4 DEF TypeOK, Others
  <2>6. \A q \in Procs : ProcInv(q)'
    BY <1>1, <2>4
       DEF IInv, Others, ProcInv, HoldsLock, OwnsTmp, ParsedStays, FileThere, Excused, At
  <2>7. FilesInv'
    BY <1>0, <1>1, <2>1, <2>2
       DEF FilesInv, TmpPrivate, TornAfterCrash, CachedIsWhole, LoadedIsVerified
  <2> QED BY <2>5, <2>6, <2>7 DEF IInv
<1>4. CASE ~(i # 0 /\ inodes[i].blocks = Whole)
  <2> HIDE DEF i
  <2> QED BY <1>0, <1>1, <1>2, <1>4, EndedStep DEF Throw, Why, TypeOK
<1> QED BY <1>3, <1>4

(* A file is removed by its final name.                                    *)
LEMMA RemoveFile ==
  ASSUME IInv, NEW d \in Digests,
         names' = [names EXCEPT ![d].hex = 0], removed' = removed \cup {d},
         UNCHANGED <<inodes, locks, packages, count>>,
         NEW p \in Procs \cup {None}, Others(p), p \in Procs => ProcInv(p)',
         TypeOK'
  PROVE  IInv'
<1>0. /\ names \in [Digests -> [hex : Inodes \cup {0}, tmp : Inodes \cup {0}]] /\ FilesInv
  BY DEF IInv, TypeOK
<1>1. \A e \in Digests : /\ names'[e].tmp = names[e].tmp
                         /\ names'[e].hex = IF e = d THEN 0 ELSE names[e].hex
  BY <1>0
<1>2. ASSUME NEW q \in Procs, q # p PROVE ProcInv(q)'
  <2>1. /\ proc'[q] = proc[q] /\ ProcInv(q)
        /\ proc[q].pc # "idle" => proc[q].d \in Digests
    BY <1>2 DEF IInv, TypeOK, Others
  <2> QED BY <1>1, <2>1
          DEF ProcInv, HoldsLock, OwnsTmp, ParsedStays, FileThere, Excused, At
<1>3. FilesInv'
  BY <1>0, <1>1 DEF FilesInv, TmpPrivate, TornAfterCrash, CachedIsWhole, LoadedIsVerified
<1> QED BY <1>2, <1>3 DEF IInv

(* The end of a load, which may remove the file it has downloaded.         *)
LEMMA UnlinkStep == ASSUME IInv, NEW p \in Procs, UnlinkTransient(p) PROVE IInv'
<1> USE Sizes
<1> DEFINE d == proc[p].d
           r == [Idle EXCEPT !.pc = "reference", !.d = d]
<1>0. /\ TypeOK /\ d \in Digests
      /\ names \in [Digests -> [hex : Inodes \cup {0}, tmp : Inodes \cup {0}]]
  BY DEF IInv, TypeOK, UnlinkTransient, At
<1>1. /\ proc' = [proc EXCEPT ![p] = r]
      /\ UNCHANGED <<inodes, locks, packages, members, expiring, count>>
      /\ \/ names' = [names EXCEPT ![d].hex = 0] /\ removed' = removed \cup {d}
         \/ UNCHANGED <<names, removed>>
  BY DEF UnlinkTransient
<1>2. r \in ProcState /\ r.pc = "reference" /\ r.d = d
  BY <1>0 DEF Idle, ProcState, PCs, Why
<1> HIDE DEF r, d
<1>3. proc' \in [Procs -> ProcState] /\ Others(p) /\ proc'[p] = r
  BY <1>0, <1>1, <1>2, ProcEffect
<1>4. names' \in [Digests -> [hex : Inodes \cup {0}, tmp : Inodes \cup {0}]]
  BY <1>0, <1>1
<1>5. TypeOK'
  BY <1>0, <1>1, <1>2, <1>3, <1>4 DEF TypeOK, Others
<1>6. ProcInv(p)'
  BY <1>2, <1>3 DEF ProcInv, HoldsLock, OwnsTmp, ParsedStays, FileThere, Excused, At
<1> QED BY <1>0, <1>1, <1>3, <1>5, <1>6, RemoveFile, LocalStep

-----------------------------------------------------------------------------
(* Steps of --expire.                                                      *)
LEMMA ExpireStep == ASSUME IInv, expire PROVE IInv'
<1> USE Sizes
<1>0. /\ TypeOK /\ FilesInv /\ proc \in [Procs -> ProcState]
      /\ names \in [Digests -> [hex : Inodes \cup {0}, tmp : Inodes \cup {0}]]
      /\ expiring \in [pc : {"idle", "list", "query", "unlink"}, todo : SUBSET Digests]
      /\ count \in [starts : Nat, expires : Nat, kills : Nat, crashes : Nat]
  BY DEF IInv, TypeOK
<1>1. ASSUME UNCHANGED <<names, inodes, locks, proc, removed>>, packages' \subseteq packages,
             count'.crashes = count.crashes, TypeOK'
      PROVE  IInv'
  <2>1. ASSUME NEW q \in Procs PROVE ProcInv(q)'
    BY <1>1 DEF IInv, ProcInv, HoldsLock, OwnsTmp, ParsedStays, FileThere, Excused, At
  <2> QED BY <1>0, <1>1, <2>1
          DEF IInv, FilesInv, TmpPrivate, TornAfterCrash, CachedIsWhole, LoadedIsVerified
<1>2. CASE ExpirePackages
  <2>1. /\ count' \in [starts : Nat, expires : Nat, kills : Nat, crashes : Nat]
        /\ count'.crashes = count.crashes
    BY <1>0, <1>2 DEF ExpirePackages
  <2>2. expiring' \in [pc : {"idle", "list", "query", "unlink"}, todo : SUBSET Digests]
    BY <1>2 DEF ExpirePackages
  <2> QED BY <1>0, <1>1, <1>2, <2>1, <2>2 DEF ExpirePackages, TypeOK
<1>3. CASE digests \/ referenced_package_digests
  <2>1. expiring' \in [pc : {"idle", "list", "query", "unlink"}, todo : SUBSET Digests]
    BY <1>0, <1>3 DEF digests, referenced_package_digests
  <2> QED BY <1>0, <1>1, <1>3, <2>1 DEF digests, referenced_package_digests, TypeOK
<1>4. CASE ExpireFile
  <2>1. UNCHANGED <<inodes, locks, packages, members, proc, count>>
    BY <1>4 DEF ExpireFile
  <2>2. /\ expiring' \in [pc : {"idle", "list", "query", "unlink"}, todo : SUBSET Digests]
        /\ \/ UNCHANGED <<names, removed>>
           \/ \E d \in Digests : /\ names' = [names EXCEPT ![d].hex = 0]
                                 /\ removed' = removed \cup {d}
    BY <1>0, <1>4 DEF ExpireFile
  <2>3. CASE UNCHANGED <<names, removed>>
    BY <1>0, <1>1, <2>1, <2>2, <2>3 DEF TypeOK
  <2>4. ASSUME NEW d \in Digests,
               names' = [names EXCEPT ![d].hex = 0], removed' = removed \cup {d}
        PROVE  IInv'
    <3>1. names' \in [Digests -> [hex : Inodes \cup {0}, tmp : Inodes \cup {0}]]
      BY <1>0, <2>4
    <3>2. TypeOK'
      BY <1>0, <2>1, <2>2, <2>4, <3>1 DEF TypeOK
    <3>3. Others(None)
      BY <2>1 DEF Others
    <3> QED BY <2>1, <2>4, <3>2, <3>3, RemoveFile
  <2> QED BY <2>2, <2>3, <2>4
<1> QED BY <1>2, <1>3, <1>4 DEF expire

(* The machine stops.  Only what is marked as torn has other blocks.       *)
LEMMA CrashStep == ASSUME IInv, Crash PROVE IInv'
<1> USE Sizes
<1>0. /\ TypeOK /\ FilesInv
      /\ inodes \in [Inodes -> [blocks : Data, synced : BOOLEAN, torn : BOOLEAN]]
      /\ count \in [starts : Nat, expires : Nat, kills : Nat, crashes : Nat]
  BY DEF IInv, TypeOK
<1>1. PICK lost \in SUBSET Unsynced : \E zeros \in SUBSET lost :
        inodes' = [i \in Inodes |->
           IF i \in zeros THEN Torn([n \in 1..Len(inodes[i].blocks) |-> zero])
           ELSE IF i \in lost THEN Torn(<<>>) ELSE inodes[i]]
  BY DEF Crash
<1>2. PICK zeros \in SUBSET lost :
        inodes' = [i \in Inodes |->
           IF i \in zeros THEN Torn([n \in 1..Len(inodes[i].blocks) |-> zero])
           ELSE IF i \in lost THEN Torn(<<>>) ELSE inodes[i]]
  BY <1>1
<1>3. \A i \in Inodes : [n \in 1..Len(inodes[i].blocks) |-> zero] \in Data
  BY <1>0 DEF Data, zero
<1>4. /\ inodes' \in [Inodes -> [blocks : Data, synced : BOOLEAN, torn : BOOLEAN]]
      /\ \A i \in Inodes : inodes'[i].torn \/ inodes'[i] = inodes[i]
  BY <1>0, <1>2, <1>3 DEF Torn
<1>5. /\ count' \in [starts : Nat, expires : Nat, kills : Nat, crashes : Nat]
      /\ count'.crashes > 0
  BY <1>0 DEF Crash
<1>6. Idle \in ProcState /\ Idle.pc = "idle"
  BY DEF Idle, ProcState, PCs, Why
<1>7. proc' \in [Procs -> ProcState] /\ \A p \in Procs : proc'[p].pc = "idle"
  BY <1>6 DEF Crash
<1>8. TypeOK'
  BY <1>0, <1>4, <1>5, <1>7 DEF Crash, TypeOK
<1>9. \A p \in Procs : ProcInv(p)'
  BY <1>7 DEF ProcInv, HoldsLock, OwnsTmp, ParsedStays, FileThere, Excused, At
<1>10. TmpPrivate' /\ LoadedIsVerified'
  BY <1>0 DEF Crash, FilesInv, TmpPrivate, LoadedIsVerified
<1>11. TornAfterCrash'
  BY <1>5 DEF TornAfterCrash
<1>12. CachedIsWhole'
  <2> SUFFICES ASSUME NEW d \in Digests, names[d].hex # 0
               PROVE  inodes'[names[d].hex].blocks = Whole \/ inodes'[names[d].hex].torn
    BY DEF CachedIsWhole, Crash
  <2>1. /\ names[d].hex \in Inodes
        /\ inodes[names[d].hex].blocks = Whole \/ inodes[names[d].hex].torn
    BY <1>0 DEF TypeOK, FilesInv, CachedIsWhole
  <2> QED BY <1>4, <2>1
<1> QED BY <1>8, <1>9, <1>10, <1>11, <1>12 DEF IInv, FilesInv

-----------------------------------------------------------------------------
(* Every step of the processes, of --expire and of the machine.            *)
LEMMA NextIInv == IInv /\ [Next]_vars => IInv'
<1> SUFFICES ASSUME IInv, [Next]_vars PROVE IInv'
  OBVIOUS
<1>1. CASE UNCHANGED vars
  <2>1. TypeOK'
    BY <1>1 DEF vars, IInv, TypeOK
  <2>2. FilesInv'
    BY <1>1 DEF vars, IInv, FilesInv, TmpPrivate, TornAfterCrash, CachedIsWhole, LoadedIsVerified
  <2>3. ASSUME NEW p \in Procs PROVE ProcInv(p)'
    <3>1. ProcInv(p)
      BY DEF IInv
    <3> QED BY <1>1, <3>1
            DEF vars, ProcInv, HoldsLock, OwnsTmp, ParsedStays, FileThere, Excused, At
  <2> QED BY <2>1, <2>2, <2>3 DEF IInv
<1>2. ASSUME NEW p \in Procs, Start(p) \/ Step(p) \/ Kill(p) PROVE IInv'
  BY <1>2, LocalSteps, WriterSteps, RenameStep, RehashStep, UnlinkStep DEF Step
<1> QED BY <1>1, <1>2, ExpireStep, CrashStep DEF Next

(* The state of processes, files and locks always has the shape that the   *)
(* code relies on.                                                         *)
THEOREM TypeCorrect == Spec => []TypeOK
<1>1. IInv => TypeOK
  BY DEF IInv
<1> QED BY <1>1, InitIInv, NextIInv, PTL DEF Spec

(* file_cache: whoever writes, fails, dies or removes, a file that has the *)
(* name of a digest has the data of that digest, unless the machine has    *)
(* stopped before a transient file was on disk.                            *)
THEOREM CacheCorrect == Spec => []CachedIsWhole
<1>1. IInv => CachedIsWhole
  BY DEF IInv, FilesInv
<1> QED BY <1>1, InitIInv, NextIInv, PTL DEF Spec

(* rpm_load: the data of a committed package have its digest, unless the   *)
(* file was replaced between the two times it was opened.                  *)
THEOREM LoadCorrect == Spec => []LoadedIsVerified
<1>1. IInv => LoadedIsVerified
  BY DEF IInv, FilesInv
<1> QED BY <1>1, InitIInv, NextIInv, PTL DEF Spec

(* downloader: a process that shares the cache with others is brought down *)
(* only by a file that was removed or that a crash of the machine damaged. *)
THEOREM AbortsExcused == Spec => []FailsForReason
<1>1. IInv => FailsForReason
  BY DEF IInv, FailsForReason, ProcInv, Excused
<1> QED BY <1>1, InitIInv, NextIInv, PTL DEF Spec

-----------------------------------------------------------------------------
(* file_cache: who has found a file under the name of a digest and opened  *)
(* it can go on reading.  Nobody writes to that file or truncates it, not  *)
(* even a process that downloads it again; a new file takes its name.      *)
NamedNeverWritten ==
  [][\A d \in Digests : LET i == names[d].hex IN
       i # 0 => inodes'[i] = inodes[i] \/ count'.crashes > count.crashes]_vars

(* The writes of add_sink and fsync go to the temporary file.              *)
LEMMA WritesElsewhere ==
  ASSUME IInv, NEW p \in Procs, Start(p) \/ Step(p) \/ Kill(p),
         NEW d \in Digests, names[d].hex # 0
  PROVE  inodes'[names[d].hex] = inodes[names[d].hex]
<1> DEFINE e == proc[p].d
<1>0. /\ TypeOK /\ TmpPrivate /\ OwnsTmp(p)
      /\ inodes \in [Inodes -> [blocks : Data, synced : BOOLEAN, torn : BOOLEAN]]
      /\ names[d].hex \in Inodes
      /\ proc[p].pc # "idle" => e \in Digests
  BY DEF IInv, FilesInv, ProcInv, TypeOK
<1>1. CASE add_sink(p)
  <2> DEFINE i == IF names[e].tmp = 0 THEN FreeInode ELSE names[e].tmp
  <2>1. e \in Digests /\ inodes' = [inodes EXCEPT ![i] = NewInode]
    BY <1>0, <1>1 DEF add_sink, At
  <2>2. names[d].hex # i
    BY <1>0, <2>1, FreeInodeExists DEF TmpPrivate
  <2> QED BY <1>0, <2>1, <2>2
<1>2. CASE write(p) \/ fsync(p)
  <2>1. e \in Digests /\ proc[p].fd # 0 /\ proc[p].fd = names[e].tmp
    BY <1>0, <1>2 DEF write, fsync, At, OwnsTmp
  <2>2. names[d].hex # proc[p].fd
    BY <1>0, <2>1 DEF TmpPrivate
  <2>3. \E r : inodes' = [inodes EXCEPT ![proc[p].fd] = r] \/ inodes' = inodes
    BY <1>0, <1>2 DEF write, fsync
  <2> QED BY <1>0, <2>2, <2>3
<1>3. CASE ~add_sink(p) /\ ~write(p) /\ ~fsync(p)
  <2>1. inodes' = inodes
    BY <1>3 DEF Start, Kill, Step, make_directory_hierarchy, LockDigest, FastTrack, lookup_path,
                EndOfData, curl_exception, finish, renameat, CleanUp, Failed, Push, Parse,
                Rehash, UnlinkTransient, Reference
  <2> QED BY <2>1
<1> QED BY <1>1, <1>2, <1>3

(* A cached file is never written to, except that a crash of the machine   *)
(* may tear one that was not synchronised.                                 *)
THEOREM NamedFileStays == Spec => NamedNeverWritten
<1> DEFINE Kept == \A d \in Digests : LET i == names[d].hex IN
                     i # 0 => inodes'[i] = inodes[i] \/ count'.crashes > count.crashes
<1>1. ASSUME IInv, [Next]_vars PROVE [Kept]_vars
  <2>1. ASSUME NEW p \in Procs, Start(p) \/ Step(p) \/ Kill(p) PROVE Kept
    BY <1>1, <2>1, WritesElsewhere
  <2>2. CASE expire
    BY <2>2 DEF expire, ExpirePackages, digests, referenced_package_digests, ExpireFile
  <2>3. CASE Crash
    <3>1. count.crashes \in Nat /\ count'.crashes = count.crashes + 1
      BY <1>1, <2>3 DEF IInv, TypeOK, Crash
    <3> QED BY <3>1
  <2> QED BY <1>1, <2>1, <2>2, <2>3 DEF Next
<1> HIDE DEF Kept
<1>2. Spec => [][Kept]_vars
  BY <1>1, InitIInv, NextIInv, PTL DEF Spec
<1> QED BY <1>2 DEF NamedNeverWritten, Kept
=============================================================================
