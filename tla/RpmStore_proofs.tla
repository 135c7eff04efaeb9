--------------------------- MODULE RpmStore_proofs --------------------------
(***************************************************************************)
(* For any packages, files, sets and commands, and any number of processes *)
(* that run them beside --expire and crashes of the server: what the       *)
(* transactions of rpm_load and do_update_set leave in the database.       *)
(***************************************************************************)
EXTENDS RpmStore, SequenceTheorems, TLAPS

PCs == {"idle", "lock", "select_package", "insert_package", "select", "insert", "file",
        "update", "digest", "commit", "create_set", "lock_set", "read_set", "write_set",
        "commit_set", "end"}
PreviewType == {None, "full", "short"}
FileRow == [package : Nat, name : Names, content : Contents]

DbType ==
  [package : [Rpms -> Nat], file : SUBSET FileRow, preview : [Contents -> PreviewType],
   cid : [Contents -> Nat], formats : SUBSET Contents, python : SUBSET Contents,
   sets : SUBSET Sets, member : [Sets -> SUBSET Nat], closure : [Sets -> SUBSET Nat]]

TxnType ==
  [package : Nat, file : SUBSET FileRow, inserted : SUBSET Contents,
   full : SUBSET Contents, formats : SUBSET Contents, python : SUBSET Contents,
   created : Sets \cup {None}, member : SUBSET Nat,
   lock : Rpms \cup Sets \cup {None}]

TypeOK ==
  /\ db \in DbType
  /\ lost \subseteq DbType
  /\ txn \in [Procs -> TxnType]
  /\ pc \in [Procs -> PCs]
  /\ cmd \in [Procs -> Commands \cup {None}]
  /\ todo \in [Procs -> Seq(Rpms)]
  /\ entry \in [Procs -> Nat]
  /\ found \in [Procs -> [preview : PreviewType, cid : Nat]]
  /\ old \in [Procs -> SUBSET Nat]
  /\ ids \in [Procs -> SUBSET Nat]
  /\ failure \in [Procs -> {None, "set", "package", "contents", "expired", "gone",
                            "deadlock", "crash"}]
  /\ expire \in [step : {"idle", "packages", "find_contents", "contents"},
                 victims : SUBSET (Nat \cup Contents)]
  /\ asked \in [Sets -> SUBSET Nat]
  /\ counters \in [id : Nat, runs : Nat, expires : Nat, crashes : Nat]

-----------------------------------------------------------------------------
(* What holds of every committed state, also of one that a crash brings    *)
(* back: files have contents, packages are complete, new contents were     *)
(* analysed, the closure is that of the members.                           *)
InSource(c) ==
  \E s \in Source : \E j \in DOMAIN FilesOf[s] : FilesOf[s][j].content = c

FilesHaveContents(d) ==
  \A f \in d.file : /\ d.preview[f.content] # None
                    /\ f.name \in KeepFull => d.preview[f.content] = "full"

RowsOf(r, k, id) ==
  {[package |-> id, name |-> n, content |-> FilesOf[r][k].content] :
     n \in ToSet(FilesOf[r][k].names)}

AllFilesThere(d) ==
  \A r \in Rpms : d.package[r] # 0 =>
    \A k \in DOMAIN FilesOf[r] : RowsOf(r, k, d.package[r]) \subseteq d.file

NewAnalysed(d) ==
  \A c \in Contents : d.preview[c] # None => c \in d.formats \/ InSource(c)

ElfMembers(d, members) ==
  {i \in members : \E f \in d.file : /\ f.package = i
                                     /\ Format[f.content] = "elf"
                                     /\ f.content \in d.formats}

ClosureOfMembers(d) == \A s \in Sets : d.closure[s] = ElfMembers(d, d.member[s])

(* Package IDs come from a sequence.                                       *)
IdsUsed(d) ==
  /\ \A r \in Rpms : d.package[r] <= counters.id
  /\ \A s \in Sets : \A i \in d.member[s] : i <= counters.id

DbInv(d) ==
  /\ FilesHaveContents(d) /\ AllFilesThere(d) /\ NewAnalysed(d)
  /\ ClosureOfMembers(d) /\ d.member = asked /\ IdsUsed(d)

-----------------------------------------------------------------------------
(* What holds of a process.                                                *)
Adding == {"select", "insert", "file", "update"}
Loading == {"select_package", "insert_package", "digest", "commit"} \cup Adding
Setting == {"read_set", "write_set", "commit_set"}

(* lock_rpm: from the SELECT of intern_package to the COMMIT, the RPM is   *)
(* the process's own, and so the INSERT finds what the SELECT has found.   *)
OwnsRpm(p) ==
  /\ pc[p] \in Loading => todo[p] # <<>> /\ txn[p].lock = Rpm(p)
  /\ pc[p] = "lock" => todo[p] # <<>>
  /\ pc[p] = "insert_package" => db.package[Rpm(p)] = 0

(* Only rpm_load writes packages, files and contents.                      *)
WritesInLoad(p) ==
  /\ txn[p].package = 0 => /\ txn[p].file = {} /\ txn[p].inserted = {}
                           /\ txn[p].full = {} /\ txn[p].formats = {}
  /\ pc[p] \in Adding => txn[p].package # 0 /\ entry[p] \in DOMAIN FilesOf[Rpm(p)]
  /\ pc[p] \notin Adding \cup {"digest", "commit"} => txn[p].package = 0

(* The files of the entries that were read are in the transaction.         *)
FilesSoFar(p) ==
  txn[p].package # 0 =>
    \A k \in DOMAIN FilesOf[Rpm(p)] :
      \/ pc[p] \in Adding /\ (k > entry[p] \/ (k = entry[p] /\ pc[p] # "update"))
      \/ RowsOf(Rpm(p), k, txn[p].package) \subseteq txn[p].file

(* Files of the transaction have contents, which it has inserted or which  *)
(* its file row keeps from being expired; these are full where they must.  *)
OwnFilesHaveContents(p) ==
  \A f \in txn[p].file :
    /\ f.package = txn[p].package
    /\ f.content \in txn[p].inserted \/ db.preview[f.content] # None
    /\ f.name \in KeepFull =>
         \/ f.content \in txn[p].full
         \/ f.content \notin txn[p].inserted /\ db.preview[f.content] = "full"
         \/ pc[p] = "update" /\ f.content = Content(p)

(* Contents are inserted once, and analysed by the load that adds them.    *)
OwnContents(p) ==
  /\ \A c \in txn[p].inserted :
       /\ db.preview[c] = None
       /\ \/ c \in txn[p].formats
          \/ InSource(c)
          \/ pc[p] = "file" /\ found[p] = NotFound /\ c = Content(p)
  /\ txn[p].formats \subseteq txn[p].inserted
  /\ \A c \in txn[p].full : c \in txn[p].inserted \/ c \in Referenced(txn[p].file)

(* What intern_file_contents has returned is still true when the file row  *)
(* is inserted, unless the contents were expired meanwhile.                *)
FoundIsCurrent(p) ==
  /\ pc[p] = "insert" => found[p] = NotFound
  /\ pc[p] = "file" =>
       LET c == Content(p) IN
       IF found[p] = NotFound
       THEN /\ c \in txn[p].inserted
            /\ WantedPreview(Entry(p)) = "full" => c \in txn[p].full
       ELSE /\ found[p].preview # None
            /\ c \in txn[p].inserted =>
                 (found[p].preview = "full" => c \in txn[p].full)
            /\ c \notin txn[p].inserted =>
                 /\ found[p].cid <= db.cid[c]
                 /\ found[p].cid = db.cid[c] =>
                      /\ db.preview[c] # None
                      /\ found[p].preview = "full" =>
                           c \in txn[p].full \/ db.preview[c] = "full"

(* The ID of a new package is nobody else's.                               *)
IdIsFresh(p) ==
  /\ txn[p].package # 0 =>
       /\ txn[p].package <= counters.id
       /\ \A r \in Rpms : db.package[r] # txn[p].package
       /\ \A s \in Sets : txn[p].package \notin db.member[s]
       /\ \A q \in Procs : txn[p].package \notin ids[q]
  /\ \A i \in ids[p] : i <= counters.id

(* A set that is updated exists and is locked, one that is created does    *)
(* not exist and its name is taken; either way nobody else changes it.     *)
OwnsSet(p) ==
  /\ pc[p] # "idle" => cmd[p] \in Commands
  /\ pc[p] # "idle" /\ cmd[p].set # None /\ ~cmd[p].create => cmd[p].set \in db.sets
  /\ pc[p] \in Setting \cup {"create_set", "lock_set"} => cmd[p].set # None
  /\ pc[p] = "create_set" => cmd[p].create
  /\ pc[p] = "lock_set" => ~cmd[p].create
  /\ pc[p] \in Setting =>
       IF cmd[p].create THEN txn[p].created = cmd[p].set /\ cmd[p].set \notin db.sets
       ELSE txn[p].lock = cmd[p].set
  /\ pc[p] \in {"write_set", "commit_set"} => old[p] = db.member[cmd[p].set]

ProcInv(p) ==
  /\ OwnsRpm(p) /\ WritesInLoad(p) /\ FilesSoFar(p) /\ OwnFilesHaveContents(p)
  /\ OwnContents(p) /\ FoundIsCurrent(p) /\ IdIsFresh(p) /\ OwnsSet(p)
  /\ failure[p] # "package"

(* What one transaction has locked, created, inserted or numbered is not   *)
(* that of another one.                                                    *)
Apart(p, q) ==
  /\ txn[p].lock # None => txn[p].lock # txn[q].lock
  /\ txn[p].created # None => txn[p].created # txn[q].created
  /\ txn[p].inserted \cap txn[q].inserted = {}
  /\ txn[p].package # 0 => txn[p].package # txn[q].package

IInv ==
  /\ TypeOK
  /\ DbInv(db)
  /\ \A d \in lost : DbInv(d)
  /\ \A p \in Procs : ProcInv(p)
  /\ \A p, q \in Procs : p # q => Apart(p, q)

-----------------------------------------------------------------------------
(* What the constants are: every file of an RPM has contents and names.    *)
LEMMA Constants ==
  /\ None \notin Rpms /\ None \notin Sets /\ None \notin {"full", "short", "package"}
  /\ \A r \in Rpms : /\ DOMAIN FilesOf[r] = 1..Len(FilesOf[r]) /\ Len(FilesOf[r]) \in Nat
                     /\ \A k \in DOMAIN FilesOf[r] :
                          /\ FilesOf[r][k].content \in Contents
                          /\ FilesOf[r][k].names \in Seq(Names)
                          /\ FilesOf[r][k].names # <<>>
                          /\ ToSet(FilesOf[r][k].names) \subseteq Names
                          /\ ToSet(FilesOf[r][k].names) # {}
  /\ \A c \in Commands : /\ c.rpms \in Seq(Rpms)
                         /\ c.set \in Sets \cup {None} /\ c.create \in BOOLEAN
<1>1. ASSUME NEW r \in Rpms, NEW k \in DOMAIN FilesOf[r]
      PROVE  /\ FilesOf[r][k].content \in Contents
             /\ FilesOf[r][k].names \in Seq(Names)
             /\ FilesOf[r][k].names # <<>>
             /\ ToSet(FilesOf[r][k].names) \subseteq Names
             /\ ToSet(FilesOf[r][k].names) # {}
  <2>1. FilesOf[r] \in Seq(File) /\ FilesOf[r][k].names # <<>>
    BY RpmStoreAssumption
  <2>2. FilesOf[r][k] \in File
    BY <2>1, ElementOfSeq, LenProperties
  <2> DEFINE names == FilesOf[r][k].names
  <2>3. names \in Seq(Names) /\ names # <<>> /\ FilesOf[r][k].content \in Contents
    BY <2>1, <2>2 DEF File
  <2> HIDE DEF names
  <2>4. Len(names) \in Nat \ {0} /\ DOMAIN names = 1..Len(names)
    BY <2>3, EmptySeq, LenProperties
  <2>5. ToSet(names) \subseteq Names /\ names[1] \in ToSet(names)
    BY <2>3, <2>4, ElementOfSeq DEF ToSet
  <2> QED BY <2>3, <2>5 DEF names
<1>2. ASSUME NEW r \in Rpms
      PROVE  DOMAIN FilesOf[r] = 1..Len(FilesOf[r]) /\ Len(FilesOf[r]) \in Nat
  BY RpmStoreAssumption, LenProperties
<1> QED BY <1>1, <1>2, RpmStoreAssumption

(* At first the database has at most empty sets, and nothing runs.         *)
LEMMA InitIInv == Init => IInv
<1> SUFFICES ASSUME Init PROVE IInv
  OBVIOUS
<1> USE Constants
<1>1. PICK sets \in SUBSET Sets : db = [EmptyDb EXCEPT !.sets = sets]
  BY DEF Init
<1>2. /\ db \in DbType /\ db.package = [r \in Rpms |-> 0] /\ db.file = {}
      /\ db.preview = [c \in Contents |-> None]
      /\ db.member = [s \in Sets |-> {}] /\ db.closure = [s \in Sets |-> {}]
  BY <1>1 DEF EmptyDb, EmptyPackage, EmptyFile, EmptyClosure, DbType, PreviewType
<1>3. NoWrites \in TxnType
  BY DEF NoWrites, TxnType
<1>4. TypeOK
  BY <1>2, <1>3 DEF Init, TypeOK, NotFound, PCs, PreviewType
<1>5. DbInv(db)
  BY <1>2, <1>4 DEF Init, DbInv, FilesHaveContents, AllFilesThere, NewAnalysed, ClosureOfMembers,
                    ElfMembers, IdsUsed, TypeOK
<1>6. ASSUME NEW p \in Procs PROVE ProcInv(p)
  <2>1. /\ pc[p] = "idle" /\ txn[p] = NoWrites /\ ids[p] = {} /\ failure[p] = None
        /\ NoWrites.package = 0 /\ NoWrites.file = {} /\ NoWrites.inserted = {}
        /\ NoWrites.full = {} /\ NoWrites.formats = {}
    BY DEF Init, NoWrites
  <2>2. OwnsRpm(p) /\ WritesInLoad(p) /\ FoundIsCurrent(p) /\ OwnsSet(p)
    BY <2>1 DEF OwnsRpm, WritesInLoad, FoundIsCurrent, OwnsSet, Loading, Adding, Setting
  <2>3. FilesSoFar(p) /\ OwnFilesHaveContents(p) /\ OwnContents(p) /\ IdIsFresh(p)
    BY <2>1 DEF FilesSoFar, OwnFilesHaveContents, OwnContents, IdIsFresh
  <2> QED BY <2>1, <2>2, <2>3 DEF ProcInv
<1>7. \A p, q \in Procs : p # q => Apart(p, q)
  BY DEF Init, Apart, NoWrites
<1> QED BY <1>4, <1>5, <1>6, <1>7 DEF IInv, Init

-----------------------------------------------------------------------------
Same(q) ==
  /\ txn'[q] = txn[q] /\ pc'[q] = pc[q] /\ cmd'[q] = cmd[q] /\ todo'[q] = todo[q]
  /\ entry'[q] = entry[q] /\ found'[q] = found[q] /\ old'[q] = old[q]
  /\ ids'[q] = ids[q] /\ failure'[q] = failure[q]

(* A step of p that commits nothing concerns only p.                       *)
LEMMA LocalStep ==
  ASSUME IInv, NEW p \in Procs, TypeOK', UNCHANGED <<db, lost, asked>>,
         counters'.id = counters.id \/ counters'.id = counters.id + 1,
         \A q \in Procs : q # p => /\ Same(q)
                                   /\ Apart(p, q)'
                                   /\ txn[q].package # 0 => txn[q].package \notin ids'[p],
         ProcInv(p)'
  PROVE  IInv'
<1>0. TypeOK /\ counters.id \in Nat /\ counters'.id \in Nat
  BY DEF IInv, TypeOK
<1>1. ASSUME NEW q \in Procs, q # p PROVE ProcInv(q)'
  <2>1. Same(q) /\ ProcInv(q) /\ (txn[q].package # 0 => txn[q].package \notin ids'[p])
    BY <1>1 DEF IInv
  <2>2. IdIsFresh(q)'
    <3>1. txn[q].package \in Nat /\ ids[q] \subseteq Nat
      BY <1>0 DEF TypeOK, TxnType
    <3>2. \A r \in Procs : r # p => ids'[r] = ids[r]
      BY DEF Same
    <3> QED BY <1>0, <2>1, <3>1, <3>2 DEF ProcInv, IdIsFresh, Same
  <2>3. OwnsRpm(q)' /\ WritesInLoad(q)' /\ OwnsSet(q)'
    BY <2>1 DEF Same, ProcInv, OwnsRpm, WritesInLoad, OwnsSet, Rpm
  <2>4. FilesSoFar(q)' /\ OwnFilesHaveContents(q)'
    BY <2>1 DEF Same, ProcInv, FilesSoFar, OwnFilesHaveContents, Rpm, Entry, Content
  <2>5. OwnContents(q)' /\ FoundIsCurrent(q)'
    <3>1. OwnContents(q) /\ FoundIsCurrent(q)
      BY <2>1 DEF ProcInv
    <3>2. Content(q)' = Content(q) /\ WantedPreview(Entry(q))' = WantedPreview(Entry(q))
      BY <2>1 DEF Same, Content, Entry, Rpm, WantedPreview
    <3>3. OwnContents(q)'
      BY <2>1, <3>1, <3>2 DEF Same, OwnContents
    <3>4. FoundIsCurrent(q)'
      BY <2>1, <3>1, <3>2 DEF Same, FoundIsCurrent
    <3> QED BY <3>3, <3>4
  <2> QED BY <2>1, <2>2, <2>3, <2>4, <2>5 DEF Same, ProcInv
<1>2. ASSUME NEW d \in DbType, DbInv(d) PROVE DbInv(d)'
  <2>1. IdsUsed(d)'
    BY <1>0, <1>2 DEF DbInv, IdsUsed, DbType
  <2> QED BY <1>2, <2>1
          DEF DbInv, FilesHaveContents, AllFilesThere, NewAnalysed, ClosureOfMembers
<1>3. DbInv(db)' /\ \A d \in lost' : DbInv(d)'
  <2>1. DbInv(db)'
    BY <1>0, <1>2 DEF IInv, TypeOK
  <2>2. \A d \in lost : DbInv(d)'
    BY <1>0, <1>2 DEF IInv, TypeOK
  <2> QED BY <2>1, <2>2
<1>4. ASSUME NEW q \in Procs, NEW r \in Procs, q # r PROVE Apart(q, r)'
  BY <1>4 DEF IInv, Same, Apart
<1> QED BY <1>1, <1>3, <1>4 DEF IInv

(* A transaction that has begun has written nothing.                       *)
LEMMA NoWritesFacts ==
  /\ NoWrites \in TxnType
  /\ NoWrites.package = 0 /\ NoWrites.file = {} /\ NoWrites.inserted = {}
  /\ NoWrites.full = {} /\ NoWrites.formats = {} /\ NoWrites.created = None
  /\ NoWrites.member = {} /\ NoWrites.lock = None
BY DEF NoWrites, TxnType

(* The transaction has loaded nothing.                                     *)
Empty(p) == txn[p].package = 0 /\ txn[p].file = {} /\ txn[p].inserted = {}
            /\ txn[p].full = {} /\ txn[p].formats = {}

(* An exception leaves nothing behind.                                     *)
LEMMA FailStep ==
  ASSUME IInv, NEW p \in Procs, UNCHANGED <<server, counters>>,
         NEW why \in {"set", "contents", "expired", "gone", "deadlock"}, Fail(p, why)
  PROVE  IInv'
<1> USE NoWritesFacts, Constants
<1>0. TypeOK /\ ProcInv(p)
  BY DEF IInv
<1>1. /\ failure'[p] = why /\ txn'[p] = NoWrites /\ ids'[p] = {} /\ pc'[p] = "idle"
      /\ \A q \in Procs : q # p => Same(q)
  BY <1>0 DEF Fail, Goto, Same, TypeOK
<1>2. TypeOK'
  <2>1. /\ failure' \in [Procs -> {None, "set", "package", "contents", "expired", "gone",
                                   "deadlock", "crash"}]
        /\ txn' \in [Procs -> TxnType] /\ todo' \in [Procs -> Seq(Rpms)]
        /\ entry' \in [Procs -> Nat] /\ found' \in [Procs -> [preview : PreviewType, cid : Nat]]
        /\ old' \in [Procs -> SUBSET Nat] /\ ids' \in [Procs -> SUBSET Nat]
        /\ pc' \in [Procs -> PCs] /\ cmd' = cmd
    BY <1>0 DEF Fail, Goto, TypeOK, PCs, NotFound, PreviewType
  <2> QED BY <1>0, <2>1 DEF TypeOK, server
<1>3. ProcInv(p)'
  <2>1. Empty(p)' /\ (pc[p] \notin {"insert", "file"})'
    BY <1>1 DEF Empty
  <2>2. (FilesSoFar(p) /\ OwnFilesHaveContents(p) /\ OwnContents(p) /\ FoundIsCurrent(p))'
    BY <2>1 DEF Empty, FilesSoFar, OwnFilesHaveContents, OwnContents, FoundIsCurrent
  <2>3. (OwnsRpm(p) /\ WritesInLoad(p) /\ IdIsFresh(p) /\ OwnsSet(p))'
    BY <1>1, <2>1
       DEF Empty, OwnsRpm, WritesInLoad, IdIsFresh, OwnsSet, Loading, Adding, Setting
  <2> QED BY <1>1, <2>2, <2>3 DEF ProcInv
<1>4. \A q \in Procs : q # p => Apart(p, q)'
  BY <1>1 DEF Apart
<1> QED BY <1>0, <1>1, <1>2, <1>3, <1>4, LocalStep DEF server

-----------------------------------------------------------------------------
(* Steps of a process that write no row: the transaction is empty, or as   *)
(* before.                                                                 *)
LEMMA StartStep ==
  ASSUME IInv, NEW p \in Procs, NEW c \in Commands, Start(p, c)
  PROVE  IInv'
<1> USE Constants
<1> DEFINE where == NextRpm(c, c.rpms)
<1>0. TypeOK /\ ProcInv(p) /\ pc[p] = "idle"
  BY DEF IInv, Start, At
<1>1. /\ UNCHANGED <<db, lost, expire, asked, txn, ids, entry, found, old>>
      /\ cmd' = [cmd EXCEPT ![p] = c]
      /\ counters' = [counters EXCEPT !.runs = @ + 1]
      /\ \/ /\ lookup_package_set(c)
            /\ todo' = [todo EXCEPT ![p] = c.rpms]
            /\ pc' = [pc EXCEPT ![p] = where]
            /\ failure' = [failure EXCEPT ![p] = None]
         \/ failure' = [failure EXCEPT ![p] = "set"] /\ UNCHANGED <<todo, pc>>
  BY DEF Start, Goto, server, place
<1>9. /\ where \in PCs /\ where \in {"lock", "end", "create_set", "lock_set"}
      /\ where = "lock" => c.rpms # <<>>
      /\ where \in {"create_set", "lock_set"} => c.set # None
      /\ where = "create_set" => c.create
      /\ where = "lock_set" => ~c.create
  BY DEF NextRpm, AfterLoads, PCs
<1> HIDE DEF where
<1>2. /\ counters' \in [id : Nat, runs : Nat, expires : Nat, crashes : Nat]
      /\ counters'.id = counters.id
  <2>1. counters \in [id : Nat, runs : Nat, expires : Nat, crashes : Nat]
    BY <1>0 DEF TypeOK
  <2> QED BY <1>1, <2>1
<1>3. TypeOK'
  <2>0. /\ todo \in [Procs -> Seq(Rpms)] /\ pc \in [Procs -> PCs]
        /\ cmd \in [Procs -> Commands \cup {None}] /\ c.rpms \in Seq(Rpms)
    BY <1>0 DEF TypeOK
  <2>1. /\ todo' \in [Procs -> Seq(Rpms)] /\ pc' \in [Procs -> PCs]
        /\ cmd' \in [Procs -> Commands \cup {None}]
    <3>1. cmd' \in [Procs -> Commands \cup {None}]
      BY <1>1, <2>0
    <3>2. todo' \in [Procs -> Seq(Rpms)]
      BY <1>1, <2>0
    <3>3. pc' \in [Procs -> PCs]
      BY <1>1, <1>9, <2>0
    <3> QED BY <3>1, <3>2, <3>3
  <2>2. failure' \in [Procs -> {None, "set", "package", "contents", "expired", "gone",
                               "deadlock", "crash"}]
    BY <1>0, <1>1 DEF TypeOK
  <2> QED BY <1>0, <1>1, <1>2, <2>1, <2>2 DEF TypeOK
<1>4. \A q \in Procs : q # p => Same(q)
  BY <1>0, <1>1 DEF Same, TypeOK
<1>5. /\ cmd'[p] = c /\ failure'[p] \in {None, "set"}
      /\ \/ /\ pc'[p] = where /\ todo'[p] = c.rpms
            /\ c.set # None /\ ~c.create => c.set \in db.sets
         \/ pc'[p] = "idle" /\ todo'[p] = todo[p]
  BY <1>0, <1>1 DEF TypeOK, lookup_package_set
<1>6. Empty(p)
  BY <1>0 DEF Empty, ProcInv, WritesInLoad, Adding
<1>7. ProcInv(p)'
  <2>1. (FilesSoFar(p) /\ OwnFilesHaveContents(p) /\ OwnContents(p) /\ FoundIsCurrent(p))'
    BY <1>1, <1>5, <1>6, <1>9
       DEF Empty, FilesSoFar, OwnFilesHaveContents, OwnContents, FoundIsCurrent
  <2>2. (OwnsRpm(p) /\ WritesInLoad(p))'
    BY <1>0, <1>1, <1>5, <1>6, <1>9 DEF Empty, OwnsRpm, WritesInLoad, Loading, Adding
  <2>4. OwnsSet(p)'
    BY <1>1, <1>5, <1>9 DEF OwnsSet, Setting
  <2>3. IdIsFresh(p)'
    BY <1>0, <1>1, <1>2, <1>6 DEF Empty, ProcInv, IdIsFresh
  <2> QED BY <1>5, <2>1, <2>2, <2>3, <2>4 DEF ProcInv
<1>8. \A q \in Procs : q # p => /\ Apart(p, q)'
                                /\ txn[q].package # 0 => txn[q].package \notin ids'[p]
  BY <1>1 DEF IInv, Apart, ProcInv, IdIsFresh
<1> QED BY <1>0, <1>1, <1>2, <1>3, <1>4, <1>7, <1>8, LocalStep

(* lock_rpm: no other transaction has the lock.                            *)
LEMMA LockRpmStep == ASSUME IInv, NEW p \in Procs, LockRpm(p) PROVE IInv'
<1> USE Constants
<1>0. TypeOK /\ ProcInv(p) /\ pc[p] = "lock"
  BY DEF IInv, LockRpm, At
<1>1. /\ UNCHANGED <<db, lost, expire, asked, cmd, todo, ids, failure, entry, found, old, counters>>
      /\ txn' = [txn EXCEPT ![p].lock = Rpm(p)]
      /\ pc' = [pc EXCEPT ![p] = "select_package"]
      /\ \A q \in Procs : q # p => txn[q].lock # Rpm(p)
  BY DEF LockRpm, Goto, Others, server, job, place
<1>2. Empty(p) /\ todo[p] # <<>> /\ Rpm(p) \in Rpms
  BY <1>0 DEF Empty, ProcInv, WritesInLoad, OwnsRpm, Adding, Loading, TypeOK, Rpm
<1>3. /\ pc'[p] = "select_package" /\ txn'[p].lock = Rpm(p) /\ txn'[p].created = txn[p].created
      /\ txn'[p].package = 0 /\ Empty(p)'
      /\ txn' \in [Procs -> TxnType] /\ \A q \in Procs : q # p => txn'[q] = txn[q]
  <2>1. txn \in [Procs -> TxnType]
    BY <1>0 DEF TypeOK
  <2>2. /\ txn' \in [Procs -> TxnType] /\ \A q \in Procs : q # p => txn'[q] = txn[q]
        /\ txn'[p] = [txn[p] EXCEPT !.lock = Rpm(p)]
    BY <1>1, <1>2, <2>1 DEF TxnType
  <2>3. pc'[p] = "select_package"
    BY <1>0, <1>1 DEF TypeOK
  <2> QED BY <1>2, <2>1, <2>2, <2>3 DEF TxnType, Empty
<1>4. TypeOK'
  BY <1>0, <1>1, <1>3 DEF TypeOK, PCs
<1>5. \A q \in Procs : q # p => Same(q)
  BY <1>0, <1>1, <1>3 DEF Same, TypeOK
<1>7. ProcInv(p)'
  <2>1. (FilesSoFar(p) /\ OwnFilesHaveContents(p) /\ OwnContents(p) /\ FoundIsCurrent(p))'
    BY <1>3 DEF Empty, FilesSoFar, OwnFilesHaveContents, OwnContents, FoundIsCurrent
  <2>2. (OwnsRpm(p) /\ WritesInLoad(p) /\ OwnsSet(p))'
    BY <1>0, <1>1, <1>2, <1>3
       DEF Empty, ProcInv, OwnsRpm, WritesInLoad, OwnsSet, Loading, Adding, Setting, Rpm
  <2>3. IdIsFresh(p)'
    BY <1>0, <1>1, <1>3 DEF ProcInv, IdIsFresh
  <2> QED BY <1>0, <1>1, <2>1, <2>2, <2>3 DEF ProcInv
<1>8. \A q \in Procs : q # p => /\ Apart(p, q)'
                                /\ txn[q].package # 0 => txn[q].package \notin ids'[p]
  BY <1>1, <1>2, <1>3 DEF IInv, Apart, ProcInv, IdIsFresh, Empty
<1> QED BY <1>0, <1>1, <1>4, <1>5, <1>7, <1>8, LocalStep

(* The SELECT of intern_package.                                           *)
LEMMA SelectPackageStep == ASSUME IInv, NEW p \in Procs, SelectPackage(p) PROVE IInv'
<1> USE Constants
<1>0. TypeOK /\ ProcInv(p) /\ pc[p] = "select_package"
  BY DEF IInv, SelectPackage, At
<1>1. Empty(p) /\ todo[p] # <<>> /\ Rpm(p) \in Rpms
  BY <1>0 DEF Empty, ProcInv, WritesInLoad, OwnsRpm, Adding, Loading, TypeOK, Rpm
<1>2. /\ UNCHANGED <<db, lost, expire, asked, txn, cmd, todo, failure, entry, found, old, counters>>
      /\ \/ /\ ids' = [ids EXCEPT ![p] = @ \cup {db.package[Rpm(p)]}]
            /\ pc' = [pc EXCEPT ![p] = "digest"]
         \/ /\ db.package[Rpm(p)] = 0 /\ ids' = ids
            /\ pc' = [pc EXCEPT ![p] = "insert_package"]
  BY DEF SelectPackage, Goto, server, place
<1>3. db.package[Rpm(p)] \in Nat /\ db.package[Rpm(p)] <= counters.id
  BY <1>0, <1>1 DEF TypeOK, DbType, IInv, DbInv, IdsUsed
<1>4. /\ ids' \in [Procs -> SUBSET Nat] /\ pc' \in [Procs -> PCs]
      /\ \A q \in Procs : q # p => Same(q)
      /\ ids'[p] \subseteq ids[p] \cup {db.package[Rpm(p)]}
      /\ pc'[p] = "digest" \/ (pc'[p] = "insert_package" /\ db.package[Rpm(p)] = 0)
  <2>1. ids \in [Procs -> SUBSET Nat] /\ pc \in [Procs -> PCs]
    BY <1>0 DEF TypeOK
  <2>2. CASE ids' = ids
    BY <1>2, <2>1, <2>2 DEF Same, PCs
  <2>3. CASE ids' = [ids EXCEPT ![p] = @ \cup {db.package[Rpm(p)]}]
    BY <1>2, <1>3, <2>1, <2>3 DEF Same, PCs
  <2> QED BY <1>2, <2>2, <2>3
<1>5. TypeOK'
  BY <1>0, <1>2, <1>4 DEF TypeOK
<1>6. ProcInv(p)'
  <2>1. (FilesSoFar(p) /\ OwnFilesHaveContents(p) /\ OwnContents(p) /\ FoundIsCurrent(p))'
    BY <1>1, <1>2, <1>4 DEF Empty, FilesSoFar, OwnFilesHaveContents, OwnContents, FoundIsCurrent
  <2>2. (OwnsRpm(p) /\ WritesInLoad(p) /\ OwnsSet(p))'
    BY <1>0, <1>1, <1>2, <1>4
       DEF Empty, ProcInv, OwnsRpm, WritesInLoad, OwnsSet, Loading, Adding, Setting, Rpm
  <2>3. IdIsFresh(p)'
    BY <1>0, <1>1, <1>2, <1>3, <1>4 DEF ProcInv, IdIsFresh, Empty
  <2> QED BY <1>0, <1>2, <2>1, <2>2, <2>3 DEF ProcInv
<1>7. ASSUME NEW q \in Procs, q # p
      PROVE  Apart(p, q)' /\ (txn[q].package # 0 => txn[q].package \notin ids'[p])
  BY <1>1, <1>2, <1>4, <1>7 DEF IInv, Apart, ProcInv, IdIsFresh
<1> QED BY <1>2, <1>4, <1>5, <1>6, <1>7, LocalStep

(* add_package_digest, or the exception if the package was expired.        *)
LEMMA AddDigestsStep == ASSUME IInv, NEW p \in Procs, AddDigests(p) PROVE IInv'
<1> USE Constants
<1>0. TypeOK /\ ProcInv(p) /\ pc[p] = "digest"
  BY DEF IInv, AddDigests, At
<1>1. CASE Fail(p, "gone")
  BY <1>1, FailStep DEF AddDigests
<1>2. CASE ~Fail(p, "gone")
  <2>1. /\ UNCHANGED <<db, lost, expire, asked, txn, cmd, todo, ids, failure, entry, found, old>>
        /\ UNCHANGED counters
        /\ pc' = [pc EXCEPT ![p] = "commit"]
    BY <1>2 DEF AddDigests, Goto, server, place, job
  <2>2. /\ pc' \in [Procs -> PCs] /\ pc'[p] = "commit" /\ \A q \in Procs : q # p => Same(q)
    BY <1>0, <2>1 DEF TypeOK, Same, PCs
  <2>3. TypeOK'
    BY <1>0, <2>1, <2>2 DEF TypeOK
  <2>4. ProcInv(p)'
    <3>1. (FilesSoFar(p) /\ OwnFilesHaveContents(p) /\ OwnContents(p) /\ FoundIsCurrent(p))'
      BY <1>0, <2>1, <2>2
         DEF ProcInv, FilesSoFar, OwnFilesHaveContents, OwnContents, FoundIsCurrent, Rpm, Adding
    <3>2. (OwnsRpm(p) /\ WritesInLoad(p) /\ IdIsFresh(p) /\ OwnsSet(p))'
      BY <1>0, <2>1, <2>2
         DEF ProcInv, OwnsRpm, WritesInLoad, IdIsFresh, OwnsSet, Loading, Adding, Setting, Rpm
    <3> QED BY <1>0, <2>1, <3>1, <3>2 DEF ProcInv
  <2>5. ASSUME NEW q \in Procs, q # p
        PROVE  Apart(p, q)' /\ (txn[q].package # 0 => txn[q].package \notin ids'[p])
    BY <2>1, <2>5 DEF IInv, Apart, ProcInv, IdIsFresh
  <2> QED BY <2>1, <2>2, <2>3, <2>4, <2>5, LocalStep
<1> QED BY <1>1, <1>2

(* The command returns.                                                    *)
LEMMA EndStep == ASSUME IInv, NEW p \in Procs, End(p) PROVE IInv'
<1>0. TypeOK /\ ProcInv(p) /\ pc[p] = "end"
  BY DEF IInv, End, At
<1>1. Empty(p)
  BY <1>0 DEF Empty, ProcInv, WritesInLoad, Adding
<1>2. /\ UNCHANGED <<db, lost, expire, asked, txn, cmd, todo, failure, entry, found, old, counters>>
      /\ ids' = [ids EXCEPT ![p] = {}] /\ pc' = [pc EXCEPT ![p] = "idle"]
  BY DEF End, Goto, server, place
<1>3. /\ ids' \in [Procs -> SUBSET Nat] /\ pc' \in [Procs -> PCs]
      /\ ids'[p] = {} /\ pc'[p] = "idle" /\ \A q \in Procs : q # p => Same(q)
  BY <1>0, <1>2 DEF TypeOK, Same, PCs
<1>4. TypeOK'
  BY <1>0, <1>2, <1>3 DEF TypeOK
<1>5. ProcInv(p)'
  <2>1. (FilesSoFar(p) /\ OwnFilesHaveContents(p) /\ OwnContents(p) /\ FoundIsCurrent(p))'
    BY <1>1, <1>2, <1>3 DEF Empty, FilesSoFar, OwnFilesHaveContents, OwnContents, FoundIsCurrent
  <2>2. (OwnsRpm(p) /\ WritesInLoad(p) /\ OwnsSet(p) /\ IdIsFresh(p))'
    BY <1>1, <1>2, <1>3
       DEF Empty, OwnsRpm, WritesInLoad, OwnsSet, IdIsFresh, Loading, Adding, Setting
  <2> QED BY <1>0, <1>2, <2>1, <2>2 DEF ProcInv
<1>6. ASSUME NEW q \in Procs, q # p
      PROVE  Apart(p, q)' /\ (txn[q].package # 0 => txn[q].package \notin ids'[p])
  BY <1>2, <1>3, <1>6 DEF IInv, Apart
<1> QED BY <1>2, <1>3, <1>4, <1>5, <1>6, LocalStep

-----------------------------------------------------------------------------
(* do_create_set and do_update_set: a transaction that writes members      *)
(* writes neither packages nor files.                                      *)
LEMMA SettingStep ==
  ASSUME IInv, NEW p \in Procs,
         pc' \in [Procs -> PCs], pc'[p] \in Setting,
         txn' \in [Procs -> TxnType], Empty(p)', old' \in [Procs -> SUBSET Nat],
         UNCHANGED <<server, job, entry, found, counters>>,
         OwnsSet(p)',
         \A q \in Procs : q # p =>
           /\ pc'[q] = pc[q] /\ txn'[q] = txn[q] /\ old'[q] = old[q]
           /\ txn'[p].lock # None => txn'[p].lock # txn[q].lock
           /\ txn'[p].created # None => txn'[p].created # txn[q].created
  PROVE  IInv'
<1>0. TypeOK /\ ProcInv(p)
  BY DEF IInv
<1>1. /\ \A q \in Procs : q # p => Same(q)
      /\ UNCHANGED <<db, lost, expire, asked, cmd, todo, ids, failure, entry, found, counters>>
  BY DEF Same, server, job
<1>2. TypeOK'
  BY <1>0, <1>1 DEF TypeOK
<1>3. ProcInv(p)'
  <2>1. (FilesSoFar(p) /\ OwnFilesHaveContents(p) /\ OwnContents(p) /\ FoundIsCurrent(p))'
    BY <1>1 DEF Setting, Empty, FilesSoFar, OwnFilesHaveContents, OwnContents, FoundIsCurrent
  <2>2. (OwnsRpm(p) /\ WritesInLoad(p))'
    BY <1>1 DEF OwnsRpm, WritesInLoad, Loading, Adding, Setting, Empty
  <2>3. IdIsFresh(p)'
    BY <1>0, <1>1 DEF ProcInv, IdIsFresh, Empty
  <2> QED BY <1>0, <1>1, <2>1, <2>2, <2>3 DEF ProcInv
<1>4. ASSUME NEW q \in Procs, q # p
      PROVE  Apart(p, q)' /\ (txn[q].package # 0 => txn[q].package \notin ids'[p])
  BY <1>1, <1>4 DEF IInv, Apart, ProcInv, IdIsFresh, Same, Empty
<1> QED BY <1>1, <1>2, <1>3, <1>4, LocalStep

(* The statements of do_create_set and do_update_set before the COMMIT.    *)
LEMMA SetSteps ==
  ASSUME IInv, NEW p \in Procs, CreateSet(p) \/ LockSet(p) \/ ReadSet(p) \/ WriteSet(p)
  PROVE  IInv'
<1> USE Constants
<1> DEFINE s == cmd[p].set
           t == txn[p]
<1>0. /\ TypeOK /\ ProcInv(p) /\ Empty(p) /\ txn[p] \in TxnType /\ old \in [Procs -> SUBSET Nat]
      /\ cmd[p].set \in Sets /\ db.member[cmd[p].set] \in SUBSET Nat
      /\ pc \in [Procs -> PCs] /\ txn \in [Procs -> TxnType]
      /\ OwnsSet(p) /\ pc[p] \in {"create_set", "lock_set", "read_set", "write_set"}
  <2>1. TypeOK /\ ProcInv(p) /\ pc[p] \in {"create_set", "lock_set", "read_set", "write_set"}
    BY DEF IInv, CreateSet, LockSet, ReadSet, WriteSet, At
  <2>2. Empty(p) /\ OwnsSet(p)
    BY <2>1 DEF ProcInv, WritesInLoad, Empty, Adding
  <2>3. cmd[p].set \in Sets
    BY <2>1, <2>2 DEF OwnsSet, Setting
  <2> QED BY <2>1, <2>2, <2>3 DEF TypeOK, DbType
<1>1. ASSUME NEW q \in Procs, q # p
      PROVE  /\ t.lock # None => t.lock # txn[q].lock
             /\ t.created # None => t.created # txn[q].created
  BY <1>1 DEF IInv, Apart
<1>2. CASE CreateSet(p)
  <2>1. CASE Fail(p, "set")
    BY <1>2, <2>1, FailStep DEF CreateSet
  <2>2. CASE ~Fail(p, "set")
    <3>1. /\ UNCHANGED <<server, job, place, counters>> /\ cmd[p].set \notin db.sets
          /\ pc[p] = "create_set" /\ pc' = [pc EXCEPT ![p] = "read_set"]
          /\ txn' = [txn EXCEPT ![p] = [@ EXCEPT !.created = s]]
          /\ \A q \in Procs : q # p => txn[q].created # s
      BY <1>2, <2>2 DEF CreateSet, Goto, At, Others
    <3> DEFINE r == [t EXCEPT !.created = s]
    <3>2. /\ r \in TxnType /\ r.package = 0 /\ r.file = {} /\ r.inserted = {} /\ r.full = {}
          /\ r.formats = {} /\ r.lock = t.lock /\ r.created = s
      BY <1>0 DEF TxnType, Empty
    <3>3. txn' = [txn EXCEPT ![p] = r]
      BY <3>1
    <3> HIDE DEF r
    <3>4. txn' \in [Procs -> TxnType] /\ txn'[p] = r /\ \A q \in Procs : q # p => txn'[q] = txn[q]
      BY <1>0, <3>2, <3>3
    <3>5. /\ pc' \in [Procs -> PCs] /\ pc'[p] = "read_set"
          /\ \A q \in Procs : q # p => pc'[q] = pc[q]
      BY <1>0, <3>1 DEF PCs
    <3>6. OwnsSet(p)'
      BY <1>0, <3>1, <3>2, <3>4, <3>5 DEF OwnsSet, Setting, server, job
    <3>7. Empty(p)' /\ UNCHANGED <<server, job, entry, found, old, counters>> /\ pc'[p] \in Setting
      BY <3>1, <3>2, <3>4, <3>5 DEF Empty, place, Setting
    <3>8. \A q \in Procs : q # p => /\ txn'[p].lock # None => txn'[p].lock # txn[q].lock
                                    /\ txn'[p].created # None => txn'[p].created # txn[q].created
      BY <1>1, <3>1, <3>2, <3>4
    <3> QED BY <1>0, <3>4, <3>5, <3>6, <3>7, <3>8, SettingStep
  <2> QED BY <2>1, <2>2
<1>3. CASE LockSet(p)
  <2>1. /\ UNCHANGED <<server, job, place, counters>>
        /\ pc[p] = "lock_set" /\ pc' = [pc EXCEPT ![p] = "read_set"]
        /\ txn' = [txn EXCEPT ![p] = [@ EXCEPT !.lock = s]]
        /\ \A q \in Procs : q # p => txn[q].lock # s
    BY <1>3 DEF LockSet, Goto, At, Others
  <2> DEFINE r == [t EXCEPT !.lock = s]
  <2>2. /\ r \in TxnType /\ r.package = 0 /\ r.file = {} /\ r.inserted = {} /\ r.full = {}
        /\ r.formats = {} /\ r.lock = s /\ r.created = t.created
    BY <1>0 DEF TxnType, Empty
  <2>3. txn' = [txn EXCEPT ![p] = r]
    BY <2>1
  <2> HIDE DEF r
  <2>4. txn' \in [Procs -> TxnType] /\ txn'[p] = r /\ \A q \in Procs : q # p => txn'[q] = txn[q]
    BY <1>0, <2>2, <2>3
  <2>5. /\ pc' \in [Procs -> PCs] /\ pc'[p] = "read_set"
        /\ \A q \in Procs : q # p => pc'[q] = pc[q]
    BY <1>0, <2>1 DEF PCs
  <2>6. OwnsSet(p)'
    BY <1>0, <2>1, <2>2, <2>4, <2>5 DEF OwnsSet, Setting, server, job
  <2>7. Empty(p)' /\ UNCHANGED <<server, job, entry, found, old, counters>> /\ pc'[p] \in Setting
    BY <2>1, <2>2, <2>4, <2>5 DEF Empty, place, Setting
  <2>8. \A q \in Procs : q # p => /\ txn'[p].lock # None => txn'[p].lock # txn[q].lock
                                  /\ txn'[p].created # None => txn'[p].created # txn[q].created
    BY <1>1, <2>1, <2>2, <2>4
  <2> QED BY <1>0, <2>4, <2>5, <2>6, <2>7, <2>8, SettingStep
<1>4. CASE ReadSet(p)
  <2>1. /\ UNCHANGED <<server, job, txn, entry, found, counters>>
        /\ pc[p] = "read_set" /\ pc' = [pc EXCEPT ![p] = "write_set"]
        /\ old' = [old EXCEPT ![p] = db.member[s]]
    BY <1>4 DEF ReadSet, Goto, At
  <2>2. /\ old' \in [Procs -> SUBSET Nat] /\ old'[p] = db.member[s]
        /\ \A q \in Procs : q # p => old'[q] = old[q]
    BY <1>0, <2>1
  <2>3. /\ pc' \in [Procs -> PCs] /\ pc'[p] = "write_set"
        /\ \A q \in Procs : q # p => pc'[q] = pc[q]
    BY <1>0, <2>1 DEF PCs
  <2>4. OwnsSet(p)'
    BY <1>0, <2>1, <2>2, <2>3 DEF OwnsSet, Setting, server, job
  <2>5. Empty(p)' /\ pc'[p] \in Setting /\ txn' \in [Procs -> TxnType] /\ txn' = txn
    BY <1>0, <2>1, <2>3 DEF Empty, Setting
  <2>6. UNCHANGED <<server, job, entry, found, counters>>
    BY <2>1
  <2> QED BY <1>1, <2>2, <2>3, <2>4, <2>5, <2>6, SettingStep
<1>5. CASE WriteSet(p)
  <2>1. CASE Fail(p, "gone")
    BY <1>5, <2>1, FailStep DEF WriteSet
  <2>2. CASE ~Fail(p, "gone")
    <3>1. /\ UNCHANGED <<server, job, place, counters>>
          /\ pc[p] = "write_set" /\ pc' = [pc EXCEPT ![p] = "commit_set"]
          /\ txn' = [txn EXCEPT ![p] = [@ EXCEPT !.member = ids[p] \ old[p]]]
      BY <1>5, <2>2 DEF WriteSet, Goto, At, Difference
    <3> DEFINE r == [t EXCEPT !.member = ids[p] \ old[p]]
    <3>2. ids[p] \ old[p] \in SUBSET Nat
      BY <1>0 DEF TypeOK
    <3>3. /\ r \in TxnType /\ r.package = 0 /\ r.file = {} /\ r.inserted = {} /\ r.full = {}
          /\ r.formats = {} /\ r.lock = t.lock /\ r.created = t.created
      BY <1>0, <3>2 DEF TxnType, Empty
    <3>4. txn' = [txn EXCEPT ![p] = r]
      BY <3>1
    <3> HIDE DEF r
    <3>5. txn' \in [Procs -> TxnType] /\ txn'[p] = r /\ \A q \in Procs : q # p => txn'[q] = txn[q]
      BY <1>0, <3>3, <3>4
    <3>6. /\ pc' \in [Procs -> PCs] /\ pc'[p] = "commit_set"
          /\ \A q \in Procs : q # p => pc'[q] = pc[q]
      BY <1>0, <3>1 DEF PCs
    <3>7. OwnsSet(p)'
      BY <1>0, <3>1, <3>3, <3>5, <3>6 DEF OwnsSet, Setting, server, job, place
    <3>8. Empty(p)' /\ UNCHANGED <<server, job, entry, found, old, counters>> /\ pc'[p] \in Setting
      BY <3>1, <3>3, <3>5, <3>6 DEF Empty, place, Setting
    <3>9. \A q \in Procs : q # p => /\ txn'[p].lock # None => txn'[p].lock # txn[q].lock
                                    /\ txn'[p].created # None => txn'[p].created # txn[q].created
      BY <1>1, <3>3, <3>5
    <3> QED BY <1>0, <3>5, <3>6, <3>7, <3>8, <3>9, SettingStep
  <2> QED BY <2>1, <2>2
<1> QED BY <1>2, <1>3, <1>4, <1>5

-----------------------------------------------------------------------------
(* The statements of rpm_load that write.                                  *)

(* The INSERT of intern_package: the lock of the RPM rules out a unique    *)
(* violation, and the ID of the new row has not been used.                 *)
LEMMA InsertPackageStep == ASSUME IInv, NEW p \in Procs, InsertPackage(p) PROVE IInv'
<1> USE Constants
<1>0. TypeOK /\ ProcInv(p) /\ pc[p] = "insert_package" /\ DbInv(db)
  BY DEF IInv, InsertPackage, At
<1>1. /\ Empty(p) /\ todo[p] # <<>> /\ Rpm(p) \in Rpms /\ db.package[Rpm(p)] = 0
      /\ txn[p].lock = Rpm(p)
  BY <1>0 DEF Empty, ProcInv, WritesInLoad, OwnsRpm, Adding, Loading, TypeOK, Rpm
<1> DEFINE id == counters.id + 1
           where == IF FilesOf[Rpm(p)] = <<>> THEN "digest" ELSE "select"
           r == [txn[p] EXCEPT !.package = id]
           c == [counters EXCEPT !.id = id]
<1>2. /\ UNCHANGED <<db, lost, expire, asked, cmd, todo, ids, failure, found, old>>
      /\ txn' = [txn EXCEPT ![p] = r] /\ counters' = c
      /\ entry' = [entry EXCEPT ![p] = 1]
      /\ pc' = [pc EXCEPT ![p] = where]
  BY <1>1 DEF InsertPackage, Goto, server, job
<1>3. /\ c \in [id : Nat, runs : Nat, expires : Nat, crashes : Nat] /\ c.id = id
      /\ id \in Nat /\ id # 0 /\ counters.id \in Nat
  <2>1. counters \in [id : Nat, runs : Nat, expires : Nat, crashes : Nat]
    BY <1>0 DEF TypeOK
  <2> QED BY <2>1
<1> HIDE DEF id
<1>4. /\ r \in TxnType /\ r.package = id /\ r.file = {} /\ r.inserted = {} /\ r.full = {}
      /\ r.formats = {} /\ r.created = txn[p].created /\ r.lock = Rpm(p)
  <2>1. txn[p] \in TxnType
    BY <1>0 DEF TypeOK
  <2> QED BY <1>1, <1>3, <2>1 DEF TxnType, Empty
<1>5. \/ where = "select" /\ 1 \in DOMAIN FilesOf[Rpm(p)]
      \/ where = "digest" /\ DOMAIN FilesOf[Rpm(p)] = {}
  <2>1. FilesOf[Rpm(p)] \in Seq(File)
    BY <1>1, RpmStoreAssumption
  <2> QED BY <2>1, EmptySeq, LenProperties
<1> HIDE DEF r, c, where
<1>6. /\ txn' \in [Procs -> TxnType] /\ txn'[p] = r
      /\ entry' \in [Procs -> Nat] /\ entry'[p] = 1
      /\ pc' \in [Procs -> PCs] /\ pc'[p] = where
      /\ \A q \in Procs : q # p => Same(q)
  <2>1. txn \in [Procs -> TxnType] /\ entry \in [Procs -> Nat] /\ pc \in [Procs -> PCs]
    BY <1>0 DEF TypeOK
  <2>2. where \in PCs
    BY <1>5 DEF PCs
  <2> QED BY <1>2, <1>4, <2>1, <2>2 DEF Same
<1>7. TypeOK'
  BY <1>0, <1>2, <1>3, <1>6 DEF TypeOK
<1>8. ProcInv(p)'
  <2>1. (OwnFilesHaveContents(p) /\ OwnContents(p) /\ FoundIsCurrent(p))'
    BY <1>4, <1>5, <1>6 DEF OwnFilesHaveContents, OwnContents, FoundIsCurrent
  <2>2. FilesSoFar(p)'
    BY <1>1, <1>2, <1>5, <1>6 DEF FilesSoFar, Rpm, Adding
  <2>3. (OwnsRpm(p) /\ WritesInLoad(p) /\ OwnsSet(p))'
    BY <1>0, <1>1, <1>2, <1>3, <1>4, <1>5, <1>6
       DEF ProcInv, OwnsRpm, WritesInLoad, OwnsSet, Loading, Adding, Setting, Rpm
  <2>4. IdIsFresh(p)'
    <3>1. /\ \A x \in Rpms : db.package[x] \in Nat /\ db.package[x] <= counters.id
          /\ \A s \in Sets : \A i \in db.member[s] : i \in Nat /\ i <= counters.id
          /\ \A q \in Procs : \A i \in ids[q] : i \in Nat /\ i <= counters.id
      BY <1>0 DEF IInv, DbInv, IdsUsed, ProcInv, IdIsFresh, TypeOK, DbType
    <3> QED BY <1>2, <1>3, <1>4, <1>6, <3>1 DEF IdIsFresh, id
  <2> QED BY <1>0, <1>2, <2>1, <2>2, <2>3, <2>4 DEF ProcInv
<1>9. ASSUME NEW q \in Procs, q # p
      PROVE  Apart(p, q)' /\ (txn[q].package # 0 => txn[q].package \notin ids'[p])
  <2>1. txn[q].package \in Nat /\ (txn[q].package # 0 => txn[q].package <= counters.id)
    BY <1>0, <1>9 DEF IInv, ProcInv, IdIsFresh, TypeOK, TxnType
  <2>2. txn'[q] = txn[q] /\ txn[p].lock # txn[q].lock
    BY <1>1, <1>6, <1>9 DEF Same, IInv, Apart
  <2>3. Apart(p, q)'
    BY <1>1, <1>3, <1>4, <1>6, <1>9, <2>1, <2>2 DEF Apart, id, IInv
  <2> QED BY <1>2, <1>9, <2>3 DEF IInv, ProcInv, IdIsFresh
<1> QED BY <1>2, <1>3, <1>6, <1>7, <1>8, <1>9, LocalStep DEF id

(* What holds while the files of a package are added.                      *)
LEMMA AddingFacts ==
  ASSUME IInv, NEW p \in Procs, pc[p] \in Adding
  PROVE  /\ TypeOK /\ ProcInv(p) /\ todo[p] # <<>> /\ Rpm(p) \in Rpms
         /\ entry[p] \in DOMAIN FilesOf[Rpm(p)] /\ Content(p) \in Contents
         /\ Entry(p).names \in Seq(Names) /\ ToSet(Entry(p).names) \subseteq Names
         /\ ToSet(Entry(p).names) # {}
         /\ txn[p] \in TxnType /\ txn[p].package # 0
<1>1. TypeOK /\ ProcInv(p)
  BY DEF IInv
<1>2. /\ todo[p] # <<>> /\ Rpm(p) \in Rpms /\ entry[p] \in DOMAIN FilesOf[Rpm(p)]
      /\ txn[p].package # 0 /\ txn[p] \in TxnType
  BY <1>1 DEF ProcInv, OwnsRpm, WritesInLoad, Loading, TypeOK, Rpm
<1> QED BY <1>1, <1>2, Constants DEF Content, Entry

(* The SELECT of intern_file_contents.                                     *)
LEMMA SelectContentsStep == ASSUME IInv, NEW p \in Procs, SelectContents(p) PROVE IInv'
<1> USE Constants
<1>0. pc[p] = "select"
  BY DEF SelectContents, At
<1>1. /\ TypeOK /\ ProcInv(p) /\ Rpm(p) \in Rpms /\ Content(p) \in Contents
      /\ txn[p] \in TxnType /\ txn[p].package # 0 /\ todo[p] # <<>>
      /\ entry[p] \in DOMAIN FilesOf[Rpm(p)]
  BY <1>0, AddingFacts DEF Adding
<1> DEFINE c == Content(p)
           row == [preview |-> Preview(p, c), cid |-> db.cid[c]]
<1>2. /\ UNCHANGED <<db, lost, expire, asked, txn, cmd, todo, ids, failure, entry, old, counters>>
      /\ \/ found' = [found EXCEPT ![p] = NotFound] /\ pc' = [pc EXCEPT ![p] = "insert"]
         \/ /\ Preview(p, c) # None
            /\ found' = [found EXCEPT ![p] = row] /\ pc' = [pc EXCEPT ![p] = "file"]
  BY DEF SelectContents, Goto, server, job
<1>3. /\ row \in [preview : PreviewType, cid : Nat] /\ row.preview = Preview(p, c)
      /\ row.cid = db.cid[c] /\ NotFound \in [preview : PreviewType, cid : Nat]
      /\ NotFound.preview = None
  BY <1>1 DEF TypeOK, DbType, PreviewType, NotFound, Preview
<1> HIDE DEF c, row
<1>4. /\ found' \in [Procs -> [preview : PreviewType, cid : Nat]] /\ pc' \in [Procs -> PCs]
      /\ \A q \in Procs : q # p => Same(q)
      /\ \/ pc'[p] = "insert"
         \/ pc'[p] = "file" /\ found'[p] = row /\ Preview(p, c) # None
      /\ pc'[p] = "insert" => found'[p] = NotFound
  <2>1. /\ found \in [Procs -> [preview : PreviewType, cid : Nat]] /\ pc \in [Procs -> PCs]
    BY <1>1 DEF TypeOK
  <2>2. CASE found' = [found EXCEPT ![p] = NotFound] /\ pc' = [pc EXCEPT ![p] = "insert"]
    BY <1>2, <1>3, <2>1, <2>2 DEF Same, PCs
  <2>3. CASE /\ Preview(p, c) # None
             /\ found' = [found EXCEPT ![p] = row] /\ pc' = [pc EXCEPT ![p] = "file"]
    BY <1>2, <1>3, <2>1, <2>3 DEF Same, PCs
  <2> QED BY <1>2, <2>2, <2>3
<1>5. TypeOK'
  BY <1>1, <1>2, <1>4 DEF TypeOK
<1>6. ProcInv(p)'
  <2>1. (OwnFilesHaveContents(p) /\ OwnContents(p))'
    BY <1>0, <1>1, <1>2, <1>4 DEF ProcInv, OwnFilesHaveContents, OwnContents
  <2>2. FilesSoFar(p)'
    BY <1>0, <1>1, <1>2, <1>4 DEF ProcInv, FilesSoFar, Rpm, Adding
  <2>3. (OwnsRpm(p) /\ WritesInLoad(p) /\ OwnsSet(p) /\ IdIsFresh(p))'
    BY <1>0, <1>1, <1>2, <1>4
       DEF ProcInv, OwnsRpm, WritesInLoad, OwnsSet, IdIsFresh, Loading, Adding, Setting, Rpm
  <2>4. FoundIsCurrent(p)'
    <3>1. CASE pc'[p] = "insert"
      BY <1>4, <3>1 DEF FoundIsCurrent
    <3>2. CASE found'[p] = row /\ Preview(p, c) # None
      <4>1. Content(p)' = c
        BY <1>2 DEF Content, Entry, Rpm, c
      <4>2. found'[p] # NotFound /\ found'[p].preview # None
        BY <1>3, <3>2
      <4>3. db.cid[c] \in Nat /\ db.cid[c] <= db.cid[c]
        BY <1>1 DEF TypeOK, DbType, c
      <4>4. /\ c \in txn[p].inserted => (row.preview = "full" => c \in txn[p].full)
            /\ c \notin txn[p].inserted =>
                 /\ c \notin txn[p].full => db.preview[c] = row.preview
        BY <1>3 DEF Preview
      <4>5. c \notin txn[p].inserted /\ c \in txn[p].full => db.preview[c] # None
        BY <1>1 DEF ProcInv, OwnContents, OwnFilesHaveContents, Referenced
      <4> QED BY <1>2, <1>3, <1>4, <3>2, <4>1, <4>2, <4>3, <4>4, <4>5 DEF FoundIsCurrent
    <3> QED BY <1>4, <3>1, <3>2
  <2> QED BY <1>1, <1>2, <2>1, <2>2, <2>3, <2>4 DEF ProcInv
<1>7. ASSUME NEW q \in Procs, q # p
      PROVE  Apart(p, q)' /\ (txn[q].package # 0 => txn[q].package \notin ids'[p])
  BY <1>2, <1>7 DEF IInv, Apart, ProcInv, IdIsFresh
<1> QED BY <1>2, <1>4, <1>5, <1>6, <1>7, LocalStep

(* A step that adds to the transaction of rpm_load.                        *)
LEMMA AddingStep ==
  ASSUME IInv, NEW p \in Procs, pc[p] \in Adding,
         UNCHANGED <<server, job, found, old, counters>>,
         txn' \in [Procs -> TxnType], pc' \in [Procs -> PCs], entry' \in [Procs -> Nat],
         txn'[p].package = txn[p].package, txn'[p].lock = txn[p].lock,
         txn'[p].created = txn[p].created,
         pc'[p] \in Adding \cup {"digest"},
         pc'[p] \in Adding => entry'[p] \in DOMAIN FilesOf[Rpm(p)],
         \A q \in Procs : q # p =>
           /\ pc'[q] = pc[q] /\ txn'[q] = txn[q] /\ entry'[q] = entry[q]
           /\ txn'[p].inserted \cap txn[q].inserted = {},
         FilesSoFar(p)', OwnFilesHaveContents(p)', OwnContents(p)', FoundIsCurrent(p)'
  PROVE  IInv'
<1>0. TypeOK /\ ProcInv(p)
  BY DEF IInv
<1>1. /\ \A q \in Procs : q # p => Same(q)
      /\ UNCHANGED <<db, lost, expire, asked, cmd, todo, ids, failure, found, old, counters>>
  BY DEF Same, server, job
<1>2. TypeOK'
  BY <1>0, <1>1 DEF TypeOK
<1>3. ProcInv(p)'
  <2>1. (OwnsRpm(p) /\ WritesInLoad(p))'
    BY <1>0, <1>1 DEF ProcInv, OwnsRpm, WritesInLoad, Loading, Adding, Rpm
  <2>2. (OwnsSet(p) /\ IdIsFresh(p))'
    BY <1>0, <1>1 DEF ProcInv, OwnsSet, IdIsFresh, Adding, Setting
  <2> QED BY <1>0, <1>1, <2>1, <2>2 DEF ProcInv
<1>4. ASSUME NEW q \in Procs, q # p
      PROVE  Apart(p, q)' /\ (txn[q].package # 0 => txn[q].package \notin ids'[p])
  BY <1>1, <1>4 DEF IInv, Apart, ProcInv, IdIsFresh
<1> QED BY <1>1, <1>2, <1>3, <1>4, LocalStep

(* read_file: the next file, or all have been read.                        *)
LEMMA NextEntryFacts ==
  ASSUME IInv, NEW p \in Procs, pc[p] \in Adding, NextEntry(p)
  PROVE  /\ pc' \in [Procs -> PCs] /\ entry' \in [Procs -> Nat]
         /\ \A q \in Procs : q # p => pc'[q] = pc[q] /\ entry'[q] = entry[q]
         /\ \/ /\ pc'[p] = "select" /\ entry'[p] = entry[p] + 1
               /\ entry'[p] \in DOMAIN FilesOf[Rpm(p)]
            \/ /\ pc'[p] = "digest"
               /\ \A k \in DOMAIN FilesOf[Rpm(p)] : k <= entry[p]
<1>1. /\ Rpm(p) \in Rpms /\ entry[p] \in DOMAIN FilesOf[Rpm(p)]
      /\ pc \in [Procs -> PCs] /\ entry \in [Procs -> Nat]
  BY AddingFacts DEF TypeOK
<1>2. DOMAIN FilesOf[Rpm(p)] = 1..Len(FilesOf[Rpm(p)]) /\ Len(FilesOf[Rpm(p)]) \in Nat
  BY <1>1, Constants
<1>3. CASE entry[p] < Len(FilesOf[Rpm(p)])
  <2>1. entry' = [entry EXCEPT ![p] = entry[p] + 1] /\ pc' = [pc EXCEPT ![p] = "select"]
    BY <1>3 DEF NextEntry, Goto
  <2> QED BY <1>1, <1>2, <1>3, <2>1 DEF PCs
<1>4. CASE ~(entry[p] < Len(FilesOf[Rpm(p)]))
  <2>1. entry' = entry /\ pc' = [pc EXCEPT ![p] = "digest"]
    BY <1>4 DEF NextEntry, Goto
  <2> QED BY <1>1, <1>2, <1>4, <2>1 DEF PCs
<1> QED BY <1>3, <1>4

(* The INSERT of intern_file_contents waits until no other transaction has *)
(* inserted the row, and fails if the row is there then.                   *)
LEMMA InsertContentsStep == ASSUME IInv, NEW p \in Procs, InsertContents(p) PROVE IInv'
<1> USE Constants
<1>0. pc[p] = "insert" /\ pc[p] \in Adding
  BY DEF InsertContents, At, Adding
<1>1. /\ TypeOK /\ ProcInv(p) /\ Rpm(p) \in Rpms /\ Content(p) \in Contents
      /\ txn[p] \in TxnType /\ entry[p] \in DOMAIN FilesOf[Rpm(p)] /\ found[p] = NotFound
  BY <1>0, AddingFacts DEF ProcInv, FoundIsCurrent
<1>2. CASE Fail(p, "contents")
  BY <1>2, FailStep DEF InsertContents
<1>3. CASE ~Fail(p, "contents")
  <2> DEFINE c == Content(p)
             full == IF WantedPreview(Entry(p)) = "full" THEN txn[p].full \cup {c} ELSE txn[p].full
             r == [txn[p] EXCEPT !.inserted = @ \cup {c},
                                 !.full = IF WantedPreview(Entry(p)) = "full"
                                          THEN @ \cup {c} ELSE @]
  <2>1. /\ UNCHANGED <<server, job, entry, found, old, counters>>
        /\ db.preview[c] = None
        /\ \A q \in Procs : q # p => c \notin txn[q].inserted
        /\ pc' = [pc EXCEPT ![p] = "file"]
        /\ txn' = [txn EXCEPT ![p] = r]
    <3>1. db.preview[c] = None
      BY <1>3 DEF InsertContents
    <3>2. txn' = [txn EXCEPT ![p] = r] /\ pc' = [pc EXCEPT ![p] = "file"]
      BY <3>1 DEF InsertContents, Goto
    <3> QED BY <3>1, <3>2 DEF InsertContents, place, Others, HoldsContents
  <2>2. /\ r \in TxnType /\ r.package = txn[p].package /\ r.file = txn[p].file
        /\ r.inserted = txn[p].inserted \cup {c} /\ r.full = full
        /\ r.formats = txn[p].formats /\ r.created = txn[p].created /\ r.lock = txn[p].lock
    BY <1>1 DEF TxnType
  <2>3. /\ txn[p].full \subseteq full /\ full \subseteq txn[p].full \cup {c}
        /\ WantedPreview(Entry(p)) = "full" => c \in full
    OBVIOUS
  <2> HIDE DEF r, full
  <2>4. /\ txn' \in [Procs -> TxnType] /\ pc' \in [Procs -> PCs] /\ entry' = entry
        /\ txn'[p] = r /\ pc'[p] = "file"
        /\ \A q \in Procs : q # p => pc'[q] = pc[q] /\ txn'[q] = txn[q]
    <3>1. txn \in [Procs -> TxnType] /\ pc \in [Procs -> PCs]
      BY <1>1 DEF TypeOK
    <3> QED BY <2>1, <2>2, <3>1 DEF PCs
  <2>5. /\ Rpm(p)' = Rpm(p) /\ Content(p)' = c /\ Entry(p)' = Entry(p)
        /\ WantedPreview(Entry(p))' = WantedPreview(Entry(p)) /\ UNCHANGED <<db, found, entry>>
    BY <2>1 DEF Content, Entry, Rpm, server, job, WantedPreview
  <2> HIDE DEF c
  <2>6. FilesSoFar(p)'
    BY <1>0, <1>1, <2>2, <2>4, <2>5 DEF ProcInv, FilesSoFar, Adding
  <2>7. OwnFilesHaveContents(p)'
    <3>1. ASSUME NEW f \in txn[p].file
          PROVE  /\ f.package = txn'[p].package
                 /\ f.content \in txn'[p].inserted \/ db.preview[f.content] # None
                 /\ f.name \in KeepFull =>
                      \/ f.content \in txn'[p].full
                      \/ f.content \notin txn'[p].inserted /\ db.preview[f.content] = "full"
      <4>1. /\ f.package = txn[p].package
            /\ f.content \in txn[p].inserted \/ db.preview[f.content] # None
            /\ f.name \in KeepFull =>
                 \/ f.content \in txn[p].full
                 \/ f.content \notin txn[p].inserted /\ db.preview[f.content] = "full"
        BY <1>0, <1>1 DEF ProcInv, OwnFilesHaveContents
      <4> QED BY <2>1, <2>2, <2>3, <2>4, <4>1
    <3> QED BY <2>2, <2>4, <2>5, <3>1 DEF OwnFilesHaveContents
  <2>8. OwnContents(p)'
    BY <1>0, <1>1, <2>1, <2>2, <2>3, <2>4, <2>5 DEF ProcInv, OwnContents
  <2>9. FoundIsCurrent(p)'
    BY <1>1, <2>2, <2>3, <2>4, <2>5 DEF FoundIsCurrent
  <2>10. \A q \in Procs : q # p => txn'[p].inserted \cap txn[q].inserted = {}
    BY <2>1, <2>2, <2>4 DEF IInv, Apart
  <2>11. /\ txn'[p].package = txn[p].package /\ txn'[p].lock = txn[p].lock
         /\ txn'[p].created = txn[p].created /\ pc'[p] \in Adding
         /\ entry' \in [Procs -> Nat] /\ entry'[p] \in DOMAIN FilesOf[Rpm(p)]
         /\ UNCHANGED <<server, job, found, old, counters>>
    BY <1>1, <2>1, <2>2, <2>4 DEF Adding, TypeOK
  <2> QED BY <1>0, <2>4, <2>6, <2>7, <2>8, <2>9, <2>10, <2>11, AddingStep
<1> QED BY <1>2, <1>3

(* add_file and the analysis.  If the contents were found and not expired  *)
(* since, the file row keeps them; if their preview is too short, the      *)
(* update that makes it full comes next.                                   *)
LEMMA AddFilesStep == ASSUME IInv, NEW p \in Procs, AddFiles(p) PROVE IInv'
<1> USE Constants
<1>0. pc[p] = "file" /\ pc[p] \in Adding
  BY DEF AddFiles, At, Adding
<1> DEFINE c == Content(p)
           t == txn[p]
           k0 == entry[p]
           wanted == WantedPreview(Entry(p))
           rows == RowsOf(Rpm(p), k0, t.package)
<1>1. /\ TypeOK /\ ProcInv(p) /\ Rpm(p) \in Rpms /\ c \in Contents
      /\ t \in TxnType /\ t.package # 0 /\ k0 \in DOMAIN FilesOf[Rpm(p)]
      /\ ToSet(Entry(p).names) \subseteq Names /\ ToSet(Entry(p).names) # {}
  BY <1>0, AddingFacts
<1>2. CASE Fail(p, "expired")
  BY <1>2, FailStep DEF AddFiles
<1>3. CASE ~Fail(p, "expired")
  <2> DEFINE r == WithFiles(p)
  <2>1. /\ UNCHANGED <<server, job, found, old, counters>>
        /\ found[p] = NotFound \/ found[p].cid = db.cid[c]
        /\ txn' = [txn EXCEPT ![p] = r]
        /\ \/ /\ found[p].preview = "short" /\ wanted = "full"
              /\ pc' = [pc EXCEPT ![p] = "update"] /\ entry' = entry
           \/ ~(found[p].preview = "short" /\ wanted = "full") /\ NextEntry(p)
    BY <1>3 DEF AddFiles, Goto
  <2>2. /\ Analysed(p).formats = IF found[p] = NotFound /\ Binary(Rpm(p)) THEN {c} ELSE {}
        /\ Analysed(p).formats \subseteq {c} /\ Analysed(p).python \subseteq {c}
    BY DEF Analysed, Content
  <2>3. rows = {[package |-> txn[p].package, name |-> n, content |-> c] :
                  n \in ToSet(Entry(p).names)}
    BY DEF RowsOf, Content, Entry
  <2>4. rows \subseteq FileRow
    BY <1>1, <2>3 DEF FileRow, TxnType
  <2>5. /\ r \in TxnType /\ r.package = t.package /\ r.file = t.file \cup rows
        /\ r.inserted = t.inserted /\ r.full = t.full
        /\ r.formats = t.formats \cup Analysed(p).formats
        /\ r.created = t.created /\ r.lock = t.lock
    <3> DEFINE R == rows
    <3>1. r = [t EXCEPT !.file = @ \cup R, !.formats = @ \cup Analysed(p).formats,
                        !.python = @ \cup Analysed(p).python]
      BY <2>3 DEF WithFiles
    <3>2. R \subseteq FileRow
      BY <2>4
    <3> HIDE DEF R, r
    <3> QED BY <1>1, <2>2, <3>1, <3>2 DEF TxnType, R
  <2> HIDE DEF r
  <2>6. /\ txn' \in [Procs -> TxnType] /\ txn'[p] = r
        /\ \A q \in Procs : q # p => txn'[q] = txn[q]
    <3>1. txn \in [Procs -> TxnType]
      BY <1>1 DEF TypeOK
    <3> QED BY <2>1, <2>5, <3>1
  <2>7. /\ pc' \in [Procs -> PCs] /\ entry' \in [Procs -> Nat]
        /\ \A q \in Procs : q # p => pc'[q] = pc[q] /\ entry'[q] = entry[q]
        /\ \/ /\ pc'[p] = "update" /\ entry'[p] = k0 /\ found[p].preview = "short"
              /\ wanted = "full"
           \/ /\ pc'[p] = "select" /\ entry'[p] = k0 + 1
              /\ entry'[p] \in DOMAIN FilesOf[Rpm(p)]
              /\ ~(found[p].preview = "short" /\ wanted = "full")
           \/ /\ pc'[p] = "digest" /\ \A k \in DOMAIN FilesOf[Rpm(p)] : k <= k0
              /\ ~(found[p].preview = "short" /\ wanted = "full")
    <3>1. CASE NextEntry(p) /\ ~(found[p].preview = "short" /\ wanted = "full")
      BY <1>0, <3>1, NextEntryFacts
    <3>2. CASE /\ found[p].preview = "short" /\ wanted = "full"
               /\ pc' = [pc EXCEPT ![p] = "update"] /\ entry' = entry
      <4>1. entry \in [Procs -> Nat] /\ pc \in [Procs -> PCs]
        BY <1>1 DEF TypeOK
      <4> QED BY <3>2, <4>1 DEF PCs
    <3> QED BY <2>1, <3>1, <3>2
  <2>8. Rpm(p)' = Rpm(p) /\ UNCHANGED <<db, found>> /\ (pc'[p] = "update" => Content(p)' = c)
    BY <2>1, <2>7 DEF Rpm, Entry, Content, server, job
  <2>9. FilesSoFar(p)'
    <3>1. ASSUME NEW k \in DOMAIN FilesOf[Rpm(p)]
          PROVE  \/ pc'[p] \in Adding /\ (k > entry'[p] \/ (k = entry'[p] /\ pc'[p] # "update"))
                 \/ RowsOf(Rpm(p), k, r.package) \subseteq r.file
      <4>1. k > k0 \/ k = k0 \/ RowsOf(Rpm(p), k, t.package) \subseteq t.file
        BY <1>1 DEF ProcInv, FilesSoFar
      <4>2. k \in Nat /\ k0 \in Nat
        BY <1>1
      <4>3. k0 < k => pc'[p] \in Adding /\ (k > entry'[p] \/ (k = entry'[p] /\ pc'[p] # "update"))
        BY <2>7, <4>2 DEF Adding
      <4>4. k = k0 => RowsOf(Rpm(p), k, r.package) \subseteq r.file
        BY <2>5
      <4> QED BY <2>5, <4>1, <4>2, <4>3, <4>4
    <3> QED BY <2>6, <2>8, <3>1 DEF FilesSoFar
  <2>10. OwnFilesHaveContents(p)'
    <3>1. ASSUME NEW f \in t.file
          PROVE  /\ f.package = t.package
                 /\ f.content \in t.inserted \/ db.preview[f.content] # None
                 /\ f.name \in KeepFull =>
                      \/ f.content \in t.full
                      \/ f.content \notin t.inserted /\ db.preview[f.content] = "full"
      BY <1>0, <1>1 DEF ProcInv, OwnFilesHaveContents
    <3>2. FoundIsCurrent(p) /\ found[p].preview \in PreviewType
      BY <1>1 DEF ProcInv, TypeOK
    <3>3. c \in t.inserted \/ db.preview[c] # None
      BY <1>0, <2>1, <3>2 DEF FoundIsCurrent
    <3>4. wanted = "full" => \/ c \in t.full
                             \/ c \notin t.inserted /\ db.preview[c] = "full"
                             \/ pc'[p] = "update"
      BY <1>0, <2>1, <2>7, <3>2 DEF FoundIsCurrent, PreviewType, NotFound
    <3>5. ASSUME NEW f \in rows
          PROVE  f.package = t.package /\ f.content = c /\ (f.name \in KeepFull => wanted = "full")
      BY <2>3 DEF WantedPreview
    <3> HIDE DEF rows, wanted, c, t
    <3> QED BY <2>5, <2>6, <2>8, <3>1, <3>3, <3>4, <3>5 DEF OwnFilesHaveContents
  <2>11. OwnContents(p)'
    <3>1. ASSUME NEW d \in t.inserted
          PROVE  db.preview[d] = None /\ (d \in r.formats \/ InSource(d))
      <4>1. /\ db.preview[d] = None
            /\ d \in t.formats \/ InSource(d) \/ (found[p] = NotFound /\ d = c)
        BY <1>1 DEF ProcInv, OwnContents
      <4>2. ~Binary(Rpm(p)) => InSource(c)
        BY <1>1 DEF Binary, InSource, Content, Entry
      <4> QED BY <2>2, <2>5, <4>1, <4>2
    <3>2. r.formats \subseteq r.inserted
      <4>1. t.formats \subseteq t.inserted /\ (found[p] = NotFound => c \in t.inserted)
        BY <1>0, <1>1 DEF ProcInv, OwnContents, FoundIsCurrent
      <4> QED BY <2>2, <2>5, <4>1
    <3>3. \A d \in r.full : d \in r.inserted \/ d \in Referenced(r.file)
      BY <1>1, <2>5 DEF ProcInv, OwnContents, Referenced
    <3> QED BY <2>5, <2>6, <2>8, <3>1, <3>2, <3>3 DEF OwnContents
  <2>12. FoundIsCurrent(p)'
    BY <2>7 DEF FoundIsCurrent
  <2>13. \A q \in Procs : q # p => txn'[p].inserted \cap txn[q].inserted = {}
    BY <2>5, <2>6 DEF IInv, Apart
  <2>14. /\ txn'[p].package = txn[p].package /\ txn'[p].lock = txn[p].lock
         /\ txn'[p].created = txn[p].created
    BY <2>5, <2>6
  <2>15. /\ pc'[p] \in Adding \cup {"digest"}
         /\ pc'[p] \in Adding => entry'[p] \in DOMAIN FilesOf[Rpm(p)]
    BY <1>1, <2>7 DEF Adding
  <2>16. UNCHANGED <<server, job, found, old, counters>>
    BY <2>1
  <2>17. \A q \in Procs : q # p => pc'[q] = pc[q] /\ txn'[q] = txn[q] /\ entry'[q] = entry[q]
    BY <2>6, <2>7
  <2>18. txn' \in [Procs -> TxnType] /\ pc' \in [Procs -> PCs] /\ entry' \in [Procs -> Nat]
    BY <2>6, <2>7
  <2> QED BY <1>0, <2>9, <2>10, <2>11, <2>12, <2>13, <2>14, <2>15, <2>16, <2>17, <2>18, AddingStep
<1> QED BY <1>2, <1>3

(* update_contents_preview makes the contents of the file full.            *)
LEMMA UpdatePreviewStep == ASSUME IInv, NEW p \in Procs, UpdatePreview(p) PROVE IInv'
<1> USE Constants
<1>0. pc[p] = "update" /\ pc[p] \in Adding
  BY DEF UpdatePreview, At, Adding
<1> DEFINE c == Content(p)
           t == txn[p]
           k0 == entry[p]
           r == [t EXCEPT !.full = @ \cup {c}]
<1>1. /\ TypeOK /\ ProcInv(p) /\ Rpm(p) \in Rpms /\ c \in Contents
      /\ t \in TxnType /\ t.package # 0 /\ k0 \in DOMAIN FilesOf[Rpm(p)]
      /\ ToSet(Entry(p).names) # {}
  BY <1>0, AddingFacts
<1>2. /\ UNCHANGED <<server, job, found, old, counters>>
      /\ txn' = [txn EXCEPT ![p] = r] /\ NextEntry(p)
  BY DEF UpdatePreview
<1>3. /\ r \in TxnType /\ r.package = t.package /\ r.file = t.file /\ r.inserted = t.inserted
      /\ r.full = t.full \cup {c} /\ r.formats = t.formats /\ r.created = t.created
      /\ r.lock = t.lock
  BY <1>1 DEF TxnType
<1> HIDE DEF r
<1>4. /\ txn' \in [Procs -> TxnType] /\ txn'[p] = r
      /\ \A q \in Procs : q # p => txn'[q] = txn[q]
  <2>1. txn \in [Procs -> TxnType]
    BY <1>1 DEF TypeOK
  <2> QED BY <1>2, <1>3, <2>1
<1>5. /\ pc' \in [Procs -> PCs] /\ entry' \in [Procs -> Nat]
      /\ \A q \in Procs : q # p => pc'[q] = pc[q] /\ entry'[q] = entry[q]
      /\ \/ /\ pc'[p] = "select" /\ entry'[p] = k0 + 1
            /\ entry'[p] \in DOMAIN FilesOf[Rpm(p)]
         \/ /\ pc'[p] = "digest" /\ \A k \in DOMAIN FilesOf[Rpm(p)] : k <= k0
  BY <1>0, <1>2, NextEntryFacts
<1>6. Rpm(p)' = Rpm(p) /\ UNCHANGED <<db, found>>
  BY <1>2 DEF Rpm, server, job
<1>7. RowsOf(Rpm(p), k0, t.package) \subseteq t.file
  <2>1. k0 \in Nat /\ ~(k0 > k0)
    BY <1>1
  <2> QED BY <1>0, <1>1, <2>1 DEF ProcInv, FilesSoFar
<1>8. c \in Referenced(t.file)
  <2>1. PICK n : n \in ToSet(Entry(p).names)
    BY <1>1
  <2> DEFINE f == [package |-> t.package, name |-> n, content |-> c]
  <2>2. f \in RowsOf(Rpm(p), k0, t.package)
    BY <2>1 DEF RowsOf, Content, Entry
  <2>3. f \in t.file /\ f.content = c
    BY <1>7, <2>2
  <2> QED BY <2>3 DEF Referenced
<1>9. FilesSoFar(p)'
  <2>1. ASSUME NEW k \in DOMAIN FilesOf[Rpm(p)]
        PROVE  \/ pc'[p] \in Adding /\ (k > entry'[p] \/ (k = entry'[p] /\ pc'[p] # "update"))
               \/ RowsOf(Rpm(p), k, r.package) \subseteq r.file
    <3>1. k > k0 \/ RowsOf(Rpm(p), k, t.package) \subseteq t.file
      BY <1>1, <1>7 DEF ProcInv, FilesSoFar
    <3>2. k \in Nat /\ k0 \in Nat
      BY <1>1
    <3>3. k0 < k => pc'[p] \in Adding /\ (k > entry'[p] \/ (k = entry'[p] /\ pc'[p] # "update"))
      BY <1>5, <3>2 DEF Adding
    <3> QED BY <1>3, <3>1, <3>2, <3>3
  <2> QED BY <1>4, <1>6, <2>1 DEF FilesSoFar
<1>10. OwnFilesHaveContents(p)' /\ OwnContents(p)'
  <2> HIDE DEF c, t
  <2>1. OwnFilesHaveContents(p)'
    BY <1>1, <1>3, <1>4, <1>6 DEF ProcInv, OwnFilesHaveContents, c, t
  <2>2. OwnContents(p)'
    BY <1>0, <1>1, <1>3, <1>4, <1>6, <1>8 DEF ProcInv, OwnContents, t
  <2> QED BY <2>1, <2>2
<1>11. FoundIsCurrent(p)'
  BY <1>5 DEF FoundIsCurrent
<1>12. \A q \in Procs : q # p => txn'[p].inserted \cap txn[q].inserted = {}
  BY <1>3, <1>4 DEF IInv, Apart
<1>13. /\ txn'[p].package = txn[p].package /\ txn'[p].lock = txn[p].lock
       /\ txn'[p].created = txn[p].created
  BY <1>3, <1>4
<1>14. /\ pc'[p] \in Adding \cup {"digest"}
       /\ pc'[p] \in Adding => entry'[p] \in DOMAIN FilesOf[Rpm(p)]
  BY <1>5 DEF Adding
<1>15. /\ \A q \in Procs : q # p => pc'[q] = pc[q] /\ txn'[q] = txn[q] /\ entry'[q] = entry[q]
       /\ txn' \in [Procs -> TxnType] /\ pc' \in [Procs -> PCs] /\ entry' \in [Procs -> Nat]
       /\ UNCHANGED <<server, job, found, old, counters>>
  BY <1>2, <1>4, <1>5
<1> QED BY <1>0, <1>9, <1>10, <1>11, <1>12, <1>13, <1>14, <1>15, AddingStep

-----------------------------------------------------------------------------
(* Steps that change what is committed.                                    *)

(* A process whose own state a step leaves alone keeps its invariant if    *)
(* the step keeps the rows that the process relies on.                     *)
LEMMA OtherProc ==
  ASSUME IInv, NEW q \in Procs, Same(q),
         pc[q] = "insert_package" => db'.package[Rpm(q)] = 0,
         \A f \in txn[q].file : f.content \notin txn[q].inserted =>
           /\ db'.preview[f.content] # None
           /\ db.preview[f.content] = "full" => db'.preview[f.content] = "full",
         \A c \in txn[q].inserted : db'.preview[c] = None,
         pc[q] = "file" /\ found[q] # NotFound /\ Content(q) \notin txn[q].inserted =>
           \/ found[q].cid < db'.cid[Content(q)]
           \/ /\ db'.cid[Content(q)] = db.cid[Content(q)]
              /\ db.preview[Content(q)] # None => db'.preview[Content(q)] # None
              /\ db.preview[Content(q)] = "full" => db'.preview[Content(q)] = "full",
         db' \in DbType,
         IdIsFresh(q)', OwnsSet(q)'
  PROVE  ProcInv(q)'
<1>0. TypeOK /\ ProcInv(q) /\ db.preview \in [Contents -> PreviewType]
  <2>1. TypeOK /\ ProcInv(q)
    BY DEF IInv
  <2>2. db \in DbType
    BY <2>1 DEF TypeOK
  <2> QED BY <2>1, <2>2 DEF DbType
<1>1. OwnsRpm(q)' /\ WritesInLoad(q)' /\ FilesSoFar(q)'
  BY <1>0 DEF Same, ProcInv, OwnsRpm, WritesInLoad, FilesSoFar, Rpm
<1>2. OwnFilesHaveContents(q)'
  <2>1. Content(q)' = Content(q)
    BY DEF Same, Content, Entry, Rpm
  <2>2. OwnFilesHaveContents(q)
    BY <1>0 DEF ProcInv
  <2>3. txn'[q] = txn[q] /\ pc'[q] = pc[q]
    BY DEF Same
  <2> QED BY <2>1, <2>2, <2>3, Zenon DEF OwnFilesHaveContents
<1>3. OwnContents(q)'
  <2>1. Content(q)' = Content(q)
    BY DEF Same, Content, Entry, Rpm
  <2>2. OwnContents(q)
    BY <1>0 DEF ProcInv
  <2>3. txn'[q] = txn[q] /\ pc'[q] = pc[q] /\ found'[q] = found[q]
    BY DEF Same
  <2> QED BY <2>1, <2>2, <2>3, Zenon DEF OwnContents
<1>4. FoundIsCurrent(q)'
  <2>1. CASE pc[q] # "file"
    BY <1>0, <2>1 DEF Same, ProcInv, FoundIsCurrent
  <2>2. CASE pc[q] = "file"
    <3> DEFINE c == Content(q)
    <3>0. /\ FoundIsCurrent(q) /\ c \in Contents /\ found[q].cid \in Nat /\ db.cid[c] \in Nat
          /\ db'.cid[c] \in Nat
      <4>1. FoundIsCurrent(q)
        BY <1>0 DEF ProcInv
      <4>2. c \in Contents
        BY <2>2, AddingFacts DEF Adding
      <4>3. found[q].cid \in Nat /\ db \in DbType
        <5>1. found[q] \in [preview : PreviewType, cid : Nat] /\ db \in DbType
          BY <1>0, Zenon DEF TypeOK
        <5> QED BY <5>1
      <4> HIDE DEF c
      <4> QED BY <4>1, <4>2, <4>3 DEF DbType
    <3>1. Content(q)' = c /\ WantedPreview(Entry(q))' = WantedPreview(Entry(q))
      BY DEF Same, Content, Entry, Rpm, WantedPreview
    <3> HIDE DEF c
    <3>2. CASE found[q] = NotFound
      BY <2>2, <3>0, <3>1, <3>2 DEF Same, FoundIsCurrent, c
    <3>3. CASE found[q] # NotFound /\ c \in txn[q].inserted
      BY <2>2, <3>0, <3>1, <3>3 DEF Same, FoundIsCurrent, c
    <3>4. CASE found[q] # NotFound /\ c \notin txn[q].inserted /\ found[q].cid < db'.cid[c]
      BY <2>2, <3>0, <3>1, <3>4 DEF Same, FoundIsCurrent, c
    <3>5. CASE /\ found[q] # NotFound /\ c \notin txn[q].inserted
               /\ db'.cid[c] = db.cid[c]
               /\ db.preview[c] # None => db'.preview[c] # None
               /\ db.preview[c] = "full" => db'.preview[c] = "full"
      BY <2>2, <3>0, <3>1, <3>5 DEF Same, FoundIsCurrent, c
    <3> QED BY <2>2, <3>2, <3>3, <3>4, <3>5 DEF c
  <2> QED BY <2>1, <2>2
<1> QED BY <1>0, <1>1, <1>2, <1>3, <1>4 DEF ProcInv, Same

(* The rows of a committed load.                                           *)
LEMMA CommittedFields ==
  ASSUME TypeOK, NEW p \in Procs, NEW R \in Rpms
  PROVE  LET d == Committed(p, R)  t == txn[p] IN
         /\ d \in DbType /\ d.file = db.file \cup t.file
         /\ \A r \in Rpms :
              d.package[r] = IF r = R /\ t.package # 0 THEN t.package ELSE db.package[r]
         /\ \A c \in Contents :
              d.preview[c] = IF c \in t.full THEN "full"
                             ELSE IF c \in t.inserted THEN "short" ELSE db.preview[c]
         /\ d.cid = db.cid /\ d.formats = db.formats \cup t.formats
         /\ d.sets = db.sets /\ d.member = db.member /\ d.closure = db.closure
<1> DEFINE t == txn[p]
           package == IF t.package = 0 THEN db.package ELSE [db.package EXCEPT ![R] = t.package]
           preview == [c \in Contents |->
                         IF c \in t.inserted \cup t.full THEN Preview(p, c) ELSE db.preview[c]]
           d == [db EXCEPT !.package = package, !.file = @ \cup t.file, !.preview = preview,
                           !.formats = @ \cup t.formats, !.python = @ \cup t.python]
<1>1. db \in DbType /\ t \in TxnType
  BY DEF TypeOK
<1>2. Committed(p, R) = d
  BY DEF Committed
<1>3. /\ package \in [Rpms -> Nat]
      /\ \A r \in Rpms :
           package[r] = IF r = R /\ t.package # 0 THEN t.package ELSE db.package[r]
  <2>1. db.package \in [Rpms -> Nat] /\ t.package \in Nat
    BY <1>1 DEF DbType, TxnType
  <2> QED BY <2>1
<1>4. /\ preview \in [Contents -> PreviewType]
      /\ \A c \in Contents :
           preview[c] = IF c \in t.full THEN "full"
                        ELSE IF c \in t.inserted THEN "short" ELSE db.preview[c]
  <2>1. db.preview \in [Contents -> PreviewType]
    BY <1>1 DEF DbType
  <2> QED BY <2>1 DEF Preview, PreviewType
<1> HIDE DEF package, preview
<1>5. /\ d \in DbType /\ d.file = db.file \cup t.file /\ d.package = package
      /\ d.preview = preview /\ d.cid = db.cid /\ d.formats = db.formats \cup t.formats
      /\ d.sets = db.sets /\ d.member = db.member /\ d.closure = db.closure
  <2>1. /\ t.file \subseteq FileRow /\ t.formats \subseteq Contents /\ t.python \subseteq Contents
    BY <1>1 DEF TxnType
  <2> HIDE DEF t
  <2> QED BY <1>1, <1>3, <1>4, <2>1 DEF DbType
<1> HIDE DEF d
<1> QED BY <1>2, <1>3, <1>4, <1>5

(* What is committed stays committed: if the rows a transaction has        *)
(* written satisfy the invariant of the process, then so do the committed  *)
(* rows together with them.                                                *)
LEMMA CommittedInv ==
  ASSUME IInv, NEW p \in Procs, pc[p] = "commit"
  PROVE  /\ DbInv(Committed(p, Rpm(p)))
         /\ \A c \in Contents :
              /\ db.preview[c] # None => Committed(p, Rpm(p)).preview[c] # None
              /\ db.preview[c] = "full" => Committed(p, Rpm(p)).preview[c] = "full"
              /\ db.preview[c] = None /\ c \notin txn[p].inserted =>
                   Committed(p, Rpm(p)).preview[c] = None
<1> USE Constants
<1> DEFINE R == Rpm(p)
           t == txn[p]
           d == Committed(p, R)
<1>0. /\ TypeOK /\ ProcInv(p) /\ DbInv(db) /\ R \in Rpms /\ t \in TxnType
      /\ counters.id \in Nat
  BY DEF IInv, ProcInv, OwnsRpm, Loading, TypeOK, Rpm
<1>1. /\ d \in DbType /\ d.file = db.file \cup t.file
      /\ \A r \in Rpms :
           d.package[r] = IF r = R /\ t.package # 0 THEN t.package ELSE db.package[r]
      /\ \A c \in Contents :
           d.preview[c] = IF c \in t.full THEN "full"
                          ELSE IF c \in t.inserted THEN "short" ELSE db.preview[c]
      /\ d.cid = db.cid /\ d.formats = db.formats \cup t.formats
      /\ d.sets = db.sets /\ d.member = db.member /\ d.closure = db.closure
  BY <1>0, CommittedFields
<1> HIDE DEF d, R
<1>2. /\ \A f \in t.file : /\ f.package = t.package /\ t.package # 0 /\ f.content \in Contents
                           /\ f.content \in t.inserted \/ db.preview[f.content] # None
                           /\ f.name \in KeepFull =>
                                \/ f.content \in t.full
                                \/ f.content \notin t.inserted /\ db.preview[f.content] = "full"
      /\ \A c \in t.inserted : db.preview[c] = None /\ (c \in t.formats \/ InSource(c))
      /\ t.formats \subseteq t.inserted
      /\ \A c \in t.full : c \in t.inserted \/ db.preview[c] # None
  <2>1. \A f \in t.file : /\ f.package = t.package /\ f.content \in Contents
                          /\ f.content \in t.inserted \/ db.preview[f.content] # None
                          /\ f.name \in KeepFull =>
                                \/ f.content \in t.full
                                \/ f.content \notin t.inserted /\ db.preview[f.content] = "full"
    BY <1>0 DEF ProcInv, OwnFilesHaveContents, TxnType, FileRow
  <2>2. t.package = 0 => t.file = {}
    BY <1>0 DEF ProcInv, WritesInLoad
  <2>3. /\ \A c \in t.inserted : db.preview[c] = None /\ (c \in t.formats \/ InSource(c))
        /\ t.formats \subseteq t.inserted
    BY <1>0 DEF ProcInv, OwnContents
  <2>4. \A c \in t.full : c \in t.inserted \/ db.preview[c] # None
    BY <1>0, <2>1 DEF ProcInv, OwnContents, Referenced
  <2> QED BY <2>1, <2>2, <2>3, <2>4
<1>3. t.full \subseteq Contents /\ t.inserted \subseteq Contents
  BY <1>0 DEF TxnType
<1>4. ASSUME NEW c \in Contents
      PROVE  /\ db.preview[c] # None => d.preview[c] # None
             /\ db.preview[c] = "full" => d.preview[c] = "full"
             /\ db.preview[c] = None /\ c \notin t.inserted => d.preview[c] = None
  BY <1>1, <1>2
<1>5. \A f \in db.file : f.content \in Contents /\ f.package \in Nat
  BY <1>0 DEF TypeOK, DbType, FileRow
<1>6. FilesHaveContents(d)
  <2>1. ASSUME NEW f \in db.file
        PROVE  d.preview[f.content] # None /\ (f.name \in KeepFull => d.preview[f.content] = "full")
    BY <1>0, <1>4, <1>5 DEF DbInv, FilesHaveContents
  <2>2. ASSUME NEW f \in t.file
        PROVE  d.preview[f.content] # None /\ (f.name \in KeepFull => d.preview[f.content] = "full")
    BY <1>1, <1>2
  <2> QED BY <1>1, <2>1, <2>2 DEF FilesHaveContents
<1>7. AllFilesThere(d)
  <2>1. ASSUME NEW r \in Rpms, d.package[r] # 0, NEW k \in DOMAIN FilesOf[r]
        PROVE  RowsOf(r, k, d.package[r]) \subseteq d.file
    <3>1. CASE r = R /\ t.package # 0
      BY <1>0, <1>1, <2>1, <3>1 DEF ProcInv, FilesSoFar, Adding, R
    <3>2. CASE ~(r = R /\ t.package # 0)
      BY <1>0, <1>1, <2>1, <3>2 DEF DbInv, AllFilesThere
    <3> QED BY <3>1, <3>2
  <2> QED BY <2>1 DEF AllFilesThere
<1>8. NewAnalysed(d)
  <2>1. ASSUME NEW c \in Contents, d.preview[c] # None PROVE c \in d.formats \/ InSource(c)
    <3>1. CASE c \in t.inserted
      BY <1>1, <1>2, <3>1
    <3>2. CASE c \notin t.inserted
      BY <1>0, <1>1, <1>4, <2>1, <3>2 DEF DbInv, NewAnalysed
    <3> QED BY <3>1, <3>2
  <2> QED BY <2>1 DEF NewAnalysed
<1>9. ClosureOfMembers(d)
  <2>1. ASSUME NEW s \in Sets PROVE ElfMembers(d, d.member[s]) = ElfMembers(db, db.member[s])
    <3>1. ASSUME NEW i \in db.member[s], NEW f \in d.file, f.package = i, f.content \in d.formats
          PROVE  f \in db.file /\ f.content \in db.formats
      <4>1. t.package # 0 => t.package # i
        BY <1>0 DEF ProcInv, IdIsFresh
      <4>2. f \in db.file
        BY <1>1, <1>2, <3>1, <4>1
      <4>3. db.preview[f.content] # None
        BY <1>0, <4>2 DEF DbInv, FilesHaveContents
      <4> QED BY <1>1, <1>2, <3>1, <4>2, <4>3
    <3> QED BY <1>1, <3>1 DEF ElfMembers
  <2> QED BY <1>0, <1>1, <2>1 DEF ClosureOfMembers, DbInv
<1>10. IdsUsed(d)
  <2>1. t.package # 0 => t.package <= counters.id
    BY <1>0 DEF ProcInv, IdIsFresh
  <2> QED BY <1>0, <1>1, <2>1 DEF IdsUsed, DbInv
<1>11. DbInv(d)
  BY <1>0, <1>1, <1>6, <1>7, <1>8, <1>9, <1>10 DEF DbInv
<1> QED BY <1>4, <1>11 DEF R, d

(* The COMMIT of rpm_load.                                                 *)
LEMMA CommitLoadStep == ASSUME IInv, NEW p \in Procs, CommitLoad(p) PROVE IInv'
<1> USE Constants, NoWritesFacts
<1> DEFINE R == Rpm(p)
           t == txn[p]
           d == Committed(p, R)
           where == NextRpm(cmd[p], todo'[p])
           new == IF t.package = 0 THEN ids[p] ELSE ids[p] \cup {t.package}
<1>0. /\ TypeOK /\ ProcInv(p) /\ DbInv(db) /\ R \in Rpms /\ t \in TxnType /\ pc[p] = "commit"
      /\ t.lock = R /\ todo[p] # <<>> /\ cmd[p] \in Commands
  <2>1. TypeOK /\ ProcInv(p) /\ DbInv(db) /\ pc[p] = "commit"
    BY DEF IInv, CommitLoad, At
  <2> QED BY <2>1 DEF ProcInv, OwnsRpm, OwnsSet, Loading, TypeOK, Rpm
<1>1. /\ db' = d /\ (lost' = lost \/ lost' = lost \cup {db})
      /\ ids' = [ids EXCEPT ![p] = new]
      /\ txn' = [txn EXCEPT ![p] = NoWrites]
      /\ todo' = [todo EXCEPT ![p] = Tail(todo[p])]
      /\ entry' = [entry EXCEPT ![p] = 0] /\ found' = [found EXCEPT ![p] = NotFound]
      /\ pc' = [pc EXCEPT ![p] = where]
      /\ UNCHANGED <<cmd, failure, old, expire, asked, counters>>
  BY DEF CommitLoad, Goto
<1>2. /\ d \in DbType
      /\ \A r \in Rpms :
           d.package[r] = IF r = R /\ t.package # 0 THEN t.package ELSE db.package[r]
      /\ d.cid = db.cid /\ d.sets = db.sets /\ d.member = db.member
  BY <1>0, CommittedFields
<1>3. /\ DbInv(d)
      /\ \A c \in Contents :
           /\ db.preview[c] # None => d.preview[c] # None
           /\ db.preview[c] = "full" => d.preview[c] = "full"
           /\ db.preview[c] = None /\ c \notin t.inserted => d.preview[c] = None
  BY <1>0, CommittedInv
<1> HIDE DEF d, R
<1>4. /\ new \in SUBSET Nat /\ new \subseteq ids[p] \cup {t.package}
      /\ t.package = 0 => new = ids[p]
  BY <1>0 DEF TypeOK, TxnType
<1>5. where \in {"lock", "end", "create_set", "lock_set"}
  BY DEF NextRpm, AfterLoads
<1>6. Tail(todo[p]) \in Seq(Rpms)
  BY <1>0 DEF TypeOK
<1> HIDE DEF new
<1>7. /\ pc' \in [Procs -> PCs] /\ pc'[p] = where
      /\ txn' \in [Procs -> TxnType] /\ txn'[p] = NoWrites
      /\ ids' \in [Procs -> SUBSET Nat] /\ ids'[p] = new
      /\ \A q \in Procs : q # p => Same(q)
  <2> HIDE DEF where, t
  <2>1. /\ pc \in [Procs -> PCs] /\ txn \in [Procs -> TxnType] /\ ids \in [Procs -> SUBSET Nat]
        /\ todo \in [Procs -> Seq(Rpms)] /\ entry \in [Procs -> Nat] /\ DOMAIN found = Procs
    BY <1>0 DEF TypeOK
  <2>2. where \in PCs
    BY <1>5 DEF PCs
  <2> QED BY <1>1, <1>4, <2>1, <2>2 DEF Same
<1>8. TypeOK'
  <2>1. lost' \subseteq DbType
    BY <1>0, <1>1 DEF TypeOK
  <2>2. /\ entry' \in [Procs -> Nat] /\ found' \in [Procs -> [preview : PreviewType, cid : Nat]]
    BY <1>0, <1>1 DEF TypeOK, NotFound, PreviewType
  <2>3. todo' \in [Procs -> Seq(Rpms)]
    BY <1>0, <1>1, <1>6 DEF TypeOK
  <2> QED BY <1>0, <1>1, <1>2, <1>7, <2>1, <2>2, <2>3 DEF TypeOK
<1>9. DbInv(db)' /\ \A e \in lost' : DbInv(e)'
  <2>1. \A e : DbInv(e) => DbInv(e)'
    BY <1>1 DEF DbInv, FilesHaveContents, AllFilesThere, NewAnalysed, ClosureOfMembers, IdsUsed
  <2>2. DbInv(db)'
    BY <1>1, <1>3
       DEF DbInv, FilesHaveContents, AllFilesThere, NewAnalysed, ClosureOfMembers, IdsUsed
  <2>3. \A e \in lost' : DbInv(e)
    BY <1>1 DEF IInv
  <2> QED BY <2>1, <2>2, <2>3
<1>10. ProcInv(p)'
  <2>1. (FilesSoFar(p) /\ OwnFilesHaveContents(p) /\ OwnContents(p) /\ FoundIsCurrent(p))'
    BY <1>5, <1>7 DEF FilesSoFar, OwnFilesHaveContents, OwnContents, FoundIsCurrent
  <2>2. (OwnsRpm(p) /\ WritesInLoad(p))'
    <3>1. pc'[p] = "lock" => todo'[p] # <<>>
      BY <1>7 DEF NextRpm, AfterLoads
    <3> HIDE DEF where
    <3> QED BY <1>5, <1>7, <3>1 DEF OwnsRpm, WritesInLoad, Loading, Adding
  <2>3. OwnsSet(p)'
    BY <1>0, <1>1, <1>2, <1>7 DEF ProcInv, OwnsSet, NextRpm, AfterLoads, Setting
  <2>4. IdIsFresh(p)'
    BY <1>0, <1>1, <1>4, <1>7 DEF ProcInv, IdIsFresh
  <2> QED BY <1>0, <1>1, <2>1, <2>2, <2>3, <2>4 DEF ProcInv
<1>11. ASSUME NEW q \in Procs, q # p PROVE ProcInv(q)'
  <2>0. ProcInv(q) /\ Same(q) /\ Apart(p, q) /\ txn[q] \in TxnType /\ todo[q] \in Seq(Rpms)
    BY <1>0, <1>7, <1>11 DEF IInv, TypeOK
  <2>1. pc[q] = "insert_package" => db'.package[Rpm(q)] = 0
    <3> SUFFICES ASSUME pc[q] = "insert_package" PROVE db'.package[Rpm(q)] = 0
      OBVIOUS
    <3>1. todo[q] # <<>> /\ txn[q].lock = Rpm(q) /\ db.package[Rpm(q)] = 0
      BY <2>0 DEF ProcInv, OwnsRpm, Loading
    <3>2. Rpm(q) \in Rpms
      BY <2>0, <3>1 DEF Rpm
    <3>3. Rpm(q) # R
      BY <1>0, <2>0, <3>1 DEF Apart
    <3> QED BY <1>1, <1>2, <3>1, <3>2, <3>3
  <2>2. ASSUME NEW f \in txn[q].file, f.content \notin txn[q].inserted
        PROVE  /\ db'.preview[f.content] # None
               /\ db.preview[f.content] = "full" => db'.preview[f.content] = "full"
    <3>1. f.content \in Contents /\ db.preview[f.content] # None
      BY <2>0, <2>2 DEF TxnType, FileRow, ProcInv, OwnFilesHaveContents
    <3> QED BY <1>1, <1>3, <3>1
  <2>3. ASSUME NEW c \in txn[q].inserted PROVE db'.preview[c] = None
    <3>1. c \in Contents /\ db.preview[c] = None /\ c \notin t.inserted
      BY <2>0 DEF TxnType, ProcInv, OwnContents, Apart
    <3> QED BY <1>1, <1>3, <3>1
  <2>4. pc[q] = "file" => /\ Content(q) \in Contents /\ db'.cid[Content(q)] = db.cid[Content(q)]
                          /\ db.preview[Content(q)] # None => db'.preview[Content(q)] # None
                          /\ db.preview[Content(q)] = "full" => db'.preview[Content(q)] = "full"
    <3>1. pc[q] = "file" => Content(q) \in Contents
      BY AddingFacts DEF Adding
    <3> QED BY <1>1, <1>2, <1>3, <3>1
  <2>5. IdIsFresh(q)'
    <3>1. \A x \in Procs : ids'[x] \subseteq ids[x] \cup (IF x = p THEN {t.package} ELSE {})
      BY <1>4, <1>7 DEF Same
    <3>2. txn[q].package # 0 => txn[q].package # t.package
      BY <2>0 DEF Apart
    <3>3. txn[q].package # 0 => \A r \in Rpms : db'.package[r] # txn[q].package
      BY <1>1, <1>2, <2>0, <3>2 DEF ProcInv, IdIsFresh
    <3>4. txn[q].package # 0 => \A x \in Procs : txn[q].package \notin ids'[x]
      BY <2>0, <3>1, <3>2 DEF ProcInv, IdIsFresh
    <3> QED BY <1>1, <1>2, <2>0, <3>3, <3>4 DEF ProcInv, IdIsFresh, Same
  <2>6. OwnsSet(q)'
    BY <1>1, <1>2, <2>0 DEF ProcInv, OwnsSet, Same
  <2>7. db' \in DbType
    BY <1>1, <1>2
  <2> QED BY <2>0, <2>1, <2>2, <2>3, <2>4, <2>5, <2>6, <2>7, OtherProc
<1>12. ASSUME NEW q \in Procs, NEW r \in Procs, q # r PROVE Apart(q, r)'
  <2>1. txn'[q] = txn[q] \/ txn'[q] = NoWrites
    BY <1>7 DEF Same
  <2>2. txn'[r] = txn[r] \/ txn'[r] = NoWrites
    BY <1>7 DEF Same
  <2> QED BY <1>12, <2>1, <2>2 DEF IInv, Apart
<1> QED BY <1>8, <1>9, <1>10, <1>11, <1>12 DEF IInv

(* The COMMIT of do_create_set and do_update_set.  The members it replaces *)
(* are those it has read, because the set is the process's own; so the     *)
(* difference turns them into the IDs that were loaded.                    *)
LEMMA CommitSetStep == ASSUME IInv, NEW p \in Procs, CommitSet(p) PROVE IInv'
<1> USE Constants, NoWritesFacts
<1> DEFINE s == cmd[p].set
           t == txn[p]
           new == ElfMembers(db, ids[p])
           d == [db EXCEPT !.sets = @ \cup ({t.created} \ {None}),
                           !.member = [@ EXCEPT ![s] = ids[p]],
                           !.closure = [@ EXCEPT ![s] = new]]
<1>0. /\ TypeOK /\ ProcInv(p) /\ DbInv(db) /\ pc[p] = "commit_set" /\ t \in TxnType
      /\ OwnsSet(p) /\ cmd[p] \in Commands /\ s \in Sets /\ old[p] = db.member[s]
      /\ ids[p] \subseteq Nat /\ db.member[s] \subseteq Nat /\ db \in DbType
  <2>1. TypeOK /\ ProcInv(p) /\ DbInv(db) /\ pc[p] = "commit_set"
    BY DEF IInv, CommitSet, At
  <2>2. OwnsSet(p) /\ cmd[p] \in Commands /\ s # None /\ old[p] = db.member[s]
    BY <2>1 DEF ProcInv, OwnsSet, Setting
  <2>3. s \in Sets /\ t \in TxnType /\ ids[p] \subseteq Nat /\ db \in DbType
    BY <2>1, <2>2 DEF TypeOK
  <2> QED BY <2>1, <2>2, <2>3 DEF DbType
<1>1. NewMembers(p) = ids[p]
  <2>1. NewMembers(p) = (db.member[s] \ (old[p] \ ids[p])) \cup (ids[p] \ old[p])
    BY DEF NewMembers, Difference
  <2> QED BY <1>0, <2>1
<1>2. NewClosure(p) = new
  <2>1. ElfPackages(ids[p]) = new
    BY DEF ElfPackages, ElfMembers
  <2>2. db.closure[s] = ElfMembers(db, db.member[s])
    BY <1>0 DEF DbInv, ClosureOfMembers
  <2>3. CASE ids[p] \ old[p] = {} /\ old[p] \ ids[p] = {}
    <3>1. ids[p] = old[p]
      BY <2>3
    <3>2. NewClosure(p) = db.closure[s]
      BY <2>3 DEF NewClosure, Difference
    <3> QED BY <1>0, <2>2, <3>1, <3>2
  <2>4. CASE ~(ids[p] \ old[p] = {} /\ old[p] \ ids[p] = {})
    BY <1>1, <2>1, <2>4 DEF NewClosure, Difference
  <2> QED BY <2>3, <2>4
<1>3. /\ db' = d /\ lost' = (IF db' = db THEN lost ELSE {}) /\ asked' = [asked EXCEPT ![s] = ids[p]]
      /\ txn' = [txn EXCEPT ![p] = NoWrites] /\ old' = [old EXCEPT ![p] = {}]
      /\ pc' = [pc EXCEPT ![p] = "end"]
      /\ UNCHANGED <<cmd, todo, ids, failure, entry, found, expire, counters>>
  <2>1. db' = [db EXCEPT !.sets = @ \cup ({t.created} \ {None}),
                         !.member[s] = ids[p], !.closure[s] = new]
    BY <1>1, <1>2 DEF CommitSet
  <2> HIDE DEF new
  <2>2. db' = d
    BY <2>1
  <2> QED BY <2>2 DEF CommitSet, WaitForDisk, Goto, job
<1>4. new \subseteq ids[p]
  BY DEF ElfMembers
<1> HIDE DEF new
<1>5. /\ d \in DbType /\ d.package = db.package /\ d.file = db.file /\ d.preview = db.preview
      /\ d.cid = db.cid /\ d.formats = db.formats
      /\ d.sets = db.sets \cup ({t.created} \ {None})
      /\ d.member = [db.member EXCEPT ![s] = ids[p]]
      /\ d.closure = [db.closure EXCEPT ![s] = new]
  <2>1. t.created \in Sets \cup {None} /\ new \subseteq Nat
    BY <1>0, <1>4 DEF TxnType
  <2>2. db.member \in [Sets -> SUBSET Nat] /\ db.closure \in [Sets -> SUBSET Nat]
    BY <1>0 DEF DbType
  <2> DEFINE m == [db.member EXCEPT ![s] = ids[p]]
             c == [db.closure EXCEPT ![s] = new]
             x == {t.created} \ {None}
  <2>3. m \in [Sets -> SUBSET Nat] /\ c \in [Sets -> SUBSET Nat] /\ x \subseteq Sets
    BY <1>0, <2>1, <2>2
  <2>4. d = [db EXCEPT !.sets = @ \cup x, !.member = m, !.closure = c]
    OBVIOUS
  <2> HIDE DEF m, c, x, d
  <2>5. /\ d \in DbType /\ d.package = db.package /\ d.file = db.file /\ d.preview = db.preview
        /\ d.cid = db.cid /\ d.formats = db.formats /\ d.sets = db.sets \cup x
        /\ d.member = m /\ d.closure = c
    BY <1>0, <2>3, <2>4 DEF DbType
  <2> QED BY <2>5 DEF m, c, x
<1> HIDE DEF d
<1>6. /\ d.member[s] = ids[p] /\ d.closure[s] = new
      /\ \A u \in Sets : u # s => d.member[u] = db.member[u] /\ d.closure[u] = db.closure[u]
  <2>1. db.member \in [Sets -> SUBSET Nat] /\ db.closure \in [Sets -> SUBSET Nat]
    BY <1>0 DEF DbType
  <2> QED BY <1>0, <1>5, <2>1
<1>7. /\ pc' \in [Procs -> PCs] /\ pc'[p] = "end"
      /\ txn' \in [Procs -> TxnType] /\ txn'[p] = NoWrites
      /\ old' \in [Procs -> SUBSET Nat] /\ \A q \in Procs : q # p => Same(q)
  <2>1. /\ pc \in [Procs -> PCs] /\ txn \in [Procs -> TxnType] /\ old \in [Procs -> SUBSET Nat]
    BY <1>0 DEF TypeOK
  <2> QED BY <1>3, <2>1 DEF Same, PCs
<1>8. TypeOK'
  <2>1. asked' \in [Sets -> SUBSET Nat]
    BY <1>0, <1>3 DEF TypeOK
  <2>2. lost' \subseteq DbType
    BY <1>0, <1>3 DEF TypeOK
  <2> QED BY <1>0, <1>3, <1>5, <1>7, <2>1, <2>2 DEF TypeOK
<1>9. DbInv(db)'
  <2>1. \A u \in Sets : ElfMembers(d, d.member[u]) = ElfMembers(db, d.member[u])
    BY <1>5 DEF ElfMembers
  <2>2. ClosureOfMembers(d)
    <3>1. ASSUME NEW u \in Sets PROVE d.closure[u] = ElfMembers(db, d.member[u])
      BY <1>0, <1>6 DEF DbInv, ClosureOfMembers, new
    <3> QED BY <2>1, <3>1 DEF ClosureOfMembers
  <2>3. d.member = asked'
    BY <1>0, <1>3, <1>5 DEF DbInv
  <2>4. IdsUsed(d)
    BY <1>0, <1>5, <1>6 DEF DbInv, IdsUsed, ProcInv, IdIsFresh
  <2>5. FilesHaveContents(d) /\ AllFilesThere(d) /\ NewAnalysed(d)
    BY <1>0, <1>5 DEF DbInv, FilesHaveContents, AllFilesThere, NewAnalysed
  <2> QED BY <1>3, <2>2, <2>3, <2>4, <2>5
          DEF DbInv, FilesHaveContents, AllFilesThere, NewAnalysed, ClosureOfMembers, IdsUsed
<1>10. ProcInv(p)'
  <2>1. (FilesSoFar(p) /\ OwnFilesHaveContents(p) /\ OwnContents(p) /\ FoundIsCurrent(p))'
    BY <1>7 DEF FilesSoFar, OwnFilesHaveContents, OwnContents, FoundIsCurrent
  <2>2. (OwnsRpm(p) /\ WritesInLoad(p))'
    BY <1>7 DEF OwnsRpm, WritesInLoad, Loading, Adding
  <2>3. OwnsSet(p)'
    BY <1>0, <1>3, <1>5, <1>7 DEF OwnsSet, Setting
  <2>4. IdIsFresh(p)'
    BY <1>0, <1>3, <1>7 DEF ProcInv, IdIsFresh
  <2> QED BY <1>0, <1>3, <2>1, <2>2, <2>3, <2>4 DEF ProcInv
<1>11. ASSUME NEW q \in Procs, q # p PROVE ProcInv(q)'
  <2>0. ProcInv(q) /\ Same(q) /\ Apart(p, q) /\ txn[q] \in TxnType
    BY <1>0, <1>7, <1>11 DEF IInv, TypeOK
  <2>1. pc[q] = "insert_package" => db'.package[Rpm(q)] = 0
    BY <1>3, <1>5, <2>0 DEF ProcInv, OwnsRpm
  <2>2. /\ \A f \in txn[q].file : f.content \notin txn[q].inserted => db'.preview[f.content] # None
        /\ \A c \in txn[q].inserted : db'.preview[c] = None
        /\ db'.preview = db.preview /\ db'.cid = db.cid
    BY <1>3, <1>5, <2>0 DEF ProcInv, OwnFilesHaveContents, OwnContents
  <2>3. IdIsFresh(q)'
    <3>1. txn[q].package # 0 => \A u \in Sets : txn[q].package \notin d.member[u]
      BY <1>6, <2>0 DEF ProcInv, IdIsFresh
    <3> QED BY <1>3, <1>5, <2>0, <3>1 DEF ProcInv, IdIsFresh, Same
  <2>4. OwnsSet(q)'
    <3>1. OwnsSet(q)
      BY <2>0 DEF ProcInv
    <3>2. pc[q] \in Setting => cmd[q].set # s
      BY <1>0, <2>0, <3>1 DEF OwnsSet, Setting, Apart
    <3>3. pc[q] \in Setting /\ cmd[q].create => cmd[q].set \notin d.sets
      BY <1>0, <1>5, <2>0, <3>1 DEF OwnsSet, Setting, Apart
    <3>4. pc[q] \in {"write_set", "commit_set"} => old[q] = d.member[cmd[q].set]
      BY <1>6, <3>1, <3>2 DEF OwnsSet, Setting
    <3> QED BY <1>3, <1>5, <2>0, <3>1, <3>3, <3>4 DEF OwnsSet, Same
  <2>5. db' \in DbType
    BY <1>3, <1>5
  <2> QED BY <2>0, <2>1, <2>2, <2>3, <2>4, <2>5, OtherProc
<1>12. ASSUME NEW q \in Procs, NEW r \in Procs, q # r PROVE Apart(q, r)'
  <2>1. txn'[q] = txn[q] \/ txn'[q] = NoWrites
    BY <1>7 DEF Same
  <2>2. txn'[r] = txn[r] \/ txn'[r] = NoWrites
    BY <1>7 DEF Same
  <2> QED BY <1>12, <2>1, <2>2 DEF IInv, Apart
<1>13. \A e \in lost' : DbInv(e)'
  <2>1. ASSUME NEW e \in lost' PROVE DbInv(e)'
    <3>1. db' = db /\ e \in lost /\ DbInv(e)
      BY <1>3 DEF IInv
    <3>2. asked' = asked
      BY <1>0, <1>9, <3>1 DEF DbInv
    <3> QED BY <1>3, <3>1, <3>2
            DEF DbInv, FilesHaveContents, AllFilesThere, NewAnalysed, ClosureOfMembers, IdsUsed
  <2> QED BY <2>1
<1> QED BY <1>8, <1>9, <1>10, <1>11, <1>12, <1>13 DEF IInv

-----------------------------------------------------------------------------
(* --expire and crashes.                                                   *)

(* Looking for victims changes nothing that matters.                       *)
LEMMA LookStep ==
  ASSUME IInv, UNCHANGED <<db, lost, local, asked>>, counters'.id = counters.id, TypeOK'
  PROVE  IInv'
<1>1. UNCHANGED <<txn, pc, cmd, todo, ids, failure, entry, found, old>>
  BY DEF local, job, place
<1>2. ASSUME NEW q \in Procs PROVE ProcInv(q)'
  <2>0. ProcInv(q)
    BY DEF IInv
  <2>1. OwnsRpm(q)' /\ WritesInLoad(q)' /\ OwnsSet(q)' /\ IdIsFresh(q)'
    <3>1. OwnsRpm(q) /\ WritesInLoad(q) /\ OwnsSet(q) /\ IdIsFresh(q)
      BY <2>0 DEF ProcInv
    <3>2. OwnsRpm(q)' /\ WritesInLoad(q)'
      BY <1>1, <3>1 DEF OwnsRpm, WritesInLoad, Rpm
    <3>3. OwnsSet(q)'
      BY <1>1, <3>1 DEF OwnsSet
    <3>4. IdIsFresh(q)'
      BY <1>1, <3>1, Zenon DEF IdIsFresh
    <3> QED BY <3>2, <3>3, <3>4
  <2>2. FilesSoFar(q)' /\ OwnFilesHaveContents(q)' /\ OwnContents(q)' /\ FoundIsCurrent(q)'
    BY <1>1, <2>0 DEF ProcInv, FilesSoFar, OwnFilesHaveContents, OwnContents, FoundIsCurrent,
                      Rpm, Entry, Content
  <2> QED BY <1>1, <2>0, <2>1, <2>2 DEF ProcInv
<1>3. DbInv(db)' /\ \A d \in lost' : DbInv(d)'
  BY DEF IInv, DbInv, FilesHaveContents, AllFilesThere, NewAnalysed, ClosureOfMembers, IdsUsed
<1>4. \A p, q \in Procs : p # q => Apart(p, q)'
  BY <1>1 DEF IInv, Apart
<1> QED BY <1>2, <1>3, <1>4 DEF IInv

(* --expire deletes rows: the processes run on with theirs.                *)
LEMMA DeleteStep ==
  ASSUME IInv, TypeOK', UNCHANGED <<local, asked, counters>>, lost' = {}, DbInv(db)',
         \A q \in Procs : ProcInv(q)'
  PROVE  IInv'
<1>1. \A p, q \in Procs : p # q => Apart(p, q)'
  BY DEF IInv, Apart, local
<1> QED BY <1>1 DEF IInv

(* The DELETE of packages that are in no set.                              *)
LEMMA ExpirePackagesStep == ASSUME IInv, ExpirePackages PROVE IInv'
<1> USE Constants
<1> DEFINE V == expire.victims
           package == [r \in Rpms |-> IF db.package[r] \in V THEN 0 ELSE db.package[r]]
           file == {f \in db.file : f.package \notin V}
           d == [db EXCEPT !.package = package, !.file = file]
<1>0. TypeOK /\ DbInv(db) /\ db \in DbType /\ counters.id \in Nat
  BY DEF IInv, TypeOK
<1>1. expire' \in [step : {"idle", "packages", "find_contents", "contents"},
                   victims : SUBSET (Nat \cup Contents)]
  BY DEF ExpirePackages, ExpireTo
<1>2. CASE UNCHANGED <<db, lost>>
  <2>1. TypeOK'
    BY <1>0, <1>1, <1>2 DEF TypeOK, ExpirePackages, local, job, place
  <2> QED BY <1>2, <2>1, LookStep DEF ExpirePackages
<1>3. CASE ~UNCHANGED <<db, lost>>
  <2>1. /\ db' = d /\ lost' = {} /\ UNCHANGED <<local, asked, counters>>
        /\ V \cap (Members \cup ClosureRefs) = {}
    BY <1>3 DEF ExpirePackages, WaitForDisk
  <2>2. /\ package \in [Rpms -> Nat] /\ file \subseteq db.file
        /\ \A r \in Rpms : package[r] = 0 \/ (package[r] = db.package[r] /\ package[r] \notin V)
    <3>1. db.package \in [Rpms -> Nat]
      BY <1>0 DEF DbType
    <3> QED BY <3>1
  <2>3. \A f \in db.file : f.package \notin V => f \in file
    OBVIOUS
  <2> HIDE DEF package, file, V
  <2>4. /\ d \in DbType /\ d.package = package /\ d.file = file /\ d.preview = db.preview
        /\ d.cid = db.cid /\ d.formats = db.formats /\ d.sets = db.sets /\ d.member = db.member
        /\ d.closure = db.closure
    BY <1>0, <2>2 DEF DbType
  <2> HIDE DEF d
  <2>5. TypeOK'
    BY <1>0, <1>1, <2>1, <2>4 DEF TypeOK, local, job, place
  <2>6. DbInv(d)
    <3>1. FilesHaveContents(d) /\ NewAnalysed(d) /\ d.member = asked
      BY <1>0, <2>2, <2>4 DEF DbInv, FilesHaveContents, NewAnalysed
    <3>2. AllFilesThere(d)
      <4>1. ASSUME NEW r \in Rpms, d.package[r] # 0, NEW k \in DOMAIN FilesOf[r]
            PROVE  RowsOf(r, k, d.package[r]) \subseteq d.file
        <5>1. d.package[r] = db.package[r] /\ d.package[r] \notin V
          BY <2>2, <2>4, <4>1
        <5>2. RowsOf(r, k, d.package[r]) \subseteq db.file
          BY <1>0, <4>1, <5>1 DEF DbInv, AllFilesThere
        <5>3. \A f \in RowsOf(r, k, d.package[r]) : f.package = d.package[r]
          BY DEF RowsOf
        <5> QED BY <2>3, <2>4, <5>1, <5>2, <5>3
      <4> QED BY <4>1 DEF AllFilesThere
    <3>3. ClosureOfMembers(d)
      <4>1. ASSUME NEW s \in Sets PROVE ElfMembers(d, d.member[s]) = ElfMembers(db, db.member[s])
        <5>1. \A i \in db.member[s] : i \notin V
          BY <2>1 DEF Members
        <5> QED BY <2>2, <2>3, <2>4, <5>1 DEF ElfMembers
      <4> QED BY <1>0, <2>4, <4>1 DEF DbInv, ClosureOfMembers
    <3>4. IdsUsed(d)
      BY <1>0, <2>2, <2>4 DEF DbInv, IdsUsed
    <3> QED BY <3>1, <3>2, <3>3, <3>4 DEF DbInv
  <2>7. DbInv(db)'
    BY <2>1, <2>6
       DEF DbInv, FilesHaveContents, AllFilesThere, NewAnalysed, ClosureOfMembers, IdsUsed
  <2>8. ASSUME NEW q \in Procs PROVE ProcInv(q)'
    <3>0. Same(q) /\ ProcInv(q) /\ ids' = ids
      BY <2>1 DEF Same, local, job, place, IInv
    <3>1. pc[q] = "insert_package" => db'.package[Rpm(q)] = 0
      <4>1. pc[q] = "insert_package" => Rpm(q) \in Rpms /\ db.package[Rpm(q)] = 0
        BY <1>0, <3>0 DEF ProcInv, OwnsRpm, Loading, TypeOK, Rpm
      <4> QED BY <2>1, <2>2, <2>4, <4>1
    <3>2. /\ \A f \in txn[q].file :
               f.content \notin txn[q].inserted => db'.preview[f.content] # None
          /\ \A c \in txn[q].inserted : db'.preview[c] = None
          /\ db'.preview = db.preview /\ db'.cid = db.cid
      BY <2>1, <2>4, <3>0 DEF ProcInv, OwnFilesHaveContents, OwnContents
    <3>3. IdIsFresh(q)'
      BY <2>1, <2>2, <2>4, <3>0 DEF ProcInv, IdIsFresh, Same
    <3>4. OwnsSet(q)'
      BY <2>1, <2>4, <3>0 DEF ProcInv, OwnsSet, Same
    <3>5. db' \in DbType
      BY <2>1, <2>4
    <3> QED BY <3>0, <3>1, <3>2, <3>3, <3>4, <3>5, OtherProc
  <2> QED BY <2>1, <2>5, <2>7, <2>8, DeleteStep
<1> QED BY <1>2, <1>3

(* The DELETE of contents that no file refers to, committed or not.        *)
LEMMA ExpireContentsStep == ASSUME IInv, ExpireContents PROVE IInv'
<1> USE Constants
<1> DEFINE V == expire.victims
           preview == [c \in Contents |-> IF c \in V THEN None ELSE db.preview[c]]
           cid == [c \in Contents |-> IF c \in V THEN db.cid[c] + 1 ELSE db.cid[c]]
           d == [db EXCEPT !.preview = preview, !.cid = cid, !.formats = @ \ V,
                           !.python = @ \ V]
<1>0. TypeOK /\ DbInv(db) /\ db \in DbType
  BY DEF IInv, TypeOK
<1>1. expire' \in [step : {"idle", "packages", "find_contents", "contents"},
                   victims : SUBSET (Nat \cup Contents)]
  BY DEF ExpireContents, ExpireTo
<1>2. CASE UNCHANGED <<db, lost>>
  <2>1. TypeOK'
    BY <1>0, <1>1, <1>2 DEF TypeOK, ExpireContents, local, job, place
  <2> QED BY <1>2, <2>1, LookStep DEF ExpireContents
<1>3. CASE ~UNCHANGED <<db, lost>>
  <2>1. /\ db' = d /\ lost' = {} /\ UNCHANGED <<local, asked, counters>>
        /\ V \cap Referenced(db.file) = {}
        /\ \A q \in Procs : Referenced(txn[q].file) \cap V = {}
    BY <1>3 DEF ExpireContents, WaitForDisk
  <2>2. /\ preview \in [Contents -> PreviewType] /\ cid \in [Contents -> Nat]
        /\ \A c \in Contents : c \in V => preview[c] = None /\ cid[c] = db.cid[c] + 1
        /\ \A c \in Contents : c \notin V => preview[c] = db.preview[c] /\ cid[c] = db.cid[c]
    <3>1. db.preview \in [Contents -> PreviewType] /\ db.cid \in [Contents -> Nat]
      BY <1>0 DEF DbType
    <3> QED BY <3>1 DEF PreviewType
  <2> HIDE DEF preview, cid, V
  <2>3. /\ d \in DbType /\ d.package = db.package /\ d.file = db.file /\ d.preview = preview
        /\ d.cid = cid /\ d.formats = db.formats \ V /\ d.sets = db.sets /\ d.member = db.member
        /\ d.closure = db.closure
    BY <1>0, <2>2 DEF DbType
  <2> HIDE DEF d
  <2>4. TypeOK'
    BY <1>0, <1>1, <2>1, <2>3 DEF TypeOK, local, job, place
  <2>5. \A f \in db.file : f.content \in Contents /\ f.content \notin V
    <3>1. db.file \subseteq FileRow
      BY <1>0 DEF DbType
    <3> QED BY <2>1, <3>1 DEF Referenced, FileRow
  <2>6. DbInv(d)
    <3>1. FilesHaveContents(d)
      BY <1>0, <2>2, <2>3, <2>5 DEF DbInv, FilesHaveContents
    <3>2. NewAnalysed(d)
      BY <1>0, <2>2, <2>3 DEF DbInv, NewAnalysed
    <3>3. ClosureOfMembers(d)
      <4>1. ASSUME NEW s \in Sets PROVE ElfMembers(d, d.member[s]) = ElfMembers(db, db.member[s])
        BY <2>3, <2>5 DEF ElfMembers
      <4> QED BY <1>0, <2>3, <4>1 DEF DbInv, ClosureOfMembers
    <3>4. AllFilesThere(d) /\ IdsUsed(d) /\ d.member = asked
      BY <1>0, <2>3 DEF DbInv, AllFilesThere, IdsUsed
    <3> QED BY <3>1, <3>2, <3>3, <3>4 DEF DbInv
  <2>7. DbInv(db)'
    BY <2>1, <2>6
       DEF DbInv, FilesHaveContents, AllFilesThere, NewAnalysed, ClosureOfMembers, IdsUsed
  <2>8. ASSUME NEW q \in Procs PROVE ProcInv(q)'
    <3>0. Same(q) /\ ProcInv(q) /\ ids' = ids /\ txn[q] \in TxnType
      BY <1>0, <2>1 DEF Same, local, job, place, IInv, TypeOK
    <3>1. pc[q] = "insert_package" => db'.package[Rpm(q)] = 0
      BY <2>1, <2>3, <3>0 DEF ProcInv, OwnsRpm
    <3>2. ASSUME NEW f \in txn[q].file, f.content \notin txn[q].inserted
          PROVE  /\ db'.preview[f.content] # None
                 /\ db.preview[f.content] = "full" => db'.preview[f.content] = "full"
      <4>1. f.content \in Contents /\ f.content \notin V
        BY <2>1, <3>0 DEF TxnType, FileRow, Referenced
      <4>2. db.preview[f.content] # None
        BY <3>0, <3>2 DEF ProcInv, OwnFilesHaveContents
      <4> QED BY <2>1, <2>2, <2>3, <4>1, <4>2
    <3>3. ASSUME NEW c \in txn[q].inserted PROVE db'.preview[c] = None
      <4>1. c \in Contents /\ db.preview[c] = None
        BY <3>0 DEF TxnType, ProcInv, OwnContents
      <4> QED BY <2>1, <2>2, <2>3, <4>1
    <3>4. ASSUME pc[q] = "file", found[q] # NotFound, Content(q) \notin txn[q].inserted
          PROVE  \/ found[q].cid < db'.cid[Content(q)]
                 \/ /\ db'.cid[Content(q)] = db.cid[Content(q)]
                    /\ db.preview[Content(q)] # None => db'.preview[Content(q)] # None
                    /\ db.preview[Content(q)] = "full" => db'.preview[Content(q)] = "full"
      <4> DEFINE c == Content(q)
      <4>1. /\ c \in Contents /\ found[q].cid \in Nat /\ db.cid[c] \in Nat
            /\ found[q].cid <= db.cid[c]
        BY <1>0, <3>0, <3>4, AddingFacts DEF ProcInv, FoundIsCurrent, TypeOK, DbType, Adding
      <4> HIDE DEF c
      <4>2. CASE c \in V
        BY <2>1, <2>2, <2>3, <4>1, <4>2 DEF c
      <4>3. CASE c \notin V
        BY <2>1, <2>2, <2>3, <4>1, <4>3 DEF c
      <4> QED BY <4>2, <4>3
    <3>5. IdIsFresh(q)' /\ OwnsSet(q)'
      BY <2>1, <2>3, <3>0 DEF ProcInv, IdIsFresh, OwnsSet, Same
    <3>6. db' \in DbType
      BY <2>1, <2>3
    <3> QED BY <3>0, <3>1, <3>2, <3>3, <3>4, <3>5, <3>6, OtherProc
  <2> QED BY <2>1, <2>4, <2>7, <2>8, DeleteStep
<1> QED BY <1>2, <1>3

(* --expire starts, and looks for contents.                                *)
LEMMA FindStep == ASSUME IInv, StartExpire \/ FindContents PROVE IInv'
<1>0. TypeOK /\ counters \in [id : Nat, runs : Nat, expires : Nat, crashes : Nat] /\ db \in DbType
  BY DEF IInv, TypeOK
<1>1. CASE StartExpire
  <2>1. PackageIds \ Members \subseteq Nat \cup Contents
    BY <1>0 DEF PackageIds, DbType
  <2>2. expire' \in [step : {"idle", "packages", "find_contents", "contents"},
                     victims : SUBSET (Nat \cup Contents)]
    BY <1>1, <2>1 DEF StartExpire, ExpireTo
  <2>3. /\ counters' \in [id : Nat, runs : Nat, expires : Nat, crashes : Nat]
        /\ counters'.id = counters.id /\ UNCHANGED <<db, lost, local, asked>>
    BY <1>0, <1>1 DEF StartExpire
  <2>4. TypeOK'
    BY <1>0, <2>2, <2>3 DEF TypeOK, local, job, place
  <2> QED BY <2>3, <2>4, LookStep
<1>2. CASE FindContents
  <2>1. expire' \in [step : {"idle", "packages", "find_contents", "contents"},
                     victims : SUBSET (Nat \cup Contents)]
    BY <1>2 DEF FindContents, ExpireTo
  <2>2. UNCHANGED <<db, lost, local, asked, counters>>
    BY <1>2 DEF FindContents
  <2>3. TypeOK'
    BY <1>0, <2>1, <2>2 DEF TypeOK, local, job, place
  <2> QED BY <2>2, <2>3, LookStep
<1> QED BY <1>1, <1>2

(* A crash brings back a state that was committed once.                    *)
LEMMA CrashStep == ASSUME IInv, Crash PROVE IInv'
<1> USE Constants, NoWritesFacts
<1>0. TypeOK /\ counters \in [id : Nat, runs : Nat, expires : Nat, crashes : Nat]
  BY DEF IInv, TypeOK
<1>1. /\ counters' \in [id : Nat, runs : Nat, expires : Nat, crashes : Nat]
      /\ counters'.id = counters.id
  BY <1>0 DEF Crash
<1>2. db' \in DbType /\ DbInv(db')
  BY <1>0 DEF Crash, IInv, TypeOK
<1>3. DbInv(db)'
  BY <1>1, <1>2 DEF Crash, DbInv, FilesHaveContents, AllFilesThere, NewAnalysed,
                    ClosureOfMembers, IdsUsed
<1>4. TypeOK'
  <2>1. /\ txn' \in [Procs -> TxnType] /\ pc' \in [Procs -> PCs] /\ todo' \in [Procs -> Seq(Rpms)]
        /\ entry' \in [Procs -> Nat] /\ found' \in [Procs -> [preview : PreviewType, cid : Nat]]
        /\ old' \in [Procs -> SUBSET Nat] /\ ids' \in [Procs -> SUBSET Nat]
    BY DEF Crash, PCs, NotFound, PreviewType
  <2>2. failure' \in [Procs -> {None, "set", "package", "contents", "expired", "gone",
                                "deadlock", "crash"}]
    BY <1>0 DEF Crash, TypeOK
  <2>3. expire' \in [step : {"idle", "packages", "find_contents", "contents"},
                     victims : SUBSET (Nat \cup Contents)]
    BY DEF Crash, ExpireTo
  <2>4. lost' = {} /\ UNCHANGED <<cmd, asked>>
    BY DEF Crash
  <2> QED BY <1>0, <1>1, <1>2, <2>1, <2>2, <2>3, <2>4 DEF TypeOK
<1>5. ASSUME NEW q \in Procs PROVE ProcInv(q)'
  <2>1. /\ txn'[q] = NoWrites /\ pc'[q] = "idle" /\ ids'[q] = {}
        /\ failure'[q] = failure[q] \/ failure'[q] = "crash"
    BY DEF Crash
  <2>2. (FilesSoFar(q) /\ OwnFilesHaveContents(q) /\ OwnContents(q) /\ FoundIsCurrent(q))'
    BY <2>1 DEF FilesSoFar, OwnFilesHaveContents, OwnContents, FoundIsCurrent
  <2>3. (OwnsRpm(q) /\ WritesInLoad(q) /\ OwnsSet(q) /\ IdIsFresh(q))'
    BY <2>1 DEF OwnsRpm, WritesInLoad, OwnsSet, IdIsFresh, Loading, Adding, Setting
  <2> QED BY <2>1, <2>2, <2>3 DEF ProcInv, IInv
<1>6. \A p, q \in Procs : p # q => Apart(p, q)'
  BY DEF Crash, Apart
<1>7. lost' = {}
  BY DEF Crash
<1> QED BY <1>3, <1>4, <1>5, <1>6, <1>7 DEF IInv

-----------------------------------------------------------------------------
(* The invariant is inductive.                                             *)
LEMMA NextIInv == IInv /\ [Next]_vars => IInv'
<1> SUFFICES ASSUME IInv, [Next]_vars PROVE IInv'
  OBVIOUS
<1>1. ASSUME NEW p \in Procs, NEW c \in Commands, Start(p, c) PROVE IInv'
  BY <1>1, StartStep
<1>2. ASSUME NEW p \in Procs, Step(p) PROVE IInv'
  <2>1. CASE LockRpm(p) \/ SelectPackage(p) \/ InsertPackage(p)
    BY <2>1, LockRpmStep, SelectPackageStep, InsertPackageStep
  <2>2. CASE SelectContents(p) \/ InsertContents(p) \/ AddFiles(p) \/ UpdatePreview(p)
    BY <2>2, SelectContentsStep, InsertContentsStep, AddFilesStep, UpdatePreviewStep
  <2>3. CASE AddDigests(p) \/ CommitLoad(p) \/ End(p)
    BY <2>3, AddDigestsStep, CommitLoadStep, EndStep
  <2>4. CASE CreateSet(p) \/ LockSet(p) \/ ReadSet(p) \/ WriteSet(p)
    BY <2>4, SetSteps
  <2>5. CASE CommitSet(p)
    BY <2>5, CommitSetStep
  <2> QED BY <1>2, <2>1, <2>2, <2>3, <2>4, <2>5 DEF Step
<1>3. ASSUME NEW p \in Procs, DeadlockDetected(p) PROVE IInv'
  BY <1>3, FailStep DEF DeadlockDetected
<1>4. CASE StartExpire \/ Expire
  BY <1>4, FindStep, ExpirePackagesStep, ExpireContentsStep DEF Expire
<1>5. CASE Crash
  BY <1>5, CrashStep
<1>6. CASE UNCHANGED vars
  <2>1. UNCHANGED <<db, lost, expire, asked, local, counters>>
    BY <1>6 DEF vars, server
  <2>2. TypeOK'
    BY <2>1 DEF IInv, TypeOK, local, job, place
  <2> QED BY <2>1, <2>2, LookStep
<1> QED BY <1>1, <1>2, <1>3, <1>4, <1>5, <1>6 DEF Next

(* Every reachable state satisfies the invariant.                          *)
THEOREM Invariance == Spec => []IInv
BY InitIInv, NextIInv, PTL DEF Spec

(* Every variable keeps its type: IDs are numbers, a preview is full,      *)
(* short or absent, and a process is at a statement of a command.          *)
THEOREM TypeCorrect == Spec => []TypeOK
<1>1. IInv => TypeOK
  BY DEF IInv
<1> QED BY <1>1, Invariance, PTL

(* No load of an RPM fails because another process has loaded the package: *)
(* lock_rpm covers both statements of intern_package.                      *)
THEOREM NoConflict == Spec => []NoPackageConflict
<1>1. IInv => NoPackageConflict
  BY DEF IInv, ProcInv, NoPackageConflict
<1> QED BY <1>1, Invariance, PTL

(* A package that can be seen has all its files, with contents, whatever   *)
(* transactions, --expire and crashes went on meanwhile.                   *)
THEOREM PackagesComplete == Spec => []CompletePackages
<1>1. ASSUME IInv, NEW r \in Rpms, db.package[r] # 0, NEW k \in DOMAIN FilesOf[r],
             NEW n \in ToSet(FilesOf[r][k].names)
      PROVE  /\ [package |-> db.package[r], name |-> n,
                 content |-> FilesOf[r][k].content] \in db.file
             /\ db.preview[FilesOf[r][k].content] # None
  <2> DEFINE f == [package |-> db.package[r], name |-> n, content |-> FilesOf[r][k].content]
  <2>1. f \in RowsOf(r, k, db.package[r])
    BY DEF RowsOf
  <2>2. f \in db.file
    BY <1>1, <2>1 DEF IInv, DbInv, AllFilesThere
  <2>3. db.preview[f.content] # None
    BY <1>1, <2>2 DEF IInv, DbInv, FilesHaveContents
  <2> QED BY <2>2, <2>3
<1>2. IInv => CompletePackages
  BY <1>1 DEF CompletePackages
<1> QED BY <1>2, Invariance, PTL

(* A file whose name keep_full_contents selects has its whole contents.    *)
THEOREM FullKept == Spec => []FullContentsKept
<1>1. IInv => FullContentsKept
  BY DEF IInv, DbInv, FilesHaveContents, FullContentsKept
<1> QED BY <1>1, Invariance, PTL

(* The contents of binary packages have been analysed, unless a source     *)
(* package has them, too.                                                  *)
THEOREM BinariesAnalysed == Spec => []BinaryContentsAnalysed
<1>1. ASSUME IInv, NEW r \in Rpms, db.package[r] # 0, NEW k \in DOMAIN FilesOf[r]
      PROVE  FilesOf[r][k].content \in db.formats \/ InSource(FilesOf[r][k].content)
  <2> DEFINE c == FilesOf[r][k].content
  <2>1. PICK n : n \in ToSet(FilesOf[r][k].names)
    BY Constants
  <2> DEFINE f == [package |-> db.package[r], name |-> n, content |-> c]
  <2>2. f \in RowsOf(r, k, db.package[r])
    BY <2>1 DEF RowsOf
  <2>3. f \in db.file
    BY <1>1, <2>2 DEF IInv, DbInv, AllFilesThere
  <2>4. db.preview[f.content] # None /\ c \in Contents
    BY <1>1, <2>3, Constants DEF IInv, DbInv, FilesHaveContents
  <2> QED BY <1>1, <2>4 DEF IInv, DbInv, NewAnalysed
<1>2. IInv => BinaryContentsAnalysed
  BY <1>1 DEF BinaryContentsAnalysed, InSource
<1> QED BY <1>2, Invariance, PTL

(* A set has exactly the members of its last successful update: lock_set   *)
(* and the unique name keep updates apart, and their COMMIT waits for the  *)
(* disk.                                                                   *)
THEOREM SetsAsAsked == Spec => []SetIsLastUpdate
<1>1. IInv => SetIsLastUpdate
  BY DEF IInv, DbInv, SetIsLastUpdate
<1> QED BY <1>1, Invariance, PTL

(* elf_closure refers to exactly the members of a set that have analysed   *)
(* ELF files, although loads, expiry and other sets change the tables it   *)
(* was computed from.                                                      *)
THEOREM ClosureOfSets == Spec => []ClosureCurrent
<1>1. IInv => ClosureCurrent
  BY DEF IInv, DbInv, ClosureOfMembers, ElfMembers, ClosureCurrent, ElfPackages
<1> QED BY <1>1, Invariance, PTL

-----------------------------------------------------------------------------
(* A package that is in a set stays.  For this the invariant does not      *)
(* suffice: the update of a set that is about to be committed refers only  *)
(* to packages that are there, a new package takes the place of no other,  *)
(* and the states that a crash may fall back to have the packages of the   *)
(* sets, since the COMMIT of the set waited for the disk.                  *)
There(i) == i # 0 /\ \E r \in Rpms : db.package[r] = i

(* The RPM of a load that has inserted its package has no row yet.         *)
NewPackage(p) == txn[p].package # 0 => db.package[Rpm(p)] = 0

(* update_package_set, before its COMMIT: what it added refers to packages *)
(* that are there.                                                         *)
AddsThere(p) ==
  pc[p] = "commit_set" =>
    /\ txn[p].member = Difference(p).add
    /\ \A i \in Difference(p).add : There(i)

(* package_set_member: every member of a set is a package of the database. *)
MembersThere == \A s \in Sets : \A i \in db.member[s] : There(i)

(* What a crash may fall back to has the packages of the sets, with the    *)
(* same IDs.                                                               *)
LostHasMembers ==
  \A d \in lost, r \in Rpms, s \in Sets :
    db.package[r] \in db.member[s] => d.package[r] = db.package[r]

KInv ==
  /\ \A p \in Procs : NewPackage(p) /\ AddsThere(p)
  /\ MembersThere /\ LostHasMembers

Kept(q) ==
  /\ txn'[q] = txn[q] /\ pc'[q] = pc[q] /\ cmd'[q] = cmd[q] /\ todo'[q] = todo[q]
  /\ old'[q] = old[q] /\ ids'[q] = ids[q]

(* A step of p that commits nothing.                                       *)
LEMMA KeepsLocal ==
  ASSUME KInv, NEW p \in Procs, UNCHANGED <<db, lost>>,
         \A q \in Procs : q # p => Kept(q), NewPackage(p)', AddsThere(p)'
  PROVE  KInv'
<1>1. ASSUME NEW q \in Procs, q # p PROVE NewPackage(q)' /\ AddsThere(q)'
  BY <1>1 DEF KInv, Kept, NewPackage, AddsThere, Rpm, Difference, There
<1>2. MembersThere' /\ LostHasMembers'
  BY DEF KInv, MembersThere, LostHasMembers, There
<1> QED BY <1>1, <1>2 DEF KInv

(* Neither does one that leaves the package of its transaction alone, and  *)
(* does not go on to the COMMIT of a set.                                  *)
LEMMA KeepsPackage ==
  ASSUME KInv, NEW p \in Procs, UNCHANGED <<db, lost>>,
         \A q \in Procs : q # p => Kept(q), pc'[p] # "commit_set",
         \/ txn'[p].package = 0
         \/ txn'[p].package = txn[p].package /\ todo'[p] = todo[p]
  PROVE  KInv'
<1>1. NewPackage(p)'
  BY DEF KInv, NewPackage, Rpm
<1>2. AddsThere(p)'
  BY DEF AddsThere
<1> QED BY <1>1, <1>2, KeepsLocal

(* An exception.                                                           *)
LEMMA KeepsFail ==
  ASSUME IInv, KInv, NEW p \in Procs, NEW why, Fail(p, why), UNCHANGED <<db, lost>>
  PROVE  KInv'
<1>1. /\ txn \in [Procs -> TxnType] /\ pc \in [Procs -> PCs] /\ todo \in [Procs -> Seq(Rpms)]
      /\ old \in [Procs -> SUBSET Nat] /\ ids \in [Procs -> SUBSET Nat]
  BY DEF IInv, TypeOK
<1>2. /\ txn'[p] = NoWrites /\ pc'[p] = "idle"
      /\ \A q \in Procs : q # p => Kept(q)
  BY <1>1 DEF Fail, Goto, Kept
<1> QED BY <1>2, NoWritesFacts, KeepsPackage

(* The statements of a load before the COMMIT, and the end of a command.   *)
LEMMA KeepsLoad ==
  ASSUME IInv, KInv, NEW p \in Procs,
         \/ LockRpm(p) \/ SelectPackage(p) \/ InsertPackage(p) \/ SelectContents(p)
         \/ InsertContents(p) \/ AddFiles(p) \/ UpdatePreview(p) \/ AddDigests(p) \/ End(p)
         \/ \E c \in Commands : Start(p, c)
  PROVE  KInv'
<1>1. /\ txn \in [Procs -> TxnType] /\ pc \in [Procs -> PCs] /\ todo \in [Procs -> Seq(Rpms)]
      /\ old \in [Procs -> SUBSET Nat] /\ ids \in [Procs -> SUBSET Nat]
      /\ DOMAIN cmd = Procs /\ txn[p] \in TxnType
      /\ pc[p] \in {"idle", "lock", "select_package"} => txn[p].package = 0
  BY DEF IInv, TypeOK, ProcInv, WritesInLoad, Adding
<1>2. UNCHANGED <<db, lost>>
  BY DEF LockRpm, SelectPackage, InsertPackage, SelectContents, InsertContents, AddFiles,
         UpdatePreview, AddDigests, End, Start, server
<1>3. CASE \E why : Fail(p, why)
  BY <1>2, <1>3, KeepsFail
<1>4. CASE /\ InsertPackage(p) /\ ~\E why : Fail(p, why)
  <2>1. /\ db.package[Rpm(p)] = 0 /\ UNCHANGED <<cmd, todo, ids, old>>
        /\ \E t : txn' = [txn EXCEPT ![p] = t]
        /\ pc' = [pc EXCEPT ![p] = IF FilesOf[Rpm(p)] = <<>> THEN "digest" ELSE "select"]
    BY <1>4 DEF InsertPackage, Goto, job
  <2>2. \A q \in Procs : q # p => Kept(q)
    BY <1>1, <2>1 DEF Kept
  <2>3. NewPackage(p)'
    BY <1>2, <2>1 DEF NewPackage, Rpm
  <2>4. AddsThere(p)'
    BY <1>1, <2>1 DEF AddsThere
  <2> QED BY <1>2, <2>2, <2>3, <2>4, KeepsLocal
<1>5. CASE ~InsertPackage(p) /\ ~\E why : Fail(p, why)
  <2>1. pc' = pc \/ \E where : where # "commit_set" /\ pc' = [pc EXCEPT ![p] = where]
    <3>1. CASE LockRpm(p) \/ SelectPackage(p) \/ SelectContents(p)
      BY <3>1 DEF LockRpm, SelectPackage, SelectContents, Goto
    <3>2. CASE InsertContents(p)
      BY <1>5, <3>2 DEF InsertContents, Goto
    <3>3. CASE AddFiles(p) \/ UpdatePreview(p)
      BY <1>5, <3>3 DEF AddFiles, UpdatePreview, NextEntry, Goto
    <3>4. CASE AddDigests(p) \/ End(p)
      BY <1>5, <3>4 DEF AddDigests, End, Goto
    <3>5. ASSUME NEW c \in Commands, Start(p, c)
          PROVE  pc' = pc \/ \E where : where # "commit_set" /\ pc' = [pc EXCEPT ![p] = where]
      BY <3>5 DEF Start, Goto, NextRpm, AfterLoads
    <3> QED BY <1>5, <3>1, <3>2, <3>3, <3>4, <3>5
  <2>2. /\ \/ UNCHANGED todo
           \/ pc[p] = "idle" /\ \E t : todo' = [todo EXCEPT ![p] = t]
        /\ \/ UNCHANGED ids
           \/ \E t : ids' = [ids EXCEPT ![p] = t]
        /\ \/ UNCHANGED cmd
           \/ \E t : cmd' = [cmd EXCEPT ![p] = t]
        /\ UNCHANGED old
    BY <1>5 DEF LockRpm, SelectPackage, SelectContents, InsertContents, AddFiles, UpdatePreview,
                AddDigests, End, Start, At, job, place
  <2>3. \/ UNCHANGED txn
        \/ \E t : txn' = [txn EXCEPT ![p] = t] /\ t.package = txn[p].package
    <3>1. CASE LockRpm(p) \/ InsertContents(p) \/ AddFiles(p) \/ UpdatePreview(p)
      <4>1. CASE LockRpm(p)
        <5>1. txn' = [txn EXCEPT ![p] = [txn[p] EXCEPT !.lock = Rpm(p)]]
          BY <1>1, <4>1 DEF LockRpm
        <5>2. [txn[p] EXCEPT !.lock = Rpm(p)].package = txn[p].package
          BY <1>1 DEF TxnType
        <5> QED BY <5>1, <5>2
      <4>2. CASE InsertContents(p)
        <5> DEFINE inserted == txn[p].inserted \cup {Content(p)}
                   full == IF WantedPreview(Entry(p)) = "full"
                           THEN txn[p].full \cup {Content(p)} ELSE txn[p].full
        <5>1. txn' = [txn EXCEPT ![p] = [txn[p] EXCEPT !.inserted = inserted, !.full = full]]
          BY <1>5, <4>2, Zenon DEF InsertContents
        <5> HIDE DEF inserted, full
        <5>2. [txn[p] EXCEPT !.inserted = inserted, !.full = full].package = txn[p].package
          BY <1>1 DEF TxnType
        <5> QED BY <5>1, <5>2
      <4>3. CASE AddFiles(p)
        <5>1. txn' = [txn EXCEPT ![p] = WithFiles(p)]
          BY <1>5, <4>3 DEF AddFiles
        <5>2. WithFiles(p).package = txn[p].package
          BY <1>1 DEF WithFiles, TxnType
        <5> QED BY <5>1, <5>2
      <4>4. CASE UpdatePreview(p)
        <5> DEFINE full == txn[p].full \cup {Content(p)}
        <5>1. txn' = [txn EXCEPT ![p] = [txn[p] EXCEPT !.full = full]]
          BY <1>1, <4>4 DEF UpdatePreview
        <5>2. [txn[p] EXCEPT !.full = full].package = txn[p].package
          BY <1>1 DEF TxnType
        <5> QED BY <5>1, <5>2
      <4> QED BY <3>1, <4>1, <4>2, <4>3, <4>4
    <3>2. CASE ~(LockRpm(p) \/ InsertContents(p) \/ AddFiles(p) \/ UpdatePreview(p))
      BY <1>5, <3>2 DEF SelectPackage, SelectContents, AddDigests, End, Start
    <3> QED BY <3>1, <3>2
  <2>4. pc'[p] # "commit_set"
    <3>1. pc[p] # "commit_set"
      BY <1>5 DEF LockRpm, SelectPackage, SelectContents, InsertContents, AddFiles, UpdatePreview,
                  AddDigests, End, Start, At
    <3> QED BY <1>1, <2>1, <3>1
  <2>5. \A q \in Procs : q # p => Kept(q)
    BY <1>1, <2>1, <2>2, <2>3 DEF Kept
  <2>6. \/ txn'[p].package = 0
        \/ txn'[p].package = txn[p].package /\ todo'[p] = todo[p]
    BY <1>1, <2>2, <2>3
  <2> QED BY <1>2, <2>4, <2>5, <2>6, KeepsPackage
<1> QED BY <1>3, <1>4, <1>5

(* The statements of a set update before the COMMIT: WriteSet finds that   *)
(* the packages it adds are there.                                         *)
LEMMA KeepsSet ==
  ASSUME IInv, KInv, NEW p \in Procs, CreateSet(p) \/ LockSet(p) \/ ReadSet(p) \/ WriteSet(p)
  PROVE  KInv'
<1>1. /\ txn \in [Procs -> TxnType] /\ pc \in [Procs -> PCs] /\ old \in [Procs -> SUBSET Nat]
      /\ txn[p] \in TxnType /\ txn[p].package = 0
  <2>1. TypeOK /\ WritesInLoad(p) /\ pc[p] \notin Adding \cup {"digest", "commit"}
    BY DEF IInv, ProcInv, Adding, CreateSet, LockSet, ReadSet, WriteSet, At
  <2> QED BY <2>1 DEF TypeOK, WritesInLoad
<1>2. UNCHANGED <<db, lost>>
  BY DEF CreateSet, LockSet, ReadSet, WriteSet, server
<1>3. CASE \E why : Fail(p, why)
  BY <1>2, <1>3, KeepsFail
<1>4. CASE ~WriteSet(p) /\ ~\E why : Fail(p, why)
  <2>1. /\ UNCHANGED <<cmd, todo, ids>>
        /\ UNCHANGED old \/ \E t : old' = [old EXCEPT ![p] = t]
        /\ \E where \in {"read_set", "write_set"} : pc' = [pc EXCEPT ![p] = where]
    BY <1>4 DEF CreateSet, LockSet, ReadSet, Goto, job, place
  <2>2. UNCHANGED txn \/ \E t : txn' = [txn EXCEPT ![p] = t] /\ t.package = 0
    <3>1. CASE CreateSet(p)
      <4> DEFINE t == [txn[p] EXCEPT !.created = cmd[p].set]
      <4>1. txn' = [txn EXCEPT ![p] = t] /\ t.package = 0
        BY <1>1, <1>4, <3>1 DEF CreateSet, TxnType
      <4> QED BY <4>1
    <3>2. CASE LockSet(p)
      <4> DEFINE t == [txn[p] EXCEPT !.lock = cmd[p].set]
      <4>1. txn' = [txn EXCEPT ![p] = t] /\ t.package = 0
        BY <1>1, <3>2 DEF LockSet, TxnType
      <4> QED BY <4>1
    <3>3. CASE ReadSet(p)
      BY <3>3 DEF ReadSet
    <3> QED BY <1>4, <3>1, <3>2, <3>3
  <2>3. \A q \in Procs : q # p => Kept(q)
    BY <1>1, <2>1, <2>2 DEF Kept
  <2>4. pc'[p] # "commit_set" /\ txn'[p].package = 0
    BY <1>1, <2>1, <2>2
  <2> QED BY <1>2, <2>3, <2>4, KeepsPackage
<1>5. CASE WriteSet(p) /\ ~\E why : Fail(p, why)
  <2> DEFINE add == Difference(p).add
             t == [txn[p] EXCEPT !.member = add]
  <2>1. /\ UNCHANGED <<cmd, todo, ids, old>> /\ add \subseteq PackageIds
        /\ txn' = [txn EXCEPT ![p] = t] /\ pc' = [pc EXCEPT ![p] = "commit_set"]
    BY <1>5 DEF WriteSet, Goto, job, place
  <2> HIDE DEF add
  <2>2. t.package = 0 /\ t.member = add
    BY <1>1 DEF TxnType
  <2> HIDE DEF t
  <2>3. \A q \in Procs : q # p => Kept(q)
    BY <1>1, <2>1 DEF Kept
  <2>4. txn'[p] = t
    BY <1>1, <2>1
  <2>5. NewPackage(p)'
    BY <2>2, <2>4 DEF NewPackage
  <2>6. AddsThere(p)'
    <3>1. Difference(p)'.add = add
      BY <2>1 DEF Difference, add
    <3>2. \A i \in add : There(i)'
      BY <1>2, <2>1 DEF PackageIds, There
    <3> QED BY <2>2, <2>4, <3>1, <3>2 DEF AddsThere
  <2> QED BY <1>2, <2>3, <2>5, <2>6, KeepsLocal
<1> QED BY <1>3, <1>4, <1>5

(* The COMMIT of a load: its package is new, and it is in no set yet.      *)
LEMMA KeepsCommitLoad ==
  ASSUME IInv, KInv, NEW p \in Procs, CommitLoad(p)
  PROVE  /\ KInv'
         /\ \A r \in Rpms : \/ db'.package[r] = db.package[r]
                            \/ db.package[r] = 0
<1> DEFINE R == Rpm(p)
           new == txn[p].package
<1>0. /\ TypeOK /\ ProcInv(p) /\ R \in Rpms /\ pc[p] = "commit" /\ txn[p].lock = R
  <2>1. TypeOK /\ ProcInv(p) /\ pc[p] = "commit"
    BY DEF IInv, CommitLoad, At
  <2> QED BY <2>1 DEF ProcInv, OwnsRpm, Loading, TypeOK, Rpm
<1>1. /\ db' = Committed(p, R) /\ lost' \subseteq lost \cup {db}
      /\ UNCHANGED <<cmd, old>> /\ txn' = [txn EXCEPT ![p] = NoWrites]
      /\ \E where : where # "commit_set" /\ pc' = [pc EXCEPT ![p] = where]
      /\ \E t : todo' = [todo EXCEPT ![p] = t]
      /\ \E t : ids' = [ids EXCEPT ![p] = t]
  <2> DEFINE where == NextRpm(cmd[p], todo'[p])
  <2>1. pc' = [pc EXCEPT ![p] = where]
    BY DEF CommitLoad, Goto
  <2>2. where # "commit_set"
    BY DEF NextRpm, AfterLoads
  <2> HIDE DEF where
  <2>3. /\ db' = Committed(p, R) /\ UNCHANGED <<cmd, old>> /\ txn' = [txn EXCEPT ![p] = NoWrites]
        /\ todo' = [todo EXCEPT ![p] = Tail(todo[p])]
        /\ ids' = [ids EXCEPT ![p] = IF new = 0 THEN ids[p] ELSE ids[p] \cup {new}]
    BY DEF CommitLoad
  <2>4. lost' \subseteq lost \cup {db}
    BY DEF CommitLoad
  <2> QED BY <2>1, <2>2, <2>3, <2>4
<1>2. /\ db'.member = db.member
      /\ \A r \in Rpms : db'.package[r] = IF r = R /\ new # 0 THEN new ELSE db.package[r]
  BY <1>0, <1>1, CommittedFields
<1>3. new # 0 => db.package[R] = 0 /\ \A s \in Sets : new \notin db.member[s]
  BY <1>0 DEF KInv, NewPackage, ProcInv, IdIsFresh
<1>4. \A r \in Rpms : db'.package[r] = db.package[r] \/ db.package[r] = 0
  BY <1>2, <1>3
<1>5. \A i : There(i) => There(i)'
  BY <1>4 DEF There
<1>6. /\ txn'[p] = NoWrites /\ pc'[p] # "commit_set"
      /\ \A q \in Procs : q # p => Kept(q)
  BY <1>0, <1>1 DEF TypeOK, Kept
<1>7. NewPackage(p)' /\ AddsThere(p)'
  BY <1>6, NoWritesFacts DEF NewPackage, AddsThere
<1>8. ASSUME NEW q \in Procs, q # p PROVE NewPackage(q)' /\ AddsThere(q)'
  <2>1. Kept(q) /\ NewPackage(q) /\ AddsThere(q) /\ Rpm(q)' = Rpm(q)
    BY <1>6, <1>8 DEF KInv, Kept, Rpm
  <2>2. ASSUME txn[q].package # 0 PROVE Rpm(q) \in Rpms /\ Rpm(q) # R
    <3>1. WritesInLoad(q) /\ OwnsRpm(q) /\ Apart(p, q)
      BY <1>8 DEF IInv, ProcInv
    <3>2. pc[q] \in Loading
      BY <2>2, <3>1 DEF WritesInLoad, Loading
    <3>3. todo[q] # <<>> /\ txn[q].lock = Rpm(q)
      BY <3>1, <3>2 DEF OwnsRpm
    <3>4. Rpm(q) \in Rpms
      BY <1>0, <3>3 DEF TypeOK, Rpm
    <3> QED BY <1>0, <3>1, <3>3, <3>4, Constants DEF Apart
  <2>3. NewPackage(q)'
    BY <1>2, <2>1, <2>2 DEF NewPackage, Kept
  <2>4. AddsThere(q)'
    BY <1>5, <2>1 DEF AddsThere, Kept, Difference
  <2> QED BY <2>3, <2>4
<1>9. MembersThere'
  BY <1>2, <1>5 DEF KInv, MembersThere
<1>10. LostHasMembers'
  <2>1. ASSUME NEW r \in Rpms, NEW s \in Sets, db'.package[r] \in db'.member[s]
        PROVE  db'.package[r] = db.package[r]
    BY <1>2, <1>3, <2>1
  <2> QED BY <1>1, <1>2, <2>1 DEF KInv, LostHasMembers
<1> QED BY <1>4, <1>7, <1>8, <1>9, <1>10 DEF KInv

(* The COMMIT of a set: what it had and what it adds is there, and the     *)
(* states without it are gone.                                             *)
LEMMA KeepsCommitSet ==
  ASSUME IInv, KInv, NEW p \in Procs, CommitSet(p)
  PROVE  KInv' /\ db'.package = db.package
<1> DEFINE s == cmd[p].set
<1>0. /\ TypeOK /\ pc[p] = "commit_set" /\ s \in Sets /\ old[p] = db.member[s]
      /\ db \in DbType
  <2>1. TypeOK /\ OwnsSet(p) /\ pc[p] = "commit_set"
    BY DEF IInv, ProcInv, CommitSet, At
  <2>2. cmd[p] \in Commands /\ s # None /\ old[p] = db.member[s]
    BY <2>1 DEF OwnsSet, Setting
  <2> QED BY <2>1, <2>2, Constants DEF TypeOK
<1>1. /\ db'.package = db.package
      /\ db'.member = [db.member EXCEPT ![s] = NewMembers(p)]
  BY <1>0 DEF CommitSet, DbType
<1>2. /\ (db' = db /\ lost' = lost) \/ lost' = {}
      /\ UNCHANGED <<cmd, todo, ids>> /\ txn' = [txn EXCEPT ![p] = NoWrites]
      /\ pc' = [pc EXCEPT ![p] = "end"] /\ old' = [old EXCEPT ![p] = {}]
  BY DEF CommitSet, WaitForDisk, Goto, job
<1>3. \A i : There(i) => There(i)'
  BY <1>1 DEF There
<1>4. /\ txn'[p] = NoWrites /\ pc'[p] = "end"
      /\ \A q \in Procs : q # p => Kept(q)
  BY <1>0, <1>2 DEF TypeOK, Kept
<1>5. NewPackage(p)' /\ AddsThere(p)'
  BY <1>4, NoWritesFacts DEF NewPackage, AddsThere
<1>6. ASSUME NEW q \in Procs, q # p PROVE NewPackage(q)' /\ AddsThere(q)'
  <2>1. Kept(q) /\ NewPackage(q) /\ AddsThere(q)
    BY <1>4, <1>6 DEF KInv
  <2> QED BY <1>1, <1>3, <2>1 DEF NewPackage, AddsThere, Kept, Rpm, Difference
<1>7. \A i \in NewMembers(p) : There(i)
  BY <1>0 DEF KInv, AddsThere, MembersThere, NewMembers, Difference
<1>8. MembersThere'
  <2>1. db.member \in [Sets -> SUBSET Nat]
    BY <1>0 DEF DbType
  <2> QED BY <1>0, <1>1, <1>3, <1>7, <2>1 DEF KInv, MembersThere
<1>9. LostHasMembers'
  BY <1>2 DEF KInv, LostHasMembers
<1> QED BY <1>1, <1>5, <1>6, <1>8, <1>9 DEF KInv

(* The DELETE statements: the victims are in no set, and an update that    *)
(* would add one is waited for.                                            *)
LEMMA KeepsExpire ==
  ASSUME IInv, KInv, StartExpire \/ Expire
  PROVE  /\ KInv'
         /\ \A r \in Rpms, s \in Sets :
              db.package[r] \in db.member[s] => db'.package[r] = db.package[r]
<1> DEFINE V == expire.victims
<1>0. TypeOK /\ db \in DbType /\ UNCHANGED local
  BY DEF IInv, TypeOK, StartExpire, Expire, ExpirePackages, FindContents, ExpireContents
<1>1. \A q \in Procs : Kept(q)
  BY <1>0 DEF local, job, place, Kept
<1>2. CASE db'.package = db.package /\ db'.member = db.member /\ (lost' = lost \/ lost' = {})
  <2>1. \A i : There(i) => There(i)'
    BY <1>2 DEF There
  <2>2. ASSUME NEW q \in Procs PROVE NewPackage(q)' /\ AddsThere(q)'
    BY <1>1, <1>2, <2>1 DEF KInv, NewPackage, AddsThere, Kept, Rpm, Difference
  <2>3. MembersThere' /\ LostHasMembers'
    BY <1>2, <2>1 DEF KInv, MembersThere, LostHasMembers
  <2> QED BY <1>2, <2>2, <2>3 DEF KInv
<1>3. CASE ExpirePackages /\ ~UNCHANGED <<db, lost>>
  <2>1. /\ \A q \in Procs : txn[q].member \cap V = {}
        /\ V \cap Members = {}
        /\ db' = [db EXCEPT !.package = [r \in Rpms |->
                                           IF db.package[r] \in V THEN 0 ELSE db.package[r]],
                            !.file = {f \in db.file : f.package \notin V}]
        /\ lost' = (IF db' = db THEN lost ELSE {})
    BY <1>3 DEF ExpirePackages, WaitForDisk
  <2>2. /\ \A r \in Rpms : db'.package[r] = IF db.package[r] \in V THEN 0 ELSE db.package[r]
        /\ db'.member = db.member
    BY <1>0, <2>1 DEF DbType
  <2>3. lost' = {}
    <3>1. lost' = (IF db' = db THEN lost ELSE {})
      BY <2>1
    <3>2. ~(db' = db /\ lost' = lost)
      BY <1>3
    <3> QED BY <3>1, <3>2, Zenon
  <2>4. \A i : There(i) /\ i \notin V => There(i)'
    BY <2>2 DEF There
  <2>5. \A s \in Sets : \A i \in db.member[s] : i \notin V
    BY <2>1 DEF Members
  <2>6. ASSUME NEW q \in Procs PROVE NewPackage(q)' /\ AddsThere(q)'
    <3>1. Kept(q) /\ NewPackage(q) /\ AddsThere(q) /\ WritesInLoad(q) /\ OwnsRpm(q)
      BY <1>1 DEF KInv, IInv, ProcInv
    <3>2. NewPackage(q)'
      <4>1. ASSUME txn[q].package # 0 PROVE Rpm(q) \in Rpms
        <5>1. todo[q] # <<>>
          BY <3>1, <4>1 DEF WritesInLoad, OwnsRpm, Loading
        <5> QED BY <1>0, <5>1 DEF TypeOK, Rpm
      <4> QED BY <2>2, <3>1, <4>1 DEF NewPackage, Kept, Rpm
    <3>3. AddsThere(q)'
      <4>1. ASSUME pc[q] = "commit_set"
            PROVE  \A i \in Difference(q).add : There(i)'
        <5>1. txn[q].member = Difference(q).add /\ \A i \in Difference(q).add : There(i)
          BY <3>1, <4>1 DEF AddsThere
        <5>2. \A i \in txn[q].member : i \notin V
          BY <2>1
        <5> QED BY <2>4, <5>1, <5>2
      <4> QED BY <3>1, <4>1 DEF AddsThere, Kept, Difference
    <3> QED BY <3>2, <3>3
  <2>7. MembersThere' /\ LostHasMembers'
    BY <2>2, <2>3, <2>4, <2>5 DEF KInv, MembersThere, LostHasMembers
  <2> QED BY <2>2, <2>5, <2>6, <2>7 DEF KInv
<1>4. CASE ~ExpirePackages \/ UNCHANGED <<db, lost>>
  <2>1. db'.package = db.package /\ db'.member = db.member /\ (lost' = lost \/ lost' = {})
    <3>1. CASE ExpireContents
      BY <1>0, <3>1 DEF ExpireContents, WaitForDisk, DbType
    <3>2. CASE ~ExpireContents
      BY <1>4, <3>2 DEF StartExpire, Expire, FindContents
    <3> QED BY <3>1, <3>2
  <2> QED BY <1>2, <2>1
<1> QED BY <1>3, <1>4

(* A crash of the server: what it falls back to has the packages of the    *)
(* sets.                                                                   *)
LEMMA KeepsCrash ==
  ASSUME IInv, KInv, Crash
  PROVE  /\ KInv'
         /\ \A r \in Rpms, s \in Sets :
              db.package[r] \in db.member[s] => db'.package[r] = db.package[r]
<1>1. /\ db' \in lost \cup {db} /\ lost' = {}
      /\ \A q \in Procs : txn'[q] = NoWrites /\ pc'[q] = "idle"
  BY DEF Crash
<1>2. \A r \in Rpms, s \in Sets :
        db.package[r] \in db.member[s] => db'.package[r] = db.package[r]
  BY <1>1 DEF KInv, LostHasMembers
<1>3. db'.member = db.member
  BY <1>1 DEF IInv, DbInv
<1>4. MembersThere'
  <2>1. ASSUME NEW s \in Sets, NEW i \in db.member[s] PROVE There(i)'
    <3>1. PICK r \in Rpms : db.package[r] = i /\ i # 0
      BY DEF KInv, MembersThere, There
    <3>2. db'.package[r] = i
      BY <1>2, <3>1
    <3> QED BY <3>1, <3>2 DEF There
  <2> QED BY <1>3, <2>1 DEF MembersThere
<1>5. \A q \in Procs : NewPackage(q)' /\ AddsThere(q)'
  BY <1>1, NoWritesFacts DEF NewPackage, AddsThere
<1> QED BY <1>1, <1>2, <1>4, <1>5 DEF KInv, LostHasMembers

(* What a step may never do: take a package away that is in a set.         *)
PackageStays ==
  \A r \in Rpms, s \in Sets :
    db.package[r] \in db.member[s] => db'.package[r] = db.package[r]

(* Every step keeps the invariant, and the packages of the sets.           *)
LEMMA NextKInv == IInv /\ KInv /\ [Next]_vars => KInv' /\ PackageStays
<1> SUFFICES ASSUME IInv, KInv, [Next]_vars PROVE KInv' /\ PackageStays
  OBVIOUS
<1>0. \A r \in Rpms, s \in Sets : db.package[r] \in db.member[s] => db.package[r] # 0
  BY DEF KInv, MembersThere, There
<1>1. ASSUME NEW p \in Procs,
             \/ LockRpm(p) \/ SelectPackage(p) \/ InsertPackage(p) \/ SelectContents(p)
             \/ InsertContents(p) \/ AddFiles(p) \/ UpdatePreview(p) \/ AddDigests(p) \/ End(p)
             \/ \E c \in Commands : Start(p, c)
      PROVE  KInv' /\ PackageStays
  <2>1. db' = db
    BY <1>1 DEF LockRpm, SelectPackage, InsertPackage, SelectContents, InsertContents, AddFiles,
                UpdatePreview, AddDigests, End, Start, server
  <2> QED BY <1>1, <2>1, KeepsLoad DEF PackageStays
<1>2. ASSUME NEW p \in Procs, CreateSet(p) \/ LockSet(p) \/ ReadSet(p) \/ WriteSet(p)
      PROVE  KInv' /\ PackageStays
  <2>1. db' = db
    BY <1>2 DEF CreateSet, LockSet, ReadSet, WriteSet, server
  <2> QED BY <1>2, <2>1, KeepsSet DEF PackageStays
<1>3. ASSUME NEW p \in Procs, CommitLoad(p) PROVE KInv' /\ PackageStays
  BY <1>0, <1>3, KeepsCommitLoad DEF PackageStays
<1>4. ASSUME NEW p \in Procs, CommitSet(p) PROVE KInv' /\ PackageStays
  BY <1>4, KeepsCommitSet DEF PackageStays
<1>5. ASSUME NEW p \in Procs, DeadlockDetected(p) PROVE KInv' /\ PackageStays
  <2>1. UNCHANGED <<db, lost>> /\ Fail(p, "deadlock")
    BY <1>5 DEF DeadlockDetected, server
  <2> QED BY <2>1, KeepsFail DEF PackageStays
<1>6. CASE StartExpire \/ Expire
  BY <1>6, KeepsExpire DEF PackageStays
<1>7. CASE Crash
  BY <1>7, KeepsCrash DEF PackageStays
<1>8. CASE UNCHANGED vars
  <2>1. UNCHANGED <<db, lost, txn, pc, cmd, todo, old, ids>>
    BY <1>8 DEF vars, server, local, job, place
  <2>2. \A q \in Procs : NewPackage(q)' /\ AddsThere(q)'
    BY <2>1 DEF KInv, NewPackage, AddsThere, Rpm, Difference, There
  <2>3. MembersThere' /\ LostHasMembers'
    BY <2>1 DEF KInv, MembersThere, LostHasMembers, There
  <2> QED BY <2>1, <2>2, <2>3 DEF KInv, PackageStays
<1> QED BY <1>1, <1>2, <1>3, <1>4, <1>5, <1>6, <1>7, <1>8 DEF Next, Step

(* At first no set has members, and no update runs.                        *)
LEMMA InitKInv == Init => KInv
<1> SUFFICES ASSUME Init PROVE KInv
  OBVIOUS
<1>1. db.member = [s \in Sets |-> {}]
  BY DEF Init, EmptyDb, EmptyPackage, EmptyFile, EmptyClosure
<1>2. \A q \in Procs : NewPackage(q) /\ AddsThere(q)
  BY NoWritesFacts DEF Init, NewPackage, AddsThere
<1> QED BY <1>1, <1>2 DEF KInv, MembersThere, LostHasMembers, Init

(* The members of every set are packages that are in the database.         *)
THEOREM SetsRefer == Spec => []MembersThere
<1>1. KInv => MembersThere
  BY DEF KInv
<1> QED BY <1>1, InitKInv, NextKInv, Invariance, PTL DEF Spec

(* Neither --expire, nor a load of the same RPM, nor a crash of the server *)
(* that undoes commits which had not reached the disk ever takes a package *)
(* away that is in a set, or gives it another ID.                          *)
THEOREM PackagesOfSetsStay == Spec => [][PackageStays]_vars
<1> QED BY InitKInv, NextKInv, Invariance, PTL DEF Spec
=============================================================================
