------------------------------ MODULE RpmStore ------------------------------
(***************************************************************************)
(* The database as the loading commands and --expire use it:               *)
(* lib/symboldb/rpm_load.cpp, lib/symboldb/database.cpp, do_update_set of  *)
(* src/symboldb.cpp, lib/symboldb/expire.cpp and the stored functions of   *)
(* schema-base.sql.  A process runs one command at a time.  Each statement *)
(* it sends is one step: it sees what is committed and what its own        *)
(* transaction wrote (READ COMMITTED), waits for a transaction that has    *)
(* inserted the same unique key or locked the row it changes, and fails    *)
(* with an exception that ends the process and so its transaction.  The    *)
(* server may crash; a commit without synchronous_commit is then lost with *)
(* all that follow it.                                                     *)
(***************************************************************************)
EXTENDS Naturals, Sequences, FiniteSets, SequencesExt

CONSTANTS
  Procs,      \* processes that load packages
  Rpms,       \* RPM files; each has a hash of its own
  Contents,   \* file contents, identified by their digest
  Names,      \* file names
  KeepFull,   \* names for which keep_full_contents is true
  PyNames,    \* names that end in .py
  Format,     \* Format[c]: "elf", or "text" if no signature is recognised
  Source,     \* the source RPMs; the others are binary
  FilesOf,    \* FilesOf[r]: the files of r, each with its hard-linked names
  Sets,       \* package sets
  Commands,   \* what a process may be asked to do
  MaxRuns,    \* bound on the number of commands started
  MaxExpires, \* bound on the number of times --expire is started
  MaxCrashes, \* bound on the number of crashes of the server
  None

File == [content : Contents, names : Seq(Names)]

ASSUME RpmStoreAssumption ==
  /\ KeepFull \subseteq Names /\ PyNames \subseteq Names
  /\ Format \in [Contents -> {"elf", "text"}]
  /\ Source \subseteq Rpms
  /\ None \notin Rpms \cup Sets /\ None \notin {"full", "short", "package"}
  /\ \A r \in Rpms : FilesOf[r] \in Seq(File)
  /\ \A r \in Rpms : \A k \in DOMAIN FilesOf[r] : FilesOf[r][k].names # <<>>
  /\ \A cmd \in Commands :
       /\ cmd.rpms \in Seq(Rpms)
       /\ cmd.set \in Sets \cup {None} /\ cmd.create \in BOOLEAN
  /\ MaxRuns \in Nat /\ MaxExpires \in Nat /\ MaxCrashes \in Nat

VARIABLES
  db,       \* the committed rows
  lost,     \* the committed states a crash may fall back to
  txn,      \* txn[p]: the rows the open transaction of p has written
  pc,       \* pc[p]: the next statement of p
  cmd,      \* cmd[p]: the command p runs, or ran last
  todo,     \* todo[p]: the RPMs p has not loaded yet
  entry,    \* entry[p]: the index of the file of Head(todo[p]) being added
  found,    \* found[p]: the row intern_file_contents found, or NotFound
  old,      \* old[p]: the members update_package_set has read
  ids,      \* ids[p]: the package IDs p has loaded
  failure,  \* failure[p]: the exception that ended the last command of p
  expire,   \* the state of --expire: "idle" or the step, with the victims
  asked,    \* asked[s]: what set s was last updated to, COMMIT having returned
  counters  \* package IDs and commands used so far

job == <<cmd, todo, ids, failure>>
place == <<entry, found, old>>
local == <<txn, pc, job, place>>
server == <<db, lost, expire, asked>>
vars == <<server, local, counters>>

(* The rows, keyed by what identifies them.  package[r] is the ID of the   *)
(* package with the hash of r, or 0; preview[c] how much of contents c is  *)
(* kept, or None; cid[c] tells the row of c from earlier ones that were    *)
(* deleted, as its contents_id does; formats and python the contents       *)
(* do_load_formats and load_python have looked at; closure[s] the packages *)
(* elf_closure refers to.                                                  *)
EmptyPackage == [r \in Rpms |-> 0]
EmptyFile == {}
EmptyClosure == [s \in Sets |-> {}]

EmptyDb ==
  [package |-> EmptyPackage,
   file |-> EmptyFile,
   preview |-> [c \in Contents |-> None],
   cid |-> [c \in Contents |-> 0],
   formats |-> {}, python |-> {},
   sets |-> {},
   member |-> [s \in Sets |-> {}],
   closure |-> EmptyClosure]

(* What a transaction wrote: the ID of the new package, its files, the     *)
(* contents it inserted and those whose preview it made full, analyses,    *)
(* the set it created, the members of the set it updates; and the advisory *)
(* lock it holds.                                                          *)
NoWrites ==
  [package |-> 0, file |-> {}, inserted |-> {}, full |-> {},
   formats |-> {}, python |-> {}, created |-> None, member |-> {}, lock |-> None]

NotFound == [preview |-> None, cid |-> 0]

Init ==
  /\ \E sets \in SUBSET Sets : db = [EmptyDb EXCEPT !.sets = sets]
  /\ lost = {}
  /\ txn = [p \in Procs |-> NoWrites]
  /\ pc = [p \in Procs |-> "idle"]
  /\ cmd = [p \in Procs |-> None]
  /\ todo = [p \in Procs |-> <<>>]
  /\ entry = [p \in Procs |-> 0]
  /\ found = [p \in Procs |-> NotFound]
  /\ old = [p \in Procs |-> {}]
  /\ ids = [p \in Procs |-> {}]
  /\ failure = [p \in Procs |-> None]
  /\ expire = [step |-> "idle", victims |-> {}]
  /\ asked = [s \in Sets |-> {}]
  /\ counters = [id |-> 0, runs |-> 0, expires |-> 0, crashes |-> 0]

-----------------------------------------------------------------------------
Rpm(p) == Head(todo[p])
Entry(p) == FilesOf[Rpm(p)][entry[p]]
Content(p) == Entry(p).content
Others(p) == Procs \ {p}

Binary(r) == r \notin Source

At(p, where) == pc[p] = where
Goto(p, where) == pc' = [pc EXCEPT ![p] = where]

(* What the transaction of p sees of contents c.                           *)
Preview(p, c) ==
  IF c \in txn[p].full THEN "full"
  ELSE IF c \in txn[p].inserted THEN "short" ELSE db.preview[c]

(* The preview that update_contents_preview chooses for a file.            *)
WantedPreview(f) ==
  IF \E n \in ToSet(f.names) : n \in KeepFull THEN "full" ELSE "short"

(* The rows of a committed transaction of p, which loads r.                *)
Committed(p, r) ==
  LET t == txn[p] IN
  [db EXCEPT
     !.package = IF t.package = 0 THEN @ ELSE [@ EXCEPT ![r] = t.package],
     !.file = @ \cup t.file,
     !.preview = [c \in Contents |->
                    IF c \in t.inserted \cup t.full THEN Preview(p, c) ELSE @[c]],
     !.formats = @ \cup t.formats,
     !.python = @ \cup t.python]

(* An exception ends the command; the server rolls the transaction back.   *)
Fail(p, why) ==
  /\ failure' = [failure EXCEPT ![p] = why]
  /\ txn' = [txn EXCEPT ![p] = NoWrites]
  /\ todo' = [todo EXCEPT ![p] = <<>>]
  /\ entry' = [entry EXCEPT ![p] = 0]
  /\ found' = [found EXCEPT ![p] = NotFound]
  /\ old' = [old EXCEPT ![p] = {}]
  /\ ids' = [ids EXCEPT ![p] = {}]
  /\ Goto(p, "idle")
  /\ UNCHANGED cmd

(* load_rpms, and what do_load_rpm, do_create_set and do_update_set do     *)
(* after it.  The set commands may be given no file at all.                *)
AfterLoads(c) ==
  IF c.set = None THEN "end" ELSE IF c.create THEN "create_set" ELSE "lock_set"

NextRpm(c, rpms) == IF rpms # <<>> THEN "lock" ELSE AfterLoads(c)

(* The command looks the set up before it loads anything: --create-set     *)
(* needs a new one, --update-set one that exists.                          *)
lookup_package_set(c) == c.set # None => (c.set \in db.sets) = ~c.create

Start(p, c) ==
  /\ At(p, "idle")
  /\ counters.runs < MaxRuns
  /\ counters' = [counters EXCEPT !.runs = @ + 1]
  /\ cmd' = [cmd EXCEPT ![p] = c]
  /\ IF lookup_package_set(c)
     THEN /\ todo' = [todo EXCEPT ![p] = c.rpms]
          /\ failure' = [failure EXCEPT ![p] = None]
          /\ Goto(p, NextRpm(c, c.rpms))
     ELSE failure' = [failure EXCEPT ![p] = "set"] /\ UNCHANGED <<todo, pc>>
  /\ UNCHANGED <<server, txn, ids, place>>

-----------------------------------------------------------------------------
(* rpm_load.                                                               *)

\* MUTANT: the RPM is not locked.
NoLockRpm(p) ==
  /\ At(p, "lock")
  /\ Goto(p, "select_package")
  /\ UNCHANGED <<server, txn, job, place, counters>>

(* txn_begin_no_sync and lock_rpm: the lock is kept until the transaction  *)
(* ends.                                                                   *)
LockRpm(p) ==
  /\ At(p, "lock")
  /\ \A q \in Others(p) : txn[q].lock # Rpm(p)
  /\ txn' = [txn EXCEPT ![p].lock = Rpm(p)]
  /\ Goto(p, "select_package")
  /\ UNCHANGED <<server, job, place, counters>>

(* The two statements of intern_package.  A package that is there already  *)
(* is not loaded again.                                                    *)
SelectPackage(p) ==
  /\ At(p, "select_package")
  /\ IF db.package[Rpm(p)] # 0
     THEN /\ ids' = [ids EXCEPT ![p] = @ \cup {db.package[Rpm(p)]}]
          /\ Goto(p, "digest")
     ELSE UNCHANGED ids /\ Goto(p, "insert_package")
  /\ UNCHANGED <<server, txn, cmd, todo, failure, place, counters>>

\* MUTANT: the package row is committed at once ("needs a transaction").
InsertPackageAutocommit(p) ==
  /\ At(p, "insert_package")
  /\ db' = [db EXCEPT !.package[Rpm(p)] = counters.id + 1]
  /\ txn' = [txn EXCEPT ![p].package = counters.id + 1]
  /\ counters' = [counters EXCEPT !.id = @ + 1]
  /\ entry' = [entry EXCEPT ![p] = 1]
  /\ Goto(p, IF FilesOf[Rpm(p)] = <<>> THEN "digest" ELSE "select")
  /\ UNCHANGED <<lost, job, found, old, expire, asked>>

(* The row with the same hash of another transaction makes it wait; once   *)
(* committed, it is a unique violation.                                    *)
InsertPackage(p) ==
  /\ At(p, "insert_package")
  /\ ~\E q \in Others(p) : txn[q].package # 0 /\ Rpm(q) = Rpm(p)
  /\ IF db.package[Rpm(p)] # 0
     THEN Fail(p, "package") /\ UNCHANGED counters
     ELSE /\ txn' = [txn EXCEPT ![p].package = counters.id + 1]
          /\ counters' = [counters EXCEPT !.id = @ + 1]
          /\ entry' = [entry EXCEPT ![p] = 1]
          /\ Goto(p, IF FilesOf[Rpm(p)] = <<>> THEN "digest" ELSE "select")
          /\ UNCHANGED <<job, found, old>>
  /\ UNCHANGED <<server>>

(* The two statements of symboldb.intern_file_contents.                    *)
SelectContents(p) ==
  /\ At(p, "select")
  /\ LET preview == Preview(p, Content(p)) IN
     IF preview = None
     THEN found' = [found EXCEPT ![p] = NotFound] /\ Goto(p, "insert")
     ELSE /\ found' = [found EXCEPT ![p] =
                         [preview |-> preview, cid |-> db.cid[Content(p)]]]
          /\ Goto(p, "file")
  /\ UNCHANGED <<server, txn, job, entry, old, counters>>

HoldsContents(q, c) == c \in txn[q].inserted

InsertContents(p) ==
  /\ At(p, "insert")
  /\ ~\E q \in Others(p) : HoldsContents(q, Content(p))
  /\ IF db.preview[Content(p)] # None
     THEN Fail(p, "contents")
     ELSE /\ LET row == [txn[p] EXCEPT
                          !.inserted = @ \cup {Content(p)},
                          !.full = IF WantedPreview(Entry(p)) = "full"
                                   THEN @ \cup {Content(p)} ELSE @]
             IN txn' = [txn EXCEPT ![p] = row]
          /\ Goto(p, "file")
          /\ UNCHANGED <<job, place>>
  /\ UNCHANGED <<server, counters>>

(* read_file: the next file of the RPM, if there is one.                   *)
NextEntry(p) ==
  IF entry[p] < Len(FilesOf[Rpm(p)])
  THEN entry' = [entry EXCEPT ![p] = @ + 1] /\ Goto(p, "select")
  ELSE UNCHANGED entry /\ Goto(p, "digest")

\* MUTANT: added is read the wrong way round.
AnalysedInverted(p) ==
  [formats |-> IF found[p] # NotFound /\ Binary(Rpm(p)) THEN {Content(p)} ELSE {},
   python |-> {}]

(* do_load_formats for contents that are new, load_python for others whose *)
(* first name ends in .py: the loop over the hard links tests              *)
(* file.infos.front() every time.  Source packages are not analysed.       *)
Analysed(p) ==
  LET f == Entry(p)
      added == found[p] = NotFound
      formats == added /\ Binary(Rpm(p))
      python == /\ Binary(Rpm(p))
                /\ IF added THEN /\ Format[f.content] = "text"
                                 /\ ToSet(f.names) \cap PyNames # {}
                   ELSE Head(f.names) \in PyNames
  IN [formats |-> IF formats THEN {f.content} ELSE {},
      python |-> IF python THEN {f.content} ELSE {}]

(* A row for each name of the file, and what the analysis adds.            *)
WithFiles(p) ==
  LET rows == {[package |-> txn[p].package, name |-> n, content |-> Content(p)] :
                 n \in ToSet(Entry(p).names)}
  IN [txn[p] EXCEPT !.file = @ \cup rows,
                    !.formats = @ \cup Analysed(p).formats,
                    !.python = @ \cup Analysed(p).python]

\* MUTANT: the preview of contents that are there already is left alone.
AddFilesKeepPreview(p) ==
  /\ At(p, "file")
  /\ txn' = [txn EXCEPT ![p] = WithFiles(p)]
  /\ NextEntry(p)
  /\ UNCHANGED <<job, found, old, server, counters>>

(* The rows of the file and of its hard links, and the analysis.  The file *)
(* row refers to the contents, which --expire may have removed since they  *)
(* were found.                                                             *)
AddFiles(p) ==
  /\ At(p, "file")
  /\ IF found[p] # NotFound /\ found[p].cid # db.cid[Content(p)]
     THEN Fail(p, "expired")
     ELSE /\ txn' = [txn EXCEPT ![p] = WithFiles(p)]
          /\ IF found[p].preview = "short" /\ WantedPreview(Entry(p)) = "full"
             THEN Goto(p, "update") /\ UNCHANGED entry
             ELSE NextEntry(p)
          /\ UNCHANGED <<job, found, old>>
  /\ UNCHANGED <<server, counters>>

(* update_contents_preview.  It waits for another update of the row.       *)
Updates(q, c) == c \in txn[q].full \ txn[q].inserted

UpdatePreview(p) ==
  /\ At(p, "update")
  /\ ~\E q \in Others(p) : Updates(q, Content(p))
  /\ txn' = [txn EXCEPT ![p].full = @ \cup {Content(p)}]
  /\ NextEntry(p)
  /\ UNCHANGED <<server, job, found, old, counters>>

(* The rest of rpm_load.  The digests of a package that was there already  *)
(* are there, too, unless --expire has removed the package meanwhile;      *)
(* then the new digest row refers to nothing.                              *)
AddDigests(p) ==
  /\ At(p, "digest")
  /\ IF txn[p].package = 0 /\ db.package[Rpm(p)] \notin ids[p]
     THEN Fail(p, "gone")
     ELSE Goto(p, "commit") /\ UNCHANGED <<txn, job, place>>
  /\ UNCHANGED <<server, counters>>

\* MUTANT: the lock of the RPM outlives the transaction.
CommitLoadKeepLock(p) ==
  /\ At(p, "commit")
  /\ db' = Committed(p, Rpm(p))
  /\ lost' = IF db' = db THEN lost ELSE lost \cup {db}
  /\ ids' = [ids EXCEPT ![p] =
               IF txn[p].package = 0 THEN @ ELSE @ \cup {txn[p].package}]
  /\ txn' = [txn EXCEPT ![p] = [NoWrites EXCEPT !.lock = Rpm(p)]]
  /\ todo' = [todo EXCEPT ![p] = Tail(@)]
  /\ entry' = [entry EXCEPT ![p] = 0]
  /\ found' = [found EXCEPT ![p] = NotFound]
  /\ Goto(p, NextRpm(cmd[p], todo'[p]))
  /\ UNCHANGED <<cmd, failure, old, expire, asked, counters>>

(* The commit of rpm_load does not wait for the disk.  load_rpms goes on   *)
(* with the next file.                                                     *)
CommitLoad(p) ==
  /\ At(p, "commit")
  /\ db' = Committed(p, Rpm(p))
  /\ lost' = IF db' = db THEN lost ELSE lost \cup {db}
  /\ ids' = [ids EXCEPT ![p] =
               IF txn[p].package = 0 THEN @ ELSE @ \cup {txn[p].package}]
  /\ txn' = [txn EXCEPT ![p] = NoWrites]
  /\ todo' = [todo EXCEPT ![p] = Tail(@)]
  /\ entry' = [entry EXCEPT ![p] = 0]
  /\ found' = [found EXCEPT ![p] = NotFound]
  /\ Goto(p, NextRpm(cmd[p], todo'[p]))
  /\ UNCHANGED <<cmd, failure, old, expire, asked, counters>>

(* The command returns 0.                                                  *)
End(p) ==
  /\ At(p, "end")
  /\ ids' = [ids EXCEPT ![p] = {}]
  /\ Goto(p, "idle")
  /\ UNCHANGED <<server, txn, cmd, todo, failure, place, counters>>

-----------------------------------------------------------------------------
(* do_create_set, from txn_begin on: no lock, but the name is unique.      *)
CreateSet(p) ==
  /\ At(p, "create_set")
  /\ \A q \in Others(p) : txn[q].created # cmd[p].set
  /\ IF cmd[p].set \in db.sets
     THEN Fail(p, "set")
     ELSE /\ txn' = [txn EXCEPT ![p].created = cmd[p].set]
          /\ Goto(p, "read_set")
          /\ UNCHANGED <<job, place>>
  /\ UNCHANGED <<server, counters>>

(* do_update_set, from txn_begin on.                                       *)

\* MUTANT: the set is not locked.
NoLockSet(p) ==
  /\ At(p, "lock_set")
  /\ Goto(p, "read_set")
  /\ UNCHANGED <<server, txn, job, place, counters>>

LockSet(p) ==
  /\ At(p, "lock_set")
  /\ \A q \in Others(p) : txn[q].lock # cmd[p].set
  /\ txn' = [txn EXCEPT ![p].lock = cmd[p].set]
  /\ Goto(p, "read_set")
  /\ UNCHANGED <<server, job, place, counters>>

(* update_package_set reads the members ...                                *)
ReadSet(p) ==
  /\ At(p, "read_set")
  /\ old' = [old EXCEPT ![p] = db.member[cmd[p].set]]
  /\ Goto(p, "write_set")
  /\ UNCHANGED <<server, txn, job, entry, found, counters>>

PackageIds == {db.package[r] : r \in Rpms} \ {0}

(* What update_elf_closure computes for the given members: only ELF files  *)
(* that were analysed take part.  Every one of the model needs a library   *)
(* that is found; in the program one that needs none has no row.           *)
ElfPackages(members) ==
  {i \in members : \E f \in db.file : /\ f.package = i
                                      /\ Format[f.content] = "elf"
                                      /\ f.content \in db.formats}

(* ... inserts and deletes the difference, and recomputes the closure if   *)
(* there was one.  A package that --expire removed cannot become a member. *)
Difference(p) == [add |-> ids[p] \ old[p], delete |-> old[p] \ ids[p]]

NewMembers(p) ==
  (db.member[cmd[p].set] \ Difference(p).delete) \cup Difference(p).add

WriteSet(p) ==
  /\ At(p, "write_set")
  /\ IF ~(Difference(p).add \subseteq PackageIds)
     THEN Fail(p, "gone")
     ELSE /\ txn' = [txn EXCEPT ![p].member = Difference(p).add]
          /\ Goto(p, "commit_set")
          /\ UNCHANGED <<job, place>>
  /\ UNCHANGED <<server, counters>>

\* MUTANT: the closure is only recomputed when packages were added.
ClosureIfAdded(p) ==
  IF Difference(p).add = {} THEN db.closure[cmd[p].set]
  ELSE ElfPackages(NewMembers(p))

NewClosure(p) ==
  IF Difference(p).add = {} /\ Difference(p).delete = {}
  THEN db.closure[cmd[p].set]
  ELSE ElfPackages(NewMembers(p))

(* COMMIT waits until this transaction and all before it are on disk; that *)
(* of a transaction which wrote nothing does not.                          *)
WaitForDisk == lost' = IF db' = db THEN lost ELSE {}

CommitSet(p) ==
  /\ At(p, "commit_set")
  /\ db' = [db EXCEPT !.sets = @ \cup ({txn[p].created} \ {None}),
                      !.member[cmd[p].set] = NewMembers(p),
                      !.closure[cmd[p].set] = NewClosure(p)]
  /\ WaitForDisk
  /\ asked' = [asked EXCEPT ![cmd[p].set] = ids[p]]
  /\ txn' = [txn EXCEPT ![p] = NoWrites]
  /\ old' = [old EXCEPT ![p] = {}]
  /\ Goto(p, "end")
  /\ UNCHANGED <<job, entry, found, expire, counters>>

-----------------------------------------------------------------------------
(* expire: autocommitted DELETE statements.  Each finds its victims, waits *)
(* for transactions that refer to one of them, and fails if a victim is    *)
(* referred to by then.                                                    *)

Members == UNION {db.member[s] : s \in Sets}
ClosureRefs == UNION {db.closure[s] : s \in Sets}

ExpireTo(step, victims) == expire' = [step |-> step, victims |-> victims]

StartExpire ==
  /\ expire.step = "idle"
  /\ counters.expires < MaxExpires
  /\ counters' = [counters EXCEPT !.expires = @ + 1]
  /\ ExpireTo("packages", PackageIds \ Members)
  /\ UNCHANGED <<db, lost, local, asked>>

ExpirePackages ==
  /\ expire.step = "packages"
  /\ \A p \in Procs : txn[p].member \cap expire.victims = {}
  /\ IF expire.victims \cap (Members \cup ClosureRefs) # {}
     THEN ExpireTo("idle", {}) /\ UNCHANGED <<db, lost>>
     ELSE /\ db' = [db EXCEPT
                      !.package = [r \in Rpms |->
                                     IF @[r] \in expire.victims THEN 0 ELSE @[r]],
                      !.file = {f \in @ : f.package \notin expire.victims}]
          /\ WaitForDisk
          /\ ExpireTo("find_contents", {})
  /\ UNCHANGED <<local, asked, counters>>

Referenced(files) == {f.content : f \in files}

FindContents ==
  /\ expire.step = "find_contents"
  /\ ExpireTo("contents", {c \in Contents : db.preview[c] # None}
                            \ Referenced(db.file))
  /\ UNCHANGED <<db, lost, local, asked, counters>>

ExpireContents ==
  /\ expire.step = "contents"
  /\ \A p \in Procs :
       Referenced(txn[p].file) \cap expire.victims = {}
  /\ IF expire.victims \cap Referenced(db.file) # {}
     THEN UNCHANGED <<db, lost>>
     ELSE /\ db' = [db EXCEPT
                      !.preview = [c \in Contents |->
                                     IF c \in expire.victims THEN None ELSE @[c]],
                      !.cid = [c \in Contents |->
                                 IF c \in expire.victims THEN @[c] + 1 ELSE @[c]],
                      !.formats = @ \ expire.victims,
                      !.python = @ \ expire.victims]
          /\ WaitForDisk
  /\ ExpireTo("idle", {})
  /\ UNCHANGED <<local, asked, counters>>

-----------------------------------------------------------------------------
(* p waits for the transaction of q to end.                                *)
WaitsFor(p, q) ==
  /\ p # q
  /\ \/ At(p, "insert") /\ HoldsContents(q, Content(p))
     \/ At(p, "update") /\ Updates(q, Content(p))
     \/ At(p, "create_set") /\ txn[q].created = cmd[p].set

(* The server finds transactions that wait for each other in a circle and  *)
(* ends one of them.                                                       *)
DeadlockDetected(p) ==
  /\ \E S \in SUBSET Procs :
       /\ p \in S
       /\ \A q \in S : \E r \in S : WaitsFor(q, r)
  /\ Fail(p, "deadlock")
  /\ UNCHANGED <<server, counters>>

(* The server crashes and recovers; every session is gone.                 *)
Crash ==
  /\ counters.crashes < MaxCrashes
  /\ counters' = [counters EXCEPT !.crashes = @ + 1]
  /\ db' \in lost \cup {db}
  /\ lost' = {}
  /\ txn' = [p \in Procs |-> NoWrites]
  /\ failure' = [p \in Procs |-> IF At(p, "idle") THEN failure[p] ELSE "crash"]
  /\ pc' = [p \in Procs |-> "idle"]
  /\ todo' = [p \in Procs |-> <<>>]
  /\ entry' = [p \in Procs |-> 0]
  /\ found' = [p \in Procs |-> NotFound]
  /\ old' = [p \in Procs |-> {}]
  /\ ids' = [p \in Procs |-> {}]
  /\ ExpireTo("idle", {})
  /\ UNCHANGED <<cmd, asked>>

Step(p) ==
  \/ LockRpm(p) \/ SelectPackage(p) \/ InsertPackage(p)
  \/ SelectContents(p) \/ InsertContents(p) \/ AddFiles(p) \/ UpdatePreview(p)
  \/ AddDigests(p) \/ CommitLoad(p)
  \/ CreateSet(p) \/ LockSet(p) \/ ReadSet(p) \/ WriteSet(p) \/ CommitSet(p)
  \/ End(p)

Expire == ExpirePackages \/ FindContents \/ ExpireContents

Next ==
  \/ \E p \in Procs : \/ \E c \in Commands : Start(p, c)
                      \/ Step(p)
                      \/ DeadlockDetected(p)
  \/ StartExpire \/ Expire
  \/ Crash

Spec == Init /\ [][Next]_vars

(* Every process runs, and the server detects deadlocks and queues the     *)
(* waiters of an advisory lock.                                            *)
Fairness ==
  /\ \A p \in Procs : WF_vars(Step(p))
  /\ WF_vars(\E p \in Procs : DeadlockDetected(p))
  /\ WF_vars(Expire)

FairSpec == Spec /\ Fairness

-----------------------------------------------------------------------------
(* A package that can be seen is complete: all of its files are there,     *)
(* with contents, whatever failed, expired or crashed meanwhile.           *)
CompletePackages ==
  \A r \in Rpms : db.package[r] # 0 =>
    \A k \in DOMAIN FilesOf[r] : \A n \in ToSet(FilesOf[r][k].names) :
      /\ [package |-> db.package[r], name |-> n,
          content |-> FilesOf[r][k].content] \in db.file
      /\ db.preview[FilesOf[r][k].content] # None

(* Loading the same RPM in several processes at once never fails because   *)
(* the package is already there: lock_rpm covers the SELECT and the INSERT *)
(* of intern_package.                                                      *)
NoPackageConflict == \A p \in Procs : failure[p] # "package"

(* A file that keep_full_contents selects has its whole contents in the    *)
(* database, also if they came in first under another name.                *)
FullContentsKept ==
  \A f \in db.file : f.name \in KeepFull => db.preview[f.content] = "full"

(* Contents of a binary package have been analysed, by whichever load      *)
(* added them, unless they are in a source package as well, which may have *)
(* come first.                                                             *)
BinaryContentsAnalysed ==
  \A r \in Rpms : db.package[r] # 0 /\ Binary(r) =>
    \A k \in DOMAIN FilesOf[r] :
      LET c == FilesOf[r][k].content IN
      \/ c \in db.formats
      \/ \E s \in Source : \E j \in DOMAIN FilesOf[s] :
           FilesOf[s][j].content = c

(* A set has the members that the last successful update asked for: no     *)
(* update is mixed with another one, and none is lost in a crash.          *)
SetIsLastUpdate == db.member = asked

(* elf_closure refers to exactly the members that have ELF files.  Rows    *)
(* left behind would keep --expire from deleting the package.              *)
ClosureCurrent ==
  \A s \in Sets : db.closure[s] = ElfPackages(db.member[s])

(* Every load, set update and expire ends: no two of them wait for each    *)
(* other's locks and uncommitted rows without the server noticing.         *)
CommandsEnd ==
  /\ \A p \in Procs : [](pc[p] # "idle" => <>(pc[p] = "idle"))
  /\ [](expire.step # "idle" => <>(expire.step = "idle"))

=============================================================================
