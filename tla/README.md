# A TLA+ model of symboldb

symboldb reads RPM packages, or whole package repositories, into a PostgreSQL
database: packages, files, file contents, ELF symbols and dependencies, Java
and Python information. It also keeps named *package sets* (a distribution at
one point in time) and, for each set, the *ELF closure*: which file needs which
other file at run time. Paths below are relative to the repository root; the
C++ code is in `include/`, `lib/` and `src/`, the stored functions are in
`schema-base.sql`.

The project models two kinds of code: the parts in which threads, processes,
transactions or loops meet, and the readers that turn files of several formats
into rows, for which long sequences of calls and unlucky cuts of the data are
what is hard to test.

## 1. Inventory

| Component | State | Operations | Who calls it | What is hard |
|---|---|---|---|---|
| `bounded_ordered_queue` (`include/cxxll/bounded_ordered_queue.hpp`) | ordered multimap, number of producers, a mutex, two condition variables | `add_producer`, `remove_producer`, `push`, `pop` | helper threads and main thread of the downloader | wakeups (signal or broadcast), the end of the last producer, the capacity after a wakeup |
| downloader (`lib/symboldb/download_repo.cpp`) | URLs to fetch, URLs that failed, package IDs, the queue | helper threads fetch into the file cache, the main thread loads into the database, up to three rounds | `--download-repo`, `--load-repo`, `--update-set-from-repo` | threads, retries, an advisory lock held over a blocking call, vectors read without their mutex |
| `rpm_load` (`lib/symboldb/rpm_load.cpp`, `lib/symboldb/database.cpp`, `schema-base.sql`) | one transaction per RPM; tables `package`, `file`, `file_contents`, analyses | lock, intern the package, intern contents, add files, analyse, commit | `--load-rpm`, set commands, downloader | several processes; select-then-insert; commits that a crash loses |
| package sets (`src/symboldb.cpp`, `database::update_package_set`) | `package_set_member` | read, write the difference, recompute the closure | `--create-set`, `--update-set`, downloader | two updates at a time; packages that disappear before they are members |
| expire (`lib/symboldb/expire.cpp`) | deletes rows that nothing needs | packages, contents, URL cache, Java classes, cached files | `--expire` | runs beside loads; decides from a snapshot |
| ELF closure (`lib/symboldb/update_elf_closure.cpp`) | a map of libraries by architecture and soname; a dependency relation; table `elf_closure` | resolve each `NEEDED` entry; close the relation; write the difference | set commands, `--show-soname-conflicts` | rows in any order, name conflicts, cycles, sets that change while they are traversed |
| `file_cache` | files named by digest, one temporary file per digest | look up, write, rename, unlink | downloader, expire, `get_file` | several processes, one temporary name, files that disappear, a crash before the data is on disk |
| download and URL cache (`lib/cxxll/url_source.cpp`, `lib/symboldb/download_source.cpp`) | table `url_cache`, cURL handles, data received and not yet read | fetch with one of several cache modes | repository metadata, downloader | callbacks that bring more than was asked for, select-then-insert without a transaction, transfers that break off |
| repository metadata (`repomd*`, `expat_source`, `gunzip_source`) | a pull parser over the push parser expat; element states; a decompressor | next event, next package | downloader | reads of any size, long sequences of calls, states reached by malformed input |
| `package_set_consolidator`, `rpm_evr` | newest version per name and architecture | add, values | set commands, downloader | version comparison |
| RPM, cpio, zip readers | files seen, hard-link groups | next file | `rpm_load`, `get_file` | boundaries, truncated input, the order of entries |
| ELF, Java, Maven analysers | none that outlives a file | parse | `rpm_load` | nested lists, special numbers, exceptions half way |
| `python_analyzer`, `subprocess` | pipes to a Python process | request, answer, restart | `rpm_load` | a process that dies between request and answer |
| `get_file` | a cursor over rows | next row | `--file` | names that were changed on the way into the database |
| database bindings (`pg*`) | connection handles | query, encode, split | all of `database` | widths, NULL, escaping |
| handles, sources, sinks, strings | - | - | all | numbers at their limits |
| command line, reports, `tosrpm` | - | - | the user | - |

The components interact as follows. A set command builds a list of RPM files
(directly, or with the downloader, from repository metadata), loads them one by
one with `rpm_load`, and then updates the set in one more transaction that also
updates the ELF closure. Helper threads of the downloader and its main thread
share the queue and two vectors. Processes share the database (rows, unique
keys, advisory locks) and the file cache. `--expire` runs in a process of its own.

`PROJECT.json` lists the hazards that follow from this, each at its line, and
the properties that cover them.

## 2. Modules

| Module | Models | Uses |
|---|---|---|
| `OrderedQueue` | what the queue promises: pushes block while it is full, pops deliver a least element, and end when it is empty and no producer is left | |
| `BoundedOrderedQueue` | the monitor: mutex, two condition variables, spurious wakeups | refines `OrderedQueue` |
| `Downloader` | the threads of `symboldb_download_repo`, and other processes | the queue is an instance of `OrderedQueue` |
| `RpmStore` | transactions of `rpm_load` and `do_update_set`, `--expire`, crashes of the server | |
| `SonameLookup` | `soname_map`, `ignore_some_conflicts`, `lookup` | |
| `ElfClosure` | the fixpoint loops of `update_elf_closure` and the update of the table | |
| `UrlSource` | `url_source`: its state as a record, its methods as operators | |
| `Download` | `download`, `download_source` and the table `url_cache`, several processes | extends `UrlSource` |
| `FileCache` | `file_cache` and what is done with its files: download, load, `--delete-rpms`, `--expire`; killed processes, a crash of the machine | |
| `ExpatSource` | the pull parser over expat | `XmlSource` |
| `StringSupport` | conversions: numbers, hexadecimal digits, checksums, URLs, UTF-8, quoting | |
| `GunzipSource` | the decompressor over zlib | |
| `XmlSource` | the sources the parser reads from on demand: plain data, and `primary_xml` with decompression and digest | extends `GunzipSource` |
| `Repomd` | the document tree, `repomd.xml`, `primary.xml`, the choice of the newest package | `ExpatSource`, `StringSupport` |
| `MavenUrl` | the URLs of POM files | `ExpatSource`, `StringSupport` |
| `XmlDocuments` | from `repomd.xml` of several repositories to the list of URLs, and POM files | the six above |
| `Subprocess` | `subprocess` and the descriptors it opens | |
| `PythonAnalyzer` | `python_analyzer.cpp` and `python_analyzer.py`, which talk over pipes | extends `Subprocess` |
| `RpmParser` | the header of an RPM file and its cpio archive | |
| `ElfImage` | sections, symbols with versions, `load_elf` | |
| `JavaClass` | class files, byte by byte | |
| `PgQuery` | parameters, results, arrays | |
| `PackageLoad` | `load_rpm_internal` from the file to the rows, and `get_file` | the four above |
| `BoundedOrderedQueue_proofs`, `Downloader_proofs`, `RpmStore_proofs`, `SonameLookup_proofs`, `ElfClosure_proofs`, `Download_proofs`, `FileCache_proofs`, `PythonAnalyzer_proofs` | type invariants, inductive invariants, lemmas and theorems (section 4) | each extends the module it is named after |
| `MCQueue`, `MCDownloader`, `MCRpmStore`, `MCLookup`, `MCClosure`, `MCDownload`, `MCFiles`, `MCMetadata`, `MCPython`, `MCPackage` | constants for TLC | |

Definitions marked `\* MUTANT` are variants of the definition that follows
them, with a bug somebody could have written. Nothing uses them; putting one in
the place of the original makes TLC report the property named in `PROJECT.json`.

### OrderedQueue and BoundedOrderedQueue

`map_` and `producers_` are the members of the class, `writer_wait` and
`reader_wait` the threads that wait on its two condition variables. A method runs
under the mutex up to its return or its `cond::wait`, so each action is the
stretch between two such points, and the thread that returns from `wait` tests
its condition again. `signal` wakes one waiting thread, `broadcast` all of them,
and a thread may wake without a signal, as POSIX permits.
The checks that throw (a push without producers, too many
producers, removing one too many) are guards of the same form as in the code.
`writer_woken` and `reader_woken` hold the threads that left a wait and have not
tested their condition again; `arg` is the element of a blocked push.
The refinement mapping is the identity on the content and the producers; a
blocked call is a blocked call whether or not it has been signalled.

`pop` removes an element with the least key. Elements of one key may come in
any order: the code takes `begin()` of a multimap, and the abstract queue
promises no more than the order of the keys.

### Downloader

One action for each step of a helper (`TakeUrl`, `LockDigest`, `FastTrack`,
`DownloadGood`, `DownloadBad`, `Push`, `PushReturns`, `FinishHelper`) and of the
main thread (`Spawn`, `Pop`, `PopReturns`, `Load`, `EndRound`, `UpdateSet`).
`Abort` stands for exceptions nobody catches, at the steps that can throw them.
The queue is the abstract one: `BoundedOrderedQueue` implements it, so the
composition is checked with the smaller state space. Other processes take and
release the digest locks of some packages, fill the cache and load packages.
`tries` is a history variable; nothing reads it.

The URLs of a command have different digests, as those of a repository have, and
the order of the package names, which is the order of the queue, is a constant.

### RpmStore

Each SQL statement is one step that sees the committed rows and those of its own
transaction. `db` holds the committed rows, `txn[p]` what the open transaction of
process `p` wrote and which advisory lock it holds. A statement that inserts a
unique key or updates a row which another open transaction has inserted or
updated waits; the server ends a transaction in a circle of them
(`DeadlockDetected`). `rpm_load` commits with `synchronous_commit` off: `lost`
holds the states a crash may fall back to, and is emptied by a commit that waits
for the disk, since the log is written in order; a transaction that wrote nothing
does not wait (`WaitForDisk`). `cid[c]` changes when the row
of contents `c` is deleted, because what a load found before that refers to the
deleted row.

Abstractions: contents are an identity, a recognised format and the length of
their preview (`short` or `full`; contents of at most 64 bytes, for which both
are the same, are not among them). Rows of a package that no other command reads
or waits for (dependencies, scripts, triggers, directories, symlinks) are the
subject of `PackageLoad`; the races of interned attributes, Java classes and
package URLs are left out. `--create-set` and `--update-set` differ at both ends: the former
fails if the set exists, inserts it in its last transaction and takes no
advisory lock, because the unique name makes another creator wait. Both may be
called without any file, which makes the set empty. The RPMs of one
command have different names, as `package_set_consolidator` returns them.
`elf_closure` is reduced to the packages it refers to: the members that have
ELF files. The program writes rows only for files with a `DT_NEEDED` that
resolves; which these are is the subject of `SonameLookup` and `ElfClosure`. A DELETE of `--expire` finds its victims in
one step, waits for transactions that refer to them, and deletes or fails in
another; that it may itself be part of a deadlock with a load is left out. That
COMMIT returns and that it is durable is one step.

### SonameLookup

The rows of the library query are added one by one in any order (`MaxRows`
bounds their number), with `ignore_some_conflicts` applied to the whole map, and
then one reference is looked up. `file_ref::priority` is any function from file
names to `Priorities`; the order of names, which breaks ties, is kept. The two
loops of `lookup` are taken row by row: the first one looks for the best library
(`Compare`), the second one lists the others after it (`Choose`, `ListChoice`,
`Report`). Results are the file chosen and the calls of the `conflicts` interface.

### ElfClosure

`direct` is the relation that lookups produced, `deps` the map of sets that the
loops extend, `needing`, `todo` and `changed` where the loops stand. The
innermost loop inserts into the set which the middle loop traverses: elements
greater than the current one will still be seen in this traversal, smaller ones
will not, as with the iterators of `std::set`. Then the rows of `elf_closure`
that are missing are inserted and those that are too many are deleted.

### UrlSource and Download

A file on the server is a sequence of numbered blocks, so that a block that is
lost, repeated or out of order can be told; a version of the file is its date
and its length (`Sizes`). `UrlSource` has the members of `url_source::impl`
and what libcurl knows of the transfer. `read` is cut where it waits:
`BeginRead` is the part up to the loop around `curl_multi_perform`, the callback
`write_function` may run any number of times with any number of blocks, and
`Return` is the rest, with `check`. `Respond`, `Deliver`, `Complete` and
`BreakOff` are the server and libcurl, and external: a response may lack a date
and a length, and the status may be an error.

`Download` chooses among the cache modes (`Start`, `Fetch`, `Connect`,
`Compare`), reads to the end of the file or gives up (`Read`, `GiveUp`), and
stores the data with the two statements of `url_cache_update`
(`SelectForUpdate`, `WriteRow`); between any of them, other processes do the
same, `--expire` deletes the row (`ExpireUrlCache`) and the file on the server is
replaced (`Publish`). Left out: errors of the multi interface itself, the wait
in `select`, the limit on the length of cached data, and `last_access`, of which
only the consequence (a row may expire) is kept. `version` in a row is a history
variable: where its data came from.

### FileCache

A file is an inode with blocks; `names` has the two names that a digest gives,
`<hex>` and `<hex>.tmp`. So it can be told whether a process writes into a file
that another one has renamed meanwhile, or unlinks one that is not its own. One
action for each system call: mkdir, open with `O_TRUNC`, write, fsync, rename,
unlink. A process follows one URL from `download_url` to the package set; the
advisory lock is held from before the look into the database to the return of
`push`, and so not while the file is loaded. `rpm_load` opens the file twice, to
parse it and to compute its digest; a file that was damaged may be refused by
either. `Kill` ends a process, and the server releases its lock; `Crash` stops
the machine, and of each file that was not synchronised the data may be there,
gone or zero; the machine may crash again afterwards. `removed`,
`torn` and `replaced` are history variables.

### ExpatSource, StringSupport, GunzipSource, XmlSource, Repomd, MavenUrl, XmlDocuments

An XML document is a sequence of tokens, a compressed file one of headers, data
and trailers; both arrive in chunks that are cut anywhere. The parser and the
decompressor are records, their methods operators from one record to the next.
`feed` reads from the source (`XmlSource.read`) and hands the chunk to expat,
whose callbacks fill `upcoming_`; `next`,
`text_and_next`, `skip` and `unnest` take events from there. An exception sets
`exc`, and no method is called afterwards. The readers of `repomd.xml`,
`primary.xml` and POM files are translated on top of these methods, loop for
loop. `XmlDocuments` runs them: one action reads `repomd.xml` (`Acquire`), one
opens `primary.xml` and one its root element (`OpenPrimary`, `OpenParser`), one
reads the next package and adds it to the consolidator (`NextPackage`), one goes
on to the next repository, and `ChooseUrls` is the rest of
`symboldb_download_repo` up to the downloader, with `--exclude-name`. The
properties compare with what the tokens say by position, without a parser.
A source is the sequence of the reads that can be made from it, with the error or
the comparison of the digest at its end, and the parser takes them one by one.
It stops at the end of the root element, so the model, like the program, may
accept a file that is damaged behind it, and does not compare the digest.

Strings are sequences of bytes where a conversion looks into them, and words
that stand for themselves elsewhere. `ULLONG_MAX` and `INT_MAX` are constants,
so that numbers at their limits are in reach. The epoch of a package becomes
the string of one byte that `evr.epoch = info.epoch` makes of it.

### PythonAnalyzer and Subprocess

`start` makes its pipes and the child call by call; any of the calls may fail,
and the record has the descriptors that are open then. The two sides of the
protocol are two processes with pipes of `Capacity` units in between: the caller
sends length and source, the helper reads them, parses, and writes six fields,
and either side blocks when a pipe is full or empty. `ast.parse` is an arbitrary
function (`Parsed`) from code to a list of nodes or a syntax error; what the
script collects of the nodes is translated. A helper may die at any point.

### RpmParser, ElfImage, JavaClass, PgQuery, PackageLoad

`PackageLoad` takes RPM files from a set and performs `load_rpm_internal`: the
header with its dependencies, scripts and triggers, then one entry of the
archive after the other with the check of its digest, the rows of `file`, and the
analysis by format, and in the end `get_file`. Every statement goes through
`PgQuery`, which sends integers of the width of their type, in bytes with `Base`
values. librpm, libelf, zlib and libarchive decode what they decode in the program:
a header is a record of tags, an image one of sections. Class files are bytes,
because `JavaClass` is the decoder. `Meaning` says what the class files of the
instance mean, independently of the decoder. How a file is recognised
(`is_elf`, `looks_like_xml`, `is_python`) is part of the contents (`What`).

The unique keys of `schema-index.sql` that one load can violate are in the
statements: a repeated interface, class of an archive, `DT_NEEDED`, `DT_RPATH` or
`DT_RUNPATH`, and a repeated name of a file abort it. If a header has a name
twice, `files[name]` keeps the last. Names of archive entries are looked up as
`name_normalized` makes them, and a header may have names without a leading
slash. `elf_strptr` may return NULL, which is assigned to a `std::string` and ends
the process: `load_elf` then has no result. `file_attribute_cache` saves
statements and is left out, since it gives the attributes that the statements
would find.

## 3. Runs

| Run | Shows |
|---|---|
| `queue` | four threads that call any method in any order: the capacity holds, no wakeup is lost, and the monitor implements the abstract queue, with its progress |
| `downloader` | no URL is lost or handled twice in three rounds; the assertions at the end of a round hold; a set is updated to all packages or, with `--ignore-download-errors`, to those without error; the command ends |
| `load` | two processes load RPMs with common contents beside `--expire` and a crash: visible packages are complete, loading the same RPM twice never conflicts, previews are as long as any name asks for, contents of binary packages are analysed; loads, the creation and the update of a set and `--expire` end |
| `sets` | two processes create and update one set beside `--expire` and a crash: the members are those of the last successful command, the closure is that of the members |
| `lookup` | a soname is resolved whenever a library provides it, ignored packages come last, the best file is chosen whatever the order of rows, conflicts are reported |
| `closure` | for every graph the loops end and the table becomes the transitive closure |
| `download` | two processes read a URL in any cache mode: the reader gets the data in order whatever the sizes of callbacks and buffers, no error page is passed on or stored, what `check_cache` takes from the cache is the file the server announced, even though the cache may hold truncated data, downloads end |
| `files` | two processes fill and use the cache beside `--expire`: a file with the name of a digest is whole (`CachedIsWhole`; a crash may tear one that was not synchronised), what is loaded is what the digest says (`LoadedIsVerified`), a process is brought down only by a file that was removed or torn (`FailsForReason`), everyone ends and no lock stays |
| `metadata` | for all cuts of the data: the packages and entries are those of the documents, field by field, or the file is refused (`PackagesAsWritten`); nothing good is refused, and no damage in front of the end of the document overlooked (`NoFalseAlarm`); URLs of POM files have the right type; the newest package of each name over all repositories is downloaded once unless excluded (`NewestChosen`) |
| `python` | an answer is that of the source asked for, from the right interpreter; failing calls leave no descriptor open; the two sides never wait for each other |
| `package` | files of a package become rows once each, with what the header says, or the package is refused with a reason; dependencies, scripts and triggers; the symbols of ELF images with their versions; Java classes and Python names; `get_file` finds them again |
| `truncated` | what the code does differs from what its documentation says (section 6) |

Bounds, and why they are enough:

* `queue`: four threads for a queue of two places, so that two pushes can be
  blocked while it is full, or two or more pops, when one or two producers are left;
  four elements with two keys.
* `downloader`: two helpers (the queue then has two places), three packages. A
  helper can be blocked on the full queue while the other one fails or ends. One
  package is contended by another process. Every download may fail in every round.
* `load`: two processes, three commands (a process may start again after the
  other one ended), one `--expire`, one crash, three RPMs that share two
  contents, in opposite order, and one of which is a source package; one set,
  which commands may create or update.
* `sets`: two processes, three set commands with overlapping packages or none.
* `lookup`: up to three rows over two architectures, two sonames and three
  packages, one of which may be ignored.
* `closure`: all graphs on four files in which at most the first one depends on
  itself. Four files make chains whose order is against the order of traversal.

* `download`: two processes, two downloads, one expiry; a file of two blocks, of
  which callbacks and reads may take one or both, replaced by an empty one. Two
  downloads are enough for both orders of two writers of the row, and for one
  that finds what the other left; two blocks for data that exceeds a buffer.

* `files`: two processes, three commands, one digest (files of different digests
  have nothing in common), two blocks, so that a file can be half there; one
  `--expire`, one killed process, one crash.
* `metadata`: about a dozen documents for `primary.xml`, one defect each, with
  two packages; reads of one, two or seven tokens or of all of them; two
  repositories in either order.
* `python`: pipes of two units, so that every message blocks; three calls over
  code that both, one or none of the interpreters accept.
* `package`: one package, from seven families; up to three files, hard-linked,
  ghosts or plain, in any order, and repeated or unusual names; archives cut off in every field of an entry. A
  byte has four values, so that `int` ends at 127.

Deadlock checking is off: commands end, and queues may wait for a caller. What must not stop
is stated as a liveness property.

Fairness. Queue: a thread that left a wait gets the mutex in the end, since no
method holds it over anything that blocks; callers may stop calling. Downloader: each
thread runs (weak fairness); transfers end, because cURL gives up; another
process releases its lock, and because PostgreSQL queues those who wait for an
advisory lock, each of them gets it (strong fairness on `LockDigest`). Store:
each process runs, an `--expire` that was started too, and the server detects
deadlocks. There is no fairness on
starting commands, on `--expire` being started or on crashes. Closure: the loop
runs. Download: each process runs, and a transfer ends, because libcurl has
timeouts for connections and for low speed. Files: each process runs, and gets
the advisory lock of a digest in its turn (strong fairness). Python: the caller
and the helpers run; a helper need not die. `metadata` and `package` are
sequential and have safety properties only.

## 4. Proofs

Eight modules prove what the runs check on small instances for all values of the
constants, that is for any number of processes, threads, files, packages and
commands, within the named assumptions. They share a plan: an invariant `IInv`
that has the property as a part or as a consequence, a lemma for the initial
states, a lemma for each action or group of actions, `NextIInv` to put them
together, and a theorem `Spec => [](...)` for each property. `TypeOK` is stated in
the proof module; it is proved there and checked by no run.

| Module | Theorem | States |
|---|---|---|
| `BoundedOrderedQueue_proofs` | `TypeCorrect`, `NeverOverfull`, `WritersWoken`, `ReadersWoken` | `TypeOK`, `CapacityRespected`, `NoLostWriterWakeup`, `NoLostReaderWakeup` |
| | `SafetyRefinement` | every step is a step of `OrderedQueue` or a stutter |
| `Downloader_proofs` | `TypeCorrect`, `RoundsAsserted`, `UrlsOnce`, `SetsComplete` | `TypeOK`, `RoundAssertions`, `EachUrlOnce`, `SetUpdateComplete` |
| `RpmStore_proofs` | `TypeCorrect`, `NoConflict`, `PackagesComplete`, `FullKept`, `BinariesAnalysed` | `TypeOK`, `NoPackageConflict`, `CompletePackages`, `FullContentsKept`, `BinaryContentsAnalysed` |
| | `SetsAsAsked`, `ClosureOfSets` | `SetIsLastUpdate`, `ClosureCurrent` |
| | `SetsRefer`, `PackagesOfSetsStay` | `MembersThere`; no step does away with a package of a set (`PackageStays`) |
| `SonameLookup_proofs` | `TypeCorrect`, `Resolved`, `BestReturned`, `AllConflictsReported` | `TypeOK`, `ResolvedIfProvided`, `BestChosen`, `ConflictsReported` |
| `ElfClosure_proofs` | `TypeCorrect`, `ReachableCorrect`, `ClosureCorrect` | `TypeOK`, `OnlyReachable`, `TableIsClosure` |
| `Download_proofs` | `TypeCorrect`, `BlocksInOrder`, `ErrorPagesDropped`, `CacheCurrent` | `TypeOK`, `InOrder`, `NoErrorPage`, `CheckedIsCurrent` |
| `FileCache_proofs` | `TypeCorrect`, `CacheCorrect`, `LoadCorrect`, `AbortsExcused` | `TypeOK`, `CachedIsWhole`, `LoadedIsVerified`, `FailsForReason` |
| | `NamedFileStays` | no step writes to a file that has the name of a digest (`NamedNeverWritten`) |
| `PythonAnalyzer_proofs` | `InterpretersInOrder`, `NothingLeaks` | `HelpersOK`, `NothingLeftOpen` |
| | `ConversationInStep`, `ResultRight` | `Faithful`, `ResultOfThisSource` |

### Queue

The wakeup properties count: while an unsignalled push waits, the free
places are at most as many as the woken pushes; while an unsignalled pop waits,
there is a producer, and the elements are at most as many as the woken pops.
They are inductive only together (`IInv`), with the bookkeeping of blocked threads in
`TypeOK` and with `PendingFresh`: the element of a blocked push is neither in the
queue nor in another blocked push, so that inserting it adds one element.
Assumption (`BoundedQueueAssumption`): finitely many threads, a positive capacity.

### Downloader

`EachUrlOnce` counts the places of a URL, which no action preserves by itself.
The invariant says instead that two places are never occupied at once
(`InOnePlace`), that a URL is not twice in the same one (`OnceThere`), and that it
is somewhere (`NoneLost`). Each step that moves a URL, from a vector to a helper,
to the queue, to the main thread, is an instance of `MoveStep`. `TriesOK` ties the
number of tries to the round, which gives that a URL is given up after three of
them. The assertions of `process()` need `HelpersCounted` (the producers are the
helpers that have not ended, and a helper ends only when `urls_` is empty) and
`MainOK`; that the set is complete follows from both and `EachUrlOnce`. After an
exception (`Abort`) the places are not constrained. Assumptions: there is
a helper, the list of URLs has no duplicates.

### RpmStore

`DbInv` is about a committed state, and must hold for `db` and for every state in
`lost`, because a crash makes one of those current. `ProcInv` says of each
process what its uncommitted rows will do to it: the files of the entries read so
far are there (`FilesSoFar`), have contents that are inserted by the same
transaction or held by its file rows (`OwnFilesHaveContents`), and what a SELECT has
found is still so or the row is another one (`FoundIsCurrent`, with the counter
`cid`). `OwnsRpm` and `OwnsSet` are what the advisory locks and the unique name of
a set give; `Apart` says that two transactions have locked, inserted and numbered
different things. `NoPackageConflict` is `OwnsRpm` at the INSERT; that updates are
not mixed is `OwnsSet`: the members read are still those of the set at COMMIT, and
the difference turns them into what was asked for.

`MembersThere` and `PackageStays`, which no run checks, are about the race of
`--expire` with an update of a set: the victims are determined in one step and
deleted in another, and in between a set may come to refer to one of them. The
invariant `KInv` adds to `IInv` that an update which has written its difference
refers to packages that are there (`AddsThere`), that the package of a load has
no row yet (`NewPackage`), and that every state in `lost` has the packages that
the sets of `db` refer to, with the same IDs (`LostHasMembers`). The last part
holds because the COMMIT of a set waits for the disk, and with it for the loads
that were committed before without waiting.

Assumptions (`RpmStoreAssumption`): a file of an RPM has a name; the constants have their types.

### SonameLookup

`Mapped` says what `ignore_some_conflicts` leaves; `Scanned` and `Listed` are the
invariants of the two loops of `lookup`: the best of the rows compared so far, and
the rows listed so far, each once and the best one first. That a soname is
resolved (`LeftOver`) is an argument about cardinalities: rows are removed only if
that leaves exactly one of those that provide the name.

### ElfClosure

For any set of files, any dependency graph and any
old table, at the end the table is the transitive closure: it contains the
direct dependencies, is transitive, and is contained in every such relation. The
invariant says that `deps` holds the direct dependencies (`HasDirect`) and only
what every transitive relation with them holds (`InEvery`), and what the loops have
settled: while a pass has not changed anything, the sets of the files already visited are closed
(`FilesSettled`), and so is that of the current one for the elements already
visited (`DepsSettled`); an element that was inserted before the current one sets
`changed`, which makes another pass necessary.

### Download

`Sound` relates a source to what was read from it, in each phase. `Chained` is
`InOrder`; it is inductive because of `Phase`: while libcurl runs, nothing is
pending unless the reader's buffer is full, so a callback that fills the
buffer and leaves the rest pending keeps the order. `Unseen` and `Seen` say that
nothing is read before the status was looked at, and that what was noted of a
response is about the version that is sent. `RowOK`, for the cached row, leaves
open whether it is complete: `CheckedIsCurrent` follows from the comparison of the
lengths. The lemmas about `FromPending`, `write_function` and `Return` are
facts about sequences of blocks. Assumptions: sizes are numbers, `None` is no version.

### FileCache

The argument is ownership. The advisory lock (`HoldsLock`) gives a writer the
temporary file to itself (`OwnsTmp`), so what was compared is still there when it
is renamed; `TmpPrivate` says that no temporary file is also a cached one, so what
was renamed is never written to again; `ParsedStays` carries the data from the
parse to the digest. `FileThere` records that a file that was pushed is there or
was removed, for `FailsForReason`. The lemma `FreeInodeExists` shows that there
are enough inodes for every file that can be open or named, so that no step is
missing for want of one. `NamedFileStays` uses `TmpPrivate` and `OwnsTmp`: `write`,
`fsync` and the truncation of `open` reach the inode of a temporary name only.

### PythonAnalyzer

`Owned` says that during `start` every open descriptor is in `impl::pipes` or in
`child_pipes`, whichever call fails; so the destructors find all of them.
`HelpersOK` has two states of an interpreter: nothing at all, or a child with the
two ends of its pipes where `destroy` and the next call find them.

`Faithful` is the invariant behind `ResultOfThisSource`. In a call
(`Conversation`) either no part of the answer is there (`Unanswered`): what the
helper has read, what is in the pipe and what is still to be sent are together
the encoded source. Or the helper has answered (`AnsweredWith`): what is in the
pipe back and what it has still to write are together what the caller has not
read of the encoded analysis; if the helper died, the second part is missing.
The caller's position is a field, the number of elements left in it and the
bytes left in one (`At`). The other interpreter is silent, and before Python 3
is asked the answer of Python 2 is complete and an error. `Silence` says that
nothing is in the pipes between two calls, so no answer can be taken for that of
the next source; `Outcome` is the result that is returned.

The lemmas go from `FlattenSeq` and `sorted` to the text of an answer (`From`)
and to one step of the reader in it. Those that hold for lists of any length are
proved by the least counterexample: the set of lengths for which the statement
fails is a set of numbers, and has a least element if it is not empty
(`WFMin`). This takes the place of the induction rules of the library, which
the provers cannot instantiate.

Assumptions: pipes hold at least one unit (`PythonAnalyzerAssumption`); a
source is a sequence of numbers, and the parser returns for each one whether it
failed, a line number, a message and a list of nodes (`ParsedAssumption`).

### Only model-checked

* Liveness: `Terminates`, `CommandsEnd`, `FixpointReached`, `DownloadsEnd`,
  `EveryoneEnds`, `CallsReturn` and the fairness part of `ImplementsOrderedQueue`.
* The properties of `XmlDocuments` and `PackageLoad`. Their parsers are loops over
  data, written as recursive operators, for which the prover has no backend.

## 5. Plan

The modules of the plan are written, and the safety properties that can be
proved are. What is left, in this order:

1. Proofs: the parsers below `XmlDocuments` and `PackageLoad` would have to be
   written with recursive functions first; `ResultRight` shows how the rest goes.
2. `RpmStore`: the races of interned attributes, Java classes and package URLs,
   the number of rows of a Python analysis, the expiry of Java classes.
3. `pg_split_statement` as an operator over tokens, with `create_schema`.

## 6. Where code and documentation differ

Shown by a run:

* `truncated`: a comment says that all data has been received when the end is
  reached (`lib/symboldb/download_source.cpp:70`), but a connection that fails
  looks like the end of the file (`lib/cxxll/url_source.cpp:246`), and what came
  in until then is stored in `url_cache`.

Seen while modelling, and in the models as the code has it:

* `README:92-94` says imports may fail when the same RPM is loaded concurrently.
  The same RPM is the case that is protected; different RPMs with a common file
  abort each other (`intern_file_contents` selects, then inserts).
* Contents loaded again under a `.py` name are to be recognised as Python, but
  `add_files` tests the first of the hard-linked names only
  (`lib/symboldb/rpm_load.cpp:455`).
* Unresolved sonames are to be printed (`doc/symboldb.xml:345`), but `lookup`
  returns without a report if the set has no library of the architecture at all
  (`lib/symboldb/update_elf_closure.cpp:105`).
* The digest of `primary.xml` is compared only by a read that returns nothing
  (`lib/symboldb/repomd_primary_xml.cpp:53`). The parser stops at `</metadata>`
  and never makes that read; if it did, the digest of the decompressed data
  would be compared with the one of the compressed file.
* The consolidator assigns the epoch, an `int`, to a string
  (`include/cxxll/package_set_consolidator.hpp:78`), which keeps it modulo 256.
  `NewestChosen` speaks of epochs below 256.
* The message "hard link size mismatch" belongs to a comparison of digests that
  is made twice (`lib/cxxll/rpm_parser.cpp:788`); sizes are not compared.
* `get_file` compares names of the RPM file with names of the database. A name
  that is not UTF-8 is converted on the way in, so such a file is not found
  (the exception in `FoundAgain`), or a directory with the normalised name is
  found in its place and its empty contents returned. `add_directory` and `add_symlink` do not
  convert, and such a name ends the load.
* A name that a damaged image places outside its string table ends the process:
  the NULL of `elf_strptr` is assigned to a `std::string`
  (`lib/cxxll/elf_image.cpp:607`, `:649`, `:673`, `:773`), while other damage is
  an exception. A `DT_NEEDED` or an interface that is listed twice aborts the load
  (`schema-index.sql:58-63`, `:75`).
* A symbol with the hidden bit is stored as the default version
  (`lib/cxxll/elf_image.cpp:651`, with a FIXME).
* `bad_string` leaves `functions_` and `classes_` of the call before
  (`lib/cxxll/python_analyzer.cpp:189`); `load_python` does not read them after
  an error.
* A syntax error that Python reports for line 0 counts as success
  (`lib/cxxll/python_analyzer.cpp:104`, `:236`): the result has its message and no names.
* `subprocess.hpp` speaks of a search in `PATH`; `start` calls `posix_spawn`,
  which does not search.

## 7. Not modelled

* Option parsing, reports, `tosrpm`, the test database, `create_schema` with
  `pg_split_statement`: input and output, or run once.
* What libraries do: librpm (headers, signatures, decompression), `rpmvercmp`,
  libelf, expat's own syntax checks, libarchive, regular expressions of
  `--exclude-name`, `ast.parse`. Their results are inputs.
* How the format of a file is recognised.
* `wait`, `kill`, `redirect_to`, `closefd` and the environment of `subprocess`:
  the Python analyser does not use them.
* The expiry of Java classes; the wait in `select` and errors of libcurl's multi
  interface; failures of pthread calls, of memory allocation and of the disk.
* Use of the downloader by helper threads while an exception destroys it, which
  is undefined behaviour: the model ends the process.
