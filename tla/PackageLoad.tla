---------------------------- MODULE PackageLoad ----------------------------
(***************************************************************************)
(* load_rpm_internal of lib/symboldb/rpm_load.cpp from the RPM file to the *)
(* rows: the header, every file that read_file returns, the check of its   *)
(* digest, and the analysis of its contents by their format, with the      *)
(* functions of database.cpp that store the result.  RpmStore has the      *)
(* transactions and the races of this; here one load is alone, and the     *)
(* files are what varies.  Rows are what the server gets (PgQuery).  At    *)
(* the end, get_file.cpp looks for contents in the same RPM file.          *)
(***************************************************************************)
EXTENDS RpmParser, JavaClass, FiniteSets, TLC

CONSTANTS
  Packages,     \* a sequence of sets of RPM files [header, archive, cut]
  What,         \* What[c]: the format of contents c, and what is in it
  PythonNames,  \* file names that end in .py
  Meaning,      \* the class files, by their bytes, and what they say
  Base          \* the values of a byte

ASSUME PackageLoadAssumption == Base \in Nat /\ INT_MAX = Base^4 \div 2 - 1

Elf == INSTANCE ElfImage
Pg == INSTANCE PgQuery
Arg(t, v) == Pg!Arg(t, v)
Insert(columns, args) == Pg!Row(columns, Pg!pg_query(args))

VARIABLES
  rpm,      \* the RPM file
  parser,   \* the rpm_parser
  pc,       \* where load_rpm_internal is
  why,      \* the exception that has ended it
  package,  \* rows that come from the header
  files,    \* rows of file, directory and symlink, in the order of insertion
  db,       \* attributes, and what the analysers have stored
  got       \* the result of get_file

vars == <<rpm, parser, pc, why, package, files, db, got>>

(* The tables before the load.                                             *)
NoFileRows == [attribute |-> <<>>, contents |-> {}]
NoElfRows == [elf |-> <<>>]
NoXmlRows == [xml |-> {}]
NoJavaRows == [java_class |-> {}, java_class_contents |-> {}, java_error |-> <<>>]
NoPythonRows == [python_name |-> <<>>, python_error |-> <<>>]

Init ==
  /\ \E i \in 1..Len(Packages) : rpm \in Packages[i]
  /\ parser = open_payload(rpm.header, rpm.archive, rpm.cut)
  /\ pc = "open" /\ why = None
  /\ package = [pkg |-> None, dependency |-> <<>>, script |-> <<>>, trigger |-> <<>>]
  /\ files = <<>>
  /\ db = NoFileRows @@ NoElfRows @@ NoXmlRows @@ NoJavaRows @@ NoPythonRows
  /\ got = None

Abort(e) == pc' = "aborted" /\ why' = e

-----------------------------------------------------------------------------
(* Rows of the header.  The prog of a script is stored as an array.  No    *)
(* package is there before, so that its row is inserted and gives the ID.  *)
OrNull(text) == IF text = "" THEN None ELSE text

intern_package(p) ==
  LET Returning(id) == <<<<Pg!Column("int", id, TRUE)>>>>
  IN  [id |-> IF Pg!get_id(<<>>).value > 0 THEN 0 ELSE Pg!get_id_force(Returning(1)).value]
      @@ Insert(<<"kind", "epoch", "source">>,
                <<Arg("text", p.kind), Arg("int", IF p.epoch >= 0 THEN p.epoch ELSE None),
                  Arg("text", OrNull(p.source_rpm))>>)

add_package_dependency(d) ==
  Insert(<<"kind", "flags", "capability", "version">>,
         <<Arg("text", d.kind), Arg("int", Pg!static_cast("int", d.flags)),
           Arg("text", d.capability), Arg("text", d.version)>>)

add_package_script(s) ==
  [Insert(<<"kind", "script", "prog">>,
          <<Arg("text", s.kind), Arg("text", s.script),
            Arg("text", Pg!pg_encode_array(s.prog).value)>>)
   EXCEPT !.prog = Pg!TextArray(@)]

add_package_trigger(t) ==
  [script |-> t.script, prog |-> t.prog,
   conditions |-> [i \in 1..Len(t.conditions) |->
     LET c == t.conditions[i] IN
     Insert(<<"flags", "name", "version">>,
            <<Arg("int", Pg!static_cast("int", c.flags)), Arg("text", c.name),
              Arg("text", c.version)>>)]]

(* What the server answers, by the constraints of the tables.              *)
Violates(dependency, trigger) ==
  \/ \E i \in 1..Len(dependency) : dependency[i].flags < 0
  \/ \E i \in 1..Len(trigger) : \E j \in 1..Len(trigger[i].conditions) :
       trigger[i].conditions[j].name = ""

(* The constructor of rpm_parser, dependencies, scripts and triggers.      *)
Each(s, Op(_)) == [i \in 1..Len(s) |-> Op(s[i])]

LoadHeader ==
  /\ pc = "open"
  /\ LET r == rpm_parser(rpm.header)
         t == triggers(rpm.header)
         dependency == Each(r.value.deps, add_package_dependency)
         trigger == Each(t.value, add_package_trigger)
         status == IF Violates(dependency, trigger) THEN "PGRES_FATAL_ERROR" ELSE "PGRES_COMMAND_OK"
     IN CASE ~(r.ok /\ t.ok) -> Abort("header") /\ UNCHANGED package
          [] r.ok /\ t.ok /\ Pg!reset([status |-> status, value |-> <<>>]).out # "value" ->
               Abort("constraint") /\ UNCHANGED package
          [] OTHER ->
               /\ package' = [pkg |-> intern_package(r.value.pkg), dependency |-> dependency,
                               script |-> Each(scripts(rpm.header), add_package_script),
                               trigger |-> trigger]
               /\ pc' = "read" /\ UNCHANGED why
  /\ UNCHANGED <<rpm, parser, files, db, got>>

ReadFile ==
  /\ pc = "read"
  /\ parser' = read_file(parser)
  /\ CASE parser'.exc # None -> Abort("payload")
       [] parser'.exc = None /\ parser'.infos = <<>> -> pc' = "done" /\ UNCHANGED why
       [] OTHER -> pc' = "add" /\ UNCHANGED why
  /\ UNCHANGED <<rpm, package, files, db, got>>

-----------------------------------------------------------------------------
Kind == File(parser, parser.infos[1]).kind

(* intern_file_attribute: rows are found by a hash, which stands for what  *)
(* is hashed.  Numbers have to be positive as an int.  The IDs that were   *)
(* found before are kept in file_attribute_cache, which is not modelled:   *)
(* an exception, which takes the rows back, ends the process.              *)
NUL == "NUL"

intern_hash(a, normalized) ==
  [numbers |-> <<a.mode, a.flags, normalized>>,
   text |-> a.user \o <<NUL>> \o a.group \o <<NUL>> \o a.caps]

AttributeRow(a, normalized) ==
  [hash |-> intern_hash(a, normalized)]
  @@ Insert(<<"mode", "flags", "user", "group", "caps", "normalized">>,
            <<Arg("int", Pg!static_cast("int", a.mode)), Arg("int", Pg!static_cast("int", a.flags)),
              Arg("text", a.user), Arg("text", a.group), Arg("text", a.caps),
              Arg("bool", normalized)>>)

AttributeId(table, row) ==
  LET id == SelectInSeq(table, LAMBDA r : r.hash = row.hash)
  IN  Pg!pg_response(<<"int">>, <<Pg!Column("int", id, TRUE)>>).value[1]

WithAttribute(d, row) ==
  IF AttributeId(d.attribute, row) # 0 THEN d
  ELSE [d EXCEPT !.attribute = Append(@, row)]

intern_file_attribute(d, a, normalized) == WithAttribute(d, AttributeRow(a, normalized))

Negative(numbers) == \E n \in numbers : Pg!static_cast("int", n) < 0

(* The constraints of file_attribute.                                      *)
Unnamed(a) == a.user = <<>> \/ a.group = <<>>

(* normalize_name: a name that is not UTF-8 is taken for ISO-8859-1.  It   *)
(* may become the name of another file.                                    *)
normalize_name(f) == IF f.utf8 THEN f.name ELSE "utf8:" \o f.name

(* The keys of file, symlink and directory.                                *)
NameExists(kind, names) ==
  \/ ~IsInjective(names)
  \/ \E i \in 1..Len(files) : files[i].kind = kind /\ files[i].name \in Range(names)

(* add_directory and add_symlink get the name as it is in the RPM file.    *)
AddDirectoryOrSymlink ==
  /\ pc = "add"
  /\ Len(parser.infos) = 1 /\ Kind \in {"dir", "link"}
  /\ LET f == File(parser, parser.infos[1])
         d == intern_file_attribute(db, f.attr, FALSE)
         aid == AttributeId(d.attribute, AttributeRow(f.attr, FALSE))
         row == Insert(<<"attribute", "name", "target", "mtime">>,
                       <<Arg("int", aid), Arg("text", f.name), Arg("text", f.target),
                         Arg("longlong", f.mtime), Arg("bool", FALSE)>>)
     IN IF \/ Negative({f.attr.mode, f.attr.flags}) \/ Unnamed(f.attr)
           \/ ~f.utf8 \/ (f.kind = "link" /\ f.target = "")
           \/ NameExists(f.kind, <<f.name>>)
        THEN Abort("row") /\ UNCHANGED <<files, db>>
        ELSE /\ files' = Append(files, [kind |-> f.kind, contents |-> None, inode |-> 0] @@ row)
             /\ db' = d
             /\ pc' = "read" /\ UNCHANGED why
  /\ UNCHANGED <<rpm, parser, package, got>>

(* prepare_load compares the digest of the first file.                     *)
prepare_load(p) == p.contents = Digest(p, p.infos[1])

DigestMismatch ==
  /\ pc = "add"
  /\ Kind = "reg" \/ Len(parser.infos) > 1
  /\ ~prepare_load(parser)
  /\ Abort("digest")
  /\ UNCHANGED <<rpm, parser, package, files, db, got>>

-----------------------------------------------------------------------------
(* database::add_java_class.  A class is stored once; the rows that come   *)
(* before an exception stay.                                               *)
ValuesBefore(results) ==      \* the first result that is not a value
  LET i == SelectInSeq(results, LAMBDA r : r.out # "value")
      n == IF i = 0 THEN Len(results) ELSE i - 1
  IN  [k \in 1..n |-> results[k].value]

ClassRow(jc, interfaces, references) ==
  [digest |-> jc.buffer, name |-> class_name(jc, jc.this_class).value,
   super_class |-> super_class(jc).value, interfaces |-> interfaces,
   references |-> references]

(* The keys of java_class_contents, and of java_interface.                 *)
LinkExists(d, c, jc) == <<c, jc.buffer>> \in d.java_class_contents
RepeatedInterface(names) == ~IsInjective(names)

Linked(d, c, jc) ==
  IF LinkExists(d, c, jc) THEN [db |-> d, out |-> "unique"]
  ELSE [db |-> [d EXCEPT !.java_class_contents = @ \cup {<<c, jc.buffer>>}], out |-> "value"]

(* intern_java_class adds a class that is not there.                       *)
With(d, row) == [d EXCEPT !.java_class = @ \cup {row}]

add_class_rows(d, c, jc, this, interfaces, refs) ==
  IF \E r \in d.java_class : r.digest = jc.buffer THEN Linked(d, c, jc)
  ELSE IF RepeatedInterface(ValuesBefore(interface_names(jc)))
  THEN [db |-> d, out |-> "unique"]
  ELSE IF interfaces.out # "value"
  THEN [db |-> With(d, ClassRow(jc, ValuesBefore(interface_names(jc)), {})), out |-> interfaces.out]
  ELSE IF refs.out # "value"
  THEN [db |-> With(d, ClassRow(jc, interfaces.value, {})), out |-> refs.out]
  ELSE Linked(With(d, ClassRow(jc, interfaces.value,
                        Range(refs.value) \ ({this} \cup Meaning.ignored))), c, jc)

add_java_class(d, c, jc) ==
  LET this == class_name(jc, jc.this_class)
      super == super_class(jc)
  IN CASE this.out # "value" -> [db |-> d, out |-> this.out]
       [] this.out = "value" /\ super.out # "value" -> [db |-> d, out |-> super.out]
       [] OTHER -> add_class_rows(d, c, jc, this.value, Combine(interface_names(jc)),
                                  class_references(jc))

(* A class file, in contents or in an archive under a path.                *)
JavaError(d, c, path) == [d EXCEPT !.java_error = Append(@, [contents |-> c, path |-> path])]

Reported(r, c, path) ==
  IF r.out = "exception" THEN [db |-> JavaError(r.db, c, path), out |-> "value"] ELSE r

load_parsed(d, c, jc, path) ==
  IF jc.out = "value" THEN Reported(add_java_class(d, c, jc.value), c, path)
  ELSE [db |-> JavaError(d, c, path), out |-> "value"]

load_class(d, c, bytes, path) ==
  IF has_signature(bytes) THEN load_parsed(d, c, java_class(bytes), path)
  ELSE [db |-> d, out |-> "value"]

(* zip_file: next throws on a damaged header; data keeps what was read of  *)
(* an entry before the error.                                              *)
zip_next(e) == e.state # "corrupt"
zip_data(e) == [data |-> e.bytes, thrown |-> e.state = "damaged"]

(* load_zip: an entry whose data are damaged is reported, and what could   *)
(* be read of it is looked at all the same.  A damaged archive ends there. *)
RECURSIVE load_zip(_, _, _)
load_zip(d, c, entries) ==
  IF entries = <<>> THEN [db |-> d, out |-> "value"]
  ELSE LET e == Head(entries)
           d1 == IF zip_data(e).thrown THEN JavaError(d, c, e.path) ELSE d
           r == load_class(d1, c, zip_data(e).data, e.path)
       IN CASE ~zip_next(e) -> [db |-> JavaError(d, c, ""), out |-> "value"]
            [] zip_next(e) /\ r.out # "value" -> r
            [] OTHER -> load_zip(r.db, c, Tail(entries))

(* The rows of load_elf.  A version without a name is NULL, and sections   *)
(* and addresses are stored as signed numbers of their width.              *)
SHN_XINDEX == Base^2 - 1

add_elf_symbol_definition(def) ==
  [k |-> "def"]
  @@ Insert(<<"name", "version", "primary_version", "section", "xsection">>,
            <<Arg("text", def.name), Arg("text", OrNull(def.version.name)),
              Arg("bool", def.version.default),
              Arg("short", Pg!static_cast("short", def.section)),
              Arg("int", IF def.section = SHN_XINDEX THEN def.xsection ELSE None)>>)

add_elf_symbol_reference(ref) ==
  [k |-> "ref"] @@ Insert(<<"name", "version">>,
                          <<Arg("text", ref.name), Arg("text", OrNull(ref.version.name))>>)

add_elf_image(image) ==
  LET Phdr(ph) == Pg!pg_query(<<Arg("text", ph.type),
                                Arg("longlong", Pg!static_cast("longlong", ph.addr))>>)
  IN  [phdrs |-> Each(image.phdrs, Phdr)]
      @@ Insert(<<"arch", "soname", "interp", "build_id">>,
                <<Arg("text", image.arch), Arg("text", image.soname),
                  Arg("text", image.interp), Arg("bytea", image.build_id)>>)

add_elf_dynamic(d) ==
  Pg!pg_query(<<Arg("text", d.tag), Arg("longlong", Pg!static_cast("longlong", d.value))>>)

ElfRows(rows) ==
  LET Symbol(s) == IF s.k = "def" THEN add_elf_symbol_definition(s) ELSE add_elf_symbol_reference(s)
  IN  [rows EXCEPT !.symbols = Each(@, Symbol), !.dynamic = Each(@, add_elf_dynamic),
                   !.image = IF @ = None THEN None ELSE add_elf_image(@)]

(* The keys of elf_needed, elf_rpath and elf_runpath.                      *)
RepeatedDynamic(rows) ==
  ~(IsInjective(rows.needed) /\ IsInjective(rows.rpath) /\ IsInjective(rows.runpath))

load_elf(d, c, rows) ==
  CASE rows = None -> [db |-> d, out |-> "died"]
    [] rows # None /\ RepeatedDynamic(rows) -> [db |-> d, out |-> "unique"]
    [] OTHER -> [db |-> [d EXCEPT !.elf = Append(@, <<c, ElfRows(rows)>>)], out |-> "value"]

(* load_python: only names count as an analysis, and not an error.         *)
has_python_analysis(d, c) == \E i \in 1..Len(d.python_name) : d.python_name[i].contents = c

add_python_error(d, c, line) ==
  LET r == Pg!pg_query(<<Arg("int", IF line = 0 THEN None ELSE line)>>)
  IN  [d EXCEPT !.python_error = Append(@, [contents |-> c, line |-> r[1]])]

(* add_python_import, _attribute, _function_def and _class_def: a table    *)
(* for each kind of names.                                                 *)
add_python_names(d, c, names) ==
  LET Name(n) == [contents |-> c, table |-> n[1], name |-> Pg!pg_query(<<Arg("text", n[2])>>)[1]]
  IN  [d EXCEPT !.python_name = @ \o Each(names, Name)]

load_python(d, c, py) ==
  CASE has_python_analysis(d, c) -> d
    [] ~has_python_analysis(d, c) /\ ~py.ok -> add_python_error(d, c, py.line)
    [] ~has_python_analysis(d, c) /\ py.ok -> add_python_names(d, c, py.names)

(* do_load_formats: by the first bytes, or by the name for Python.         *)
IsPython(names) == names \cap PythonNames # {}

do_load_formats(d, c, w, names) ==
  LET Done(x) == [db |-> x, out |-> "value"]
  IN CASE w.format = "elf" -> load_elf(d, c, Elf!load_elf(w.image))
       [] w.format = "xml" -> Done([d EXCEPT !.xml = @ \cup {c}])
       [] w.format = "zip" ->
            load_zip(IF IsPython(names) THEN load_python(d, c, w.analysis) ELSE d, c, w.entries)
       [] w.format = "python" \/ (w.format \in {"class", "other"} /\ IsPython(names)) ->
            Done(load_python(d, c, w.analysis))
       [] w.format = "class" /\ ~IsPython(names) -> load_class(d, c, w.bytes, "")
       [] OTHER -> Done(d)

(* add_files: all links get a row, the contents one analysis.  Only the    *)
(* numbers of the first are tested.  Contents that are there already are   *)
(* looked at again only if the first of the names is one of Python.        *)
FileRow(d, f, c) ==
  LET aid == AttributeId(d.attribute, AttributeRow(f.attr, ~f.utf8))
      ino == IF f.ghost THEN 0 ELSE f.ino
  IN  [kind |-> f.kind, target |-> ""]
      @@ Insert(<<"contents", "attribute", "inode", "mtime", "name">>,
                <<Arg("bytea", c), Arg("int", aid), Arg("int", Pg!static_cast("int", ino)),
                  Arg("longlong", f.mtime), Arg("text", normalize_name(f))>>)

(* intern_file_contents: the row of the contents, and whether it is new.   *)
intern_file_contents(d, c) ==
  [db |-> [d EXCEPT !.contents = @ \cup {c}], added |-> c \notin d.contents]

LookAgain(d, c, w, first) ==
  IF first \in PythonNames THEN load_python(d, c, w.analysis) ELSE d

(* The contents of a package of the kind, with the names of the files.     *)
load_contents(kind, row, c, w, names, first) ==
  CASE kind = "source" -> [db |-> row.db, out |-> "value"]
    [] kind = "binary" /\ row.added -> do_load_formats(row.db, c, w, names)
    [] OTHER -> [db |-> LookAgain(row.db, c, w, first), out |-> "value"]

AddFiles ==
  /\ pc = "add"
  /\ Kind = "reg" \/ Len(parser.infos) > 1
  /\ prepare_load(parser)
  /\ LET c == parser.contents
         infos == [i \in 1..Len(parser.infos) |-> File(parser, parser.infos[i])]
         names == Each(infos, normalize_name)
         d == FoldLeft(LAMBDA x, f : intern_file_attribute(x, f.attr, ~f.utf8), db, infos)
         tested == {infos[1].mtime} \cup (IF infos[1].ghost THEN {} ELSE {infos[1].ino})
                     \cup UNION {{infos[i].attr.mode, infos[i].attr.flags} : i \in 1..Len(infos)}
     IN IF \/ Negative(tested) \/ \E i \in 1..Len(infos) : Unnamed(infos[i].attr)
           \/ NameExists("reg", names)
        THEN Abort("row") /\ UNCHANGED <<files, db>>
        ELSE /\ files' = files \o [i \in 1..Len(infos) |-> FileRow(d, infos[i], c)]
             /\ \E r \in {load_contents(package.pkg.kind, intern_file_contents(d, c), c, What[c],
                                        Range(names), names[1])} :
                  /\ db' = r.db
                  /\ IF r.out = "value" THEN pc' = "read" /\ UNCHANGED why ELSE Abort(r.out)
  /\ UNCHANGED <<rpm, parser, package, got>>

-----------------------------------------------------------------------------
(* get_file.  package_digest has two digests of the RPM file, of 20 and of *)
(* 32 bytes, and it may be in the file cache under each.                   *)
PackageDigests == <<[i \in 1..20 |-> 1], [i \in 1..32 |-> 2]>>

(* files_with_digest: the rows, and one more, as the cursor is compared    *)
(* with <=.  libpq returns a null pointer for what is not there.           *)
WithDigest(c) ==
  LET own == SelectSeq(files, LAMBDA f : f.kind = "reg" /\ f.contents = c)
      Columns(digest, f) == <<Pg!Column("bytea", digest, TRUE), Pg!Column("text", f.name, TRUE)>>
  IN  FlattenSeq([k \in 1..Len(own) |->
        [i \in 1..2 |-> Columns(PackageDigests[i], own[k])]])

files_with_digest(c) ==
  LET beyond == <<Pg!Column("bytea", None, TRUE), Pg!Column("text", None, TRUE)>>
      Next1(row) == Pg!pg_response(<<"bytea", "text">>, row).value
  IN  Each(Append(WithDigest(c), beyond), Next1)

(* The RPM file is read until a file has one of the names.                 *)
\* MUTANT: only the first of the hard links is looked at.
NamedFirst(p, name) == File(p, p.infos[1]).name = name

Named(p, name) == \E i \in 1..Len(p.infos) : File(p, p.infos[i]).name = name

RECURSIVE FindFile(_, _)
FindFile(p, name) ==
  LET q == read_file(p) IN
  CASE q.exc # None \/ q.infos = <<>> -> None
    [] q.exc = None /\ q.infos # <<>> /\ Named(q, name) -> q.contents
    [] OTHER -> FindFile(q, name)

Extract(row, cached) ==
  IF Len(row[1]) \in {20, 32} /\ row[1] \in cached
  THEN FindFile(open_payload(rpm.header, rpm.archive, rpm.cut), row[2]) ELSE None

FirstFound(results) ==
  LET i == SelectInSeq(results, LAMBDA r : r # None)
  IN  IF i = 0 THEN None ELSE results[i]

get_file(c, cached) ==
  FirstFound(Each(files_with_digest(c), LAMBDA row : Extract(row, cached)))

GetFile ==
  /\ pc = "done"
  /\ \E c \in db.contents \cup {damaged}, cached \in SUBSET Range(PackageDigests) :
       got' = [digest |-> c, cached |-> cached, data |-> get_file(c, cached)]
  /\ pc' = "got"
  /\ UNCHANGED <<rpm, parser, why, package, files, db>>

Next == LoadHeader \/ ReadFile \/ AddDirectoryOrSymlink \/ DigestMismatch \/ AddFiles \/ GetFile

Spec == Init /\ [][Next]_vars

-----------------------------------------------------------------------------
Header == rpm.header
FileNames == {Header.files[i].name : i \in 1..Len(Header.files)}
Group(f) == {g \in Range(Header.files) : hardlink_ino(g) = f.ino}
InArchive(names) ==
  {i \in 1..Len(rpm.archive) : name_normalized(rpm.archive[i]) \in names}

(* A package as rpmbuild writes it: names that differ, the archive whole,  *)
(* with every file that is not a ghost.  Of hard links one entry, the      *)
(* last, has the contents.                                                 *)
WellFormed ==
  /\ rpm.cut = NoCut
  /\ Cardinality(FileNames) = Len(Header.files)
  /\ rpm.archive # <<>> /\ IsTrailer(Last(rpm.archive))
  /\ \A i \in 1..Len(rpm.archive) :
       /\ cpio_parse(rpm.archive[i])
       /\ i < Len(rpm.archive) => name_normalized(rpm.archive[i]) \in FileNames
  /\ Header.algo \in {"md5", "sha1", "sha256"}
  /\ \A f \in Range(Header.files) :
       LET own == InArchive({f.name}) IN
       IF f.ghost THEN own = {}
       ELSE /\ Cardinality(own) = 1
            /\ IF hardlink_ino(f) = 0
               THEN /\ Group(f) = {}
                    /\ \A i \in own : f.kind = "reg" => rpm.archive[i].data = f.digest
               ELSE LET all == InArchive({g.name : g \in Group(f)}) IN
                    /\ \A g \in Group(f) : g.digest = f.digest /\ g.size = f.size
                    /\ f.size = Size[f.digest]
                    /\ \A i \in all : rpm.archive[i].data =
                                        IF \A j \in all : j <= i THEN f.digest ELSE empty

(* When a package has been read to its end (rpm_parser::read_file), every  *)
(* name of the header has exactly one row, in the table for its kind, with *)
(* the contents, attributes and numbers that the header promises for a     *)
(* file of that name, ghosts with no contents, whatever the archive looked *)
(* like and wherever it was cut off; and a proper package is read to its   *)
(* end.                                                                    *)
FilesAsPacked ==
  /\ pc = "done" =>
       /\ rpm.cut = NoCut
       /\ Len(files) = Cardinality(FileNames)
       /\ \A n \in FileNames : \E f \in Range(Header.files) :
            LET own == SelectSeq(files, LAMBDA r : <<r.kind, r.name>> = <<f.kind, normalize_name(f)>>)
                a == db.attribute[own[1].attribute]
            IN  /\ f.name = n
                /\ Len(own) = 1
                /\ f.kind = "reg" =>
                     /\ own[1].contents = IF f.ghost THEN empty ELSE f.digest
                     /\ own[1].inode = IF f.ghost THEN 0 ELSE f.ino
                /\ <<own[1].mtime, own[1].target>> = <<f.mtime, f.target>>
                /\ [mode |-> a.mode, flags |-> a.flags, user |-> a.user, group |-> a.group,
                    caps |-> a.caps] = f.attr
  /\ pc = "aborted" /\ why \in {"payload", "digest"} => ~WellFormed

(* What get_file returns for a digest are contents with that digest, and   *)
(* it finds them whenever the RPM file that has them is in the cache, also *)
(* for the other names of hard links.  Names that were normalised are the  *)
(* exception: get_file looks for them in the RPM file, which has the old   *)
(* name, and may have the new one for a directory.                         *)
FoundAgain ==
  LET rows == {i \in 1..Len(files) : files[i].kind = "reg" /\ files[i].contents = got.digest}
      normalized == {i \in rows : db.attribute[files[i].attribute].normalized}
  IN  pc = "got" =>
        /\ got.data # None /\ normalized = {} => got.data = got.digest
        /\ got.cached # {} /\ rows # normalized => got.data # None

(* Dependencies and trigger conditions are the columns of parallel arrays  *)
(* (get_deps, triggers): a row has the fields of one position, no position *)
(* is lost, and a condition is with the script that it was written for.    *)
(* The interpreter of a script comes out of the array literal as it went   *)
(* in, and what the package does not have is NULL.                         *)
HeaderRowsAsWritten ==
  pc = "done" =>
    /\ package.pkg.id > 0 /\ package.pkg.epoch = Header.epoch
    /\ package.pkg.source = OrNull(Header.source_rpm)
    /\ \A k \in Range(DependencyKinds) :
         LET d == Header.deps[k]
             rows == SelectSeq(package.dependency, LAMBDA r : r.kind = k)
         IN  /\ Len(rows) = IF d.names = None THEN 0 ELSE Len(d.names)
             /\ \A i \in 1..Len(rows) :
                  <<rows[i].capability, rows[i].flags, rows[i].version>>
                    = <<d.names[i], d.flags[i], d.versions[i]>>
    /\ \A k \in Range(ScriptKinds) :
         LET s == Header.scripts[k]
             rows == SelectSeq(package.script, LAMBDA r : r.kind = k)
         IN  IF s.script = None /\ s.prog = <<>> THEN rows = <<>>
             ELSE /\ Len(rows) = 1 /\ rows[1].script = s.script
                  /\ rows[1].prog = Pg!Loaded(s.prog)
    /\ LET t == Header.triggers
           total == FoldLeft(LAMBDA n, r : n + Len(r.conditions), 0, package.trigger)
       IN  t.scripts # None /\ t.index # None =>
             /\ total = Len(t.index)
             /\ \A k \in 1..Len(t.index) :
                  \E j \in 1..Len(package.trigger[t.index[k] + 1].conditions) :
                    LET c == package.trigger[t.index[k] + 1].conditions[j]
                    IN  <<c.name, c.version, c.flags % Base^4>>
                          = <<t.names[k], t.versions[k], t.flags[k]>>

(* The entries of all sections of a type, and the names that the number v  *)
(* of a symbol stands for: 0 and 1 for none, the hidden bit does not count *)
(* for a definition.                                                       *)
EntriesOf(image, type) ==
  UNION {Range(image.sections[s].data) : s \in
           {t \in 1..Len(image.sections) :
              image.sections[t].type = type /\ image.sections[t].data # None}}

VersionNames(image, v) ==
  IF v % 32768 <= 1 THEN {}
  ELSE {a.name : a \in {b \in UNION {Range(need) : need \in EntriesOf(image, "GNU_verneed")} :
                           b.other = v}}
       \cup {d.name : d \in {e \in EntriesOf(image, "GNU_verdef") : e.ndx = v % 32768}}

(* Contents with a row in elf_file (load_elf has come to its end) have all *)
(* symbols of all tables of the image: each is a reference if it has no    *)
(* section, and has the version that its number in the table that belongs  *)
(* to its own symbol table stands for, and the number of its section, with *)
(* the xsection for -1 as the schema demands; the soname is the first one. *)
(* Only a damaged image, or one with a number that no library is needed    *)
(* for, is left without its row.                                           *)
ElfRowsComplete ==
  \A i \in 1..Len(db.elf) :
    LET image == What[db.elf[i][1]].image
        rows == db.elf[i][2]
        section(s) == image.sections[s]
        named == {<<s, k>> \in (1..Len(image.sections)) \X (1..4) :
                    /\ section(s).type \in {"DYNSYM", "SYMTAB"} /\ section(s).data # None
                    /\ k <= Len(section(s).data) /\ section(s).data[k].name # ""}
        numbers(s, k) == {section(v).data[k] : v \in
                            {w \in 1..Len(image.sections) :
                               section(w).type = "GNU_versym" /\ section(w).link = s
                                 /\ section(w).data # None /\ k <= Len(section(w).data)}}
        versions(s, k) == UNION {VersionNames(image, v) : v \in numbers(s, k)}
        sound == /\ image.valid
                 /\ \A p \in Range(image.phdrs) : p.type = "INTERP" => p.at # None
                 /\ \A s \in 1..Len(image.sections) : section(s).link <= Len(image.sections)
                 /\ \A sk \in named : numbers(sk[1], sk[2]) \subseteq {0, 1}
                                        \/ section(sk[1]).data[sk[2]].shndx # 0
                                        \/ versions(sk[1], sk[2]) # {}
    IN /\ rows.image = None => ~sound
       /\ rows.image # None =>
         /\ Len(rows.symbols) = Cardinality(named)
         /\ \A sk \in named :
              LET sym == section(sk[1]).data[sk[2]]
                  names == versions(sk[1], sk[2])
              IN  \E r \in Range(rows.symbols) :
                    /\ r.name = sym.name
                    /\ sym.shndx = 0 => r.k = "ref"
                    /\ r.version \in IF names = {} THEN {None} ELSE names
                    /\ r.k = "def" =>
                         /\ r.section % Base^2 = sym.section
                         /\ (r.section = -1) = (r.xsection # None)
                         /\ r.xsection \in {None, sym.shndx}
         /\ LET sonames == {d.value : d \in {e \in EntriesOf(image, "DYNAMIC") : e.tag = "SONAME"}}
            IN  /\ rows.image.soname = None => sonames = {}
                /\ rows.image.soname # None =>
                     /\ rows.image.soname \in sonames
                     /\ \A s \in 1..Len(image.sections) : section(s).type = "DYNAMIC" =>
                          LET k == SelectInSeq(section(s).data, LAMBDA e : e.tag = "SONAME")
                          IN  k # 0 => section(s).data[k].value = rows.image.soname

(* A class that contents are linked to (add_java_class) has the name, the  *)
(* superclass, the interfaces and the references of its class file, also   *)
(* behind constants that take two places in the pool; and every good class *)
(* of contents that were loaded without an exception is linked.  The names *)
(* of a Python file are stored once, however often it comes.               *)
CodeAsWritten ==
  /\ \A l \in db.java_class_contents :
       l[2] \in DOMAIN Meaning.of =>
         \E r \in db.java_class :
           /\ r.digest = l[2]
           /\ [name |-> r.name, super_class |-> r.super_class,
               interfaces |-> r.interfaces, references |-> r.references] = Meaning.of[l[2]]
  /\ pc # "aborted" =>
       \A c \in db.contents :
         package.pkg.kind = "binary" /\ What[c].format = "zip" =>
           LET es == What[c].entries
               stop == SelectInSeq(es, LAMBDA e : e.state = "corrupt")
           IN  \A i \in 1..(IF stop = 0 THEN Len(es) ELSE stop - 1) :
                 es[i].bytes \in DOMAIN Meaning.of => <<c, es[i].bytes>> \in db.java_class_contents
  /\ \A c \in db.contents : has_python_analysis(db, c) =>
       LET own == SelectSeq(db.python_name, LAMBDA r : r.contents = c)
       IN  [i \in 1..Len(own) |-> <<own[i].table, own[i].name>>] = What[c].analysis.names
=============================================================================
