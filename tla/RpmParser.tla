----------------------------- MODULE RpmParser -----------------------------
(***************************************************************************)
(* lib/cxxll/rpm_parser.cpp and cpio_reader.cpp: the header of an RPM file *)
(* and, file by file, its cpio archive.  A parser is a record; exc # None  *)
(* after an exception.  librpm, which decodes the header and decompresses  *)
(* the archive, is external.  Contents stand for themselves and for their  *)
(* digest; Size gives their length in bytes.                               *)
(*                                                                         *)
(* A file of the header is [name, utf8, kind, ino, nlink, size, digest,    *)
(* ghost, attr, mtime, target], utf8 telling how the name is encoded, and  *)
(* the files come in the order of their names; a name may come again.  An  *)
(* entry of the archive is [head, prefix, name, data, npad]: prefix is the *)
(* "./", the "/" or nothing that its name begins with, and npad tells if   *)
(* the name is followed by padding.  The archive may be cut off: [entry,   *)
(* field, some, name] says in which field of which entry, if some of its   *)
(* bytes are left, and what a name that is cut off reads like.             *)
(***************************************************************************)
EXTENDS Integers, Sequences, SequencesExt

CONSTANTS
  None,
  Size,      \* the length of contents
  INT_MAX

NoCut == [entry |-> 0, field |-> "magic", some |-> FALSE, name |-> "?"]
empty == "empty"          \* contents without bytes
damaged == "damaged"      \* contents that end in zeros

Error == [ok |-> FALSE]
Value(v) == [ok |-> TRUE, value |-> v]

-----------------------------------------------------------------------------
(* get_header: what every package has to have, and the epoch.              *)
Required == {"NEVRA", "NAME", "VERSION", "RELEASE", "ARCH", "SHA1HEADER",
             "BUILDHOST", "SUMMARY", "DESCRIPTION", "LICENSE", "GROUP", "BUILDTIME"}

get_header(h) ==
  IF ~(Required \subseteq h.tags) \/ h.source \notin {0, 1}
     \/ (h.epoch # None /\ h.epoch > INT_MAX)
  THEN Error
  ELSE Value([kind |-> IF h.source = 1 THEN "source" ELSE "binary",
              epoch |-> IF h.epoch = None THEN -1 ELSE h.epoch,
              source_rpm |-> h.source_rpm])

(* get_deps: three parallel arrays.  Only the names may be missing.        *)
Covers(array, names) == array # None /\ Len(array) >= Len(names)

\* MUTANT: the same version for all.
get_deps_first(kind, optional, names, flags, versions) ==
  IF names = None THEN IF optional THEN Value(<<>>) ELSE Error
  ELSE IF ~Covers(flags, names) \/ ~Covers(versions, names) THEN Error
  ELSE Value([i \in 1..Len(names) |->
                [kind |-> kind, capability |-> names[i],
                 flags |-> flags[i], version |-> versions[1]]])

get_deps(kind, optional, names, flags, versions) ==
  IF names = None THEN IF optional THEN Value(<<>>) ELSE Error
  ELSE IF ~Covers(flags, names) \/ ~Covers(versions, names) THEN Error
  ELSE Value([i \in 1..Len(names) |->
                [kind |-> kind, capability |-> names[i],
                 flags |-> flags[i], version |-> versions[i]]])

DependencyKinds == <<"require", "provide", "obsolete", "conflict">>

get_dependencies(h) ==
  LET deps == [i \in 1..4 |->
                 LET d == h.deps[DependencyKinds[i]]
                 IN  get_deps(DependencyKinds[i], i # 1, d.names, d.flags, d.versions)]
  IN  IF \E i \in 1..4 : ~deps[i].ok THEN Error
      ELSE Value(FlattenSeq([i \in 1..4 |-> deps[i].value]))

(* The constructor reads the header, and the dependencies.                 *)
rpm_parser(h) ==
  LET pkg == get_header(h)
      deps == get_dependencies(h)
  IN  IF pkg.ok /\ deps.ok THEN Value([pkg |-> pkg.value, deps |-> deps.value]) ELSE Error

ScriptKinds == <<"pretrans", "prein", "postin", "preun", "postun", "posttrans", "verify">>

(* A script, its interpreter, or both.                                     *)
scripts(h) ==
  SelectSeq([i \in 1..7 |-> [kind |-> ScriptKinds[i], script |-> h.scripts[ScriptKinds[i]].script,
                             prog |-> h.scripts[ScriptKinds[i]].prog]],
            LAMBDA s : s.script # None \/ s.prog # <<>>)

(* triggers: conditions are attached to the scripts by their index, which  *)
(* counts from 0.  at() throws if it is too large.                         *)
triggers(h) ==
  LET t == h.triggers
      Conditions(i) ==
        LET own == SelectSeq([k \in 1..Len(t.index) |-> k], LAMBDA k : t.index[k] = i - 1)
        IN  [k \in 1..Len(own) |-> [name |-> t.names[own[k]], version |-> t.versions[own[k]],
                                    flags |-> t.flags[own[k]]]]
      short == ~(Covers(t.names, t.index) /\ Covers(t.versions, t.index) /\ Covers(t.flags, t.index))
  IN CASE t.scripts = None -> Value(<<>>)
       [] t.scripts # None /\ ~Covers(t.progs, t.scripts) -> Error
       [] t.scripts # None /\ Covers(t.progs, t.scripts) /\ t.index # None
          /\ (\/ short
              \/ \E k \in 1..Len(t.index) : t.index[k] >= Len(t.scripts)) -> Error
       [] OTHER -> Value([i \in 1..Len(t.scripts) |->
                            [script |-> t.scripts[i], prog |-> t.progs[i],
                             conditions |-> IF t.index = None THEN <<>> ELSE Conditions(i)]])

-----------------------------------------------------------------------------
(* open_payload and get_files_from_header.  Only a file that is not empty  *)
(* and not a ghost counts as a hard link.                                  *)
hardlink_ino(f) ==
  IF f.nlink > 1 /\ f.kind = "reg" /\ f.size # 0 /\ ~f.ghost THEN f.ino ELSE 0

open_payload(h, archive, cut) ==
  [h |-> h, archive |-> archive, cut |-> cut, at |-> 0, seen |-> {},
   reached_ghosts |-> FALSE, ghost_files |-> 1,
   infos |-> <<>>, contents |-> empty, exc |-> None]

Raised(p, why) == [p EXCEPT !.exc = why]

File(p, fx) == p.h.files[fx]

(* The map files: of several files with a name the last one counts.  seen  *)
(* is that of the name, and has the index under which the name is kept.    *)
findex(p, name) == SelectLastInSeq(p.h.files, LAMBDA f : f.name = name)

Links(p, ino) ==
  SelectSeq([fx \in 1..Len(p.h.files) |-> fx],
            LAMBDA fx : ino > 0 /\ hardlink_ino(File(p, fx)) = ino)

(* get_file_info: the digest of a ghost is that of no bytes.               *)
Digest(p, fx) == IF File(p, fx).ghost THEN empty ELSE File(p, fx).digest
InfoFails(p, fx) == ~File(p, fx).ghost /\ p.h.algo \notin {"md5", "sha1", "sha256"}

Returns(p, infos, contents) == [p EXCEPT !.infos = infos, !.contents = contents]

(* read_file_ghost: what the archive had no entry for.                     *)
read_file_ghost(p) ==
  LET left == {fx \in p.ghost_files..Len(p.h.files) :
                 fx \notin p.seen /\ fx = findex(p, File(p, fx).name)}
      fx == CHOOSE x \in left : \A y \in left : x <= y
  IN CASE left = {} -> [p EXCEPT !.infos = <<>>, !.ghost_files = Len(p.h.files) + 1]
       [] left # {} /\ ~File(p, fx).ghost -> Raised(p, "missing non-ghost file")
       [] OTHER -> [Returns(p, <<fx>>, empty) EXCEPT !.ghost_files = fx + 1]

-----------------------------------------------------------------------------
(* The fields of a cpio entry.  Fread returns what is left, and only       *)
(* nothing at all is an error: a field that is cut off is noticed by the   *)
(* field behind it.  The last one is taken as it is, with zeros at its end.*)
Fields(e) ==
  <<"magic", "header", "name">> \o (IF e.npad THEN <<"npad">> ELSE <<>>)
    \o (IF Size[e.data] > 0 THEN <<"data">> ELSE <<>>)
    \o (IF Size[e.data] % 4 # 0 THEN <<"dpad">> ELSE <<>>)

(* cpio_header_length and parse.                                           *)
cpio_parse(e) == e.head \in {"070701", "070707"}

ReadEntry(p) ==
  LET k == p.at + 1
      e == p.archive[k]
  IN CASE k > Len(p.archive) \/ (p.cut.entry > 0 /\ k > p.cut.entry) -> Error
       [] k <= Len(p.archive) /\ k = p.cut.entry ->
            IF ~p.cut.some \/ p.cut.field # Last(Fields(e))
               \/ p.cut.field \notin {"name", "data"} \/ ~cpio_parse(e)
            THEN Error
            ELSE IF p.cut.field = "name" THEN Value([e EXCEPT !.name = p.cut.name])
                 ELSE Value([e EXCEPT !.data = damaged])
       [] OTHER -> IF cpio_parse(e) THEN Value(e) ELSE Error

(* Only a dot in front of a slash is not part of the name.                 *)
name_normalized(e) == IF e.prefix = "./" THEN "/" \o e.name ELSE e.prefix \o e.name

Trailer == "TRAILER!!!"
IsTrailer(e) == e.prefix = "" /\ e.name = Trailer

(* Not a hard link.                                                        *)
ReadPlain(p, fx, data) ==
  CASE fx \in p.seen -> Raised(p, "duplicate file")
    [] fx \notin p.seen /\ InfoFails(p, fx) -> Raised(p, "unknown file digest algorithm")
    [] OTHER -> [Returns(p, <<fx>>, IF File(p, fx).ghost THEN empty ELSE data)
                   EXCEPT !.seen = @ \cup {fx}]

(* The entry of a group of hard links that has the contents.               *)
\* MUTANT: only the link of the entry counts as seen.
ReadLinksOne(p, fx, links, data) ==
  CASE fx \in p.seen -> Raised(p, "duplicate file")
    [] OTHER -> [Returns(p, links, data) EXCEPT !.seen = @ \cup {fx}]

ReadLinks(p, fx, links, data) ==
  LET slots == [i \in 1..Len(links) |-> findex(p, File(p, links[i]).name)]
      group == Range(slots)
  IN
  CASE \E l \in Range(links) : InfoFails(p, l) -> Raised(p, "unknown file digest algorithm")
    [] group \cap p.seen # {} \/ ~IsInjective(slots) -> Raised(p, "duplicate file")
    [] group \cap p.seen = {} /\ fx \notin group \cup p.seen /\ ~File(p, fx).ghost ->
         Raised(p, "file not found in hard link group")
    [] \E l \in Range(links) : Digest(p, l) # Digest(p, links[1]) ->
         Raised(p, "hard link hash mismatch")
    [] OTHER -> [Returns(p, links, data) EXCEPT !.seen = @ \cup group]

(* read_file.  It ends with no infos, an exception, or a file.             *)
RECURSIVE read_file(_)
read_file(p) ==
  IF p.reached_ghosts THEN read_file_ghost(p)
  ELSE LET r == ReadEntry(p) IN
       IF ~r.ok THEN Raised(p, "cpio")
       ELSE IF IsTrailer(r.value)
       THEN read_file_ghost([p EXCEPT !.reached_ghosts = TRUE])
       ELSE LET e == r.value
                n == name_normalized(e)
                fx == findex(p, n)
                q == [p EXCEPT !.at = @ + 1]
                links == Links(p, File(p, fx).ino)
            IN CASE fx = 0 -> Raised(q, "cpio file not found in RPM header")
                 [] fx # 0 /\ links = <<>> -> ReadPlain(q, fx, e.data)
                 [] fx # 0 /\ links # <<>> ->
                      CASE File(p, fx).size = Size[e.data] -> ReadLinks(q, fx, links, e.data)
                        [] File(p, fx).size # Size[e.data] /\ Size[e.data] = 0 -> read_file(q)
                        [] OTHER -> Raised(q, "hard link size does not match header")
=============================================================================
