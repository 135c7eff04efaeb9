----------------------------- MODULE MCPackage -----------------------------
(* RPM files that differ in one respect each: what kinds of files the      *)
(* header has and in which order their entries are in the archive; where   *)
(* the archive is cut off; the tags of the header; the contents.           *)
EXTENDS PackageLoad, TLC

NoDeps == [names |-> None, flags |-> None, versions |-> None]
Requires(d) == [k \in Range(DependencyKinds) |-> IF k = "require" THEN d ELSE NoDeps]
OneDep == [names |-> <<"x">>, flags |-> <<8>>, versions |-> <<"1">>]
NoScripts == [k \in Range(ScriptKinds) |-> [script |-> None, prog |-> <<>>]]
NoTriggers == [scripts |-> None, progs |-> None, index |-> None,
               names |-> None, versions |-> None, flags |-> None]

Header0(fs) ==
  [tags |-> Required, source |-> 0, source_rpm |-> "x.src.rpm", epoch |-> None, deps |-> Requires(OneDep),
   scripts |-> NoScripts, triggers |-> NoTriggers, files |-> fs, algo |-> "sha256"]

Entry(n, d) == [head |-> "070701", prefix |-> "./", name |-> n, data |-> d, npad |-> TRUE]
TrailerEntry == [Entry(Trailer, "empty") EXCEPT !.prefix = ""]
Ends(es) == Append(es, TrailerEntry)

Root == [mode |-> 6, flags |-> 0, user |-> <<"r", "o">>, group |-> <<"t">>, caps |-> <<>>]
F(n, d) == [name |-> "/" \o n, utf8 |-> TRUE, kind |-> "reg", ino |-> 1, nlink |-> 1, size |-> Size[d],
            digest |-> d, ghost |-> FALSE, attr |-> Root, mtime |-> 5, target |-> ""]
Kinds(n) ==
  {F(n, "c1"),
   [F(n, "c1") EXCEPT !.ino = 7, !.nlink = 2],
   [F(n, "c2") EXCEPT !.ino = 7, !.nlink = 2],
   [F(n, "c1") EXCEPT !.ino = 7, !.nlink = 2, !.ghost = TRUE],
   [F(n, "c1") EXCEPT !.ghost = TRUE],
   [F(n, "empty") EXCEPT !.kind = "dir"]}


-----------------------------------------------------------------------------
(* Every choice of kinds, every archive of up to three entries.            *)
Archives ==
  {Ends(es) : es \in UNION {[1..n -> {Entry(n1, d) : n1 \in {"a", "b", "c"}, d \in {"empty", "c1"}}] :
                              n \in 0..3}}

Ordered ==
  {[header |-> Header0(<<x, y, z>>), archive |-> es, cut |-> NoCut] :
     x \in Kinds("a"), y \in Kinds("b"), z \in Kinds("c") \ {F("c", "c1")}, es \in Archives}

(* The same package, cut off at every place, or with a bad entry.          *)
Links3 == <<[F("a", "c1") EXCEPT !.ino = 7, !.nlink = 2],
            [F("b", "c1") EXCEPT !.ino = 7, !.nlink = 2], F("c", "c3")>>
Whole == Ends(<<[Entry("a", "empty") EXCEPT !.npad = FALSE], Entry("b", "c1"), Entry("c", "c3")>>)

Cut ==
  {[header |-> Header0(Links3), archive |-> Whole,
    cut |-> [entry |-> k, field |-> f, some |-> s, name |-> n]] :
     k \in 1..4, s \in BOOLEAN, n \in {"?", "b"},
     f \in {"magic", "header", "name", "npad", "data", "dpad"}}

Odd ==
  {[header |-> Header0(Links3), archive |-> es, cut |-> NoCut] :
     es \in {[Whole EXCEPT ![k] = e] : k \in 1..4,
               e \in {[Entry("a", "c1") EXCEPT !.head = "070702"],
                      [Entry("c", "c3") EXCEPT !.head = "070707", !.npad = FALSE],
                      [Entry("c", "c3") EXCEPT !.prefix = ""],
                      [Entry("c", "c3") EXCEPT !.prefix = "/"], Entry("z", "c1")}}}

(* Names as in a source package, and names that come again in the header,  *)
(* in and out of a group of hard links, also once they are normalised.     *)
Names ==
  LET Bare(f) == [f EXCEPT !.name = "a"]
      hard(n) == [F(n, "c1") EXCEPT !.ino = 7, !.nlink = 2]
      ghost == [F("a", "c1") EXCEPT !.ghost = TRUE]
      latin == [F("b", "c1") EXCEPT !.utf8 = FALSE]
      archives == {Ends(es) : es \in UNION {[1..n -> {[Entry(m, d) EXCEPT !.prefix = x] :
                                 m \in {"a", "b"}, d \in {"empty", "c1"}, x \in {"./", ""}}] : n \in 0..3}}
      headers == {<<Bare(F("a", "c1"))>>, <<Bare(hard("a")), hard("b")>>}
                   \cup {<<x, y, z>> : x \in {hard("a"), F("a", "c2"), ghost},
                                       y \in {hard("a"), F("a", "c1"), ghost},
                                       z \in {hard("b"), F("b", "c1")}}
                   \cup {<<latin, [x EXCEPT !.name = "utf8:/b"]>> :
                           x \in {[ghost EXCEPT !.name = "/x"], [ghost EXCEPT !.kind = "dir"]}}
  IN  {[header |-> Header0(h), archive |-> es, cut |-> NoCut] : h \in headers, es \in archives}

Tags ==
  {[header |-> h, archive |-> Whole, cut |-> NoCut] : h \in
     LET h0 == Header0(Links3)
         dep == [names |-> <<"x", "y">>, flags |-> <<8, 12>>, versions |-> <<"1", "2">>]
         trig == [scripts |-> <<"s1", "s2">>, progs |-> <<"p1", "p2">>, index |-> <<1, 0, 1>>,
                  names |-> <<"x", "y", "z">>, versions |-> <<"1", "2", "3">>, flags |-> <<1, 2, 3>>]
     IN  {[h0 EXCEPT !.tags = @ \ {t}] : t \in {"NAME", "BUILDTIME"}}
         \cup {[h0 EXCEPT !.source = n] : n \in 1..2}
         \cup {[h0 EXCEPT !.epoch = n] : n \in {0, INT_MAX, INT_MAX + 1}}
         \cup {[h0 EXCEPT !.algo = n] : n \in {"md5", "sha512"}}
         \cup {[h0 EXCEPT !.deps[k] = d] : k \in {"require", "conflict"}, d \in
                 {dep, NoDeps, [dep EXCEPT !.flags = None], [dep EXCEPT !.versions = <<"1">>],
                  [dep EXCEPT !.names = <<"x">>]}}
         \cup {[h0 EXCEPT !.scripts["postin"] = s] :
                 s \in {[script |-> "s", prog |-> <<<<"s", "h">>>>], [script |-> None, prog |-> <<<<"l">>, <<>>>>],
                       [script |-> "s", prog |-> <<<<"a", "\"", "\\">>, <<"\\", "\"">>, <<"}", ",">>>>],
                       [script |-> "s", prog |-> <<>>]}}
         \cup {[h0 EXCEPT !.source_rpm = ""]}
         \cup {[h0 EXCEPT !.deps["require"].flags = <<n>>] : n \in {INT_MAX, INT_MAX + 1}}
         \cup {[h0 EXCEPT !.triggers = t] : t \in
                 {trig, [trig EXCEPT !.flags[1] = INT_MAX + 1], [trig EXCEPT !.names[2] = ""],
                  [trig EXCEPT !.index = None], [trig EXCEPT !.index = <<0, 1, 2>>],
                  [trig EXCEPT !.progs = <<"p1">>], [trig EXCEPT !.names = <<"x">>],
                  [trig EXCEPT !.flags = None], [trig EXCEPT !.scripts = None]}}}

-----------------------------------------------------------------------------
(* Class files, byte by byte.                                              *)
U16(n) == <<n \div 256, n % 256>>
Utf8(s) == <<1>> \o U16(Len(s)) \o s
Cl(i) == <<7>> \o U16(i)
Long == <<5, 1, 2, 3, 4, 5, 6, 7, 8>>
nA == <<65>>
nB == <<66>>
nObject == <<79>>

ClassFile(pool, count, this, super, interfaces) ==
  LET body == <<202, 254, 186, 190, 0, 0, 0, 50>> \o U16(count) \o FlattenSeq(pool)
                \o U16(1) \o U16(this) \o U16(super) \o U16(Len(interfaces))
                \o FlattenSeq([i \in 1..Len(interfaces) |-> U16(interfaces[i])])
  IN  body \o [i \in 1..(IF Len(body) < 32 THEN 32 - Len(body) ELSE 0) |-> 0]

PoolA == <<Utf8(nA), Cl(1), Long, Utf8(nB), Cl(5), Utf8(nObject), Cl(7)>>
ClassA == ClassFile(PoolA, 9, 2, 8, <<6>>)
ClassB == ClassFile(<<Cl(2), Utf8(nB), Utf8(nObject), Cl(3)>>, 5, 1, 4, <<>>)
BadInterface == ClassFile(PoolA, 9, 2, 8, <<1>>)      \* an exception, half way
Twice == ClassFile(PoolA, 9, 2, 8, <<6, 6>>)          \* one interface twice
BadIndex == ClassFile(PoolA, 9, 200, 8, <<>>)         \* std::out_of_range
BadTag == ClassFile(<<<<15, 0, 0>>>>, 9, 1, 1, <<>>)
CutOff == ClassFile(PoolA, 200, 2, 8, <<6>>)

MCMeaning ==
  [of |-> ClassA :> [name |-> nA, super_class |-> nObject, interfaces |-> <<nB>>, references |-> {nB}]
          @@ ClassB :> [name |-> nB, super_class |-> nObject, interfaces |-> <<>>, references |-> {}],
   ignored |-> {nObject}]

Jar(s) == [format |-> "zip", entries |-> s]
Z(path, bytes) == [state |-> "ok", path |-> path, bytes |-> bytes]

(* ELF images: a library that needs versions of two others and defines its *)
(* own, and variants of it.                                                *)
Sec(t, l, d) == [type |-> t, link |-> l, data |-> d]
Sym(n, x) == [name |-> n, section |-> x, shndx |-> x]
Strtab == Sec("STRTAB", 0, <<>>)
Sections ==
  <<Strtab,
    Sec("DYNSYM", 1, <<Sym("f", 0), Sym("g", 12), Sym("h", 0), Sym("environ", 7)>>),
    Sec("GNU_versym", 2, <<3, 32773, 4, 3>>),
    Sec("GNU_verneed", 1, <<<<[other |-> 2, name |-> "V2"], [other |-> 3, name |-> "V3"]>>,
                            <<[other |-> 4, name |-> "V4"]>>>>),
    Sec("GNU_verdef", 1, <<[ndx |-> 1, name |-> "lib.so.1"], [ndx |-> 5, name |-> "L5"]>>),
    Sec("DYNAMIC", 1, <<[tag |-> "NEEDED", value |-> "libc.so.6"], [tag |-> "SONAME", value |-> "lib.so.1"],
                        [tag |-> "SONAME", value |-> "lib.so.2"], [tag |-> "RPATH", value |-> "/x"],
                        [tag |-> "DEBUG", value |-> 40000], [tag |-> "NULL", value |-> 0]>>),
    Sec("NOBITS", 0, <<>>),
    Sec("PROGBITS", 0, <<>>),
    Sec("NOTE", 0, <<[name |-> "X", type |-> 3, desc |-> "no"], [name |-> "GNU", type |-> 3, desc |-> "id"]>>),
    Sec("SYMTAB", 1, <<Sym("", 0), Sym("f", 0), [Sym("local", 8) EXCEPT !.section = 15]>>)>>

Image(ss) ==
  [valid |-> TRUE, class |-> 64, machine |-> "X86_64", sections |-> ss,
   phdrs |-> <<[type |-> "INTERP", at |-> 8, addr |-> 1], [type |-> "DYNAMIC", at |-> 6, addr |-> 2],
             [type |-> "NOTE", at |-> 9, addr |-> 65535]>>]

Images ==
  "e1" :> Image(Sections)
  @@ "e2" :> Image([Sections EXCEPT ![3].data = <<9, 5, 4, 3>>])      \* no such version
  @@ "e3" :> Image([Sections EXCEPT ![3].link = 10, ![3].data = <<0, 4, 5>>])
  @@ "e4" :> Image([Sections EXCEPT ![2].data = None])
  @@ "e5" :> Image([Sections EXCEPT ![10].link = 99])
  @@ "e6" :> [Image(Sections) EXCEPT !.phdrs[1].at = None]
  @@ "e7" :> [Image(Sections) EXCEPT !.valid = FALSE]
  @@ "e8" :> [Image(<<>>) EXCEPT !.phdrs = <<>>, !.class = 32, !.machine = "386"]
  @@ "e9" :> Image([Sections EXCEPT ![3].data = <<1, 32769, 32770, 5>>])
  @@ "e10" :> Image([Sections EXCEPT ![3].data = <<3, 5>>])           \* too short
  @@ "e11" :> Image([Sections EXCEPT ![6].data = <<@[1], @[1]>>])     \* needed twice
  @@ "e12" :> Image([Sections EXCEPT ![10].link = 0])
  @@ "e13" :> [Image(Sections) EXCEPT !.phdrs[1].at = 0]
  @@ "e14" :> Image([Sections EXCEPT ![4].link = 2])
  @@ "e15" :> Image([Sections EXCEPT ![6].link = 8])

Python(ok, line, names) == [ok |-> ok, line |-> line, names |-> names]
Analysed(c) ==
  CASE c = "python" -> Python(TRUE, 0, <<<<"import", "os">>, <<"function", "f">>, <<"import", "os">>>>)
    [] c = "c1" -> Python(TRUE, 0, <<<<"class", "C">>>>)
    [] c = "c2" -> Python(FALSE, 2, <<>>)
    [] c = "c3" -> Python(FALSE, 0, <<>>)
    [] OTHER -> Python(TRUE, 0, <<>>)

ElfFormats(images) == [e \in DOMAIN images |-> [format |-> "elf", image |-> images[e]]]

Formats0 ==
  ElfFormats(Images)
  @@ "c1" :> [format |-> "other"] @@ "c2" :> [format |-> "other"] @@ "c3" :> [format |-> "other"]
  @@ "empty" :> [format |-> "other"] @@ "damaged" :> [format |-> "other"]
  @@ "xml" :> [format |-> "xml"] @@ "python" :> [format |-> "python"]
  @@ "k1" :> [format |-> "class", bytes |-> ClassA]
  @@ "k2" :> [format |-> "class", bytes |-> BadIndex]
  @@ "k3" :> [format |-> "class", bytes |-> BadInterface]
  @@ "k4" :> [format |-> "class", bytes |-> BadTag]
  @@ "k5" :> [format |-> "class", bytes |-> Twice]
  @@ "z1" :> Jar(<<Z("A", ClassA), Z("B", ClassB), Z("manifest", nA)>>)
  @@ "z2" :> Jar(<<Z("A", ClassA), Z("copy", ClassA)>>)
  @@ "z3" :> Jar(<<Z("x", BadInterface), Z("B", ClassB), [Z("C", CutOff) EXCEPT !.state = "damaged"]>>)
  @@ "z4" :> Jar(<<Z("x", BadInterface), [Z("", nA) EXCEPT !.state = "corrupt"], Z("B", ClassB)>>)
  @@ "z5" :> Jar(<<Z("B", ClassB), Z("x", BadIndex), Z("A", ClassA)>>)

WhatOf(formats) == [c \in DOMAIN formats |-> [analysis |-> Analysed(c)] @@ formats[c]]
MCWhat == WhatOf(Formats0)

Contents == {"e1", "e2", "e3", "e4", "e5", "e6", "e7", "e8", "e9", "e10", "e11", "e12", "e13", "e14",
             "e15", "c1", "c2", "c3", "empty",
             "damaged", "xml", "python", "k1", "k2", "k3", "k4", "k5", "z1", "z2", "z3", "z4", "z5"}
MCSize == [c \in Contents |-> CASE c = "empty" -> 0 [] c \in {"c1", "c2"} -> 4 [] OTHER -> 3]

(* Two files of which one has contents of each format, or the same ones.   *)
Formats ==
  {[header |-> [Header0(<<F("a", c), F("b.py", d)>>) EXCEPT !.source = s],
    archive |-> Ends(<<Entry("a", c), Entry("b.py", d)>>), cut |-> NoCut] :
     c \in Contents \ {"empty", "damaged"}, d \in Contents \ {"damaged"}, s \in 0..1}

(* Attributes that differ in every respect, numbers at the end of their    *)
(* range, names in ISO-8859-1, on a file, a directory, a link and a ghost. *)
Attributes ==
  {Root} \cup {[Root EXCEPT !.user = <<"r">>, !.group = <<"o", "t">>], [Root EXCEPT !.mode = 7],
               [Root EXCEPT !.flags = INT_MAX], [Root EXCEPT !.flags = INT_MAX + 1],
               [Root EXCEPT !.group = <<>>, !.caps = <<"t">>],
               [Root EXCEPT !.group = <<"t", "u">>], [Root EXCEPT !.caps = <<"u">>]}

Rows ==
  LET Vary(f) == {[f EXCEPT !.attr = a] : a \in Attributes}
                   \cup {[f EXCEPT !.mtime = n] : n \in {INT_MAX, INT_MAX + 1}}
                   \cup {[f EXCEPT !.ino = n] : n \in {INT_MAX, INT_MAX + 1}}
                   \cup {[f EXCEPT !.utf8 = FALSE]}
      dir == [F("b", "empty") EXCEPT !.kind = "dir"]
      link == [F("b", "c3") EXCEPT !.kind = "link", !.target = "t"]
      hard(n) == [F(n, "c1") EXCEPT !.ino = 7, !.nlink = 2]
      second == {F("b", "c1"), [F("b", "c1") EXCEPT !.ghost = TRUE], dir, link, [link EXCEPT !.target = ""]}
  IN  {[header |-> Header0(<<x, y>>), cut |-> NoCut,
        archive |-> Ends(<<Entry("a", "c1")>> \o IF y.ghost THEN <<>>
                           ELSE <<Entry("b", IF y.kind = "reg" THEN "c1" ELSE y.digest)>>)] :
         x \in Vary(F("a", "c1")), y \in UNION {Vary(f) : f \in second}}
      \cup {[header |-> Header0(<<x, y>>), cut |-> NoCut,
             archive |-> Ends(<<Entry("a", "empty"), Entry("b", "c1")>>)] :
              x \in Vary(hard("a")), y \in Vary(hard("b"))}

MCPackages == <<Cut, Odd, Names, Tags, Rows, Formats, Ordered>>
=============================================================================
