----------------------------- MODULE MCMetadata -----------------------------
(* Small documents: two packages that differ in the order of their         *)
(* elements, in versions and in what is nested in them, and one of each    *)
(* defect; repomd.xml with and without the optional elements; POM files    *)
(* with nested elements.  The gzip files have one or two members, whole,   *)
(* cut off, or with garbage behind.                                        *)
EXTENDS XmlDocuments, TLC

Chars(s) == [i \in 1..Len(s) |-> TEXT(s[i])]
El(n, attrs, inner) == <<START(n, attrs)>> \o inner \o <<END>>
A(a, v) == a :> v

n1 == Word(20)
n2 == Word(21)
x86 == Word(22)
dir == Word(23)
hex == <<97, 48>>          \* "a0"
MCBase == Word(24)

NameEl(n) == El("name", NoAttributes, Chars(n))
ArchEl == El("arch", NoAttributes, Chars(x86))
Version(e, v, r) == El("version", A("epoch", e) @@ A("ver", v) @@ A("rel", r), <<>>)
Checksum(h) == El("checksum", A("type", sha256), Chars(h))
Size(n) == El("size", A("package", n), <<>>)
Location == El("location", A("href", dir), <<>>)
Format == El("format", NoAttributes,
             El("rpm:license", NoAttributes, Chars(n2) \o El("name", NoAttributes, <<>>))
             \o El("rpm:sourcerpm", NoAttributes, Chars(<<105, 106>>)))
Based == El("location", A("href", dir) @@ A("xml:base", Word(25)), <<>>)

Package(inner) == El("package", A("type", rpm), inner)
Metadata(inner) == <<Misc>> \o El("metadata", NoAttributes, inner) \o <<Misc>>

v1 == Version(<<48>>, <<49>>, <<49>>)
v2 == Version(<<48>>, <<49>>, <<50>>)
v3 == Version(<<49>>, <<48>>, <<48>>)
Plain(v) == NameEl(n1) \o v \o ArchEl \o Checksum(hex) \o Size(<<55>>) \o Location
Full(v) == Format \o Size(<<56>>) \o Checksum(hex) \o Based \o El("x", NoAttributes, NameEl(n2) \o Chars(<<1, 2>>))
           \o <<Misc>> \o ArchEl \o v \o El("name", NoAttributes, Chars(n1) \o <<Misc>> \o El("y", NoAttributes, <<>>))

MCPatterns == {{n1}, {n2, x86}}

Two(p, q) == Metadata(Package(p) \o <<Misc, Misc>> \o Package(q))
Good == Two(Plain(v1), Plain(v2))
MCPrimaryDocs ==
  {Good, Two(Plain(v1) \o NameEl(n2), Plain(v1)), Two(Full(v3), Plain(v2)), Two(Plain(v2), Full(v1)),
   Metadata(El("other", NoAttributes, Package(Plain(v1))) \o Package(Full(v1))),
   Metadata(<<>>), El("filelists", NoAttributes, <<>>),
   Two(Full(v1), Plain(<<>>)),                              \* no version
   Two(Plain(v1), NameEl(n1) \o v1 \o ArchEl),              \* no checksum
   Metadata(Package(Plain(Version(<<53, 49, 50>>, <<49>>, <<49>>)))), \* epoch
   Metadata(Package(Plain(v1) \o NameEl(<<>>))),            \* empty name
   Metadata(Package(Plain(v1) \o Checksum(<<97>>))),        \* odd digits
   Metadata(Package(Plain(v1) \o Size(<<45, 49>>))),        \* -1
   Metadata(El("package", A("type", hex), Plain(v1))),
   SubSeq(Good, 1, 30), SubSeq(Good, 1, 25) \o <<Bad>>,
   <<EntityDecl>> \o Good}

(* The members of a file in units of 10 tokens, the last of 30 units.      *)
Units(d) == [i \in 1..Len(Cut(d, 10)) |-> Data(Cut(d, 10)[i])]
Member(us) == <<Header>> \o us \o <<Trailer>>
OneMember(d) == Member(Units(d))
TwoMembers(d) == Member(SubSeq(Units(d), 1, 1)) \o Member(SubSeq(Units(d), 2, Len(Units(d))))

MCFiles ==
  [d \in MCPrimaryDocs |->
     {<<OneMember(d)>>, Cut(TwoMembers(d), 1), Cut(TwoMembers(d), 4)}
     \cup IF d = Good THEN {Cut(Front(TwoMembers(d)), 3), <<Append(OneMember(d), Garbage)>>,
                            Cut(SubSeq(TwoMembers(d), 1, 3), 1) \o <<<<Header>>>>}
          ELSE {}]

-----------------------------------------------------------------------------
DataEl(t, inner) == El("data", A("type", t), inner)
LocationOf(h) == El("location", A("href", h), <<>>)
Sum(n, h) == El(n, A("type", sha), Chars(<<32>> \o h \o <<10>>))
Number(n, s) == El(n, NoAttributes, Chars(s))
Gz == dir \o hex \o xml_gz
Entry1 == DataEl(primary, Sum("checksum", hex) \o LocationOf(Gz) \o Number("size", <<57>>))
Repo(inner) == El("repomd", NoAttributes, inner)

MCRepomdDocs ==
  {Repo(Entry1),
   Repo(El("revision", NoAttributes, Entry1) \o Entry1
        \o DataEl(hex, LocationOf(dir) \o Sum("open-checksum", hex) \o Sum("checksum", <<>>))),
   Repo(DataEl(primary, El("x", NoAttributes, LocationOf(hex)) \o LocationOf(Gz)
                        \o El("checksum", A("type", md5), Chars(<<97>>) \o El("y", NoAttributes, Chars(<<53>>)) \o Chars(<<65>>)))
        \o <<Misc>>),
   Repo(DataEl(hex, Sum("checksum", hex) \o LocationOf(Gz))),
   Repo(DataEl(primary, Sum("checksum", hex))),
   Repo(DataEl(<<>>, Sum("checksum", hex) \o LocationOf(Gz))),
   Repo(DataEl(primary, Sum("checksum", <<97>>) \o LocationOf(Gz))),
   Repo(DataEl(primary, Sum("checksum", hex) \o LocationOf(Gz) \o Number("open-size", <<57>>))),
   Metadata(Entry1), SubSeq(Repo(Entry1), 1, 12), Repo(Entry1 \o <<Bad>>)}

-----------------------------------------------------------------------------
Url(n) == El(n, NoAttributes, Chars(<<32, 104, 105>>))
MCPomDocs ==
  {El("project", NoAttributes,
      Url("url") \o El("repository", NoAttributes,
                       El("scm", NoAttributes, Url("url") \o Url("connection"))
                       \o Url("url"))
      \o El("scm", NoAttributes, Url("developerConnection") \o El("url", NoAttributes, <<>>))),
   El("project", NoAttributes,
      El("distributionManagement", NoAttributes,
         El("site", NoAttributes, Url("url") \o El("x", NoAttributes, Url("url")))
         \o Url("downloadUrl"))
      \o El("url", NoAttributes, Chars(<<104>>) \o El("x", NoAttributes, Url("url")) \o Chars(<<105>>))
      \o <<Misc>> \o Url("url")),
   El("site", NoAttributes, Url("url")),
   El("project", NoAttributes, <<>>),
   El("project", NoAttributes, Url("url") \o <<Bad>>),
   <<Bad>>}
=============================================================================
