---------------------------- MODULE XmlDocuments ----------------------------
(***************************************************************************)
(* How symboldb_download_repo gets from repomd.xml to the packages to      *)
(* download: the repomd.xml of each repository names the compressed        *)
(* primary.xml, which is decompressed and read package by package; of all  *)
(* of them the newest ones are kept, apart from those that --exclude-name  *)
(* names.  And a POM file, which is read by the same parser.  What the     *)
(* reads of the sources return is cut in different ways; the documents     *)
(* must not notice.                                                        *)
(***************************************************************************)
EXTENDS Repomd, MavenUrl, FiniteSets

CONSTANTS
  RepomdDocs,   \* documents for repomd.xml, as sequences of tokens
  PrimaryDocs,  \* documents for primary.xml
  PomDocs,      \* POM files
  Lengths,      \* how many tokens a read returns at most, for a process
  BaseUrl,      \* the URL of the repository
  Files,        \* Files[d]: the gzip files with document d, in chunks
  Patterns,     \* arguments of --exclude-name: the names that each matches
  MaxRepos      \* bound on the number of repositories of the command

VARIABLES
  stage,   \* what is being read
  doc,     \* the document, and how many tokens a read of it returns
  file,    \* the gzip file of primary.xml
  parser,  \* the state of expat_source and of what it reads from
  info,    \* repomd::primary::impl::info_, checksum_ and href_
  found,   \* the result of reading: entries, packages or URLs
  map,     \* the consolidator
  repos,   \* repositories read so far, and what was found in them (history)
  urls     \* the packages to download, and the exclude_names_ left out

reading == <<doc, file, parser, info>>
vars == <<stage, reading, found, map, repos, urls>>

(* A document cut into chunks of n tokens.                                 *)
Cut(d, n) ==
  [i \in 1..(Len(d) + n - 1) \div n |->
     SubSeq(d, n * (i - 1) + 1, IF n * i < Len(d) THEN n * i ELSE Len(d))]

Opened(tokens, n) == [tokens |-> tokens, length |-> n]
ParserOf(d, n) == NewParser(plain_source(Cut(d, n)))

Init ==
  /\ stage \in {"repomd", "pom"}
  /\ \E d \in IF stage = "pom" THEN PomDocs ELSE RepomdDocs, n \in Lengths :
       doc = Opened(d, n) /\ parser = ParserOf(d, n)
  /\ file = <<>>
  /\ info = Cleared
  /\ found = <<>>
  /\ map = <<>>
  /\ repos = [count |-> 1, found |-> <<>>]
  /\ urls = [list |-> <<>>, excluded |-> {}]

(* rp.acquire                                                              *)
Acquire ==
  /\ stage = "repomd"
  /\ \E r \in {repomd_parse(parser)} :
       /\ stage' = IF r.ok THEN "entries" ELSE "failed"
       /\ found' = IF r.ok THEN r.value ELSE <<>>
  /\ UNCHANGED <<reading, map, repos, urls>>

(* The constructor of primary_xml downloads the file.                      *)
OpenPrimary ==
  /\ stage = "entries"
  /\ PrimaryEntry(found) # None
  /\ \E d \in PrimaryDocs : \E f \in Files[d] :
       /\ doc' = Opened(d, doc.length)
       /\ file' = f
       /\ parser' = NewParser(primary_xml(f, doc.length))
  /\ stage' = "opening"
  /\ found' = <<>>
  /\ UNCHANGED <<info, map, repos, urls>>

NoPrimary ==
  /\ stage = "entries"
  /\ PrimaryEntry(found) = None
  /\ stage' = "failed"
  /\ UNCHANGED <<reading, found, map, repos, urls>>

(* The constructor of repomd::primary.                                     *)
OpenParser ==
  /\ stage = "opening"
  /\ parser' = primary_open(parser)
  /\ stage' = IF Failed(parser') THEN "failed" ELSE "primary"
  /\ UNCHANGED <<doc, file, info, found, map, repos, urls>>

(* primary.next() and pset.add.  Reads only as far as it has to, and never *)
(* behind the end of the root element.                                     *)
NextPackage ==
  /\ stage = "primary"
  /\ \E r \in {primary_next(parser, info, BaseUrl)} :
       /\ parser' = r.s
       /\ info' = r.info
       /\ found' = IF r.found THEN Append(found, r.info) ELSE found
       /\ map' = IF r.found THEN consolidator_add(map, r.info) ELSE map
       /\ stage' = IF r.found THEN "primary"
                   ELSE IF Failed(r.s) THEN "failed" ELSE "done"
  /\ UNCHANGED <<doc, file, repos, urls>>

(* The next URL on the command line: all but pset is new.                  *)
NextRepository ==
  /\ stage = "done" /\ repos.count < MaxRepos
  /\ \E d \in RepomdDocs :
       doc' = Opened(d, doc.length) /\ parser' = ParserOf(d, doc.length)
  /\ file' = <<>>
  /\ info' = Cleared
  /\ found' = <<>>
  /\ repos' = [count |-> repos.count + 1, found |-> repos.found \o found]
  /\ stage' = "repomd"
  /\ UNCHANGED <<map, urls>>

(* exclude_name: one regular expression of all patterns, which has to      *)
(* match the whole name; name_filter applies it.                           *)
exclude_name(patterns) == UNION patterns

name_filter(list, patterns) ==
  IF patterns = {} THEN list
  ELSE SelectSeq(list, LAMBDA p : p.name \notin exclude_name(patterns))

(* After the last repository: pset.values(), the filter, and --randomize.  *)
Shuffled(list) ==
  {[i \in DOMAIN list |-> list[f[i]]] : f \in Bijection(DOMAIN list, DOMAIN list)}

ChooseUrls ==
  /\ stage = "done"
  /\ \E patterns \in SUBSET Patterns, randomize \in BOOLEAN :
       LET list == name_filter(values(map), patterns) IN
       urls' \in [list : IF randomize THEN Shuffled(list) ELSE {list}, excluded : {patterns}]
  /\ stage' = "chosen"
  /\ UNCHANGED <<reading, found, map, repos>>

(* maven_url::extract                                                      *)
ReadPom ==
  /\ stage = "pom"
  /\ \E r \in {maven_extract(parser)} :
       /\ found' = r.result
       /\ stage' = IF Failed(r.s) THEN "pom failed" ELSE "pom done"
  /\ UNCHANGED <<reading, map, repos, urls>>

Next == Acquire \/ OpenPrimary \/ NoPrimary \/ OpenParser
        \/ NextPackage \/ NextRepository \/ ChooseUrls \/ ReadPom

Spec == Init /\ [][Next]_vars

-----------------------------------------------------------------------------
(* The documents as a whole: what the tokens say, by position, without a   *)
(* parser.                                                                 *)
Proper(d) == SelectSeq(d, LAMBDA t : t.k # "misc")

OpenAt(d, i) == Len(Kinds(SubSeq(d, 1, i), {"START"}))
                  - Len(Kinds(SubSeq(d, 1, i), {"END"}))

Starts(d) == {i \in 1..Len(d) : d[i].k = "START"}

(* The end of the element that starts at i, and the elements inside it.    *)
EndOf(d, i) ==
  Min({j \in i + 1..Len(d) : d[j].k = "END" /\ OpenAt(d, j) = OpenAt(d, i) - 1})
ChildrenOf(d, i) ==
  {j \in Starts(d) : i < j /\ j < EndOf(d, i) /\ OpenAt(d, j) = OpenAt(d, i) + 1}
Named(d, is, n) == {i \in is : d[i].name = n}
Ancestors(d, i) == {j \in Starts(d) : j < i /\ EndOf(d, j) > i}

(* The text at the start of an element, and all text directly in it.       *)
Texts(d, is) == [k \in 1..Cardinality(is) |-> d[SetToSortSeq(is, <)[k]].text]
LeadingText(d, i) ==
  Texts(d, {j \in i + 1..Len(d) : \A k \in i + 1..j : d[k].k = "TEXT"})
OwnText(d, i) ==
  Texts(d, {j \in i..EndOf(d, i) : d[j].k = "TEXT" /\ OpenAt(d, j) = OpenAt(d, i)})

AttrAt(d, i, a) == IF a \in DOMAIN d[i].attrs THEN d[i].attrs[a] ELSE <<>>
Closed(d) ==
  /\ \A i \in 1..Len(d) : d[i].k \notin {"bad", "entity"}
  /\ Starts(d) # {} /\ \A i \in 1..Len(d) : OpenAt(d, i) = 0 <=> i = Len(d)

-----------------------------------------------------------------------------
(* What the <package> at i says; for a field that occurs twice, the last.  *)
PackageAt(d, i) ==
  LET At(n) == Named(d, ChildrenOf(d, i), n)
      TextOf(n) == IF At(n) = {} THEN <<>> ELSE LeadingText(d, Max(At(n)))
      AttrOf(n, a) == IF At(n) = {} THEN <<>> ELSE AttrAt(d, Max(At(n)), a)
      NumberOr(n, default) == IF n.ok THEN n.value ELSE default
      sources == {j \in Named(d, UNION {ChildrenOf(d, f) : f \in At("format")},
                              "rpm:sourcerpm") : LeadingText(d, j) # <<>>}
      base == AttrOf("location", "xml:base")
  IN [name |-> TextOf("name"), arch |-> TextOf("arch"),
      version |-> strip(AttrOf("version", "ver")),
      release |-> strip(AttrOf("version", "rel")),
      epoch |-> NumberOr(parse_unsigned_long_long(strip(AttrOf("version", "epoch"))), -1),
      source_rpm |-> IF sources = {} THEN <<>> ELSE LeadingText(d, Max(sources)),
      href |-> IF At("location") = {} THEN <<>>
               ELSE url_combine_yum(IF base = <<>> THEN BaseUrl ELSE base,
                                    AttrOf("location", "href")),
      type |-> sha256,
      value |-> IF At("checksum") = {} \/ ~base16_decode(TextOf("checksum")).ok
                THEN <<>> ELSE base16_decode(TextOf("checksum")).value,
      length |-> IF At("size") = {} THEN no_length
                 ELSE NumberOr(parse_unsigned_long_long(AttrOf("size", "package")), no_length)]

(* A package that must be refused.                                         *)
Incomplete(p) ==
  \/ \E f \in {"name", "arch", "version", "href", "value"} : p[f] = <<>>
  \/ p.epoch \notin 0..INT_MAX \/ p.length = no_length

Refused(d, i) ==
  \/ AttrAt(d, i, "type") # rpm
  \/ \E j \in ChildrenOf(d, i) :
       d[j].name \in {"name", "arch", "checksum"} /\ LeadingText(d, j) = <<>>
  \/ Incomplete(PackageAt(d, i))

PackageStarts(d) == Named(d, ChildrenOf(d, 1), "package")

(* repomd.xml: every <data> element of the root gives one entry, with the  *)
(* values of its own children, and not those of nested ones; one that      *)
(* lacks location, checksum or type makes the file unusable.               *)
EntriesAsWritten ==
  stage = "entries" =>
    LET d == Proper(doc.tokens)
        starts == SetToSortSeq(Named(d, ChildrenOf(d, 1), "data"), <)
        First(i, n) == LET is == Named(d, ChildrenOf(d, i), n)
                       IN IF is = {} THEN 0 ELSE Min(is)
        SameSum(c, i) ==
          /\ i > 0
          /\ c.value = base16_decode(strip(OwnText(d, i))).value
          /\ c.type = from_string(AttrAt(d, i, "type")).value
    IN /\ Closed(d) /\ d[1].name = "repomd" /\ Len(found) = Len(starts)
       /\ \A k \in 1..Len(found) :
            /\ found[k].type = AttrAt(d, starts[k], "type") /\ found[k].type # <<>>
            /\ First(starts[k], "location") > 0
            /\ found[k].href = AttrAt(d, First(starts[k], "location"), "href")
            /\ SameSum(found[k].checksum, First(starts[k], "checksum"))
            /\ found[k].compressed = (First(starts[k], "open-checksum") > 0)
            /\ SameSum(found[k].open_checksum,
                       IF found[k].compressed
                       THEN First(starts[k], "open-checksum")
                       ELSE First(starts[k], "checksum"))

(* The units of a gzip file up to its first damage, the data in them, and  *)
(* whether the file is a sequence of complete members.                     *)
Sound ==
  LET units == FlattenSeq(file)
      bad == SelectInSeq(units, LAMBDA u : u.u = "garbage")
  IN  IF bad = 0 THEN units ELSE SubSeq(units, 1, bad - 1)
Expanded ==
  FlattenSeq([i \in DOMAIN Sound |->
                IF Sound[i].u = "data" THEN Sound[i].blocks ELSE <<>>])
WholeFile ==
  Sound = FlattenSeq(file) /\ Sound # <<>> /\ Last(Sound).u = "trailer"

(* Reading primary.xml: whatever the sizes of reads and wherever members   *)
(* of the gzip file are cut, the packages delivered are those of the       *)
(* document, in order and field by field, with nothing left over from the  *)
(* package before or from nested elements; a package that lacks a field is *)
(* refused, and a file that is truncated or malformed is not taken for a   *)
(* complete one.                                                           *)
PackagesAsWritten ==
  /\ EntriesAsWritten
  /\ stage \in {"primary", "done"} =>
       LET d == Proper(doc.tokens) IN
       IF Closed(d)
       THEN LET starts == SetToSortSeq(PackageStarts(d), <)
            IN /\ Len(found) <= Len(starts)
               /\ \A k \in 1..Len(found) :
                    ~Refused(d, starts[k]) /\ found[k] = PackageAt(d, starts[k])
               /\ stage = "done" => Len(found) = Len(starts)
       ELSE stage = "primary"

(* An error is raised for a reason: a well-formed document whose packages  *)
(* are complete, in a complete file, is read to its end.  And a file is    *)
(* accepted only if the whole document comes before any damage: the reads  *)
(* return the blocks of all members in order and none behind the damage.   *)
(* What comes after the root element is never read, so damage there, or a  *)
(* wrong digest, may go unnoticed.                                         *)
NoFalseAlarm ==
  /\ stage = "failed" /\ file # <<>> =>
       LET d == Proper(doc.tokens) IN
       \/ ~WholeFile \/ ~Closed(d)
       \/ d[1].name # "metadata" \/ \E i \in PackageStarts(d) : Refused(d, i)
  /\ file # <<>> => IsPrefix(parser.source_.taken, Expanded)
  /\ stage = "done" => Closed(Proper(Expanded))
  /\ stage # "pom failed" \/ ~Closed(Proper(doc.tokens))

(* POM files: each element that can hold a URL and starts with text gives  *)
(* one, in order, of the type of the outermost element around it that has  *)
(* one (of <site> only directly inside), however deep elements are nested. *)
UrlsAsWritten ==
  stage = "pom done" /\ Closed(Proper(doc.tokens)) =>
    LET d == Proper(doc.tokens)
        holders == {"url", "downloadUrl", "connection", "developerConnection"}
        starts == {i \in Starts(d) :
                   /\ d[i].name \in holders /\ i > 1 /\ LeadingText(d, i) # <<>>
                   /\ \A j \in Ancestors(d, i) : d[j].name \notin holders}
        around(i) == {j \in Ancestors(d, i) : j > 1 /\ d[j].name \in Classes}
        type(i) == IF d[i].name # "url" THEN d[i].name
                   ELSE IF d[Max(Ancestors(d, i))].name = "site"
                           /\ Cardinality(Ancestors(d, i)) > 1 THEN "site"
                   ELSE IF around(i) = {} THEN "other" ELSE d[Min(around(i))].name
        order == SetToSortSeq(starts, <)
    IN  d[1].name = "project" =>
          found = [k \in 1..Len(order) |->
                     [url |-> strip(LeadingText(d, order[k])),
                      type |-> type(order[k])]]

(* "Picks the largest version number for each package name/architecture    *)
(* combinations", over all repositories and whatever their order, for the  *)
(* epochs of repositories, which fit into a byte; and in the end each of   *)
(* them is to be downloaded, once, unless its whole name is excluded.      *)
NewestChosen ==
  LET all == repos.found \o found
      Newer(a, b) == \/ a.epoch > b.epoch
                     \/ a.epoch = b.epoch /\ rpmvercmp(a.version, b.version) > 0
                     \/ /\ a.epoch = b.epoch /\ a.version = b.version
                        /\ rpmvercmp(a.release, b.release) > 0
      Excluded(p) == \E names \in urls.excluded : p.name \in names
      Chosen(p) == {i \in DOMAIN urls.list : /\ urls.list[i].arch = p.arch
                                            /\ urls.list[i].name = p.name}
  IN  /\ stage \in {"primary", "done"} =>
           /\ DOMAIN map = {<<p.arch, p.name>> : p \in ToSet(all)}
           /\ \A p \in ToSet(all) :
                LET chosen == map[<<p.arch, p.name>>] IN
                /\ chosen \in ToSet(all)
                /\ p.epoch \in 0..255 /\ chosen.epoch \in 0..255 => ~Newer(p, chosen)
      /\ stage = "chosen" =>
           /\ \A p \in ToSet(all) : Cardinality(Chosen(p)) = IF Excluded(p) THEN 0 ELSE 1
           /\ \A i \in DOMAIN urls.list :
                /\ urls.list[i] \in ToSet(all)
                /\ \A p \in ToSet(all) : i \in Chosen(p) /\ p.epoch \in 0..255
                     /\ urls.list[i].epoch \in 0..255 => ~Newer(p, urls.list[i])
=============================================================================
