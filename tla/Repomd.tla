------------------------------- MODULE Repomd -------------------------------
(***************************************************************************)
(* Repository metadata: expat_minidom.cpp, and repomd.cpp, repomd_primary  *)
(* .cpp and repomd_primary_xml.cpp of lib/symboldb, over the pull parser,  *)
(* and the choice of the newest packages (package_set_consolidator.hpp,    *)
(* rpm_evr.cpp).                                                           *)
(***************************************************************************)
EXTENDS ExpatSource, StringSupport

CONSTANT INT_MAX    \* the largest int

-----------------------------------------------------------------------------
(* expat_minidom::parse.  The stack holds the open elements; an element    *)
(* becomes a child when it is closed, which gives the same order.          *)
Element(e) == [name |-> e.name, attrs |-> e.attrs, children |-> <<>>]

AddChild(stack, node) ==
  [stack EXCEPT ![Len(stack)].children = Append(@, node)]

RECURSIVE DomLoop(_, _)
AfterEnd(t, stack) ==
  IF Failed(t) THEN [s |-> t, root |-> None]
  ELSE IF Len(stack) = 1 THEN [s |-> t, root |-> stack[1]]
  ELSE DomLoop(t, AddChild(Front(stack), Last(stack)))
AfterText(g, stack) == DomLoop(g.s, AddChild(stack, [data |-> g.text]))
DomLoop(s, stack) ==
  CASE Failed(s) -> [s |-> s, root |-> None]
    [] ~Failed(s) /\ s.state_ = "START" ->
         DomLoop(next(s), Append(stack, Element(s.elem)))
    [] ~Failed(s) /\ s.state_ = "END" -> AfterEnd(next(s), stack)
    [] OTHER -> AfterText(Gather(s, <<>>), stack)

minidom_parse(s) == DomLoop(check_state(next(s), "START"), <<>>)

IsElement(node) == "name" \in DOMAIN node
Elements(e) == SelectSeq(e.children, IsElement)

first_child(e, n) ==
  LET i == SelectInSeq(Elements(e), LAMBDA c : c.name = n)
  IN  IF i = 0 THEN None ELSE Elements(e)[i]

text(e) == FlattenSeq([i \in 1..Len(e.children) |->
             IF IsElement(e.children[i]) THEN <<>> ELSE e.children[i].data])

Attr(e, a) == IF a \in DOMAIN e.attrs THEN e.attrs[a] ELSE <<>>

-----------------------------------------------------------------------------
no_length == ULLONG_MAX

(* A size element that is missing, or its number.                          *)
SizeOf(e) ==
  IF e = None THEN Value(no_length)
  ELSE parse_unsigned_long_long(strip(text(e)))

(* The body of the loop in repomd::parse, for one <data> element.          *)
ChecksumOf(c, size) ==
  IF c # None /\ size.ok THEN set_hexadecimal(Attr(c, "type"), size.value, strip(text(c)))
  ELSE Error

Entry(e, location, csum, compressed, open_csum) ==
  IF /\ location # None /\ csum.ok /\ open_csum.ok
     /\ compressed \/ first_child(e, "open-size") = None
     /\ Attr(e, "type") # <<>> /\ Attr(location, "href") # <<>>
  THEN Value([type |-> Attr(e, "type"), href |-> Attr(location, "href"),
              compressed |-> compressed, checksum |-> csum.value,
              open_checksum |-> open_csum.value])
  ELSE Error

DataEntry(e) ==
  LET csum == ChecksumOf(first_child(e, "checksum"), SizeOf(first_child(e, "size")))
      open == first_child(e, "open-checksum")
  IN  Entry(e, first_child(e, "location"), csum, open # None,
            IF open = None THEN csum ELSE ChecksumOf(open, SizeOf(first_child(e, "open-size"))))

(* repomd::parse and acquire: the entries, or an exception.                *)
DataEntries(data) == [i \in 1..Len(data) |-> DataEntry(data[i])]

AllEntries(entries) ==
  IF \E i \in 1..Len(entries) : ~entries[i].ok THEN Error
  ELSE Value([i \in 1..Len(entries) |-> entries[i].value])

RepomdOf(root) ==
  IF root = None \/ root.name # "repomd" THEN Error
  ELSE AllEntries(DataEntries(SelectSeq(Elements(root), LAMBDA e : e.name = "data")))

repomd_parse(s) == RepomdOf(minidom_parse(s).root)

-----------------------------------------------------------------------------
(* primary_xml: the first compressed primary file.                         *)
primary == Word(10)
xml_gz == Word(11)

PrimaryEntry(entries) ==
  LET i == SelectInSeq(entries, LAMBDA e : e.type = primary
                                             /\ ends_with(e.href, xml_gz))
  IN  IF i = 0 THEN None ELSE entries[i]

(* The cache mode for it: always_cache only if its name has the digest.    *)
(* IsInfixOf stands for std::string::find.                                 *)
IsInfixOf(t, s) == \E i \in 0..Len(s) - Len(t) : SubSeq(s, i + 1, i + Len(t)) = t

PrimaryMode(e, mode) ==
  LET digest == base16_encode(e.checksum.value) IN
  IF mode = "always_cache" /\ (digest = <<>> \/ ~IsInfixOf(digest, e.href))
  THEN "check_cache" ELSE mode

-----------------------------------------------------------------------------
(* repomd::primary.  clear() of impl:                                      *)
Cleared == [name |-> <<>>, version |-> <<>>, release |-> <<>>, arch |-> <<>>,
            source_rpm |-> <<>>, epoch |-> -1, href |-> <<>>,
            type |-> sha256, value |-> <<>>, length |-> no_length]

(* The constructor: in front of the first child of <metadata>.             *)
OpenedAt(t) ==
  IF Failed(t) THEN t
  ELSE IF t.elem.name # "metadata" THEN Raise(t, "runtime_error")
  ELSE next(t)

primary_open(s) == OpenedAt(check_state(next(s), "START"))

(* An epoch that an int cannot hold clears the version, which validate     *)
(* then misses.  The conversion to int is modulo.                          *)
ToInt(n) == ((n + INT_MAX + 1) % (2 * (INT_MAX + 1))) - (INT_MAX + 1)
FromInt(i) == IF i < 0 THEN ULLONG_MAX + 1 + i ELSE i

WithEpoch(info, e) ==
  IF e.ok /\ FromInt(ToInt(e.value)) = e.value
  THEN [info EXCEPT !.epoch = ToInt(e.value)]
  ELSE [info EXCEPT !.version = <<>>]

WithVersion(info, s) ==
  WithEpoch([info EXCEPT !.version = strip(attribute(s, "ver")),
                         !.release = strip(attribute(s, "rel"))],
            parse_unsigned_long_long(strip(attribute(s, "epoch"))))

WithLength(info, n) == IF n.ok THEN [info EXCEPT !.length = n.value] ELSE info
WithSize(info, s) == WithLength(info, parse_unsigned_long_long(attribute(s, "package")))

WithLocation(info, s, base_url) ==
  LET b == attribute(s, "xml:base")
  IN  [info EXCEPT !.href = url_combine_yum(IF b = <<>> THEN base_url ELSE b,
                                            attribute(s, "href"))]

Pair(s, info) == [s |-> s, info |-> info]

(* <name>, <arch>: the text inside.                                        *)
WithText(g, info, f) == Pair(unnest(g.s), [info EXCEPT ![f] = g.text])
TextField(s, info, f) == WithText(text_and_next(next(s)), info, f)

WithChecksum(t, c, info) ==
  IF Failed(t) \/ ~c.ok THEN Pair(Raise(t, "checksum"), info)
  ELSE Pair(unnest(t), [info EXCEPT !.type = c.value.type, !.value = c.value.value])
ChecksumText(g, type, info) == WithChecksum(g.s, set_hexadecimal(type, info.length, g.text), info)
ChecksumField(s, info) == ChecksumText(text_and_next(next(s)), attribute(s, "type"), info)

(* process_format, inside <format>.                                        *)
RECURSIVE InFormat(_, _)
SourceRpm(t, g, info) ==
  IF ~Failed(t) /\ t.state_ = "TEXT" THEN [info EXCEPT !.source_rpm = g.text] ELSE info
InSourceRpm(t, g, info) == InFormat(unnest(g.s), SourceRpm(t, g, info))
InFormat(s, info) ==
  CASE Failed(s) -> Pair(s, info)
    [] ~Failed(s) /\ s.state_ = "END" -> Pair(next(s), info)
    [] AtStart(s, "rpm:sourcerpm") ->
         LET t == next(s) IN InSourceRpm(t, Gather(t, <<>>), info)
    [] OTHER -> InFormat(skip(s), info)

(* The children of <package>.                                              *)
RECURSIVE InPackage(_, _, _)
Attributes(s, info, base_url) ==      \* of the elements that have only these
  CASE AtStart(s, "version") -> WithVersion(info, s)
    [] AtStart(s, "size") -> WithSize(info, s)
    [] AtStart(s, "location") -> WithLocation(info, s, base_url)
    [] OTHER -> info
InChild(s, info, base_url) ==
  CASE AtStart(s, "name") \/ AtStart(s, "arch") -> TextField(s, info, s.elem.name)
    [] AtStart(s, "checksum") -> ChecksumField(s, info)
    [] AtStart(s, "format") -> InFormat(next(s), info)
    [] OTHER -> Pair(skip(s), Attributes(s, info, base_url))
Behind(p, base_url) == InPackage(p.s, p.info, base_url)
InPackage(s, info, base_url) ==
  IF Failed(s) \/ s.state_ = "END" THEN Pair(s, info)
  ELSE Behind(InChild(s, info, base_url), base_url)

\* MUTANT: the fields of the package before are still there.
ClearedKeep(info) == info

ClearedFor(info) == Cleared

validated(info) ==
  /\ \A f \in {"name", "version", "arch", "href", "value"} : info[f] # <<>>
  /\ info.length # no_length

(* next(): from the element before to behind the next <package>.           *)
RECURSIVE ToPackage(_)
ToPackage(s) ==
  IF Failed(s) \/ s.state_ = "END" \/ AtStart(s, "package") THEN s
  ELSE ToPackage(skip(s))

rpm == Word(12)

Delivered(s, info) == [s |-> s, info |-> info, found |-> ~Failed(s)]

Validated(s, info) == Delivered(IF validated(info) THEN s ELSE Raise(s, "runtime_error"), info)
ThePackage(p) == Validated(next(p.s), p.info)

AtPackage(t, info, base_url) ==
  IF Failed(t) \/ t.state_ = "END" THEN [s |-> t, info |-> info, found |-> FALSE]
  ELSE IF attribute(t, "type") # rpm
  THEN [s |-> Raise(t, "runtime_error"), info |-> info, found |-> FALSE]
  ELSE ThePackage(InPackage(next(t), info, base_url))

primary_next(s, info, base_url) == AtPackage(ToPackage(s), ClearedFor(info), base_url)

-----------------------------------------------------------------------------
(* rpm_evr.  rpmvercmp compares version and release; here they are bytes.  *)
LessBytes(a, b) ==
  \/ Len(a) < Len(b) /\ SubSeq(b, 1, Len(a)) = a
  \/ \E i \in 1..Len(a) :
       i <= Len(b) /\ SubSeq(a, 1, i - 1) = SubSeq(b, 1, i - 1) /\ a[i] < b[i]

rpmvercmp(a, b) == IF a = b THEN 0 ELSE IF LessBytes(a, b) THEN -1 ELSE 1

(* evr.epoch = info.epoch assigns an int to a string: a string of one      *)
(* character with that code.                                               *)
EvrOf(info) == [epoch |-> <<info.epoch % 256>>,
                version |-> info.version, release |-> info.release]

\* MUTANT: the release is not compared.
evr_less_version(a, b) ==
  IF a.epoch = b.epoch
  THEN rpmvercmp(a.version, b.version) < 0
  ELSE LessBytes(a.epoch, b.epoch)

evr_less(a, b) ==
  IF a.epoch = b.epoch
  THEN LET ret == rpmvercmp(a.version, b.version) IN
       IF ret # 0 THEN ret < 0 ELSE rpmvercmp(a.release, b.release) < 0
  ELSE IF Len(a.epoch) # Len(b.epoch) THEN Len(a.epoch) < Len(b.epoch)
  ELSE LessBytes(a.epoch, b.epoch)

(* package_set_consolidator::add.  The map goes from architecture and name *)
(* to version and package.                                                 *)
consolidator_add(map, info) ==
  LET key == <<info.arch, info.name>> IN
  IF key \in DOMAIN map /\ ~evr_less(EvrOf(map[key]), EvrOf(info)) THEN map
  ELSE [k \in DOMAIN map \cup {key} |-> IF k = key THEN info ELSE map[k]]

(* package_set_consolidator::values, in the order of the nested maps.      *)
values(map) ==
  LET Before(a, b) == IF a[1] # b[1] THEN LessBytes(a[1], b[1]) ELSE LessBytes(a[2], b[2])
      keys == SetToSortSeq(DOMAIN map, Before)
  IN  [i \in 1..Len(keys) |-> map[keys[i]]]
=============================================================================
