------------------------------ MODULE MavenUrl ------------------------------
(***************************************************************************)
(* lib/cxxll/maven_url.cpp: the URLs of a POM file, each with the element  *)
(* it belongs to.                                                          *)
(***************************************************************************)
EXTENDS ExpatSource, StringSupport

Classes == {"repository", "pluginRepository", "snapshotRepository",
            "distributionManagement", "scm"}

classify(tag) == IF tag \in Classes THEN tag ELSE "other"

(* The type of the URL in an element, None if it is not one of those with  *)
(* a URL.  A <url> belongs to <site> if it is directly inside of it, else  *)
(* to the outermost element that has a class.                              *)
\* MUTANT: the innermost element counts.
UrlTypeInner(tag, tags) ==
  CASE tag \in {"downloadUrl", "connection", "developerConnection"} -> tag
    [] tag = "url" ->
         IF tags # <<>> /\ Last(tags) = "site" THEN "site"
         ELSE LET i == SelectLastInSeq(tags, LAMBDA t : t \in Classes)
              IN  IF i = 0 THEN "other" ELSE classify(tags[i])
    [] OTHER -> None

UrlType(tag, tags) ==
  CASE tag \in {"downloadUrl", "connection", "developerConnection"} -> tag
    [] tag = "url" ->
         IF tags # <<>> /\ Last(tags) = "site" THEN "site"
         ELSE LET i == SelectInSeq(tags, LAMBDA t : t \in Classes)
              IN  IF i = 0 THEN "other" ELSE classify(tags[i])
    [] OTHER -> None

(* extract_text_contents: from the start of such an element to behind it.  *)
WithUrl(t, g, type, result) ==
  [s |-> unnest(g.s),
   result |-> IF Failed(t) \/ t.state_ # "TEXT" \/ Failed(g.s) THEN result
              ELSE Append(result, [url |-> strip(g.text), type |-> type])]

TextContents(s, type, result) ==
  LET t == next(s) IN WithUrl(t, Gather(t, <<>>), type, result)

(* The loop of extract; tags are the open elements.                        *)
RECURSIVE ExtractLoop(_, _, _)
AfterContents(c, tags) == ExtractLoop(c.s, tags, c.result)
AtElement(s, tags, result, type) ==
  IF type = None THEN ExtractLoop(next(s), Append(tags, s.elem.name), result)
  ELSE AfterContents(TextContents(s, type, result), tags)
ExtractLoop(s, tags, result) ==
  IF Failed(s) \/ s.state_ = "EOD"
  THEN [s |-> IF Failed(s) \/ tags = <<>> THEN s ELSE Raise(s, "assertion"),
        result |-> result]
  ELSE IF s.state_ = "START"
  THEN AtElement(s, tags, result, UrlType(s.elem.name, tags))
  ELSE IF s.state_ = "END"
  THEN IF tags = <<>> THEN [s |-> Raise(s, "assertion"), result |-> result]
       ELSE ExtractLoop(next(s), Front(tags), result)
  ELSE ExtractLoop(next(s), tags, result)

(* A document that is not XML, or not a POM, has no URLs.  The first entry *)
(* of the stack is for the root element.                                   *)
ExtractFrom(s, t) ==
  CASE t.exc = "malformed" -> [s |-> s, result |-> <<>>]
    [] t.exc # "malformed" /\ Failed(t) -> [s |-> t, result |-> <<>>]
    [] AtStart(t, "project") -> ExtractLoop(next(t), <<"">>, <<>>)
    [] OTHER -> [s |-> t, result |-> <<>>]

maven_extract(s) == ExtractFrom(s, next(s))
=============================================================================
