---------------------------- MODULE ExpatSource ----------------------------
(***************************************************************************)
(* lib/cxxll/expat_source.cpp: a pull parser over the callbacks of expat.  *)
(* An XML document is a sequence of tokens; the source delivers it in      *)
(* chunks of any size.  The state of a parser is a record, its methods are *)
(* operators from one state to the next.  A state with exc # None is one   *)
(* that an exception has left: nothing is called on it any more.           *)
(***************************************************************************)
EXTENDS XmlSource

CONSTANT None

(* Tokens.  "misc" stands for what expat makes no callback for (comments,  *)
(* white space outside of the root), "bad" for the place of an error.  An  *)
(* attribute that is not there reads as the empty string.                  *)
START(n, attrs) == [k |-> "START", name |-> n, attrs |-> attrs]
TEXT(piece) == [k |-> "TEXT", text |-> piece]
END == [k |-> "END"]
EOD == [k |-> "EOD"]
Misc == [k |-> "misc"]
Bad == [k |-> "bad"]
EntityDecl == [k |-> "entity"]

NoAttributes == <<>>

(* The parser of a source.                                                 *)
NewParser(source) ==
  [source_ |-> source, depth |-> 0, root |-> FALSE,
   upcoming_ |-> <<>>, elem |-> None, state_ |-> "INIT", exc |-> None]

Failed(s) == s.exc # None
Raise(s, e) == IF Failed(s) THEN s ELSE [s EXCEPT !.exc = e]

-----------------------------------------------------------------------------
(* XML_Parse, and the callbacks it makes: the tokens up to an error.       *)
Kinds(tokens, kinds) == SelectSeq(tokens, LAMBDA t : t.k \in kinds)

Accepted(chunk) ==
  LET stop == SelectInSeq(chunk, LAMBDA t : t.k \in {"bad", "entity"})
  IN  IF stop = 0 THEN chunk ELSE SubSeq(chunk, 1, stop - 1)

Callbacks(s, chunk, ok) ==
  [s EXCEPT !.upcoming_ = @ \o Kinds(ok, {"START", "TEXT", "END"}),
            !.depth = @ + Len(Kinds(ok, {"START"})) - Len(Kinds(ok, {"END"})),
            !.root = @ \/ Kinds(ok, {"START"}) # <<>>,
            !.exc = IF ok = chunk THEN None
                    ELSE IF chunk[Len(ok) + 1].k = "entity"
                         THEN "entity_declaration" ELSE "malformed"]

XML_Parse(s, chunk) == Callbacks(s, chunk, Accepted(chunk))

(* The call with isFinal: all elements are closed, and there is one.       *)
Final(s) ==
  IF s.depth = 0 /\ s.root THEN [s EXCEPT !.upcoming_ = <<EOD>>]
  ELSE Raise(s, "malformed")

(* Reads until there is a callback, or the end.                            *)
RECURSIVE feed(_)
Fed(t) == IF Failed(t) \/ t.upcoming_ # <<>> THEN t ELSE feed(t)
feed(s) ==
  LET r == Head(s.source_.reads)
      t == [s EXCEPT !.source_ = read(@)]
  IN  IF r.throws THEN Raise(t, "source")
      ELSE IF r.out = <<>> THEN Final(t)
      ELSE Fed(XML_Parse(t, r.out))

Advance(t) ==
  IF Failed(t) THEN t
  ELSE [t EXCEPT !.elem = Head(t.upcoming_), !.state_ = Head(t.upcoming_).k,
                 !.upcoming_ = Tail(@)]

next(s) ==
  IF Failed(s) \/ s.state_ = "EOD" THEN s
  ELSE Advance(IF s.upcoming_ = <<>> THEN feed(s) ELSE s)

check_state(s, expected) ==
  IF s.state_ = expected THEN s ELSE Raise(s, "illegal_state")

AtStart(s, n) == ~Failed(s) /\ s.state_ = "START" /\ s.elem.name = n
attribute(s, a) == IF a \in DOMAIN s.elem.attrs THEN s.elem.attrs[a] ELSE <<>>

-----------------------------------------------------------------------------
(* Calls next while the state is TEXT, and adds up the text.               *)
RECURSIVE Gather(_, _)
Gather(s, text) ==
  IF Failed(s) \/ s.state_ # "TEXT" THEN [s |-> s, text |-> text]
  ELSE Gather(next(s), Append(text, s.elem.text))

\* MUTANT: the text is taken to come in one piece.
text_and_next_once(s) ==
  LET t == check_state(s, "TEXT") IN
  IF Failed(t) THEN [s |-> t, text |-> <<>>]
  ELSE [s |-> next(t), text |-> <<t.elem.text>>]

text_and_next(s) == Gather(check_state(s, "TEXT"), <<>>)

(* The loop of skip for an element: next until it is closed.               *)
RECURSIVE Leave(_, _)
Leave(s, nested) ==
  IF Failed(s) \/ nested = 0 THEN s
  ELSE IF s.state_ = "EOD" THEN Raise(s, "assertion")
  ELSE LET n == CASE s.state_ = "START" -> nested + 1
                  [] s.state_ = "END" -> nested - 1
                  [] OTHER -> nested
       IN Leave(next(s), n)

skip(s) ==
  IF Failed(s) \/ s.state_ = "EOD" THEN s
  ELSE IF s.state_ = "TEXT" THEN Gather(s, <<>>).s
  ELSE Leave(next(s), IF s.state_ = "START" THEN 1 ELSE 0)

(* The loop of unnest.  Should it come to the end of the document, which   *)
(* skip does not leave, it never ends.                                     *)
RECURSIVE ToEnd(_)
ToEnd(s) ==
  CASE Failed(s) -> s
    [] s.state_ = "END" -> next(s)
    [] s.state_ = "EOD" -> Raise(s, "endless")
    [] OTHER -> ToEnd(skip(s))

(* From inside of an element to behind it.                                 *)
unnest(s) == IF s.state_ = "EOD" THEN s ELSE ToEnd(s)
=============================================================================
