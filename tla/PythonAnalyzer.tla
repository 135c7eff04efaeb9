--------------------------- MODULE PythonAnalyzer ---------------------------
(***************************************************************************)
(* lib/cxxll/python_analyzer.cpp and python_analyzer.py, on top of         *)
(* Subprocess: source code goes through a pipe to a Python 2 interpreter   *)
(* and, if that one rejects it, to a Python 3 interpreter; the answer      *)
(* comes back through another pipe.                                        *)
(* Numbers and bytes are the units in the pipes.  The encoding does not    *)
(* describe itself: only counting keeps the two sides together.            *)
(***************************************************************************)
EXTENDS Subprocess

CONSTANTS
  Sources,    \* Python source code, as sequences of bytes
  Parsed,     \* Parsed[v][s]: what ast.parse of interpreter v makes of s
  Capacity,   \* units that a pipe holds
  MaxCalls    \* calls of python_analyzer::parse

(* Numbers stand for bytes, too.  Of the tree of a source the nodes that   *)
(* the visitor looks at count.                                             *)
Text == Seq(Nat)
Node ==
  [type : {"Import"}, names : Seq(Text)]
  \cup [type : {"ImportFrom"}, level : Nat, module : Text, names : Seq(Text)]
  \cup [type : {"Attribute", "FunctionDef", "ClassDef"}, name : Text]

ASSUME PythonAnalyzerAssumption == Capacity \in Nat \ {0} /\ MaxCalls \in Nat

ASSUME ParsedAssumption ==
  /\ Sources \subseteq Text
  /\ \A v \in {2, 3}, s \in Sources :
       Parsed[v][s] \in [failed : BOOLEAN, lineno : Nat, msg : Text, nodes : Seq(Node)]

VARIABLES
  caller,   \* the call of python_analyzer::parse
  helper,   \* the interpreters, with their pipes
  result_,  \* interpreter::result_
  active_,  \* the interpreter whose result counts
  calls

vars == <<caller, helper, result_, active_, calls>>

Versions == {2, 3}
Fields == <<"error", "line", "imports", "attributes", "functions", "classes">>
Arrays == {"imports", "attributes", "functions", "classes"}

NoResult == [error |-> <<>>, line |-> 0, imports |-> <<>>, attributes |-> <<>>,
             functions |-> <<>>, classes |-> <<>>]

(* The subprocess, what is in its pipes, and the state of the script.      *)
NoHelper == [process |-> impl, in |-> <<>>, out |-> <<>>, got |-> <<>>, reply |-> <<>>]
Alive(v) == helper[v].process.child = "alive"

(* What the caller has yet to send, and where it is in reading the answer: *)
(* strings of an array and bytes of a string that are still to come, -1    *)
(* before their number.                                                    *)
NoCall == [pc |-> "idle", source |-> <<>>, version |-> 2, send |-> <<>>,
           field |-> 1, count |-> -1, size |-> -1, text |-> <<>>]

Init ==
  /\ caller = NoCall
  /\ helper = [v \in Versions |-> NoHelper]
  /\ result_ = [v \in Versions |-> NoResult]
  /\ active_ = None
  /\ calls = 0

-----------------------------------------------------------------------------
(* The encoding.                                                           *)
String(s) == <<Len(s)>> \o s
Array(a) == <<Len(a)>> \o FlattenSeq([i \in 1..Len(a) |-> String(a[i])])

(* The constructor of interpreter.  If start throws, the subprocess that   *)
(* is under construction is destroyed.                                     *)
Script == "python_analyzer.py"

interpreter(v, p, fails) ==
  LET q == start(redirect(redirect(arg(arg(command(p, v), "-c"), Script),
                                   in, "pipe"), out, "pipe"), fails)
  IN  IF q.exc # None THEN destroy(q) ELSE q

(* maybe_start: an interpreter that was started counts as running.  A call *)
(* that fails leaves the pointer as it was, and parse throws.              *)
maybe_start(v, fails) ==
  IF running(helper[v].process) THEN helper[v]
  ELSE [NoHelper EXCEPT !.process =
          interpreter(v, [impl EXCEPT !.fds = helper[v].process.fds], fails)]

Failures(v) == IF running(helper[v].process) THEN {None} ELSE {None} \cup Calls

(* interpreter::send_string begins.                                        *)
Request(v, s) ==
  \E fails \in Failures(v) :
    /\ helper' = [helper EXCEPT ![v] = maybe_start(v, fails)]
    /\ caller' = IF running(helper'[v].process)
                 THEN [NoCall EXCEPT !.pc = "send", !.source = s, !.version = v,
                                     !.send = String(s)]
                 ELSE [NoCall EXCEPT !.pc = "thrown", !.source = s]
    /\ result_' = IF running(helper[v].process) THEN result_
                  ELSE [result_ EXCEPT ![v] = NoResult]

(* bad_string: NUL bytes are not sent.  It leaves functions_ and classes_. *)
NUL == 0
newline == 10
NulAt(s) == SelectInSeq(s, LAMBDA b : b = NUL)

BadString(s) ==
  \E fails \in Failures(2) :
    /\ helper' = [helper EXCEPT ![2] = maybe_start(2, fails)]
    /\ IF running(helper'[2].process)
       THEN /\ caller' = [NoCall EXCEPT !.pc = "returned", !.source = s]
            /\ result_' = [result_ EXCEPT
                 ![2].error = <<NUL>>,
                 ![2].line = 1 + Len(SelectSeq(SubSeq(s, 1, NulAt(s) - 1), LAMBDA b : b = newline)),
                 ![2].imports = <<>>, ![2].attributes = <<>>]
            /\ active_' = 2
       ELSE /\ caller' = [NoCall EXCEPT !.pc = "thrown", !.source = s]
            /\ active_' = None /\ UNCHANGED result_

(* python_analyzer::parse                                                  *)
parse(s) ==
  /\ caller.pc \in {"idle", "returned"}
  /\ calls < MaxCalls /\ calls' = calls + 1
  /\ IF NulAt(s) # 0
     THEN BadString(s)
     ELSE Request(2, s) /\ active_' = None

(* fd_sink::write to the pipe: some units fit.  Nobody ignores SIGPIPE, so *)
(* a write to an interpreter that has died ends the program.               *)
send_string ==
  /\ caller.pc = "send"
  /\ LET v == caller.version IN
     CASE caller.send = <<>> ->
            caller' = [caller EXCEPT !.pc = "read"] /\ UNCHANGED helper
       [] caller.send # <<>> /\ ~Alive(v) /\ Child(in) \notin helper[v].process.fds ->
            caller' = [NoCall EXCEPT !.pc = "killed"] /\ UNCHANGED helper
       [] OTHER ->
            /\ Len(helper[v].in) < Capacity
            /\ caller' = [caller EXCEPT !.send = Tail(@)]
            /\ helper' = [helper EXCEPT ![v].in = Append(@, Head(caller.send))]
  /\ UNCHANGED <<result_, active_, calls>>

-----------------------------------------------------------------------------
(* read_string, read_number and read_array, one unit at a time.            *)
NextField(c) == [c EXCEPT !.field = @ + 1, !.count = -1, !.size = -1, !.text = <<>>]

(* A string is complete: the message, or one of an array.                  *)
EndString(c) ==
  IF c.count <= 1 THEN NextField(c)
  ELSE [c EXCEPT !.count = @ - 1, !.size = -1, !.text = <<>>]

InString(c, u) ==
  IF c.size = -1
  THEN IF u = 0 THEN EndString(c) ELSE [c EXCEPT !.size = u]
  ELSE IF c.size = 1 THEN EndString(c)
  ELSE [c EXCEPT !.size = @ - 1, !.text = Append(@, u)]

(* The text of a string, once unit u has completed it.                     *)
CompleteText(c, u) == IF c.size = -1 THEN <<>> ELSE Append(c.text, u)
Completes(c, u) == (c.size = -1 /\ u = 0) \/ c.size = 1

\* MUTANT: the elements of the answer before are not cleared.
WithUnitKeep(r, c, u) ==
  LET f == Fields[c.field] IN
  CASE f = "line" -> [r EXCEPT !.line = u]
    [] f = "error" -> IF Completes(c, u) THEN [r EXCEPT !.error = CompleteText(c, u)] ELSE r
    [] OTHER -> IF c.count # -1 /\ Completes(c, u)
                THEN [r EXCEPT ![f] = Append(@, CompleteText(c, u))] ELSE r

WithUnit(r, c, u) ==
  LET f == Fields[c.field] IN
  CASE f = "line" -> [r EXCEPT !.line = u]
    [] f = "error" -> IF Completes(c, u) THEN [r EXCEPT !.error = CompleteText(c, u)] ELSE r
    [] OTHER -> IF c.count = -1 THEN [r EXCEPT ![f] = <<>>]
                ELSE IF Completes(c, u) THEN [r EXCEPT ![f] = Append(@, CompleteText(c, u))]
                ELSE r

\* MUTANT: one byte of each string is not read.
AfterUnitShort(c, u) ==
  LET f == Fields[c.field] IN
  CASE f = "line" -> NextField(c)
    [] f = "error" -> InString(c, IF c.size = -1 /\ u > 1 THEN u - 1 ELSE u)
    [] OTHER -> IF c.count = -1
                THEN IF u = 0 THEN NextField(c) ELSE [c EXCEPT !.count = u]
                ELSE InString(c, u)

AfterUnit(c, u) ==
  LET f == Fields[c.field] IN
  CASE f = "line" -> NextField(c)
    [] f = "error" -> InString(c, u)
    [] OTHER -> IF c.count = -1
                THEN IF u = 0 THEN NextField(c) ELSE [c EXCEPT !.count = u]
                ELSE InString(c, u)

Reading == caller.pc = "read" /\ caller.field <= Len(Fields)

(* fd_source::read in read_exactly; at the end of file it throws.          *)
ReadUnit ==
  /\ Reading
  /\ LET v == caller.version
         u == Head(helper[v].out)
     IN  /\ helper[v].out # <<>>
         /\ helper' = [helper EXCEPT ![v].out = Tail(@)]
         /\ result_' = [result_ EXCEPT ![v] = WithUnit(@, caller, u)]
         /\ caller' = AfterUnit(caller, u)
  /\ UNCHANGED <<active_, calls>>

eof_exception ==
  /\ Reading
  /\ helper[caller.version].out = <<>> /\ ~Alive(caller.version)
  /\ Child(out) \notin helper[caller.version].process.fds
  /\ caller' = [caller EXCEPT !.pc = "thrown"]
  /\ UNCHANGED <<helper, result_, active_, calls>>

(* The answer is complete.                                                 *)
Later(two, three) == IF three.line > two.line THEN 3 ELSE 2

Answered ==
  /\ caller.pc = "read" /\ caller.field > Len(Fields)
  /\ LET v == caller.version IN
     IF result_[v].line # 0 /\ v = 2
     THEN Request(3, caller.source) /\ UNCHANGED active_
     ELSE /\ caller' = [caller EXCEPT !.pc = "returned"]
          /\ active_' = IF result_[v].line = 0 THEN v ELSE Later(result_[2], result_[3])
          /\ UNCHANGED <<helper, result_>>
  /\ UNCHANGED calls

(* The analyzer of a package is destroyed with it: ~subprocess kills the   *)
(* interpreters.  The next package has a new one.                          *)
DestroyAnalyzer ==
  /\ caller.pc \in {"returned", "thrown"}
  /\ caller' = NoCall
  /\ helper' = [v \in Versions |-> [NoHelper EXCEPT !.process = destroy(helper[v].process)]]
  /\ result_' = [v \in Versions |-> NoResult]
  /\ active_' = None
  /\ UNCHANGED calls

-----------------------------------------------------------------------------
(* The script.  ast.parse gives the line of a SyntaxError, or else the     *)
(* nodes of the tree; the visitor comes to all of them, from the outside   *)
(* to the inside.  Relative imports start with dots.                       *)
dot == 46

visit_Import(node) == node.names

visit_ImportFrom(node) ==
  LET dots == [i \in 1..node.level |-> dot]
      module == IF node.module # <<>> THEN dots \o node.module \o <<dot>> ELSE dots
  IN  [i \in 1..Len(node.names) |-> module \o node.names[i]]

Imports(node) ==
  CASE node.type = "Import" -> visit_Import(node)
    [] node.type = "ImportFrom" -> visit_ImportFrom(node)
    [] OTHER -> <<>>

(* sorted: the names of a set by their bytes, of two that begin alike the  *)
(* shorter one first.                                                      *)
Before(a, b) ==
  \E i \in 1..Len(b) : /\ i <= Len(a) + 1
                       /\ \A k \in 1..i - 1 : a[k] = b[k]
                       /\ i <= Len(a) => a[i] < b[i]

sorted(S) ==
  CHOOSE seq \in [1..Cardinality(S) -> S] :
    \A i, j \in 1..Cardinality(S) : i < j => Before(seq[i], seq[j])

Defined(nodes, type) ==
  sorted({n.name : n \in {m \in ToSet(nodes) : m.type = type}})

Analysis(v, s) ==
  LET tree == Parsed[v][s] IN
  IF tree.failed THEN [NoResult EXCEPT !.error = tree.msg, !.line = tree.lineno]
  ELSE [error |-> <<>>, line |-> 0,
        imports |-> FlattenSeq([i \in 1..Len(tree.nodes) |-> Imports(tree.nodes[i])]),
        attributes |-> Defined(tree.nodes, "Attribute"),
        functions |-> Defined(tree.nodes, "FunctionDef"),
        classes |-> Defined(tree.nodes, "ClassDef")]

(* It reads a string, and writes the answer.  An exception other than      *)
(* SyntaxError ends it, and so may others (the OOM killer).                *)
Answer(v, s) ==
  LET r == Analysis(helper[v].process.image, s) IN
  String(r.error) \o <<r.line>> \o Array(r.imports) \o Array(r.attributes)
    \o Array(r.functions) \o Array(r.classes)

HelperReads(v) ==
  /\ Alive(v) /\ helper[v].process.argv = <<v, "-c", Script>>
  /\ helper[v].in # <<>> /\ helper[v].reply = <<>>
  /\ LET got == Append(helper[v].got, Head(helper[v].in))
         full == Len(got) = got[1] + 1
     IN helper' = [helper EXCEPT
          ![v].in = Tail(@),
          ![v].got = IF full THEN <<>> ELSE got,
          ![v].reply = IF full /\ Tail(got) \in Sources THEN Answer(v, Tail(got)) ELSE <<>>]
  /\ UNCHANGED <<caller, result_, active_, calls>>

HelperWrites(v) ==
  /\ Alive(v) /\ helper[v].reply # <<>>
  /\ Len(helper[v].out) < Capacity
  /\ helper' = [helper EXCEPT ![v].out = Append(@, Head(helper[v].reply)),
                              ![v].reply = Tail(@)]
  /\ UNCHANGED <<caller, result_, active_, calls>>

HelperDies(v) ==
  /\ Alive(v)
  /\ helper' = [helper EXCEPT ![v].process.child = "zombie", ![v].reply = <<>>]
  /\ UNCHANGED <<caller, result_, active_, calls>>

Caller == send_string \/ ReadUnit \/ eof_exception \/ Answered

Next ==
  \/ \E s \in Sources : parse(s)
  \/ Caller \/ DestroyAnalyzer
  \/ \E v \in Versions : HelperReads(v) \/ HelperWrites(v) \/ HelperDies(v)

Spec == Init /\ [][Next]_vars

(* The scheduler runs the threads of both sides; nobody has to die.        *)
Fairness ==
  /\ WF_vars(Caller)
  /\ \A v \in Versions : WF_vars(HelperReads(v)) /\ WF_vars(HelperWrites(v))

FairSpec == Spec /\ Fairness

-----------------------------------------------------------------------------
(* What parse returns is about the source that it was given, complete and  *)
(* from the right interpreter, whatever was analysed before and however    *)
(* the answer was cut up by the pipe; for code that neither accepts it is  *)
(* the error that comes later.  An interpreter accepts code if it reports  *)
(* line 0, as in the code of parse.  After an exception there is no        *)
(* result, and between two calls nothing is left in the pipes of a living  *)
(* interpreter.                                                            *)
ResultOfThisSource ==
  LET s == caller.source
      two == Analysis(2, s)
      three == Analysis(3, s)
      right == IF two.line = 0 THEN 2 ELSE IF three.line = 0 THEN 3
               ELSE IF three.line > two.line THEN 3 ELSE 2
  IN  /\ caller.pc = "returned" =>
           IF NulAt(s) # 0
           THEN active_ = 2 /\ result_[2].line > 0 /\ result_[2].imports = <<>>
           ELSE active_ = right /\ result_[right] = Analysis(right, s)
      /\ caller.pc \in {"thrown", "send", "read"} => active_ = None
      /\ caller.pc = "returned" =>
           \A v \in Versions : Alive(v) =>
             helper[v].in \o helper[v].out \o helper[v].reply \o helper[v].got = <<>>

(* A call returns, or throws because an interpreter has died: the two      *)
(* sides never wait for each other, however small the pipes are.           *)
CallsReturn == caller.pc = "send" ~> caller.pc \notin {"send", "read"}

(* Whichever call of start fails, and whatever becomes of the child, there *)
(* is no process and no descriptor that belongs to no interpreter, and of  *)
(* an interpreter just the two ends of the pipes that it is spoken to with *)
(* are open: with more, the end of the child would never be seen.          *)
NothingLeftOpen ==
  \A v \in Versions :
    LET p == helper[v].process IN
    IF running(p)
    THEN p.fds = {Parent(in), Parent(out)} /\ p.child # "none"
         /\ p.pipes[in] = Parent(in) /\ p.pipes[out] = Parent(out)
    ELSE p.fds = {} /\ p.child = "none"
=============================================================================
