------------------------------ MODULE MCPython ------------------------------
(* Code for both versions, for one of them, for none with the later error  *)
(* in either, an error in line 0, empty code, and code with a NUL byte.    *)
EXTENDS PythonAnalyzer, TLC

Tree(nodes) == [failed |-> FALSE, lineno |-> 0, msg |-> <<>>, nodes |-> nodes]
SyntaxError(line) == [failed |-> TRUE, lineno |-> line, msg |-> <<101, 102>>, nodes |-> <<>>]

Import(names) == [type |-> "Import", names |-> names]
From(level, module, name) ==
  [type |-> "ImportFrom", level |-> level, module |-> module, names |-> <<name>>]
Def(type, name) == [type |-> type, name |-> name]

both == <<1, 2>>
only2 == <<2>>
only3 == <<3>>
none2 == <<4, 4>>
none3 == <<5>>
line0 == <<6>>
nul == <<10, 0>>

MCSources == {both, only2, only3, none2, none3, line0, nul, <<>>}

Rich == Tree(<<Import(<<<<7, 8>>, <<>>>>), Def("FunctionDef", <<9>>), Def("FunctionDef", <<8, 9>>),
               Def("FunctionDef", <<9>>)>>)
Relative == Tree(<<From(1, <<6>>, <<7>>), Def("ClassDef", <<5>>), From(2, <<>>, <<8>>)>>)

MCParsed ==
  2 :> (both :> Rich @@ only2 :> Tree(<<Def("Attribute", <<4>>)>>) @@ only3 :> SyntaxError(1)
        @@ none2 :> SyntaxError(2) @@ none3 :> SyntaxError(1) @@ line0 :> SyntaxError(0)
        @@ nul :> Tree(<<>>) @@ <<>> :> Tree(<<>>))
  @@ 3 :> (both :> Tree(<<>>) @@ only2 :> SyntaxError(1) @@ only3 :> Relative
           @@ none2 :> SyntaxError(1) @@ none3 :> SyntaxError(3) @@ line0 :> Tree(<<>>)
           @@ nul :> Tree(<<>>) @@ <<>> :> Tree(<<>>))
=============================================================================
