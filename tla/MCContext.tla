----------------------------- MODULE MCContext -----------------------------
(* What the Reviewer is given, for small repositories and pull requests.   *)
EXTENDS ReviewInput

MCPaths == 1..4
MCNoPath == 0
MCGenerated == {4}
MCNoName == "none"
MCNoId == <<>>
MCNoLine == -1

-----------------------------------------------------------------------------
(* Repositories.                                                           *)

Defines(type, name, first, last) ==
    [type |-> type, name |-> name, function |-> TRUE, line |-> first, end |-> last]
End == [type |-> "end"]
Calls(name, line) == [type |-> "call", name |-> name, line |-> line]
Invokes(name, line) == [type |-> "call_expression", name |-> name, line |-> line]
Imports(name, line) == [type |-> "import_statement", name |-> name, line |-> line]
Function == "function_definition"
Source(path, language, nodes) == [path |-> path, kind |-> "source", language |-> language, nodes |-> nodes]
Skipped(path, kind) == [path |-> path, kind |-> kind, language |-> "python", nodes |-> <<>>]

\* A class with two methods, one of them holding a function, and calls after it.
Library == Source(1, "python",
    <<Imports("lib", 1), Defines("class_definition", "C", 2, 8),
      Defines(Function, "m", 3, 5), Defines(Function, "inner", 4, 4), Calls("save", 4), End,
      Calls("inner", 5), Calls("helper", 5), Calls("helper", 5), End,
      Defines(Function, "save", 6, 8), Calls("helper", 7), Calls(MCNoName, 8), End, End>>)
\* Two more "save", with one id, a variable that holds a function and one that does not, a function
\* without a name, and calls at module level and of names of no or one symbol.
Program == Source(2, "typescript",
    <<Defines("variable_declarator", "helper", 1, 2), End, Defines("function_declaration", "save", 3, 4),
      Invokes("helper", 3), Invokes("print", 4), End, Defines("function_declaration", "save", 5, 5), End,
      [Defines("variable_declarator", "limit", 5, 5) EXCEPT !.function = FALSE],
      Defines("function_declaration", MCNoName, 5, 5), Invokes("helper", 5)>>)
Test == Source(3, "python",
    <<Defines(Function, "test_it", 1, 3), Calls("save", 2), Calls("save", 3), Calls("m", 3), End>>)

-----------------------------------------------------------------------------
(* Pull requests.                                                          *)

Change(path, status, added) ==
    [path |-> path, old |-> 0, status |-> status, binary |-> FALSE, lines |-> 1,
     added |-> added, points |-> {}]
Patch(owner, sizes) ==
    <<[head |-> "diff --git", path |-> owner, owner |-> owner, size |-> 1],
      [head |-> "---", path |-> owner, owner |-> owner, size |-> 1],
      [head |-> "+++", path |-> owner, owner |-> owner, size |-> 1]>>
    \o [i \in DOMAIN sizes |-> [head |-> " ", owner |-> owner, size |-> sizes[i]]]
Rule(id, size, paths) == [id |-> id, text |-> <<size>>, scope |-> paths]
Lint(id, severity, size, changed) ==
    [id |-> id, path |-> 1, severity |-> severity, size |-> size, changed |-> changed]

Wide == [description |-> <<3, 3>>,
         rules |-> <<Rule(1, 3, {}), Rule(2, 3, {1}), Rule(3, 3, {3}), Rule(4, 1, {2})>>, edited |-> FALSE,
         files |-> {Change(1, "modified", {4, 5, 7}), Change(2, "modified", {1, 2, 3, 5})},
         excluded |-> {4}, secret |-> {}, tests |-> {3},
         diff |-> Patch(1, <<4, 4, 4>>) \o Patch(2, <<2>>) \o Patch(3, <<1>>),
         findings |-> {Lint(1, "error", 3, TRUE), Lint(2, "info", 1, TRUE), Lint(3, "warning", 3, TRUE),
                       Lint(4, "error", 2, FALSE), [Lint(5, "error", 9, TRUE) EXCEPT !.path = 2]},
         map |-> <<2, 3>>, lengths |-> <<8, 5, 3, 9>>, matches |-> <<1, 3, 2, 2>>]
\* Files nobody may read, one rule of another file, nothing found.
Narrow == [Wide EXCEPT !.description = <<9>>, !.rules = <<Rule(3, 3, {3})>>, !.edited = TRUE,
                       !.secret = {1}, !.findings = {},
                       !.diff = Patch(1, <<1>>) \o Patch(2, <<9, 9>>), !.lengths = <<8, 5, 3, 0>>]
\* A pull request without text, rules that are not there, a file that is gone.
Empty == [Wide EXCEPT !.description = <<2>>, !.excluded = {3, 4}, !.rules = <<>>, !.diff = <<>>, !.lengths = <<8, 5>>,
                      !.files = {Change(3, "deleted", {}), Change(2, "modified", {2, 3})}]

MCRequests ==
    {[repository |-> <<Library, Program, Test, Skipped(4, "large")>>, input |-> i] : i \in {Wide, Narrow}}
    \cup {[repository |-> <<Library, Program, Skipped(4, "unreadable")>>, input |-> Empty]}
MCGlobs == {{1}, {4}, {1, 2, 3}}

MCLimits == [pr |-> 6, diff |-> 15, diffFile |-> 11, symbols |-> 10, symbolLines |-> 2, maxSymbols |-> 2,
             callers |-> 6, callersPerSymbol |-> 3, findings |-> 8, maxFindings |-> 3, map |-> 7,
             rules |-> 7, maxRules |-> 2, excluded |-> 1, secret |-> 1, imports |-> 1]
MCToolLimits == [read |-> 3, source |-> 2, find |-> 1, callers |-> 1, callees |-> 1, search |-> 3,
                 perFile |-> 2, findings |-> 2, tests |-> 1]
=============================================================================
