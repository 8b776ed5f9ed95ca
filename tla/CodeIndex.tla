----------------------------- MODULE CodeIndex -----------------------------
(***************************************************************************)
(* CodeIndexer.build and the RepoIndex it returns.  A file is what the     *)
(* walk over its syntax tree meets, in order: its nodes, by their type in  *)
(* the grammar of its language, and the ends of those that define a        *)
(* symbol.  A file may be unreadable or too large, and indexing one may    *)
(* fail halfway; when all files are done, calls are linked to the symbols  *)
(* they name.                                                              *)
(*                                                                         *)
(* A name is an atom, a qualified name the sequence of the enclosing names,*)
(* and a symbol's id its path and qualified name: two definitions of one   *)
(* name in one scope share it.                                             *)
(***************************************************************************)
EXTENDS Integers, FiniteSets, SequencesExt

CONSTANTS
    NoName,         \* a call or an import the index has no name for
    NoId            \* None

VARIABLES
    files,          \* the files left to index, in the order of their paths
    at,             \* how far the walk over the first of them is; 0 before it is read
    scope,          \* the definitions around the node, outermost first
    fileSymbols, fileEdges,     \* what the file has given so far
    symbols, edges,             \* what the indexed files have given
    filesIndexed, filesFailed,
    leftOut,        \* history: the paths of the files passed over and of those that failed
    indexPc         \* "files", "resolve", "done"

indexVars == <<files, at, scope, fileSymbols, fileEdges, symbols, edges, filesIndexed, filesFailed,
               leftOut, indexPc>>

IndexInit(repository) ==
    /\ files = repository
    /\ at = 0
    /\ scope = <<>>
    /\ fileSymbols = <<>> /\ fileEdges = <<>>
    /\ symbols = <<>> /\ edges = <<>>
    /\ filesIndexed = 0 /\ filesFailed = 0 /\ leftOut = {}
    /\ indexPc = "files"

-----------------------------------------------------------------------------
(* Building the index.                                                     *)

\* LanguageSpec, as data: which nodes of a grammar define a symbol, and of which kind,
\* which call and which import.
PythonSpec ==
    [definitions |-> [function_definition |-> "function", class_definition |-> "class"],
     calls |-> {"call"}, imports |-> {"import_statement", "import_from_statement"}]
ScriptSpec ==
    [definitions |-> [function_declaration |-> "function", generator_function_declaration |-> "function",
                      class_declaration |-> "class", method_definition |-> "method",
                      variable_declarator |-> "function"],
     calls |-> {"call_expression"}, imports |-> {"import_statement"}]
SpecFor(language) == IF language = "python" THEN PythonSpec ELSE ScriptSpec

File == Head(files)
Grammar == SpecFor(File.language)
Node == File.nodes[at]
Walking == indexPc = "files" /\ files # <<>> /\ at \in DOMAIN File.nodes

\* A definition without a name is no symbol, nor a variable whose value is no function.
Defining(node, grammar) ==
    /\ node.type \in DOMAIN grammar.definitions
    /\ node.name # NoName
    /\ node.type = "variable_declarator" => node.function

\* A walk over a tree: each definition has its end, definitions nest, and a node begins
\* within the lines of those around it and not before what the walk has left or met.
Definitions(file) ==
    {i \in DOMAIN file.nodes : Defining(file.nodes[i], SpecFor(file.language))}
Ends(file) == {i \in DOMAIN file.nodes : file.nodes[i].type = "end"}
Closes(file, close) ==
    LET nodes == file.nodes
        met == DOMAIN nodes \ Ends(file)
    IN /\ \A k \in Ends(file) : \E i \in Definitions(file) : close[i] = k
       /\ \A i, j \in met : i < j => nodes[i].line <= nodes[j].line
       /\ \A i \in Definitions(file) :
             /\ i < close[i] /\ nodes[i].line <= nodes[i].end
             /\ \A j \in met : i < j /\ j < close[i] => nodes[j].line <= nodes[i].end
             /\ \A j \in met : close[i] < j => nodes[i].end <= nodes[j].line
             /\ \A j \in Definitions(file) :
                   i < j /\ j < close[i] => close[j] < close[i] /\ nodes[j].end <= nodes[i].end
IsWalk(file) ==
    /\ file.nodes \in Seq(ToSet(file.nodes))
    /\ \A i \in DOMAIN file.nodes \ Ends(file) : file.nodes[i].line \in Nat
    /\ \A i \in Definitions(file) : file.nodes[i].end \in Nat
    /\ \E close \in [Definitions(file) -> Ends(file)] : Closes(file, close)
\* The files of a checkout: the paths are distinct.
IsRepository(repository) ==
    /\ repository \in Seq(ToSet(repository))
    /\ \A i, j \in DOMAIN repository : repository[i].path = repository[j].path => i = j
    /\ \A i \in DOMAIN repository : IsWalk(repository[i])

\* Mutation: the walk over the next file starts where the last one ended.
NextFileKeepsPlace ==
    /\ files' = Tail(files)
    /\ scope' = <<>> /\ fileSymbols' = <<>> /\ fileEdges' = <<>>
    /\ UNCHANGED <<at, indexPc>>

NextFile ==
    /\ files' = Tail(files)
    /\ at' = 0
    /\ scope' = <<>> /\ fileSymbols' = <<>> /\ fileEdges' = <<>>
    /\ UNCHANGED indexPc

\* Vendored directories, other languages and symbolic links are passed over, like a file
\* that is too large; an unreadable one is counted.
PassOver ==
    /\ indexPc = "files" /\ files # <<>> /\ at = 0
    /\ File.kind \in {"ignored", "large", "unreadable"}
    /\ NextFile
    /\ filesFailed' = IF File.kind = "unreadable" THEN filesFailed + 1 ELSE filesFailed
    /\ leftOut' = leftOut \cup {File.path}
    /\ UNCHANGED <<symbols, edges, filesIndexed>>

BeginFile ==
    /\ indexPc = "files" /\ files # <<>> /\ at = 0
    /\ File.kind = "source"
    /\ at' = 1
    /\ UNCHANGED <<files, scope, fileSymbols, fileEdges, symbols, edges, filesIndexed, filesFailed,
                   leftOut, indexPc>>

\* A grammar crash: what the file has given is dropped.
FileFails ==
    /\ indexPc = "files" /\ files # <<>> /\ at > 0
    /\ NextFile
    /\ filesFailed' = filesFailed + 1
    /\ leftOut' = leftOut \cup {File.path}
    /\ UNCHANGED <<symbols, edges, filesIndexed>>

FileDone ==
    /\ indexPc = "files" /\ files # <<>> /\ at > Len(File.nodes)
    /\ NextFile
    /\ symbols' = symbols \o fileSymbols
    /\ edges' = edges \o fileEdges
    /\ filesIndexed' = filesIndexed + 1
    /\ UNCHANGED <<filesFailed, leftOut>>

Names(symbolSeq) == [i \in DOMAIN symbolSeq |-> symbolSeq[i].name]
SymbolFor(node) ==
    LET qualified == Append(Names(scope), node.name)
    IN [id |-> <<File.path, qualified>>, name |-> node.name, qualified |-> qualified,
        kind |-> IF Grammar.definitions[node.type] = "function" /\ scope # <<>> /\ Last(scope).kind = "class"
                 THEN "method" ELSE Grammar.definitions[node.type],
        path |-> File.path, start |-> node.line, end |-> node.end]
EdgeOf(kind, source, name, target, line) ==
    [kind |-> kind, source |-> source, name |-> name, target |-> target, path |-> File.path, line |-> line]
Step == at' = at + 1 /\ UNCHANGED <<files, symbols, edges, filesIndexed, filesFailed, leftOut, indexPc>>

\* A definition is contained in the one around it, and becomes the scope of its children.
Define ==
    /\ Walking /\ Defining(Node, Grammar)
    /\ LET symbol == SymbolFor(Node) IN
       /\ fileSymbols' = Append(fileSymbols, symbol)
       /\ fileEdges' = IF scope = <<>> THEN fileEdges
                       ELSE Append(fileEdges, EdgeOf("contains", Last(scope).id, symbol.name, symbol.id,
                                                     symbol.start))
       /\ scope' = Append(scope, symbol)
    /\ Step

\* Mutation: a definition stays the scope of what follows it.
EndDefinitionKeepsScope ==
    /\ Walking /\ Node.type = "end"
    /\ Step /\ UNCHANGED <<scope, fileSymbols, fileEdges>>

EndDefinition ==
    /\ Walking /\ Node.type = "end"
    /\ scope' = Front(scope)
    /\ Step /\ UNCHANGED <<fileSymbols, fileEdges>>

\* A call at module level has no owner, and one of a computed function no name.
Call ==
    /\ Walking /\ Node.type \in Grammar.calls
    /\ fileEdges' = IF scope = <<>> \/ Node.name = NoName THEN fileEdges
                    ELSE Append(fileEdges, EdgeOf("calls", Last(scope).id, Node.name, NoId, Node.line))
    /\ Step /\ UNCHANGED <<scope, fileSymbols>>

Import ==
    /\ Walking /\ Node.type \in Grammar.imports
    /\ fileEdges' = IF Node.name = NoName THEN fileEdges
                    ELSE Append(fileEdges, EdgeOf("imports", <<File.path>>, Node.name, NoId, Node.line))
    /\ Step /\ UNCHANGED <<scope, fileSymbols>>

\* The walk goes on with the children of any other node.
PassNode ==
    /\ Walking /\ ~Defining(Node, Grammar)
    /\ Node.type \notin Grammar.calls \cup Grammar.imports \cup {"end"}
    /\ Step /\ UNCHANGED <<scope, fileSymbols, fileEdges>>

AllFiles ==
    /\ indexPc = "files" /\ files = <<>>
    /\ indexPc' = "resolve"
    /\ UNCHANGED <<files, at, scope, fileSymbols, fileEdges, symbols, edges, filesIndexed, filesFailed,
                   leftOut>>

\* A call is linked to the symbol it names if there is exactly one.
Candidates(name) == {i \in DOMAIN symbols : symbols[i].name = name}
Unique(name) == \E i \in DOMAIN symbols : Candidates(name) = {i}

Linked(edge) ==
    IF edge.kind = "calls" /\ Unique(edge.name)
    THEN [edge EXCEPT !.target = symbols[CHOOSE i \in DOMAIN symbols : i \in Candidates(edge.name)].id]
    ELSE edge

ResolveEdgeTargets ==
    /\ indexPc = "resolve"
    /\ indexPc' = "done"
    /\ edges' = [i \in DOMAIN edges |-> Linked(edges[i])]
    /\ UNCHANGED <<files, at, scope, fileSymbols, fileEdges, symbols, filesIndexed, filesFailed, leftOut>>

IndexStep ==
    \/ PassOver \/ BeginFile \/ FileFails \/ FileDone
    \/ Define \/ EndDefinition \/ Call \/ Import \/ PassNode
    \/ AllFiles \/ ResolveEdgeTargets

-----------------------------------------------------------------------------
(* The queries.                                                            *)

\* Of the symbols that share an id, the last one is kept under it.
Known(id) == \E i \in DOMAIN symbols : symbols[i].id = id
Get(id) == symbols[CHOOSE i \in DOMAIN symbols :
                /\ symbols[i].id = id
                /\ \A j \in DOMAIN symbols : symbols[j].id = id => j <= i]
\* A list the index keeps is here the set of its members' places, in `symbols` or in
\* `edges`.
FindByName(name) == Candidates(name)
CallPlaces == {i \in DOMAIN edges : edges[i].kind = "calls"}
CalleesOf(id) == {i \in CallPlaces : edges[i].source = id}
CallSitesOf(id) == {i \in CallPlaces : edges[i].target = id}
CallersOf(id) == {edges[i].source : i \in {j \in CallSitesOf(id) : Known(edges[j].source)}}
CallsByName(name) == {i \in CallPlaces : edges[i].name = name}
ImportsOfFile(path) ==
    {e.name : e \in {f \in ToSet(edges) : f.kind = "imports" /\ f.path = path}}

\* sorted: the members of S in an order, as a list of what Item makes of each.
Sorted(S, Before(_, _)) ==
    LET before == [x \in S |-> {y \in S : Before(y, x)}]
    IN [k \in 1..Cardinality(S) |-> CHOOSE x \in S : Cardinality(before[x]) = k - 1]
Listed(S, Before(_, _), Item(_)) ==
    LET order == Sorted(S, Before) IN [k \in 1..Cardinality(S) |-> Item(order[k])]
Earlier(i, j) == i < j
\* By path and first line; Python's sort keeps the order of those it cannot tell apart.
ByStart(i, j) ==
    LET s == symbols[i] t == symbols[j]
    IN IF s.path # t.path THEN s.path < t.path ELSE IF s.start # t.start THEN s.start < t.start ELSE i < j
=============================================================================
