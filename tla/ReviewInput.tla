---------------------------- MODULE ReviewInput ----------------------------
(***************************************************************************)
(* What the Reviewer is given and can ask for: the code index is built,    *)
(* the symbols the pull request changed are looked up in it, the context   *)
(* pack is built from both, and RetrievalTools answers from the same index *)
(* and checkout, one call at a time.                                       *)
(***************************************************************************)
EXTENDS ContextPack

CONSTANTS
    Requests,       \* the pull requests a run explores, by repository
    NoLine,         \* None, as read_file's end_line
    ToolLimits,     \* READ_MAX_LINES, SYMBOL_SOURCE_MAX_LINES and so on
    Globs           \* the paths a search is limited to

ToolLimitFields == {"read", "source", "find", "callers", "callees", "search", "perFile", "findings", "tests"}
ASSUME ToolAssumption ==
    /\ ToolLimits \in [ToolLimitFields -> Nat \ {0}]
    /\ NoLine \in Int
ASSUME RepositoryAssumption == \A r \in Requests : IsRepository(r.repository)
\* Paths are atoms with an order.  What the index says of a file, and its length, are of
\* the same checkout.
LinesOf(repository, lengths) ==
    \A i \in DOMAIN repository :
        LET file == repository[i] IN
        /\ file.path \in Int
        /\ file.path \in DOMAIN lengths =>
              \A d \in Definitions(file) : file.nodes[d].end <= lengths[file.path]
ASSUME InputAssumption == \A r \in Requests : IsInput(r.input) /\ LinesOf(r.repository, r.input.lengths)
ASSUME GlobAssumption ==
    /\ Paths \subseteq Int
    /\ \A glob \in Globs : IsFiniteSet(glob) /\ glob \subseteq Paths

VARIABLE reply      \* the answer to the last call of a tool

vars == <<indexVars, packVars, reply>>

\* An answer: what it shows; `more`, how many its note says are left; `next`, the line at
\* which its note says a file goes on; `partly`, a note without a number.
Reply(tool, asked, told, more, next, partly) ==
    [tool |-> tool, asked |-> asked, shown |-> told, more |-> more, next |-> next, partly |-> partly,
     error |-> FALSE]
Listing(tool, asked, all, most, partly) ==
    Reply(tool, asked, SubSeq(all, 1, Min({Len(all), most})),
          IF Len(all) > most THEN Len(all) - most ELSE 0, 0, partly)
ToolError(tool, asked) ==
    [tool |-> tool, asked |-> asked, shown |-> <<>>, more |-> 0, next |-> 0, partly |-> FALSE, error |-> TRUE]
NoReply == ToolError("none", <<>>)

Init ==
    /\ \E r \in Requests : IndexInit(r.repository) /\ PackInit(r.input)
    /\ reply = NoReply

\* changed_symbols, between the index and the review: of those that share an id the last
\* one found is kept, and the changed lines are a set.
BeginReview ==
    /\ indexPc = "done" /\ section = "waiting"
    /\ LET changed == ChangedPlaces(symbols, input.files)
       IN touched' \in {kept \in SUBSET changed :
              \A i \in changed : Cardinality({j \in kept : symbols[j].id = symbols[i].id}) = 1}
    /\ section' = "pull_request"
    /\ UNCHANGED <<indexVars, input, queue, item, used, shown, omitted, pack, reply>>

-----------------------------------------------------------------------------
(* The tools.                                                              *)

Ready == section = "done"
Answers(answer) == reply' = answer /\ UNCHANGED <<indexVars, packVars>>
ByPlace(i, j) ==
    LET d == edges[i] e == edges[j]
    IN IF d.path # e.path THEN d.path < e.path ELSE IF d.line # e.line THEN d.line < e.line ELSE i < j
Lines(first, end) == [i \in 1..(end - first + 1) |-> first + i - 1]

\* Mutation: whoever names a last line is not told that the file goes on before it.
NextLineUnlessNamed(end, last, total) == IF end < total /\ last = NoLine THEN end + 1 ELSE 0

\* Where to go on, unless the reader has got the last line it named.
NextLine(end, last, total) == IF end < total /\ (last = NoLine \/ last > end) THEN end + 1 ELSE 0

ReadFile(path, first, last) ==
    LET total == IF Readable(path) THEN input.lengths[path] ELSE 0
        start == Max({1, first})
        farthest == start + ToolLimits.read - 1
        end == Min({IF last = NoLine THEN farthest ELSE last, total, farthest})
        asked == <<path, first, last>>
    IN /\ Ready
       /\ Answers(IF ~Readable(path) \/ (total > 0 /\ start > total)
                  THEN ToolError("read_file", asked)
                  ELSE IF total = 0 THEN Reply("read_file", asked, <<>>, 0, 0, FALSE)
                  ELSE Reply("read_file", asked, Lines(start, end), 0, NextLine(end, last, total), FALSE))

GetSymbolSource(id) ==
    /\ Ready
    /\ IF ~Known(id) \/ ~Readable(Get(id).path) THEN Answers(ToolError("get_symbol_source", id))
       ELSE LET s == Get(id)
                last == LastShown(s, ToolLimits.source)
            IN Answers(Reply("get_symbol_source", id, Lines(s.start, last), 0, 0, last < s.end))

FindSymbol(name) ==
    /\ Ready
    /\ Answers(Listing("find_symbol", <<name>>, Listed(FindByName(name), ByStart, Same), ToolLimits.find,
                       FALSE))

\* A name with a dot is a qualified one.
FindQualified(qualified) ==
    /\ Ready /\ Len(qualified) > 1
    /\ Answers(Listing("find_symbol", qualified,
                       Listed({i \in DOMAIN symbols : symbols[i].qualified = qualified}, ByStart, Same),
                       ToolLimits.find, FALSE))

OfSymbol(tool, id, all, most) ==
    Ready /\ Answers(IF Known(id) THEN Listing(tool, id, all, most, FALSE) ELSE ToolError(tool, id))
AskCallersOf(id) ==
    OfSymbol("callers_of", id, Listed(CallSitesOf(id), ByPlace, Same), ToolLimits.callers)
AskCalleesOf(id) ==
    OfSymbol("callees_of", id, Listed(CalleesOf(id), Earlier, Same), ToolLimits.callees)

\* A test is listed once, at its first call of something of that name.
TestCalls(name) ==
    LET calls == {i \in CallsByName(name) : edges[i].path \in input.tests /\ Known(edges[i].source)}
    IN {i \in calls : \A j \in calls : j < i => edges[j].source # edges[i].source}
CallerAt(i) == edges[i].source
ListTestsFor(id) ==
    OfSymbol("list_tests_for", id,
             IF Known(id) THEN Listed(TestCalls(Get(id).name), ByPlace, CallerAt) ELSE <<>>, ToolLimits.tests)

\* git grep gives so many matches of a file; those in generated and in secret files
\* are dropped.  A note says that a file may have more, of which nothing counts them.  The
\* search may fail or pass its time limit.
Matches(path) == IF path \in input.secret \cup GeneratedPaths THEN 0
                 ELSE Min({input.matches[path], ToolLimits.perFile})
Found(glob) == {m \in glob \X (1..ToolLimits.perFile) : m[2] <= Matches(m[1])}
ByMatch(m, n) == IF m[1] # n[1] THEN m[1] < n[1] ELSE m[2] < n[2]
SearchCode(glob) ==
    /\ Ready
    /\ \/ Answers(ToolError("search_code", glob))
       \/ Answers(Listing("search_code", glob, Listed(Found(glob), ByMatch, Same), ToolLimits.search,
                          \E path \in glob : Matches(path) >= ToolLimits.perFile))

Selected(path, changedOnly) ==
    {f \in input.findings : (path # NoPath => f.path = path) /\ (changedOnly => f.changed)}
IdOf(f) == f.id
GetLinterFindings(path, changedOnly) ==
    /\ Ready
    /\ Answers(Listing("get_linter_findings", <<path, changedOnly>>,
                       Listed(Selected(path, changedOnly), Graver, IdOf), ToolLimits.findings, FALSE))

GetRule(id) ==
    /\ Ready
    /\ Answers(IF \E i \in DOMAIN input.rules : input.rules[i].id = id
               THEN Reply("get_rule", id, <<id>>, 0, 0, FALSE) ELSE ToolError("get_rule", id))

\* ToolExecutor.execute: no such tool, arguments that do not fit it, a tool that fails
\* unexpectedly; each is an answer too.
BadCall == Ready /\ Answers(ToolError("execute", <<>>))

AskedIds == {<<>>} \cup {symbols[i].id : i \in DOMAIN symbols}
Ask ==
    \/ \E path \in Paths, first \in {1, 2, 9}, last \in {NoLine, 1, 4, 9} : ReadFile(path, first, last)
    \/ \E id \in AskedIds :
          GetSymbolSource(id) \/ AskCallersOf(id) \/ AskCalleesOf(id) \/ ListTestsFor(id)
    \/ \E name \in {NoName} \cup {symbols[i].name : i \in DOMAIN symbols} : FindSymbol(name)
    \/ \E qualified \in {symbols[i].qualified : i \in DOMAIN symbols} : FindQualified(qualified)
    \/ \E glob \in Globs : SearchCode(glob)
    \/ \E path \in Paths \cup {NoPath}, changedOnly \in BOOLEAN : GetLinterFindings(path, changedOnly)
    \/ \E id \in {0} \cup {input.rules[i].id : i \in DOMAIN input.rules} : GetRule(id)
    \/ BadCall

Next ==
    \/ IndexStep /\ UNCHANGED <<packVars, reply>>
    \/ BeginReview
    \/ PackStep /\ UNCHANGED <<indexVars, reply>>
    \/ Ask

Spec == Init /\ [][Next]_vars

-----------------------------------------------------------------------------
Ids == {symbols[i].id : i \in DOMAIN symbols} \cup {fileSymbols[i].id : i \in DOMAIN fileSymbols}
TypeOK ==
    /\ indexPc \in {"files", "resolve", "done"}
    /\ at \in 0 .. (IF files = <<>> THEN 0 ELSE Len(File.nodes) + 1)
    /\ \A i \in DOMAIN scope : scope[i] \in ToSet(fileSymbols)
    /\ \A e \in ToSet(edges) \cup ToSet(fileEdges) :
          e.kind \in {"calls", "imports", "contains"} /\ e.target \in Ids \cup {NoId}
    /\ filesIndexed \in Nat /\ filesFailed \in Nat
    /\ touched \subseteq DOMAIN symbols
    /\ section \in ToSet(Sections) \cup {"waiting"}
    /\ item \in 1 .. (Len(queue) + 1)
    /\ used \in Nat
    /\ Len(shown) + Len(omitted) <= Len(queue)
    /\ \A i \in DOMAIN pack : pack[i].left \in Nat

Enclosing(e) == {s \in ToSet(symbols) : s.path = e.path /\ s.start <= e.line /\ e.line <= s.end}
CallEdges == {e \in ToSet(edges) : e.kind = "calls"}
FailedLeaveNothing == \A x \in ToSet(symbols) \cup ToSet(edges) : x.path \notin leftOut
OwnersInnermost ==
    \A e \in CallEdges : \E s \in Enclosing(e) :
        /\ s.id = e.source
        /\ \A t \in Enclosing(e) :
              (t.start <= s.start /\ s.end <= t.end) \/ e.line \in {t.start, t.end}
CallsLinked ==
    \A e \in CallEdges :
        IF \E s \in ToSet(symbols) : s.name = e.name /\ Cardinality(Candidates(e.name)) = 1
        THEN \A s \in ToSet(symbols) : s.name = e.name <=> s.id = e.target
        ELSE e.target = NoId

\* What an agent is told of the code is so: a call belongs to the innermost definition
\* around it (of those on whose first or last line it is, lines do not tell which it is
\* in), is linked exactly if one symbol of the index has the name it calls
\* (indexer.py:234-237: "a *wrong* edge is worse than a missing one"), and a file whose
\* indexing failed halfway has left nothing behind.
EdgesRight == FailedLeaveNothing /\ (indexPc = "done" => OwnersInnermost /\ CallsLinked)

\* Of the rules, the diffs, the edited functions and the findings, a section shows some of
\* those it owes, each once, and says how many it leaves out; where callers are left out,
\* the callers' section says so, and of the findings a graver one is never left out for a
\* lesser one.  What is counted stays within the budgets.  Each section that owes something
\* is there, but for that of the callers when the first entry alone is too long.  An uncut
\* section of the pull request names so many of the generated files, each once, and that of
\* the diff so many credential files; of the others both are silent.
Owed(title) ==
    CASE title = "rules" -> {input.rules[i].id : i \in Applicable}
      [] title = "diff" -> {l.owner : l \in ToSet(input.diff)} \ Hidden(input)
      [] title = "symbols" -> Edited
      [] title = "callers" -> Called
      [] title = "findings" -> {f.id : f \in OnChangedLines}
      [] OTHER -> {}
Of(title) == {i \in DOMAIN pack : pack[i].title = title}
NamesSome(list, set, most) ==
    /\ ToSet(list) \subseteq set
    /\ Cardinality(ToSet(list)) = Len(list)
    /\ Len(list) = Min({most, Cardinality(set)})
Told(entry) == ToSet([i \in DOMAIN entry.shown |-> entry.shown[i].what])
SectionRight(entry) ==
    /\ entry.title \in {"rules", "diff", "symbols", "findings"} =>
          /\ Told(entry) \subseteq Owed(entry.title)
          /\ Cardinality(Told(entry)) = Len(entry.shown)
          /\ Len(entry.shown) + entry.left = Cardinality(Owed(entry.title))
    /\ entry.title \in Loops => entry.size <= Limits[entry.title] + 1
    /\ entry.title = "pull_request" =>
          /\ entry.size <= Limits.pr
          /\ entry.left = 0 => NamesSome(entry.named, input.excluded, Limits.excluded)
    /\ entry.title = "diff" => NamesSome(entry.named, Secrets, Limits.secret)
    /\ entry.title = "map" => entry.size <= Limits.map
    /\ entry.title = "findings" =>
          \A f, g \in input.findings : f.changed /\ f.id \notin Told(entry) /\ g.id \in Told(entry)
                => Order(g.severity) <= Order(f.severity)
    /\ entry.title = "callers" =>
          entry.left = 1 \/ Told(entry) = Owed("callers")
OmissionsAnnounced ==
    /\ \A i \in DOMAIN pack : SectionRight(pack[i])
    /\ section = "done" =>
          /\ \A title \in {"rules", "symbols", "findings"} : Owed(title) # {} => Of(title) # {}
          /\ Of("diff") \cup Of("no diff") # {}
          /\ Of("callers") = {} /\ Owed("callers") # {} => CallerItems[1].size > Limits.callers

\* An answer of a tool shows some of what was asked for, each once and no more than its
\* limit.  What it shows and what its note counts is all there is, unless the note says
\* without a number that there is more; where read_file names a line to go on from, the
\* lines of the request that it has not shown are those from that line; of the findings,
\* a graver one is never left out for a lesser one.
MostOf(tool) ==
    CASE tool = "read_file" -> ToolLimits.read
      [] tool = "get_symbol_source" -> ToolLimits.source
      [] tool = "find_symbol" -> ToolLimits.find
      [] tool = "callers_of" -> ToolLimits.callers
      [] tool = "callees_of" -> ToolLimits.callees
      [] tool = "list_tests_for" -> ToolLimits.tests
      [] tool = "search_code" -> ToolLimits.search
      [] tool = "get_linter_findings" -> ToolLimits.findings
      [] tool = "get_rule" -> 1
      [] OTHER -> 0
MatchesIn(glob) == UNION {{path} \X (1..input.matches[path]) :
                              path \in glob \ (input.secret \cup GeneratedPaths)}
Wanted(tool, asked) ==
    CASE tool = "read_file" ->
            {n \in 1..input.lengths[asked[1]] : asked[2] <= n /\ (asked[3] # NoLine => n <= asked[3])}
      [] tool = "get_symbol_source" -> Get(asked).start .. Get(asked).end
      [] tool = "find_symbol" ->
            {i \in DOMAIN symbols : IF Len(asked) = 1 THEN symbols[i].name = asked[1]
                                    ELSE symbols[i].qualified = asked}
      [] tool = "callers_of" -> {i \in DOMAIN edges : edges[i].kind = "calls" /\ edges[i].target = asked}
      [] tool = "callees_of" -> {i \in DOMAIN edges : edges[i].kind = "calls" /\ edges[i].source = asked}
      [] tool = "list_tests_for" ->
            {e.source : e \in {d \in CallEdges : /\ d.name = Get(asked).name
                                                 /\ d.path \in input.tests /\ Known(d.source)}}
      [] tool = "search_code" -> MatchesIn(asked)
      [] tool = "get_linter_findings" -> {f.id : f \in Selected(asked[1], asked[2])}
      [] tool = "get_rule" -> {asked}
      [] OTHER -> {}
Complete(answer, wanted) ==
    LET told == ToSet(answer.shown)
        all == Len(answer.shown) + answer.more
    IN /\ told \subseteq wanted /\ Cardinality(told) = Len(answer.shown)
       /\ all <= Cardinality(wanted)
       /\ answer.next = 0 /\ ~answer.partly => all = Cardinality(wanted)
       /\ answer.next # 0 => wanted \ told = {n \in wanted : n >= answer.next} /\ answer.next \in wanted
       /\ answer.tool = "get_linter_findings" =>
             \A f, g \in input.findings : f.id \in wanted \ told /\ g.id \in told
                   => Order(g.severity) <= Order(f.severity)
AnswerRight(answer) ==
    /\ Len(answer.shown) <= MostOf(answer.tool)
    /\ answer.error \/ Complete(answer, Wanted(answer.tool, answer.asked))
AnswersRight == AnswerRight(reply)

-----------------------------------------------------------------------------
(* What the proofs rest on: the shape of symbols and edges, what a file    *)
(* has given so far, and that nothing is linked before the end.            *)

SymbolsRight(list) ==
    \A i \in DOMAIN list :
        /\ list[i].id = <<list[i].path, list[i].qualified>>
        /\ list[i].name = list[i].qualified[Len(list[i].qualified)]
EdgeFields == {"kind", "source", "name", "target", "path", "line"}
\* The owner of a call is a symbol of the same list, and not linked yet.
OwnedBy(list, owners) ==
    \A i \in DOMAIN list :
        /\ DOMAIN list[i] = EdgeFields
        /\ list[i].kind = "calls" => \E j \in DOMAIN owners : owners[j].id = list[i].source
Unlinked(list) == \A i \in DOMAIN list : list[i].kind = "calls" => list[i].target = NoId
OfFile ==
    /\ \A i \in DOMAIN fileSymbols : files # <<>> /\ fileSymbols[i].path = File.path
    /\ \A i \in DOMAIN fileEdges : files # <<>> /\ fileEdges[i].path = File.path
    /\ \A i \in DOMAIN scope : \E j \in DOMAIN fileSymbols : scope[i] = fileSymbols[j]
IndexInv ==
    /\ filesIndexed \in Nat
    /\ indexPc \in {"files", "resolve", "done"}
    /\ SymbolsRight(symbols) /\ SymbolsRight(fileSymbols)
    /\ OwnedBy(edges, symbols) /\ OwnedBy(fileEdges, fileSymbols)
    /\ Unlinked(fileEdges) /\ (indexPc # "done" => Unlinked(edges))
    /\ OfFile
    /\ indexPc = "done" => CallsLinked
    /\ section # "waiting" => indexPc = "done"

\* Of the walk over a file: `scope` is the definitions that are open, outermost first,
\* every symbol is of a definition, and a call's owner is the last one opened around it.
Close(file) == CHOOSE close \in [Definitions(file) -> Ends(file)] : Closes(file, close)
Open(file, n) == {i \in Definitions(file) : i < n /\ n <= Close(file)[i]}
OfNode(s, node) == s.start = node.line /\ s.end = node.end
ScopeIsOpen ==
    \E open \in [DOMAIN scope -> Open(File, at)] :
        /\ \A k \in DOMAIN scope : OfNode(scope[k], File.nodes[open[k]])
        /\ \A k, l \in DOMAIN scope : k < l => open[k] < open[l]
        /\ \A i \in Open(File, at) : \E k \in DOMAIN scope : open[k] = i
OwnedInFile(e) ==
    \E n \in DOMAIN File.nodes \ Ends(File) : \E i \in Open(File, n) :
        /\ e.line = File.nodes[n].line
        /\ \A j \in Open(File, n) : j <= i
        /\ \E s \in ToSet(fileSymbols) : s.id = e.source /\ OfNode(s, File.nodes[i])
WalkedSoFar ==
    /\ ScopeIsOpen
    /\ \A s \in ToSet(fileSymbols) : \E i \in Definitions(File) : OfNode(s, File.nodes[i])
    /\ \A e \in ToSet(fileEdges) : e.kind = "calls" => OwnedInFile(e)
\* What is in the index is not of a file still to come, nor is a file left out to come again.
ComesOnce ==
    \A i \in DOMAIN files :
        /\ files[i].path \notin leftOut
        /\ \A x \in ToSet(symbols) \cup ToSet(edges) : files[i].path # x.path
WalkInv ==
    /\ at \in Nat
    /\ IsRepository(files)
    /\ files # <<>> => WalkedSoFar
    /\ ComesOnce
    /\ FailedLeaveNothing
    /\ OwnersInnermost

\* Between the steps of the walk, for TypeOK: where it is, what edges point to, and that
\* what the index says of a file fits the file.
SymbolIds(list) == {list[i].id : i \in DOMAIN list}
EdgesTyped(list, ids) ==
    \A i \in DOMAIN list :
        /\ list[i].kind \in {"calls", "imports", "contains"}
        /\ list[i].target \in ids \cup {NoId}
        /\ list[i].path \in Int /\ list[i].line \in Nat
SymbolsFit(list) ==
    \A i \in DOMAIN list :
        /\ list[i].path \in Int /\ list[i].start \in Nat /\ list[i].end \in Nat
        /\ list[i].start <= list[i].end
        /\ list[i].path \in DOMAIN input.lengths => list[i].end <= input.lengths[list[i].path]
TypeInv ==
    /\ at <= IF files = <<>> THEN 0 ELSE Len(File.nodes) + 1
    /\ filesFailed \in Nat
    /\ EdgesTyped(edges, SymbolIds(symbols)) /\ EdgesTyped(fileEdges, SymbolIds(fileSymbols))
    /\ SymbolsFit(symbols) /\ SymbolsFit(fileSymbols)
    /\ IsInput(input) /\ LinesOf(files, input.lengths)

\* What a loop goes over is what is owed, each once, the graver findings first.
QueueRight(title, list) ==
    /\ list \in Seq(ToSet(list))
    /\ title \notin Loops => list = <<>>
    /\ title \in Loops =>
          /\ {q.what : q \in ToSet(list)} = Owed(title)
          /\ \A i, j \in DOMAIN list : list[i].what = list[j].what => i = j
          /\ \A i \in DOMAIN list : list[i].size \in Nat
    /\ title = "callers" => list = CallerItems
    /\ title = "findings" =>
          /\ ToSet(list) \subseteq {FindingItem(f) : f \in OnChangedLines}
          /\ \A i, j \in DOMAIN list : i < j => Order(list[i].severity) <= Order(list[j].severity)
\* What it shows is of what it has gone over, each once, and all of that where nothing is
\* passed by.
LoopRight ==
    /\ item \in 1..(Len(queue) + 1)
    /\ used \in Nat /\ (item = 1 => used = 0) /\ (section \in Loops => used <= Limits[section] + 1)
    /\ shown \in Seq(ToSet(shown)) /\ omitted \in Seq(ToSet(omitted))
    /\ \A k \in DOMAIN shown : \E j \in 1..(item - 1) : shown[k] = queue[j]
    /\ \A k, l \in DOMAIN shown : shown[k].what = shown[l].what => k = l
    /\ Len(shown) + Len(omitted) <= item - 1
    /\ section # "diff" => omitted = <<>>
    /\ section = "diff" => Len(shown) + Len(omitted) = item - 1
    /\ section \notin {"diff", "symbols"} =>
          Len(shown) = item - 1 /\ \A k \in DOMAIN shown : shown[k] = queue[k]
\* The sections that come after one.
Since(title) == {t \in ToSet(Sections) : \E i, j \in DOMAIN Sections : Sections[i] = title /\ Sections[j] = t /\ i < j}
PackRight ==
    /\ pack \in Seq(ToSet(pack))
    /\ \A i \in DOMAIN pack : SectionRight(pack[i]) /\ pack[i].left \in Nat
    /\ \A title \in {"rules", "symbols", "findings"} :
          section \in Since(title) /\ Owed(title) # {} => Of(title) # {}
    /\ section \in Since("diff") => Of("diff") \cup Of("no diff") # {}
    /\ section \in Since("callers") /\ Of("callers") = {} /\ Owed("callers") # {} =>
          CallerItems[1].size > Limits.callers
PackInv ==
    /\ section \in ToSet(Sections) \cup {"waiting"}
    /\ touched \subseteq DOMAIN symbols
    /\ section = "waiting" => touched = {} /\ pack = <<>>
    /\ QueueRight(section, queue) /\ LoopRight /\ PackRight

\* The agents and their tools see one index, the finished one.
IndexStands == [][section # "waiting" => UNCHANGED indexVars]_vars
=============================================================================
