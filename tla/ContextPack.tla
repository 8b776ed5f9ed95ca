---------------------------- MODULE ContextPack ----------------------------
(***************************************************************************)
(* ContextPackBuilder.build: the sections the Reviewer starts from, each a *)
(* loop over what there is to show that stops at the section's number of   *)
(* items or of characters, and notes what is left out.                     *)
(*                                                                         *)
(* A text is the sequence of its lines' lengths.  What a loop shows is an  *)
(* item: what it is, and `size`, its number of characters.  The index the  *)
(* callers come from is CodeIndex's.                                       *)
(***************************************************************************)
EXTENDS CodeIndex, ChangeSet

CONSTANTS
    Limits,         \* ContextLimits, and how many names a line or a note has room for
    NoteSize        \* characters of a note in an item's text

LimitFields == {"pr", "diff", "diffFile", "symbols", "symbolLines", "maxSymbols", "callers",
                "callersPerSymbol", "findings", "maxFindings", "map", "rules", "maxRules",
                "excluded", "secret", "imports"}
ASSUME PackAssumption ==
    /\ Limits \in [LimitFields -> Nat \ {0}]
    /\ NoteSize \in Nat

VARIABLES
    input,      \* the pull request: its description, changed files, diff, rules and findings
    touched,    \* changes.changed_symbols: their places in `symbols`
    section,    \* the section being built
    queue,      \* what its loop goes over
    item,       \* where in the queue the loop is
    used,       \* characters of the budget used
    shown,      \* the items shown
    omitted,    \* the diffs left out
    pack        \* the sections built

packVars == <<input, touched, section, queue, item, used, shown, omitted, pack>>

Sections == <<"pull_request", "rules", "diff", "symbols", "callers", "findings", "map", "done">>
After(title) == Sections[1 + CHOOSE i \in DOMAIN Sections : Sections[i] = title]
Loops == {"rules", "diff", "symbols", "callers", "findings"}

-----------------------------------------------------------------------------
(* Texts.                                                                  *)

Characters(text) == SumOf(text) + Len(text) - (IF text = <<>> THEN 0 ELSE 1)

\* The line breaks of a text before a limit.
Breaks(text, limit) == {i \in 1..(Len(text) - 1) : SumOf(SubSeq(text, 1, i)) + i <= limit}

\* _cut: text[:limit] up to its last line break, all of it where it has none.
Cut(text, limit) ==
    IF Characters(text) <= limit THEN text
    ELSE IF Breaks(text, limit) = {} THEN <<limit>>
    ELSE SubSeq(text, 1, Max(Breaks(text, limit)))
IsCut(text, limit) == Characters(text) > limit

\* A line of the diff has a head and, on a header line, a path.  git prints those of the
\* files it is not told to leave out; _split_diff starts a file at each "diff --git";
\* _with_path looks for its name in its first eight lines.
Hidden(request) == request.excluded \cup request.secret
PrintedOf(request) ==
    Listed({i \in DOMAIN request.diff : request.diff[i].owner \notin Hidden(request)}, Earlier,
           LAMBDA i : request.diff[i])
Printed == PrintedOf(input)
Starts(lines) == {i \in DOMAIN lines : i = 1 \/ lines[i].head = "diff --git"}
SplitAt(lines, i) ==
    SubSeq(lines, i, Min({Len(lines)} \cup {j - 1 : j \in {k \in Starts(lines) : k > i}}))
PathOf(lines) ==
    LET heading(heads) == {i \in 1..Min({8, Len(lines)}) : lines[i].head \in heads}
    IN IF heading({"+++", "rename to"}) # {} THEN lines[Max(heading({"+++", "rename to"}))].path
       ELSE IF heading({"---"}) # {} THEN lines[Min(heading({"---"}))].path
       ELSE lines[1].path

\* What git prints: a section for each path, begun by its "diff --git" line, and among
\* its first eight lines only headers that name it look like headers.
Begins(lines, i) == i = 1 \/ lines[i].owner # lines[i - 1].owner
Heading(lines, i) == {k \in i..(i + 7) : k \in DOMAIN lines /\ lines[k].owner = lines[i].owner}
IsDiff(lines) ==
    /\ \A i \in DOMAIN lines :
          /\ lines[i].size \in Nat
          /\ lines[i].head = "diff --git" <=> Begins(lines, i)
          /\ \A j \in DOMAIN lines : lines[j].owner = lines[i].owner =>
                \A k \in i..j : lines[k].owner = lines[i].owner
    /\ \A i \in DOMAIN lines : Begins(lines, i) =>
          /\ lines[i].path = lines[i].owner
          /\ \A k \in Heading(lines, i) :
                /\ lines[k].head \in {"+++", "rename to"} => lines[k].path = lines[i].owner
                /\ lines[k].head = "---" /\ lines[k].path # lines[i].owner =>
                      \E l \in Heading(lines, i) : lines[l].head \in {"+++", "rename to"}

-----------------------------------------------------------------------------
(* What each section has to show, in the order of its loop.                *)

\* A line or a note names so many files and is silent of the others.
Same(x) == x
Named(paths, most) == SubSeq(Listed(paths, Earlier, Same), 1, Min({most, Cardinality(paths)}))
Secrets == {f.path : f \in input.files} \cap input.secret

\* The title and so on to the end of the description; then the generated files by name.
PullRequestText ==
    IF input.excluded = {} THEN input.description
    ELSE Append(input.description, Len(Named(input.excluded, Limits.excluded)))

\* RuleSet.applicable; None without a rule source.
Applicable == {i \in DOMAIN input.rules :
    \/ input.rules[i].scope = {}
    \/ \E f \in input.files : f.status # "deleted" /\ f.path \in input.rules[i].scope}
RuleItem(i) == [what |-> input.rules[i].id, size |-> Characters(input.rules[i].text)]
RuleItems == Listed(Applicable, Earlier, RuleItem)

\* Source before tests, then smaller files first; the rest of a long diff is a note.
DiffItem(i) ==
    LET lines == SplitAt(Printed, i)
        text == [k \in DOMAIN lines |-> lines[k].size]
        note == IF IsCut(text, Limits.diffFile) THEN NoteSize ELSE 0
    IN [what |-> PathOf(lines), size |-> Characters(Cut(text, Limits.diffFile)) + note,
        whole |-> Characters(text), test |-> PathOf(lines) \in input.tests]
MoreCentral(i, j) ==
    LET a == DiffItem(i) b == DiffItem(j)
    IN IF a.test # b.test THEN b.test ELSE IF a.whole # b.whole THEN a.whole < b.whole ELSE i < j
DiffItems == Listed(Starts(Printed), MoreCentral, DiffItem)

\* An edited symbol, not one the pull request added from its first line to its last;
\* most called first.  The file may be refused or gone.
AddedLines(path) == UNION {f.added : f \in {g \in input.files : g.path = path}}
Edited == {i \in touched : ~(symbols[i].start .. symbols[i].end \subseteq AddedLines(symbols[i].path))}
LastShown(s, most) == Min({s.end, s.start + most - 1, input.lengths[s.path]})
Readable(path) == path \in DOMAIN input.lengths /\ path \notin input.secret
SymbolItem(i) ==
    LET s == symbols[i]
        last == IF Readable(s.path) THEN LastShown(s, Limits.symbolLines) ELSE s.start - 1
    IN [what |-> i, readable |-> Readable(s.path),
        size |-> NoteSize + (last - s.start + 1) + (IF last < s.end THEN NoteSize ELSE 0)]
Callers(i) == Cardinality(CallersOf(symbols[i].id))
MoreCalled(i, j) == IF Callers(i) # Callers(j) THEN Callers(i) > Callers(j) ELSE ByStart(i, j)
SymbolItems == Listed(Edited, MoreCalled, SymbolItem)

\* The calls the index knows of, so many of each.
SitesOf(i) == CallSitesOf(symbols[i].id)
CallerItem(i) ==
    LET sites == Cardinality(SitesOf(i))
        listed == Min({sites, Limits.callersPerSymbol})
    IN [what |-> i, more |-> sites - listed,
        size |-> NoteSize + listed + (IF sites > listed THEN NoteSize ELSE 0)]
Called == {i \in touched : SitesOf(i) # {}}
CallerItems == Listed(Called, ByStart, CallerItem)

Order(severity) == CASE severity = "error" -> 0 [] severity = "warning" -> 1 [] OTHER -> 2
Graver(f, g) == IF Order(f.severity) # Order(g.severity) THEN Order(f.severity) < Order(g.severity)
                ELSE f.id < g.id
FindingItem(f) == [what |-> f.id, severity |-> f.severity, size |-> f.size]
OnChangedLines == {f \in input.findings : f.changed}
FindingItems == Listed(OnChangedLines, Graver, FindingItem)

\* The slices of the loops and the budgets; the next line's break is counted in two.
Most(title) == CASE title = "rules" -> Limits.maxRules
                 [] title = "symbols" -> Limits.maxSymbols
                 [] title = "findings" -> Limits.maxFindings
                 [] OTHER -> Len(queue)
Cost(title, size) == IF title \in {"rules", "findings"} THEN size + 1 ELSE size

-----------------------------------------------------------------------------
\* What a request holds: rules and findings with ids of their own (parse_rules_file and
\* load_rules keep one rule of an id), a diff as git prints it, and the files' lengths.
IsInput(request) ==
    /\ request.rules \in Seq(ToSet(request.rules))
    /\ \A i, j \in DOMAIN request.rules : request.rules[i].id = request.rules[j].id => i = j
    /\ \A i \in DOMAIN request.rules : request.rules[i].text \in Seq(Nat)
    /\ request.description \in Seq(Nat) /\ request.map \in Seq(Nat)
    /\ IsFiniteSet(request.files) /\ \A f \in request.files : f.path \in Paths
    /\ IsFiniteSet(request.excluded) /\ request.excluded \subseteq Paths
    /\ IsFiniteSet(request.findings)
    /\ \A f, g \in request.findings : f.id = g.id => f = g
    /\ \A f \in request.findings : f.id \in Int /\ f.size \in Nat
    /\ request.diff \in Seq(ToSet(request.diff)) /\ IsDiff(PrintedOf(request))
    /\ \A path \in DOMAIN request.lengths : request.lengths[path] \in Nat
    /\ request.matches \in [Paths -> Nat]

PackInit(request) ==
    /\ input = request
    /\ touched = {}
    /\ section = "waiting"
    /\ queue = <<>> /\ item = 1 /\ used = 0 /\ shown = <<>> /\ omitted = <<>>
    /\ pack = <<>>

Loop(title, items) ==
    /\ section' = title
    /\ queue' = items
    /\ item' = 1 /\ used' = 0 /\ shown' = <<>> /\ omitted' = <<>>
\* (A cut takes the text's last line.)
NamedIn(title) ==
    CASE title = "pull_request" -> IF IsCut(PullRequestText, Limits.pr) THEN <<>>
                                   ELSE Named(input.excluded, Limits.excluded)
      [] title = "diff" -> Named(Secrets, Limits.secret)
      [] OTHER -> <<>>
Built(title, what, left, size) ==
    pack' = Append(pack, [title |-> title, shown |-> what, named |-> NamedIn(title),
                          left |-> left, size |-> size])
ItemsOf(title) == CASE title = "rules" -> RuleItems
                    [] title = "diff" -> DiffItems
                    [] title = "symbols" -> SymbolItems
                    [] title = "callers" -> CallerItems
                    [] title = "findings" -> FindingItems
                    [] OTHER -> <<>>
\* (An item's list is built once.)
Continue(title) == \E items \in {ItemsOf(After(title))} : Loop(After(title), items)

\* _pull_request: "Description truncated" where the text is cut.
PullRequest ==
    /\ section = "pull_request"
    /\ Built("pull_request", <<>>, IF IsCut(PullRequestText, Limits.pr) THEN 1 ELSE 0,
             Characters(Cut(PullRequestText, Limits.pr)))
    /\ Continue("pull_request")
    /\ UNCHANGED <<input, touched>>

\* No rule applies: a section only to say that the pull request edits the rules file.
NoRules ==
    /\ section = "rules" /\ queue = <<>>
    /\ IF input.edited THEN Built("rules", <<>>, 0, 0) ELSE UNCHANGED pack
    /\ Continue("rules")
    /\ UNCHANGED <<input, touched>>

\* git diff fails or times out.
NoDiff ==
    /\ section = "diff" /\ item = 1
    /\ Built("no diff", <<>>, 0, 0)
    /\ Continue("diff")
    /\ UNCHANGED <<input, touched>>

\* No textual change, no edited symbol, no known call, no finding on a changed line.
Nothing ==
    /\ section \in {"diff", "symbols", "callers", "findings"} /\ queue = <<>>
    /\ IF section \in {"diff", "findings"} THEN Built(section, <<>>, 0, 0) ELSE UNCHANGED pack
    /\ Continue(section)
    /\ UNCHANGED <<input, touched>>

InLoop == section \in Loops /\ queue # <<>> /\ item <= Min({Len(queue), Most(section)})
Unreadable(i) == section = "symbols" /\ ~queue[i].readable

Fits == used + queue[item].size <= Limits[section]

Show ==
    /\ InLoop /\ ~Unreadable(item) /\ Fits
    /\ shown' = Append(shown, queue[item])
    /\ used' = used + Cost(section, queue[item].size)
    /\ item' = item + 1
    /\ UNCHANGED <<input, touched, section, queue, omitted, pack>>

\* A symbol whose file cannot be read is passed over; so is, by its name, a diff that
\* does not fit: a smaller one may follow among the tests.
PassBy ==
    /\ InLoop
    /\ \/ Unreadable(item) /\ UNCHANGED omitted
       \/ section = "diff" /\ ~Fits /\ omitted' = Append(omitted, queue[item])
    /\ item' = item + 1
    /\ UNCHANGED <<input, touched, section, queue, used, shown, pack>>

\* The other loops stop at the first item that does not fit.
Truncated == InLoop /\ ~Unreadable(item) /\ ~Fits /\ section # "diff"

\* Mutation: what lies behind the slice is not counted.
LeftOfSlice == IF section = "diff" THEN Len(omitted)
               ELSE Min({Len(queue), Most(section)}) - Len(shown)

\* What the note says is missing: the callers' only that there is more.
Left == IF section = "diff" THEN Len(omitted)
        ELSE IF section = "callers" THEN IF Truncated THEN 1 ELSE 0
        ELSE Len(queue) - Len(shown)

\* Without a single entry the callers have no section.
EndLoop ==
    /\ section \in Loops /\ queue # <<>>
    /\ ~InLoop \/ Truncated
    /\ IF section = "callers" /\ shown = <<>> THEN UNCHANGED pack
       ELSE Built(section, shown, Left, used)
    /\ Continue(section)
    /\ UNCHANGED <<input, touched>>

\* _repo_map cuts without saying so: of the imports of a file, and of the whole.
Importing == {path \in {f.path : f \in input.files} : ImportsOfFile(path) # {}}
ImportLine(path) == Min({Limits.imports, Cardinality(ImportsOfFile(path))})
MapText == input.map \o Listed(Importing, Earlier, ImportLine)
RepoMap ==
    /\ section = "map"
    /\ \E text \in {MapText} : Built("map", <<>>, 0, Characters(Cut(text, Limits.map)))
    /\ Continue("map")
    /\ UNCHANGED <<input, touched>>

PackStep == PullRequest \/ NoRules \/ NoDiff \/ Nothing \/ Show \/ PassBy \/ EndLoop \/ RepoMap
=============================================================================
