--------------------------- MODULE ChangeAnalysis ---------------------------
(***************************************************************************)
(* AnalysisOrchestrator.run up to its result: the analyzers the checkout's *)
(* languages call for and the extraction of the pull request's changes run *)
(* together; when both have ended, their findings are collected,           *)
(* deduplicated, marked with the changes and counted.                      *)
(*                                                                         *)
(* A checkout is its files and the symbols the code index finds in them.   *)
(* `parts` are the directories of a file's absolute path.                  *)
(***************************************************************************)
EXTENDS DiffExtractor, Analyzers

CONSTANT Scenarios  \* the checkouts, pull requests and histories a run explores together

ASSUME ScenarioAssumption == \A s \in Scenarios : IsPull(s.pull) /\ \A h \in s.histories : IsHistory(h)

VARIABLES
    checkout,   \* the files and symbols of the workspace
    indexed,    \* whether the code index was built
    result      \* the AnalysisResult, NoAnalysis before it exists

vars == <<diffVars, toolVars, checkout, indexed, result>>

-----------------------------------------------------------------------------
(* Which analyzers run, on which files.                                    *)

Vendored == {".git", "node_modules", "dist", "build"}
PythonIgnored == Vendored \cup {".venv", "venv", "env", "__pycache__"}
ScriptIgnored == Vendored \cup {"coverage"}
DetectionIgnored == PythonIgnored \cup ScriptIgnored

\* Suffixes are lower-cased for detection and for the line counts, not by rglob("*.py").
Lower(suffix) == IF suffix = ".PY" THEN ".py" ELSE suffix
ScriptSuffixes == {".js", ".ts"}
Language(f) == IF Lower(f.suffix) = ".py" THEN "python"
               ELSE IF Lower(f.suffix) \in ScriptSuffixes THEN "script"
               ELSE "other"
DetectLanguages(files) == {Language(f) : f \in {g \in files : g.parts \cap DetectionIgnored = {}}}
CreateForLanguages(languages) ==
    {a \in AnalyzerNames : (IF a = "python" THEN "python" ELSE "script") \in languages}
DiscoverPythonFiles(files) == {f \in files : f.suffix = ".py" /\ f.parts \cap PythonIgnored = {}}
ScanScripts(files) ==
    {f \in files : Lower(f.suffix) \in ScriptSuffixes /\ f.parts \cap ScriptIgnored = {}}

-----------------------------------------------------------------------------
(* FindingNormalizer and the metrics.                                      *)

\* The fingerprint of one commit's findings: what is not in it does not tell two apart.
Fingerprint(f) == [tool |-> f.tool, rule |-> f.rule, path |-> f.path, line |-> f.line, col |-> f.col]

\* The first finding of each fingerprint.
Normalize(findings) ==
    LET first == {i \in DOMAIN findings :
                    \A j \in 1..(i - 1) : Fingerprint(findings[j]) # Fingerprint(findings[i])}
    IN {findings[i] : i \in first}

With(findings, severities) == {f \in findings : f.severity \in severities}
Bucket(findings) ==
    [errors   |-> Cardinality(With(findings, {"error"})),
     warnings |-> Cardinality(With(findings, {"warning", "info"}))]
\* The findings of a rule whose message states a number.
OfRules(findings, rules) == {f \in findings : f.rule \in rules}
Violations(findings, rule) ==
    LET stated == {f \in OfRules(findings, {rule}) : f.value > 0}
    IN [violations |-> Cardinality(stated), maximum |-> Max({0} \cup {f.value : f \in stated}),
        total |-> MapThenSumSet(LAMBDA f : f.value, stated)]
UnusedVariableRules == {"no-unused-vars", "@typescript-eslint/no-unused-vars"}

LinesOf(files) == MapThenSumSet(LAMBDA f : f.lines, files)

\* The totals leave `info` out; the statistics by rule and by file count it as a warning.
Metrics(findings, files) ==
    [files       |-> Cardinality(files),
     loc         |-> LinesOf(files),
     errors      |-> Cardinality(With(findings, {"error"})),
     warnings    |-> Cardinality(With(findings, {"warning"})),
     total       |-> Cardinality(With(findings, {"error", "warning"})),
     complexity  |-> Violations(findings, "complexity"),
     cognitive   |-> Violations(findings, "sonarjs/cognitive-complexity"),
     functions   |-> Violations(findings, "max-lines-per-function"),
     largest     |-> IF files = {} THEN 0 ELSE Max({f.lines : f \in files}),
     tooLong     |-> Cardinality(OfRules(findings, {"max-lines"})),
     unused      |-> Cardinality(OfRules(findings, UnusedVariableRules)),
     unreachable |-> Cardinality(OfRules(findings, {"no-unreachable"}))]
RuleStatistics(findings) ==
    [r \in {f.rule : f \in findings} |-> Bucket({f \in findings : f.rule = r})]
FileStatistics(findings, files) ==
    [p \in {f.path : f \in files} |-> Bucket({f \in findings : f.path = p})]

-----------------------------------------------------------------------------
NoAnalysis == [status |-> "none", findings |-> {}, marked |-> FALSE, changed |-> {},
               metrics |-> Metrics({}, {}), rules |-> <<>>, files |-> <<>>, python |-> NoLastResult]

Init ==
    /\ \E s \in Scenarios :
          /\ checkout = s.checkout
          /\ ToolsInit(CreateForLanguages(DetectLanguages(s.checkout.files)),
                       DiscoverPythonFiles(s.checkout.files) # {})
          /\ \E graph \in s.histories : DiffInit(graph, s.pull)
    /\ indexed = FALSE
    /\ result = NoAnalysis

\* CodeIndexer.build in a thread of its own, then changed_symbols; whatever either
\* raises is logged, and leaves the changes without symbols.
Index ==
    /\ diffPc = "index"
    /\ diffPc' = "ended"
    /\ \/ /\ changes' = [changes EXCEPT !.symbols = ChangedSymbols(checkout.symbols, changes.files)]
          /\ indexed' = TRUE
       \/ UNCHANGED changes /\ indexed' \in BOOLEAN
    /\ UNCHANGED <<history, pull, cut, attempt, base, entries, toolVars, checkout, result>>

\* _build_result, when the gather of the analyzers and of the extraction is over.
\* mark_findings is skipped unless the changes are available.
Failure == selected # {} /\ \A a \in selected : returned[a] = "raised"
BuildResult ==
    /\ result = NoAnalysis
    /\ ToolsDone /\ diffPc = "ended"
    /\ \E findings \in {Normalize(FindingsOf("eslint") \o FindingsOf("python"))},
          scripts \in {ScanScripts(checkout.files)},
          marked \in {changes.status = "available"} :
          result' = [status   |-> IF Failure THEN "failed" ELSE "completed",
                     findings |-> findings,
                     marked   |-> marked,
                     changed  |-> IF marked THEN {f \in findings : IsOnChangedLine(f, changes.files)}
                                  ELSE {},
                     metrics  |-> Metrics(findings, scripts),
                     rules    |-> RuleStatistics(findings),
                     files    |-> FileStatistics(findings, scripts),
                     python   |-> lastResult]
    /\ UNCHANGED <<diffVars, toolVars, checkout, indexed>>

Extraction == DiffStep \/ GitFails
Next ==
    \/ Extraction /\ UNCHANGED <<toolVars, checkout, indexed, result>>
    \/ (AnalyzerStep \/ \E p \in Processes : ProcessStep(p))
       /\ UNCHANGED <<diffVars, checkout, indexed, result>>
    \/ Index
    \/ BuildResult

\* As long as something is left to do, something happens: a process ends or is killed at
\* its time limit, a git command too, and asyncio runs whatever is ready.
Fairness == WF_vars(Next)

Spec == Init /\ [][Next]_vars /\ Fairness

-----------------------------------------------------------------------------
TypeOK ==
    /\ ToolsTypeOK
    /\ cut \subseteq Commits
    /\ diffPc \in DiffPlaces
    /\ attempt \in DOMAIN FetchDepths
    /\ base \in Commits \cup {NoCommit}
    /\ changes.status \in {"available", "unavailable"}
    /\ changes.files \subseteq ChangedFileType
    /\ indexed \in BOOLEAN
    /\ result.status \in {"none", "completed", "failed"}

\* A report: what a tool that ended by itself wrote, with an exit code that means one.
Reported(p) ==
    process[p] = "exited" /\ answer[p].out = "found"
    /\ (p \in {"eslint", "bandit"} => answer[p].code \in {0, 1})
RadonRead == \A c \in RadonCommands \ {"hal"} : process[c] = "exited" /\ RadonOutcome(c) = "read"
AdapterRaised == \E t \in Tools : ToolEnded(t) /\ Status[t] = "raised"
Owed ==
    (IF Reported("eslint") THEN ToSet(Mapped(EslintFinding, Reports["eslint"])) ELSE {})
    \cup (IF AdapterRaised THEN {}
          ELSE (IF Reported("pylint") THEN ToSet(Mapped(PylintFinding, Reports["pylint"])) ELSE {})
               \cup (IF Reported("bandit") THEN ToSet(Mapped(BanditFinding, Reports["bandit"])) ELSE {})
               \cup (IF RadonRead THEN ToSet(ComplexityFindings \o MaintainabilityFindings) ELSE {}))
Place(f) == <<f.tool, f.rule, f.path, f.line, f.col>>

\* What an analyzer or a tool gave, by its processes and what they wrote.
Silent(p) == process[p] \in {"killed", "missing"} \/ answer[p].out = "malformed"
NothingFrom(tool) ==
    CASE tool = "eslint" -> \/ Silent("eslint") \/ answer["eslint"].out = "odd"
                            \/ answer["eslint"].code \notin {0, 1}
      [] tool = "pylint" -> \/ Silent("pylint")
                            \/ UsageError(answer["pylint"].code) /\ answer["pylint"].out = "empty"
      [] tool = "bandit" -> Silent("bandit") \/ answer["bandit"].code \notin {0, 1}
      [] tool = "radon"  -> \E c \in {"cc", "mi", "raw"} : Silent(c)
GaveNothing(a) ==
    IF a = "eslint" THEN NothingFrom("eslint")
    ELSE AdapterRaised \/ (pythonFiles /\ \A t \in Tools : NothingFrom(t))

FindingsKept ==
    /\ {Place(f) : f \in result.findings} = {Place(f) : f \in Owed}
    /\ Cardinality(result.findings) = Cardinality({Place(f) : f \in Owed})
OutcomeJustified ==
    /\ result.status = "failed" <=> selected # {} /\ \A a \in selected : GaveNothing(a)
    /\ result.status = "failed" => Owed = {}
\* The sum of natural numbers, as the size of a disjoint union.
SumOfCounts(count) == Cardinality(UNION {{r} \X (1..count[r]) : r \in DOMAIN count})
TotalsAgree ==
    /\ SumOfCounts([r \in DOMAIN result.rules |-> result.rules[r].errors]) = result.metrics.errors
    /\ SumOfCounts([r \in DOMAIN result.rules |-> result.rules[r].errors + result.rules[r].warnings])
          = Cardinality(result.findings)
NothingOutlives == (\E p \in Processes : process[p] = "running") => AdapterRaised

\* The result holds every finding of every report once, by its place and rule, and
\* nothing else: one tool's time-out, crash or unreadable output takes nothing from the
\* others, but for an adapter that raises, which takes its siblings along
\* (python_analyzer.py:92).  The job has failed exactly when some analyzer was selected
\* and every selected one gave nothing: of ESLint no report that can be read, of
\* Python an adapter that raised, or nothing from any of its three tools while there
\* were files for them (detection lower-cases a suffix, the discovery of files does
\* not).  The totals and both statistics count the same findings, and no process
\* outlives the result unless an adapter raised.
ResultFaithful ==
    result # NoAnalysis => FindingsKept /\ OutcomeJustified /\ TotalsAgree /\ NothingOutlives

Touches(c, f) ==
    /\ c.path = f.path /\ c.status # "deleted"
    /\ IF f.line = 0 THEN ~c.binary /\ c.hunks # <<>>
       ELSE \E n \in f.line .. LastLine(f) : n \in AddedBy(c)

\* A finding is marked as the pull request's own exactly if the pull request added a
\* line it covers (or, for one about a whole file, changed the file's content): through
\* renames, deletions, binary files, removed lines that read like a header, and files
\* that are left out because they are generated.  And each changed file outside
\* generated ones is listed once, with its lines counted as git counts them.
MarksExact ==
    result.marked =>
        /\ result.changed =
              {f \in result.findings : f.path \notin GeneratedPaths
                                        /\ \E c \in ToSet(pull) : Touches(c, f)}
        /\ {<<f.path, f.old, f.lines>> : f \in changes.files} =
              {<<c.path, c.old, IF c.binary THEN 0 ELSE Counts(c).added + Counts(c).removed>> :
                  c \in {d \in ToSet(pull) : d.path \notin GeneratedPaths}}

\* The linter stage comes to a result, and every process it started ends.
StageEnds == <>(result # NoAnalysis /\ \A p \in Processes : process[p] # "running")

-----------------------------------------------------------------------------
(* What the proofs rest on.                                                *)

\* What each analyzer's end tells of its processes, and what of it is still true when
\* others end later.
AnalyzersEnded ==
    /\ \A p \in Processes : process[p] = "unused" <=> ~Uses(p, selected, pythonFiles)
    /\ returned["eslint"] # "pending" => Ended("eslint") /\ returned["eslint"] = EslintStatus
    /\ returned["python"] = "returned" =>
          /\ \A t \in Tools : ToolEnded(t) /\ Status[t] # "raised"
          /\ ~(AllFailed /\ pythonFiles)
    /\ returned["python"] = "raised" =>
          \/ AdapterRaised
          \/ pythonFiles /\ AllFailed /\ \A t \in Tools : ToolEnded(t)
    /\ \A a \in AnalyzerNames : returned[a] # "pending" => a \in selected

\* The result is that of analyzers which have all ended.
ResultOfAll ==
    result # NoAnalysis => ToolsDone /\ result.status = IF Failure THEN "failed" ELSE "completed"

StageInv == ToolsTypeOK /\ AnalyzersEnded /\ ResultOfAll

\* The findings are what the analyzers that returned still say, and the counts are made
\* of them: no process that ends later changes either.
ResultOfFindings ==
    result # NoAnalysis =>
        /\ result.findings = Normalize(FindingsOf("eslint") \o FindingsOf("python"))
        /\ result.metrics = Metrics(result.findings, ScanScripts(checkout.files))
        /\ result.rules = RuleStatistics(result.findings)

\* The deepening of the history: nothing nearer than the depth just fetched is cut, but
\* for what the second fetch of an attempt cuts of the first one's history.
Near(tip, d) == Depth(tip, d) \ LastOf(tip, d)
Deepened(d) ==
    /\ cut \cap Near(history.now, d) = {}
    /\ cut \cap Near(history.target, d) \subseteq LastOf(history.now, d)
Fetched ==
    /\ diffPc = "fetch_head" => cut \cap Near(history.target, FetchDepths[attempt]) = {}
    /\ diffPc = "merge_base" /\ attempt > 1 => Deepened(FetchDepths[attempt])
\* Without a target branch nothing is fetched.
HistoryInv ==
    /\ IsHistory(history)
    /\ history.target = NoCommit =>
          diffPc \in {"start", "ended"} /\ base = NoCommit /\ changes.reason # "no_merge_base"
BaseAmongFetched == base # NoCommit => base \in Best(cut)
NoBaseAmongAll == changes.reason = "no_merge_base" => Deepened(LastDepth) /\ Common(cut) = {}
DiffInv ==
    /\ attempt \in DOMAIN FetchDepths
    /\ diffPc \in DiffPlaces
    /\ diffPc \in {"start", "fetch_target", "fetch_head", "merge_base"} => base = NoCommit
    /\ diffPc # "ended" => changes.reason = "none"
    /\ DOMAIN changes = {"status", "reason", "files", "excluded", "symbols"}
    /\ Fetched /\ BaseAmongFetched /\ NoBaseAmongAll

\* What has been read of git's output by now: each change as it is, and the marks of the
\* result are those of the changes at the end.
ChangesAsMade ==
    changes.status = "available" =>
        changes.files = {FileOf(c) : c \in {d \in ToSet(pull) : d.path \notin GeneratedPaths}}
PullInv ==
    /\ IsPull(pull)
    /\ diffPc = "patch" => entries = [i \in DOMAIN pull |-> EntryOf(pull[i])]
    /\ changes.status \in {"available", "unavailable"}
    /\ changes.files \subseteq ChangedFileType
    /\ diffPc = "index" => changes.status = "available"
    /\ ChangesAsMade
    /\ result.marked =>
          /\ diffPc = "ended" /\ changes.status = "available"
          /\ result.changed = {f \in result.findings : IsOnChangedLine(f, changes.files)}
=============================================================================
