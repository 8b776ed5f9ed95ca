----------------------------- MODULE Analyzers -----------------------------
(***************************************************************************)
(* The linters of one job: ESLint, and PythonAnalyzer with Pylint, Bandit  *)
(* and Radon's four commands, each a process of its own under              *)
(* run_process.  They are coroutines of one gather: any process may end,   *)
(* fail to start or be killed at its time limit before any other.          *)
(*                                                                         *)
(* What a process answers is its exit code and what its standard output    *)
(* is: nothing, no JSON ("malformed"), JSON of another shape than the      *)
(* adapter reads ("odd"), a report without messages ("clean") or with the  *)
(* messages Reports names ("found").  A message keeps what its finding is  *)
(* made of; 0 is a line, column or end the tool does not report.           *)
(***************************************************************************)
EXTENDS Integers, FiniteSets, SequencesExt

CONSTANTS
    Answers,        \* by process: the answers a run explores
    Reports,        \* by process: the messages of a report that has some
    MaxTrouble      \* bound: processes that give no report

RadonCommands == {"cc", "mi", "raw", "hal"}
PythonProcesses == {"pylint", "bandit"} \cup RadonCommands
Processes == {"eslint"} \cup PythonProcesses
AnalyzerNames == {"eslint", "python"}
Outputs == {"empty", "malformed", "odd", "clean", "found"}
Answer == [code : Nat, out : Outputs]

ASSUME AnalyzersAssumption ==
    /\ Answers \in [Processes -> SUBSET Answer]
    /\ DOMAIN Reports = Processes
    /\ \A p \in Processes : Reports[p] \in Seq(Range(Reports[p]))
    /\ MaxTrouble \in Nat

VARIABLES
    selected,       \* the analyzers the factory made for the checkout's languages
    pythonFiles,    \* whether discover_python_files found any
    process,        \* where each process is
    answer,         \* what each process answered
    returned,       \* what gather holds of each analyzer
    lastResult      \* PythonAnalyzer.last_result: each tool's status, the metrics

toolVars == <<selected, pythonFiles, process, answer, returned, lastResult>>

Unanswered == [code |-> 0, out |-> "empty"]
Failed == {"timeout", "execution_error"}
RunStatuses == Failed \cup {"success", "completed_with_findings"}
NoMetrics ==
    [loc |-> 0, pylint |-> 0, errors |-> 0, conventions |-> 0, complexity |-> 0, highest |-> 0,
     complex |-> 0, lowest |-> 0, poor |-> 0, volume |-> 0, bandit |-> 0, high |-> 0]
NoLastResult == [pylint |-> "none", radon |-> "none", bandit |-> "none", metrics |-> NoMetrics]

\* The processes the selected analyzers start; without Python files none of its own.
Uses(p, analyzers, files) ==
    \/ p = "eslint" /\ "eslint" \in analyzers
    \/ p \in PythonProcesses /\ "python" \in analyzers /\ files
Used == {p \in Processes : Uses(p, selected, pythonFiles)}

ToolsInit(analyzers, files) ==
    /\ selected = analyzers
    /\ pythonFiles = files
    /\ process = [p \in Processes |-> IF Uses(p, analyzers, files) THEN "running" ELSE "unused"]
    /\ answer = [p \in Processes |-> Unanswered]
    /\ returned = [a \in AnalyzerNames |-> "pending"]
    /\ lastResult = NoLastResult

-----------------------------------------------------------------------------
(* run_process.                                                            *)

Ended(p) == process[p] \in {"exited", "killed", "missing"}
Useless(a) == a.out \notin {"clean", "found"} \/ a.code = 2
Troubled == {p \in Processes :
                \/ process[p] \in {"killed", "missing"}
                \/ process[p] = "exited" /\ Useless(answer[p])}
RoomForTrouble == Cardinality(Troubled) < MaxTrouble

\* create_subprocess_exec raises OSError: there is no such executable.
Missing(p) ==
    /\ process[p] = "running"
    /\ RoomForTrouble
    /\ process' = [process EXCEPT ![p] = "missing"]
    /\ UNCHANGED <<selected, pythonFiles, answer, returned, lastResult>>

Exit(p) ==
    /\ process[p] = "running"
    /\ \E a \in Answers[p] :
          /\ Useless(a) => RoomForTrouble
          /\ answer' = [answer EXCEPT ![p] = a]
    /\ process' = [process EXCEPT ![p] = "exited"]
    /\ UNCHANGED <<selected, pythonFiles, returned, lastResult>>

\* wait_for's limit: the process is killed and awaited, its output thrown away.
TimeOut(p) ==
    /\ process[p] = "running"
    /\ RoomForTrouble
    /\ process' = [process EXCEPT ![p] = "killed"]
    /\ UNCHANGED <<selected, pythonFiles, answer, returned, lastResult>>

-----------------------------------------------------------------------------
(* The findings of a report's messages.                                    *)

Finding(tool, rule, path, line, col, end, severity, category) ==
    [tool |-> tool, rule |-> rule, path |-> path, line |-> line, col |-> col, end |-> end,
     severity |-> severity, category |-> category, value |-> 0]
Unreadable(tool, rule, path) == Finding(tool, rule, path, 0, 0, 0, "error", "bug")

\* _RULE_CATEGORY_MAP.
EslintCategory(rule) ==
    CASE rule = "complexity" -> "complexity"
      [] rule = "sonarjs/cognitive-complexity" -> "cognitive_complexity"
      [] rule \in {"max-lines", "max-lines-per-function"} -> "maintainability"
      [] rule \in {"no-unused-vars", "@typescript-eslint/no-unused-vars", "no-unreachable"} -> "unused_code"
      [] rule \in {"no-undef", "no-dupe-args", "no-dupe-keys", "no-duplicate-case", "no-const-assign",
                   "no-invalid-regexp", "no-obj-calls", "use-isnan", "valid-typeof"} -> "bug"
      [] OTHER -> "code_smell"

\* A syntax error has no rule; `value` is the number the message of some rules states.
EslintFinding(m) ==
    LET rule == IF m.rule = "none" THEN "parse-error" ELSE m.rule
    IN [Finding("eslint", rule, m.path, m.line, m.col, 0, IF m.level = 2 THEN "error" ELSE "warning",
                EslintCategory(rule)) EXCEPT !.value = m.value]

PylintFinding(m) ==
    Finding("pylint", m.rule, m.path, m.line, m.col, m.end,
            CASE m.type \in {"fatal", "error"} -> "error"
              [] m.type = "convention" -> "info"
              [] OTHER -> "warning",
            CASE m.type \in {"fatal", "error"} -> "bug"
              [] m.type = "convention" -> "style"
              [] OTHER -> "code_smell")

\* A file Bandit could not read is an entry of "errors", and no security finding.
BanditFinding(m) ==
    IF m.error THEN Unreadable("bandit", "bandit-parse-error", m.path)
    ELSE Finding("bandit", m.rule, m.path, m.line, m.col, 0,
                 CASE m.level = "HIGH" -> "error" [] m.level = "LOW" -> "info" [] OTHER -> "warning",
                 "vulnerability")

\* Radon measures everything; the service makes findings of what crosses its thresholds.
HighComplexity == 11
LowMaintainability == 65
TooComplex(m) == ~m.error /\ m.complexity >= HighComplexity
TooPoor(m) == ~m.error /\ m.index < LowMaintainability
ComplexityFinding(m) ==
    IF m.error THEN Unreadable("radon", "radon-cc", m.path)
    ELSE Finding("radon", "radon-cyclomatic-complexity", m.path, m.line, 0, m.end,
                 IF m.complexity >= 21 THEN "error" ELSE "warning", "complexity")
MaintainabilityFinding(m) ==
    IF m.error THEN Unreadable("radon", "radon-mi", m.path)
    ELSE Finding("radon", "radon-maintainability-index", m.path, 0, 0, 0,
                 IF m.index < 50 THEN "error" ELSE "warning", "maintainability")

Messages(p) == IF answer[p].out = "found" THEN Reports[p] ELSE <<>>
Mapped(Map(_), messages) == [i \in DOMAIN messages |-> Map(messages[i])]
\* The messages at some places of a report, in its order.
At(messages, places) ==
    [k \in 1..Cardinality(places) |->
        messages[CHOOSE i \in places : Cardinality({j \in places : j <= i}) = k]]
ComplexPlaces == {i \in DOMAIN Messages("cc") : Messages("cc")[i].error \/ TooComplex(Messages("cc")[i])}
PoorPlaces == {i \in DOMAIN Messages("mi") : Messages("mi")[i].error \/ TooPoor(Messages("mi")[i])}
ComplexityFindings == Mapped(ComplexityFinding, At(Messages("cc"), ComplexPlaces))
MaintainabilityFindings == Mapped(MaintainabilityFinding, At(Messages("mi"), PoorPlaces))

-----------------------------------------------------------------------------
(* What each tool makes of its answer: a status, or "raised".              *)

WithFindings(findings) == IF findings = <<>> THEN "success" ELSE "completed_with_findings"
UsageError(code) == (code \div 32) % 2 = 1

\* Bit 32 of the exit code counts only when nothing was written.
PylintStatus ==
    IF ~pythonFiles THEN "success"
    ELSE IF process["pylint"] = "killed" THEN "timeout"
    ELSE IF \/ process["pylint"] = "missing"
            \/ UsageError(answer["pylint"].code) /\ answer["pylint"].out = "empty"
            \/ answer["pylint"].out = "malformed" THEN "execution_error"
    ELSE IF answer["pylint"].out = "odd" THEN "raised"
    ELSE WithFindings(Messages("pylint"))

\* Only the exit codes 0 and 1 are a report.
BanditStatus ==
    IF ~pythonFiles THEN "success"
    ELSE IF process["bandit"] = "killed" THEN "timeout"
    ELSE IF \/ process["bandit"] = "missing"
            \/ answer["bandit"].code \notin {0, 1}
            \/ answer["bandit"].out = "malformed" THEN "execution_error"
    ELSE IF answer["bandit"].out = "odd" THEN "raised"
    ELSE WithFindings(Messages("bandit"))

\* _run_json_command: no exit code is looked at, and no output is an empty report.
RadonOutcome(c) ==
    IF process[c] = "killed" THEN "timeout"
    ELSE IF process[c] = "missing" \/ answer[c].out = "malformed" THEN "execution_error"
    ELSE IF answer[c].out = "odd" THEN "raised"
    ELSE "read"

\* The first of cc, mi and raw to fail decides, before any report is read; hal may
\* fail alone.
RadonStatus ==
    LET required == <<RadonOutcome("cc"), RadonOutcome("mi"), RadonOutcome("raw")>>
        failed == {i \in 1..3 : required[i] \in Failed}
    IN IF ~pythonFiles THEN "success"
       ELSE IF failed # {} THEN required[CHOOSE i \in failed : \A j \in failed : i <= j]
       ELSE IF \E c \in RadonCommands : RadonOutcome(c) = "raised" THEN "raised"
       ELSE WithFindings(ComplexityFindings \o MaintainabilityFindings)

\* EslintAnalyzer.analyze has no status: whatever is no report raises.
NoReport(a) == a.code \notin {0, 1} \/ a.out \in {"malformed", "odd"}

\* Mutation: an ESLint killed at its time limit counts as one with nothing to say.
EslintStatusTimeoutIsEmpty ==
    IF process["eslint"] = "missing" \/ NoReport(answer["eslint"]) THEN "raised" ELSE "returned"

EslintStatus ==
    IF process["eslint"] \in {"killed", "missing"} \/ NoReport(answer["eslint"]) THEN "raised"
    ELSE "returned"

-----------------------------------------------------------------------------
(* The analyzers.                                                          *)

EslintEnds ==
    /\ "eslint" \in selected /\ returned["eslint"] = "pending"
    /\ Ended("eslint")
    /\ returned' = [returned EXCEPT !["eslint"] = EslintStatus]
    /\ UNCHANGED <<selected, pythonFiles, process, answer, lastResult>>

ToolEnded(tool) ==
    \A p \in (IF tool = "radon" THEN RadonCommands ELSE {tool}) : p \in Used => Ended(p)
Status == [pylint |-> PylintStatus, radon |-> RadonStatus, bandit |-> BanditStatus]
Tools == {"pylint", "radon", "bandit"}

\* A tool's run carries its findings only when it read its report.
Read(t) == Status[t] \notin Failed /\ pythonFiles
PylintFindings == IF Read("pylint") THEN Mapped(PylintFinding, Messages("pylint")) ELSE <<>>
RadonFindings == IF Read("radon") THEN ComplexityFindings \o MaintainabilityFindings ELSE <<>>
BanditFindings == IF Read("bandit") THEN Mapped(BanditFinding, Messages("bandit")) ELSE <<>>

\* calculate_*_metrics: sums and extremes; the averages and densities are quotients of
\* them.  What Radon could not measure is left out.
Number(findings, Is(_)) == Cardinality({i \in DOMAIN findings : Is(findings[i])})
Total(measured, Of(_)) == FoldLeft(LAMBDA sum, m : sum + Of(m), 0, measured)
Values(measured, Of(_)) == {Of(measured[i]) : i \in DOMAIN measured}
Measured(command) ==
    IF Read("radon") THEN SelectSeq(Messages(command), LAMBDA m : ~m.error) ELSE <<>>

PythonLoc == [loc |-> Total(Measured("raw"), LAMBDA m : m.loc)]
PylintMetrics ==
    LET messages == IF Read("pylint") THEN Messages("pylint") ELSE <<>>
    IN [pylint      |-> Len(messages),
        errors      |-> Number(messages, LAMBDA m : m.type = "error"),
        conventions |-> Number(messages, LAMBDA m : m.type = "convention")]
ComplexityMetrics ==
    [complexity |-> Total(Measured("cc"), LAMBDA m : m.complexity),
     highest    |-> Max({0} \cup Values(Measured("cc"), LAMBDA m : m.complexity)),
     complex    |-> Number(Measured("cc"), TooComplex)]
MaintainabilityMetrics ==
    [lowest |-> IF Measured("mi") = <<>> THEN 0 ELSE Min(Values(Measured("mi"), LAMBDA m : m.index)),
     poor   |-> Number(Measured("mi"), TooPoor)]
HalsteadMetrics == [volume |-> Total(Measured("hal"), LAMBDA m : m.volume)]
\* A file Bandit could not read is no security issue.
BanditMetrics ==
    LET security == SelectSeq(BanditFindings, LAMBDA f : f.category = "vulnerability")
    IN [bandit |-> Len(security), high |-> Number(security, LAMBDA f : f.severity = "error")]
PythonMetrics ==
    PythonLoc @@ PylintMetrics @@ ComplexityMetrics @@ MaintainabilityMetrics @@ HalsteadMetrics
    @@ BanditMetrics

AllFailed == \A t \in Tools : Status[t] \in Failed

\* The gather of the three has all results.  last_result is set before the analyzer
\* raises because every tool failed.
PythonEnds ==
    /\ "python" \in selected /\ returned["python"] = "pending"
    /\ \A t \in Tools : ToolEnded(t) /\ Status[t] # "raised"
    /\ lastResult' = [pylint |-> PylintStatus, radon |-> RadonStatus, bandit |-> BanditStatus,
                      metrics |-> PythonMetrics]
    /\ returned' = [returned EXCEPT !["python"] =
                        IF AllFailed /\ pythonFiles THEN "raised" ELSE "returned"]
    /\ UNCHANGED <<selected, pythonFiles, process, answer>>

\* A tool's adapter raises: the gather raises at once, and the other tools go on with
\* nobody waiting for them.
PythonRaises ==
    /\ "python" \in selected /\ returned["python"] = "pending"
    /\ \E t \in Tools : ToolEnded(t) /\ Status[t] = "raised"
    /\ returned' = [returned EXCEPT !["python"] = "raised"]
    /\ UNCHANGED <<selected, pythonFiles, process, answer, lastResult>>

\* What an analyzer that returned has returned.
FindingsOf(a) ==
    IF returned[a] # "returned" THEN <<>>
    ELSE IF a = "eslint" THEN Mapped(EslintFinding, Messages("eslint"))
    ELSE PylintFindings \o RadonFindings \o BanditFindings

ToolsDone == \A a \in selected : returned[a] # "pending"
ProcessStep(p) == Missing(p) \/ Exit(p) \/ TimeOut(p)
AnalyzerStep == EslintEnds \/ PythonEnds \/ PythonRaises

-----------------------------------------------------------------------------
Places == {"unused", "running", "exited", "killed", "missing"}
ToolsTypeOK ==
    /\ selected \subseteq AnalyzerNames
    /\ pythonFiles \in BOOLEAN
    /\ process \in [Processes -> Places]
    /\ answer \in [Processes -> Answer]
    /\ returned \in [AnalyzerNames -> {"pending", "returned", "raised"}]
    /\ DOMAIN lastResult = Tools \cup {"metrics"}
    /\ \A t \in Tools : lastResult[t] \in RunStatuses \cup {"none"}
=============================================================================
