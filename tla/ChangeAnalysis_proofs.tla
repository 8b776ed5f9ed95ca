------------------------ MODULE ChangeAnalysis_proofs ------------------------
(***************************************************************************)
(* The linter stage for any checkout, history and answers of the tools:    *)
(* what the end of a job says of the processes it started, what a merge    *)
(* base, or the lack of one, was found among, and that the result holds    *)
(* every finding of every tool that reported once, and counts them.        *)
(*                                                                         *)
(* What a tool's status says of its processes is first put in terms that   *)
(* leave its findings out (StatusMeaning), because SelectSeq and the folds *)
(* cannot be expanded by the provers.                                      *)
(***************************************************************************)
EXTENDS ChangeAnalysis, FiniteSetTheorems, FunctionTheorems, TLAPS

PylintFails ==
    pythonFiles /\ \/ process["pylint"] \in {"killed", "missing"}
                   \/ UsageError(answer["pylint"].code) /\ answer["pylint"].out = "empty"
                   \/ answer["pylint"].out = "malformed"
PylintRaises == pythonFiles /\ ~PylintFails /\ answer["pylint"].out = "odd"
BanditFails ==
    pythonFiles /\ \/ process["bandit"] \in {"killed", "missing"}
                   \/ answer["bandit"].code \notin {0, 1}
                   \/ answer["bandit"].out = "malformed"
BanditRaises == pythonFiles /\ ~BanditFails /\ answer["bandit"].out = "odd"
CommandFails(c) == process[c] \in {"killed", "missing"} \/ answer[c].out = "malformed"
CommandRaises(c) == ~CommandFails(c) /\ answer[c].out = "odd"
RadonFails == pythonFiles /\ \E c \in {"cc", "mi", "raw"} : CommandFails(c)
RadonRaises == pythonFiles /\ ~RadonFails /\ \E c \in RadonCommands : CommandRaises(c)
Fails(t) == \/ t = "pylint" /\ PylintFails
            \/ t = "radon" /\ RadonFails
            \/ t = "bandit" /\ BanditFails
Raises(t) == \/ t = "pylint" /\ PylintRaises
             \/ t = "radon" /\ RadonRaises
             \/ t = "bandit" /\ BanditRaises

LEMMA OutcomeMeaning ==
  ASSUME NEW c
  PROVE  /\ RadonOutcome(c) \in Failed <=> CommandFails(c)
         /\ RadonOutcome(c) = "raised" <=> CommandRaises(c)
  BY DEF RadonOutcome, Failed, CommandFails, CommandRaises

LEMMA PylintMeaning ==
  (PylintStatus \in Failed <=> PylintFails) /\ (PylintStatus = "raised" <=> PylintRaises)
  BY DEF PylintStatus, PylintFails, PylintRaises, Failed, WithFindings

LEMMA BanditMeaning ==
  (BanditStatus \in Failed <=> BanditFails) /\ (BanditStatus = "raised" <=> BanditRaises)
  BY DEF BanditStatus, BanditFails, BanditRaises, Failed, WithFindings

LEMMA RadonMeaning ==
  (RadonStatus \in Failed <=> RadonFails) /\ (RadonStatus = "raised" <=> RadonRaises)
  <1> DEFINE required == <<RadonOutcome("cc"), RadonOutcome("mi"), RadonOutcome("raw")>>
             failed == {i \in 1..3 : required[i] \in Failed}
             first == CHOOSE i \in failed : \A j \in failed : i <= j
             reported == WithFindings(ComplexityFindings \o MaintainabilityFindings)
  <1>1. failed # {} <=> \E c \in {"cc", "mi", "raw"} : CommandFails(c)
    <2>1. (1 \in failed <=> CommandFails("cc")) /\ (2 \in failed <=> CommandFails("mi"))
          /\ (3 \in failed <=> CommandFails("raw"))
      BY OutcomeMeaning
    <2>2. failed \subseteq {1, 2, 3}
      OBVIOUS
    <2> HIDE DEF failed
    <2> QED BY <2>1, <2>2
  <1>2. failed # {} => required[first] \in Failed
    <2>1. failed # {} => \E i \in failed : \A j \in failed : i <= j
      <3>1. \A i \in failed : i = 1 \/ i = 2 \/ i = 3
        OBVIOUS
      <3> HIDE DEF failed
      <3>2. CASE 1 \in failed
        BY <3>1, <3>2
      <3>3. CASE 1 \notin failed /\ 2 \in failed
        BY <3>1, <3>3
      <3>4. CASE failed # {} /\ 1 \notin failed /\ 2 \notin failed
        BY <3>1, <3>4
      <3> QED BY <3>2, <3>3, <3>4
    <2>2. failed # {} => first \in failed
      BY <2>1
    <2> QED BY <2>2
  <1>3. reported \notin Failed \cup {"raised"}
    BY DEF WithFindings, Failed
  <1>4. RadonStatus = IF ~pythonFiles THEN "success"
                      ELSE IF failed # {} THEN required[first]
                      ELSE IF \E c \in RadonCommands : RadonOutcome(c) = "raised" THEN "raised"
                      ELSE reported
    BY DEF RadonStatus
  <1>5. (\E c \in RadonCommands : RadonOutcome(c) = "raised")
          <=> \E c \in RadonCommands : CommandRaises(c)
    BY OutcomeMeaning
  <1> HIDE DEF required, failed, first, reported
  <1> DEFINE some == \E c \in RadonCommands : RadonOutcome(c) = "raised"
  <1>6. CASE ~pythonFiles
    <2>1. RadonStatus = "success"
      BY <1>4, <1>6
    <2> QED BY <2>1, <1>6 DEF RadonFails, RadonRaises, Failed
  <1>7. CASE pythonFiles /\ failed # {}
    <2>1. RadonStatus = required[first]
      BY <1>4, <1>7
    <2> QED BY <2>1, <1>1, <1>2, <1>7 DEF RadonFails, RadonRaises, Failed
  <1>8. CASE pythonFiles /\ failed = {} /\ some
    <2>1. RadonStatus = "raised"
      BY <1>4, <1>8
    <2> QED BY <2>1, <1>1, <1>5, <1>8 DEF RadonFails, RadonRaises, Failed
  <1>9. CASE pythonFiles /\ failed = {} /\ ~some
    <2>1. RadonStatus = reported
      BY <1>4, <1>9
    <2> QED BY <2>1, <1>1, <1>3, <1>5, <1>9 DEF RadonFails, RadonRaises
  <1> QED BY <1>6, <1>7, <1>8, <1>9

LEMMA StatusMeaning ==
  \A t \in Tools : (Status[t] \in Failed <=> Fails(t)) /\ (Status[t] = "raised" <=> Raises(t))
  BY PylintMeaning, BanditMeaning, RadonMeaning DEF Tools, Status, Fails, Raises

LEMMA AllFailedMeaning ==
  ASSUME \A t \in Tools : Fails(t)
  PROVE  ~Reported("pylint") /\ ~Reported("bandit") /\ ~RadonRead
  <1>1. PylintFails /\ BanditFails /\ RadonFails
    BY DEF Tools, Fails
  <1>2. ~RadonRead
    BY <1>1, OutcomeMeaning DEF RadonFails, RadonRead, RadonCommands, Failed
  <1> QED BY <1>1, <1>2 DEF PylintFails, BanditFails, Reported

-----------------------------------------------------------------------------
(* The invariant, in these terms.                                          *)

EndedAs ==
    /\ \A p \in Processes : process[p] = "unused" <=> ~Uses(p, selected, pythonFiles)
    /\ returned["eslint"] # "pending" => Ended("eslint") /\ returned["eslint"] = EslintStatus
    /\ returned["python"] = "returned" =>
          /\ \A t \in Tools : ToolEnded(t) /\ ~Raises(t)
          /\ \E t \in Tools : ~(pythonFiles /\ Fails(t))
    /\ returned["python"] = "raised" =>
          \/ \E t \in Tools : ToolEnded(t) /\ Raises(t)
          \/ pythonFiles /\ \A t \in Tools : ToolEnded(t) /\ Fails(t)
    /\ \A a \in AnalyzerNames : returned[a] # "pending" => a \in selected

LEMMA EndedAsMeaning == AnalyzersEnded <=> EndedAs
  <1>1. \A t \in Tools : Status[t] = "raised" <=> Raises(t)
    BY StatusMeaning
  <1>2. AllFailed <=> \A t \in Tools : Fails(t)
    BY StatusMeaning DEF AllFailed
  <1>3. AdapterRaised <=> \E t \in Tools : ToolEnded(t) /\ Raises(t)
    BY <1>1, Zenon DEF AdapterRaised
  <1>4. (/\ \A t \in Tools : ToolEnded(t) /\ Status[t] # "raised"
         /\ ~(AllFailed /\ pythonFiles))
        <=> (/\ \A t \in Tools : ToolEnded(t) /\ ~Raises(t)
             /\ \E t \in Tools : ~(pythonFiles /\ Fails(t)))
    BY <1>1, <1>2, Zenon DEF Tools
  <1>5. (\/ AdapterRaised
         \/ pythonFiles /\ AllFailed /\ \A t \in Tools : ToolEnded(t))
        <=> (\/ \E t \in Tools : ToolEnded(t) /\ Raises(t)
             \/ pythonFiles /\ \A t \in Tools : ToolEnded(t) /\ Fails(t))
    <2>1. (AllFailed /\ \A t \in Tools : ToolEnded(t)) <=> \A t \in Tools : ToolEnded(t) /\ Fails(t)
      BY <1>2, Zenon
    <2>2. CASE pythonFiles
      BY <1>3, <2>1, <2>2, Zenon
    <2>3. CASE ~pythonFiles
      BY <1>3, <2>3, Zenon
    <2> QED BY <2>2, <2>3
  <1>6. ASSUME AnalyzersEnded PROVE EndedAs
    <2> USE DEF AnalyzersEnded
    <2>1. returned["python"] = "returned" =>
            (/\ \A t \in Tools : ToolEnded(t) /\ ~Raises(t)
             /\ \E t \in Tools : ~(pythonFiles /\ Fails(t)))
      BY <1>4, <1>6, Zenon
    <2>2. returned["python"] = "raised" =>
            (\/ \E t \in Tools : ToolEnded(t) /\ Raises(t)
             \/ pythonFiles /\ \A t \in Tools : ToolEnded(t) /\ Fails(t))
      BY <1>5, <1>6, Zenon
    <2> QED BY <1>6, <2>1, <2>2, Zenon DEF EndedAs
  <1>7. ASSUME EndedAs PROVE AnalyzersEnded
    <2> USE DEF EndedAs
    <2>1. returned["python"] = "returned" =>
            (/\ \A t \in Tools : ToolEnded(t) /\ Status[t] # "raised"
             /\ ~(AllFailed /\ pythonFiles))
      BY <1>4, <1>7, Zenon
    <2>2. returned["python"] = "raised" =>
            (\/ AdapterRaised
             \/ pythonFiles /\ AllFailed /\ \A t \in Tools : ToolEnded(t))
      BY <1>5, <1>7, Zenon
    <2> QED BY <1>7, <2>1, <2>2, Zenon DEF AnalyzersEnded
  <1> QED BY <1>6, <1>7

LEMMA EndedAsMeaningNext == (AnalyzersEnded <=> EndedAs)'
  BY EndedAsMeaning, PTL

LEMMA StatusMeaningNext ==
  (\A t \in Tools : (Status[t] \in Failed <=> Fails(t)) /\ (Status[t] = "raised" <=> Raises(t)))'
  BY StatusMeaning, PTL

LEMMA InitStage == Init => StageInv
  <1> SUFFICES ASSUME Init PROVE StageInv
    OBVIOUS
  <1>1. PICK analyzers \in SUBSET AnalyzerNames, pyfiles \in BOOLEAN : ToolsInit(analyzers, pyfiles)
    <2>1. PICK s \in Scenarios :
            ToolsInit(CreateForLanguages(DetectLanguages(s.checkout.files)),
                      DiscoverPythonFiles(s.checkout.files) # {})
      BY DEF Init
    <2>2. CreateForLanguages(DetectLanguages(s.checkout.files)) \in SUBSET AnalyzerNames
      BY DEF CreateForLanguages
    <2> QED BY <2>1, <2>2
  <1>2. ToolsTypeOK
    BY <1>1 DEF ToolsInit, ToolsTypeOK, Places, Unanswered, Answer, Outputs, NoLastResult, Tools
  <1>3. EndedAs
    BY <1>1 DEF ToolsInit, EndedAs, AnalyzerNames
  <1>4. ResultOfAll
    BY DEF Init, ResultOfAll
  <1> QED BY <1>2, <1>3, <1>4, EndedAsMeaning DEF StageInv

\* A tool whose processes have ended is not touched by a process that is still running.
LEMMA ProcessEnds ==
  ASSUME StageInv, NEW p \in Processes, process[p] = "running",
         process' \in [Processes -> Places], process'[p] # "running", process'[p] # "unused",
         \A q \in Processes \ {p} : process'[q] = process[q] /\ answer'[q] = answer[q],
         UNCHANGED <<selected, pythonFiles, returned>>
  PROVE  EndedAs'
  <1> EndedAs
    BY EndedAsMeaning DEF StageInv
  <1> DEFINE Of(t) == IF t = "radon" THEN RadonCommands ELSE {t}
  <1>1. p \in Used
    BY DEF EndedAs, Used
  <1>2. Used' = Used
    BY DEF Used, Uses
  <1>3. ASSUME NEW t \in Tools, ToolEnded(t)
        PROVE  \A q \in Of(t) : q \in Processes \ {p}
    BY <1>1, <1>3 DEF ToolEnded, Ended, Tools, Processes, PythonProcesses, RadonCommands
  <1>4. ASSUME NEW t \in Tools, ToolEnded(t)
        PROVE  ToolEnded(t)' /\ (Fails(t)' <=> Fails(t)) /\ (Raises(t)' <=> Raises(t))
    <2>1. \A q \in Of(t) : process'[q] = process[q] /\ answer'[q] = answer[q]
      BY <1>3, <1>4
    <2>2. ToolEnded(t)'
      BY <1>2, <1>4, <2>1 DEF ToolEnded, Ended
    <2>3. CASE t = "pylint"
      BY <2>1, <2>2, <2>3 DEF Fails, Raises, PylintFails, PylintRaises
    <2>4. CASE t = "bandit"
      BY <2>1, <2>2, <2>4 DEF Fails, Raises, BanditFails, BanditRaises
    <2>5. CASE t = "radon"
      <3>1. \A c \in RadonCommands : (CommandFails(c)' <=> CommandFails(c))
                                     /\ (CommandRaises(c)' <=> CommandRaises(c))
        BY <2>1, <2>5 DEF CommandFails, CommandRaises
      <3> QED BY <2>2, <2>5, <3>1 DEF Fails, Raises, RadonFails, RadonRaises, RadonCommands
    <2> QED BY <2>3, <2>4, <2>5 DEF Tools
  <1>5. \A q \in Processes : process'[q] = "unused" <=> ~Uses(q, selected, pythonFiles)'
    BY DEF EndedAs, Uses
  <1>6. returned'["eslint"] # "pending" => Ended("eslint")' /\ returned'["eslint"] = EslintStatus'
    <2>1. Ended("eslint") => "eslint" \in Processes \ {p}
      BY DEF Ended, Processes
    <2> QED BY <2>1 DEF EndedAs, Ended, EslintStatus, NoReport
  <1>7. returned'["python"] = "returned" =>
          /\ \A t \in Tools : ToolEnded(t)' /\ ~Raises(t)'
          /\ \E t \in Tools : ~(pythonFiles' /\ Fails(t)')
    BY <1>4 DEF EndedAs
  <1>8. returned'["python"] = "raised" =>
          \/ \E t \in Tools : ToolEnded(t)' /\ Raises(t)'
          \/ pythonFiles' /\ \A t \in Tools : ToolEnded(t)' /\ Fails(t)'
    BY <1>4 DEF EndedAs
  <1> QED BY <1>5, <1>6, <1>7, <1>8 DEF EndedAs

LEMMA ProcessKeepsStage ==
  ASSUME StageInv, NEW p \in Processes, ProcessStep(p), UNCHANGED result
  PROVE  StageInv'
  <1> USE AnalyzersAssumption DEF StageInv
  <1>1. /\ process[p] = "running" /\ process' \in [Processes -> Places]
        /\ process'[p] # "running" /\ process'[p] # "unused"
        /\ \A q \in Processes \ {p} : process'[q] = process[q] /\ answer'[q] = answer[q]
        /\ UNCHANGED <<selected, pythonFiles, returned, lastResult>>
    BY DEF ProcessStep, Missing, Exit, TimeOut, ToolsTypeOK, Places
  <1>2. answer' \in [Processes -> Answer]
    <2>1. CASE Missing(p) \/ TimeOut(p)
      BY <2>1 DEF Missing, TimeOut, ToolsTypeOK
    <2>2. CASE Exit(p)
      <3>1. PICK a \in Answers[p] : answer' = [answer EXCEPT ![p] = a]
        BY <2>2 DEF Exit
      <3>2. a \in Answer
        OBVIOUS
      <3> QED BY <3>1, <3>2 DEF ToolsTypeOK
    <2> QED BY <2>1, <2>2 DEF ProcessStep
  <1>3. ToolsTypeOK'
    BY <1>1, <1>2 DEF ToolsTypeOK
  <1>4. AnalyzersEnded'
    BY <1>1, ProcessEnds, EndedAsMeaningNext
  <1>5. ResultOfAll'
    BY <1>1 DEF ResultOfAll, ToolsDone, Failure
  <1> QED BY <1>3, <1>4, <1>5

\* An analyzer ends only once, when its processes have told what it will say; and it
\* cannot end after the result.
LEMMA AnalyzerKeepsStage ==
  ASSUME StageInv, AnalyzerStep, UNCHANGED result
  PROVE  StageInv'
  <1> USE DEF StageInv
  <1> EndedAs
    BY EndedAsMeaning
  <1>1. UNCHANGED <<selected, pythonFiles, process, answer>>
    BY DEF AnalyzerStep, EslintEnds, PythonEnds, PythonRaises
  <1>2. PICK a \in AnalyzerNames : /\ a \in selected /\ returned[a] = "pending"
                                   /\ returned' \in [AnalyzerNames -> {"pending", "returned", "raised"}]
                                   /\ \A b \in AnalyzerNames \ {a} : returned'[b] = returned[b]
    <2>1. CASE EslintEnds
      BY <2>1 DEF EslintEnds, ToolsTypeOK, EslintStatus, NoReport, AnalyzerNames
    <2>2. CASE PythonEnds \/ PythonRaises
      BY <2>2 DEF PythonEnds, PythonRaises, ToolsTypeOK, AnalyzerNames
    <2> QED BY <2>1, <2>2 DEF AnalyzerStep
  <1>3. ResultOfAll'
    BY <1>2 DEF ResultOfAll, ToolsDone
  <1>4. DOMAIN lastResult' = Tools \cup {"metrics"}
        /\ \A t \in Tools : lastResult'[t] \in RunStatuses \cup {"none"}
    <2>1. CASE EslintEnds \/ PythonRaises
      BY <2>1 DEF EslintEnds, PythonRaises, ToolsTypeOK
    <2>2. CASE PythonEnds
      <3>2. DOMAIN lastResult' = Tools \cup {"metrics"} /\ \A t \in Tools : lastResult'[t] = Status[t]
        BY <2>2 DEF PythonEnds, Status, Tools
      <3>3. \A t \in Tools : Status[t] # "raised"
        BY <2>2 DEF PythonEnds
      <3>4. PylintStatus \in RunStatuses \cup {"raised"} /\ BanditStatus \in RunStatuses \cup {"raised"}
        BY DEF PylintStatus, BanditStatus, RunStatuses, Failed, WithFindings
      <3>5. RadonStatus \in RunStatuses \cup {"raised"}
        BY RadonMeaning DEF RadonStatus, RadonFails, RunStatuses, Failed, WithFindings
      <3>6. \A t \in Tools : Status[t] \in RunStatuses \cup {"raised"}
        BY <3>4, <3>5 DEF Status, Tools
      <3> QED BY <3>2, <3>3, <3>6
    <2> QED BY <2>1, <2>2 DEF AnalyzerStep
  <1>5. ToolsTypeOK'
    BY <1>1, <1>2, <1>4 DEF ToolsTypeOK
  <1>6. /\ \A t \in Tools : /\ ToolEnded(t)' <=> ToolEnded(t)
                            /\ Raises(t)' <=> Raises(t)
                            /\ Fails(t)' <=> Fails(t)
        /\ Ended("eslint")' <=> Ended("eslint")
        /\ EslintStatus' = EslintStatus
    BY <1>1 DEF ToolEnded, Used, Uses, Ended, EslintStatus, NoReport, Fails, Raises, PylintFails, PylintRaises, BanditFails,
       BanditRaises, RadonFails, RadonRaises, CommandFails, CommandRaises
  <1>7. EndedAs'
    <2>1. CASE EslintEnds
      <3>1. /\ returned'["eslint"] = EslintStatus /\ Ended("eslint") /\ "eslint" \in selected
            /\ returned'["python"] = returned["python"]
        BY <2>1 DEF EslintEnds, ToolsTypeOK, AnalyzerNames
      <3> QED BY <1>1, <1>6, <3>1 DEF EndedAs, Uses, AnalyzerNames
    <2>2. CASE PythonEnds
      <3>1. /\ returned'["python"] = IF AllFailed /\ pythonFiles THEN "raised" ELSE "returned"
            /\ "python" \in selected
            /\ returned'["eslint"] = returned["eslint"]
        BY <2>2 DEF PythonEnds, ToolsTypeOK, AnalyzerNames
      <3>2. \A t \in Tools : ToolEnded(t) /\ ~Raises(t)
        BY <2>2, StatusMeaning DEF PythonEnds
      <3>3. AllFailed <=> \A t \in Tools : Fails(t)
        BY StatusMeaning DEF AllFailed
      <3>4. /\ \A t \in Tools : ToolEnded(t)' /\ ~Raises(t)'
            /\ AllFailed <=> \A t \in Tools : Fails(t)'
        BY <1>6, <3>2, <3>3
      <3>5. CASE AllFailed /\ pythonFiles
        BY <1>1, <1>6, <3>1, <3>4, <3>5 DEF EndedAs, Uses, AnalyzerNames
      <3>6. CASE ~(AllFailed /\ pythonFiles)
        <4>1. \E t \in Tools : ~(pythonFiles' /\ Fails(t)')
          BY <1>1, <3>4, <3>6 DEF Tools
        <4> QED BY <1>1, <1>6, <3>1, <3>4, <3>6, <4>1 DEF EndedAs, Uses, AnalyzerNames
      <3> QED BY <3>5, <3>6
    <2>3. CASE PythonRaises
      <3>1. /\ returned'["python"] = "raised" /\ "python" \in selected
            /\ \E t \in Tools : ToolEnded(t) /\ Raises(t)
            /\ returned'["eslint"] = returned["eslint"]
        BY <2>3, StatusMeaning DEF PythonRaises, ToolsTypeOK, AnalyzerNames
      <3> QED BY <1>1, <1>6, <3>1 DEF EndedAs, Uses, AnalyzerNames
    <2> QED BY <2>1, <2>2, <2>3 DEF AnalyzerStep
  <1> QED BY <1>3, <1>5, <1>7, EndedAsMeaningNext

\* Whatever leaves the tools alone.
LEMMA OthersKeepStage ==
  ASSUME StageInv, UNCHANGED toolVars, ResultOfAll'
  PROVE  StageInv'
  <1> USE DEF StageInv, toolVars
  <1>1. EndedAs
    BY EndedAsMeaning
  <1>2. EndedAs'
    BY <1>1 DEF EndedAs, Uses, Used, ToolEnded, Ended, EslintStatus, NoReport, Fails, Raises, PylintFails, PylintRaises,
       BanditFails, BanditRaises, RadonFails, RadonRaises, CommandFails, CommandRaises
  <1>3. ToolsTypeOK'
    BY DEF ToolsTypeOK
  <1> QED BY <1>2, <1>3, EndedAsMeaningNext

LEMMA NextStage == StageInv /\ [Next]_vars => StageInv'
  <1> SUFFICES ASSUME StageInv, [Next]_vars PROVE StageInv'
    OBVIOUS
  <1>1. CASE UNCHANGED <<toolVars, result>>
    BY <1>1, OthersKeepStage DEF StageInv, ResultOfAll, ToolsDone, Failure, toolVars
  <1>2. CASE AnalyzerStep /\ UNCHANGED result
    BY <1>2, AnalyzerKeepsStage
  <1>3. CASE (\E p \in Processes : ProcessStep(p)) /\ UNCHANGED result
    BY <1>3, ProcessKeepsStage
  <1>4. CASE BuildResult
    <2>1. /\ ToolsDone /\ UNCHANGED toolVars
          /\ result'.status = IF Failure THEN "failed" ELSE "completed"
      BY <1>4 DEF BuildResult
    <2>2. ResultOfAll'
      BY <2>1 DEF ResultOfAll, ToolsDone, Failure, toolVars
    <2> QED BY <2>1, <2>2, OthersKeepStage
  <1> QED BY <1>1, <1>2, <1>3, <1>4 DEF Next, Index, vars

-----------------------------------------------------------------------------
\* What has ended stays as it was: the result, the analyzers and the processes agree in
\* every order in which the linters end, for any checkout and any answers.
THEOREM StageInvariant == Spec => []StageInv
  BY InitStage, NextStage, PTL DEF Spec

\* No tool is in a place run_process does not have, and the Python analyzer's
\* last_result, once it is there, names one status of each tool.
THEOREM ToolsTypeCorrect == Spec => []ToolsTypeOK
  <1>1. StageInv => ToolsTypeOK
    BY DEF StageInv
  <1> QED BY <1>1, StageInvariant, PTL

\* No linter is still running when the result is built, unless an adapter raised and
\* python_analyzer.py:92 let go of its siblings.
THEOREM NoProcessOutlivesResult == Spec => [](result # NoAnalysis => NothingOutlives)
  <1>1. StageInv => (result # NoAnalysis => NothingOutlives)
    <2> SUFFICES ASSUME StageInv, result # NoAnalysis, NEW p \in Processes, process[p] = "running"
                 PROVE  AdapterRaised
      BY DEF NothingOutlives
    <2> USE DEF StageInv
    <2>1. ToolsDone /\ Uses(p, selected, pythonFiles)
      BY DEF ResultOfAll, AnalyzersEnded
    <2>2. p # "eslint"
      BY <2>1 DEF ToolsDone, AnalyzersEnded, Ended, Uses, PythonProcesses, RadonCommands
    <2>3. p \in PythonProcesses /\ "python" \in selected /\ p \in Used
      BY <2>1, <2>2 DEF Uses, Used
    <2>4. returned["python"] \in {"returned", "raised"}
      BY <2>1, <2>3 DEF ToolsDone, ToolsTypeOK, AnalyzerNames
    <2>5. ~\A t \in Tools : ToolEnded(t)
      BY <2>3 DEF Tools, ToolEnded, Ended, PythonProcesses
    <2> QED BY <2>4, <2>5 DEF AnalyzersEnded
  <1> QED BY <1>1, StageInvariant, PTL

\* NothingFrom says of a tool's processes what Fails says of its status.
LEMMA NothingMeaning ==
  /\ "eslint" \in Used /\ Ended("eslint") => (NothingFrom("eslint") <=> EslintStatus = "raised")
  /\ (pythonFiles /\ \A t \in Tools : NothingFrom(t)) <=> (pythonFiles /\ \A t \in Tools : Fails(t))
  BY DEF NothingFrom, Silent, EslintStatus, NoReport, Tools, Fails, PylintFails, BanditFails, RadonFails,
     CommandFails

\* A job has failed exactly when something was selected and every selected analyzer gave
\* nothing, whatever ended after it had given up: ESLint no report that can be read,
\* Python an adapter that raised or nothing from all three tools (_build_result's
\* all_failed, PythonAnalyzer.analyze).  And then no tool's report is left out.
THEOREM OutcomeIsJustified == Spec => [](result # NoAnalysis => OutcomeJustified)
  <1>1. StageInv => (result # NoAnalysis => OutcomeJustified)
    <2> SUFFICES ASSUME StageInv, result # NoAnalysis PROVE OutcomeJustified
      OBVIOUS
    <2> USE DEF StageInv
    <2>a. EndedAs
      BY EndedAsMeaning
    <2>1. ToolsDone /\ (result.status = "failed" <=> Failure)
      BY DEF ResultOfAll
    <2>2. ASSUME NEW a \in selected PROVE GaveNothing(a) <=> returned[a] = "raised"
      <3>1. a \in AnalyzerNames /\ returned[a] \in {"returned", "raised"}
        BY <2>1 DEF ToolsDone, ToolsTypeOK
      <3>2. CASE a = "eslint"
        <4>1. "eslint" \in Used /\ Ended("eslint") /\ returned["eslint"] = EslintStatus
          BY <3>1, <3>2, <2>a DEF EndedAs, Used, Uses, Processes
        <4> QED BY <3>2, <4>1, NothingMeaning DEF GaveNothing
      <3>3. CASE a = "python"
        <4>1. AdapterRaised <=> \E t \in Tools : ToolEnded(t) /\ Raises(t)
          BY StatusMeaning, Zenon DEF AdapterRaised
        <4>2. CASE returned["python"] = "returned"
          <5>1. ~AdapterRaised /\ ~(pythonFiles /\ \A t \in Tools : Fails(t))
            BY <2>a, <4>1, <4>2 DEF EndedAs
          <5> QED BY <3>3, <4>2, <5>1, NothingMeaning DEF GaveNothing
        <4>3. CASE returned["python"] = "raised"
          <5>1. AdapterRaised \/ (pythonFiles /\ \A t \in Tools : Fails(t))
            BY <2>a, <4>1, <4>3 DEF EndedAs
          <5> QED BY <3>3, <4>3, <5>1, NothingMeaning DEF GaveNothing
        <4> QED BY <3>1, <3>3, <4>2, <4>3
      <3> QED BY <3>1, <3>2, <3>3 DEF AnalyzerNames
    <2>3. ASSUME Failure PROVE Owed = {}
      <3>1. ~Reported("eslint")
        <4>1. CASE "eslint" \in selected
          BY <4>1, <2>3, <2>a DEF Failure, EndedAs, EslintStatus, NoReport, Reported
        <4>2. CASE "eslint" \notin selected
          BY <4>2, <2>a DEF EndedAs, Uses, Reported, Processes, PythonProcesses, RadonCommands
        <4> QED BY <4>1, <4>2
      <3>2. AdapterRaised \/ (~Reported("pylint") /\ ~Reported("bandit") /\ ~RadonRead)
        <4>1. CASE "python" \notin selected
          BY <4>1, <2>a DEF EndedAs, Uses, Reported, RadonRead, Processes, PythonProcesses, RadonCommands
        <4>2. CASE "python" \in selected
          <5>1. returned["python"] = "raised"
            BY <4>2, <2>3 DEF Failure
          <5>2. AdapterRaised \/ \A t \in Tools : Fails(t)
            BY <5>1, <2>a, StatusMeaning DEF EndedAs, AdapterRaised
          <5> QED BY <5>2, AllFailedMeaning
        <4> QED BY <4>1, <4>2
      <3> QED BY <3>1, <3>2 DEF Owed
    <2>4. Failure <=> selected # {} /\ \A a \in selected : GaveNothing(a)
      BY <2>2 DEF Failure
    <2> QED BY <2>1, <2>3, <2>4 DEF OutcomeJustified
  <1> QED BY <1>1, StageInvariant, PTL

-----------------------------------------------------------------------------
(* The merge base.                                                         *)

LEMMA InitDiff == Init => DiffInv
  <1> SUFFICES ASSUME Init PROVE DiffInv
    OBVIOUS
  <1> USE DiffAssumption
  <1>1. PICK graph, requested : DiffInit(graph, requested)
    BY DEF Init
  <1>2. changes = NoChanges /\ base = NoCommit /\ attempt = 1 /\ diffPc = "start"
    BY <1>1 DEF DiffInit
  <1>3. changes.reason = "none"
        /\ DOMAIN changes = {"status", "reason", "files", "excluded", "symbols"}
    BY <1>2 DEF NoChanges, Unavailable
  <1> QED BY <1>2, <1>3 DEF DiffInv, DiffPlaces, Fetched, BaseAmongFetched, NoBaseAmongAll

\* Ending with a reason of the extraction's own.
LEMMA EndTypes ==
  ASSUME NEW reason, EndWith(Unavailable(reason))
  PROVE  /\ diffPc' = "ended" /\ changes'.reason = reason
         /\ DOMAIN changes' = {"status", "reason", "files", "excluded", "symbols"}
  BY DEF EndWith, Unavailable

LEMMA ChangesTypes ==
  ASSUME NEW listed, NEW patch
  PROVE  /\ ChangesOf(listed, patch).reason \in {"none", "too_large"}
         /\ ChangesOf(listed, patch).status = "available" => ChangesOf(listed, patch).reason = "none"
         /\ DOMAIN ChangesOf(listed, patch) = {"status", "reason", "files", "excluded", "symbols"}
  BY DEF ChangesOf

\* A step that fetches nothing, finds no base and does not conclude that there is none.
LEMMA DiffFrame ==
  ASSUME DiffInv, UNCHANGED <<history, cut, attempt, base>>,
         \/ diffPc' \in DiffPlaces \ {"start", "fetch_target", "fetch_head", "merge_base"}
         \/ diffPc = "start" /\ diffPc' = "fetch_target",
         diffPc' # "ended" => changes'.reason = "none",
         changes'.reason # "no_merge_base" \/ changes'.reason = changes.reason,
         DOMAIN changes' = {"status", "reason", "files", "excluded", "symbols"}
  PROVE  DiffInv'
  <1> USE DEF DiffInv
  <1>1. Fetched'
    BY DEF Fetched, Deepened
  <1>2. BaseAmongFetched'
    BY DEF BaseAmongFetched, Best, Common, Ancestors
  <1>3. NoBaseAmongAll'
    BY DEF NoBaseAmongAll, Deepened, Near, Depth, LastOf, Common, Ancestors
  <1>4. diffPc' \in DiffPlaces
    BY DEF DiffPlaces
  <1> QED BY <1>1, <1>2, <1>3, <1>4

LEMMA FetchKeepsDiff ==
  ASSUME DiffInv, FetchTarget \/ FetchHead
  PROVE  DiffInv'
  <1> USE DiffAssumption DEF DiffInv
  <1>0. UNCHANGED <<history, attempt, base, changes>> /\ base = NoCommit /\ changes.reason = "none"
        /\ diffPc' \in {"fetch_head", "merge_base"}
    BY DEF FetchTarget, FetchHead, DiffGoto
  <1>1. ASSUME NEW tip, NEW d, FetchTo(tip, d)
        PROVE  /\ cut' \cap Near(tip, d) = {}
               /\ cut' \subseteq cut \cup LastOf(tip, d)
    BY <1>1 DEF FetchTo, Near
  <1>2. CASE FetchTarget
    <2>1. cut' \cap Near(history.target, FetchDepths[attempt]) = {}
      BY <1>1, <1>2 DEF FetchTarget, Fetch
    <2>2. diffPc' = IF attempt > 1 THEN "fetch_head" ELSE "merge_base"
      BY <1>2 DEF FetchTarget, DiffGoto
    <2>3. Fetched'
      BY <1>0, <2>1, <2>2 DEF Fetched, Near, Depth, LastOf
    <2> QED BY <1>0, <2>3 DEF DiffPlaces, BaseAmongFetched, NoBaseAmongAll
  <1>3. CASE FetchHead
    <2>1. /\ cut' \cap Near(history.now, FetchDepths[attempt]) = {}
          /\ cut' \subseteq cut \cup LastOf(history.now, FetchDepths[attempt])
      BY <1>1, <1>3 DEF FetchHead, Fetch
    <2>2. cut \cap Near(history.target, FetchDepths[attempt]) = {} /\ diffPc' = "merge_base"
      BY <1>3 DEF FetchHead, Fetched, DiffGoto
    <2>3. cut' \cap Near(history.target, FetchDepths[attempt]) \subseteq LastOf(history.now, FetchDepths[attempt])
      BY <2>1, <2>2
    <2>4. Fetched'
      BY <1>0, <2>1, <2>2, <2>3 DEF Fetched, Deepened, Near, Depth, LastOf
    <2> QED BY <1>0, <2>4 DEF DiffPlaces, BaseAmongFetched, NoBaseAmongAll
  <1> QED BY <1>2, <1>3

\* git merge-base finds one in the history it has; when it finds none at the last depth,
\* the history has been deepened to it on both sides.
LEMMA MergeBaseKeepsDiff ==
  ASSUME DiffInv, MergeBase
  PROVE  DiffInv'
  <1> USE DiffAssumption DEF DiffInv
  <1>0. UNCHANGED <<history, cut>> /\ diffPc = "merge_base" /\ base = NoCommit
        /\ changes.reason = "none"
    BY DEF MergeBase
  <1>1. CASE Common(cut) # {}
    <2>1. base' \in Best(cut) /\ diffPc' = "rev_parse" /\ UNCHANGED <<attempt, changes>>
      BY <1>1 DEF MergeBase, DiffGoto
    <2>2. BaseAmongFetched'
      BY <1>0, <2>1 DEF BaseAmongFetched, Best, Common, Ancestors
    <2> QED BY <1>0, <2>1, <2>2 DEF DiffPlaces, Fetched, NoBaseAmongAll
  <1>2. CASE Common(cut) = {} /\ attempt < Len(FetchDepths)
    <2>1. attempt' = attempt + 1 /\ diffPc' = "fetch_target" /\ UNCHANGED <<base, changes>>
      BY <1>2 DEF MergeBase, DiffGoto
    <2>2. attempt' \in DOMAIN FetchDepths
      BY <1>2, <2>1
    <2> QED BY <1>0, <2>1, <2>2 DEF DiffPlaces, Fetched, BaseAmongFetched, NoBaseAmongAll
  <1>3. CASE Common(cut) = {} /\ ~(attempt < Len(FetchDepths))
    <2>1. EndWith(Unavailable("no_merge_base")) /\ UNCHANGED <<attempt, base>>
      BY <1>3 DEF MergeBase
    <2>2. attempt = Len(FetchDepths) /\ attempt > 1
      BY <1>3
    <2>3. Deepened(LastDepth)
      BY <1>0, <2>2 DEF Fetched, LastDepth
    <2>4. NoBaseAmongAll'
      BY <1>0, <1>3, <2>3 DEF NoBaseAmongAll, Deepened, Near, Depth, LastOf, Common, Ancestors
    <2>5. diffPc' = "ended"
          /\ DOMAIN changes' = {"status", "reason", "files", "excluded", "symbols"}
      BY <2>1, EndTypes
    <2> QED BY <1>0, <2>1, <2>4, <2>5 DEF DiffPlaces, Fetched, BaseAmongFetched
  <1> QED BY <1>1, <1>2, <1>3

LEMMA ReadingKeepsDiff ==
  ASSUME DiffInv, BeginExtract \/ GitFails \/ RevParse \/ Numstat \/ Patch
  PROVE  DiffInv'
  <1> USE DEF DiffInv
  <1>1. CASE BeginExtract
    <2>1. CASE \E reason \in {"no_target_branch", "error"} : EndWith(Unavailable(reason))
      BY <1>1, <2>1, EndTypes, DiffFrame DEF BeginExtract, DiffPlaces
    <2>2. CASE DiffGoto("fetch_target")
      BY <1>1, <2>2, DiffFrame DEF BeginExtract, DiffGoto
    <2> QED BY <1>1, <2>1, <2>2 DEF BeginExtract
  <1>2. CASE GitFails
    BY <1>2, EndTypes, DiffFrame DEF GitFails, DiffPlaces
  <1>3. CASE RevParse
    BY <1>3, DiffFrame DEF RevParse, DiffGoto, DiffPlaces
  <1>4. CASE Numstat \/ Patch
    <2>0. UNCHANGED <<history, cut, attempt, base>> /\ diffPc \in {"numstat", "patch"}
      BY <1>4 DEF Numstat, Patch
    <2>1. CASE DiffGoto("patch")
      BY <1>4, <2>0, <2>1, DiffFrame DEF DiffGoto, DiffPlaces
    <2>2. CASE \E listed, patch : AfterDiff(ChangesOf(listed, patch))
      <3>1. PICK listed, patch : AfterDiff(ChangesOf(listed, patch))
        BY <2>2
      <3>2. /\ changes'.reason \in {"none", "too_large"}
            /\ changes'.status = "available" => changes'.reason = "none"
            /\ DOMAIN changes' = {"status", "reason", "files", "excluded", "symbols"}
        BY <3>1, ChangesTypes DEF AfterDiff
      <3>3. diffPc' \in {"index", "ended"} /\ (diffPc' = "index" => changes'.status = "available")
        BY <3>1 DEF AfterDiff
      <3> QED BY <2>0, <3>2, <3>3, DiffFrame DEF DiffPlaces
    <2> QED BY <1>4, <2>1, <2>2 DEF Numstat, Patch
  <1> QED BY <1>1, <1>2, <1>3, <1>4

LEMMA NextDiff == DiffInv /\ [Next]_vars => DiffInv'
  <1> SUFFICES ASSUME DiffInv, [Next]_vars PROVE DiffInv'
    OBVIOUS
  <1>1. CASE Extraction
    BY <1>1, FetchKeepsDiff, MergeBaseKeepsDiff, ReadingKeepsDiff DEF Extraction, DiffStep
  <1>2. CASE Index
    <2>1. /\ changes'.reason = changes.reason /\ DOMAIN changes' = DOMAIN changes
          /\ UNCHANGED <<history, cut, attempt, base>> /\ diffPc' = "ended"
      BY <1>2 DEF Index, DiffInv
    <2> QED BY <2>1, DiffFrame DEF DiffInv, DiffPlaces
  <1>3. CASE UNCHANGED diffVars
    BY <1>3 DEF diffVars, DiffInv, Fetched, BaseAmongFetched, NoBaseAmongAll, Deepened, Near, Depth,
       LastOf, Best, Common, Ancestors
  <1> QED BY <1>1, <1>2, <1>3 DEF Next, BuildResult, vars

\* Where the history is cut before each search for a merge base, and what one was found in.
THEOREM DiffInvariant == Spec => []DiffInv
  BY InitDiff, NextDiff, PTL DEF Spec

\* The merge base is a best common ancestor in the history the workspace has, and "no merge
\* base" is said only when that history has none and nothing nearer than the last depth to
\* the branch is cut, nor to the target but where the branch's own history ends (the loop
\* of _find_merge_base).
THEOREM MergeBaseAmongFetched == Spec => [](BaseAmongFetched /\ NoBaseAmongAll)
  <1>1. DiffInv => BaseAmongFetched /\ NoBaseAmongAll
    BY DEF DiffInv
  <1> QED BY <1>1, DiffInvariant, PTL

-----------------------------------------------------------------------------
(* The findings of the result.                                             *)

FindingSeverities == {"error", "warning", "info"}

\* A list of findings, as an adapter makes it of a report.
Listed(s) == s \in Seq(ToSet(s)) /\ \A i \in DOMAIN s : s[i].severity \in FindingSeverities

LEMMA ListedIndexed ==
  ASSUME NEW n \in Nat, NEW s, s = [i \in 1..n |-> s[i]],
         \A i \in 1..n : s[i].severity \in FindingSeverities
  PROVE  Listed(s)
  <1>1. DOMAIN s = 1..n
    OBVIOUS
  <1>2. \A i \in 1..n : s[i] \in ToSet(s)
    BY <1>1 DEF ToSet
  <1>3. s \in [1..n -> ToSet(s)]
    BY <1>2
  <1> QED BY <1>1, <1>3 DEF Listed

LEMMA ListedConcat ==
  ASSUME NEW s, NEW t, Listed(s), Listed(t)
  PROVE  Listed(s \o t) /\ ToSet(s \o t) = ToSet(s) \cup ToSet(t)
  <1> DEFINE all == ToSet(s) \cup ToSet(t)
  <1>1. s \in Seq(all) /\ t \in Seq(all)
    BY DEF Listed
  <1> HIDE DEF all
  <1>2. /\ s \o t \in Seq(all) /\ Len(s \o t) = Len(s) + Len(t)
        /\ \A i \in 1..Len(s) : (s \o t)[i] = s[i]
        /\ \A i \in 1..Len(t) : (s \o t)[Len(s) + i] = t[i]
        /\ \A i \in 1..Len(s \o t) : IF i <= Len(s) THEN (s \o t)[i] = s[i] ELSE (s \o t)[i] = t[i - Len(s)]
    BY <1>1
  <1>3. /\ DOMAIN s = 1..Len(s) /\ DOMAIN t = 1..Len(t) /\ DOMAIN (s \o t) = 1..Len(s \o t)
        /\ Len(s) \in Nat /\ Len(t) \in Nat
    BY <1>1, <1>2
  <1>4. ToSet(s) \subseteq ToSet(s \o t)
    <2> SUFFICES ASSUME NEW i \in DOMAIN s PROVE \E k \in DOMAIN (s \o t) : s[i] = (s \o t)[k]
      BY DEF ToSet
    <2>1. i \in DOMAIN (s \o t)
      BY <1>2, <1>3
    <2> QED BY <1>2, <1>3, <2>1
  <1>5. ToSet(t) \subseteq ToSet(s \o t)
    <2> SUFFICES ASSUME NEW i \in DOMAIN t PROVE \E k \in DOMAIN (s \o t) : t[i] = (s \o t)[k]
      BY DEF ToSet
    <2>1. Len(s) + i \in DOMAIN (s \o t)
      BY <1>2, <1>3
    <2> QED BY <1>2, <1>3, <2>1
  <1>6. \A k \in DOMAIN (s \o t) : \/ k \in DOMAIN s /\ (s \o t)[k] = s[k]
                                   \/ k - Len(s) \in DOMAIN t /\ (s \o t)[k] = t[k - Len(s)]
    BY <1>2, <1>3
  <1>7. ToSet(s \o t) \subseteq ToSet(s) \cup ToSet(t)
    BY <1>6 DEF ToSet
  <1>8. ToSet(s \o t) = all
    BY <1>4, <1>5, <1>7 DEF all
  <1>9. \A k \in DOMAIN (s \o t) : (s \o t)[k].severity \in FindingSeverities
    BY <1>6 DEF Listed
  <1> QED BY <1>2, <1>8, <1>9 DEF Listed, all

LEMMA ListedEmpty == Listed(<<>>) /\ ToSet(<<>>) = {}
  BY DEF Listed, ToSet

-----------------------------------------------------------------------------
(* FindingNormalizer.                                                      *)

\* Of the findings with one fingerprint exactly one is left.
LEMMA Normalized ==
  ASSUME NEW s, Listed(s)
  PROVE  /\ IsFiniteSet(Normalize(s)) /\ Normalize(s) \subseteq ToSet(s)
         /\ \A f \in ToSet(s) : \E g \in Normalize(s) : Fingerprint(g) = Fingerprint(f)
         /\ \A f, g \in Normalize(s) : Fingerprint(f) = Fingerprint(g) => f = g
  <1> DEFINE first == {i \in DOMAIN s :
                         \A j \in 1..(i - 1) : Fingerprint(s[j]) # Fingerprint(s[i])}
  <1>0. Normalize(s) = {s[i] : i \in first}
    BY DEF Normalize
  <1>1. DOMAIN s = 1..Len(s) /\ Len(s) \in Nat
    BY DEF Listed
  <1>2. IsFiniteSet(first)
    <2>1. 1 \in Int /\ Len(s) \in Int
      BY <1>1
    <2>2. IsFiniteSet(1..Len(s))
      BY <2>1, FS_Interval
    <2>3. first \in SUBSET (1..Len(s))
      BY <1>1
    <2> QED BY <2>2, <2>3, FS_Subset
  <1>3. IsFiniteSet(Normalize(s))
    <2> DEFINE pick == [i \in first |-> s[i]]
    <2>1. pick \in Surjection(first, Normalize(s))
      BY <1>0 DEF Surjection
    <2> QED BY <1>2, <2>1, FS_Surjection
  <1>4. Normalize(s) \subseteq ToSet(s)
    BY <1>0 DEF ToSet
  <1>5. ASSUME NEW i \in DOMAIN s
        PROVE  \E k \in first : Fingerprint(s[k]) = Fingerprint(s[i])
    <2> DEFINE same == {k \in DOMAIN s : Fingerprint(s[k]) = Fingerprint(s[i])}
    <2>1. same \subseteq Nat /\ same # {}
      BY <1>1
    <2>2. PICK k \in same : \A j \in same : <<j, k>> \notin OpToRel(<, Nat)
      <3> HIDE DEF same
      <3> QED BY <2>1, NatLessThanWellFounded, WFMin
    <2>3. \A j \in same : ~(j < k)
      BY <2>1, <2>2 DEF OpToRel
    <2>4. \A j \in 1..(k - 1) : j \in DOMAIN s /\ j < k
      BY <1>1
    <2>5. k \in first
      BY <2>3, <2>4
    <2> QED BY <2>5
  <1>6. \A f \in ToSet(s) : \E g \in Normalize(s) : Fingerprint(g) = Fingerprint(f)
    BY <1>0, <1>5 DEF ToSet
  <1>7. ASSUME NEW i \in first, NEW k \in first, Fingerprint(s[i]) = Fingerprint(s[k])
        PROVE  i = k
    <2>1. i \in Nat /\ k \in Nat /\ 1 <= i /\ 1 <= k
      BY <1>1
    <2>2. ~(i < k) /\ ~(k < i)
      BY <1>7, <2>1
    <2> QED BY <2>1, <2>2
  <1>8. \A f, g \in Normalize(s) : Fingerprint(f) = Fingerprint(g) => f = g
    BY <1>0, <1>7
  <1> QED BY <1>3, <1>4, <1>6, <1>8

\* Each place a finding names is kept, once.
LEMMA PlacesOnce ==
  ASSUME NEW s, Listed(s)
  PROVE  /\ {Place(f) : f \in Normalize(s)} = {Place(f) : f \in ToSet(s)}
         /\ Cardinality(Normalize(s)) = Cardinality({Place(f) : f \in ToSet(s)})
  <1>1. \A f, g : Fingerprint(f) = Fingerprint(g) <=> Place(f) = Place(g)
    BY DEF Fingerprint, Place
  <1>2. {Place(f) : f \in Normalize(s)} = {Place(f) : f \in ToSet(s)}
    BY <1>1, Normalized
  <1> DEFINE places == {Place(f) : f \in Normalize(s)}
             at == [f \in Normalize(s) |-> Place(f)]
  <1>3. at \in Bijection(Normalize(s), places)
    <2>1. at \in [Normalize(s) -> places] /\ \A p \in places : \E f \in Normalize(s) : at[f] = p
      OBVIOUS
    <2>2. \A f, g \in Normalize(s) : at[f] = at[g] => f = g
      BY <1>1, Normalized
    <2> HIDE DEF at, places
    <2> QED BY <2>1, <2>2 DEF Bijection, Injection, Surjection, IsInjective
  <1>4. ExistsBijection(Normalize(s), places)
    BY <1>3 DEF ExistsBijection
  <1>5. Cardinality(places) = Cardinality(Normalize(s))
    <2> HIDE DEF places
    <2> QED BY <1>4, Normalized, FS_Bijection
  <1> QED BY <1>2, <1>5

-----------------------------------------------------------------------------
(* What the adapters return.                                               *)

LEMMA MessagesAreASequence ==
  ASSUME NEW p \in Processes
  PROVE  \E n \in Nat : DOMAIN Messages(p) = 1..n
  <1> USE AnalyzersAssumption
  <1>1. DOMAIN Reports[p] = 1..Len(Reports[p]) /\ Len(Reports[p]) \in Nat
    <2>1. Reports[p] \in Seq(Range(Reports[p]))
      OBVIOUS
    <2> QED BY <2>1
  <1>2. DOMAIN <<>> = 1..0 /\ 0 \in Nat
    OBVIOUS
  <1> QED BY <1>1, <1>2 DEF Messages

LEMMA ListedMessages ==
  /\ Listed(Mapped(EslintFinding, Messages("eslint")))
  /\ Listed(Mapped(PylintFinding, Messages("pylint")))
  /\ Listed(Mapped(BanditFinding, Messages("bandit")))
  <1> USE DEF Processes, PythonProcesses, RadonCommands, Mapped, FindingSeverities
  <1>1. Listed(Mapped(EslintFinding, Messages("eslint")))
    <2>1. PICK n \in Nat : DOMAIN Messages("eslint") = 1..n
      BY MessagesAreASequence
    <2>2. \A m : EslintFinding(m).severity \in FindingSeverities
      BY DEF EslintFinding, Finding
    <2> QED BY <2>1, <2>2, ListedIndexed
  <1>2. Listed(Mapped(PylintFinding, Messages("pylint")))
    <2>1. PICK n \in Nat : DOMAIN Messages("pylint") = 1..n
      BY MessagesAreASequence
    <2>2. \A m : PylintFinding(m).severity \in FindingSeverities
      BY DEF PylintFinding, Finding
    <2> QED BY <2>1, <2>2, ListedIndexed
  <1>3. Listed(Mapped(BanditFinding, Messages("bandit")))
    <2>1. PICK n \in Nat : DOMAIN Messages("bandit") = 1..n
      BY MessagesAreASequence
    <2>2. \A m : BanditFinding(m).severity \in FindingSeverities
      BY DEF BanditFinding, Unreadable, Finding
    <2> QED BY <2>1, <2>2, ListedIndexed
  <1> QED BY <1>1, <1>2, <1>3

LEMMA ListedMeasures == Listed(ComplexityFindings \o MaintainabilityFindings)
  <1> USE DEF Processes, PythonProcesses, RadonCommands, FindingSeverities, Mapped
  <1>0. ASSUME NEW p \in Processes, NEW places \in SUBSET DOMAIN Messages(p)
        PROVE  Cardinality(places) \in Nat
    <2>1. PICK n \in Nat : DOMAIN Messages(p) = 1..n
      BY MessagesAreASequence
    <2>2. 1 \in Int /\ n \in Int
      OBVIOUS
    <2>3. IsFiniteSet(1..n)
      BY <2>2, FS_Interval
    <2>4. IsFiniteSet(places)
      BY <2>1, <2>3, FS_Subset
    <2> QED BY <2>4, FS_CardinalityType
  <1>1. Listed(ComplexityFindings)
    <2>1. ComplexPlaces \in SUBSET DOMAIN Messages("cc")
      BY DEF ComplexPlaces
    <2>2. Cardinality(ComplexPlaces) \in Nat
      BY <1>0, <2>1
    <2>3. \A m : ComplexityFinding(m).severity \in FindingSeverities
      BY DEF ComplexityFinding, Unreadable, Finding
    <2> DEFINE n == Cardinality(ComplexPlaces)
               picked == At(Messages("cc"), ComplexPlaces)
    <2>4. DOMAIN picked = 1..n
      BY DEF At
    <2>5. ComplexityFindings = [i \in 1..n |-> ComplexityFinding(picked[i])]
      BY <2>4 DEF ComplexityFindings
    <2> HIDE DEF n, picked
    <2> QED BY <2>2, <2>3, <2>5, ListedIndexed DEF n
  <1>2. Listed(MaintainabilityFindings)
    <2>1. PoorPlaces \in SUBSET DOMAIN Messages("mi")
      BY DEF PoorPlaces
    <2>2. Cardinality(PoorPlaces) \in Nat
      BY <1>0, <2>1
    <2>3. \A m : MaintainabilityFinding(m).severity \in FindingSeverities
      BY DEF MaintainabilityFinding, Unreadable, Finding
    <2> DEFINE n == Cardinality(PoorPlaces)
               picked == At(Messages("mi"), PoorPlaces)
    <2>4. DOMAIN picked = 1..n
      BY DEF At
    <2>5. MaintainabilityFindings = [i \in 1..n |-> MaintainabilityFinding(picked[i])]
      BY <2>4 DEF MaintainabilityFindings
    <2> HIDE DEF n, picked
    <2> QED BY <2>2, <2>3, <2>5, ListedIndexed DEF n
  <1> QED BY <1>1, <1>2, ListedConcat

\* The findings of an analyzer, and which tools' they are.
LEMMA ListedFindings ==
  /\ Listed(FindingsOf("eslint")) /\ Listed(FindingsOf("python"))
  /\ Listed(FindingsOf("eslint") \o FindingsOf("python"))
  /\ ToSet(FindingsOf("eslint") \o FindingsOf("python"))
       = ToSet(FindingsOf("eslint")) \cup ToSet(FindingsOf("python"))
  /\ ToSet(FindingsOf("python"))
       = IF returned["python"] # "returned" THEN {}
         ELSE ToSet(PylintFindings) \cup ToSet(RadonFindings) \cup ToSet(BanditFindings)
  <1>1. Listed(FindingsOf("eslint"))
    BY ListedMessages, ListedEmpty DEF FindingsOf
  <1>2. Listed(PylintFindings) /\ Listed(RadonFindings) /\ Listed(BanditFindings)
    BY ListedMessages, ListedMeasures, ListedEmpty DEF PylintFindings, RadonFindings, BanditFindings
  <1>3. /\ Listed(PylintFindings \o RadonFindings)
        /\ ToSet(PylintFindings \o RadonFindings) = ToSet(PylintFindings) \cup ToSet(RadonFindings)
    BY <1>2, ListedConcat
  <1>4. /\ Listed(PylintFindings \o RadonFindings \o BanditFindings)
        /\ ToSet(PylintFindings \o RadonFindings \o BanditFindings)
             = ToSet(PylintFindings) \cup ToSet(RadonFindings) \cup ToSet(BanditFindings)
    BY <1>2, <1>3, ListedConcat
  <1>5. FindingsOf("python") = IF returned["python"] # "returned" THEN <<>>
                               ELSE PylintFindings \o RadonFindings \o BanditFindings
    BY DEF FindingsOf
  <1>6. Listed(FindingsOf("python"))
    BY <1>4, <1>5, ListedEmpty
  <1> QED BY <1>1, <1>4, <1>5, <1>6, ListedEmpty, ListedConcat

-----------------------------------------------------------------------------
(* The result is still what the analyzers' findings make.                  *)

LEMMA MeasuresStay ==
  ASSUME \A q \in PythonProcesses : process'[q] = process[q] /\ answer'[q] = answer[q]
  PROVE  UNCHANGED <<ComplexityFindings, MaintainabilityFindings>>
  <1>1. Messages("cc")' = Messages("cc") /\ Messages("mi")' = Messages("mi")
    BY DEF Messages, PythonProcesses, RadonCommands
  <1> QED BY <1>1 DEF ComplexityFindings, MaintainabilityFindings, ComplexPlaces, PoorPlaces

LEMMA ReadMeaning == \A t \in Tools : Read(t) <=> ~Fails(t) /\ pythonFiles
  BY StatusMeaning DEF Read

LEMMA ReadMeaningNext == (\A t \in Tools : Read(t) <=> ~Fails(t) /\ pythonFiles)'
  BY ReadMeaning, PTL

\* What an analyzer has returned does not change as long as its processes do not.
LEMMA FindingsStay ==
  ASSUME UNCHANGED <<pythonFiles, returned>>,
         returned["eslint"] = "returned" => answer'["eslint"] = answer["eslint"],
         returned["python"] = "returned" =>
           \A q \in PythonProcesses : process'[q] = process[q] /\ answer'[q] = answer[q]
  PROVE  FindingsOf("eslint")' = FindingsOf("eslint") /\ FindingsOf("python")' = FindingsOf("python")
  <1>1. FindingsOf("eslint")' = FindingsOf("eslint")
    <2>1. returned["eslint"] = "returned" => Messages("eslint")' = Messages("eslint")
      BY DEF Messages
    <2> QED BY <2>1 DEF FindingsOf
  <1>2. CASE returned["python"] # "returned"
    <2>1. FindingsOf("python")' = FindingsOf("python")
      BY <1>2 DEF FindingsOf
    <2> QED BY <1>1, <2>1
  <1>3. CASE returned["python"] = "returned"
    <2>1. \A q \in PythonProcesses : process'[q] = process[q] /\ answer'[q] = answer[q]
      BY <1>3
    <2>2. Messages("pylint")' = Messages("pylint") /\ Messages("bandit")' = Messages("bandit")
      BY <2>1 DEF Messages, PythonProcesses
    <2>3. \A t \in Tools : Fails(t)' <=> Fails(t)
      BY <2>1 DEF Fails, PylintFails, BanditFails, RadonFails, CommandFails, PythonProcesses, RadonCommands
    <2>6. \A t \in Tools : Read(t)' <=> Read(t)
      BY <2>3, ReadMeaning, ReadMeaningNext
    <2>7. PylintFindings' = PylintFindings
      BY <2>2, <2>6 DEF PylintFindings, Tools
    <2>8. RadonFindings' = RadonFindings
      BY <2>1, <2>6, MeasuresStay DEF RadonFindings, Tools
    <2>9. BanditFindings' = BanditFindings
      BY <2>2, <2>6 DEF BanditFindings, Tools
    <2>10. FindingsOf("python")' = FindingsOf("python")
      BY <2>7, <2>8, <2>9 DEF FindingsOf
    <2> QED BY <1>1, <2>10
  <1> QED BY <1>1, <1>2, <1>3

LEMMA RunningIsOpen ==
  ASSUME StageInv, NEW p \in Processes, process[p] = "running"
  PROVE  /\ returned["eslint"] = "returned" => p # "eslint"
         /\ returned["python"] = "returned" => p \notin PythonProcesses
  <1> EndedAs /\ p \in Used
    BY EndedAsMeaning DEF StageInv, EndedAs, Used
  <1>1. returned["eslint"] = "returned" => p # "eslint"
    BY DEF EndedAs, Ended
  <1>2. ASSUME returned["python"] = "returned", p \in PythonProcesses PROVE FALSE
    <2>1. \A t \in Tools : ToolEnded(t)
      BY <1>2 DEF EndedAs
    <2> QED BY <1>2, <2>1 DEF Tools, ToolEnded, Ended, PythonProcesses
  <1> QED BY <1>1, <1>2

LEMMA InitResult == Init => ResultOfFindings
  BY DEF Init, ResultOfFindings

LEMMA NextResult == StageInv /\ ResultOfFindings /\ [Next]_vars => ResultOfFindings'
  <1> SUFFICES ASSUME StageInv, ResultOfFindings, [Next]_vars PROVE ResultOfFindings'
    OBVIOUS
  <1>1. ASSUME UNCHANGED <<checkout, result>>,
               result # NoAnalysis => FindingsOf("eslint")' = FindingsOf("eslint")
                                      /\ FindingsOf("python")' = FindingsOf("python")
        PROVE  ResultOfFindings'
    BY <1>1 DEF ResultOfFindings
  <1>2. CASE UNCHANGED <<toolVars, checkout, result>>
    <2>1. FindingsOf("eslint")' = FindingsOf("eslint") /\ FindingsOf("python")' = FindingsOf("python")
      BY <1>2, FindingsStay DEF toolVars
    <2> QED BY <1>1, <1>2, <2>1
  <1>3. CASE AnalyzerStep /\ UNCHANGED <<checkout, result>>
    <2>1. result = NoAnalysis
      BY <1>3 DEF StageInv, ResultOfAll, ToolsDone, AnalyzerStep, EslintEnds, PythonEnds, PythonRaises
    <2> QED BY <1>1, <1>3, <2>1
  <1>4. ASSUME NEW p \in Processes, ProcessStep(p), UNCHANGED <<checkout, result>>
        PROVE  ResultOfFindings'
    <2>1. /\ process[p] = "running" /\ UNCHANGED <<pythonFiles, returned>>
          /\ \A q \in Processes \ {p} : process'[q] = process[q] /\ answer'[q] = answer[q]
      BY <1>4 DEF ProcessStep, Missing, Exit, TimeOut, StageInv, ToolsTypeOK
    <2>2. FindingsOf("eslint")' = FindingsOf("eslint") /\ FindingsOf("python")' = FindingsOf("python")
      BY <2>1, RunningIsOpen, FindingsStay DEF Processes
    <2> QED BY <1>1, <1>4, <2>2
  <1>5. CASE BuildResult
    <2>1. UNCHANGED <<toolVars, checkout>>
      BY <1>5 DEF BuildResult
    <2>2. FindingsOf("eslint")' = FindingsOf("eslint") /\ FindingsOf("python")' = FindingsOf("python")
      BY <2>1, FindingsStay DEF toolVars
    <2>3. /\ result'.findings = Normalize(FindingsOf("eslint") \o FindingsOf("python"))
          /\ result'.metrics = Metrics(result'.findings, ScanScripts(checkout.files))
          /\ result'.rules = RuleStatistics(result'.findings)
      BY <1>5 DEF BuildResult
    <2> QED BY <2>1, <2>2, <2>3 DEF ResultOfFindings
  <1> QED BY <1>2, <1>3, <1>4, <1>5 DEF Next, Index, vars

\* The findings of a result are those of the analyzers that returned, whatever process ends
\* after it, and its counts are made of them and of the checkout's scripts (_build_result).
THEOREM ResultOfItsFindings == Spec => []ResultOfFindings
  <1>1. Init => StageInv /\ ResultOfFindings
    BY InitStage, InitResult
  <1>2. (StageInv /\ ResultOfFindings) /\ [Next]_vars => (StageInv /\ ResultOfFindings)'
    BY NextStage, NextResult
  <1> QED BY <1>1, <1>2, PTL DEF Spec

-----------------------------------------------------------------------------
(* What is owed is what was gathered.                                      *)

LEMMA NothingMapped ==
  /\ Messages("eslint") = <<>> => ToSet(Mapped(EslintFinding, Messages("eslint"))) = {}
  /\ Messages("pylint") = <<>> => ToSet(Mapped(PylintFinding, Messages("pylint"))) = {}
  /\ Messages("bandit") = <<>> => ToSet(Mapped(BanditFinding, Messages("bandit"))) = {}
  BY DEF ToSet, Mapped

LEMMA EslintOwed ==
  ASSUME StageInv, ToolsDone
  PROVE  ToSet(FindingsOf("eslint"))
           = IF Reported("eslint") THEN ToSet(Mapped(EslintFinding, Reports["eslint"])) ELSE {}
  <1> EndedAs
    BY EndedAsMeaning DEF StageInv
  <1>1. CASE returned["eslint"] = "returned"
    <2>1. process["eslint"] = "exited" /\ ~NoReport(answer["eslint"])
      BY <1>1 DEF EndedAs, Ended, EslintStatus
    <2>2. FindingsOf("eslint") = Mapped(EslintFinding, Messages("eslint"))
      BY <1>1 DEF FindingsOf
    <2>3. CASE answer["eslint"].out = "found"
      BY <2>1, <2>2, <2>3 DEF Reported, NoReport, Messages
    <2>4. CASE answer["eslint"].out # "found"
      BY <2>2, <2>4, NothingMapped DEF Reported, Messages
    <2> QED BY <2>3, <2>4
  <1>2. CASE returned["eslint"] # "returned"
    <2>1. FindingsOf("eslint") = <<>>
      BY <1>2 DEF FindingsOf
    <2>2. ~Reported("eslint")
      <3>1. CASE "eslint" \in selected
        <4>1. returned["eslint"] # "pending" /\ EslintStatus = "raised"
          BY <1>2, <3>1 DEF ToolsDone, EndedAs, EslintStatus
        <4> QED BY <4>1 DEF EslintStatus, NoReport, Reported
      <3>2. CASE "eslint" \notin selected
        BY <3>2 DEF EndedAs, Uses, Reported, Processes, PythonProcesses, RadonCommands
      <3> QED BY <3>1, <3>2
    <2> QED BY <2>1, <2>2, ListedEmpty
  <1> QED BY <1>1, <1>2

\* Each tool's findings, when the gather of the three has returned.
LEMMA ToolsOwed ==
  ASSUME StageInv, returned["python"] = "returned"
  PROVE  /\ ToSet(PylintFindings)
              = IF Reported("pylint") THEN ToSet(Mapped(PylintFinding, Reports["pylint"])) ELSE {}
         /\ ToSet(BanditFindings)
              = IF Reported("bandit") THEN ToSet(Mapped(BanditFinding, Reports["bandit"])) ELSE {}
         /\ ToSet(RadonFindings)
              = IF RadonRead THEN ToSet(ComplexityFindings \o MaintainabilityFindings) ELSE {}
  <1> EndedAs
    BY EndedAsMeaning DEF StageInv
  <1>1. "python" \in selected /\ \A t \in Tools : ToolEnded(t) /\ ~Raises(t)
    BY DEF EndedAs, AnalyzerNames
  <1>2. CASE ~pythonFiles
    <2>1. \A p \in PythonProcesses : process[p] = "unused"
      BY <1>2 DEF EndedAs, Uses, Processes, PythonProcesses, RadonCommands
    <2>2. ~Reported("pylint") /\ ~Reported("bandit") /\ ~RadonRead
      BY <2>1 DEF Reported, RadonRead, PythonProcesses, RadonCommands
    <2>3. PylintFindings = <<>> /\ BanditFindings = <<>> /\ RadonFindings = <<>>
      BY <1>2 DEF PylintFindings, BanditFindings, RadonFindings, Read
    <2> QED BY <2>2, <2>3, ListedEmpty
  <1>3. CASE pythonFiles
    <2>1. \A p \in PythonProcesses : Ended(p)
      <3>1. PythonProcesses \subseteq Used
        BY <1>1, <1>3 DEF Used, Uses, Processes
      <3> QED BY <1>1, <3>1 DEF Tools, ToolEnded, PythonProcesses, RadonCommands
    <2>2. \A t \in Tools : Read(t) <=> ~Fails(t)
      BY <1>3, ReadMeaning
    <2>3. ToSet(PylintFindings)
            = IF Reported("pylint") THEN ToSet(Mapped(PylintFinding, Reports["pylint"])) ELSE {}
      <3>1. Reported("pylint") <=> Read("pylint") /\ answer["pylint"].out = "found"
        BY <1>3, <2>1, <2>2 DEF Reported, Fails, PylintFails, Tools, Ended, PythonProcesses
      <3>2. answer["pylint"].out # "found" => Messages("pylint") = <<>>
        BY DEF Messages
      <3>3. answer["pylint"].out = "found" => Messages("pylint") = Reports["pylint"]
        BY DEF Messages
      <3> QED BY <3>1, <3>2, <3>3, NothingMapped, ListedEmpty DEF PylintFindings
    <2>4. ToSet(BanditFindings)
            = IF Reported("bandit") THEN ToSet(Mapped(BanditFinding, Reports["bandit"])) ELSE {}
      <3>1. Reported("bandit") <=> Read("bandit") /\ answer["bandit"].out = "found"
        BY <1>3, <2>1, <2>2 DEF Reported, Fails, BanditFails, Tools, Ended, PythonProcesses
      <3>2. answer["bandit"].out # "found" => Messages("bandit") = <<>>
        BY DEF Messages
      <3>3. answer["bandit"].out = "found" => Messages("bandit") = Reports["bandit"]
        BY DEF Messages
      <3> QED BY <3>1, <3>2, <3>3, NothingMapped, ListedEmpty DEF BanditFindings
    <2>5. RadonRead <=> Read("radon")
      <3>1. \A c \in RadonCommands \ {"hal"} : RadonOutcome(c) = "read" <=> ~CommandFails(c) /\ ~CommandRaises(c)
        BY DEF RadonOutcome, CommandFails, CommandRaises
      <3>2. RadonRead <=> \A c \in RadonCommands \ {"hal"} : ~CommandFails(c) /\ ~CommandRaises(c)
        BY <2>1, <3>1 DEF RadonRead, Ended, CommandFails, PythonProcesses, RadonCommands
      <3>3. ~RadonFails => \A c \in RadonCommands : ~CommandRaises(c)
        BY <1>1, <1>3 DEF Tools, Raises, RadonRaises
      <3>4. Read("radon") <=> ~RadonFails
        BY <2>2 DEF Tools, Fails
      <3> QED BY <1>3, <3>2, <3>3, <3>4 DEF RadonFails, RadonCommands
    <2>6. ToSet(RadonFindings)
            = IF RadonRead THEN ToSet(ComplexityFindings \o MaintainabilityFindings) ELSE {}
      BY <2>5, ListedEmpty DEF RadonFindings
    <2> QED BY <2>3, <2>4, <2>6
  <1> QED BY <1>2, <1>3

LEMMA PythonOwed ==
  ASSUME StageInv, ToolsDone
  PROVE  ToSet(FindingsOf("python"))
           = IF AdapterRaised THEN {}
             ELSE (IF Reported("pylint") THEN ToSet(Mapped(PylintFinding, Reports["pylint"])) ELSE {})
                  \cup (IF Reported("bandit") THEN ToSet(Mapped(BanditFinding, Reports["bandit"])) ELSE {})
                  \cup (IF RadonRead THEN ToSet(ComplexityFindings \o MaintainabilityFindings) ELSE {})
  <1> EndedAs
    BY EndedAsMeaning DEF StageInv
  <1>1. CASE returned["python"] = "returned"
    <2>1. ~AdapterRaised
      BY <1>1, StatusMeaning DEF EndedAs, AdapterRaised
    <2> QED BY <1>1, <2>1, ToolsOwed, ListedFindings
  <1>2. CASE returned["python"] # "returned"
    <2>1. ToSet(FindingsOf("python")) = {}
      BY <1>2, ListedFindings
    <2>2. AdapterRaised \/ (~Reported("pylint") /\ ~Reported("bandit") /\ ~RadonRead)
      <3>1. CASE "python" \notin selected
        BY <3>1 DEF EndedAs, Uses, Reported, RadonRead, Processes, PythonProcesses, RadonCommands
      <3>2. CASE "python" \in selected
        <4>1. returned["python"] = "raised"
          BY <1>2, <3>2 DEF ToolsDone, StageInv, ToolsTypeOK, AnalyzerNames
        <4>2. AdapterRaised \/ \A t \in Tools : Fails(t)
          BY <4>1, StatusMeaning DEF EndedAs, AdapterRaised
        <4> QED BY <4>2, AllFailedMeaning
      <3> QED BY <3>1, <3>2
    <2> QED BY <2>1, <2>2
  <1> QED BY <1>1, <1>2

LEMMA ResultKeepsFindings ==
  ASSUME StageInv, ResultOfFindings, result # NoAnalysis
  PROVE  FindingsKept /\ IsFiniteSet(result.findings)
         /\ \A f \in result.findings : f.severity \in FindingSeverities
  <1> DEFINE gathered == FindingsOf("eslint") \o FindingsOf("python")
  <1>1. ToolsDone /\ result.findings = Normalize(gathered)
    BY DEF StageInv, ResultOfAll, ResultOfFindings
  <1>2. Listed(gathered) /\ Owed = ToSet(gathered)
    BY <1>1, ListedFindings, EslintOwed, PythonOwed DEF Owed
  <1>3. \A f \in ToSet(gathered) : f.severity \in FindingSeverities
    BY <1>2 DEF Listed, ToSet
  <1> HIDE DEF gathered
  <1> QED BY <1>1, <1>2, <1>3, Normalized, PlacesOnce DEF FindingsKept

-----------------------------------------------------------------------------
(* The totals.                                                             *)

\* Counting a set rule by rule counts it.
LEMMA SumByRule ==
  ASSUME NEW F, IsFiniteSet(F), NEW rules, \A f \in F : f.rule \in rules,
         NEW count, count = [r \in rules |-> Cardinality({f \in F : f.rule = r})]
  PROVE  SumOfCounts(count) = Cardinality(F)
  <1> DEFINE Of(r) == {f \in F : f.rule = r}
             number == [r \in rules |-> CHOOSE b : b \in Bijection(1..count[r], Of(r))]
             all == UNION {{r} \X (1..count[r]) : r \in rules}
             at == [u \in all |-> number[u[1]][u[2]]]
  <1>1. ASSUME NEW r \in rules PROVE number[r] \in Bijection(1..count[r], Of(r))
    <2>1. IsFiniteSet(Of(r)) /\ count[r] = Cardinality(Of(r))
      BY FS_Subset
    <2>2. ExistsBijection(1..count[r], Of(r))
      BY <2>1, FS_CardinalityType
    <2> HIDE DEF Of
    <2> QED BY <2>2 DEF ExistsBijection
  <1>2. \A u \in all : u[1] \in rules /\ u[2] \in 1..count[u[1]] /\ u = <<u[1], u[2]>>
    <2> TAKE u \in all
    <2>1. PICK r \in rules : u \in {r} \X (1..count[r])
      OBVIOUS
    <2>2. PICK k \in 1..count[r] : u = <<r, k>>
      <3>1. ASSUME NEW B, u \in {r} \X B PROVE \E k \in B : u = <<r, k>>
        BY <3>1
      <3> QED BY <2>1, <3>1
    <2> QED BY <2>2
  <1>3. \A r \in rules : \A k \in 1..count[r] : <<r, k>> \in all
    OBVIOUS
  <1> HIDE DEF number, all
  <1>4. \A r \in rules : \A k \in 1..count[r] : number[r][k] \in F /\ number[r][k].rule = r
    BY <1>1 DEF Bijection, Injection
  <1>5. \A f \in F : \E r \in rules : \E k \in 1..count[r] : number[r][k] = f
    <2> TAKE f \in F
    <2>1. f \in Of(f.rule) /\ f.rule \in rules
      OBVIOUS
    <2> QED BY <1>1, <2>1 DEF Bijection, Surjection
  <1>6. \A r \in rules : \A j, k \in 1..count[r] : number[r][j] = number[r][k] => j = k
    BY <1>1 DEF Bijection, Injection, IsInjective
  <1>7. at \in Bijection(all, F)
    <2>1. at \in [all -> F]
      BY <1>2, <1>4
    <2>2. \A f \in F : \E u \in all : at[u] = f
      BY <1>3, <1>5
    <2>3. \A u, v \in all : at[u] = at[v] => u = v
      <3> SUFFICES ASSUME NEW u \in all, NEW v \in all, at[u] = at[v] PROVE u = v
        OBVIOUS
      <3>1. number[u[1]][u[2]] = number[v[1]][v[2]]
        OBVIOUS
      <3>2. u[1] = v[1]
        <4>1. number[u[1]][u[2]].rule = u[1] /\ number[v[1]][v[2]].rule = v[1]
          BY <1>2, <1>4
        <4> QED BY <3>1, <4>1
      <3>3. u[2] = v[2]
        <4>1. u[1] \in rules /\ u[2] \in 1..count[u[1]] /\ v[2] \in 1..count[u[1]]
          BY <1>2, <3>2
        <4>2. number[u[1]][u[2]] = number[u[1]][v[2]]
          BY <3>1, <3>2
        <4> HIDE DEF at
        <4> QED BY <1>6, <4>1, <4>2
      <3> QED BY <1>2, <3>2, <3>3
    <2> HIDE DEF at
    <2> QED BY <2>1, <2>2, <2>3 DEF Bijection, Injection, Surjection, IsInjective
  <1>8. ExistsBijection(F, all)
    <2>1. ExistsBijection(all, F)
      BY <1>7 DEF ExistsBijection
    <2> QED BY <2>1, Fun_ExistsBijSymmetric
  <1>9. Cardinality(all) = Cardinality(F)
    BY <1>8, FS_Bijection
  <1>10. SumOfCounts(count) = Cardinality(all)
    BY DEF SumOfCounts, all
  <1> QED BY <1>9, <1>10

\* A bucket counts each finding once.
LEMMA BucketCounts ==
  ASSUME NEW F, IsFiniteSet(F), \A f \in F : f.severity \in FindingSeverities
  PROVE  Bucket(F).errors + Bucket(F).warnings = Cardinality(F)
  <1> DEFINE errors == With(F, {"error"})
             others == With(F, {"warning", "info"})
  <1>1. errors \cup others = F /\ errors \cap others = {}
    BY DEF With, FindingSeverities
  <1>2. IsFiniteSet(errors) /\ IsFiniteSet(others)
    BY FS_Subset DEF With
  <1>3. Bucket(F).errors = Cardinality(errors) /\ Bucket(F).warnings = Cardinality(others)
    BY DEF Bucket
  <1> HIDE DEF errors, others
  <1>4. Cardinality(errors \cup others)
          = Cardinality(errors) + Cardinality(others) - Cardinality(errors \cap others)
    BY <1>2, FS_Union
  <1>5. Cardinality(errors) \in Nat /\ Cardinality(others) \in Nat /\ Cardinality({}) = 0
    BY <1>2, FS_CardinalityType, FS_EmptySet
  <1>6. Cardinality(errors \cup others) = Cardinality(F) /\ Cardinality(errors \cap others) = 0
    BY <1>1, <1>5
  <1> QED BY <1>3, <1>4, <1>5, <1>6

LEMMA ResultCounts ==
  ASSUME StageInv, ResultOfFindings, result # NoAnalysis
  PROVE  TotalsAgree
  <1> DEFINE F == result.findings
             rules == {f.rule : f \in F}
             Of(r) == {f \in F : f.rule = r}
             errors == With(F, {"error"})
  <1>1. IsFiniteSet(F) /\ \A f \in F : f.severity \in FindingSeverities
    BY ResultKeepsFindings
  <1>2. result.metrics.errors = Cardinality(errors)
    <2>1. result.metrics = Metrics(F, ScanScripts(checkout.files))
      BY DEF ResultOfFindings
    <2> QED BY <2>1 DEF Metrics
  <1>3. DOMAIN result.rules = rules /\ \A r \in rules : result.rules[r] = Bucket(Of(r))
    <2>1. result.rules = RuleStatistics(F)
      BY DEF ResultOfFindings
    <2> QED BY <2>1 DEF RuleStatistics
  <1> HIDE DEF F, rules
  <1>4. SumOfCounts([r \in rules |-> Cardinality({f \in errors : f.rule = r})]) = Cardinality(errors)
    <2>1. IsFiniteSet(errors)
      BY <1>1, FS_Subset DEF With
    <2>2. \A f \in errors : f.rule \in rules
      BY DEF With, rules
    <2> HIDE DEF errors
    <2> QED BY <2>1, <2>2, SumByRule
  <1>5. SumOfCounts([r \in rules |-> Cardinality({f \in F : f.rule = r})]) = Cardinality(F)
    <2>1. \A f \in F : f.rule \in rules
      BY DEF rules
    <2> QED BY <1>1, <2>1, SumByRule
  <1>6. \A r \in rules : result.rules[r].errors = Cardinality({f \in errors : f.rule = r})
    <2> TAKE r \in rules
    <2>1. With(Of(r), {"error"}) = {f \in errors : f.rule = r}
      BY DEF With
    <2>2. Bucket(Of(r)).errors = Cardinality(With(Of(r), {"error"}))
      BY DEF Bucket
    <2> HIDE DEF Of, errors
    <2> QED BY <1>3, <2>1, <2>2
  <1>7. \A r \in rules : result.rules[r].errors + result.rules[r].warnings = Cardinality({f \in F : f.rule = r})
    <2> TAKE r \in rules
    <2>1. IsFiniteSet(Of(r)) /\ \A f \in Of(r) : f.severity \in FindingSeverities
      BY <1>1, FS_Subset
    <2> HIDE DEF Of
    <2>2. Bucket(Of(r)).errors + Bucket(Of(r)).warnings = Cardinality(Of(r))
      BY <2>1, BucketCounts
    <2> QED BY <1>3, <2>2 DEF Of
  <1>8. [r \in DOMAIN result.rules |-> result.rules[r].errors]
          = [r \in rules |-> Cardinality({f \in errors : f.rule = r})]
    BY <1>3, <1>6
  <1>9. [r \in DOMAIN result.rules |-> result.rules[r].errors + result.rules[r].warnings]
          = [r \in rules |-> Cardinality({f \in F : f.rule = r})]
    BY <1>3, <1>7
  <1> QED BY <1>2, <1>4, <1>5, <1>8, <1>9 DEF TotalsAgree, F

-----------------------------------------------------------------------------
\* The result holds every finding of every report exactly once and no other, fails only if
\* no analyzer reported, counts in its totals what it counts in its statistics, and is
\* outlived by a process only where an adapter raised (_build_result).
THEOREM ResultIsFaithful == Spec => []ResultFaithful
  <1>1. StageInv /\ ResultOfFindings => (result # NoAnalysis => FindingsKept /\ TotalsAgree)
    BY ResultKeepsFindings, ResultCounts
  <1>2. /\ StageInv /\ ResultOfFindings
        /\ result # NoAnalysis => OutcomeJustified
        /\ result # NoAnalysis => NothingOutlives
        => ResultFaithful
    BY <1>1 DEF ResultFaithful
  <1> QED BY <1>2, StageInvariant, ResultOfItsFindings, OutcomeIsJustified, NoProcessOutlivesResult, PTL

=============================================================================
