# A verification of the analysis engine

TLA+ models of the analysis engine service, checked with TLC on small instances
and, where it matters most, proved with TLAPS for every instance. The models are
read off the Python source under `src/src/analysis_engine`; `PROJECT.json` names,
for every definition, the lines it stands for.

## 1. The system

The service takes pull-request jobs from a RabbitMQ queue, checks the commit out,
runs linters on it, stores the result, and then lets a language-model agent review
the change with read-only tools. A second agent verifies each issue, a third one
suggests business rules on demand. Results, reviews, rules and feedback are in
PostgreSQL and are served over HTTP.

| Component | State | Operations | Hard behaviour | Correct when |
|---|---|---|---|---|
| Queue consumer (`consumers/`) | deliveries not yet acknowledged | decode, run, ack, nack | redelivery after a crash; a lost channel under a running handler; an exception outside the `try` | every message is settled once, after its work is stored |
| Orchestrator (`application/orchestrator.py`) | the job's result and review in memory | prepare, gather, `on_result`, review, `on_review` | failure between two commits | a review never without its result, an outcome never lost or overwritten |
| Workspace, git (`workspace/`) | a temporary checkout | clone, delete | readers of a checkout about to be deleted; subprocess time limits | the checkout is there for the handler's steps and does not leak |
| Repositories (`repositories/`, `schema.py`) | `analysis_results`, `findings`, `agent_reviews` | insert, upsert, latest | a commit whose reply is lost; two connections for one read | one row per run; the latest row is of the newest push |
| Agent loop (`agents/runtime/`) | rounds, tokens, cost, conversation | request, answer, repair, tools, timeout | four limits and one repair in any order | the limits hold, every call is answered, the run ends, answer and stop reason agree |
| Review (`review/`) | candidate findings, verdicts | validate, verify, filter, rank | parallel verifiers; outages; stale feedback | only an explicit, sound refutation removes an issue an agent could check |
| Rules (`api/rules.py`, `rules/`, `business_rule_repository.py`) | `business_rules`, `_MINING` | add, change, delete, suggest, load | read-modify-write over two statements; a background task with a list minutes old | only accepted rules apply; suggestions fill gaps; mining never blocks |
| Feedback (`api/analysis.py`, `feedback_repository.py`) | one verdict per user and issue | upsert, summarise | changes while a review runs | an issue marked wrong is not reported again |
| Diff (`diffing/`) | fetched history, hunks | deepen, merge base, parse, mark | the fetch limits; line arithmetic of hunks | a finding is marked exactly when its line was added |
| Analyzers (`analyzers/`, `factories/`) | a subprocess each | run, kill, parse | time limits; one tool failing or raising | one tool's failure never hides another's findings, an outage is no clean result |
| Normalizer, metrics (`application/`, `metrics/`) | none | deduplicate, count | findings of six tools with different fields | every finding once; totals and statistics count the same ones |
| Code index (`indexing/`, `domain/code_index.py`) | symbols, edges | walk, link, look up | files that fail half-way; names defined twice | an edge is right or missing, never wrong |
| Context, retrieval (`context/`, `retrieval/`) | budgets | cut, list, search, read | budgets and limits at their edges | what is cut is announced, but where section 3 says it is not; what a tool shows and announces is all there is |

How they interact: the broker invokes the consumer's handler, which calls
`AnalysisOrchestrator.run` with two callbacks into the repositories; the review
runs inside the workspace block and calls the agent loop, once for the Reviewer
and once per issue for the Verifier; rules and feedback are read from the tables
the HTTP handlers write; the miner is a task an HTTP handler starts.

## 2. The modules

| Module | Models | Runs |
|---|---|---|
| `AnalysisPipeline` | broker, consumer, orchestrator, workspace, result and review rows of one pull request | `pipeline_*` (through `MCPipeline`) |
| `JobContract` | what the pipeline promises webhook-listener and the readers of the API, abstractly | checked as `ImplementsContract` |
| `AnalysisPipeline_proofs` | theorems about both | |
| `AgentLoop` | `run_agent`, `_loop`, `_record` against an arbitrary model | `agent_*` (through `MCAgentLoop`) |
| `AgentLoop_proofs` | theorems about it | |
| `RuleStore` | rule handlers, rule table, miner's task | `rules_*` (through `MCRuleStore`) |
| `RuleStore_proofs` | theorems about it | |
| `ReviewFlow` | `ReviewOrchestrator._review`, `verify_findings`, `rank_and_cap`, with the rules and the feedback they read | `review_*` (through `MCReview`) |
| `ReviewFlow_proofs` | theorems about it | |
| `ChangeSet` | git's numstat and patch, the two parsers, line marks, changed symbols: functions | |
| `DiffExtractor` | the git commands of `DiffExtractor.extract` over a commit graph | |
| `Analyzers` | `run_process`, the seven processes, the adapters, Python's metrics | |
| `ChangeAnalysis` | composes the three: language detection, the two gathers, index, `_build_result` | `change_analysis` (through `MCChange`) |
| `ChangeSet_proofs` | theorems about the two parsers: what is read of any pull request git prints | |
| `ChangeAnalysis_proofs` | theorems about the three: the stage's invariant, the deepening, what the result holds and counts | |
| `PullRequest_proofs` | theorems about the commit graph, the merge base, the changes read and the findings marked; the stage's types | |
| `CodeIndex` | `CodeIndexer.build`, `RepoIndex` | |
| `ContextPack` | `ContextPackBuilder.build`, on `CodeIndex` and `ChangeSet` | |
| `ReviewInput` | composes the two with `changed_symbols`, `RetrievalTools` and `ToolExecutor` | `review_input` (through `MCContext`) |
| `ReviewInput_proofs` | theorems about it: the index, the pack's sections, the tools' answers | |

`AnalysisPipeline` takes the linter stage and the review as single steps with an open
outcome; `ChangeAnalysis` is the first taken apart, `ReviewInput` what the review is
started with, `ReviewFlow` the review, `AgentLoop` one agent in it.

Definitions introduced by "Mutation:" are deliberately wrong versions of the
definition that follows them. No specification uses them; each shows that a
property fails when the code has that bug (`PROJECT.json`, "mutants").

### AnalysisPipeline

A *message* is a push to the pull request, a *run* one invocation of
`_handle_message`. `job_id` and `result_id` are drawn anew in every invocation, so
a run is also the key of its rows. `pc[r]` is the await the run is at:

| `pc` | code |
|---|---|
| `prepare` | `git_env_for` and `clone_commit` in `WorkspaceManager.prepare` |
| `analyze` | the `gather` of analyzers and `_extract_changes`, then `_build_result` |
| `on_result` | `AnalysisResultRepository.save` |
| `announce` | the first `on_review`, with the "running" review |
| `review` | `ReviewOrchestrator.run` |
| `on_review` | the second `on_review`, with the outcome |
| `cleanup` | the `finally` of `prepare` |
| `ack`, `nack` | the consumer's last await |
| `unsettled` | the handler has raised outside its `try` |

`local[r]` is the coroutine's memory and disappears with it; `resultRow`,
`reviewRow` and `latest` are the database and stay; `workspaces` is the disk.
`ready`, `held` and `settled` are the broker. Every database call has three
outcomes: it commits, it rolls back and raises, or it commits and raises. Faults
are `Crash` (the process and all its runs die; the disk and the tables stay; the
broker requeues) and `LoseConnection` (the broker requeues while the handlers
either go on or are cancelled: aio-pika and the service leave this open).

`readers` are the tasks and processes a step leaves behind on a checkout: the verifiers
and the linters of a `gather` that has raised, and what a cancelled handler had started.
They end by themselves (`ReadersEnd`), before or after the checkout is deleted.

What the analyzers, the diff and the review return is chosen freely. `created_at`
is the time of the transaction's start; the model orders the rows by commit,
which is the same when one worker saves one row at a time, the case in which the
order of the rows is checked.

### JobContract

The service seen from outside: pushes are offered and settled, reports are stored and go
through `completed`, `reviewing`, `reviewed` (or are `failed` at once), and one of them is
the latest. Workers, channels, checkouts and faults are hidden. `AnalysisPipeline`
instantiates it as `Contract`: a report is a run, `answers` is the push of its result
row, `stage` is read off the two rows (`StageOf`), `fate` is what the broker settled
(`settled`), `shown` is `latest`. That an acknowledgement is only given for a push that
some stored report answers in full is a guard of `SettlePush`, not an invariant: the
refinement shows that no order of faults lets the pipeline step around it.

### ChangeSet, DiffExtractor, Analyzers, ChangeAnalysis

`ChangeAnalysis` is `AnalysisOrchestrator.run` from `detect_languages` to `_build_result`.
Two things run together there: the extraction (`diffPc`: one place for each git command,
then `index`) and the analyzers (`process`: one entry for each subprocess). `returned` is
what the inner gather holds; `BuildResult` is taken when both are over.

A history is a function from commits to their parents, and a shallow clone the set `cut` of
commits it has without their parents (`.git/shallow`). `git fetch --depth` and `git
merge-base` are modelled from what the code relies on: a fetch cuts the history of one tip
at one depth, whatever was there before, and merge-base answers with one best common
ancestor of what it has. The branch may have moved between clone and fetch (`tip`, `now`).
What git prints (`GitNumstat`, `GitPatch`) and what the parsers make of it
(`ParseNumstat`, `ParsePatch`) are written apart, the first from git's formats and the
second from the code, so that comparing the result with the pull request itself means
something. Lines of a patch are records of what they start with; a removed line that reads
like a header is printed as one.

A process ends with an exit code and an output of one of five kinds, fails to start, or is
killed at its limit; each adapter reads this in its own way, as the code does. A
report's messages are given per process (`Reports`). Averages and densities are quotients
of modelled sums and are left out.

### CodeIndex, ContextPack, ReviewInput

A source file is the sequence its syntax tree's walk meets: nodes with their grammar's
types, and the ends of definitions. `at` and `scope` are the walk's position and its stack;
`fileSymbols`, `fileEdges` are what `_index_file` would return, and are dropped when it
raises; `leftOut` is a history variable, the paths passed over or given up. The recursion of `visit` is the stack.

What the index hands out as a list of symbols or of edges is modelled as the set of their
places in `symbols` or `edges`, and `Listed` puts a set in the order of a `sorted` whose ties keep
the order of the list (`ByStart`, `ByPlace`). Two symbols may have one id;
`touched` holds places, since a changed symbol is shown with its own lines and found by its id only
afterwards, and of two changed symbols of one id either is kept.

The pack's sections are loops over what there is to show, with different endings: the rules,
symbols, callers and findings stop at the first that does not fit, the diff passes over it;
rules, symbols and findings are sliced first. `Show`, `PassBy` and `EndLoop` are these
loops' steps, and a text is the sequence of its lines' lengths. `left` is what a section's
note says is missing, `named` the files its text or note names: `Named` is the slice of a list
of names, of whose rest nothing is said. After the pack, the
tools answer one call at a time from the same index (`reply`), with their limits. An answer's
note is of one of three kinds: so many more (`more`), the line a file goes on at (`next`), or
that there is more, without a number (`partly`). Long lines are clipped with a mark
of their own (`tools.py:311-312`), which is left out. Tools whose arguments are rejected answer too.

### AgentLoop

One action for every exit and every branch of `_loop`; `phase` tells whether the
loop is at its top, awaits a completion, or awaits tools. The model's reply, its
tokens (up to the request's limit) and its cost are chosen freely. Two promises
of the API are taken for granted, as the code takes them: a completion keeps to
`max_output_tokens`, and a forced tool is the only one called. Money is counted
in whole units. `priced` is chosen at the start: with an unknown model
`cost_usd` is `None` and counts as nothing.

### RuleStore

A handler that reads and then writes (`add_rule`, `change_rule`) is two actions
with its pending row in `handler` in between; a DELETE is one statement. The
miner's task lists, mines (minutes), and inserts one suggestion at a time, each
committed on its own; any of its steps may raise. `accepted` is a history
variable: the ids a person has added or asked to be active.

### ReviewFlow

One review. `pc` is the await `_review` is at, and what the code does up to the next
await is one step:

| `pc` | await | then |
|---|---|---|
| `start` | `load_rules`, the context pack | `LoadRules`, or `Skip` before it |
| `reviewer` | `run_reviewer` | `RunReviewer`: the candidates are checked, the tasks created |
| `verify` | `gather` in `verify_findings` | `ApplyVerdicts`, or `GatherRaises` |
| `feedback` | `wrong_fingerprints` | `Report`: the report is ranked, merged, capped |

`AnalysisPipeline`'s `RunReview` is all of this in one step; here it is taken apart.
The verifier tasks go their own way (`Acquire`, `EndTask`): `gather` without
`return_exceptions` raises with the first of them that does, and the others go on
after the review has ended. A finding is known by its candidate's position.

Whether the checkout bears a piece of evidence out belongs to the evidence
("verified", "unverified", "invented"); a rule citation is judged against the rules
in force, which may have failed to load in whole or in part. What the agents answer,
which calls fail and which feedback people give meanwhile is chosen freely. The
report's loop takes the issues from the strongest to the weakest: `Merged` is the set it
ends with (an issue is in it unless a stronger one that is in it is at its place), `Lead`
the issue another is merged into, `Top` the slice. `paid` is a history variable: the runs that have cost something.

## 3. What the runs show

Constants are in the `.cfg` files. "Bound" constants only limit the exploration.

| Run | Instance | Shows |
|---|---|---|
| `pipeline_faults` | 2 workers, 2 pushes, prefetch 1, 3 runs, 1 fault of either kind | what is acknowledged is stored; review after result; each message in one place; one more row per fault at the most; outcomes stand; the contract is implemented |
| `pipeline_one_worker` | 1 worker, 3 pushes, the second malformed, 4 runs, 1 fault, 1 reader left behind at a time | the types; a handler and what is left behind on its checkout keep it until the handler's cleanup; every message is settled; the latest row never goes back to an older push unless a handler that outlived its channel stores it |
| `pipeline_stuck_review` | 1 worker, 1 push, 1 crash | **violated**: a review announced as running gets an outcome |
| `pipeline_undecodable` | 1 worker, 2 pushes, the first no UTF-8 | **violated**: a worker finishes what it holds |
| `agent_loop` | 3 rounds, 4 tokens with a reserve of 2, cost cap 5 with wind-down at 4, calls cost up to 3 | the limits, forced last request, answered calls, answer exactly when submitted, termination |
| `agent_forced` | the same | **violated**: a run that gives up was forced to answer first |
| `rules_concurrent` | 2 rules, 2 requests under way, the miner, restarts | only accepted rules are active; the miner fills gaps; `_MINING` is exact and cleared |
| `rules_lost_reject` | the same | **violated**: a rejection stands until a person revokes it |
| `review_flow` | 6 answers of the Reviewer with up to 3 candidates, 2 rules (one of them in the file and in the store), 2 verifiers at a time, at most 2 issues reported, 1 developer | what is reported was checked; what is gone has its cause; one issue per place; a violated rule is shown; cost; feedback; the review and its tasks end |
| `review_merged_rule` | the same | **violated**: a rule is not confirmed only when no reported issue rests on it |
| `change_analysis` | 7 scenarios of checkout, pull request and history: 6 commits in chains, a fork, a merge, unrelated, rewritten and moved branches; depths 2, 3, 4 after a clone of 2; at most 2 processes without a report | the result is that of the tools' reports; marks are exact; the merge base is right or really missing; a result comes |
| `review_input` | 3 repositories of up to 4 files, 3 pull requests with limits of a few characters and items | edges are right; the sections of rules, diffs, symbols, callers and findings announce what they leave out, the others name the files they promise; what a tool shows and what its note counts is all there is, or the note says so; no limit is passed |

Why the bounds are enough. Two workers and two pushes already give two handlers
of one push (after a fault) next to a handler of another. One fault can hit any
await; a second one would only repeat it, and the proofs cover any number. Three
runs are the two pushes and the redelivery. `MaxReaders` bounds what is left behind at a time;
it is 0 where no property speaks of readers, which nothing else in the model looks at, and one
reader is left behind by either gather and ends before or after the cleanup. In `agent_loop` three rounds separate
a first, a middle and a last one, the reserve is smaller than the budget and
larger than what may be left, and one call can cost more than what separates the
wind-down from the cap. Two handlers enclose one read-modify-write in another;
two rules let a mining run fail between two inserts.
The six answers of `review_flow` hold a chain of overlaps of which the middle one
scores least, an issue of two rules of different severity, a pair that is merged
across rules, candidates that fail each of the evidence checks, and none; three
findings and two places make a verifier wait for the semaphore. One answer has three
issues at places of their own, of which the cap of two leaves one out.

`change_analysis` has one scenario in which all seven processes run with the shortest
extraction, and others in which the histories vary and one process runs: the two sides
meet in the result only. Two processes without a report make two tools of three fail, or
an adapter raise while another tool runs; `MaxTrouble` bounds nothing but this. Three
depths have a first, a middle and a last attempt, and the graphs have merge bases within
each of them, beyond the last, and none. The pull requests hold a hunk that adds, one that
only removes, one whose lines read like headers, a rename with and without an edit, a
rename over a generated file, a deletion, a binary and an empty file, and too many lines.
In `review_input` every loop has more items than its slice, an item that does not fit
followed by one that would, and an item longer than the whole budget; a name has no, one or
two definitions, definitions nest three deep, a file is skipped, unreadable, or fails at any node. A section
has room for one name, so that two generated files are one too many; the last line `read_file`
is asked for is none, one within its limit, or one beyond the limit or the file; and a file
has more matches than git may give of one.

The pipeline, the agent, the linter stage and the tools' run end: when all messages are
settled, the run is over, or the result is there, nothing is left to do, and these runs do
not check for deadlock. The rule store and the feedback never stop, and
their runs are checked for it.

### Where the code and what is said of it differ

- `pipeline_stuck_review`: the row of an announced review is only ever completed by
  the coroutine that announced it. After a crash, or when the second save raises,
  it says "running" for good, and the documented polling never ends.
- `pipeline_undecodable`: `json.loads` raises `UnicodeDecodeError` for a body that
  is no UTF-8, and the consumer catches `JSONDecodeError` only. The delivery is
  neither acknowledged nor rejected. With a prefetch of one the worker is idle
  from then on, and after a restart the same message comes first again.
- `agent_forced`: one expensive completion can go from below 80% of the cost cap to
  the cap. The run then returns with nothing, unforced.
- `rules_lost_reject`: two PATCH requests, one rejecting the rule, one editing its
  text; the second read the row first and writes the old status back.
- `review_merged_rule`: when an issue is merged into a stronger one, its evidence moves
  over and its `rule_ids` do not. The rule's check then says "not_confirmed" while a
  reported issue carries the citation.

More differences have no run of their own. The models have them; no property of a passing
run says that they do not happen.

- The `gather` of the verifiers (`verification.py:77`) and that of the Python tools
  (`python_analyzer.py:92`) have no `return_exceptions`. When one of them raises, the others
  go on, and the handler leaves the block and deletes the checkout under them.
  `orchestrator.py:106` and `docs/agent-architecture.md:650` have it that the agents' checkout
  exists while they read it. `CheckoutLifetime` says of such readers only that nothing but the
  handler's cleanup takes it from them.
- `add_rule` looks whether the id is free (`api/rules.py:58`) and upserts the rule (`:64`) in
  two statements. When another POST or the miner stores the id in between, the second request
  replaces that rule and answers 201; `tests/test_rules_api_and_mining.py:87` expects a 409.
- The pull request's section names twenty generated files (`context_pack.py:136`), a note of
  the diff ten credential files (`:203`), and neither says that there are more; the repository
  map throws the flag of its cut away (`:308`) and shows forty entries of the top level (`:301`)
  and fifteen imports of a file (`:306`).
  `:91` says that every section "says what was cut". `OmissionsAnnounced` says how many are
  named.
- `docs/agent-architecture.md:601` says of merged issues that "the highest severity wins";
  `rank_and_cap` keeps the one with the highest severity x confidence, so a less certain "high"
  issue can disappear in a "medium" one (`GoneForCause` is stated with the code's order).
- The cost of verifiers is lost when one of them raises, although `review/README.md:21`
  promises a failed review "whatever it cost" (`CostAccounted` is stated of completed reviews).

More of the kind, met in the linter stage and in what the Reviewer is given. The properties
are stated with the code's behaviour; where they make an exception for one of these, their
comment says so.

- `python_analyzer.py:92` gathers the three tools without `return_exceptions`: an
  exception an adapter does not expect (JSON of another shape) loses what the others found,
  and their processes go on while the checkout is deleted. `last_result` is then `None`,
  which `python_metrics.py:200-208` says means that no Python was detected.
- An adapter may take a crash for a clean report: Pylint and ESLint that exit with 1 and
  write nothing (`pylint_analyzer.py:96`, `eslint_analyzer.py:81-88`), Bandit likewise
  (`bandit_analyzer.py:72-81`), Radon with any exit code (`radon_analyzer.py:141`).
  `orchestrator.py:117-121` has it that an outage must not look like "nothing to report".
- A file "A.PY" makes the checkout a Python one, but `rglob("*.py")` does not find it; a
  Python file under "coverage" is found but does not make it one, although
  `language_detector.py:17-19` says the names agree.
- A new or deleted empty file has no "+++" line, so `_to_changed_file` calls it "modified".
  A file renamed to an excluded path leaves the deletion of its old path in the patch.
- `fetch --depth` of a branch that has moved may cut the history of the job's own commit
  shorter than it was. "No merge base" is then said although one is within the limit;
  `MergeBaseRight` promises the contrary of branches that have not moved only.
- A symbol's id is its path and qualified name: a redefinition or a property's setter
  shares it, and the index keeps the later one. A call may be linked to a wrong symbol when
  the file with the other definition failed; `domain/code_index.py:41` speaks of one symbol
  "in the repository", the code of one in the index.
- The callers' section is dropped in silence when its first entry alone exceeds the budget
  (`context_pack.py:259-266`), and its note says that there are more callers, not how many
  (`:270`). Separators between entries are not counted.
- The notes of `get_symbol_source` (`tools.py:91`) and of a search that met the cap of a file
  (`:217-218`) have no number; matches beyond that cap are in no count.
- `_with_path` reads the first eight lines of a file's diff: an added line "++ b/x" among
  them is taken for its name. `splitlines()` also splits at form feeds, which git does not.
- Findings of severity `info` are left out of the totals and counted as warnings in the
  statistics by rule and by file; Python's metrics count before deduplication.

### Fairness

- Pipeline: weak fairness of each run's steps, as every await of a run ends (git, the
  linters and the model have time limits); of delivery,
  as the broker delivers to a consumer with room; of `Restart`, as
  `docker-compose.yml` restarts the service. Nothing is assumed of `Publish`, crashes
  or the outcome of a call.
- Agent: weak fairness of the loop's own synchronous steps and of the timer. That the
  model or a tool answers is not assumed.
- Linter stage: weak fairness of its steps taken together. A linter or a git command ends
  or is killed at its time limit, and asyncio runs what is ready; each step brings the end
  nearer, so nothing is assumed of which comes first.
- Rules: weak fairness of the miner's task: its clone, git and model calls have time
  limits. Nothing is assumed of people.
- Review: weak fairness of the review's steps and of each verifier, as `run_agent` has a
  time limit around all of its awaits, and git has its own. Nothing is assumed of developers.
- The asyncpg pool sets no time limit for a statement (`database.py:19-27`): that a call to
  the database returns or raises is an assumption of the pipeline, the rules and the review.

## 4. What is proved

For every value of the constants, under the assumptions named in the modules
(`PipelineAssumption`, `AgentAssumption`, `RuleAssumption`, `ReviewAssumption`,
`ChangeSetAssumption`, `DiffAssumption`, `AnalyzersAssumption`, `PackAssumption`,
`ToolAssumption`: the constants are of the right kind, the bounds naturals). Two
assumptions say what the code is given from outside: a history is a finite graph of commits
without cycles, and a pull request has each path once and does not change a path it renames
away (`ScenarioAssumption`); a repository has each path once, and a file's walk is
one over a syntax tree (`RepositoryAssumption`): each definition ends after it began, they
nest, and nodes come in the order of their lines; the rules and the findings of a request
have ids of their own, the checkout has the lines the index speaks of, paths are
ordered, and the diff has the form git gives it (`InputAssumption`, `GlobAssumption`). Of that form
`_split_diff` needs that a path has one section, begun by the only line of it that reads
"diff --git", and `_with_path` that no line of its hunks among its first eight lines reads like a
header of another file; a change of a file's type, which git prints as two sections of one path,
is outside it. `LatestForward` has the hypothesis
`OneAtATime` (one worker, a prefetch of one), the configuration it is about.

**Pipeline.** `IInv` is `TypeOK` with what a run at each place has stored by then
(`Stages`), which runs have a checkout (`Checkouts`) and where each message is
(`Custody`). The properties alone are not inductive: that an acknowledged message is
saved needs to know, at `ack`, that the result and the outcome are stored, which is
established two or three awaits earlier and must survive crashes of other runs; that
one message has one custodian needs that a run that holds a delivery is still active
and that a run not started has none. There is one lemma for each action; `CustodyFrame`,
`SettleCustody` and `RequeueCustody` carry the broker's part for all of them. From
`IInv` follow `AckMeansSaved`, `ReviewFollowsResult`, `CheckoutLifetime`,
`OneCustodian`, and the action property `OutcomeStands`. `CheckoutLifetime` is about
what handlers leave behind as well: a reader has the checkout as long as its run is in the block,
and without one its run has left the block by the cleanup (`NewReaders`). `RowsBounded` counts: a push has been
started at most once more than there were faults, and once less than that while it waits in the
queue (`RunsPerFault`, inductive next to `IInv`), since only a crash or a lost connection puts it
back; a run stores one row at most, hence `RowsPerFault`. `PipelineImplementsContract` is
the refinement: each step maps to one of the contract or to a stutter, and the guards of
the contract (a result before its review, an answer before the acknowledgement, one
settlement) are what `IInv` says of the place the run is at. `LatestForward` rests on `InOrder`, inductive next to
`IInv`: with one worker and one delivery at a time no push is started before every older one
is settled, so that what a run with its delivery stores is never of an older push than the
latest row.

**Agent.** `IInv` adds what the top of the loop has established for the request under
way (its limit fits the budget and one reserve per round, its cost was below the cap,
a repair has been asked for) and for the next round. From it follow `RoundLimit`,
`LastRequestForced`, `TokenLimit`, `CostLimit`, `AnswerIffSubmitted`, `GivesUpAtLimit`,
`AllAnswered` and `InvalidAfterRepair`.

**Rules.** `ActiveIsAccepted` needs that a pending save of an active rule was accepted
or accepts it itself (`Requests`). `MinerFillsGaps` follows from what each step of the
task changes.

**Review.** `IInv` says of every finding not yet dropped what it holds (`Holds`: it passed
the check, its evidence includes the candidate's and nothing invented, its severity is
within both bounds), of the tasks and the cost what they are at each `pc` (`Costs`: before
the verdicts are applied every ended task is paid for; after, nothing runs that the review
has not accounted for), and that a report exists only of a completed review (`Phases`).
`ReportIsChecked` alone is not inductive: it speaks of reported issues only, and a merge
moves evidence between findings that may not be reported. `Capped` is the lemma on
`_capped_severity`, `AdjustedDown` the one on the Verifier's severity, `ChecksOfReport` the
one on the rules' outcomes and the risk. From `IInv` follow `ReportIsChecked`,
`ViolationIsShown` and `CostAccounted`; `WrongStaysOut` follows from the `Report` step alone.
`Causes`, inductive next to `IInv`, keeps why each candidate was dropped and that the report
is the top of the merged issues. What the loop of `rank_and_cap` ends with exists and is
unique by induction along the ranking (`Before` is a strict order of a finite set), and gives
`GoneForCause` (an issue left out lost to stronger ones at its place, or to as many as are
reported) and `OneIssuePerPlace` (two issues at one place are never both merged ones).

**Linter stage.** `StageInv` says what each analyzer's end tells of its processes, in a form
that stays true when other processes end later, as they do after an adapter has raised. From it follow
that no process outlives the result unless an adapter raised, that a result is made when all
have ended, and that it is "failed" exactly if analyzers were selected and each of them gave
nothing, whether it ended without a report or an adapter took its siblings along
(`OutcomeIsJustified`).
`DiffInv` follows the deepening: after an attempt nothing nearer than its depth to either
tip is cut, but for what the second fetch cuts of the first one's history. From it follows that the base is a
best common ancestor of what has been fetched.

`ResultFaithful` is about the result. `ResultOfFindings`, inductive next to `StageInv`,
says that the result is what the analyzers that returned still say, whichever processes end
later. What is left are facts about its functions: what each tool owes is what was gathered
from it (`EslintOwed`, `ToolsOwed`, `PythonOwed`), normalizing keeps one finding for each place
and rule, the one met first (`ListedIndexed` to `PlacesOnce`), and the statistics by rule count
each finding under one rule (`SumByRule`, by induction over the set of rules).

`MergeBaseRight` says of the whole history what `DiffInv` says of the fetched one.
`Ancestors` is the least set that holds a commit and the parents of what it holds; it is
computed by as many rounds as there are commits, and a set that grows in each round would
outgrow them (`WithinSaturates`). A commit within the last depth is one the fetched history
reaches (`DepthIsKnown`), hence `NothingInReach`. Where commits have a single parent, a common
ancestor later than the base would be on the way from a tip to the base, where nothing is cut
(`OnTheWay`), hence `BestOfAll`.

`MarksExact` compares what the service has read with the pull request itself, so it needs what the
parsers compute of any output of git. Their loops are functions of 0..n, and induction up to n
(`UpTo`) gives that such a function exists (`StepsExist`), what each step keeps (`StepsKeep`), and
where each part of a sequence put together is (`JoinedPlaces`). `NumstatRead`: the loop over the
fields is at the start of a change after each turn (`OneMoreTurn`), a rename's three fields
included. `PatchRead`: `Reads` says that lines take the reader from one state to another, and
composes (`ReadsBoth`); the header of a hunk is read and its lines are not, whatever they look like
(`HunkIsRead`), so that a section leaves one file, with the lines its hunks add and the
places where they only remove (`SectionIsRead`), or none if it has no patch; a section under another
path changes nothing of it (`KeptStays`), which for the removal of a rename over an excluded path
takes that no other change has the old path. `FileIsRead` joins an entry with its section.
`PullInv`, inductive next to `DiffInv`, says that the entries and files read by then are those of
the pull request, and `MarksExact` follows (`MarkMeaning`). The types follow from `StageInv`,
`DiffInv`, `PullInv` and that what is fetched are commits (`CommitsInv`).

**Review input.** `IndexInv` says that every call's owner is a symbol of the same list, that
nothing is linked before the end, and what the linking has done after it. From it follow
`CallsAreLinked`, `CallersAreKnown`, and that the index agents
and tools read no longer changes. `WalkInv` says that `scope` is the definitions open at the
node, outermost first, that every symbol is of a definition of its file, and that a call's owner
was the last one opened around it. `OpenDefinition`, `OpenEnd` and `OpenOther` say what is open
after each kind of node, and `InnermostByLines` turns the nesting of nodes into one of lines:
any other definition on whose lines the call is contains the owner, or begins or ends on the
very line of the call, where lines do not tell. A path in `leftOut` is none of a file still to come
and none of a symbol or an edge (`ComesOnce`, `FailedFilesLeaveNothing`). `EdgesRight` follows.

`TypeInv` adds that every symbol's lines are lines its file has, and that an edge points to a
symbol of the list or to none; the first is what makes the slices of the tools and of the pack
as long as they say. `Ranked` says that a sorted list has each member of a finite set once, in
its order: the members before one are fewer than those before a later one, so that their counts
are the numbers from 0, each met once. Each order the code sorts by is strict and total
(`Lexicographic`): the place in the list or an id tells two apart that the rest of the key does
not. The sections of a diff are one for each path (`StartOfPath`, `SectionOfPath`), and
`_with_path` gives each its own (`PathOfSection`), so that the omitted diffs can be counted.

`PackInv` is about the loop under way. `QueueRight` says that the queue is what its section
owes, each once, the graver findings first; `LoopRight` that what is shown is of what the loop
has gone over, each once, that nothing but a diff or an unreadable symbol has been passed by,
and that the budget is kept; `PackRight` that each built section is right and which of them
exist by now. `OmissionsAnnounced` is not inductive without them: the number in a section's note
is right only if the queue had no item twice when its loop began and every item passed by
since is counted. What the pull request's and the diff's section name is a slice of a list of a set
(`NamedRight`); nothing is said of the map, which cuts in silence.

`AnswersRight` compares an answer with what was asked of the index and the checkout, not with
the list the tool has made of it: `Wanted` is stated in terms of symbols, edges, lines, matches
and findings. An answer is made in one step, from an index that fits the files (`IndexInv`,
`TypeInv`), and there is one lemma for each tool. `ListedOnce` and `ListedItself` carry a sorted
list over to the set it was made of; `ListingRight` does the slice. `TestsRight` has a list of
its own, in which a test with many calls stands once, at its first; `SearchRight` has the cap of
a file between what matches and what is counted (`MatchesFound`); `ReadFileRight` and
`SourceRight` rest on the symbol's lines being lines of its file (`LinesShown`, `PartRead`). An
answer stays right, since nothing it was made from changes any more (`AnswerStays`).

Only model-checked: liveness (`EveryMessageSettled`, `RunEnds`, `MiningEnds`, `ReviewEnds`,
`StageEnds`), which needs fairness. Every invariant and every action property the runs expect to hold
is the conclusion of a theorem.

## 5. What is not modelled

- What language models, linters, tree-sitter and git's own diff compute; the wording of
  prompts, messages and logs.
- Clone credentials: a stateless lookup whose failures are those of the clone and the fetches.
- Redaction and the resolution of paths in `retrieval/`: string functions. A file that may not
  be shown is a member of a set.
- The validation of clone URLs, branch names and commit ids: a rejected one is one of the
  ways in which `Prepare` or a git command fails.
- Quoting of file names in a patch (`_unquote`): paths are atoms.
- The evaluation harness: an offline command-line tool and its cases, no part of the service.
- The health endpoint, the usage report and the feedback summaries only read. The API's
  result and its review are read over two connections: the pair may be of two moments,
  which a client that polls cannot tell from having asked a moment later.
- The graceful shutdown of `main.py` closes the broker connection under running handlers and
  then ends the process: it is a `LoseConnection` followed by a `Crash`.

## 6. Plan

The modules above follow the plan they were written by: the pipeline first, then the agent,
the rules and the review, then the linter stage and what the Reviewer is given. What is left:

1. `ChangeAnalysis` as an implementation of the pipeline's `Analyze` step, and `ReviewInput`
   with `ReviewFlow` as one of `RunReview`.
2. The reads of the API over two connections, if the repositories come to promise more of the
   pair than they do now.
3. The parsing of evidence references in `validation.py` against the index's lines.
