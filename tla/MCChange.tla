------------------------------ MODULE MCChange ------------------------------
(* The linter stage on small checkouts, pull requests and commit graphs.   *)
EXTENDS ChangeAnalysis

MCNoPath == "none"
MCPaths == {"a.py", "b.js", "old.js", "lock", "gone.js", "pic"}
MCGenerated == {"lock"}
MCFetchDepths == <<2, 3, 4>>

-----------------------------------------------------------------------------
(* What the tools answer.                                                  *)

MCAnswers ==
    [eslint |-> {[code |-> 1, out |-> "found"], [code |-> 2, out |-> "empty"],
                 [code |-> 1, out |-> "malformed"], [code |-> 1, out |-> "empty"]},
     pylint |-> {[code |-> 20, out |-> "found"], [code |-> 32, out |-> "empty"],
                 [code |-> 1, out |-> "odd"]},
     bandit |-> {[code |-> 1, out |-> "found"], [code |-> 2, out |-> "found"]},
     cc     |-> {[code |-> 0, out |-> "found"], [code |-> 1, out |-> "empty"]},
     mi     |-> {[code |-> 0, out |-> "found"]},
     raw    |-> {[code |-> 0, out |-> "found"], [code |-> 0, out |-> "malformed"]},
     hal    |-> {[code |-> 0, out |-> "found"], [code |-> 0, out |-> "odd"]}]

MCReports ==
    [eslint |-> <<[rule |-> "complexity", path |-> "b.js", line |-> 2, col |-> 1, value |-> 12, level |-> 2],
                  [rule |-> "complexity", path |-> "b.js", line |-> 3, col |-> 1, value |-> 11, level |-> 1],
                  [rule |-> "complexity", path |-> "b.js", line |-> 3, col |-> 1, value |-> 11, level |-> 1],
                  [rule |-> "none", path |-> "lock", line |-> 1, col |-> 1, value |-> 0, level |-> 2]>>,
     pylint |-> <<[type |-> "warning", rule |-> "unused", path |-> "a.py", line |-> 2, col |-> 1, end |-> 4],
                  [type |-> "convention", rule |-> "doc", path |-> "a.py", line |-> 6, col |-> 1, end |-> 0]>>,
     bandit |-> <<[error |-> FALSE, rule |-> "exec", path |-> "a.py", line |-> 4, col |-> 1, level |-> "HIGH"],
                  [error |-> TRUE, path |-> "a.py"]>>,
     cc     |-> <<[error |-> FALSE, path |-> "a.py", line |-> 5, end |-> 6, complexity |-> 11],
                  [error |-> FALSE, path |-> "a.py", line |-> 1, end |-> 2, complexity |-> 10]>>,
     mi     |-> <<[error |-> FALSE, path |-> "a.py", index |-> 49]>>,
     raw    |-> <<[error |-> FALSE, path |-> "a.py", loc |-> 6]>>,
     hal    |-> <<[error |-> FALSE, path |-> "a.py", volume |-> 7]>>]

-----------------------------------------------------------------------------
(* Pull requests.                                                          *)

Hunk(start, count, removed) == [start |-> start, count |-> count, removed |-> removed, disguised |-> FALSE]
Edit(path, hunks) ==
    [path |-> path, old |-> MCNoPath, status |-> "modified", binary |-> FALSE, hunks |-> hunks]

\* A removed line that reads like a header, a deletion between two findings, a rename
\* with an edit, a deleted file, a lockfile and a picture.
Rich == <<Edit("a.py", <<[Hunk(4, 1, 1) EXCEPT !.disguised = TRUE], Hunk(6, 0, 2)>>),
          [Edit("b.js", <<Hunk(2, 1, 0)>>) EXCEPT !.status = "renamed", !.old = "old.js"],
          [Edit("gone.js", <<Hunk(0, 0, 1)>>) EXCEPT !.status = "deleted"],
          Edit("lock", <<Hunk(1, 2, 0)>>),
          [Edit("pic", <<>>) EXCEPT !.binary = TRUE]>>
\* A file renamed over a lockfile, one added empty, one renamed as it was.
Moves == <<[Edit("lock", <<Hunk(1, 1, 0)>>) EXCEPT !.status = "renamed", !.old = "gone.js"],
           [Edit("a.py", <<>>) EXCEPT !.status = "added"],
           [Edit("b.js", <<>>) EXCEPT !.status = "renamed", !.old = "old.js"]>>
Generated == <<Edit("lock", <<Hunk(1, 9, 0)>>)>>
Large == <<Edit("a.py", <<Hunk(1, 9, 9)>>)>>

-----------------------------------------------------------------------------
(* Commit graphs.                                                          *)

MCCommits == 1..6
MCNoCommit == 0
Graph(parents) ==
    [parents |-> parents, head |-> 3, tip |-> 3, now |-> 3, target |-> 6]
\* 1 <- 2 <- 3 and 1 <- 4 <- 5 <- 6.
Fork == Graph(<<{}, {1}, {2}, {1}, {4}, {5}>>)
Beside == [Fork EXCEPT !.target = 2]
Unrelated == Graph(<<{}, {1}, {2}, {}, {4}, {5}>>)
\* 3 has merged the target's 4.
Merged == Graph(<<{}, {1}, {2, 4}, {1}, {4}, {5}>>)
\* The branch was rewritten after the job was queued.
Rewritten == [Fork EXCEPT !.now = 2, !.target = 5]
\* The branch has moved on: a fetch of it cuts the history of the job's commit short.
Moved == [Graph(<<{}, {1}, {2}, {3}, {4}, {5}>>) EXCEPT !.head = 4, !.tip = 4, !.now = 6, !.target = 2]
NoTarget == [Fork EXCEPT !.target = MCNoCommit]

-----------------------------------------------------------------------------
Code == [path |-> "a.py", suffix |-> ".py", parts |-> {"src"}, lines |-> 6]
Script == [path |-> "b.js", suffix |-> ".js", parts |-> {"src"}, lines |-> 3]
Shouting == [path |-> "A.PY", suffix |-> ".PY", parts |-> {"src"}, lines |-> 1]
Report == [path |-> "r.py", suffix |-> ".py", parts |-> {"coverage"}, lines |-> 1]
Symbols == <<[id |-> "C", path |-> "a.py", start |-> 1, end |-> 6],
             [id |-> "C.m", path |-> "a.py", start |-> 5, end |-> 6],
             [id |-> "f", path |-> "b.js", start |-> 1, end |-> 3]>>
Scenario(files, histories, requested) ==
    [checkout |-> [files |-> files, symbols |-> Symbols], histories |-> histories, pull |-> requested]

MCScenarios ==
    {Scenario({Code, Script}, {NoTarget}, Rich),
     Scenario({Code}, {Beside}, Rich),
     Scenario({Script}, {Fork, Beside, Unrelated, Merged, Rewritten, Moved, NoTarget}, Rich),
     Scenario({Script, Shouting}, {Beside}, Moves),
     Scenario({Script}, {Beside}, Generated),
     Scenario({Script, Report}, {Beside}, Large),
     Scenario({Report}, {Fork}, Rich)}
=============================================================================
