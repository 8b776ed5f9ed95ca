--------------------------- MODULE DiffExtractor ---------------------------
(***************************************************************************)
(* DiffExtractor.extract, one git command a step: the history is deepened  *)
(* until the merge base of the checked-out commit and the target branch is *)
(* in it, then the pull request's changes are read from two outputs of     *)
(* `git diff`.  Every command may fail or pass its time limit; what has    *)
(* been fetched by then stays fetched.                                     *)
(***************************************************************************)
EXTENDS ChangeSet

CONSTANTS
    Commits,
    NoCommit,       \* None: no target branch, no merge base
    CloneDepth,     \* fetch_depth of clone_commit
    FetchDepths     \* _FETCH_DEPTHS

ASSUME DiffAssumption ==
    /\ CloneDepth \in Nat \ {0}
    /\ FetchDepths \in Seq(Nat \ {0}) /\ Len(FetchDepths) > 1
    /\ IsFiniteSet(Commits) /\ NoCommit \notin Commits

VARIABLES
    history,    \* the remote's commits: their parents, the job's commit (head), the tip of
                \* its branch at the clone and now (tip, now), and the target's tip, if any
    pull,       \* what the pull request changes
    cut,        \* the commits the workspace has without their parents (.git/shallow)
    diffPc,     \* the next git command
    attempt,    \* index into FetchDepths
    base,       \* base_sha
    entries,    \* what numstat said
    changes     \* the PullRequestChanges returned

diffVars == <<history, pull, cut, diffPc, attempt, base, entries, changes>>

DiffPlaces == {"start", "fetch_target", "fetch_head", "merge_base", "rev_parse", "numstat",
               "patch", "index", "ended"}

-----------------------------------------------------------------------------
(* Commit graphs.                                                          *)

\* What is within d commits of a tip, and what of it is that far away.
Within(parents, tip, d) ==
    LET reached[n \in Nat] ==
          IF n <= 1 THEN {tip}
          ELSE LET nearer == reached[n - 1] IN nearer \cup UNION {parents[c] : c \in nearer}
    IN reached[d]
Edge(parents, tip, d) ==
    IF d = 1 THEN {tip} ELSE Within(parents, tip, d) \ Within(parents, tip, d - 1)
Depth(tip, d) == Within(history.parents, tip, d)
LastOf(tip, d) == Edge(history.parents, tip, d)

\* A shallow history goes no further than its cut.
Ancestors(c, shallow) ==
    Within([d \in Commits |-> IF d \in shallow THEN {} ELSE history.parents[d]], c, Cardinality(Commits))
Common(shallow) == Ancestors(history.head, shallow) \cap Ancestors(history.target, shallow)
\* A commit graph is finite, and some commit of any of its parts has no parent there.
IsHistory(h) ==
    /\ h.parents \in [Commits -> SUBSET Commits]
    /\ \A S \in (SUBSET Commits) \ {{}} : \E c \in S : h.parents[c] \cap S = {}
    /\ {h.head, h.tip, h.now} \subseteq Commits
    /\ h.target \in Commits \cup {NoCommit}

\* The common ancestors that are not reached from another one.
Best(shallow) == {c \in Common(shallow) : \A d \in Common(shallow) \ {c} : c \notin Ancestors(d, shallow)}

-----------------------------------------------------------------------------
Unavailable(reason) ==
    [status |-> "unavailable", reason |-> reason, files |-> {}, excluded |-> {},
     symbols |-> {}]
NoChanges == Unavailable("none")

\* clone_commit has fetched CloneDepth commits of the job's branch.
DiffInit(graph, requested) ==
    /\ history = graph
    /\ pull = requested
    /\ cut = Edge(graph.parents, graph.tip, CloneDepth)
    /\ diffPc = "start"
    /\ attempt = 1
    /\ base = NoCommit
    /\ entries = <<>>
    /\ changes = NoChanges

EndWith(result) ==
    /\ diffPc' = "ended"
    /\ changes' = result
DiffGoto(place) ==
    /\ diffPc' = place
    /\ UNCHANGED changes

\* WorkspaceSecurityError: a rejected branch name, a git command that failed or timed
\* out.  extract catches it once, around all of its commands.
GitFails ==
    /\ diffPc \notin {"start", "index", "ended"}
    /\ EndWith(Unavailable("error"))
    /\ UNCHANGED <<history, pull, cut, attempt, base, entries>>

\* extract: a job without a target branch, or with one validate_branch rejects.
BeginExtract ==
    /\ diffPc = "start"
    /\ \/ history.target = NoCommit /\ EndWith(Unavailable("no_target_branch"))
       \/ history.target # NoCommit /\ (DiffGoto("fetch_target") \/ EndWith(Unavailable("error")))
    /\ UNCHANGED <<history, pull, cut, attempt, base, entries>>

\* git fetch --depth deepens or shortens: the history of a tip is cut that far from it
\* and nowhere before, whatever else is cut there then.
FetchTo(tip, d) == cut' = (cut \ Depth(tip, d)) \cup LastOf(tip, d)

\* Mutation: every attempt fetches to the first depth.
FetchShallow(tip) == FetchTo(tip, FetchDepths[1])

Fetch(tip) == FetchTo(tip, FetchDepths[attempt])

FetchTarget ==
    /\ diffPc = "fetch_target"
    /\ Fetch(history.target)
    /\ DiffGoto(IF attempt > 1 THEN "fetch_head" ELSE "merge_base")
    /\ UNCHANGED <<history, pull, attempt, base, entries>>

\* The branch as it is now, which need not hold the job's commit any more.
FetchHead ==
    /\ diffPc = "fetch_head"
    /\ Fetch(history.now)
    /\ DiffGoto("merge_base")
    /\ UNCHANGED <<history, pull, attempt, base, entries>>

\* Mutation: the deepening asks for the same depth for ever.
MergeBaseForever ==
    /\ diffPc = "merge_base"
    /\ IF Common(cut) # {}
       THEN base' \in Best(cut) /\ DiffGoto("rev_parse")
       ELSE DiffGoto("fetch_target") /\ UNCHANGED base
    /\ UNCHANGED <<history, pull, cut, attempt, entries>>

\* Mutation: one deepening too many.
MergeBaseOnceMore ==
    /\ diffPc = "merge_base"
    /\ IF Common(cut) # {}
       THEN base' \in Best(cut) /\ DiffGoto("rev_parse") /\ UNCHANGED attempt
       ELSE /\ IF attempt <= Len(FetchDepths)
               THEN attempt' = attempt + 1 /\ DiffGoto("fetch_target")
               ELSE UNCHANGED attempt /\ EndWith(Unavailable("no_merge_base"))
            /\ UNCHANGED base
    /\ UNCHANGED <<history, pull, cut, entries>>

\* git merge-base answers with one best common ancestor of what it has, or exits 1.
MergeBase ==
    /\ diffPc = "merge_base"
    /\ IF Common(cut) # {}
       THEN /\ base' \in Best(cut)
            /\ DiffGoto("rev_parse")
            /\ UNCHANGED attempt
       ELSE /\ IF attempt < Len(FetchDepths)
               THEN attempt' = attempt + 1 /\ DiffGoto("fetch_target")
               ELSE UNCHANGED attempt /\ EndWith(Unavailable("no_merge_base"))
            /\ UNCHANGED base
    /\ UNCHANGED <<history, pull, cut, entries>>

RevParse ==
    /\ diffPc = "rev_parse"
    /\ DiffGoto("numstat")
    /\ UNCHANGED <<history, pull, cut, attempt, base, entries>>

ChangesOf(listed, patch) ==
    [status   |-> IF LineLevel(listed) THEN "available" ELSE "unavailable",
     reason   |-> IF LineLevel(listed) THEN "none" ELSE "too_large",
     files    |-> {ToChangedFile(listed[i], patch) : i \in Included(listed)},
     excluded |-> Excluded(listed),
     symbols  |-> {}]

\* _extract_changes goes on to the index only with files to look up in it.
AfterDiff(result) ==
    /\ changes' = result
    /\ diffPc' = IF result.status = "available" /\ result.files # {} THEN "index" ELSE "ended"

\* Too many changed lines, or none outside generated files: no patch is asked for.
Numstat ==
    /\ diffPc = "numstat"
    /\ \E fields \in {GitNumstat(pull)} : \E listed \in {ParseNumstat(fields)} :
          /\ entries' = listed
          /\ IF LineLevel(listed) /\ Included(listed) # {}
             THEN DiffGoto("patch")
             ELSE AfterDiff(ChangesOf(listed, <<>>))
    /\ UNCHANGED <<history, pull, cut, attempt, base>>

Patch ==
    /\ diffPc = "patch"
    /\ UNCHANGED <<history, pull, cut, attempt, base, entries>>
    /\ \E lines \in {GitPatch(pull, Excluded(entries))} : \E patch \in {ParsePatch(lines)} :
          \E found \in {ChangesOf(entries, patch)} : AfterDiff(found)

DiffStep == BeginExtract \/ FetchTarget \/ FetchHead \/ MergeBase \/ RevParse \/ Numstat \/ Patch

-----------------------------------------------------------------------------
ChangedFileType ==
    [path : Paths, old : Paths \cup {NoPath}, status : Statuses, binary : BOOLEAN, lines : Nat,
     added : SUBSET Nat, points : SUBSET Nat]

\* The commit the changes are computed from is an ancestor of both sides, the latest one
\* where commits have a single parent; and of a branch that stayed as it was, "no merge
\* base" is said only when no commit is within the last depth of both tips ("if the two
\* histories don't meet within it, both are fetched deeper", diff_extractor.py:12-15).
LastDepth == FetchDepths[Len(FetchDepths)]
Linear == \A c \in Commits : Cardinality(history.parents[c]) <= 1
MergeBaseRight ==
    /\ base # NoCommit => base \in Common({}) /\ (Linear => base \in Best({}))
    /\ changes.reason = "no_merge_base" /\ history.now = history.head =>
          Depth(history.head, LastDepth) \cap Depth(history.target, LastDepth) = {}
=============================================================================
