----------------------------- MODULE ChangeSet -----------------------------
(***************************************************************************)
(* What a pull request changes: as git prints it, as the service reads it, *)
(* and as it is used to tell a linter finding on a changed line from one   *)
(* that was there before.                                                  *)
(*                                                                         *)
(* A change is what the pull request did to one file.  Its hunks are those *)
(* of `git diff --unified=0`: `start` and `count` are the new side of the  *)
(* header, and `removed` says how many removed lines follow, `disguised`   *)
(* whether its lines read like headers of the patch (a removed "-- x" is   *)
(* printed as "--- x").  Paths are atoms; NoPath is /dev/null and None.    *)
(***************************************************************************)
EXTENDS Integers, FiniteSets, SequencesExt

CONSTANTS
    Paths,
    NoPath,
    GeneratedPaths, \* lockfiles, build output, vendored and minified files
    MaxLineLevel    \* MAX_LINE_LEVEL_CHANGES

ASSUME ChangeSetAssumption ==
    /\ NoPath \notin Paths
    /\ GeneratedPaths \subseteq Paths
    /\ MaxLineLevel \in Nat

Statuses == {"added", "modified", "deleted", "renamed"}

-----------------------------------------------------------------------------
(* What git prints of a change.                                            *)

SumOf(numbers) ==
    LET sum[n \in 0..Len(numbers)] == IF n = 0 THEN 0 ELSE sum[n - 1] + numbers[n]
    IN sum[Len(numbers)]
Counts(c) ==
    [added   |-> SumOf([i \in DOMAIN c.hunks |-> c.hunks[i].count]),
     removed |-> SumOf([i \in DOMAIN c.hunks |-> c.hunks[i].removed])]

\* The changes git finds between two commits: each path once, and the old path of a
\* rename is gone, or it would be no rename.
HunkType == [start : Nat, count : Nat, removed : Nat, disguised : BOOLEAN]
ChangeType ==
    [path : Paths, old : Paths \cup {NoPath}, status : Statuses, binary : BOOLEAN, hunks : Seq(HunkType)]
IsPull(pull) ==
    /\ pull \in Seq(ChangeType)
    /\ \A i \in DOMAIN pull : pull[i].status = "renamed" <=> pull[i].old # NoPath
    /\ \A i, j \in DOMAIN pull : (pull[i].path = pull[j].path => i = j) /\ pull[i].old # pull[j].path

\* `git diff --numstat -z -M`: a rename leaves the path empty, and the two names
\* follow as fields of their own.  "-" is written -1.
Record(c, path) ==
    IF c.binary THEN [path |-> path, added |-> -1, removed |-> -1]
    ELSE [path |-> path, added |-> Counts(c).added, removed |-> Counts(c).removed]
NumstatOf(c) ==
    IF c.status = "renamed"
    THEN <<Record(c, NoPath), [path |-> c.old], [path |-> c.path]>>
    ELSE <<Record(c, c.path)>>
GitNumstat(changes) == FlattenSeq([i \in DOMAIN changes |-> NumstatOf(changes[i])])

\* One section of `git diff --unified=0 -M`.  A file without hunks (an empty file, a
\* change of mode, a pure rename) has no ---/+++ lines.
SideOld(c) == IF c.status = "added" THEN NoPath ELSE IF c.status = "renamed" THEN c.old ELSE c.path
SideNew(c) == IF c.status = "deleted" THEN NoPath ELSE c.path
HunkLines(h) ==
    <<[head |-> "@@", start |-> h.start, count |-> h.count]>>
    \o [i \in 1..h.removed |-> IF h.disguised THEN [head |-> "---", path |-> NoPath]
                               ELSE [head |-> "-"]]
    \o [i \in 1..h.count |-> IF h.disguised THEN [head |-> "+++", path |-> NoPath]
                             ELSE [head |-> "+"]]
Section(c) ==
    <<[head |-> "diff --git"]>>
    \o (CASE c.status = "added"    -> <<[head |-> "new file mode"]>>
          [] c.status = "deleted"  -> <<[head |-> "deleted file mode"]>>
          [] c.status = "renamed"  -> <<[head |-> "rename from", path |-> c.old],
                                        [head |-> "rename to", path |-> c.path]>>
          [] c.status = "modified" -> <<>>)
    \o (IF c.binary THEN <<[head |-> "Binary files", old |-> SideOld(c), path |-> SideNew(c)]>>
        ELSE IF c.hunks = <<>> THEN <<>>
        ELSE <<[head |-> "---", path |-> SideOld(c)], [head |-> "+++", path |-> SideNew(c)]>>
             \o FlattenSeq([i \in DOMAIN c.hunks |-> HunkLines(c.hunks[i])]))

\* The patch without the excluded paths.  Of a file renamed to an excluded path, the
\* removal of its old one is left.
Removal(c) ==
    [path |-> c.old, old |-> NoPath, status |-> "deleted", binary |-> c.binary,
     hunks |-> <<[start |-> 0, count |-> 0, removed |-> 1, disguised |-> FALSE]>>]
Shown(c, excluded) ==
    IF c.path \notin excluded THEN Section(c)
    ELSE IF c.status = "renamed" THEN Section(Removal(c))
    ELSE <<>>
GitPatch(changes, excluded) ==
    FlattenSeq([i \in DOMAIN changes |-> Shown(changes[i], excluded)])

-----------------------------------------------------------------------------
(* How the service reads it.                                               *)

\* One entry of the numstat output: a rename takes two fields more.
EntryAt(fields, i) ==
    IF fields[i].path = NoPath
    THEN [path |-> fields[i + 2].path, old |-> fields[i + 1].path,
          added |-> fields[i].added, removed |-> fields[i].removed]
    ELSE [path |-> fields[i].path, old |-> NoPath,
          added |-> fields[i].added, removed |-> fields[i].removed]

\* What n turns of the loop over the fields make; as below, one record in a set, so that
\* it is made once.
ParseNumstat(fields) ==
    LET turn(t) == IF t.next > Len(fields) THEN t
                   ELSE [next |-> t.next + (IF fields[t.next].path = NoPath THEN 3 ELSE 1),
                         entries |-> Append(t.entries, EntryAt(fields, t.next))]
        turns[n \in 0..Len(fields)] ==
            IF n = 0 THEN {[next |-> 1, entries |-> <<>>]} ELSE {turn(t) : t \in turns[n - 1]}
    IN (CHOOSE t \in turns[Len(fields)] : TRUE).entries

IsGenerated(path) == path \in GeneratedPaths

(* The reader of the patch: the sections read so far by path, the section it is   *)
(* in, the path of its "---" line, and whether its first hunk has been seen.      *)
NoSection == [path |-> NoPath, old |-> NoPath, status |-> "none", binary |-> FALSE,
              added |-> {}, points |-> {}]
NewSection == [NoSection EXCEPT !.status = "modified"]
Reader == [files |-> <<>>, current |-> NoSection, minus |-> NoPath, inHunks |-> FALSE]

\* The section is kept under its path as soon as it has one.
Filed(files, section) ==
    [p \in DOMAIN files \cup {section.path} |-> IF p = section.path THEN section ELSE files[p]]
Keep(r, section) ==
    [r EXCEPT !.current = section,
              !.files = IF section.path = NoPath THEN @ ELSE Filed(@, section)]

\* Mutation: a hunk that only removes is taken for one added line.
ApplyHunkRemovalAdds(section, line) ==
    [section EXCEPT !.added = @ \cup line.start .. (line.start + (IF line.count = 0 THEN 0 ELSE line.count - 1))]

\* The added lines are the range the header states; a hunk that only removes is
\* remembered by the line before it, 1 at the top of the file.
ApplyHunk(section, line) ==
    IF line.count > 0
    THEN [section EXCEPT !.added = @ \cup line.start .. (line.start + line.count - 1)]
    ELSE [section EXCEPT !.points = @ \cup {IF line.start > 1 THEN line.start ELSE 1}]

\* One line of the patch.  Header lines count only before a section's first hunk: after
\* it, a removed line may look like one.
ReadHeader(r, line) ==
    CASE line.head = "new file mode" -> Keep(r, [r.current EXCEPT !.status = "added"])
      [] line.head = "deleted file mode" -> Keep(r, [r.current EXCEPT !.status = "deleted"])
      [] line.head = "rename from" ->
            Keep(r, [r.current EXCEPT !.status = "renamed", !.old = line.path])
      [] line.head = "rename to" -> Keep(r, [r.current EXCEPT !.path = line.path])
      [] line.head = "Binary files" ->
            Keep(r, [r.current EXCEPT !.binary = TRUE,
                                      !.path = IF line.path # NoPath THEN line.path ELSE line.old])
      [] line.head = "---" -> [r EXCEPT !.minus = line.path]
      [] line.head = "+++" ->
            Keep(r, [r.current EXCEPT !.path = IF line.path = NoPath THEN r.minus ELSE line.path])
      [] OTHER -> r
ReadLine(r, line) ==
    IF line.head = "diff --git"
    THEN [r EXCEPT !.current = NewSection, !.minus = NoPath, !.inHunks = FALSE]
    ELSE IF r.current.status = "none" THEN r
    ELSE IF line.head = "@@" THEN [Keep(r, ApplyHunk(r.current, line)) EXCEPT !.inHunks = TRUE]
    ELSE IF r.inHunks THEN r
    ELSE ReadHeader(r, line)

\* (The one reader is kept in a set so that a line is read once.)
ReadAll(lines) ==
    LET readers[n \in 0..Len(lines)] ==
            IF n = 0 THEN {Reader} ELSE {ReadLine(r, lines[n]) : r \in readers[n - 1]}
    IN readers[Len(lines)]
ParsePatch(lines) == (CHOOSE r \in ReadAll(lines) : TRUE).files

\* The file list is numstat's, the lines are the patch's, joined by the new path.
ToChangedFile(entry, patch) ==
    LET found == entry.path \in DOMAIN patch
    IN [path    |-> entry.path,
        old     |-> entry.old,
        status  |-> IF found THEN patch[entry.path].status
                    ELSE IF entry.old # NoPath THEN "renamed" ELSE "modified",
        binary  |-> entry.added = -1,
        lines   |-> IF entry.added = -1 THEN 0 ELSE entry.added + entry.removed,
        added   |-> IF found THEN patch[entry.path].added ELSE {},
        points  |-> IF found THEN patch[entry.path].points ELSE {}]

\* The places of the entries outside generated files.
Included(entries) == {i \in DOMAIN entries : ~IsGenerated(entries[i].path)}
Excluded(entries) == {e.path : e \in {entries[i] : i \in DOMAIN entries}} \cap GeneratedPaths
ChangedLines(entries) ==
    SumOf([i \in DOMAIN entries |->
              IF i \in Included(entries) THEN ToChangedFile(entries[i], <<>>).lines ELSE 0])
LineLevel(entries) == ChangedLines(entries) <= MaxLineLevel

-----------------------------------------------------------------------------
(* What there is to know of a change, for the properties: the lines it     *)
(* adds, the places where it only removes, and the file it should be.      *)

LinesOfHunk(h) == h.start .. (h.start + h.count - 1)
AddedBy(c) == IF c.binary THEN {} ELSE UNION {LinesOfHunk(h) : h \in ToSet(c.hunks)}
PointsBy(c) ==
    IF c.binary THEN {}
    ELSE {IF h.start > 1 THEN h.start ELSE 1 : h \in {g \in ToSet(c.hunks) : g.count = 0}}
\* A change of mode, or an empty file, is not told from an edit.
HasPatch(c) == c.binary \/ c.hunks # <<>> \/ c.status = "renamed"
EntryOf(c) == [path |-> c.path, old |-> c.old, added |-> Record(c, c.path).added,
               removed |-> Record(c, c.path).removed]
FileOf(c) ==
    [path |-> c.path, old |-> c.old, status |-> IF HasPatch(c) THEN c.status ELSE "modified",
     binary |-> c.binary, lines |-> IF c.binary THEN 0 ELSE Counts(c).added + Counts(c).removed,
     added |-> AddedBy(c), points |-> PointsBy(c)]

-----------------------------------------------------------------------------
(* What the changes are used for.                                          *)

\* line and end are 0 where the tool reports none.
LastLine(f) == IF f.end >= f.line THEN f.end ELSE f.line

\* _is_on_changed_line: a finding without a line counts if its file's content changed.
IsOnChangedLine(f, files) ==
    \E c \in files :
        /\ c.path = f.path /\ c.status # "deleted"
        /\ IF f.line = 0 THEN c.added # {} \/ c.points # {}
           ELSE \E n \in f.line .. LastLine(f) : n \in c.added

\* A changed line or deletion counts for the innermost symbol around it: the first of
\* the smallest, in the order of the index.
Around(symbols, path, n) ==
    {i \in DOMAIN symbols : symbols[i].path = path /\ symbols[i].start <= n /\ n <= symbols[i].end}
Size(s) == s.end - s.start
Innermost(symbols, among) ==
    CHOOSE i \in among : \A j \in among \ {i} :
        \/ Size(symbols[i]) < Size(symbols[j])
        \/ Size(symbols[i]) = Size(symbols[j]) /\ i < j
ChangedPlaces(symbols, files) ==
    {Innermost(symbols, Around(symbols, place[1], place[2])) : place \in
        {q \in UNION {{c.path} \X (c.added \cup c.points) : c \in {d \in files : d.status # "deleted"}} :
            Around(symbols, q[1], q[2]) # {}}}
ChangedSymbols(symbols, files) == {symbols[i].id : i \in ChangedPlaces(symbols, files)}
=============================================================================
