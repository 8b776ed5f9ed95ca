------------------------------ MODULE RuleStore ------------------------------
(***************************************************************************)
(* The business rules stored for one repository, as the handlers of        *)
(* api/rules.py and the Rule Miner's background task read and write them.  *)
(*                                                                         *)
(* A handler that reads a row and then saves it does so in two statements  *)
(* on connections of their own: other handlers and the miner run in        *)
(* between.  What a rule says is left out, its status and source are kept. *)
(***************************************************************************)
EXTENDS FiniteSets

CONSTANTS
    RuleIds,        \* rule ids
    FileIds,        \* ids in the repository's own rules file
    Handlers,       \* HTTP requests that can be under way at one time
    NoRule, Idle

ASSUME RuleAssumption == FileIds \subseteq RuleIds

VARIABLES
    row,            \* business_rules by rule_id
    handler,        \* what each handler under way is about to save
    mining,         \* the repository is in _MINING
    task,           \* where _mine is
    existing,       \* ids _mine has listed
    suggestions,    \* ids _mine has still to insert
    accepted        \* history: ids a person has added or asked to be active

minerVars == <<mining, task, existing, suggestions>>
vars == <<row, handler, minerVars, accepted>>

Statuses == {"active", "suggested", "rejected"}
Rule == [status : Statuses, source : {"dashboard", "suggested"}]

\* `wants` is the status a PATCH asks for, "none" when it edits other fields.
Pending == [op : {"add", "change"}, id : RuleIds, wants : Statuses \cup {"none"}, rule : Rule]

TypeOK ==
    /\ row \in [RuleIds -> Rule \cup {NoRule}]
    /\ handler \in [Handlers -> Pending \cup {Idle}]
    /\ mining \in BOOLEAN
    /\ task \in {"none", "list", "mine", "insert"}
    /\ existing \subseteq RuleIds
    /\ suggestions \subseteq RuleIds
    /\ accepted \subseteq RuleIds

Init ==
    /\ row = [id \in RuleIds |-> NoRule]
    /\ handler = [h \in Handlers |-> Idle]
    /\ mining = FALSE
    /\ task = "none"
    /\ existing = {}
    /\ suggestions = {}
    /\ accepted = {}

Stored == {id \in RuleIds : row[id] # NoRule}

-----------------------------------------------------------------------------
(* The dashboard's requests.                                               *)

\* POST: the id is free; a taken one is answered with 409 and changes nothing.
AddGet(h, id) ==
    /\ handler[h] = Idle
    /\ id \notin Stored
    /\ handler' = [handler EXCEPT ![h] =
          [op |-> "add", id |-> id, wants |-> "active",
           rule |-> [status |-> "active", source |-> "dashboard"]]]
    /\ UNCHANGED <<row, minerVars, accepted>>

\* Mutation: a status the request does not name is stored as none (no exclude_none).
ChangeGetWithNone(h, id, wants) ==
    /\ handler[h] = Idle
    /\ id \in Stored
    /\ handler' = [handler EXCEPT ![h] =
          [op |-> "change", id |-> id, wants |-> wants, rule |-> [row[id] EXCEPT !.status = wants]]]
    /\ UNCHANGED <<row, minerVars, accepted>>

\* Mutation: whatever a person edits is taken as accepted.
ChangeGetAccepting(h, id, wants) ==
    /\ handler[h] = Idle
    /\ id \in Stored
    /\ handler' = [handler EXCEPT ![h] =
          [op |-> "change", id |-> id, wants |-> wants, rule |-> [row[id] EXCEPT !.status = "active"]]]
    /\ UNCHANGED <<row, minerVars, accepted>>

\* PATCH: the row read, with the fields the request names replaced.
ChangeGet(h, id, wants) ==
    /\ handler[h] = Idle
    /\ id \in Stored
    /\ handler' = [handler EXCEPT ![h] =
          [op |-> "change", id |-> id, wants |-> wants,
           rule |-> [row[id] EXCEPT !.status = IF wants = "none" THEN @ ELSE wants]]]
    /\ UNCHANGED <<row, minerVars, accepted>>

\* The upsert both end with, whatever the row has become since; or it raises.
Save(h) ==
    /\ handler[h] # Idle
    /\ LET p == handler[h]
       IN  \/ /\ row' = [row EXCEPT ![p.id] = p.rule]
              /\ accepted' = IF p.wants = "active" THEN accepted \cup {p.id} ELSE accepted
           \/ UNCHANGED <<row, accepted>>
    /\ handler' = [handler EXCEPT ![h] = Idle]
    /\ UNCHANGED minerVars

\* DELETE is one statement.
Delete(id) ==
    /\ id \in Stored
    /\ row' = [row EXCEPT ![id] = NoRule]
    /\ UNCHANGED <<handler, minerVars, accepted>>

-----------------------------------------------------------------------------
(* The Rule Miner.                                                         *)

\* POST .../suggest: refused with 409 while a run is under way.
Suggest ==
    /\ ~mining
    /\ mining' = TRUE
    /\ task' = "list"
    /\ UNCHANGED <<row, handler, existing, suggestions, accepted>>

EndTask ==
    /\ mining' = FALSE
    /\ task' = "none"
    /\ existing' = {}
    /\ suggestions' = {}

\* Mutation: only a run that got to its end is taken out of _MINING.
TaskFailsStuck ==
    /\ task # "none"
    /\ task' = "none" /\ existing' = {} /\ suggestions' = {}
    /\ UNCHANGED <<row, handler, mining, accepted>>

\* Any step of the task may raise: logged, and the `finally` clears _MINING.  What
\* was inserted before stays.
TaskFails ==
    /\ task # "none"
    /\ EndTask
    /\ UNCHANGED <<row, handler, accepted>>

List ==
    /\ task = "list"
    /\ existing' = Stored
    /\ task' = "mine"
    /\ UNCHANGED <<row, handler, mining, suggestions, accepted>>

\* mine_remote takes minutes; it suggests ids that were new when it started, and
\* none when it returns an error.
Mine ==
    /\ task = "mine"
    /\ \E ids \in SUBSET (RuleIds \ (existing \cup FileIds)) : suggestions' = ids
    /\ task' = "insert"
    /\ UNCHANGED <<row, handler, mining, existing, accepted>>

NewSuggestion == [status |-> "suggested", source |-> "suggested"]

\* Mutation: the upsert of save() instead of ON CONFLICT DO NOTHING.
InsertUpserting(id) ==
    /\ task = "insert" /\ id \in suggestions
    /\ row' = [row EXCEPT ![id] = NewSuggestion]
    /\ suggestions' = suggestions \ {id}
    /\ UNCHANGED <<handler, mining, task, existing, accepted>>

\* insert_suggestions: one statement for each, committed on its own.
Insert(id) ==
    /\ task = "insert" /\ id \in suggestions
    /\ row' = IF id \in Stored THEN row ELSE [row EXCEPT ![id] = NewSuggestion]
    /\ suggestions' = suggestions \ {id}
    /\ UNCHANGED <<handler, mining, task, existing, accepted>>

TaskDone ==
    /\ task = "insert" /\ suggestions = {}
    /\ EndTask
    /\ UNCHANGED <<row, handler, accepted>>

\* The process restarts: handlers, the task and _MINING are gone, the rows stay.
Restart ==
    /\ handler' = [h \in Handlers |-> Idle]
    /\ EndTask
    /\ UNCHANGED <<row, accepted>>

-----------------------------------------------------------------------------
MinerStep == List \/ Mine \/ (\E id \in RuleIds : Insert(id)) \/ TaskDone \/ TaskFails

Next ==
    \/ \E h \in Handlers, id \in RuleIds :
          AddGet(h, id) \/ \E wants \in Statuses \cup {"none"} : ChangeGet(h, id, wants)
    \/ \E h \in Handlers : Save(h)
    \/ \E id \in RuleIds : Delete(id)
    \/ Suggest \/ MinerStep \/ Restart

Spec == Init /\ [][Next]_vars

\* Every await of the task returns or raises: the clone, git and the model have time
\* limits.  The pool sets none for a statement (database.py); that PostgreSQL answers or
\* the connection breaks is assumed.
FairSpec == Spec /\ WF_vars(MinerStep)

-----------------------------------------------------------------------------
\* A rule applies to reviews only if a person added its id or asked for it to be
\* active: neither the miner nor a stale edit activates a suggestion on its own.
ActiveIsAccepted ==
    \A id \in Stored : row[id].status = "active" => id \in accepted

\* _MINING holds the repository exactly while its task is alive, so that neither two
\* tasks run nor a failed one blocks the next.
MiningIsExact == mining <=> task # "none"

\* The miner, working from a list minutes old, never changes a rule that exists by
\* now (a person may have edited it), and so never suggests a rejected id again.
MinerFillsGaps ==
    [][MinerStep => \A id \in Stored : row'[id] = row[id]]_vars

\* What a person asks of id in the step that saves it.
Asked(id, statuses) ==
    \E h \in Handlers :
        /\ handler[h] # Idle /\ handler'[h] = Idle
        /\ handler[h].id = id /\ handler[h].wants \in statuses

\* "rejected" keeps a rule out of reviews: it comes back only when a person asks for
\* another status or deletes it.
RejectionStands ==
    [][\A id \in Stored : row[id].status = "rejected" =>
          \/ row'[id] = NoRule
          \/ row'[id].status = "rejected"
          \/ Asked(id, {"active", "suggested"})]_vars

\* Mining ends, and the repository can be mined again.
MiningEnds == mining ~> ~mining

-----------------------------------------------------------------------------
\* What a request under way will store as active has been accepted, or is accepted
\* by this very request.
Requests ==
    \A h \in Handlers :
        handler[h] # Idle /\ handler[h].rule.status = "active" =>
            handler[h].id \in accepted \/ handler[h].wants = "active"

\* Rows and the requests that still hold an older copy of them agree on what was
\* accepted (strengthens ActiveIsAccepted to an inductive invariant).
IInv == TypeOK /\ Requests /\ ActiveIsAccepted /\ MiningIsExact
=============================================================================
