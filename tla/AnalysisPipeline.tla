-------------------------- MODULE AnalysisPipeline --------------------------
(***************************************************************************)
(* One pull request's jobs, from the queue webhook-listener publishes to,  *)
(* through PRQueueConsumer and AnalysisOrchestrator, to the two tables the *)
(* API reads.  A message stands for one push to the pull request, numbered *)
(* in the order the pushes were made.                                      *)
(*                                                                         *)
(* A run is one invocation of PRQueueConsumer._handle_message.  job_id and *)
(* result_id are made afresh by every invocation (uuid4 defaults of        *)
(* AnalysisJob and AnalysisResult), so a run is also the key of its rows   *)
(* in analysis_results and agent_reviews.                                  *)
(*                                                                         *)
(* The steps of a run are the awaits of _handle_message and of             *)
(* AnalysisOrchestrator.run: other runs, a crash of the process or the     *)
(* loss of its broker connection can come between any two of them.         *)
(***************************************************************************)
EXTENDS Integers, FiniteSets

CONSTANTS
    Workers,        \* worker processes, each with a channel of its own
    NumMessages,    \* pushes to the pull request
    Malformed,      \* the messages whose body is JSON text but no valid AnalysisJob,
                    \* or text but no JSON
    Undecodable,    \* the messages whose body is no text json.loads can decode
    Prefetch,       \* settings.consumer_prefetch_count
    MaxRuns,        \* bound: invocations of _handle_message
    MaxFaults,      \* bound: crashes and lost connections
    MaxReaders,     \* bound: what is left behind on checkouts at a time
    FaultKinds,     \* the faults a run of TLC explores
    NoWorker

Messages == 1..NumMessages
Runs == 1..MaxRuns

ASSUME PipelineAssumption ==
    /\ NumMessages \in Nat /\ Prefetch \in Nat /\ MaxRuns \in Nat /\ MaxFaults \in Nat
    /\ MaxReaders \in Nat
    /\ Malformed \subseteq Messages /\ Undecodable \subseteq Messages
    /\ FaultKinds \subseteq {"crash", "loss"}
    /\ NoWorker \notin Workers

VARIABLES
    published,      \* how many messages have been published
    ready,          \* messages the broker has not handed out
    settled,        \* how each message left the broker
    held,           \* runs whose delivery is not acknowledged on a live channel
    up,             \* workers whose process is running
    faults,         \* crashes and lost connections so far
    readers,        \* tasks and processes left behind on a checkout: its run, the worker
    pc,             \* where each run is
    local,          \* what the coroutine of each run keeps in memory
    msg,            \* the message each run was invoked with, 0 before
    workspaces,     \* runs whose temporary checkout exists
    resultRow,      \* analysis_results.status by result_id
    reviewRow,      \* agent_reviews.status by result_id
    latest          \* result_id with the greatest created_at, 0 if none

brokerVars == <<published, ready, settled, held>>
hostVars   == <<up, faults, readers>>
localVars  == <<local, msg>>
dbVars     == <<resultRow, reviewRow, latest>>
vars == <<brokerVars, hostVars, localVars, dbVars, pc, workspaces>>

Terminal == {"completed", "failed", "skipped"}

\* Inside `async with self._workspace_manager.prepare(job)`.
InWorkspace == {"prepare", "analyze", "on_result", "announce", "review", "on_review", "cleanup"}

\* "unsettled": the handler has raised and never settles its delivery.
Active == InWorkspace \cup {"ack", "nack", "unsettled"}
PC == Active \cup {"free", "ended", "crashed"}

(* The memory of a run: its worker; the status of the AnalysisResult it has *)
(* built; whether its review will be skipped, is announced although there  *)
(* is no index to review with ("blind"), or can take place; the status of  *)
(* its AgentReview; and what it does once its workspace is gone.  It is    *)
(* lost when the run ends or its process dies.                             *)
Memory == [worker : Workers \cup {NoWorker},
           result : {"none", "completed", "failed"},
           plan   : {"none", "skip", "blind", "full"},
           review : {"none", "running"} \cup Terminal,
           ending : {"none", "ack", "nack", "gone"}]
Leaving(w, how) == [worker |-> w, result |-> "none", plan |-> "none", review |-> "none",
                    ending |-> how]
Blank == Leaving(NoWorker, "none")

TypeOK ==
    /\ published \in 0..NumMessages
    /\ ready \subseteq Messages
    /\ settled \in [Messages -> {"open", "acked", "dropped"}]
    /\ held \subseteq Runs
    /\ up \subseteq Workers
    /\ faults \in 0..MaxFaults
    /\ readers \subseteq Runs \X (Workers \cup {NoWorker})
    /\ pc \in [Runs -> PC]
    /\ local \in [Runs -> Memory]
    /\ msg \in [Runs -> Messages \cup {0}]
    /\ workspaces \subseteq Runs
    /\ resultRow \in [Runs -> {"none", "completed", "failed"}]
    /\ reviewRow \in [Runs -> {"none", "running"} \cup Terminal]
    /\ latest \in Runs \cup {0}

Init ==
    /\ published = 0
    /\ ready = {}
    /\ settled = [m \in Messages |-> "open"]
    /\ held = {}
    /\ up = Workers
    /\ faults = 0
    /\ readers = {}
    /\ pc = [r \in Runs |-> "free"]
    /\ local = [r \in Runs |-> Blank]
    /\ msg = [r \in Runs |-> 0]
    /\ workspaces = {}
    /\ resultRow = [r \in Runs |-> "none"]
    /\ reviewRow = [r \in Runs |-> "none"]
    /\ latest = 0

-----------------------------------------------------------------------------
(* The broker.                                                             *)

\* webhook-listener publishes the next push of the pull request.
Publish ==
    /\ published < NumMessages
    /\ published' = published + 1
    /\ ready' = ready \cup {published + 1}
    /\ UNCHANGED <<settled, held, hostVars, localVars, dbVars, pc, workspaces>>

HeldBy(w) == {r \in held : local[r].worker = w}

\* set_qos(prefetch_count): a worker without room gets no delivery.
HasRoomUnbounded(w) == TRUE     \* mutation: no set_qos
HasRoom(w) == Cardinality(HeldBy(w)) < Prefetch

\* The queue is first in, first out, and a requeued message goes back to its
\* old place, so the head is the oldest message that is ready.
IsHead(m) == m \in ready /\ \A n \in ready : m <= n
NextRun(r) == pc[r] = "free" /\ \A q \in Runs : pc[q] = "free" => r <= q

\* The broker hands the head of the queue to a worker with room under its
\* prefetch, and _handle_message decodes it: a body that is no valid job is
\* rejected without a run of the orchestrator, any other gets a new directory.  The
\* UnicodeDecodeError of json.loads is neither JSONDecodeError nor inside the second
\* try: it leaves the handler, and the delivery stays with the channel.
HandleMessage(w, m, r) ==
    /\ w \in up
    /\ HasRoom(w)
    /\ IsHead(m)
    /\ NextRun(r)
    /\ ready' = ready \ {m}
    /\ held' = held \cup {r}
    /\ local' = [local EXCEPT ![r].worker = w]
    /\ msg' = [msg EXCEPT ![r] = m]
    /\ IF m \in Undecodable \cup Malformed
       THEN /\ pc' = [pc EXCEPT ![r] = IF m \in Undecodable THEN "unsettled" ELSE "nack"]
            /\ UNCHANGED workspaces
       ELSE /\ pc' = [pc EXCEPT ![r] = "prepare"]
            /\ workspaces' = workspaces \cup {r}
    /\ UNCHANGED <<published, settled, hostVars, dbVars>>

-----------------------------------------------------------------------------
(* A run.                                                                  *)

Goto(r, place) == pc' = [pc EXCEPT ![r] = place]

\* Leave the workspace block: the `finally` of prepare comes next, then the ack,
\* or the except clause of _handle_message.
Leave(r, how) ==
    /\ Goto(r, "cleanup")
    /\ local' = [local EXCEPT ![r] = Leaving(local[r].worker, how)]
RaiseSwallowed(r) == Leave(r, "ack")    \* mutation: the exception is swallowed
RaiseEscaping(r) == Leave(r, "gone")    \* mutation: no except clause to nack in
Raise(r) == Leave(r, "nack")

\* The coroutine is over.
End(r) ==
    /\ Goto(r, "ended")
    /\ local' = [local EXCEPT ![r] = Blank]

\* The clone token and the clone; any git failure is an exception.
Prepare(r) ==
    /\ pc[r] = "prepare"
    /\ \/ Goto(r, "analyze") /\ UNCHANGED local
       \/ Raise(r)
    /\ UNCHANGED <<brokerVars, hostVars, msg, dbVars, workspaces>>

\* A gather without return_exceptions that raises, and a time limit or a cancellation
\* that stops a coroutine waiting for a process, do not end what was started: the other
\* tasks and the process go on, on the checkout, with nobody waiting for them.  (A clone
\* a cancelled Prepare leaves running writes the checkout; it is left out.)
Reading(r) == pc[r] = "analyze" \/ (pc[r] = "review" /\ local[r].plan = "full")
LeaveReaders(S) ==
    \E left \in SUBSET {r \in S : Reading(r)} :
        /\ readers' = readers \cup {<<r, local[r].worker>> : r \in left}
        /\ Cardinality(readers') <= MaxReaders

\* What is left behind ends by itself or by a time limit of its own.
ReadersEnd(r, w) ==
    /\ <<r, w>> \in readers
    /\ readers' = readers \ {<<r, w>>}
    /\ UNCHANGED <<brokerVars, up, faults, localVars, dbVars, pc, workspaces>>

\* The gather of the analyzers and of _extract_changes, then _build_result.  An
\* analyzer's exception is a value in the list; only when every selected one
\* failed is the result "failed".  A Python adapter that raises ends the inner gather
\* of PythonAnalyzer while the other tools still run.  skip_reason and the index decide
\* what the review will be.  Nothing is awaited between the gather and on_result.
Analyze(r) ==
    /\ pc[r] = "analyze"
    /\ \/ \E status \in {"completed", "failed"}, plan \in {"skip", "blind", "full"} :
             /\ local' = [local EXCEPT ![r] = [@ EXCEPT !.result = status, !.plan = plan]]
             /\ Goto(r, "on_result")
       \/ Raise(r)
    /\ LeaveReaders({r})
    /\ UNCHANGED <<brokerVars, up, faults, msg, dbVars, workspaces>>

\* One transaction: the row appears or it does not.
InsertResult(r) ==
    /\ resultRow' = [resultRow EXCEPT ![r] = local[r].result]
    /\ latest' = r
    /\ UNCHANGED reviewRow

\* Mutation: a failed result is reviewed like any other.
AfterResultUnchecked(r) ==
    /\ local' = [local EXCEPT ![r].review = "running"]
    /\ Goto(r, IF local[r].plan = "skip" THEN "review" ELSE "announce")

\* Where run() goes once on_result has returned: a failed result gets no review,
\* and a review that will be skipped is not announced.
AfterResult(r) ==
    IF local[r].result # "completed" THEN Leave(r, "ack")
    ELSE /\ local' = [local EXCEPT ![r].review = "running"]
         /\ Goto(r, IF local[r].plan = "skip" THEN "review" ELSE "announce")

\* AnalysisResultRepository.save.  The call may raise with the transaction rolled
\* back, or after the commit when the connection goes before the reply.
OnResult(r) ==
    /\ pc[r] = "on_result"
    /\ \/ InsertResult(r) /\ AfterResult(r)
       \/ InsertResult(r) /\ Raise(r)
       \/ Raise(r) /\ UNCHANGED dbVars
    /\ UNCHANGED <<brokerVars, hostVars, msg, workspaces>>

\* Mutation: the row's key is made from the push, not drawn afresh by every run.
UpsertReviewByPush(r) ==
    /\ reviewRow' = [reviewRow EXCEPT ![msg[r]] = local[r].review]
    /\ UNCHANGED <<resultRow, latest>>

\* AgentReviewRepository.save: an upsert on result_id.
UpsertReview(r) ==
    /\ reviewRow' = [reviewRow EXCEPT ![r] = local[r].review]
    /\ UNCHANGED <<resultRow, latest>>

\* on_review with the pending review.
Announce(r) ==
    /\ pc[r] = "announce"
    /\ \/ UpsertReview(r) /\ Goto(r, "review") /\ UNCHANGED local
       \/ UpsertReview(r) /\ Raise(r)
       \/ Raise(r) /\ UNCHANGED dbVars
    /\ UNCHANGED <<brokerVars, hostVars, msg, workspaces>>

\* ReviewOrchestrator.run never raises: it skips, completes, or ends as failed.
\* Without an index it skips although the review was announced.  A verifier's task
\* that raises ends the gather of verify_findings, not the other verifiers, and an
\* agent's time limit cancels a search without killing its git grep.
RunReview(r) ==
    /\ pc[r] = "review"
    /\ \E outcome \in (IF local[r].plan = "full" THEN {"completed", "failed"} ELSE {"skipped"}) :
          local' = [local EXCEPT ![r].review = outcome]
    /\ Goto(r, "on_review")
    /\ LeaveReaders({r})
    /\ UNCHANGED <<brokerVars, up, faults, msg, dbVars, workspaces>>

\* on_review with the outcome; run() then returns.
OnReview(r) ==
    /\ pc[r] = "on_review"
    /\ \/ UpsertReview(r) /\ Leave(r, "ack")
       \/ UpsertReview(r) /\ Raise(r)
       \/ Raise(r) /\ UNCHANGED dbVars
    /\ UNCHANGED <<brokerVars, hostVars, msg, workspaces>>

\* Mutation: the deletion is not in a `finally`, an exception skips it.
CleanUpUnlessRaised(r) ==
    /\ pc[r] = "cleanup"
    /\ workspaces' = IF local[r].ending = "ack" THEN workspaces \ {r} ELSE workspaces
    /\ IF local[r].ending = "gone" THEN End(r)
       ELSE Goto(r, local[r].ending) /\ UNCHANGED local
    /\ UNCHANGED <<brokerVars, hostVars, msg, dbVars>>

\* Mutation: a cancelled handler goes on to a place that is none.
CleanUpWithoutEnd(r) ==
    /\ pc[r] = "cleanup"
    /\ workspaces' = workspaces \ {r}
    /\ Goto(r, local[r].ending)
    /\ UNCHANGED <<brokerVars, hostVars, localVars, dbVars>>

\* The `finally` of prepare deletes the checkout.
CleanUp(r) ==
    /\ pc[r] = "cleanup"
    /\ workspaces' = workspaces \ {r}
    /\ IF local[r].ending = "gone" THEN End(r)
       ELSE Goto(r, local[r].ending) /\ UNCHANGED local
    /\ UNCHANGED <<brokerVars, hostVars, msg, dbVars>>

Settle(r, how) ==
    /\ settled' = [settled EXCEPT ![msg[r]] = how]
    /\ held' = held \ {r}
    /\ UNCHANGED <<published, ready>>

\* Mutation: a handler that has outlived its channel settles the message all the same.
AckAnyChannel(r) ==
    /\ pc[r] = "ack"
    /\ Settle(r, "acked")
    /\ End(r)
    /\ UNCHANGED <<hostVars, msg, dbVars, workspaces>>

\* message.ack() is inside the try: on a channel that was lost it raises, and the
\* except clause tries to nack.
Ack(r) ==
    /\ pc[r] = "ack"
    /\ IF r \in held THEN Settle(r, "acked") /\ End(r)
       ELSE Goto(r, "nack") /\ UNCHANGED <<brokerVars, local>>
    /\ UNCHANGED <<hostVars, msg, dbVars, workspaces>>

\* Mutation: nack(requeue=True).
NackRequeueing(r) ==
    /\ pc[r] = "nack"
    /\ held' = held \ {r}
    /\ ready' = IF r \in held THEN ready \cup {msg[r]} ELSE ready
    /\ End(r)
    /\ UNCHANGED <<published, settled, hostVars, msg, dbVars, workspaces>>

\* Mutation: a handler that has outlived its channel drops the message all the same.
NackAnyChannel(r) ==
    /\ pc[r] = "nack"
    /\ Settle(r, "dropped")
    /\ End(r)
    /\ UNCHANGED <<hostVars, msg, dbVars, workspaces>>

\* nack(requeue=False) drops the message; on a lost channel it raises out of the
\* handler, and the broker keeps the message it has requeued.
Nack(r) ==
    /\ pc[r] = "nack"
    /\ IF r \in held THEN Settle(r, "dropped") ELSE UNCHANGED brokerVars
    /\ End(r)
    /\ UNCHANGED <<hostVars, msg, dbVars, workspaces>>

-----------------------------------------------------------------------------
(* Faults.                                                                 *)

\* The broker takes back what a closed channel had not acknowledged.
Requeue(w) ==
    /\ ready' = ready \cup {msg[r] : r \in HeldBy(w)}
    /\ held' = held \ HeldBy(w)
    /\ UNCHANGED <<published, settled>>

\* The process dies, and its container with all that runs in it: nothing more of its
\* runs happens, not even the `finally`.
Crash(w) ==
    /\ "crash" \in FaultKinds /\ faults < MaxFaults
    /\ w \in up
    /\ faults' = faults + 1
    /\ up' = up \ {w}
    /\ readers' = {x \in readers : x[2] # w}
    /\ Requeue(w)
    /\ pc' = [r \in Runs |-> IF local[r].worker = w THEN "crashed" ELSE pc[r]]
    /\ local' = [r \in Runs |-> IF local[r].worker = w THEN Blank ELSE local[r]]
    /\ UNCHANGED <<msg, dbVars, workspaces>>

Restart(w) ==
    /\ w \in Workers \ up
    /\ up' = up \cup {w}
    /\ UNCHANGED <<brokerVars, faults, readers, localVars, dbVars, pc, workspaces>>

\* The connection drops and connect_robust restores it.  A handler that was
\* running is either cancelled, which unwinds it through the `finally` and past
\* `except Exception`, or goes on with a delivery it can no longer settle: the
\* service does not choose, so the model allows both.
LoseConnection(w) ==
    /\ "loss" \in FaultKinds /\ faults < MaxFaults
    /\ w \in up
    /\ faults' = faults + 1
    /\ Requeue(w)
    /\ \E cancelled \in SUBSET HeldBy(w) :
          /\ pc' = [r \in Runs |-> IF r \notin cancelled THEN pc[r]
                                   ELSE IF pc[r] \in InWorkspace THEN "cleanup" ELSE "ended"]
          /\ local' = [r \in Runs |-> IF r \notin cancelled THEN local[r]
                                      ELSE IF pc[r] \in InWorkspace
                                           THEN Leaving(w, "gone")
                                           ELSE Blank]
          /\ LeaveReaders(cancelled)
    /\ UNCHANGED <<up, msg, dbVars, workspaces>>

-----------------------------------------------------------------------------
Step(r) ==
    \/ Prepare(r) \/ Analyze(r) \/ OnResult(r) \/ Announce(r) \/ RunReview(r)
    \/ OnReview(r) \/ CleanUp(r) \/ Ack(r) \/ Nack(r)

Deliver(w) == \E m \in Messages, r \in Runs : HandleMessage(w, m, r)

Next ==
    \/ Publish
    \/ \E w \in Workers : Deliver(w) \/ Crash(w) \/ Restart(w) \/ LoseConnection(w)
    \/ \E r \in Runs : Step(r)
    \/ \E r \in Runs, w \in Workers : ReadersEnd(r, w)

Spec == Init /\ [][Next]_vars

\* Every await of a run ends (git, the analyzers and the model calls have time
\* limits), the broker delivers while a worker has room, and a dead process is
\* restarted (docker-compose.yml, restart: unless-stopped).
Fairness ==
    /\ \A r \in Runs : WF_vars(Step(r))
    /\ \A w \in Workers : WF_vars(Deliver(w)) /\ WF_vars(Restart(w))

FairSpec == Spec /\ Fairness
-----------------------------------------------------------------------------
(* Safety.                                                                 *)

HasResult(r) == resultRow[r] # "none"

\* What a run that ends well leaves behind: its result, and for a completed
\* result the outcome of its review.
Complete(r) ==
    /\ HasResult(r)
    /\ resultRow[r] = "completed" => reviewRow[r] \in Terminal

\* A message is acknowledged only when a run of it has stored everything it had to
\* store (_handle_message acks after run() returns, whatever calls failed before).
AckMeansSaved ==
    \A m \in Messages : settled[m] = "acked" =>
        \E r \in Runs : msg[r] = m /\ pc[r] = "ended" /\ Complete(r)

\* A review row never exists without the completed result it belongs to: the result
\* is committed before the review starts and a failed one gets no review.
ReviewFollowsResult ==
    \A r \in Runs : reviewRow[r] # "none" => resultRow[r] = "completed"

\* The checkout is there as long as the handler is in the block that works on it, for
\* the handler and for the tasks and processes a gather that raised has left behind on
\* it, and it stays for ever only when the process dies, with all that was left behind.
\* What is left behind may outlive the block: it then works on a checkout that has been
\* deleted under it, from the handler's `finally` on and never before.
CheckoutLifetime ==
    /\ \A r \in Runs :
          /\ pc[r] \in {"analyze", "on_result", "announce", "review"} => r \in workspaces
          /\ r \in workspaces => pc[r] \in InWorkspace \cup {"crashed"}
    /\ \A r \in Runs, w \in Workers : <<r, w>> \in readers =>
          IF r \in workspaces THEN pc[r] \in InWorkspace ELSE pc[r] \in {"ack", "nack", "ended"}

Holders(m) == {r \in held : msg[r] = m}

\* Every published message is in exactly one place: waiting in the queue, with the
\* one run that may still settle it, or settled.  Crashes, lost connections and
\* handlers that outlive their channel neither lose nor duplicate it.
OneCustodian ==
    \A m \in Messages :
        /\ \A r, q \in Holders(m) : r = q
        /\ settled[m] # "open" => m \notin ready /\ Holders(m) = {}
        /\ m \in ready => Holders(m) = {}
        /\ m <= published /\ settled[m] = "open" => m \in ready \/ Holders(m) # {}

\* A push has more than one result row only when a crash or a lost connection made
\* the broker deliver it again, and at most one row more for each.
RowsPerFault ==
    \A m \in Messages : Cardinality({r \in Runs : msg[r] = m /\ HasResult(r)}) <= 1 + faults

\* With one worker, the row get_latest_for_pull_request returns never goes back to an
\* older push, redelivered or not, unless a handler stores it that has outlived the
\* channel it got the push from.
LatestMovesForward ==
    [][\A r \in held :
          latest # 0 /\ resultRow'[r] # resultRow[r] => msg[latest] <= msg[latest']]_vars

\* A stored outcome is never overwritten, by the "running" row of another run of
\* the same push or by anything else, although saving is an upsert.
OutcomeStands ==
    [][\A r \in Runs : reviewRow[r] \in Terminal => reviewRow'[r] = reviewRow[r]]_vars

-----------------------------------------------------------------------------
(* Refinement: the rows and the broker's state, seen from outside.         *)

\* What the API reads of a run from its two rows.
StageOf(r) ==
    IF resultRow[r] # "completed" THEN resultRow[r]
    ELSE CASE reviewRow[r] = "none" -> "completed"
           [] reviewRow[r] = "running" -> "reviewing"
           [] OTHER -> "reviewed"

Contract == INSTANCE JobContract WITH
    NumPushes <- NumMessages,
    Reports <- Runs,
    offered <- published,
    fate <- settled,
    stage <- [r \in Runs |-> StageOf(r)],
    answers <- [r \in Runs |-> IF HasResult(r) THEN msg[r] ELSE 0],
    shown <- latest

\* Whatever its calls, workers and connections do, the pipeline keeps the contract:
\* each of its steps is one step of JobContract or none.
ImplementsContract == Contract!Spec

-----------------------------------------------------------------------------
(* Liveness.                                                               *)

\* Every published message is settled in the end, whatever calls fail and as long
\* as crashes and lost connections stop (and bodies can be decoded).
EveryMessageSettled ==
    \A m \in Messages : m <= published ~> settled[m] # "open"

\* "this worker should finish (ack/nack) one before RabbitMQ hands it another": what
\* a worker holds, it gives up in the end.
DeliveryFinished ==
    \A r \in Runs : r \in held ~> r \notin held

\* A review announced as running is in the end stored with an outcome.
AnnouncedReviewEnds ==
    \A r \in Runs : reviewRow[r] = "running" ~> reviewRow[r] \in Terminal

-----------------------------------------------------------------------------
(* The inductive invariant: what has been stored by the time a run reaches *)
(* a place, and where its message is meanwhile.                            *)

Stages ==
    \A r \in Runs :
        /\ pc[r] \in {"free", "prepare", "analyze", "on_result"} =>
              resultRow[r] = "none" /\ reviewRow[r] = "none"
        /\ pc[r] = "on_result" => local[r].result # "none"
        /\ pc[r] \in {"announce", "review", "on_review"} =>
              resultRow[r] = "completed" /\ reviewRow[r] \notin Terminal
        /\ pc[r] = "announce" => local[r].review = "running"
        /\ pc[r] = "on_review" => local[r].review \in Terminal
        /\ pc[r] = "cleanup" => local[r].ending # "none"
        /\ pc[r] = "cleanup" /\ local[r].ending = "ack" => Complete(r)
        /\ pc[r] = "ack" => Complete(r)
        /\ pc[r] \in {"free", "ended", "crashed"} => local[r] = Blank

Checkouts ==
    \A r \in Runs :
        /\ pc[r] \in InWorkspace => r \in workspaces
        /\ r \in workspaces => pc[r] \in InWorkspace \cup {"crashed"}
        /\ \A w \in Workers : <<r, w>> \in readers =>
              /\ pc[r] \in InWorkspace \cup {"ack", "nack", "ended"}
              /\ pc[r] = "ended" \/ local[r].worker = w

Custody ==
    /\ \A r \in held : pc[r] \in Active /\ local[r].ending # "gone"
    /\ \A r \in Runs : pc[r] # "free" => msg[r] \in 1..published
    /\ ready \subseteq 1..published
    /\ \A m \in Messages : settled[m] # "open" => m <= published
    /\ OneCustodian

\* A run's place, what it has stored, its checkout and the whereabouts of its message
\* agree at every step (strengthens the invariants above to an inductive one).
IInv == TypeOK /\ Stages /\ Checkouts /\ Custody /\ ReviewFollowsResult /\ AckMeansSaved

Started(m) == {r \in Runs : msg[r] = m}

\* A push has been started once more than there were faults, and not yet that often
\* while it is still waiting (strengthens RowsPerFault to an inductive invariant).
RunsPerFault ==
    \A m \in Messages :
        Cardinality(Started(m)) <= IF m \in ready \/ m > published THEN faults ELSE 1 + faults

\* One worker that takes one message at a time, as docker-compose.yml (one service, no
\* replicas) and config.py (consumer_prefetch_count = 1) have it.
OneAtATime == Prefetch = 1 /\ \A v, w \in Workers : v = w

\* A push is not started before every older one is settled (with OneAtATime, what
\* LatestMovesForward rests on).
InOrder ==
    /\ \A r \in Runs : pc[r] # "free" =>
          \A m \in Messages : m < msg[r] => settled[m] # "open"
    /\ latest # 0 => pc[latest] # "free"
    /\ \A r \in held : local[r].worker \in Workers
=============================================================================
