----------------------- MODULE AnalysisPipeline_proofs -----------------------
(***************************************************************************)
(* What holds of the pipeline for any number of workers, pushes, runs and  *)
(* faults, and any prefetch.  IInv is inductive; the invariants and the    *)
(* action property the runs of TLC check follow from it.                   *)
(***************************************************************************)
EXTENDS AnalysisPipeline, FiniteSetTheorems, TLAPS

LEMMA InitIInv == Init => IInv
  <1> SUFFICES ASSUME Init PROVE IInv
    OBVIOUS
  <1> USE PipelineAssumption DEF Init
  <1>1. TypeOK
    BY DEF TypeOK, Memory, Blank, Leaving, Runs, PC, Terminal
  <1>2. Stages
    BY DEF Stages
  <1>3. Checkouts
    BY DEF Checkouts, InWorkspace
  <1>4. Custody
    BY DEF Custody, OneCustodian, Holders, Messages
  <1>5. ReviewFollowsResult /\ AckMeansSaved
    BY DEF ReviewFollowsResult, AckMeansSaved
  <1> QED BY <1>1, <1>2, <1>3, <1>4, <1>5 DEF IInv

\* A run's own step that leaves the broker alone keeps every message where it was,
\* as long as a run that holds a delivery stays in a place it can settle it from.
LEMMA CustodyFrame ==
  ASSUME IInv, NEW r \in Runs, pc[r] # "free",
         UNCHANGED <<brokerVars, msg>>,
         \A q \in Runs \ {r} : pc'[q] = pc[q] /\ local'[q] = local[q],
         r \in held => pc'[r] \in Active /\ local'[r].ending # "gone"
  PROVE  Custody'
  <1>1. \A q \in held' : pc'[q] \in Active /\ local'[q].ending # "gone"
    BY DEF IInv, TypeOK, Custody, brokerVars
  <1>2. \A q \in Runs : pc'[q] # "free" => msg'[q] \in 1..published'
    BY DEF IInv, TypeOK, Custody, brokerVars
  <1>3. OneCustodian'
    BY DEF IInv, Custody, OneCustodian, Holders, brokerVars
  <1> QED BY <1>1, <1>2, <1>3 DEF IInv, Custody, brokerVars

\* An exception and a plain step both leave a run with a place and a memory.
LEMMA GotoTypes ==
  ASSUME TypeOK, NEW r \in Runs, NEW place \in PC, Goto(r, place)
  PROVE  pc' \in [Runs -> PC]
  BY DEF TypeOK, Goto

LEMMA LeaveTypes ==
  ASSUME TypeOK, NEW r \in Runs, NEW how \in {"ack", "nack", "gone"}, Leave(r, how)
  PROVE  pc' \in [Runs -> PC] /\ local' \in [Runs -> Memory]
  <1>1. "cleanup" \in PC
    BY DEF PC, Active, InWorkspace
  <1>2. Leaving(local[r].worker, how) \in Memory
    BY DEF TypeOK, Memory, Leaving
  <1> QED BY <1>1, <1>2, GotoTypes DEF Leave, TypeOK

\* A run's memory stays one when the status of its review is set.
LEMMA ReviewSet ==
  ASSUME TypeOK, NEW r \in Runs, NEW status \in {"none", "running"} \cup Terminal
  PROVE  [local[r] EXCEPT !.review = status] \in Memory
  BY DEF TypeOK, Memory

\* What a run leaves behind is its own, and its worker's.
LEMMA ReadersTyped ==
  ASSUME TypeOK, NEW S \in SUBSET Runs, LeaveReaders(S)
  PROVE  readers' \subseteq Runs \X (Workers \cup {NoWorker})
  <1>1. \A r \in Runs : local[r].worker \in Workers \cup {NoWorker}
    BY DEF TypeOK, Memory
  <1> QED BY <1>1 DEF TypeOK, LeaveReaders

LEMMA NewReaders ==
  ASSUME NEW S \in SUBSET Runs, LeaveReaders(S), NEW r \in Runs, NEW w \in Workers, <<r, w>> \in readers'
  PROVE  <<r, w>> \in readers \/ (r \in S /\ pc[r] \in {"analyze", "review"} /\ local[r].worker = w)
  BY DEF LeaveReaders, Reading

LEMMA PrepareStep == ASSUME IInv, NEW r \in Runs, Prepare(r) PROVE IInv'
  <1> USE DEF IInv, Prepare, Raise, Leave, Goto, Blank, Leaving, brokerVars, hostVars, dbVars
  <1>1. TypeOK'
    <2>1. "analyze" \in PC
      BY DEF PC, Active, InWorkspace
    <2>2. pc' \in [Runs -> PC] /\ local' \in [Runs -> Memory]
      BY <2>1, GotoTypes, LeaveTypes DEF TypeOK
    <2> QED BY <2>2 DEF TypeOK
  <1>2. Stages'
    BY DEF TypeOK, Memory, Stages, Complete, HasResult, Terminal
  <1>3. Checkouts'
    BY DEF TypeOK, Memory, Stages, Checkouts, InWorkspace
  <1>4. Custody'
    BY CustodyFrame DEF TypeOK, Memory, Stages, Custody, Active, InWorkspace
  <1>5. ReviewFollowsResult'
    BY DEF TypeOK, Stages, ReviewFollowsResult
  <1>6. AckMeansSaved'
    BY DEF TypeOK, Stages, AckMeansSaved, Complete, HasResult, Terminal
  <1> QED BY <1>1, <1>2, <1>3, <1>4, <1>5, <1>6

LEMMA AnalyzeStep == ASSUME IInv, NEW r \in Runs, Analyze(r) PROVE IInv'
  <1> USE DEF IInv, Analyze, brokerVars, hostVars, dbVars
  <1>a. local[r] \in Memory
    BY DEF TypeOK
  <1>1. /\ local' \in [Runs -> Memory] /\ pc' \in [Runs -> PC]
        /\ pc'[r] \in {"on_result", "cleanup"}
        /\ pc'[r] = "on_result" => local'[r].result # "none"
        /\ pc'[r] = "cleanup" => local'[r].ending = "nack"
        /\ local'[r].ending # "gone" \/ r \notin held
        /\ local'[r].worker = local[r].worker
        /\ \A q \in Runs \ {r} : pc'[q] = pc[q] /\ local'[q] = local[q]
    <2>1. CASE \E status \in {"completed", "failed"}, plan \in {"skip", "blind", "full"} :
                 /\ local' = [local EXCEPT ![r] = [@ EXCEPT !.result = status, !.plan = plan]]
                 /\ Goto(r, "on_result")
      <3>1. PICK status \in {"completed", "failed"}, plan \in {"skip", "blind", "full"} :
               /\ local' = [local EXCEPT ![r] = [local[r] EXCEPT !.result = status, !.plan = plan]]
               /\ Goto(r, "on_result")
        BY <2>1
      <3>2. /\ [local[r] EXCEPT !.result = status, !.plan = plan] \in Memory
            /\ [local[r] EXCEPT !.result = status, !.plan = plan].result = status
            /\ [local[r] EXCEPT !.result = status, !.plan = plan].ending = local[r].ending
            /\ [local[r] EXCEPT !.result = status, !.plan = plan].worker = local[r].worker
        BY <1>a DEF Memory
      <3> QED BY <3>1, <3>2 DEF TypeOK, Custody, Goto, PC, Active, InWorkspace
    <2>2. CASE Raise(r)
      BY <2>2, <1>a DEF TypeOK, Memory, Raise, Leave, Goto, Leaving, PC, Active, InWorkspace, Terminal
    <2> QED BY <2>1, <2>2
  <1>2. TypeOK'
    BY <1>1, ReadersTyped DEF TypeOK
  <1>3. Stages'
    BY <1>1 DEF Stages, Complete, HasResult
  <1>4. Checkouts'
    <2>1. \A q \in Runs, w \in Workers : <<q, w>> \in readers' =>
             /\ pc'[q] \in InWorkspace \cup {"ack", "nack", "ended"}
             /\ pc'[q] = "ended" \/ local'[q].worker = w
      BY <1>1, NewReaders DEF Checkouts, InWorkspace
    <2> QED BY <1>1, <2>1 DEF TypeOK, Checkouts, InWorkspace
  <1>5. Custody'
    BY <1>1, CustodyFrame DEF Active, InWorkspace
  <1>6. ReviewFollowsResult'
    BY DEF ReviewFollowsResult
  <1>7. AckMeansSaved'
    BY <1>1 DEF AckMeansSaved, Complete, HasResult
  <1> QED BY <1>2, <1>3, <1>4, <1>5, <1>6, <1>7

LEMMA OnResultStep == ASSUME IInv, NEW r \in Runs, OnResult(r) PROVE IInv'
  <1> USE DEF IInv, OnResult, InsertResult, AfterResult, Raise, Leave, Goto, Blank, Leaving, brokerVars, hostVars, dbVars
  <1>1. TypeOK'
    <2>1. resultRow' \in [Runs -> {"none", "completed", "failed"}] /\ latest' \in Runs \cup {0}
      BY DEF TypeOK, Memory
    <2>2. CASE AfterResult(r)
      <3>1. CASE local[r].result = "completed"
        <4>1. [local[r] EXCEPT !.review = "running"] \in Memory
          BY ReviewSet
        <4> QED BY <2>1, <2>2, <3>1, <4>1 DEF TypeOK, PC, Active, InWorkspace
      <3>2. CASE local[r].result # "completed"
        <4>1. Leave(r, "ack")
          BY <2>2, <3>2
        <4> QED BY <2>1, <4>1 DEF TypeOK, Memory, PC, Active, InWorkspace, Terminal
      <3> QED BY <3>1, <3>2
    <2>3. CASE Raise(r)
      BY <2>1, <2>3 DEF TypeOK, Memory, PC, Active, InWorkspace, Terminal
    <2> QED BY <2>2, <2>3
  <1>2. Stages'
    BY DEF TypeOK, Memory, Stages, Complete, HasResult, Terminal
  <1>3. Checkouts'
    BY DEF TypeOK, Memory, Stages, Checkouts, InWorkspace
  <1>4. Custody'
    BY CustodyFrame DEF TypeOK, Memory, Stages, Custody, Active, InWorkspace
  <1>5. ReviewFollowsResult'
    BY DEF TypeOK, Stages, ReviewFollowsResult
  <1>6. AckMeansSaved'
    BY DEF TypeOK, Stages, AckMeansSaved, Complete, HasResult, Terminal
  <1> QED BY <1>1, <1>2, <1>3, <1>4, <1>5, <1>6

LEMMA AnnounceStep == ASSUME IInv, NEW r \in Runs, Announce(r) PROVE IInv'
  <1> USE DEF IInv, Announce, UpsertReview, Raise, Leave, Goto, Blank, Leaving, brokerVars, hostVars, dbVars
  <1>1. TypeOK'
    <2>1. "review" \in PC
      BY DEF PC, Active, InWorkspace
    <2>2. pc' \in [Runs -> PC] /\ local' \in [Runs -> Memory]
      BY <2>1, GotoTypes, LeaveTypes DEF TypeOK
    <2>3. reviewRow' \in [Runs -> {"none", "running"} \cup Terminal]
      BY DEF TypeOK, Memory
    <2> QED BY <2>2, <2>3 DEF TypeOK
  <1>2. Stages'
    <2>1. resultRow' = resultRow /\ pc[r] = "announce" /\ reviewRow'[r] \notin Terminal
      BY DEF TypeOK, Stages, Terminal
    <2>2. \/ pc'[r] = "review" /\ local'[r] = local[r]
          \/ pc'[r] = "cleanup" /\ local'[r].ending = "nack"
      <3>1. CASE Goto(r, "review") /\ UNCHANGED local
        BY <3>1 DEF TypeOK
      <3>2. CASE Raise(r)
        BY <3>2 DEF TypeOK
      <3> QED BY <3>1, <3>2
    <2>3. \A q \in Runs \ {r} : pc'[q] = pc[q] /\ local'[q] = local[q] /\ reviewRow'[q] = reviewRow[q]
      BY DEF TypeOK
    <2> QED BY <2>1, <2>2, <2>3 DEF Stages, Complete, HasResult
  <1>3. Checkouts'
    BY DEF TypeOK, Memory, Stages, Checkouts, InWorkspace
  <1>4. Custody'
    BY CustodyFrame DEF TypeOK, Memory, Stages, Custody, Active, InWorkspace
  <1>5. ReviewFollowsResult'
    BY DEF TypeOK, Stages, ReviewFollowsResult
  <1>6. AckMeansSaved'
    BY DEF TypeOK, Stages, AckMeansSaved, Complete, HasResult, Terminal
  <1> QED BY <1>1, <1>2, <1>3, <1>4, <1>5, <1>6

LEMMA RunReviewStep == ASSUME IInv, NEW r \in Runs, RunReview(r) PROVE IInv'
  <1> USE DEF IInv, RunReview, Goto, Blank, Leaving, brokerVars, hostVars, dbVars
  <1>1. TypeOK'
    <2>1. PICK outcome \in Terminal : local' = [local EXCEPT ![r].review = outcome]
      BY DEF Terminal
    <2>2. [local[r] EXCEPT !.review = outcome] \in Memory
      BY <2>1, ReviewSet
    <2>3. readers' \subseteq Runs \X (Workers \cup {NoWorker})
      BY ReadersTyped
    <2> QED BY <2>1, <2>2, <2>3 DEF TypeOK, PC, Active, InWorkspace
  <1>2. Stages'
    BY DEF TypeOK, Memory, Stages, Complete, HasResult, Terminal
  <1>3. Checkouts'
    <2>1. /\ pc[r] = "review" /\ pc'[r] = "on_review" /\ workspaces' = workspaces
          /\ local'[r].worker = local[r].worker
          /\ \A q \in Runs \ {r} : pc'[q] = pc[q] /\ local'[q] = local[q]
      BY DEF TypeOK, Memory
    <2>2. \A q \in Runs, w \in Workers : <<q, w>> \in readers' =>
             /\ pc'[q] \in InWorkspace \cup {"ack", "nack", "ended"}
             /\ pc'[q] = "ended" \/ local'[q].worker = w
      BY <2>1, NewReaders DEF Checkouts, InWorkspace
    <2> QED BY <2>1, <2>2 DEF Checkouts, InWorkspace
  <1>4. Custody'
    BY CustodyFrame DEF TypeOK, Memory, Stages, Custody, Active, InWorkspace
  <1>5. ReviewFollowsResult'
    BY DEF TypeOK, Stages, ReviewFollowsResult
  <1>6. AckMeansSaved'
    BY DEF TypeOK, Stages, AckMeansSaved, Complete, HasResult, Terminal
  <1> QED BY <1>1, <1>2, <1>3, <1>4, <1>5, <1>6

LEMMA OnReviewStep == ASSUME IInv, NEW r \in Runs, OnReview(r) PROVE IInv'
  <1> USE DEF IInv, OnReview, UpsertReview, Raise, Leave, Goto, Blank, Leaving, brokerVars, hostVars, dbVars
  <1>1. TypeOK'
    <2>1. reviewRow' \in [Runs -> {"none", "running"} \cup Terminal]
      BY DEF TypeOK, Memory
    <2>2. local' \in [Runs -> Memory] /\ pc' \in [Runs -> PC]
      BY LeaveTypes DEF TypeOK
    <2> QED BY <2>1, <2>2 DEF TypeOK
  <1>2. Stages'
    BY DEF TypeOK, Memory, Stages, Complete, HasResult, Terminal
  <1>3. Checkouts'
    BY DEF TypeOK, Memory, Stages, Checkouts, InWorkspace
  <1>4. Custody'
    BY CustodyFrame DEF TypeOK, Memory, Stages, Custody, Active, InWorkspace
  <1>5. ReviewFollowsResult'
    BY DEF TypeOK, Stages, ReviewFollowsResult
  <1>6. AckMeansSaved'
    BY DEF TypeOK, Stages, AckMeansSaved, Complete, HasResult, Terminal
  <1> QED BY <1>1, <1>2, <1>3, <1>4, <1>5, <1>6

LEMMA CleanUpStep == ASSUME IInv, NEW r \in Runs, CleanUp(r) PROVE IInv'
  <1> USE DEF IInv, CleanUp, End, Goto, Blank, Leaving, brokerVars, hostVars, dbVars
  <1>1. TypeOK'
    <2>1. local[r].ending \in {"ack", "nack", "gone"}
      BY DEF TypeOK, Stages, Memory
    <2>2. pc' \in [Runs -> PC]
      BY <2>1 DEF TypeOK, PC, Active, InWorkspace
    <2>3. local' \in [Runs -> Memory]
      BY DEF TypeOK, Memory, Terminal
    <2> QED BY <2>2, <2>3 DEF TypeOK
  <1>2. Stages'
    BY DEF TypeOK, Memory, Stages, Complete, HasResult, Terminal
  <1>3. Checkouts'
    BY DEF TypeOK, Memory, Stages, Checkouts, InWorkspace
  <1>4. Custody'
    BY CustodyFrame DEF TypeOK, Memory, Stages, Custody, Active, InWorkspace
  <1>5. ReviewFollowsResult'
    BY DEF TypeOK, Stages, ReviewFollowsResult
  <1>6. AckMeansSaved'
    BY DEF TypeOK, Stages, AckMeansSaved, Complete, HasResult, Terminal
  <1> QED BY <1>1, <1>2, <1>3, <1>4, <1>5, <1>6

\* Settling takes the message from the one run that holds it; nobody else had it.
LEMMA SettleCustody ==
  ASSUME IInv, NEW r \in held, NEW how \in {"acked", "dropped"}, Settle(r, how), End(r),
         UNCHANGED msg
  PROVE  /\ settled' \in [Messages -> {"open", "acked", "dropped"}]
         /\ \A m \in Messages : m # msg[r] => settled'[m] = settled[m]
         /\ settled'[msg[r]] = how
         /\ Custody'
  <1> USE DEF IInv, Settle, End, Goto
  <1>1. r \in Runs /\ msg[r] \in Messages /\ msg[r] \in 1..published /\ r \in Holders(msg[r])
    BY DEF TypeOK, Custody, Active, InWorkspace, Messages, Holders
  <1>2. settled[msg[r]] = "open" /\ msg[r] \notin ready /\ Holders(msg[r]) = {r}
    BY <1>1 DEF Custody, OneCustodian
  <1>3. /\ settled' \in [Messages -> {"open", "acked", "dropped"}]
        /\ settled'[msg[r]] = how
        /\ \A m \in Messages : m # msg[r] => settled'[m] = settled[m]
    BY <1>1 DEF TypeOK
  <1>4. \A m \in Messages : Holders(m)' = IF m = msg[r] THEN {} ELSE Holders(m)
    BY <1>1, <1>2 DEF Holders
  <1>5. OneCustodian'
    BY <1>1, <1>2, <1>3, <1>4 DEF Custody, OneCustodian
  <1>6. \A q \in held' : pc'[q] \in Active /\ local'[q].ending # "gone"
    BY <1>1 DEF TypeOK, Custody
  <1>7. \A q \in Runs : pc'[q] # "free" => msg'[q] \in 1..published'
    BY <1>1 DEF TypeOK, Custody
  <1>8. \A m \in Messages : settled'[m] # "open" => m <= published'
    BY <1>1, <1>3 DEF Custody, Messages
  <1> QED BY <1>3, <1>5, <1>6, <1>7, <1>8 DEF Custody

LEMMA AckStep == ASSUME IInv, NEW r \in Runs, Ack(r) PROVE IInv'
  <1> USE DEF IInv, Ack, End, Goto, Blank, Leaving, hostVars, dbVars
  <1>1. CASE r \in held
    <2>1. Settle(r, "acked") /\ End(r) /\ UNCHANGED msg
      BY <1>1
    <2>2. /\ settled' \in [Messages -> {"open", "acked", "dropped"}]
          /\ \A m \in Messages : m # msg[r] => settled'[m] = settled[m]
          /\ Custody'
      BY <1>1, <2>1, SettleCustody
    <2>3. TypeOK'
      BY <2>1, <2>2 DEF TypeOK, Memory, PC, Active, Terminal, Settle
    <2>4. Stages'
      BY <2>1 DEF TypeOK, Stages, Complete, HasResult
    <2>5. Checkouts'
      BY <2>1 DEF TypeOK, Checkouts, InWorkspace
    <2>6. AckMeansSaved'
      <3>1. Complete(r)' /\ pc'[r] = "ended" /\ msg'[r] = msg[r]
        BY <2>1 DEF TypeOK, Stages, Complete, HasResult
      <3>2. \A q \in Runs : pc[q] = "ended" => pc'[q] = "ended"
        BY <2>1 DEF TypeOK
      <3> QED BY <2>2, <3>1, <3>2 DEF AckMeansSaved, Complete, HasResult
    <2> QED BY <2>2, <2>3, <2>4, <2>5, <2>6 DEF ReviewFollowsResult
  <1>2. CASE r \notin held
    <2>1. Goto(r, "nack") /\ UNCHANGED <<brokerVars, local>>
      BY <1>2
    <2>2. TypeOK' /\ Stages' /\ Checkouts'
      BY <2>1 DEF TypeOK, Stages, Checkouts, PC, Active, InWorkspace, Complete, HasResult, brokerVars
    <2>3. Custody'
      BY <1>2, <2>1, CustodyFrame DEF TypeOK
    <2> QED BY <2>1, <2>2, <2>3 DEF ReviewFollowsResult, AckMeansSaved, TypeOK, Complete, HasResult, brokerVars
  <1> QED BY <1>1, <1>2

LEMMA NackStep == ASSUME IInv, NEW r \in Runs, Nack(r) PROVE IInv'
  <1> USE DEF IInv, Nack, End, Goto, Blank, Leaving, hostVars, dbVars
  <1>1. /\ settled' \in [Messages -> {"open", "acked", "dropped"}]
        /\ \A m \in Messages : settled'[m] = "acked" => settled[m] = "acked"
        /\ held' \subseteq held /\ UNCHANGED <<published, ready>>
        /\ Custody'
    <2>1. CASE r \in held
      BY <2>1, SettleCustody DEF Settle
    <2>2. CASE r \notin held
      BY <2>2, CustodyFrame DEF TypeOK, brokerVars
    <2> QED BY <2>1, <2>2
  <1>2. TypeOK'
    BY <1>1 DEF TypeOK, Memory, PC, Active, Terminal
  <1>3. Stages'
    BY DEF TypeOK, Stages, Complete, HasResult
  <1>4. Checkouts'
    BY DEF TypeOK, Checkouts, InWorkspace
  <1>5. AckMeansSaved'
    BY <1>1 DEF TypeOK, AckMeansSaved, Complete, HasResult
  <1> QED BY <1>1, <1>2, <1>3, <1>4, <1>5 DEF ReviewFollowsResult

LEMMA PublishStep == ASSUME IInv, Publish PROVE IInv'
  <1> USE PipelineAssumption DEF IInv, Publish, hostVars, localVars, dbVars
  <1>1. published' = published + 1 /\ published' \in Messages /\ published' \notin 1..published
    BY DEF TypeOK, Messages
  <1>2. TypeOK'
    BY <1>1 DEF TypeOK, Messages
  <1>3. settled[published'] = "open" /\ Holders(published') = {} /\ published' \notin ready
    <2>1. settled[published'] = "open"
      BY <1>1 DEF TypeOK, Custody, Messages
    <2>2. \A r \in held : msg[r] # published'
      BY <1>1 DEF TypeOK, Custody, Active, InWorkspace
    <2> QED BY <1>1, <2>1, <2>2 DEF Custody, Holders
  <1>4. OneCustodian'
    <2>1. \A m \in Messages : Holders(m)' = Holders(m)
      BY DEF Holders
    <2>2. \A m \in Messages : m <= published' => m <= published \/ m = published'
      BY <1>1 DEF TypeOK, Messages
    <2> QED BY <1>1, <1>3, <2>1, <2>2 DEF Custody, OneCustodian
  <1>5. Custody'
    BY <1>1, <1>4 DEF TypeOK, Custody, Messages
  <1>6. Stages' /\ Checkouts'
    BY DEF Stages, Checkouts, Complete, HasResult
  <1> QED BY <1>2, <1>5, <1>6 DEF ReviewFollowsResult, AckMeansSaved, Complete, HasResult

LEMMA HandleMessageStep ==
  ASSUME IInv, NEW w \in Workers, NEW m \in Messages, NEW r \in Runs, HandleMessage(w, m, r)
  PROVE  IInv'
  <1> USE DEF IInv, HandleMessage, IsHead, NextRun, hostVars, dbVars
  <1>1. /\ local' \in [Runs -> Memory] /\ local'[r].ending = "none"
        /\ \A q \in Runs \ {r} : local'[q] = local[q]
    <2>1. local[r] \in Memory /\ local[r].ending = "none"
      BY DEF TypeOK, Stages, Blank, Leaving
    <2>2. /\ [local[r] EXCEPT !.worker = w] \in Memory
          /\ [local[r] EXCEPT !.worker = w].ending = "none"
      BY <2>1 DEF Memory
    <2> QED BY <2>2 DEF TypeOK
  <1>2. /\ pc' \in [Runs -> PC] /\ workspaces' \subseteq Runs
        /\ \A q \in Runs \ {r} : pc'[q] = pc[q] /\ (q \in workspaces' <=> q \in workspaces)
        /\ \/ pc'[r] \in {"nack", "unsettled"} /\ workspaces' = workspaces
           \/ pc'[r] = "prepare" /\ r \in workspaces'
    BY DEF TypeOK, PC, Active, InWorkspace
  <1>3. TypeOK'
    BY <1>1, <1>2 DEF TypeOK
  <1>4. Stages'
    BY <1>1, <1>2 DEF Stages, Complete, HasResult
  <1>5. Checkouts'
    BY <1>2 DEF Checkouts, InWorkspace
  <1>6. r \notin held /\ msg' \in [Runs -> Messages \cup {0}] /\ msg'[r] = m
        /\ \A q \in Runs \ {r} : msg'[q] = msg[q]
    BY DEF TypeOK, Custody, Active, InWorkspace
  <1>7. OneCustodian'
    <2>1. \A n \in Messages : Holders(n)' = IF n = m THEN {r} ELSE Holders(n)
      BY <1>6 DEF TypeOK, Custody, OneCustodian, Holders
    <2>2. settled[m] = "open" /\ \A n \in Messages : n \in ready' <=> n \in ready /\ n # m
      BY DEF TypeOK, Custody, OneCustodian
    <2> QED BY <2>1, <2>2 DEF Custody, OneCustodian
  <1>8. Custody'
    BY <1>1, <1>2, <1>6, <1>7 DEF TypeOK, Custody, Active, InWorkspace
  <1>9. AckMeansSaved'
    BY <1>2, <1>6 DEF AckMeansSaved, Complete, HasResult
  <1> QED BY <1>3, <1>4, <1>5, <1>8, <1>9 DEF ReviewFollowsResult

\* Requeueing moves a message from the run that held it back to the queue.
LEMMA RequeueCustody ==
  ASSUME IInv, NEW w \in Workers, Requeue(w), UNCHANGED msg,
         \A r \in Runs : pc[r] = "free" => pc'[r] = "free",
         \A r \in held \ HeldBy(w) : pc'[r] = pc[r] /\ local'[r] = local[r]
  PROVE  Custody' /\ ready' \subseteq Messages /\ held' \subseteq Runs
  <1> USE DEF IInv, Requeue
  <1>1. \A r \in held : r \in Runs /\ msg[r] \in Messages /\ msg[r] \in 1..published
    BY DEF TypeOK, Custody, Active, InWorkspace, Messages
  <1>2. ready' \subseteq Messages /\ held' \subseteq Runs /\ ready' \subseteq 1..published'
    <2>1. \A m \in ready' : m \in ready \/ \E r \in held : m = msg[r]
      BY DEF HeldBy
    <2>2. \A m \in ready' : m \in Messages /\ m \in 1..published
      BY <1>1, <2>1 DEF TypeOK, Custody
    <2>3. held' \subseteq Runs /\ published' = published
      BY DEF TypeOK
    <2> QED BY <2>2, <2>3
  <1>3. OneCustodian'
    <2> SUFFICES ASSUME NEW m \in Messages
                 PROVE  /\ \A r, q \in Holders(m)' : r = q
                        /\ settled'[m] # "open" => m \notin ready' /\ Holders(m)' = {}
                        /\ m \in ready' => Holders(m)' = {}
                        /\ m <= published' /\ settled'[m] = "open" => m \in ready' \/ Holders(m)' # {}
      BY DEF OneCustodian
    <2>1. Holders(m)' = Holders(m) \ HeldBy(w)
      BY DEF Holders
    <2>2. m \in ready' <=> m \in ready \/ \E r \in HeldBy(w) : msg[r] = m
      BY DEF Holders
    <2>3. (\E r \in HeldBy(w) : msg[r] = m) <=> \E r \in Holders(m) : r \in HeldBy(w)
      BY DEF Holders, HeldBy
    <2> QED BY <2>1, <2>2, <2>3 DEF Custody, OneCustodian
  <1>4. \A r \in held' : pc'[r] \in Active /\ local'[r].ending # "gone"
    BY DEF Custody
  <1>5. \A r \in Runs : pc'[r] # "free" => msg'[r] \in 1..published'
    <2>1. msg' = msg /\ published' = published
      OBVIOUS
    <2>2. \A r \in Runs : pc'[r] # "free" => pc[r] # "free"
      OBVIOUS
    <2> QED BY <2>1, <2>2 DEF Custody
  <1> QED BY <1>2, <1>3, <1>4, <1>5 DEF Custody

LEMMA CrashStep == ASSUME IInv, NEW w \in Workers, Crash(w) PROVE IInv'
  <1> USE PipelineAssumption DEF IInv, Crash, dbVars
  <1>1. \A r \in Runs : \/ pc'[r] = pc[r] /\ local'[r] = local[r]
                        \/ pc'[r] = "crashed" /\ local'[r] = Blank /\ pc[r] \in Active
    BY DEF TypeOK, Stages, Blank, Leaving, PC
  <1>2. pc' \in [Runs -> PC] /\ local' \in [Runs -> Memory]
    BY DEF TypeOK, PC, Memory, Blank, Leaving, Terminal
  <1>3. Custody' /\ ready' \subseteq Messages /\ held' \subseteq Runs
    <2>1. \A r \in held \ HeldBy(w) : pc'[r] = pc[r] /\ local'[r] = local[r]
      BY DEF TypeOK, HeldBy
    <2> QED BY <1>1, <2>1, RequeueCustody DEF Active, InWorkspace
  <1>4. TypeOK'
    BY <1>2, <1>3 DEF TypeOK, Requeue
  <1>5. Stages'
    BY <1>1 DEF Stages, Complete, HasResult
  <1>6. Checkouts'
    BY <1>1 DEF Checkouts, Active, InWorkspace
  <1>7. AckMeansSaved'
    BY <1>1 DEF AckMeansSaved, Complete, HasResult, Requeue, Active, InWorkspace
  <1> QED BY <1>3, <1>4, <1>5, <1>6, <1>7 DEF ReviewFollowsResult

LEMMA RestartStep == ASSUME IInv, NEW w \in Workers, Restart(w) PROVE IInv'
  <1> USE DEF IInv, Restart, brokerVars, localVars, dbVars
  <1>1. TypeOK' /\ Stages' /\ Checkouts'
    BY DEF TypeOK, Stages, Checkouts, Complete, HasResult
  <1>2. Custody'
    BY DEF Custody, OneCustodian, Holders
  <1> QED BY <1>1, <1>2 DEF ReviewFollowsResult, AckMeansSaved, Complete, HasResult

LEMMA LoseConnectionStep == ASSUME IInv, NEW w \in Workers, LoseConnection(w) PROVE IInv'
  <1> USE PipelineAssumption DEF IInv, LoseConnection, dbVars
  <1>1. PICK cancelled \in SUBSET HeldBy(w) :
          /\ pc' = [r \in Runs |-> IF r \notin cancelled THEN pc[r]
                                   ELSE IF pc[r] \in InWorkspace THEN "cleanup" ELSE "ended"]
          /\ local' = [r \in Runs |-> IF r \notin cancelled THEN local[r]
                                      ELSE IF pc[r] \in InWorkspace
                                           THEN Leaving(w, "gone")
                                           ELSE Blank]
          /\ LeaveReaders(cancelled)
    OBVIOUS
  <1>2. \A r \in Runs :
          \/ pc'[r] = pc[r] /\ local'[r] = local[r]
          \/ pc'[r] = "cleanup" /\ local'[r] = Leaving(w, "gone") /\ pc[r] \in InWorkspace
          \/ pc'[r] = "ended" /\ local'[r] = Blank /\ pc[r] \in Active \ InWorkspace
    BY <1>1 DEF TypeOK, Custody, HeldBy
  <1>3. Leaving(w, "gone") \in Memory /\ Blank \in Memory /\ Leaving(w, "gone").ending = "gone"
    BY DEF Memory, Blank, Leaving, Terminal
  <1>4. pc' \in [Runs -> PC] /\ local' \in [Runs -> Memory]
    BY <1>1, <1>3 DEF TypeOK, PC, Active, InWorkspace
  <1>5. Custody' /\ ready' \subseteq Messages /\ held' \subseteq Runs
    <2>1. \A r \in held \ HeldBy(w) : pc'[r] = pc[r] /\ local'[r] = local[r]
      BY <1>1 DEF TypeOK
    <2>2. \A r \in Runs : pc[r] = "free" => pc'[r] = "free"
      BY <1>2 DEF Active, InWorkspace
    <2> QED BY <2>1, <2>2, RequeueCustody
  <1>6. TypeOK'
    <2>1. cancelled \in SUBSET Runs
      BY DEF TypeOK, HeldBy
    <2> QED BY <1>1, <1>4, <1>5, <2>1, ReadersTyped DEF TypeOK, Requeue
  <1>7. Stages'
    BY <1>2, <1>3 DEF Stages, Complete, HasResult
  <1>8. Checkouts'
    <2>1. cancelled \in SUBSET Runs /\ \A q \in cancelled : local[q].worker = w
      BY DEF TypeOK, HeldBy
    <2>2. ASSUME NEW q \in Runs, NEW v \in Workers, <<q, v>> \in readers'
          PROVE  /\ pc'[q] \in InWorkspace \cup {"ack", "nack", "ended"}
                 /\ pc'[q] = "ended" \/ local'[q].worker = v
      <3>1. \/ <<q, v>> \in readers
            \/ q \in cancelled /\ pc[q] \in {"analyze", "review"} /\ local[q].worker = v
        BY <1>1, <2>1, <2>2, NewReaders
      <3>2. /\ pc[q] \in InWorkspace \cup {"ack", "nack", "ended"}
            /\ pc[q] = "ended" \/ local[q].worker = v
        BY <3>1 DEF Checkouts, InWorkspace
      <3>3. CASE q \notin cancelled
        BY <1>1, <3>2, <3>3
      <3>4. CASE q \in cancelled
        <4>1. local[q].worker = w /\ (pc[q] # "ended" => v = w)
          BY <2>1, <3>2, <3>4
        <4> QED BY <1>1, <3>2, <3>4, <4>1 DEF Leaving, InWorkspace
      <3> QED BY <3>3, <3>4
    <2> QED BY <1>2, <2>2 DEF Checkouts, Active, InWorkspace
  <1>9. AckMeansSaved'
    BY <1>2 DEF AckMeansSaved, Complete, HasResult, Requeue, Active, InWorkspace
  <1> QED BY <1>5, <1>6, <1>7, <1>8, <1>9 DEF ReviewFollowsResult

LEMMA ReadersEndStep == ASSUME IInv, NEW r \in Runs, NEW w \in Workers, ReadersEnd(r, w) PROVE IInv'
  <1> USE DEF IInv, ReadersEnd, brokerVars, localVars, dbVars
  <1>1. TypeOK' /\ Stages' /\ Checkouts'
    BY DEF TypeOK, Stages, Checkouts, Complete, HasResult
  <1>2. Custody'
    BY DEF Custody, OneCustodian, Holders
  <1> QED BY <1>1, <1>2 DEF ReviewFollowsResult, AckMeansSaved, Complete, HasResult

LEMMA NextIInv == IInv /\ [Next]_vars => IInv'
  <1> SUFFICES ASSUME IInv, [Next]_vars PROVE IInv'
    OBVIOUS
  <1>1. CASE Publish
    BY <1>1, PublishStep
  <1>2. CASE \E w \in Workers : Deliver(w) \/ Crash(w) \/ Restart(w) \/ LoseConnection(w)
    BY <1>2, HandleMessageStep, CrashStep, RestartStep, LoseConnectionStep DEF Deliver
  <1>3. CASE \E r \in Runs : Step(r)
    BY <1>3, PrepareStep, AnalyzeStep, OnResultStep, AnnounceStep, RunReviewStep, OnReviewStep,
       CleanUpStep, AckStep, NackStep DEF Step
  <1>4. CASE UNCHANGED vars
    <2> USE <1>4 DEF vars, brokerVars, hostVars, localVars, dbVars, IInv
    <2>1. TypeOK' /\ Stages' /\ Checkouts'
      BY DEF TypeOK, Stages, Checkouts, Complete, HasResult
    <2>2. Custody'
      BY DEF Custody, OneCustodian, Holders
    <2> QED BY <2>1, <2>2 DEF ReviewFollowsResult, AckMeansSaved, Complete, HasResult
  <1>5. CASE \E r \in Runs, w \in Workers : ReadersEnd(r, w)
    BY <1>5, ReadersEndStep
  <1> QED BY <1>1, <1>2, <1>3, <1>4, <1>5 DEF Next

-----------------------------------------------------------------------------
\* The inductive invariant holds of every behaviour, so the places the code reaches,
\* the rows stored and the message's whereabouts agree for any number of workers.
THEOREM PipelineInvariant == Spec => []IInv
  BY InitIInv, NextIInv, PTL DEF Spec

\* The state stays within its types (TypeOK).
THEOREM TypeCorrect == Spec => []TypeOK
  <1>1. IInv => TypeOK
    BY DEF IInv
  <1> QED BY <1>1, PipelineInvariant, PTL

\* An acknowledged push has a complete result, whatever saves raised, workers
\* crashed and connections dropped (_handle_message acks only after run()).
THEOREM AcknowledgedIsSaved == Spec => []AckMeansSaved
  <1>1. IInv => AckMeansSaved
    BY DEF IInv
  <1> QED BY <1>1, PipelineInvariant, PTL

\* A review row always has its completed result (on_result before on_review).
THEOREM ReviewHasResult == Spec => []ReviewFollowsResult
  <1>1. IInv => ReviewFollowsResult
    BY DEF IInv
  <1> QED BY <1>1, PipelineInvariant, PTL

\* The checkout is there as long as the handler is in its block, whatever raises or is
\* cancelled there, also for what a gather has left behind on it, which loses the checkout
\* only to the handler's `finally`; a dead process leaves its checkout, and no reader of it.
THEOREM CheckoutIsThere == Spec => []CheckoutLifetime
  <1>1. IInv => CheckoutLifetime
    BY DEF IInv, Checkouts, CheckoutLifetime, InWorkspace
  <1> QED BY <1>1, PipelineInvariant, PTL

\* No fault loses a push or gives it to two runs that could both settle it.
THEOREM MessageConserved == Spec => []OneCustodian
  <1>1. IInv => OneCustodian
    BY DEF IInv, Custody
  <1> QED BY <1>1, PipelineInvariant, PTL

\* The outcome of a review, once stored, is never overwritten (the upsert of
\* AgentReviewRepository.save is only ever reached by the run that owns the row).
THEOREM OutcomeIsFinal == Spec => OutcomeStands
  <1> DEFINE Stands == \A r \in Runs : reviewRow[r] \in Terminal => reviewRow'[r] = reviewRow[r]
  <1>1. IInv /\ [Next]_vars => [Stands]_vars
    <2> SUFFICES ASSUME IInv, Next, NEW r \in Runs, reviewRow[r] \in Terminal
                 PROVE  reviewRow'[r] = reviewRow[r]
      OBVIOUS
    <2>1. ASSUME NEW q \in Runs, UpsertReview(q), pc[q] \in {"announce", "on_review"}
          PROVE  reviewRow'[r] = reviewRow[r]
      BY <2>1 DEF IInv, TypeOK, Stages, UpsertReview
    <2>2. ASSUME NEW q \in Runs, Step(q) PROVE reviewRow'[r] = reviewRow[r]
      BY <2>1, <2>2 DEF Step, Prepare, Analyze, OnResult, InsertResult, Announce, RunReview, OnReview,
         CleanUp, Ack, Nack, dbVars
    <2> QED BY <2>2 DEF Next, Deliver, Publish, HandleMessage, Crash, Restart, LoseConnection, ReadersEnd,
             dbVars
  <1> QED BY <1>1, PipelineInvariant, PTL DEF Spec, OutcomeStands

-----------------------------------------------------------------------------
(* How often a push is run.                                                *)

\* There are finitely many runs, so those of a push can be counted.
LEMMA Countable ==
  ASSUME NEW S \in SUBSET Runs
  PROVE  IsFiniteSet(S) /\ Cardinality(S) \in Nat
  <1>1. IsFiniteSet(Runs)
    BY PipelineAssumption, FS_Interval DEF Runs
  <1>2. IsFiniteSet(S)
    BY <1>1, FS_Subset
  <1> QED BY <1>2, FS_CardinalityType

\* A step that starts no run and puts no message back changes no count, and faults
\* only make room for more.
LEMMA NothingStarted ==
  ASSUME IInv, RunsPerFault, UNCHANGED <<published, ready, msg>>, faults' >= faults, faults' \in Nat
  PROVE  RunsPerFault'
  <1> SUFFICES ASSUME NEW m \in Messages
               PROVE  Cardinality(Started(m)')
                        <= IF m \in ready' \/ m > published' THEN faults' ELSE 1 + faults'
    BY DEF RunsPerFault
  <1>1. Started(m)' = Started(m) /\ Cardinality(Started(m)) \in Nat
    BY Countable DEF Started
  <1>2. faults \in Nat
    BY PipelineAssumption DEF IInv, TypeOK
  <1> QED BY <1>1, <1>2 DEF RunsPerFault

\* A delivery is one start more, of a message that had not used up its count.
LEMMA DeliveryCounted ==
  ASSUME IInv, RunsPerFault, NEW w \in Workers, NEW n \in Messages, NEW r \in Runs,
         HandleMessage(w, n, r)
  PROVE  RunsPerFault'
  <1> USE DEF HandleMessage
  <1> SUFFICES ASSUME NEW m \in Messages
               PROVE  Cardinality(Started(m)')
                        <= IF m \in ready' \/ m > published' THEN faults' ELSE 1 + faults'
    BY DEF RunsPerFault
  <1>1. faults \in Nat /\ faults' = faults /\ published' = published /\ published \in Nat
    BY PipelineAssumption DEF IInv, TypeOK, hostVars
  <1>2. IsFiniteSet(Started(m)) /\ Cardinality(Started(m)) \in Nat
    BY Countable DEF Started
  <1>3. \A q \in Runs : msg'[q] = IF q = r THEN n ELSE msg[q]
    BY DEF IInv, TypeOK
  <1>4. CASE m = n
    <2>1. Cardinality(Started(m)) <= faults /\ m \notin ready' /\ ~(m > published')
      <3>1. n \in ready /\ n \in 1..published
        BY DEF IsHead, IInv, Custody
      <3> QED BY <1>1, <1>4, <3>1 DEF RunsPerFault
    <2>2. Started(m)' \subseteq Started(m) \cup {r}
      BY <1>3 DEF Started
    <2>3. /\ IsFiniteSet(Started(m) \cup {r})
          /\ Cardinality(Started(m) \cup {r}) <= Cardinality(Started(m)) + 1
          /\ Cardinality(Started(m) \cup {r}) \in Nat
      <3>1. Started(m) \cup {r} \in SUBSET Runs
        BY DEF Started
      <3> QED BY <1>2, <3>1, Countable, FS_AddElement
    <2>4. Cardinality(Started(m)') <= Cardinality(Started(m) \cup {r}) /\ Cardinality(Started(m)') \in Nat
      <3>1. IsFiniteSet(Started(m)') /\ Cardinality(Started(m)') \in Nat
        <4>1. Started(m)' \in SUBSET Runs
          BY DEF Started
        <4> QED BY <4>1, Countable
      <3> QED BY <2>2, <2>3, <3>1, FS_Subset
    <2> QED BY <1>1, <1>2, <2>1, <2>3, <2>4
  <1>5. CASE m # n
    <2>1. Started(m)' \subseteq Started(m)
      BY <1>3, <1>5 DEF Started
    <2>2. Cardinality(Started(m)') <= Cardinality(Started(m)) /\ Cardinality(Started(m)') \in Nat
      BY <1>2, <2>1, FS_Subset, FS_CardinalityType
    <2>3. m \in ready' <=> m \in ready
      BY <1>5
    <2> QED BY <1>1, <1>2, <2>2, <2>3 DEF RunsPerFault
  <1> QED BY <1>4, <1>5

\* A crash or a lost connection makes up for every message it puts back.
LEMMA FaultCounted ==
  ASSUME IInv, RunsPerFault, faults' = faults + 1, published' = published, msg' = msg,
         \A m \in ready : m \in ready'
  PROVE  RunsPerFault'
  <1> SUFFICES ASSUME NEW m \in Messages
               PROVE  Cardinality(Started(m)')
                        <= IF m \in ready' \/ m > published' THEN faults' ELSE 1 + faults'
    BY DEF RunsPerFault
  <1>1. Started(m)' = Started(m) /\ Cardinality(Started(m)) \in Nat
    BY Countable DEF Started
  <1>2. faults \in Nat
    BY PipelineAssumption DEF IInv, TypeOK
  <1> QED BY <1>1, <1>2 DEF RunsPerFault

LEMMA PublishCounted == ASSUME IInv, RunsPerFault, Publish PROVE RunsPerFault'
  <1> SUFFICES ASSUME NEW m \in Messages
               PROVE  Cardinality(Started(m)')
                        <= IF m \in ready' \/ m > published' THEN faults' ELSE 1 + faults'
    BY DEF RunsPerFault
  <1>1. Started(m)' = Started(m) /\ Cardinality(Started(m)) \in Nat
    BY Countable DEF Publish, localVars, Started
  <1>2. faults \in Nat /\ faults' = faults /\ published \in Nat /\ m \in Nat
    BY PipelineAssumption DEF IInv, TypeOK, Publish, hostVars, Messages
  <1>3. published' = published + 1 /\ ready' = ready \cup {published + 1}
    BY DEF Publish
  <1>4. m \in ready' \/ m > published' <=> m \in ready \/ m > published
    BY <1>2, <1>3 DEF IInv, Custody
  <1> QED BY <1>1, <1>2, <1>4 DEF RunsPerFault

LEMMA NextRunsPerFault == IInv /\ RunsPerFault /\ [Next]_vars => RunsPerFault'
  <1> SUFFICES ASSUME IInv, RunsPerFault, [Next]_vars PROVE RunsPerFault'
    OBVIOUS
  <1>a. faults \in Nat
    BY PipelineAssumption DEF IInv, TypeOK
  <1>1. CASE Publish
    BY <1>1, PublishCounted
  <1>2. CASE \E w \in Workers : Deliver(w)
    BY <1>2, DeliveryCounted DEF Deliver
  <1>3. CASE \E w \in Workers : Crash(w) \/ LoseConnection(w)
    BY <1>3, FaultCounted DEF Crash, LoseConnection, Requeue
  <1>4. CASE \E w \in Workers : Restart(w)
    BY <1>4, <1>a, NothingStarted DEF Restart, brokerVars, localVars
  <1>5. CASE \E r \in Runs : Step(r)
    <2>1. UNCHANGED <<published, ready, msg, faults>>
      BY <1>5 DEF Step, Prepare, Analyze, OnResult, Announce, RunReview, OnReview, CleanUp,
         Ack, Nack, Settle, brokerVars, hostVars
    <2> QED BY <1>a, <2>1, NothingStarted
  <1>6. CASE UNCHANGED vars
    BY <1>6, <1>a, NothingStarted DEF vars, brokerVars, hostVars, localVars
  <1>7. CASE \E r \in Runs, w \in Workers : ReadersEnd(r, w)
    BY <1>7, <1>a, NothingStarted DEF ReadersEnd, brokerVars, localVars
  <1> QED BY <1>1, <1>2, <1>3, <1>4, <1>5, <1>6, <1>7 DEF Next

\* A push has at most one result row more than there were crashes and lost connections,
\* for any number of workers and any prefetch: nothing else delivers it again.
THEOREM RowsBounded == Spec => []RowsPerFault
  <1>1. Init => RunsPerFault
    <2> SUFFICES ASSUME Init, NEW m \in Messages PROVE Cardinality(Started(m)) = 0 /\ m > published
      BY DEF RunsPerFault, Init
    <2>1. Started(m) = {}
      BY DEF Init, Started, Messages
    <2> QED BY <2>1, FS_EmptySet DEF Init, Messages
  <1>2. IInv /\ RunsPerFault => RowsPerFault
    <2> SUFFICES ASSUME IInv, RunsPerFault, NEW m \in Messages
                 PROVE  Cardinality({r \in Runs : msg[r] = m /\ HasResult(r)}) <= 1 + faults
      BY DEF RowsPerFault
    <2> DEFINE rows == {r \in Runs : msg[r] = m /\ HasResult(r)}
    <2>1. rows \subseteq Started(m) /\ IsFiniteSet(Started(m)) /\ Cardinality(Started(m)) \in Nat
      BY Countable DEF Started
    <2>2. Cardinality(rows) <= Cardinality(Started(m)) /\ Cardinality(rows) \in Nat
      BY <2>1, FS_Subset, FS_CardinalityType
    <2>3. faults \in Nat
      BY PipelineAssumption DEF IInv, TypeOK
    <2> QED BY <2>1, <2>2, <2>3 DEF RunsPerFault
  <1> QED BY <1>1, <1>2, NextRunsPerFault, PipelineInvariant, PTL DEF Spec

-----------------------------------------------------------------------------
(* The order of the pushes, with one worker.                               *)

\* Nothing is started and nothing settled is opened again.
LEMMA OrderStands ==
  ASSUME IInv, InOrder, msg' = msg,
         \A r \in Runs : pc'[r] # "free" <=> pc[r] # "free",
         \A m \in Messages : settled[m] # "open" => settled'[m] # "open",
         latest' = latest \/ (latest' \in Runs /\ pc[latest'] # "free"),
         \A r \in held' : r \in held /\ local'[r].worker = local[r].worker
  PROVE  InOrder'
  <1>1. latest \in Runs \cup {0}
    BY DEF IInv, TypeOK
  <1> QED BY <1>1 DEF InOrder

\* The worker that takes the oldest message holds no other: every older one is settled.
LEMMA DeliveryInOrder ==
  ASSUME OneAtATime, IInv, InOrder, NEW w \in Workers, NEW n \in Messages, NEW r \in Runs,
         HandleMessage(w, n, r)
  PROVE  InOrder'
  <1> USE DEF HandleMessage
  <1>1. HeldBy(w) = {}
    <2>1. HeldBy(w) \in SUBSET Runs
      BY DEF HeldBy, IInv, TypeOK
    <2>2. IsFiniteSet(HeldBy(w)) /\ Cardinality(HeldBy(w)) \in Nat
      BY <2>1, Countable
    <2>3. Cardinality(HeldBy(w)) = 0
      BY <2>2 DEF HasRoom, OneAtATime
    <2> QED BY <2>2, <2>3, FS_EmptySet
  <1>2. held = {}
    <2> SUFFICES ASSUME NEW q \in held PROVE FALSE
      OBVIOUS
    <2>1. q \in HeldBy(w)
      BY DEF InOrder, OneAtATime, HeldBy
    <2> QED BY <1>1, <2>1
  <1>3. \A m \in Messages : m < n => settled[m] # "open"
    <2> SUFFICES ASSUME NEW m \in Messages, m < n, settled[m] = "open" PROVE FALSE
      OBVIOUS
    <2>1. n \in 1..published /\ m \in Nat /\ n \in Nat /\ published \in Nat
      BY PipelineAssumption DEF IsHead, IInv, Custody, TypeOK, Messages
    <2>2. m \in ready \/ Holders(m) # {}
      BY <2>1 DEF IInv, Custody, OneCustodian
    <2>3. m \in ready
      BY <1>2, <2>2 DEF Holders
    <2> QED BY <2>1, <2>3 DEF IsHead
  <1>4. \A q \in Runs : /\ q # r => pc'[q] = pc[q] /\ msg'[q] = msg[q]
                        /\ pc'[r] # "free" /\ msg'[r] = n
    BY DEF IInv, TypeOK
  <1>5. settled' = settled /\ latest' = latest /\ latest \in Runs \cup {0}
    BY DEF dbVars, IInv, TypeOK
  <1>6. \A q \in held' : local'[q].worker \in Workers
    <2>1. held' = {r} /\ local[r] \in Memory
      BY <1>2 DEF IInv, TypeOK
    <2>2. [local[r] EXCEPT !.worker = w].worker = w
      BY <2>1 DEF Memory
    <2> QED BY <2>1, <2>2 DEF IInv, TypeOK
  <1> QED BY <1>3, <1>4, <1>5, <1>6 DEF InOrder

\* A run's own steps settle one message or none, and keep the run's worker while it
\* holds a delivery.
LEMMA RunInOrder == ASSUME IInv, InOrder, NEW r \in Runs, Step(r) PROVE InOrder'
  <1>1. msg' = msg
    BY DEF Step, Prepare, Analyze, OnResult, Announce, RunReview, OnReview, CleanUp, Ack, Nack
  <1>2. pc[r] # "free"
    BY DEF Step, Prepare, Analyze, OnResult, Announce, RunReview, OnReview, CleanUp, Ack, Nack
  <1>3. /\ \A q \in Runs \ {r} : pc'[q] = pc[q] /\ local'[q] = local[q]
        /\ pc'[r] # "free"
        /\ local'[r].worker = local[r].worker \/ r \notin held'
    <2>a. pc \in [Runs -> PC] /\ local \in [Runs -> Memory]
      BY DEF IInv, TypeOK
    <2>b. ASSUME NEW how, Leave(r, how)
          PROVE  /\ \A q \in Runs \ {r} : pc'[q] = pc[q] /\ local'[q] = local[q]
                 /\ pc'[r] = "cleanup" /\ local'[r].worker = local[r].worker
      BY <2>a, <2>b DEF Leave, Goto, Leaving
    <2>1. CASE Prepare(r)
      BY <2>a, <2>b, <2>1 DEF Prepare, Raise, Goto
    <2>2. CASE Analyze(r)
      <3>1. CASE Raise(r)
        BY <2>b, <3>1 DEF Raise
      <3>2. CASE ~Raise(r)
        <4>1. PICK status \in {"completed", "failed"}, plan \in {"skip", "blind", "full"} :
                 /\ local' = [local EXCEPT ![r] = [local[r] EXCEPT !.result = status, !.plan = plan]]
                 /\ Goto(r, "on_result")
          BY <2>2, <3>2 DEF Analyze
        <4>2. [local[r] EXCEPT !.result = status, !.plan = plan].worker = local[r].worker
          BY <2>a DEF Memory
        <4> QED BY <2>a, <4>1, <4>2 DEF Goto
      <3> QED BY <3>1, <3>2
    <2>3. CASE OnResult(r) \/ Announce(r) \/ RunReview(r) \/ OnReview(r)
      <3>1. CASE Raise(r) \/ Leave(r, "ack")
        BY <2>b, <3>1 DEF Raise
      <3>2. CASE ~(Raise(r) \/ Leave(r, "ack"))
        <4>1. /\ \E place \in {"announce", "review", "on_review"} : Goto(r, place)
              /\ local' = local \/ \E status : local' = [local EXCEPT ![r].review = status]
          BY <2>3, <3>2 DEF OnResult, AfterResult, Announce, RunReview, OnReview
        <4>2. \A q \in Runs \ {r} : pc'[q] = pc[q] /\ local'[q] = local[q]
          BY <2>a, <4>1 DEF Goto
        <4>3. pc'[r] # "free"
          BY <2>a, <4>1 DEF Goto
        <4>4. local'[r].worker = local[r].worker
          <5>1. CASE local' = local
            BY <5>1
          <5>2. ASSUME NEW status, local' = [local EXCEPT ![r].review = status]
                PROVE  local'[r].worker = local[r].worker
            BY <2>a, <5>2 DEF Memory
          <5> QED BY <4>1, <5>1, <5>2
        <4> QED BY <4>2, <4>3, <4>4
      <3> QED BY <3>1, <3>2
    <2>4. CASE CleanUp(r)
      <3>1. local[r].ending # "gone" \/ r \notin held'
        BY <2>4 DEF CleanUp, brokerVars, IInv, Custody
      <3>2. CASE local[r].ending = "gone"
        BY <2>a, <2>4, <3>1, <3>2 DEF CleanUp, End, Goto
      <3>3. CASE local[r].ending # "gone"
        BY <2>a, <2>4, <3>3 DEF CleanUp, Goto, Memory
      <3> QED BY <3>2, <3>3
    <2>5. CASE Ack(r) \/ Nack(r)
      <3>1. CASE End(r)
        BY <2>a, <2>5, <3>1 DEF Ack, Nack, Settle, End, Goto, brokerVars
      <3>2. CASE ~End(r)
        BY <2>a, <2>5, <3>2 DEF Ack, Nack, Goto
      <3> QED BY <3>1, <3>2
    <2> QED BY <2>1, <2>2, <2>3, <2>4, <2>5 DEF Step
  <1>4. \A m \in Messages : settled[m] # "open" => settled'[m] # "open"
    BY DEF Step, Prepare, Analyze, OnResult, Announce, RunReview, OnReview, CleanUp, Ack, Nack,
       Settle, brokerVars, IInv, TypeOK
  <1>5. held' \subseteq held
    BY DEF Step, Prepare, Analyze, OnResult, Announce, RunReview, OnReview, CleanUp, Ack, Nack,
       Settle, brokerVars
  <1>6. latest' = latest \/ latest' = r
    BY DEF Step, Prepare, Analyze, OnResult, InsertResult, Announce, RunReview, OnReview, UpsertReview,
       CleanUp, Ack, Nack, dbVars
  <1>7. held \subseteq Runs
    BY DEF IInv, TypeOK
  <1> QED BY <1>1, <1>2, <1>3, <1>4, <1>5, <1>6, <1>7, OrderStands

LEMMA NextInOrder == OneAtATime /\ IInv /\ InOrder /\ [Next]_vars => InOrder'
  <1> SUFFICES ASSUME OneAtATime, IInv, InOrder, [Next]_vars PROVE InOrder'
    OBVIOUS
  <1>a. pc \in [Runs -> PC] /\ local \in [Runs -> Memory] /\ held \subseteq Runs
    BY DEF IInv, TypeOK
  <1>1. CASE Publish
    BY <1>1, OrderStands DEF Publish, hostVars, localVars, dbVars
  <1>2. CASE \E w \in Workers : Deliver(w)
    BY <1>2, DeliveryInOrder DEF Deliver
  <1>3. CASE \E w \in Workers : Crash(w)
    <2>1. PICK w \in Workers : Crash(w)
      BY <1>3
    <2>2. \A r \in held' : r \in held /\ local'[r] = local[r]
      BY <1>a, <2>1 DEF Crash, Requeue, HeldBy
    <2>3. \A r \in Runs : pc'[r] # "free" <=> pc[r] # "free"
      <3> SUFFICES ASSUME NEW r \in Runs, local[r].worker = w PROVE pc[r] # "free"
        BY <1>a, <2>1 DEF Crash
      <3>1. w # NoWorker
        BY PipelineAssumption
      <3> QED BY <3>1 DEF IInv, Stages, Blank, Leaving
    <2> QED BY <2>1, <2>2, <2>3, OrderStands DEF Crash, Requeue, dbVars
  <1>4. CASE \E w \in Workers : Restart(w)
    BY <1>4, OrderStands DEF Restart, brokerVars, localVars, dbVars
  <1>5. CASE \E w \in Workers : LoseConnection(w)
    <2>1. PICK w \in Workers : LoseConnection(w)
      BY <1>5
    <2>2. PICK cancelled \in SUBSET HeldBy(w) :
          /\ pc' = [r \in Runs |-> IF r \notin cancelled THEN pc[r]
                                   ELSE IF pc[r] \in InWorkspace THEN "cleanup" ELSE "ended"]
          /\ local' = [r \in Runs |-> IF r \notin cancelled THEN local[r]
                                      ELSE IF pc[r] \in InWorkspace
                                           THEN Leaving(w, "gone")
                                           ELSE Blank]
      BY <2>1 DEF LoseConnection
    <2>3. \A r \in held' : r \in held /\ local'[r] = local[r]
      BY <1>a, <2>1, <2>2 DEF LoseConnection, Requeue
    <2>4. \A r \in Runs : pc'[r] # "free" <=> pc[r] # "free"
      BY <2>2 DEF HeldBy, IInv, Custody, Active, InWorkspace
    <2> QED BY <2>1, <2>3, <2>4, OrderStands DEF LoseConnection, Requeue, dbVars
  <1>6. CASE \E r \in Runs : Step(r)
    BY <1>6, RunInOrder
  <1>7. CASE UNCHANGED vars
    BY <1>7, OrderStands DEF vars, brokerVars, localVars, dbVars
  <1>8. CASE \E r \in Runs, w \in Workers : ReadersEnd(r, w)
    BY <1>8, OrderStands DEF ReadersEnd, brokerVars, localVars, dbVars
  <1> QED BY <1>1, <1>2, <1>3, <1>4, <1>5, <1>6, <1>7, <1>8 DEF Next

\* With one worker that takes one message at a time, a run that still has its delivery
\* never puts an older push in front of a newer one, whatever crashes, connections lost
\* and handlers that have outlived theirs come between (get_latest_for_pull_request).
THEOREM LatestForward == OneAtATime /\ Spec => LatestMovesForward
  <1> DEFINE Forward == \A r \in held : latest # 0 /\ resultRow'[r] # resultRow[r]
                                         => msg[latest] <= msg[latest']
  <1> SUFFICES ASSUME OneAtATime PROVE Spec => LatestMovesForward
    OBVIOUS
  <1>1. Init => InOrder
    BY DEF Init, InOrder
  <1>2. IInv /\ InOrder /\ [Next]_vars => InOrder'
    BY NextInOrder
  <1>3. IInv /\ InOrder /\ [Next]_vars => [Forward]_vars
    <2> SUFFICES ASSUME IInv, InOrder, Next, NEW r \in held, latest # 0, resultRow'[r] # resultRow[r]
                 PROVE  msg[latest] <= msg[latest']
      OBVIOUS
    <2>1. latest' = r
      <3>1. PICK q \in Runs : InsertResult(q)
        BY DEF Next, Deliver, Publish, HandleMessage, Crash, Restart, LoseConnection, ReadersEnd, Step,
           Prepare, Analyze, OnResult, Announce, RunReview, OnReview, UpsertReview, CleanUp, Ack, Nack, dbVars
      <3> QED BY <3>1 DEF InsertResult, IInv, TypeOK
    <2>2. latest \in Runs /\ r \in Runs /\ pc[latest] # "free" /\ pc[r] # "free"
      BY DEF InOrder, IInv, TypeOK, Custody, Active, InWorkspace
    <2>3. /\ msg[latest] \in 1..published /\ msg[r] \in 1..published
          /\ published \in 0..NumMessages
      BY <2>2 DEF IInv, TypeOK, Custody
    <2>4. msg[r] \in Messages /\ msg[latest] \in Int /\ msg[r] \in Int
      BY <2>3, PipelineAssumption DEF Messages
    <2>5. settled[msg[r]] = "open"
      BY <2>4 DEF IInv, Custody, OneCustodian, Holders, TypeOK
    <2>6. ~(msg[r] < msg[latest])
      BY <2>2, <2>4, <2>5 DEF InOrder
    <2> QED BY <2>1, <2>4, <2>6
  <1> QED BY <1>1, <1>2, <1>3, PipelineInvariant, PTL DEF Spec, LatestMovesForward

-----------------------------------------------------------------------------
(* The pipeline implements its contract.                                   *)

\* A step that touches neither rows nor settlements is invisible from outside.
LEMMA Invisible ==
  ASSUME UNCHANGED <<published, settled, dbVars>>,
         \A q \in Runs : HasResult(q) => msg'[q] = msg[q]
  PROVE  UNCHANGED Contract!contractVars
  BY DEF dbVars, HasResult, StageOf, Contract!contractVars

\* Storing a result is the contract's Store.
LEMMA InsertIsStore ==
  ASSUME IInv, NEW r \in Runs, pc[r] = "on_result", InsertResult(r),
         UNCHANGED <<brokerVars, msg>>
  PROVE  Contract!Store(r)
  <1> USE DEF IInv, InsertResult
  <1>1. /\ resultRow[r] = "none" /\ reviewRow[r] = "none"
        /\ local[r].result \in {"failed", "completed"}
        /\ msg[r] \in 1..published
    BY DEF TypeOK, Memory, Stages, Custody
  <1>2. resultRow'[r] = local[r].result /\ \A q \in Runs \ {r} : resultRow'[q] = resultRow[q]
    BY DEF TypeOK
  <1>3. \A q \in Runs : StageOf(q)' = IF q = r THEN local[r].result ELSE StageOf(q)
    BY <1>1, <1>2 DEF StageOf
  <1>4. \A q \in Runs : (IF HasResult(q) THEN msg[q] ELSE 0)'
                          = IF q = r THEN msg[r] ELSE IF HasResult(q) THEN msg[q] ELSE 0
    BY <1>1, <1>2 DEF HasResult
  <1>5. StageOf(r) = "none"
    BY <1>1 DEF StageOf
  <1>6. [q \in Runs |-> StageOf(q)]' = [[q \in Runs |-> StageOf(q)] EXCEPT ![r] = local[r].result]
    BY <1>3
  <1>7. [q \in Runs |-> IF HasResult(q) THEN msg[q] ELSE 0]'
          = [[q \in Runs |-> IF HasResult(q) THEN msg[q] ELSE 0] EXCEPT ![r] = msg[r]]
    BY <1>4
  <1> QED BY <1>1, <1>5, <1>6, <1>7 DEF Contract!Store, brokerVars

\* Saving a review is a step of the report it belongs to, or no news.
LEMMA UpsertIsProgress ==
  ASSUME IInv, NEW r \in Runs, pc[r] \in {"announce", "on_review"}, UpsertReview(r),
         UNCHANGED <<brokerVars, msg>>
  PROVE  Contract!Announced(r) \/ Contract!Reviewed(r) \/ UNCHANGED Contract!contractVars
  <1> USE DEF IInv, UpsertReview
  <1>1. /\ resultRow[r] = "completed" /\ reviewRow[r] \in {"none", "running"}
        /\ local[r].review \in {"running"} \cup Terminal
        /\ pc[r] = "on_review" => local[r].review \in Terminal
    BY DEF TypeOK, Stages
  <1>2. reviewRow'[r] = local[r].review /\ \A q \in Runs \ {r} : reviewRow'[q] = reviewRow[q]
    BY DEF TypeOK
  <1>3. /\ \A q \in Runs \ {r} : StageOf(q)' = StageOf(q)
        /\ StageOf(r) = IF reviewRow[r] = "none" THEN "completed" ELSE "reviewing"
        /\ StageOf(r)' = IF local[r].review = "running" THEN "reviewing" ELSE "reviewed"
    BY <1>1, <1>2 DEF StageOf, Terminal
  <1>4. [q \in Runs |-> StageOf(q)]' = [[q \in Runs |-> StageOf(q)] EXCEPT ![r] = StageOf(r)']
    BY <1>3
  <1>5. /\ [q \in Runs |-> IF HasResult(q) THEN msg[q] ELSE 0]'
             = [q \in Runs |-> IF HasResult(q) THEN msg[q] ELSE 0]
        /\ UNCHANGED <<published, settled, latest>>
    BY DEF HasResult, brokerVars
  <1>6. CASE StageOf(r)' = "reviewed"
    BY <1>3, <1>4, <1>5, <1>6 DEF Contract!Reviewed
  <1>7. CASE StageOf(r)' = "reviewing" /\ StageOf(r) = "completed"
    BY <1>4, <1>5, <1>7 DEF Contract!Announced
  <1>8. CASE StageOf(r)' = "reviewing" /\ StageOf(r) = "reviewing"
    <2>1. [q \in Runs |-> StageOf(q)]' = [q \in Runs |-> StageOf(q)]
      BY <1>3, <1>8
    <2> QED BY <2>1, <1>5 DEF Contract!contractVars
  <1> QED BY <1>3, <1>6, <1>7, <1>8

\* Settling a message is settling the push, answered when it is acknowledged.
LEMMA SettleIsSettle ==
  ASSUME IInv, NEW r \in held, NEW how \in {"acked", "dropped"}, Settle(r, how),
         how = "acked" => pc[r] = "ack", UNCHANGED <<msg, dbVars>>
  PROVE  Contract!SettlePush(msg[r]) /\ msg[r] \in Contract!Pushes
  <1> USE DEF IInv, Settle
  <1>1. r \in Runs /\ msg[r] \in Messages /\ msg[r] <= published /\ settled[msg[r]] = "open"
    <2>1. r \in Runs /\ msg[r] \in 1..published /\ msg[r] # 0
      BY DEF TypeOK, Custody, Active, InWorkspace
    <2>2. msg[r] \in Messages
      BY <2>1 DEF TypeOK
    <2> QED BY <2>1, <2>2 DEF Custody, OneCustodian, Holders, TypeOK
  <1>2. how = "acked" => Contract!Answered(msg[r])
    <2>1. pc[r] = "ack" => Complete(r)
      BY <1>1 DEF Stages
    <2>2. pc[r] = "ack" => HasResult(r) /\ StageOf(r) \in {"failed", "reviewed"}
      BY <1>1, <2>1 DEF Complete, HasResult, StageOf, TypeOK, Terminal
    <2> QED BY <1>1, <2>2 DEF Contract!Answered, Contract!Final
  <1>3. /\ [q \in Runs |-> StageOf(q)]' = [q \in Runs |-> StageOf(q)]
        /\ [q \in Runs |-> IF HasResult(q) THEN msg[q] ELSE 0]'
             = [q \in Runs |-> IF HasResult(q) THEN msg[q] ELSE 0]
    BY DEF dbVars, StageOf, HasResult
  <1> QED BY <1>1, <1>2, <1>3 DEF Contract!SettlePush, Contract!Pushes, Messages, dbVars

LEMMA RunRefines ==
  ASSUME IInv, NEW r \in Runs, Step(r)
  PROVE  [Contract!Next]_(Contract!contractVars)
  <1>1. CASE Prepare(r) \/ Analyze(r) \/ RunReview(r) \/ CleanUp(r)
    BY <1>1, Invisible DEF Prepare, Analyze, RunReview, CleanUp, brokerVars
  <1>2. CASE OnResult(r)
    <2>1. CASE InsertResult(r)
      BY <1>2, <2>1, InsertIsStore DEF OnResult, Contract!Next
    <2>2. CASE UNCHANGED dbVars
      BY <1>2, <2>2, Invisible DEF OnResult, brokerVars
    <2> QED BY <1>2, <2>1, <2>2 DEF OnResult
  <1>3. CASE Announce(r) \/ OnReview(r)
    <2>1. CASE UpsertReview(r)
      BY <1>3, <2>1, UpsertIsProgress DEF Announce, OnReview, Contract!Next
    <2>2. CASE UNCHANGED dbVars
      BY <1>3, <2>2, Invisible DEF Announce, OnReview, brokerVars
    <2> QED BY <1>3, <2>1, <2>2 DEF Announce, OnReview
  <1>4. CASE Ack(r) \/ Nack(r)
    <2>1. CASE r \in held
      <3>1. PICK how \in {"acked", "dropped"} : Settle(r, how) /\ (how = "acked" => pc[r] = "ack")
        BY <1>4, <2>1 DEF Ack, Nack
      <3>2. UNCHANGED <<msg, dbVars>>
        BY <1>4 DEF Ack, Nack
      <3> QED BY <2>1, <3>1, <3>2, SettleIsSettle DEF Contract!Next
    <2>2. CASE r \notin held
      BY <1>4, <2>2, Invisible DEF Ack, Nack, brokerVars
    <2> QED BY <2>1, <2>2
  <1> QED BY <1>1, <1>2, <1>3, <1>4 DEF Step

LEMMA StepRefines == IInv /\ [Next]_vars => [Contract!Next]_(Contract!contractVars)
  <1> SUFFICES ASSUME IInv, [Next]_vars PROVE [Contract!Next]_(Contract!contractVars)
    OBVIOUS
  <1>1. CASE Publish
    <2>1. /\ [q \in Runs |-> StageOf(q)]' = [q \in Runs |-> StageOf(q)]
          /\ [q \in Runs |-> IF HasResult(q) THEN msg[q] ELSE 0]'
               = [q \in Runs |-> IF HasResult(q) THEN msg[q] ELSE 0]
      BY <1>1 DEF Publish, dbVars, localVars, StageOf, HasResult
    <2>2. Contract!Offer
      BY <1>1, <2>1 DEF Publish, dbVars, Contract!Offer
    <2> QED BY <2>2 DEF Contract!Next
  <1>2. CASE \E w \in Workers : Deliver(w)
    <2>1. PICK w \in Workers, m \in Messages, r \in Runs : HandleMessage(w, m, r)
      BY <1>2 DEF Deliver
    <2>2. \A q \in Runs : HasResult(q) => msg'[q] = msg[q]
      BY <2>1 DEF HandleMessage, NextRun, IInv, TypeOK, Stages, HasResult
    <2> QED BY <2>1, <2>2, Invisible DEF HandleMessage
  <1>3. CASE \E w \in Workers : Crash(w) \/ Restart(w) \/ LoseConnection(w)
    BY <1>3, Invisible DEF Crash, Restart, LoseConnection, Requeue, brokerVars, localVars
  <1>4. CASE \E r \in Runs : Step(r)
    BY <1>4, RunRefines
  <1>5. CASE UNCHANGED vars
    BY <1>5, Invisible DEF vars, brokerVars, localVars
  <1>6. CASE \E r \in Runs, w \in Workers : ReadersEnd(r, w)
    BY <1>6, Invisible DEF ReadersEnd, brokerVars, localVars
  <1> QED BY <1>1, <1>2, <1>3, <1>4, <1>5, <1>6 DEF Next

\* The pipeline implements JobContract for any number of workers, pushes and faults:
\* pushes are settled once and acknowledged only when answered in full, reports only
\* move forward, and nothing a worker or a channel does shows in between.
THEOREM PipelineImplementsContract == Spec => ImplementsContract
  <1>1. Init => Contract!Init
    BY DEF Init, Contract!Init, Contract!Pushes, Messages, StageOf, HasResult
  <1>2. IInv /\ [Next]_vars => [Contract!Next]_(Contract!contractVars)
    BY StepRefines
  <1> QED BY <1>1, <1>2, PipelineInvariant, PTL DEF Spec, ImplementsContract, Contract!Spec

=============================================================================
