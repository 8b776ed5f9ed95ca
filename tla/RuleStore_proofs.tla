--------------------------- MODULE RuleStore_proofs ---------------------------
(***************************************************************************)
(* The theorems about RuleStore, for any ids and any number of requests    *)
(* under way at one time.                                                  *)
(***************************************************************************)
EXTENDS RuleStore, TLAPS

LEMMA InitIInv == Init => IInv
  BY DEF Init, IInv, TypeOK, Requests, ActiveIsAccepted, MiningIsExact, Stored

-----------------------------------------------------------------------------
(* The dashboard's requests.                                               *)

LEMMA AddGetStep == ASSUME IInv, NEW h \in Handlers, NEW id \in RuleIds, AddGet(h, id) PROVE IInv'
  <1> DEFINE asked == [op |-> "add", id |-> id, wants |-> "active",
                       rule |-> [status |-> "active", source |-> "dashboard"]]
  <1> USE DEF IInv, AddGet, minerVars
  <1>1. asked \in Pending
    BY DEF Pending, Rule, Statuses
  <1>2. TypeOK'
    BY <1>1 DEF TypeOK
  <1>3. Requests'
    BY DEF Requests, TypeOK
  <1> QED BY <1>2, <1>3 DEF ActiveIsAccepted, MiningIsExact, Stored

LEMMA ChangeGetStep ==
    ASSUME IInv, NEW h \in Handlers, NEW id \in RuleIds, NEW wants \in Statuses \cup {"none"},
           ChangeGet(h, id, wants)
    PROVE  IInv'
  <1> DEFINE rule == [row[id] EXCEPT !.status = IF wants = "none" THEN @ ELSE wants]
             asked == [op |-> "change", id |-> id, wants |-> wants, rule |-> rule]
  <1> USE DEF IInv, ChangeGet, minerVars
  <1>1. row[id] \in Rule
    BY DEF TypeOK, Stored
  <1>2. rule \in Rule /\ rule.status = IF wants = "none" THEN row[id].status ELSE wants
    BY <1>1 DEF Rule
  <1>3. asked \in Pending
    BY <1>2 DEF Pending
  <1>4. handler' = [handler EXCEPT ![h] = asked]
    OBVIOUS
  <1>5. TypeOK'
    BY <1>3, <1>4 DEF TypeOK
  <1>6. rule.status = "active" => id \in accepted \/ wants = "active"
    BY <1>2 DEF ActiveIsAccepted, Stored
  <1>7. Requests'
    <2> SUFFICES ASSUME NEW g \in Handlers, handler'[g] # Idle, handler'[g].rule.status = "active"
                 PROVE  handler'[g].id \in accepted \/ handler'[g].wants = "active"
      BY DEF Requests
    <2>1. CASE g = h
      BY <2>1, <1>4, <1>6 DEF TypeOK
    <2>2. CASE g # h
      BY <2>2, <1>4 DEF TypeOK, Requests
    <2> QED BY <2>1, <2>2
  <1> QED BY <1>5, <1>7 DEF ActiveIsAccepted, MiningIsExact, Stored

LEMMA SaveStep == ASSUME IInv, NEW h \in Handlers, Save(h) PROVE IInv'
  <1> USE DEF IInv, Save, minerVars
  <1>1. handler[h] \in Pending
    BY DEF TypeOK
  <1>2. handler[h].id \in RuleIds /\ handler[h].rule \in Rule
    BY <1>1 DEF Pending
  <1>3. TypeOK'
    BY <1>2 DEF TypeOK
  <1>4. accepted \subseteq accepted'
    OBVIOUS
  <1>5. Requests'
    BY <1>4 DEF Requests, TypeOK
  <1>6. ActiveIsAccepted'
    <2> SUFFICES ASSUME NEW id \in RuleIds, row'[id] # NoRule, row'[id].status = "active"
                 PROVE  id \in accepted'
      BY DEF ActiveIsAccepted, Stored
    <2>1. CASE row'[id] = row[id]
      BY <2>1, <1>4 DEF ActiveIsAccepted, Stored
    <2>2. CASE row'[id] # row[id]
      <3>1. id = handler[h].id /\ row'[id] = handler[h].rule
        BY <2>2, <1>2 DEF TypeOK
      <3>2. accepted' = IF handler[h].wants = "active" THEN accepted \cup {handler[h].id} ELSE accepted
        BY <2>2
      <3> QED BY <3>1, <3>2 DEF Requests
    <2> QED BY <2>1, <2>2
  <1> QED BY <1>3, <1>5, <1>6 DEF MiningIsExact

LEMMA DeleteStep == ASSUME IInv, NEW id \in RuleIds, Delete(id) PROVE IInv'
  <1> USE DEF IInv, Delete, minerVars
  <1>1. TypeOK'
    BY DEF TypeOK
  <1>2. ActiveIsAccepted'
    BY DEF TypeOK, ActiveIsAccepted, Stored
  <1> QED BY <1>1, <1>2 DEF Requests, MiningIsExact

-----------------------------------------------------------------------------
(* The miner.                                                              *)

\* Every step of the miner other than an insert leaves the rows alone.
LEMMA MinerFrame ==
    ASSUME List \/ Mine \/ TaskDone \/ TaskFails \/ Suggest
    PROVE  UNCHANGED <<row, handler, accepted>>
  BY DEF List, Mine, TaskDone, TaskFails, Suggest

\* An insert fills a gap with a suggestion, or changes nothing.
LEMMA InsertFrame ==
    ASSUME TypeOK, NEW id \in RuleIds, Insert(id)
    PROVE  /\ UNCHANGED <<handler, accepted, mining, task, existing>>
           /\ row' \in [RuleIds -> Rule \cup {NoRule}]
           /\ \A other \in RuleIds :
                 row'[other] = row[other] \/ (row[other] = NoRule /\ row'[other] = NewSuggestion)
  <1>1. NewSuggestion \in Rule
    BY DEF NewSuggestion, Rule, Statuses
  <1> QED BY <1>1 DEF Insert, TypeOK, Stored

LEMMA MinerSteps == ASSUME IInv, MinerStep \/ Suggest PROVE IInv'
  <1> USE DEF IInv
  <1>1. CASE List \/ Mine \/ TaskDone \/ TaskFails \/ Suggest
    <2>1. UNCHANGED <<row, handler, accepted>>
      BY <1>1, MinerFrame
    <2>2. TypeOK' /\ MiningIsExact'
      BY <1>1, <2>1 DEF TypeOK, MiningIsExact, List, Mine, TaskDone, TaskFails, Suggest, EndTask, Stored
    <2> QED BY <2>1, <2>2 DEF Requests, ActiveIsAccepted, Stored
  <1>2. ASSUME NEW id \in RuleIds, Insert(id) PROVE IInv'
    <2>1. TypeOK'
      BY <1>2, InsertFrame DEF TypeOK, Insert
    <2>2. NewSuggestion.status # "active"
      BY DEF NewSuggestion
    <2>3. ActiveIsAccepted'
      BY <1>2, <2>2, InsertFrame DEF ActiveIsAccepted, Stored
    <2> QED BY <1>2, <2>1, <2>3, InsertFrame DEF Requests, MiningIsExact
  <1> QED BY <1>1, <1>2 DEF MinerStep

LEMMA RestartStep == ASSUME IInv, Restart PROVE IInv'
  <1> USE DEF IInv, Restart, EndTask
  <1>1. TypeOK'
    BY DEF TypeOK
  <1> QED BY <1>1 DEF Requests, ActiveIsAccepted, MiningIsExact, Stored

LEMMA NextIInv == IInv /\ [Next]_vars => IInv'
  <1> SUFFICES ASSUME IInv, [Next]_vars PROVE IInv'
    OBVIOUS
  <1>1. CASE UNCHANGED vars
    BY <1>1 DEF vars, minerVars, IInv, TypeOK, Requests, ActiveIsAccepted, MiningIsExact, Stored
  <1> QED BY <1>1, AddGetStep, ChangeGetStep, SaveStep, DeleteStep, MinerSteps, RestartStep DEF Next

-----------------------------------------------------------------------------
\* Rows and requests under way agree on what was accepted, in every behaviour.
THEOREM RuleInvariant == Spec => []IInv
  BY InitIInv, NextIInv, PTL DEF Spec

\* The state stays within its types (TypeOK).
THEOREM TypeCorrect == Spec => []TypeOK
  <1>1. IInv => TypeOK
    BY DEF IInv
  <1> QED BY <1>1, RuleInvariant, PTL

\* No interleaving of edits, deletions, restarts and the miner activates a rule that
\* nobody accepted, although a PATCH writes back a row it read before.
THEOREM OnlyAcceptedRulesApply == Spec => []ActiveIsAccepted
  <1>1. IInv => ActiveIsAccepted
    BY DEF IInv
  <1> QED BY <1>1, RuleInvariant, PTL

\* _MINING and the task agree, so a failed run never blocks the next one.
THEOREM MiningFlagIsExact == Spec => []MiningIsExact
  <1>1. IInv => MiningIsExact
    BY DEF IInv
  <1> QED BY <1>1, RuleInvariant, PTL

\* The miner never changes a rule that exists (insert_suggestions, ON CONFLICT DO
\* NOTHING), however old the list it works from is.
THEOREM MinerOnlyAdds == Spec => MinerFillsGaps
  <1> DEFINE Fills == MinerStep => \A id \in Stored : row'[id] = row[id]
  <1>1. TypeOK /\ [Next]_vars => [Fills]_vars
    <2> SUFFICES ASSUME TypeOK, MinerStep, NEW id \in RuleIds, row[id] # NoRule
                 PROVE  row'[id] = row[id]
      BY DEF Stored
    <2> QED BY MinerFrame, InsertFrame DEF MinerStep
  <1> QED BY <1>1, TypeCorrect, PTL DEF Spec, MinerFillsGaps

=============================================================================
