---------------------------- MODULE JobContract ----------------------------
(***************************************************************************)
(* What the service promises the two sides it stands between, with its     *)
(* workers, channels, checkouts and faults hidden.  To webhook-listener:   *)
(* every push handed over is settled once, and acknowledged only when it   *)
(* has been answered in full.  To the reader of the API: a report appears  *)
(* once, moves through its stages in one direction, never belongs to a     *)
(* push that was not handed over, and the newest one stored is shown.      *)
(***************************************************************************)
EXTENDS Naturals

CONSTANTS
    NumPushes,
    Reports         \* result_ids

Pushes == 1..NumPushes

VARIABLES
    offered,        \* how many pushes have been handed over
    fate,           \* how each of them was settled
    stage,          \* how far each report has come
    answers,        \* the push each report answers, 0 before it is stored
    shown           \* the report the API shows, 0 if none

contractVars == <<offered, fate, stage, answers, shown>>

\* A failed analysis has no review; any other report waits for the review's outcome.
Final == {"failed", "reviewed"}

Init ==
    /\ offered = 0
    /\ fate = [p \in Pushes |-> "open"]
    /\ stage = [r \in Reports |-> "none"]
    /\ answers = [r \in Reports |-> 0]
    /\ shown = 0

Offer ==
    /\ offered < NumPushes
    /\ offered' = offered + 1
    /\ UNCHANGED <<fate, stage, answers, shown>>

\* A report is stored, for a push that was handed over; a push may have several, when
\* it is delivered again.
Store(r) ==
    /\ stage[r] = "none"
    /\ \E s \in {"failed", "completed"} : stage' = [stage EXCEPT ![r] = s]
    /\ \E p \in 1..offered : answers' = [answers EXCEPT ![r] = p]
    /\ shown' = r
    /\ UNCHANGED <<offered, fate>>

\* The review of a completed analysis is announced, and ends; only then is it final.
Announced(r) ==
    /\ stage[r] = "completed"
    /\ stage' = [stage EXCEPT ![r] = "reviewing"]
    /\ UNCHANGED <<offered, fate, answers, shown>>

Reviewed(r) ==
    /\ stage[r] \in {"completed", "reviewing"}
    /\ stage' = [stage EXCEPT ![r] = "reviewed"]
    /\ UNCHANGED <<offered, fate, answers, shown>>

Answered(p) == \E r \in Reports : answers[r] = p /\ stage[r] \in Final

\* Settled once, and acknowledged only when answered.
SettlePush(p) ==
    /\ p <= offered
    /\ fate[p] = "open"
    /\ \E how \in {"acked", "dropped"} :
          /\ how = "acked" => Answered(p)
          /\ fate' = [fate EXCEPT ![p] = how]
    /\ UNCHANGED <<offered, stage, answers, shown>>

Next ==
    \/ Offer
    \/ \E r \in Reports : Store(r) \/ Announced(r) \/ Reviewed(r)
    \/ \E p \in Pushes : SettlePush(p)

Spec == Init /\ [][Next]_contractVars
=============================================================================
