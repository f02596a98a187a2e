------------------------- MODULE SubmissionContract -------------------------
(***************************************************************************)
(* What an outbound dispatcher promises for each of its targets, with no   *)
(* word of how: a submission is preceded by a durable intent, happens at   *)
(* most once, and never after the batch was canceled.  CampaignDispatch    *)
(* implements it for the recipients of a campaign run.                     *)
(***************************************************************************)
CONSTANT Targets

VARIABLES
    stage,    \* [Targets -> Stages]
    canceled  \* the batch was canceled

Stages == {"idle", "intended", "submitted"}

\* Rows of earlier releases may have been submitted before the system starts.
Init ==
    /\ stage \in [Targets -> {"idle", "submitted"}]
    /\ canceled = FALSE

Intend(t) ==
    /\ stage[t] = "idle"
    /\ stage' = [stage EXCEPT ![t] = "intended"]
    /\ UNCHANGED canceled

Submit(t) ==
    /\ stage[t] = "intended"
    /\ ~canceled
    /\ stage' = [stage EXCEPT ![t] = "submitted"]
    /\ UNCHANGED canceled

\* Intents are given up: refused, postponed, or of an unknown fate.
Withdraw(T) ==
    /\ \A t \in T : stage[t] = "intended"
    /\ stage' = [t \in Targets |-> IF t \in T THEN "idle" ELSE stage[t]]

Cancel(T) == Withdraw(T) /\ canceled' = TRUE

Next ==
    \/ \E t \in Targets : Intend(t) \/ Submit(t)
    \/ \E T \in SUBSET Targets : Cancel(T)
    \/ \E T \in SUBSET Targets : Withdraw(T) /\ UNCHANGED canceled

Spec == Init /\ [][Next]_<<stage, canceled>>
=============================================================================
