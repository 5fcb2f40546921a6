------------------------------ MODULE WorkUnit ------------------------------
(***************************************************************************)
(* What GenWrapper promises about one work unit (doc/manual.tex, Flow):    *)
(* "When the script finishes the exit status of the work unit supplied     *)
(* script is set as the exit status of the work unit."  A run that the     *)
(* client withdraws has no verdict and may be started again.               *)
(***************************************************************************)
EXTENDS Integers

CONSTANTS
    Outcomes,       \* ways the script may end
    ResultOf,       \* function: the work unit's status for each outcome
    CannotStart,    \* the verdict when no script could be started
    Nothing         \* neither outcome nor verdict yet

VARIABLES
    phase,          \* "waiting", "running", "withdrawn" or "done"
    outcome,        \* how the script of the current run ended
    verdict         \* the status the work unit was finished with

vars == <<phase, outcome, verdict>>

Init ==
    /\ phase = "waiting"
    /\ outcome = Nothing
    /\ verdict = Nothing

Start ==
    /\ phase = "waiting"
    /\ phase' = "running"
    /\ UNCHANGED <<outcome, verdict>>

ScriptEnds(o) ==
    /\ phase = "running"
    /\ outcome = Nothing
    /\ outcome' = o
    /\ UNCHANGED <<phase, verdict>>

\* A work unit is finished once, after its script, with the script's result.
Finish ==
    /\ phase = "running"
    /\ outcome # Nothing
    /\ phase' = "done"
    /\ verdict' = ResultOf[outcome]
    /\ UNCHANGED outcome

GiveUp ==
    /\ phase = "waiting"
    /\ phase' = "done"
    /\ verdict' = CannotStart
    /\ UNCHANGED outcome

Withdraw ==
    /\ phase \in {"waiting", "running"}
    /\ phase' = "withdrawn"
    /\ outcome' = Nothing
    /\ UNCHANGED verdict

Retry ==
    /\ phase = "withdrawn"
    /\ phase' = "waiting"
    /\ UNCHANGED <<outcome, verdict>>

Next ==
    \/ Start \/ Finish \/ GiveUp \/ Withdraw \/ Retry
    \/ \E o \in Outcomes : ScriptEnds(o)

Spec == Init /\ [][Next]_vars
=============================================================================
