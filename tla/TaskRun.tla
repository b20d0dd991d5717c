------------------------------ MODULE TaskRun -------------------------------
(***************************************************************************)
(* What engine.ts promises of one run, whatever happens inside the loop:   *)
(* evidence is only gained, a verified submission stays verified, every    *)
(* counted action is one of at most MaxActions, one last action may only   *)
(* end the run, and the outcome is given once, as a success only with the  *)
(* evidence complete.                                                      *)
(***************************************************************************)
EXTENDS Naturals

CONSTANTS
  Required,     \* the required success criteria
  MaxActions    \* a natural number: task.limits.maxSteps

VARIABLES status, met, submitted, used
taskVars == <<status, met, submitted, used>>

Outcomes == {"success", "failure", "blocked", "limit"}

TaskInit == status = "none" /\ met = {} /\ submitted = FALSE /\ used = 0

Gain ==
  /\ status = "none" /\ met \subseteq met' /\ met' \subseteq Required
  /\ UNCHANGED <<status, submitted, used>>
Act ==
  /\ status = "none" /\ used < MaxActions /\ used' = used + 1
  /\ submitted' \in {submitted, TRUE}
  /\ UNCHANGED <<status, met>>
End ==
  /\ status = "none" /\ status' \in Outcomes
  /\ status' = "success" => met = Required
  /\ used' \in {used, used + 1}
  /\ UNCHANGED <<met, submitted>>

TaskSpec == TaskInit /\ [][Gain \/ Act \/ End]_taskVars
=============================================================================
