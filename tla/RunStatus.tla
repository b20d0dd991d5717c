------------------------------ MODULE RunStatus ------------------------------
(***************************************************************************)
(* What a task store promises its readers about a run: it appears as       *)
(* running, may be declared stale when nobody is seen working on it, ends  *)
(* once with an outcome, and is forgotten when its record expires or the   *)
(* process that kept it is gone.  An outcome is never replaced.            *)
(***************************************************************************)
CONSTANT Runs
VARIABLE status

Init == status = [r \in Runs |-> "none"]

Create(r) == status[r] = "none" /\ status' = [status EXCEPT ![r] = "running"]
MarkStale(r) == status[r] = "running" /\ status' = [status EXCEPT ![r] = "stale"]
Conclude(r, outcome) ==
  status[r] \in {"running", "stale"} /\ status' = [status EXCEPT ![r] = outcome]
Forget(R) == status' = [r \in Runs |-> IF r \in R THEN "none" ELSE status[r]]

Next ==
  \/ \E r \in Runs :
       \/ Create(r) \/ MarkStale(r)
       \/ \E outcome \in {"completed", "failed"} : Conclude(r, outcome)
  \/ \E R \in SUBSET Runs : Forget(R)

Spec == Init /\ [][Next]_status
=============================================================================
