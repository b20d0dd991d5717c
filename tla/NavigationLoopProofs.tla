------------------------ MODULE NavigationLoopProofs ------------------------
(***************************************************************************)
(* What NavigationLoop guarantees for every site, provider and choice of   *)
(* limits: evidence, submission and outcome (an implementation of          *)
(* TaskRun), the verified position, the submission guard, the budgets and  *)
(* the nesting of surfaces.                                                *)
(***************************************************************************)
EXTENDS NavigationLoop, SequenceTheorems, WellFoundedInduction, TLAPS

\* What the assumptions on the limits say, in the form the proofs use.
LEMMA LimitsAreNaturals ==
  /\ MaxSteps \in Nat /\ MaxBacktracks \in Nat /\ AlternativeBudget \in Nat /\ MaxReplans \in Nat
  /\ MaxRestoreHops \in Nat /\ PerAnchorHops \in Nat /\ CandidateBudget \in Nat /\ MaxSurfaces \in Nat
  /\ MaxBranchDepth \in Nat /\ NumCriteria \in Nat /\ Ambiguous \subseteq Pages
  BY ParametersAreNaturals

USE LimitsAreNaturals, NobodyIsNoValue

-----------------------------------------------------------------------------
(* The outcome, the evidence and the two run limits.                       *)

\* Where the loop is past the check of the limits and has not yet counted its action.
Acting == {"return", "blocker", "ask", "weigh", "guard", "barred", "close", "dispatch"}
Running == Acting \cup {"observe", "limits", "evaluate", "conclude"}

\* A run that ended in success has its evidence.
SuccessComplete == outcome = "success" => Missing = {}
\* The run has an outcome exactly when it has ended; a success has its evidence; an action is only
\* dispatched below both limits.
Accounted ==
  /\ pc \in Running \cup {"ended"} /\ steps \in Nat /\ backtracks \in Nat
  /\ satisfied \subseteq Criteria /\ submission \in BOOLEAN
  /\ outcome \in {"none", "success", "failure", "blocked", "limit"}
  /\ outcome = "none" <=> pc # "ended"
  /\ SuccessComplete
  /\ pc \in Acting => steps < MaxSteps /\ backtracks <= MaxBacktracks
  /\ pc # "ended" => steps <= MaxSteps
  /\ steps <= MaxSteps + 1 /\ backtracks <= MaxBacktracks + 1

\* A run that proceeds is at a place on the way to an action.
LEMMA ProceedActs == Proceed \in Acting
  BY DEF Proceed, Acting

\* One action of the loop, seen from outside.
Quiet == UNCHANGED <<outcome, satisfied, submission, steps>>
Gains == outcome = "none" /\ satisfied \subseteq satisfied' /\ satisfied' \subseteq Criteria /\ UNCHANGED <<outcome, submission, steps>>
Acts == outcome = "none" /\ steps < MaxSteps /\ steps' = steps + 1 /\ submission' \in {submission, TRUE} /\ UNCHANGED <<outcome, satisfied>>
Ends ==
  /\ outcome = "none" /\ outcome' \in {"success", "failure", "blocked", "limit"}
  /\ outcome' = "success" => Missing = {}
  /\ steps' \in {steps, steps + 1}
  /\ UNCHANGED <<satisfied, submission>>

\* Every step keeps outcomes and limits accounted for, and is of one of the four kinds.
LEMMA AccountedInductive ==
  ASSUME Accounted, [Next]_vars
  PROVE  Accounted' /\ (Quiet \/ Gains \/ Acts \/ Ends)
<1> USE DEF Accounted, SuccessComplete, Missing, Running, Acting, Quiet, Gains, Acts, Ends, Goto, Finish, NextStep, recordAction
<1>1. CASE Observe
  BY <1>1 DEF Observe
<1>2. CASE StopAtLimit
  BY <1>2 DEF StopAtLimit, goalVars, checkLimits
<1>3. CASE AcceptConsent
  BY <1>3 DEF AcceptConsent, goalVars, checkLimits
<1>4. CASE PassLimits \/ BranchSucceeds \/ AssessBranch
  <2>1. pc' \in {"return", "blocker", "ask"} /\ UNCHANGED <<outcome, satisfied, submission, steps, backtracks>>
    BY <1>4 DEF PassLimits, BranchSucceeds, AssessBranch, Proceed, goalVars, limitVars
  <2> QED
    BY <1>4, <2>1 DEF PassLimits, BranchSucceeds, AssessBranch, checkLimits
<1>5. CASE BackAtDecisionPoint \/ RestoreLate
  BY <1>5, ProceedActs DEF BackAtDecisionPoint, RestoreLate, NotBack, goalVars, limitVars
<1>6. CASE RestoreFails
  BY <1>6 DEF RestoreFails, NotBack, goalVars
<1>16. CASE ReturnHop
  <2>1. pc = "return" /\ UNCHANGED <<satisfied, submission>> /\ backtracks < MaxBacktracks
    BY <1>16 DEF ReturnHop, NotBack, CannotHop, goalVars
  <2>2. steps' = steps + 1 /\ backtracks' = backtracks + 1
    BY <1>16 DEF ReturnHop
  <2>3. (pc' = "observe" /\ outcome' = outcome) \/ (pc' = "ended" /\ outcome' = "blocked")
    BY <1>16, Zenon DEF ReturnHop
  <2> QED
    BY <2>1, <2>2, <2>3
<1>7. CASE ReactToBlocker \/ SkipBlocked
  <2>1. /\ pc = "blocker" /\ UNCHANGED <<satisfied, submission>>
        /\ \/ pc' = "ask" /\ UNCHANGED <<outcome, steps, backtracks>>
           \/ /\ steps' = steps + 1 /\ backtracks' = backtracks + 0
              /\ (pc' = "observe" /\ outcome' = outcome) \/ (pc' = "ended" /\ outcome' = "failure")
    BY <1>7 DEF ReactToBlocker, SkipBlocked, goalVars, limitVars
  <2> QED
    BY <2>1
<1>8. CASE Ask \/ RetryLowConfidence \/ RedirectDismiss \/ Weigh \/ Retarget
  BY <1>8 DEF Ask, RetryLowConfidence, RedirectDismiss, Weigh, Retarget, goalVars, limitVars
<1>9. CASE CloseBranch \/ CarryOn \/ RecoverAtAnchor \/ AnchorHop \/ PlainReplan
  BY <1>9 DEF CloseBranch, CarryOn, RecoverAtAnchor, AnchorHop, PlainReplan, goalVars, limitVars
<1>10. CASE DispatchClick \/ DispatchForm \/ DispatchBack \/ DispatchOther
  <2>1. pc = "dispatch" /\ AfterDispatch
    BY <1>10 DEF DispatchClick, DispatchForm, DispatchBack, DispatchOther
  <2>2. /\ pc' = "evaluate" /\ steps' = steps + 1 /\ UNCHANGED <<outcome, satisfied>>
        /\ backtracks' = backtracks + (IF act = "go_back" THEN 1 ELSE 0)
    BY <2>1 DEF AfterDispatch
  <2>3. submission' \in {submission, TRUE}
    <3>1. submission' = submission \/ submission' = (submission \/ result' = "ok")
      BY <1>10, Zenon DEF DispatchClick, DispatchForm, DispatchBack, DispatchOther
    <3> QED
      BY <3>1
  <2>4. submission' \in BOOLEAN
    BY <2>3
  <2>5. steps < MaxSteps /\ outcome = "none" /\ backtracks <= MaxBacktracks
    BY <2>1
  <2>6. Acts
    BY <2>2, <2>3, <2>5
  <2>7. backtracks' \in Nat /\ backtracks' <= MaxBacktracks + 1
    BY <2>2, <2>5
  <2> QED
    <3>1. pc' = "evaluate" /\ outcome' = "none" /\ satisfied' \subseteq Criteria
      BY <2>2, <2>5
    <3>2. SuccessComplete'
      BY <3>1
    <3>3. steps' \in Nat /\ steps' <= MaxSteps
      BY <2>2, <2>5
    <3>4. /\ pc' \in Running \cup {"ended"} /\ pc' \notin Acting /\ pc' # "ended"
          /\ outcome' \in {"none", "success", "failure", "blocked", "limit"}
      BY <3>1
    <3>5. Accounted'
      BY <2>4, <2>7, <3>1, <3>2, <3>3, <3>4
    <3> QED
      BY <2>6, <3>5
<1>11. CASE Evaluate
  BY <1>11 DEF Evaluate, limitVars
<1>12. CASE ContinueAtAnchor \/ EndAfterFailedRetreat \/ EndAfterSubmission \/ StopSuccess \/ RejectStopSuccess
  BY <1>12 DEF ContinueAtAnchor, EndAfterFailedRetreat, EndAfterSubmission, Completed, StopSuccess, RejectStopSuccess,
               goalVars, limitVars
<1>13. CASE StopUnsuccessfully \/ Continue \/ ActionFailed
  BY <1>13 DEF StopUnsuccessfully, Continue, ActionFailed, goalVars, limitVars
<1>14. CASE Ended \/ UNCHANGED vars
  BY <1>14 DEF Ended, vars, goalVars, limitVars
<1> QED
  BY <1>1, <1>2, <1>3, <1>4, <1>5, <1>6, <1>16, <1>7, <1>8, <1>9, <1>10, <1>11, <1>12, <1>13, <1>14 DEF Next

\* A run that begins is accounted for.
LEMMA InitAccounted == Init => Accounted
<1>1. Init => /\ pc = "observe" /\ outcome = "none" /\ steps = 0 /\ backtracks = 0
              /\ satisfied = {} /\ submission = FALSE
  BY DEF Init
<1>2. Init => /\ pc \in Acting => steps < MaxSteps /\ backtracks <= MaxBacktracks
              /\ pc # "ended" => steps <= MaxSteps
  BY <1>1 DEF Acting
<1>3. Init => steps \in Nat /\ backtracks \in Nat /\ steps <= MaxSteps + 1 /\ backtracks <= MaxBacktracks + 1
  BY <1>1
<1>4. Init => satisfied \subseteq Criteria /\ submission \in BOOLEAN
  BY <1>1
<1>5. Init => /\ outcome \in {"none", "success", "failure", "blocked", "limit"}
              /\ outcome = "none" <=> pc # "ended"
              /\ pc \in Running \cup {"ended"} /\ SuccessComplete
  BY <1>1 DEF Running, SuccessComplete
<1> QED
  BY <1>2, <1>3, <1>4, <1>5 DEF Accounted

\* Outcomes and limits are accounted for in every reachable state.
THEOREM RunAccounted == Spec => []Accounted
<1>1. Accounted /\ [Next]_vars => Accounted'
  BY AccountedInductive
<1> QED
  BY <1>1, InitAccounted, PTL DEF Spec

\* The loop implements the abstract run: nothing gained is lost, at most MaxSteps actions and one that ends
\* the run are counted, the outcome is given once and a success has its evidence.
THEOREM LoopImplementsTaskRun == Spec => ImplementsTaskRun
<1>1. Init => Promise!TaskInit
  BY DEF Init, Promise!TaskInit
<1>2. Accounted /\ [Next]_vars => [Promise!Gain \/ Promise!Act \/ Promise!End]_Promise!taskVars
  <2> SUFFICES ASSUME Accounted, [Next]_vars
               PROVE  Promise!Gain \/ Promise!Act \/ Promise!End \/ UNCHANGED Promise!taskVars
    OBVIOUS
  <2>1. CASE Quiet
    BY <2>1 DEF Quiet, Promise!taskVars
  <2>2. CASE Gains
    BY <2>2 DEF Gains, Promise!Gain
  <2>3. CASE Acts
    BY <2>3 DEF Acts, Promise!Act
  <2>4. CASE Ends
    BY <2>4 DEF Ends, Promise!End, Promise!Outcomes, Accounted, Missing
  <2> QED
    BY AccountedInductive, <2>1, <2>2, <2>3, <2>4
<1> QED
  BY <1>1, <1>2, RunAccounted, PTL DEF Spec, ImplementsTaskRun, Promise!TaskSpec

-----------------------------------------------------------------------------
(* The verified position.                                                  *)

\* Where there is no branch, its result says so.
LEMMA NoBranchIsAbsent == NoBranch.result = "absent"
  BY DEF NoBranch

\* Every step keeps the position a verified one.
LEMMA VerifiedPositionInductive ==
  ASSUME OnlyVerifiedPosition, [Next]_vars
  PROVE  OnlyVerifiedPosition'
<1> USE DEF OnlyVerifiedPosition, Goto, Finish, NextStep, branchVars
<1>1. CASE Observe \/ StopAtLimit \/ AcceptConsent
  BY <1>1 DEF Observe, StopAtLimit, AcceptConsent
<1>2. CASE PassLimits
  BY <1>2 DEF PassLimits, Proceed
<1>3. CASE BranchSucceeds \/ BackAtDecisionPoint \/ RestoreLate
  BY <1>3, NoBranchIsAbsent DEF BranchSucceeds, BackAtDecisionPoint, RestoreLate, Restored
<1>4. CASE AssessBranch
  BY <1>4 DEF AssessBranch, Proceed
<1>5. CASE RestoreFails \/ ReturnHop \/ SkipBlocked
  BY <1>5 DEF RestoreFails, ReturnHop, SkipBlocked
<1>6. CASE ReactToBlocker \/ Ask \/ RetryLowConfidence \/ RedirectDismiss \/ Weigh \/ Retarget
  BY <1>6 DEF ReactToBlocker, Ask, RetryLowConfidence, RedirectDismiss, Weigh, Retarget
<1>7. CASE CloseBranch \/ CarryOn \/ RecoverAtAnchor \/ AnchorHop \/ PlainReplan
  BY <1>7 DEF CloseBranch, CarryOn, RecoverAtAnchor, AnchorHop, PlainReplan
<1>8. CASE DispatchClick \/ DispatchForm \/ DispatchBack \/ DispatchOther
  BY <1>8 DEF DispatchClick, DispatchForm, DispatchBack, DispatchOther, AfterDispatch
<1>9. CASE Evaluate \/ ContinueAtAnchor \/ EndAfterFailedRetreat \/ EndAfterSubmission \/ StopSuccess
  BY <1>9 DEF Evaluate, ContinueAtAnchor, EndAfterFailedRetreat, EndAfterSubmission, StopSuccess
<1>10. CASE RejectStopSuccess \/ StopUnsuccessfully \/ Continue \/ ActionFailed
  BY <1>10 DEF RejectStopSuccess, StopUnsuccessfully, Continue, ActionFailed
<1>11. CASE Ended \/ UNCHANGED vars
  BY <1>11 DEF Ended, vars
<1> QED
  BY <1>1, <1>2, <1>3, <1>4, <1>5, <1>6, <1>7, <1>8, <1>9, <1>10, <1>11 DEF Next

\* No decision is asked for or acted on inside a branch that is closed and not yet returned from.
THEOREM PositionVerified == Spec => []OnlyVerifiedPosition
<1>1. Init => OnlyVerifiedPosition
  BY DEF Init, OnlyVerifiedPosition
<1> QED
  BY <1>1, VerifiedPositionInductive, PTL DEF Spec

-----------------------------------------------------------------------------
(* The submission guard.                                                   *)

\* What is decided once a submission is verified never submits again, and the engine retreats no more.
Deciding == {"weigh", "guard", "barred", "close", "dispatch"}
Harmless == ~(act = "fill_form" \/ (act = "click" /\ choice.cand \in FormControls \cup {Nobody}))
Guarded ==
  /\ DOMAIN choice = {"kind", "cand", "allowed"}
  /\ pc \in Deciding /\ submission => Harmless
  /\ pc \notin {"dispatch", "evaluate", "conclude"} => move = "none"
  /\ pc = "dispatch" /\ submission => move \notin {"branchReturn", "anchorHop", "replan"}

\* What obtainDecision returns is a decision, and one allowed after a submission submits nothing again.
LEMMA DecisionShape ==
  ASSUME NEW d \in obtainDecision
  PROVE  /\ d = [kind |-> d.kind, cand |-> d.cand, allowed |-> d.allowed] /\ d.allowed \in BOOLEAN
         /\ submission /\ d.allowed => ~Resubmits(d)
<1>1. CASE submission /\ Missing = {}
  <2>1. d = [kind |-> "stop_success", cand |-> Nobody, allowed |-> TRUE]
    BY <1>1 DEF obtainDecision, Plain
  <2> QED
    BY <2>1 DEF Resubmits
<1>2. CASE ~(submission /\ Missing = {})
  <2>1. d \in Proposals /\ (submission => ~(d.allowed /\ Resubmits(d)))
    BY <1>2 DEF obtainDecision
  <2>2. d = [kind |-> d.kind, cand |-> d.cand, allowed |-> d.allowed] /\ d.allowed \in BOOLEAN
    <3>1. CASE d = Refusal
      BY <3>1 DEF Refusal
    <3>2. CASE d \in RouteDecisions
      BY <3>2 DEF RouteDecisions
    <3>3. CASE \E k \in AllowedActions \ {"stop_blocked", "navigate"} : d = Plain(k)
      BY <3>3 DEF Plain
    <3> QED
      BY <2>1, <3>1, <3>2, <3>3 DEF Proposals
  <2> QED
    BY <2>1, <2>2
<1> QED
  BY <1>1, <1>2

\* A decision just taken, effective or refused, is harmless.
LEMMA DecideHarmless ==
  ASSUME Decide
  PROVE  DOMAIN choice' = {"kind", "cand", "allowed"} /\ (submission => Harmless')
<1>1. /\ choice' = [kind |-> choice'.kind, cand |-> choice'.cand, allowed |-> choice'.allowed]
      /\ submission /\ choice'.allowed => ~Resubmits(choice')
  BY DecisionShape DEF Decide
<1>2. act' = IF choice'.allowed THEN choice'.kind ELSE "stop_blocked"
  BY DEF Decide, Effective
<1> QED
  BY <1>1, <1>2 DEF Harmless, Resubmits

\* Every step keeps what is about to be dispatched harmless.
LEMMA GuardInductive ==
  ASSUME Guarded, [Next]_vars
  PROVE  Guarded'
<1> USE DEF Guarded, Goto, Finish, NextStep, goalVars, NoChoice, Deciding, Harmless
<1>1. CASE Observe \/ StopAtLimit \/ AcceptConsent
  BY <1>1 DEF Observe, StopAtLimit, AcceptConsent
<1>2. CASE PassLimits \/ BranchSucceeds \/ AssessBranch
  BY <1>2 DEF PassLimits, BranchSucceeds, AssessBranch, stepVars, Proceed
<1>3. CASE BackAtDecisionPoint \/ RestoreLate \/ RestoreFails \/ ReturnHop
  BY <1>3 DEF BackAtDecisionPoint, RestoreLate, RestoreFails, ReturnHop, NotBack, Proceed
<1>4. CASE ReactToBlocker \/ SkipBlocked
  BY <1>4 DEF ReactToBlocker, SkipBlocked, stepVars
<1>5. CASE Ask \/ RetryLowConfidence \/ Retarget
  BY <1>5, DecideHarmless DEF Ask, RetryLowConfidence, Retarget
<1>6. CASE RedirectDismiss
  BY <1>6 DEF RedirectDismiss
<1>7. CASE Weigh
  <2>1. CASE choice.cand \notin Barred
    BY <1>7, <2>1 DEF Weigh, decisionVars
  <2>2. CASE choice.cand \in Barred
    <3>1. PICK d \in obtainDecision : /\ choice' = IF d.cand \in Barred THEN [d EXCEPT !.allowed = FALSE] ELSE d
                                      /\ act' = Effective(choice')
      BY <1>7, <2>2 DEF Weigh
    <3>2. d = [kind |-> d.kind, cand |-> d.cand, allowed |-> d.allowed] /\ (submission /\ d.allowed => ~Resubmits(d))
      BY DecisionShape
    <3>3. CASE d.cand \in Barred
      <4>1. choice' = [kind |-> d.kind, cand |-> d.cand, allowed |-> FALSE] /\ act' = "stop_blocked"
        BY <3>1, <3>2, <3>3 DEF Effective
      <4> QED
        BY <1>7, <4>1 DEF Weigh
    <3>4. CASE d.cand \notin Barred
      BY <1>7, <3>1, <3>2, <3>4 DEF Weigh, Effective, Resubmits
    <3> QED
      BY <3>3, <3>4
  <2> QED
    BY <2>1, <2>2
<1>8. CASE CloseBranch
  BY <1>8, DecideHarmless DEF CloseBranch
<1>9. CASE CarryOn
  BY <1>9 DEF CarryOn, stepVars
<1>10. CASE RecoverAtAnchor \/ AnchorHop \/ PlainReplan
  BY <1>10, DecideHarmless DEF RecoverAtAnchor, AnchorHop, PlainReplan, Eligible
<1>11. CASE DispatchClick \/ DispatchForm \/ DispatchBack \/ DispatchOther
  <2>1. AfterDispatch
    BY <1>11 DEF DispatchClick, DispatchForm, DispatchBack, DispatchOther
  <2> QED
    BY <2>1 DEF AfterDispatch
<1>12. CASE Evaluate
  BY <1>12 DEF Evaluate, stepVars
<1>13. CASE ContinueAtAnchor \/ EndAfterFailedRetreat \/ EndAfterSubmission \/ StopSuccess \/ RejectStopSuccess
  BY <1>13 DEF ContinueAtAnchor, EndAfterFailedRetreat, EndAfterSubmission, StopSuccess, RejectStopSuccess
<1>14. CASE StopUnsuccessfully \/ Continue \/ ActionFailed
  BY <1>14 DEF StopUnsuccessfully, Continue, ActionFailed
<1>15. CASE Ended \/ UNCHANGED vars
  BY <1>15 DEF Ended, vars, stepVars
<1> QED
  BY <1>1, <1>2, <1>3, <1>4, <1>5, <1>6, <1>7, <1>8, <1>9, <1>10, <1>11, <1>12, <1>13, <1>14, <1>15 DEF Next

\* After a verified submission no form is touched again, and no retreat of the engine's own is dispatched.
THEOREM SubmissionIsGuarded == Spec => []SubmissionGuarded
<1>1. Init => Guarded
  BY DEF Init, Guarded, Deciding, NoChoice
<1>2. Guarded => SubmissionGuarded
  BY DEF Guarded, Deciding, Harmless, SubmissionGuarded, Resubmits
<1> QED
  BY <1>1, <1>2, GuardInductive, PTL DEF Spec

-----------------------------------------------------------------------------
(* Type correctness, one group of variables at a time.                     *)

\* A nonempty set of naturals has a least element.
LEMMA Least ==
  ASSUME NEW T, T \subseteq Nat, T # {}
  PROVE  \E x \in T : \A y \in T : x <= y
<1> DEFINE R == {ss \in Nat \X Nat : ss[1] < ss[2]}
<1>1. R = OpToRel(<, Nat)
  BY Zenon DEF OpToRel
<1>2. IsWellFoundedOn(R, Nat)
  BY <1>1, NatLessThanWellFounded, Zenon
<1> HIDE DEF R
<1>3. PICK x \in T : \A y \in T : ~ (<<y, x>> \in R)
  BY <1>2, WFMin, Zenon
<1>4. \A y \in T : ~ (y < x)
  BY <1>3 DEF R
<1> QED
  BY <1>4

\* A nonempty set of naturals up to N has a greatest element.
LEMMA Greatest ==
  ASSUME NEW N \in Nat, NEW T, T \subseteq 1..N, T # {}
  PROVE  \E x \in T : \A y \in T : y <= x
<1> DEFINE U == {N - c : c \in T}
<1>1. \A c \in T : c \in Int /\ 1 <= c /\ c <= N
  OBVIOUS
<1>2. U \subseteq Nat /\ U # {}
  <2>1. \A c \in T : N - c \in Nat
    BY <1>1
  <2> QED
    BY <2>1
<1>3. PICK u \in U : \A v \in U : u <= v
  <2> HIDE DEF U
  <2> QED
    BY <1>2, Least
<1>4. PICK x \in T : u = N - x
  BY <1>3
<1>5. \A y \in T : u <= N - y
  BY <1>3
<1> HIDE DEF U
<1> QED
  BY <1>1, <1>4, <1>5

\* The least of three integers is one of them.
LEMMA Min3Type ==
  ASSUME NEW a \in Int, NEW b \in Int, NEW c \in Int
  PROVE  Min3(a, b, c) \in {a, b, c}
<1>1. \E m \in {a, b, c} : m <= a /\ m <= b /\ m <= c
  <2>1. CASE a <= b /\ a <= c
    BY <2>1
  <2>2. CASE b <= a /\ b <= c
    BY <2>2
  <2>3. CASE c <= b /\ c <= a
    BY <2>3
  <2> QED
    BY <2>1, <2>2, <2>3
<1> QED
  BY <1>1 DEF Min3

Branches ==
  [result : {"absent", "open", "productive", "exhausted"}, on : Surfaces, at : Pages \cup {Nobody}, via : Candidates \cup {Nobody},
   target : Nat, depth : Nat, maxDepth : Nat, seen : SUBSET Pages, entry : SUBSET Criteria,
   gained : SUBSET Criteria, idle : Nat, hops : Nat, budget : Nat]

TallyTypes ==
  /\ last \in [changed : BOOLEAN, progressed : BOOLEAN] /\ roamed \in BOOLEAN /\ consents \in Nat
  /\ stale \in Nat /\ blocker \in [Surfaces -> [sig : Obstructions \cup {Nobody}, repeat : Nat]]
\* Nested(s, top, kept): SurfacesNested of a stack s, when the surfaces up to top were entered, kept as popups.
Nested(s, top, kept) ==
  /\ s \in Seq(Surfaces) /\ s # <<>> /\ s[1] = Main
  /\ \A i \in 1..(Len(s) - 1) : s[i] < s[i + 1]
  /\ \A i \in 1..Len(s) : s[i] <= top
  /\ \A i \in 3..Len(s) : s[i] \in kept
SurfaceTypes ==
  /\ Nested(stack, surfaces, adopted) /\ surfaces \in Surfaces
  /\ adopted \subseteq Surfaces /\ viaDialog \subseteq Surfaces \ {Main} /\ suppress \in BOOLEAN /\ redirected \subseteq Surfaces
BranchTypes ==
  /\ memory \in [Surfaces \X Pages \X Candidates -> Knowledge] /\ deadEnds \subseteq Surfaces \X Pages \X Candidates
  /\ branch \in Branches
  /\ branchAttempts \in [Pages -> Nat] /\ altAttempts \in [Pages -> Nat] /\ reconstructed \subseteq Pages
  /\ branch.result # "absent" => branch.at \in Pages /\ branch.via \in Candidates
  /\ pc = "return" => branch.result \notin {"absent", "open"}
AnchorTypes ==
  /\ anchors \in [Criteria -> Pages \cup {Nobody}] /\ restore \in [page : Pages \cup {Nobody}, hops : Nat]
  /\ exhaustedAnchors \subseteq Pages /\ restoreHops \in Nat /\ replans \in Nat /\ pendingAlt \subseteq Candidates
  /\ move = "anchorHop" => restore.page \in Pages
StepTypes ==
  /\ here \in Pages \cup {Nobody} /\ act \in Kinds /\ retries \in Nat /\ recovered \subseteq Pages
  /\ choice \in [kind : Kinds, cand : Candidates \cup {Nobody}, allowed : BOOLEAN]
  /\ move \in {"none", "branchReturn", "anchorHop", "anchorRetry", "replan"} /\ result \in {"ok", "stale", "failed"}
  /\ lastRoute \in Candidates \cup {Nobody} /\ rejectedStop \in [page : Pages \cup {Nobody}, met : SUBSET Criteria]
  /\ pc \notin {"observe", "ended"} => here \in Pages

\* TypeOK and what it takes to keep it: a branch has a decision point, a decision has a page.
Typed == Accounted /\ TallyTypes /\ SurfaceTypes /\ BranchTypes /\ AnchorTypes /\ StepTypes

\* No branch is a branch whose result is absent.
LEMMA AbsentTyped == NoBranch \in Branches /\ NoBranch.result = "absent"
  BY ParametersAreNaturals DEF NoBranch, Branches, Surfaces, Main

\* The types hold at the beginning of a run.
LEMMA InitTyped == Init => Typed
<1> SUFFICES ASSUME Init PROVE Typed
  OBVIOUS
<1>1. Accounted
  BY InitAccounted
<1>2. TallyTypes
  BY DEF Init, TallyTypes, NoBlocker
<1>3. SurfaceTypes
  <2>1. Main \in Surfaces
    BY DEF Main, Surfaces
  <2>2. <<Main>> \in Seq(Surfaces) /\ <<Main>> # <<>> /\ Len(<<Main>>) = 1 /\ <<Main>>[1] = Main
    BY <2>1
  <2>3. stack = <<Main>> /\ surfaces = 0 /\ adopted = {} /\ viaDialog = {} /\ suppress = FALSE /\ redirected = {}
    BY DEF Init
  <2> QED
    <3>1. Nested(<<Main>>, 0, {})
      BY <2>2 DEF Nested, Main
    <3>2. 0 \in Surfaces
      BY DEF Surfaces
    <3> QED
      BY <2>3, <3>1, <3>2 DEF SurfaceTypes
<1>4. BranchTypes
  <2>1. NoBranch \in Branches /\ NoBranch.result = "absent" /\ branch = NoBranch /\ pc = "observe"
    BY AbsentTyped DEF Init
  <2>2. memory \in [Surfaces \X Pages \X Candidates -> Knowledge] /\ deadEnds \subseteq Surfaces \X Pages \X Candidates
    BY DEF Init, Knowledge
  <2>3. branchAttempts \in [Pages -> Nat] /\ altAttempts \in [Pages -> Nat] /\ reconstructed \subseteq Pages
    BY DEF Init
  <2> QED
    BY <2>1, <2>2, <2>3 DEF BranchTypes
<1>5. AnchorTypes
  BY DEF Init, AnchorTypes, NoRestore
<1>6. StepTypes
  <2>1. /\ here = Nobody /\ act = "wait" /\ retries = 0 /\ recovered = {} /\ move = "none" /\ result = "ok"
        /\ choice = NoChoice /\ lastRoute = Nobody /\ rejectedStop = NoStop /\ pc = "observe"
    BY DEF Init
  <2> QED
    BY <2>1 DEF StepTypes, NoChoice, NoStop, Kinds, Stops
<1> QED
  BY <1>1, <1>2, <1>3, <1>4, <1>5, <1>6 DEF Typed

\* There is always an active surface.
LEMMA ActiveIsSurface ==
  ASSUME SurfaceTypes
  PROVE  Len(stack) \in Nat /\ Len(stack) > 0 /\ Active \in Surfaces
BY LenProperties, ElementOfSeq DEF SurfaceTypes, Nested, Active, Top

\* Every step keeps the types of the counters.
LEMMA TalliesTyped ==
  ASSUME Typed, [Next]_vars
  PROVE  TallyTypes'
<1> USE DEF Typed, TallyTypes, limitVars, blockerVars, miscVars, recordAction
<1>1. CASE Observe
  <2>1. UNCHANGED <<consents, blockerVars>>
    BY <1>1 DEF Observe
  <2>2. last' \in [changed : BOOLEAN, progressed : BOOLEAN]
    BY <1>1 DEF Observe
  <2>3. roamed' \in BOOLEAN
    BY <1>1 DEF Observe
  <2> QED
    BY <2>1, <2>2, <2>3
<1>2. CASE StopAtLimit \/ RestoreFails \/ ReturnHop
  <2>1. UNCHANGED <<blockerVars, roamed, consents>>
    BY <1>2 DEF StopAtLimit, RestoreFails, ReturnHop
  <2>2. last' = [changed |-> FALSE, progressed |-> TRUE]
    BY <1>2 DEF StopAtLimit, RestoreFails, ReturnHop
  <2> QED
    BY <2>1, <2>2
<1>3. CASE AcceptConsent
  <2>1. consents' \in Nat /\ UNCHANGED <<roamed, blockerVars>>
    BY <1>3 DEF AcceptConsent
  <2>2. \E changed \in BOOLEAN : recordAction("click", changed)
    BY <1>3 DEF AcceptConsent, SurfaceChanges
  <2> QED
    BY <2>1, <2>2
<1>4. CASE PassLimits \/ BranchSucceeds \/ AssessBranch \/ BackAtDecisionPoint \/ RestoreLate
  BY <1>4 DEF PassLimits, BranchSucceeds, AssessBranch, BackAtDecisionPoint, RestoreLate
<1>5. CASE ReactToBlocker
  <2>1. Active \in Surfaces
    BY ActiveIsSurface
  <2> QED
    BY <1>5, <2>1 DEF ReactToBlocker, NoBlocker
<1>6. CASE SkipBlocked
  BY <1>6 DEF SkipBlocked
<1>7. CASE Ask \/ RetryLowConfidence \/ RedirectDismiss \/ Weigh \/ Retarget
  BY <1>7 DEF Ask, RetryLowConfidence, RedirectDismiss, Weigh, Retarget
<1>8. CASE CloseBranch \/ CarryOn \/ RecoverAtAnchor \/ AnchorHop \/ PlainReplan
  BY <1>8 DEF CloseBranch, CarryOn, RecoverAtAnchor, AnchorHop, PlainReplan
<1>9. CASE DispatchClick \/ DispatchForm \/ DispatchBack \/ DispatchOther
  <2>1. AfterDispatch
    BY <1>9 DEF DispatchClick, DispatchForm, DispatchBack, DispatchOther
  <2>2. PICK changed \in BOOLEAN : recordAction(act, changed)
    BY <2>1 DEF AfterDispatch, SurfaceChanges
  <2>3. last' \in [changed : BOOLEAN, progressed : BOOLEAN] /\ UNCHANGED <<roamed, consents>>
    BY <2>1, <2>2 DEF AfterDispatch
  <2>4. stale' \in Nat /\ blocker' \in [Surfaces -> [sig : Obstructions \cup {Nobody}, repeat : Nat]]
    <3>1. TrackStale /\ Active \in Surfaces
      BY <2>1, ActiveIsSurface DEF AfterDispatch
    <3>2. \A sig \in Obstructions \cup {Nobody} : NoteBlocker(sig) \in [sig : Obstructions \cup {Nobody}, repeat : Nat]
      BY <3>1 DEF NoteBlocker, NoBlocker
    <3> QED
      BY <3>1, <3>2 DEF TrackStale
  <2> QED
    BY <2>3, <2>4
<1>10. CASE Evaluate \/ ContinueAtAnchor \/ EndAfterFailedRetreat \/ EndAfterSubmission \/ StopSuccess
  BY <1>10 DEF Evaluate, ContinueAtAnchor, EndAfterFailedRetreat, EndAfterSubmission, StopSuccess
<1>11. CASE RejectStopSuccess \/ StopUnsuccessfully \/ Continue \/ ActionFailed
  BY <1>11 DEF RejectStopSuccess, StopUnsuccessfully, Continue, ActionFailed
<1>12. CASE Ended \/ UNCHANGED vars
  BY <1>12 DEF Ended, vars
<1> QED
  BY <1>1, <1>2, <1>3, <1>4, <1>5, <1>6, <1>7, <1>8, <1>9, <1>10, <1>11, <1>12 DEF Next

\* The lower part of a nested stack is nested.
LEMMA PrefixNested ==
  ASSUME NEW s, NEW top \in Nat, NEW kept, Nested(s, top, kept), NEW n \in 1..Len(s)
  PROVE  Nested(SubSeq(s, 1, n), top, kept) /\ Len(SubSeq(s, 1, n)) = n
<1> DEFINE t == SubSeq(s, 1, n)
<1>1. Len(s) \in Nat /\ \A i \in 1..n : s[i] \in Surfaces
  BY LenProperties, ElementOfSeq DEF Nested
<1>2. t \in Seq(Surfaces) /\ Len(t) = n /\ \A i \in 1..n : t[i] = s[i]
  BY <1>1, SubSeqProperties
<1>3. t # <<>>
  BY <1>2
<1> HIDE DEF t
<1> QED
  BY <1>1, <1>2, <1>3 DEF Nested

\* So is one with a surface entered above: from the main page, or as a popup.
LEMMA EnteredNested ==
  ASSUME NEW s, NEW top \in Nat, NEW kept, NEW more, Nested(s, top, kept), top < MaxSurfaces,
         kept \subseteq more, Top(s) = Main \/ top + 1 \in more
  PROVE  Nested(Append(s, top + 1), top + 1, more)
<1> DEFINE t == Append(s, top + 1)
<1>1. top + 1 \in Surfaces /\ s \in Seq(Surfaces)
  BY DEF Surfaces, Nested
<1>2. t \in Seq(Surfaces) /\ t # <<>> /\ Len(t) = Len(s) + 1 /\ t[Len(s) + 1] = top + 1 /\ \A i \in 1..Len(s) : t[i] = s[i]
  BY <1>1, AppendProperties
<1>3. Len(s) \in Nat /\ Len(s) > 0 /\ \A i \in 1..Len(s) : s[i] \in Nat
  BY LenProperties, ElementOfSeq DEF Nested, Surfaces
<1>4. Top(s) = Main => Len(s) = 1
  <2>1. ASSUME Top(s) = Main, Len(s) # 1 PROVE FALSE
    <3>1. \A n \in Nat : n > 0 /\ n # 1 => n - 1 \in 1..(n - 1) /\ n - 1 \in 1..n /\ n = (n - 1) + 1
      OBVIOUS
    <3>2. PICK k \in 1..(Len(s) - 1) : k \in 1..Len(s) /\ Len(s) = k + 1
      BY <1>3, <2>1, <3>1
    <3>3. s[k] < s[k + 1] /\ s[k + 1] = 0 /\ s[k] \in Nat
      BY <1>3, <2>1, <3>2 DEF Nested, Top, Main
    <3> QED
      BY <3>3
  <2> QED
    BY <2>1
<1>5. \A i \in 1..Len(t) - 1 : t[i] < t[i + 1]
  BY <1>2, <1>3 DEF Nested
<1>6. \A i \in 1..Len(t) : t[i] <= top + 1
  BY <1>2, <1>3 DEF Nested
<1>7. \A i \in 3..Len(t) : t[i] \in more
  BY <1>2, <1>3, <1>4 DEF Nested
<1>8. t[1] = Main
  BY <1>2, <1>3 DEF Nested
<1> HIDE DEF t
<1> QED
  BY <1>2, <1>5, <1>6, <1>7, <1>8 DEF Nested

\* Leaving a surface keeps the types of the stack.
LEMMA LeaveTyped ==
  ASSUME SurfaceTypes, LeaveSurface, UNCHANGED redirected
  PROVE  SurfaceTypes'
<1>1. CASE Active = Main
  BY <1>1 DEF LeaveSurface, SurfaceTypes, surfaceVars
<1>2. CASE Active # Main
  <2>1. Len(stack) \in Nat /\ Len(stack) > 1
    BY <1>2, ActiveIsSurface DEF Active, Top, SurfaceTypes, Nested
  <2>2. Nested(SubSeq(stack, 1, Len(stack) - 1), surfaces, adopted)
    BY <2>1, PrefixNested DEF SurfaceTypes, Surfaces
  <2> QED
    BY <1>2, <2>2 DEF LeaveSurface, SurfaceTypes
<1> QED
  BY <1>1, <1>2

\* Whatever was popped, the main page stays, and only it is covered by a panel.
LEMMA SyncTyped ==
  ASSUME SurfaceTypes, NEW n \in 1..Len(stack), NEW dialog \in BOOLEAN, UNCHANGED redirected,
         SyncSurface(SubSeq(stack, 1, n), dialog)
  PROVE  SurfaceTypes'
<1> DEFINE open == SubSeq(stack, 1, n)
           enters == ~suppress /\ Top(open) = Main /\ (dialog \/ last.changed)
           leaves == ~enters /\ Top(open) \in viaDialog /\ ~dialog
<1>1. /\ enters => surfaces < MaxSurfaces
      /\ stack' = IF enters THEN Append(open, surfaces + 1)
                  ELSE IF leaves THEN SubSeq(open, 1, Len(open) - 1) ELSE open
      /\ surfaces' = surfaces + (IF enters THEN 1 ELSE 0)
      /\ viaDialog' = IF enters /\ dialog THEN viaDialog \cup {surfaces + 1} ELSE viaDialog
      /\ suppress' = FALSE /\ UNCHANGED adopted
  BY DEF SyncSurface
<1>2. Nested(open, surfaces, adopted) /\ Len(open) = n /\ surfaces \in Nat /\ n \in Nat
  BY PrefixNested, ActiveIsSurface DEF SurfaceTypes, Surfaces
<1>3. enters => Top(open) = Main
  OBVIOUS
<1>4. leaves => Top(open) # Main
  BY DEF SurfaceTypes
<1> HIDE DEF open, enters, leaves
<1>5. CASE enters
  <2>1. Nested(Append(open, surfaces + 1), surfaces + 1, adopted)
    BY <1>1, <1>2, <1>3, <1>5, EnteredNested
  <2>2. surfaces + 1 \in Surfaces \ {Main}
    BY <1>1, <1>2, <1>5 DEF Surfaces, Main
  <2> QED
    BY <1>1, <1>5, <2>1, <2>2 DEF SurfaceTypes
<1>6. CASE ~enters /\ leaves
  <2>1. n > 1
    BY <1>2, <1>4, <1>6 DEF Top, Nested
  <2>2. Nested(SubSeq(open, 1, n - 1), surfaces, adopted)
    BY <1>2, <2>1, PrefixNested
  <2>3. stack' = SubSeq(open, 1, n - 1)
    BY <1>1, <1>2, <1>6, Zenon
  <2>4. surfaces' = surfaces /\ viaDialog' = viaDialog
    BY <1>1, <1>2, <1>6
  <2> QED
    BY <1>1, <2>2, <2>3, <2>4 DEF SurfaceTypes
<1>7. CASE ~enters /\ ~leaves
  <2>1. stack' = open
    BY <1>1, <1>7, Zenon
  <2>2. surfaces' = surfaces /\ viaDialog' = viaDialog
    BY <1>1, <1>2, <1>7
  <2> QED
    BY <1>1, <1>2, <2>1, <2>2 DEF SurfaceTypes
<1> QED
  BY <1>5, <1>6, <1>7

\* Every step keeps the types of the surfaces.
LEMMA SurfacesTyped ==
  ASSUME Typed, [Next]_vars
  PROVE  SurfaceTypes'
<1> USE DEF Typed, miscVars
<1>1. CASE Observe
  <2>1. PICK gone \in 0..(Len(stack) - 1), dialog \in BOOLEAN : SyncSurface(SubSeq(stack, 1, Len(stack) - gone), dialog)
    BY <1>1 DEF Observe
  <2>2. Len(stack) - gone \in 1..Len(stack) /\ UNCHANGED redirected
    BY <1>1, ActiveIsSurface DEF Observe
  <2> QED
    BY <2>1, <2>2, SyncTyped
<1>2. CASE ReturnHop
  BY <1>2, LeaveTyped DEF ReturnHop
<1>3. CASE DispatchBack
  BY <1>3, LeaveTyped DEF DispatchBack, AfterDispatch
<1>4. CASE RedirectDismiss
  BY <1>4, ActiveIsSurface DEF RedirectDismiss, SurfaceTypes, surfaceVars
<1>5. CASE DispatchClick
  <2>1. UNCHANGED redirected
    BY <1>5 DEF DispatchClick, AfterDispatch
  <2>2. CASE UNCHANGED surfaceVars
    BY <2>1, <2>2 DEF SurfaceTypes, surfaceVars
  <2>3. CASE /\ surfaces < MaxSurfaces /\ surfaces' = surfaces + 1 /\ adopted' = adopted \cup {surfaces'}
             /\ stack' = Append(stack, surfaces') /\ UNCHANGED <<viaDialog, suppress>>
    <3>1. surfaces \in Nat /\ surfaces + 1 \in Surfaces
      BY <2>3 DEF SurfaceTypes, Surfaces
    <3>2. Nested(Append(stack, surfaces + 1), surfaces + 1, adopted \cup {surfaces + 1})
      BY <2>3, <3>1, EnteredNested DEF SurfaceTypes
    <3> QED
      BY <2>1, <2>3, <3>1, <3>2 DEF SurfaceTypes
  <2> QED
    BY <1>5, <2>2, <2>3 DEF DispatchClick
<1> USE DEF SurfaceTypes, surfaceVars
<1>6. CASE StopAtLimit \/ AcceptConsent \/ PassLimits \/ BranchSucceeds \/ AssessBranch \/ BackAtDecisionPoint
  BY <1>6 DEF StopAtLimit, AcceptConsent, PassLimits, BranchSucceeds, AssessBranch, BackAtDecisionPoint
<1>7. CASE RestoreLate \/ RestoreFails \/ ReactToBlocker \/ SkipBlocked
  BY <1>7 DEF RestoreLate, RestoreFails, ReactToBlocker, SkipBlocked
<1>8. CASE Ask \/ RetryLowConfidence \/ Weigh \/ Retarget
  BY <1>8 DEF Ask, RetryLowConfidence, Weigh, Retarget
<1>9. CASE CloseBranch \/ CarryOn \/ RecoverAtAnchor \/ AnchorHop \/ PlainReplan
  BY <1>9 DEF CloseBranch, CarryOn, RecoverAtAnchor, AnchorHop, PlainReplan
<1>10. CASE DispatchForm \/ DispatchOther
  BY <1>10 DEF DispatchForm, DispatchOther, AfterDispatch
<1>11. CASE Evaluate \/ ContinueAtAnchor \/ EndAfterFailedRetreat \/ EndAfterSubmission \/ StopSuccess
  BY <1>11 DEF Evaluate, ContinueAtAnchor, EndAfterFailedRetreat, EndAfterSubmission, StopSuccess
<1>12. CASE RejectStopSuccess \/ StopUnsuccessfully \/ Continue \/ ActionFailed
  BY <1>12 DEF RejectStopSuccess, StopUnsuccessfully, Continue, ActionFailed
<1>13. CASE Ended \/ UNCHANGED vars
  BY <1>13 DEF Ended, vars
<1> QED
  BY <1>1, <1>2, <1>3, <1>4, <1>5, <1>6, <1>7, <1>8, <1>9, <1>10, <1>11, <1>12, <1>13 DEF Next

\* Ending the branch, or what is remembered of its route.
LEMMA RecordTyped ==
  ASSUME BranchTypes, NEW r \in Knowledge, NEW p, NEW c
  PROVE  recordBranchResult(p, c, r) \in [Surfaces \X Pages \X Candidates -> Knowledge]
BY DEF recordBranchResult, BranchTypes

\* An open branch that is exhausted is a branch at the same decision point.
LEMMA ClosedTyped ==
  ASSUME BranchTypes, branch.result = "open"
  PROVE  /\ [branch EXCEPT !.result = "exhausted", !.budget = branch.depth + 1] \in Branches
         /\ [branch EXCEPT !.result = "exhausted", !.budget = branch.depth + 1].at = branch.at
         /\ [branch EXCEPT !.result = "exhausted", !.budget = branch.depth + 1].via = branch.via
         /\ [branch EXCEPT !.result = "exhausted", !.budget = branch.depth + 1, !.hops = @ + 1] \in Branches
         /\ [branch EXCEPT !.result = "exhausted", !.budget = branch.depth + 1, !.hops = @ + 1].at = branch.at
         /\ [branch EXCEPT !.result = "exhausted", !.budget = branch.depth + 1, !.hops = @ + 1].via = branch.via
<1>1. branch.depth + 1 \in Nat /\ branch.hops + 1 \in Nat
  BY DEF BranchTypes, Branches
<1> QED
  BY <1>1 DEF BranchTypes, Branches

\* A dead end that is noted is a candidate of a page on a surface.
LEMMA DeadEndTyped ==
  ASSUME BranchTypes, NEW r, NoteDeadEnd(r), branch.result # "absent"
  PROVE  deadEnds' \subseteq Surfaces \X Pages \X Candidates
BY DEF BranchTypes, Branches, NoteDeadEnd

\* The bound of a new branch is a number, and its target a criterion.
LEMMA EnteredTyped ==
  ASSUME Typed, steps' \in Nat, backtracks' \in Nat, MayEnterBranch, EnterBranch, pc = "dispatch"
  PROVE  /\ branch' \in Branches /\ branch'.result = "open" /\ branch'.at \in Pages /\ branch'.via \in Candidates
         /\ branchAttempts' \in [Pages -> Nat] /\ altAttempts' \in [Pages -> Nat]
<1>1. BranchDepth \in Nat
  <2>1. stepBound \in Int /\ MaxBacktracks - backtracks' - 1 \in Int
    BY DEF stepBound
  <2>2. BranchDepth \in Int
    BY <2>1, Min3Type DEF BranchDepth
  <2> QED
    BY <2>2 DEF MayEnterBranch
<1>2. here \in Pages /\ choice.cand \in Candidates
  BY DEF Typed, StepTypes, MayEnterBranch
<1>3. Missing \subseteq Nat /\ Missing # {}
  BY DEF Missing, Criteria, MayEnterBranch
<1>4. (CHOOSE c \in Missing : \A d \in Missing : c <= d) \in Nat
  BY <1>3, Least
<1>5. PICK target \in Nat :
        branch' = [NoBranch EXCEPT !.result = "open", !.on = Active, !.at = here, !.via = choice.cand, !.maxDepth = BranchDepth,
                     !.entry = satisfied, !.target = target]
  BY <1>4 DEF EnterBranch
<1>6. satisfied \in SUBSET Criteria
  BY DEF Typed, Accounted
<1> HIDE DEF BranchDepth
<1>7. branch' \in Branches /\ branch'.result = "open" /\ branch'.at = here /\ branch'.via = choice.cand
  <2>1. Active \in Surfaces
    BY ActiveIsSurface DEF Typed
  <2> QED
    BY <1>1, <1>2, <1>5, <1>6, <2>1, AbsentTyped DEF Branches
<1>8. branchAttempts' \in [Pages -> Nat] /\ altAttempts' \in [Pages -> Nat]
  BY DEF EnterBranch, Typed, BranchTypes
<1> QED
  BY <1>2, <1>7, <1>8

\* Every step keeps the types of the branch.
LEMMA BranchesTyped ==
  ASSUME Typed, [Next]_vars
  PROVE  BranchTypes'
<1> USE DEF Typed, BranchTypes, branchVars, budgetVars, Goto, Finish, NextStep
<1>1. CASE Observe \/ StopAtLimit \/ AcceptConsent
  BY <1>1 DEF Observe, StopAtLimit, AcceptConsent
<1>2. CASE PassLimits
  BY <1>2 DEF PassLimits, Proceed
<1>3. CASE BranchSucceeds
  <2>1. memory' \in [Surfaces \X Pages \X Candidates -> Knowledge]
    BY <1>3, RecordTyped DEF BranchSucceeds, Knowledge
  <2> QED
    BY <1>3, <2>1, AbsentTyped DEF BranchSucceeds, Proceed
<1>4. CASE AssessBranch
  <2> DEFINE revisit == last.progressed /\ here \in branch.seen
             idle == IF last.progressed THEN 0 ELSE branch.idle + 1
             gained == satisfied \ branch.entry
             verdict == assessBranchProgress(revisit, idle, gained)
  <2>1. verdict \in {"open", "productive", "exhausted"}
    BY DEF assessBranchProgress
  <2>2. idle \in Nat /\ gained \in SUBSET Criteria /\ here \in Pages /\ branch.depth + 1 \in Nat
    BY <1>4 DEF AssessBranch, Branches, Accounted, StepTypes
  <2>3. /\ branch.result = "open"
        /\ branch' = [branch EXCEPT !.result = verdict, !.gained = gained, !.idle = idle,
                        !.seen = IF last.progressed THEN branch.seen \cup {here} ELSE branch.seen,
                        !.budget = IF verdict = "open" THEN branch.budget ELSE branch.depth + 1]
        /\ memory' = IF verdict = "open" THEN memory ELSE recordBranchResult(branch.at, branch.via, verdict)
        /\ NoteDeadEnd(verdict)
        /\ pc' = IF verdict = "open" THEN Proceed ELSE "return"
        /\ UNCHANGED <<branchAttempts, altAttempts, reconstructed>>
    BY <1>4 DEF AssessBranch
  <2> HIDE DEF verdict, idle, gained
  <2>4. memory' \in [Surfaces \X Pages \X Candidates -> Knowledge]
    BY <2>1, <2>3, RecordTyped DEF Knowledge
  <2>5. deadEnds' \subseteq Surfaces \X Pages \X Candidates
    BY <2>3, DeadEndTyped
  <2>6. branch' \in Branches /\ branch'.at = branch.at /\ branch'.via = branch.via /\ branch'.result = verdict
    BY <2>1, <2>2, <2>3 DEF Branches
  <2>7. pc' = "return" => verdict # "open"
    BY <2>3 DEF Proceed
  <2> QED
    BY <2>1, <2>3, <2>4, <2>5, <2>6, <2>7
<1>5. CASE BackAtDecisionPoint
  BY <1>5, AbsentTyped DEF BackAtDecisionPoint, Restored, Proceed
<1>6. CASE RestoreLate \/ RestoreFails
  BY <1>6, AbsentTyped DEF RestoreLate, RestoreFails, NotBack, Restored, Reconstruct, ReconstructInVain, Proceed
<1>7. CASE ReturnHop
  <2>1. branch.at \in Pages /\ branch.via \in Candidates /\ UNCHANGED <<memory, deadEnds, branchAttempts, altAttempts>>
    BY <1>7 DEF ReturnHop, NotBack
  <2>2. reconstructed' \subseteq Pages /\ pc' # "return"
    BY <1>7, <2>1 DEF ReturnHop, Reconstruct, ReconstructInVain
  <2>3. branch' \in {NoBranch, [branch EXCEPT !.hops = @ + 1]}
    BY <1>7 DEF ReturnHop
  <2>4. [branch EXCEPT !.hops = @ + 1] \in Branches
    BY DEF Branches
  <2>5. [branch EXCEPT !.hops = @ + 1].at = branch.at /\ [branch EXCEPT !.hops = @ + 1].via = branch.via
    BY DEF Branches
  <2> QED
    BY <2>1, <2>2, <2>3, <2>4, <2>5, AbsentTyped
<1>8. CASE ReactToBlocker \/ SkipBlocked \/ Ask \/ RetryLowConfidence \/ RedirectDismiss \/ Weigh
  BY <1>8 DEF ReactToBlocker, SkipBlocked, Ask, RetryLowConfidence, RedirectDismiss, Weigh
<1>9. CASE Retarget \/ CarryOn \/ RecoverAtAnchor \/ AnchorHop \/ PlainReplan
  BY <1>9 DEF Retarget, CarryOn, RecoverAtAnchor, AnchorHop, PlainReplan
<1>10. CASE CloseBranch
  <2>1. /\ branch.result = "open" /\ memory' = recordBranchResult(branch.at, branch.via, "exhausted")
        /\ NoteDeadEnd("exhausted") /\ pc' = "dispatch" /\ UNCHANGED <<branchAttempts, altAttempts, reconstructed>>
    BY <1>10 DEF CloseBranch
  <2>2. branch' \in {NoBranch, [branch EXCEPT !.result = "exhausted", !.budget = branch.depth + 1, !.hops = @ + 1]}
    BY <1>10 DEF CloseBranch, Restored
  <2>3. memory' \in [Surfaces \X Pages \X Candidates -> Knowledge]
    BY <2>1, RecordTyped DEF Knowledge
  <2>4. deadEnds' \subseteq Surfaces \X Pages \X Candidates
    BY <2>1, DeadEndTyped
  <2>5. branch' \in Branches /\ (branch'.result # "absent" => branch'.at \in Pages /\ branch'.via \in Candidates)
    BY <2>1, <2>2, ClosedTyped, AbsentTyped
  <2> QED
    BY <2>1, <2>3, <2>4, <2>5
<1>11. CASE DispatchClick \/ DispatchForm \/ DispatchBack \/ DispatchOther
  <2>1. pc = "dispatch" /\ AfterDispatch
    BY <1>11 DEF DispatchClick, DispatchForm, DispatchBack, DispatchOther
  <2>2. TrackBranch /\ RememberRoute /\ pc' = "evaluate" /\ UNCHANGED <<deadEnds, reconstructed>>
    BY <2>1 DEF AfterDispatch
  <2>3. steps' \in Nat /\ backtracks' \in Nat
    BY AccountedInductive DEF Accounted
  <2>4. /\ branch' \in Branches /\ (branch'.result # "absent" => branch'.at \in Pages /\ branch'.via \in Candidates)
        /\ branchAttempts' \in [Pages -> Nat] /\ altAttempts' \in [Pages -> Nat]
    <3>1. CASE MayEnterBranch /\ EnterBranch
      BY <2>1, <2>3, <3>1, EnteredTyped
    <3>2. CASE branch' = branch /\ UNCHANGED <<branchAttempts, altAttempts>>
      BY <3>2
    <3>3. CASE branch.result = "open" /\ branch' = [branch EXCEPT !.depth = @ + 1] /\ UNCHANGED <<branchAttempts, altAttempts>>
      <4>1. branch' \in Branches /\ branch'.at = branch.at /\ branch'.via = branch.via
        BY <3>3 DEF Branches
      <4> QED
        BY <3>3, <4>1
    <3> QED
      BY <2>2, <3>1, <3>2, <3>3 DEF TrackBranch
  <2>5. memory' \in [Surfaces \X Pages \X Candidates -> Knowledge]
    <3> DEFINE k == <<Top(stack'), here, choice.cand>>
    <3>1. \/ memory' = memory
          \/ memory' = [memory EXCEPT ![k] = "exhausted"]
          \/ memory' = [memory EXCEPT ![k] = IF @ = "untried" THEN "tried" ELSE @]
      BY <2>2 DEF RememberRoute
    <3> HIDE DEF k
    <3> QED
      BY <3>1 DEF Knowledge
  <2> QED
    BY <2>2, <2>4, <2>5
<1>12. CASE Evaluate \/ ContinueAtAnchor \/ EndAfterFailedRetreat \/ EndAfterSubmission \/ StopSuccess
  BY <1>12 DEF Evaluate, ContinueAtAnchor, EndAfterFailedRetreat, EndAfterSubmission, StopSuccess
<1>13. CASE RejectStopSuccess \/ StopUnsuccessfully \/ Continue
  BY <1>13 DEF RejectStopSuccess, StopUnsuccessfully, Continue
<1>14. CASE ActionFailed
  <2>1. CASE branch.result = "open"
    <3>1. /\ branch' = [branch EXCEPT !.result = "exhausted", !.budget = branch.depth + 1]
          /\ memory' = recordBranchResult(branch.at, branch.via, "exhausted")
          /\ NoteDeadEnd("exhausted") /\ pc' # "return" /\ UNCHANGED <<branchAttempts, altAttempts, reconstructed>>
      BY <1>14, <2>1 DEF ActionFailed
    <3>2. memory' \in [Surfaces \X Pages \X Candidates -> Knowledge]
      BY <3>1, RecordTyped DEF Knowledge
    <3> QED
      BY <2>1, <3>1, <3>2, ClosedTyped, DeadEndTyped
  <2>2. CASE branch.result # "open"
    BY <1>14, <2>2 DEF ActionFailed
  <2> QED
    BY <2>1, <2>2
<1>15. CASE Ended \/ UNCHANGED vars
  BY <1>15 DEF Ended, vars
<1> QED
  BY <1>1, <1>2, <1>3, <1>4, <1>5, <1>6, <1>7, <1>8, <1>9, <1>10, <1>11, <1>12, <1>13, <1>14, <1>15 DEF Next

\* The latest milestone with an anchor exists when any has one, so that the recovery anchor is a page.
LEMMA AnchorTyped ==
  ASSUME AnchorTypes
  PROVE  Anchor \in Pages \cup {Nobody} /\ PriorHops \in Nat
<1>1. Anchored # {} => (CHOOSE c \in Anchored : \A d \in Anchored : d <= c) \in Criteria
  BY Greatest DEF Anchored, Criteria
<1>2. selectRecoveryAnchor \in Pages \cup {Nobody}
  BY <1>1 DEF selectRecoveryAnchor, AnchorTypes
<1>3. restore.page \in Pages \cup {Nobody} /\ restore.hops \in Nat
  BY DEF AnchorTypes
<1> QED
  BY <1>2, <1>3 DEF Anchor, PriorHops

\* Every step keeps the types of the anchors.
LEMMA AnchorsTyped ==
  ASSUME Typed, [Next]_vars
  PROVE  AnchorTypes'
<1> USE DEF Typed, AnchorTypes, anchorVars, Finish, NextStep, stepVars
<1>1. CASE Observe \/ StopAtLimit \/ AcceptConsent \/ PassLimits \/ BranchSucceeds \/ AssessBranch
  BY <1>1 DEF Observe, StopAtLimit, AcceptConsent, PassLimits, BranchSucceeds, AssessBranch
<1>2. CASE BackAtDecisionPoint \/ RestoreLate \/ RestoreFails \/ ReturnHop
  BY <1>2 DEF BackAtDecisionPoint, RestoreLate, RestoreFails, ReturnHop
<1>3. CASE ReactToBlocker \/ SkipBlocked \/ Ask \/ RetryLowConfidence \/ RedirectDismiss \/ Weigh \/ Retarget
  BY <1>3 DEF ReactToBlocker, SkipBlocked, Ask, RetryLowConfidence, RedirectDismiss, Weigh, Retarget
<1>4. CASE CloseBranch \/ CarryOn
  BY <1>4 DEF CloseBranch, CarryOn
<1>5. CASE RecoverAtAnchor
  <2>1. Anchor \in Pages /\ restore' = NoRestore /\ move' = "anchorRetry" /\ UNCHANGED <<anchors, replans, pendingAlt>>
    BY <1>5, AnchorTyped DEF RecoverAtAnchor, Retrying
  <2>2. /\ exhaustedAnchors' \in {exhaustedAnchors, exhaustedAnchors \cup {Anchor}}
        /\ restoreHops' \in {restoreHops, restoreHops + 1}
    BY <1>5 DEF RecoverAtAnchor
  <2> QED
    BY <2>1, <2>2 DEF NoRestore
<1>6. CASE AnchorHop
  <2>1. Anchor \in Pages /\ PriorHops \in Nat
    BY <1>6, AnchorTyped DEF AnchorHop, Hopping
  <2> QED
    BY <1>6, <2>1 DEF AnchorHop
<1>7. CASE PlainReplan
  <2>1. Known(Anchor) \subseteq Pages /\ Known(lastRoute) \subseteq Candidates
    BY AnchorTyped DEF Known, StepTypes
  <2>2. Forget(Anchor) \in [page : Pages \cup {Nobody}, hops : Nat]
    BY DEF Forget, NoRestore
  <2> QED
    BY <1>7, <2>1, <2>2 DEF PlainReplan
<1>8. CASE DispatchClick \/ DispatchForm \/ DispatchBack \/ DispatchOther
  <2>1. AfterDispatch
    BY <1>8 DEF DispatchClick, DispatchForm, DispatchBack, DispatchOther
  <2> QED
    BY <2>1 DEF AfterDispatch
<1>9. CASE Evaluate
  <2>1. anchors' \in [Criteria -> Pages \cup {Nobody}]
    BY <1>9 DEF Evaluate
  <2> QED
    BY <1>9, <2>1 DEF Evaluate
<1>10. CASE EndAfterFailedRetreat
  <2>1. move' = "none" /\ UNCHANGED <<anchors, restoreHops, replans, pendingAlt>>
    BY <1>10 DEF EndAfterFailedRetreat
  <2>2. \/ UNCHANGED <<exhaustedAnchors, restore>>
        \/ restore.page \in Pages /\ exhaustedAnchors' = exhaustedAnchors \cup {restore.page} /\ restore' = NoRestore
    BY <1>10 DEF EndAfterFailedRetreat
  <2> QED
    BY <2>1, <2>2 DEF NoRestore
<1>11. CASE ContinueAtAnchor \/ EndAfterSubmission \/ StopSuccess \/ RejectStopSuccess
  BY <1>11 DEF ContinueAtAnchor, EndAfterSubmission, StopSuccess, RejectStopSuccess
<1>12. CASE StopUnsuccessfully \/ Continue \/ ActionFailed
  BY <1>12 DEF StopUnsuccessfully, Continue, ActionFailed
<1>13. CASE Ended \/ UNCHANGED vars
  BY <1>13 DEF Ended, vars
<1> QED
  BY <1>1, <1>2, <1>3, <1>4, <1>5, <1>6, <1>7, <1>8, <1>9, <1>10, <1>11, <1>12, <1>13 DEF Next

Decisions == [kind : Kinds, cand : Candidates \cup {Nobody}, allowed : BOOLEAN]

\* What obtainDecision returns are decisions.
LEMMA DecisionTyped == obtainDecision \subseteq Decisions
<1>1. Refusal \in Decisions
  BY DEF Refusal, Decisions, Kinds, Stops
<1>2. RouteDecisions \subseteq Decisions
  BY DEF RouteDecisions, Decisions, Kinds, Routes
<1>3. \A k \in Kinds : Plain(k) \in Decisions
  BY DEF Plain, Decisions
<1>4. "stop_success" \in Kinds /\ AllowedActions \subseteq Kinds
  BY ActionsAreKnown DEF Kinds, Stops
<1> QED
  BY <1>1, <1>2, <1>3, <1>4 DEF obtainDecision, Proposals

\* What a decision comes to is a kind of action.
LEMMA EffectiveTyped ==
  ASSUME NEW d \in Decisions
  PROVE  Effective(d) \in Kinds
BY DEF Effective, Decisions, Kinds, Stops

\* A decision that is taken is a decision.
LEMMA DecideTyped ==
  ASSUME Decide
  PROVE  choice' \in Decisions /\ act' \in Kinds
BY DecisionTyped, EffectiveTyped DEF Decide

\* Every step keeps the types of what is decided and done.
LEMMA StepsTyped ==
  ASSUME Typed, [Next]_vars
  PROVE  StepTypes'
<1>b. StepTypes
  BY DEF Typed
<1>c. NoChoice \in Decisions /\ {"wait", "go_back"} \subseteq Kinds
  BY DEF NoChoice, Decisions, Kinds
<1> USE DEF stepVars, miscVars, decisionVars, Goto, StepTypes, Decisions
<1>1. ASSUME NextStep \/ (\E status : Finish(status)), UNCHANGED <<lastRoute, rejectedStop>> PROVE StepTypes'
  BY <1>b, <1>c, <1>1 DEF NextStep, Finish
<1>2. ASSUME pc \notin {"observe", "ended"}, UNCHANGED <<stepVars, lastRoute, rejectedStop>> PROVE StepTypes'
  BY <1>b, <1>2
<1>3. CASE Observe
  BY <1>3, <1>b DEF Observe
<1>4. CASE StopAtLimit \/ AcceptConsent \/ RestoreFails \/ SkipBlocked
  BY <1>4, <1>1 DEF StopAtLimit, AcceptConsent, RestoreFails, SkipBlocked
<1>5. CASE PassLimits \/ BranchSucceeds \/ AssessBranch \/ ReactToBlocker \/ CarryOn \/ Evaluate
  BY <1>5, <1>2 DEF PassLimits, BranchSucceeds, AssessBranch, ReactToBlocker, CarryOn, Evaluate
<1>6. CASE BackAtDecisionPoint \/ RestoreLate
  <2>1. branch.at \in Pages /\ UNCHANGED <<choice, act, retries, move, result, lastRoute, rejectedStop>>
    BY <1>6 DEF BackAtDecisionPoint, RestoreLate, NotBack, Typed, BranchTypes
  <2>2. recovered' = recovered \cup {branch.at} /\ (here' = here \/ here' \in Pages) /\ pc = "return"
    BY <1>6 DEF BackAtDecisionPoint, RestoreLate, NotBack, Restored
  <2> QED
    BY <1>b, <2>1, <2>2
<1>7. CASE ReturnHop
  BY <1>7, <1>1 DEF ReturnHop
<1>8. CASE Ask \/ RetryLowConfidence \/ Retarget
  BY <1>8, <1>b, DecideTyped DEF Ask, RetryLowConfidence, Retarget
<1>9. CASE RedirectDismiss
  <2>1. act' \in Kinds
    BY <1>9, <1>b, <1>c DEF RedirectDismiss
  <2> QED
    BY <1>9, <1>b, <2>1 DEF RedirectDismiss
<1>10. CASE Weigh
  <2>1. choice' \in Decisions /\ act' \in Kinds
    <3>1. CASE choice.cand \notin Barred
      BY <1>10, <1>b, <3>1 DEF Weigh
    <3>2. CASE choice.cand \in Barred
      <4>1. PICK d \in obtainDecision : /\ choice' = IF d.cand \in Barred THEN [d EXCEPT !.allowed = FALSE] ELSE d
                                        /\ act' = Effective(choice')
        BY <1>10, <3>2 DEF Weigh
      <4>2. choice' \in Decisions
        BY <4>1, DecisionTyped DEF Decisions
      <4> QED
        BY <4>1, <4>2, EffectiveTyped
    <3> QED
      BY <3>1, <3>2
  <2> QED
    BY <1>10, <1>b, <2>1 DEF Weigh
<1>11. CASE CloseBranch
  <2>1. branch.at \in Pages /\ pc = "close" /\ UNCHANGED <<here, retries, result, lastRoute, rejectedStop>>
    BY <1>11 DEF CloseBranch, Typed, BranchTypes
  <2>2. /\ recovered' \in {recovered, recovered \cup {branch.at}} /\ move' \in {move, "branchReturn"}
        /\ Decide \/ (choice' = choice /\ act' \in {act, "go_back"})
    BY <1>11 DEF CloseBranch, Restored
  <2> QED
    BY <1>b, <1>c, <2>1, <2>2, DecideTyped
<1>12. CASE RecoverAtAnchor
  <2>1. Anchor \in Pages /\ Decide
    BY <1>12, AnchorTyped DEF RecoverAtAnchor, Retrying, Typed
  <2> QED
    BY <1>12, <1>b, <2>1, DecideTyped DEF RecoverAtAnchor
<1>13. CASE AnchorHop \/ PlainReplan
  BY <1>13, <1>b, <1>c DEF AnchorHop, PlainReplan
<1>14. CASE DispatchClick \/ DispatchForm \/ DispatchBack \/ DispatchOther
  <2>1. pc = "dispatch" /\ AfterDispatch /\ result' \in {"ok", "stale", "failed"}
    BY <1>14 DEF DispatchClick, DispatchForm, DispatchBack, DispatchOther
  <2>2. /\ choice' = NoChoice /\ retries' = 0 /\ recovered' = {} /\ UNCHANGED <<here, act, move, rejectedStop>>
        /\ lastRoute' \in {lastRoute, choice.cand}
    BY <2>1 DEF AfterDispatch
  <2> QED
    BY <1>b, <1>c, <2>1, <2>2 DEF Decisions
<1>15. CASE ContinueAtAnchor \/ EndAfterFailedRetreat \/ EndAfterSubmission \/ StopSuccess
  BY <1>15, <1>1 DEF ContinueAtAnchor, EndAfterFailedRetreat, EndAfterSubmission, StopSuccess
<1>16. CASE StopUnsuccessfully \/ Continue \/ ActionFailed
  BY <1>16, <1>1 DEF StopUnsuccessfully, Continue, ActionFailed
<1>17. CASE RejectStopSuccess
  <2>1. rejectedStop' = [page |-> here, met |-> satisfied] /\ UNCHANGED lastRoute /\ (NextStep \/ Finish("failure"))
    BY <1>17 DEF RejectStopSuccess
  <2>2. satisfied \in SUBSET Criteria
    BY DEF Typed, Accounted
  <2>3. rejectedStop' \in [page : Pages \cup {Nobody}, met : SUBSET Criteria]
    BY <1>b, <2>1, <2>2
  <2> QED
    BY <1>b, <1>c, <2>1, <2>3 DEF NextStep, Finish
<1>18. CASE Ended \/ UNCHANGED vars
  BY <1>18, <1>b DEF Ended, vars
<1> QED
  BY <1>3, <1>4, <1>5, <1>6, <1>7, <1>8, <1>9, <1>10, <1>11, <1>12, <1>13, <1>14, <1>15, <1>16, <1>17, <1>18 DEF Next

\* All the types, in every reachable state.
LEMMA TypedInvariant == Spec => []Typed
<1>1. Typed /\ [Next]_vars => Typed'
  BY AccountedInductive, TalliesTyped, SurfacesTyped, BranchesTyped, AnchorsTyped, StepsTyped DEF Typed
<1> QED
  BY <1>1, InitTyped, PTL DEF Spec

\* Every variable keeps its type, whatever the site and the provider answer.
THEOREM TypeCorrect == Spec => []TypeOK
<1>1. Typed => TypeOK
  <2> SUFFICES ASSUME Typed PROVE TypeOK
    OBVIOUS
  <2>1. stack \in Seq(Surfaces) /\ stack # <<>> /\ viaDialog \subseteq Surfaces
    BY DEF Typed, SurfaceTypes, Nested
  <2> QED
    BY <2>1 DEF Typed, TypeOK, Accounted, Running, Acting, TallyTypes, SurfaceTypes, BranchTypes, Branches, AnchorTypes, StepTypes
<1> QED
  BY <1>1, TypedInvariant, PTL

\* Surfaces are nested: the main page stays at the bottom, only popups are entered from elsewhere.
THEOREM SurfacesAreNested == Spec => []SurfacesNested
<1>1. Typed => SurfacesNested
  BY DEF Typed, SurfaceTypes, Nested, SurfacesNested
<1> QED
  BY <1>1, TypedInvariant, PTL

-----------------------------------------------------------------------------
(* The budgets of branches, replanning and anchor recovery.                *)

\* The anchor ceiling is passed only by a retry that was refused again, and that refusal ends the run.
AnchorBudgets ==
  /\ replans <= MaxReplans /\ restore.hops <= PerAnchorHops /\ restoreHops <= MaxRestoreHops + 1
  /\ restoreHops > MaxRestoreHops =>
       pc = "ended" \/ (pc \in {"dispatch", "evaluate", "conclude"} /\ move = "anchorRetry" /\ act = "stop_blocked")

\* An open branch has not started its way back.
BranchBudgets ==
  /\ \A p \in Pages : branchAttempts[p] <= CandidateBudget /\ altAttempts[p] <= AlternativeBudget
  /\ IF branch.result = "open" THEN branch.hops = 0 ELSE branch.hops <= branch.budget

\* Every step keeps the budgets of anchors and replans.
LEMMA AnchorBudgetsInductive ==
  ASSUME Typed, AnchorBudgets, [Next]_vars
  PROVE  AnchorBudgets'
<1>a. replans \in Nat /\ restoreHops \in Nat /\ restore.hops \in Nat
  BY DEF Typed, AnchorTypes
<1> USE DEF AnchorBudgets, anchorVars, stepVars, Goto, Finish, NextStep
<1>1. CASE Observe \/ StopAtLimit \/ AcceptConsent \/ PassLimits \/ BranchSucceeds \/ AssessBranch
  <2>1. pc \in {"observe", "limits"} /\ UNCHANGED <<restore, restoreHops, replans>>
    BY <1>1 DEF Observe, StopAtLimit, AcceptConsent, PassLimits, BranchSucceeds, AssessBranch
  <2> QED
    BY <1>a, <2>1
<1>2. CASE BackAtDecisionPoint \/ RestoreLate \/ RestoreFails \/ ReturnHop
  <2>1. pc = "return" /\ UNCHANGED <<restore, restoreHops, replans>>
    BY <1>2 DEF BackAtDecisionPoint, RestoreLate, RestoreFails, ReturnHop, NotBack
  <2> QED
    BY <1>a, <2>1
<1>3. CASE ReactToBlocker \/ SkipBlocked \/ Ask \/ RetryLowConfidence \/ RedirectDismiss \/ Weigh \/ Retarget
  <2>1. pc \in {"blocker", "ask", "weigh", "guard", "barred", "close"} /\ UNCHANGED <<restore, restoreHops, replans>>
    BY <1>3 DEF ReactToBlocker, SkipBlocked, Ask, RetryLowConfidence, RedirectDismiss, Weigh, Retarget
  <2> QED
    BY <1>a, <2>1
<1>4. CASE CloseBranch \/ CarryOn
  <2>1. pc = "close" /\ UNCHANGED <<restore, restoreHops, replans>>
    BY <1>4 DEF CloseBranch, CarryOn
  <2> QED
    BY <1>a, <2>1
<1>5. CASE RecoverAtAnchor
  <2>1. /\ pc = "close" /\ pc' = "dispatch" /\ move' = "anchorRetry" /\ restore' = NoRestore /\ UNCHANGED replans
        /\ restoreHops' = restoreHops \/ (restoreHops' = restoreHops + 1 /\ act' = "stop_blocked")
    BY <1>5 DEF RecoverAtAnchor
  <2> QED
    BY <1>a, <2>1 DEF NoRestore
<1>6. CASE AnchorHop
  <2>1. /\ pc = "close" /\ PriorHops < PerAnchorHops /\ restoreHops < MaxRestoreHops /\ UNCHANGED replans
        /\ restore' = [page |-> Anchor, hops |-> PriorHops + 1] /\ restoreHops' = restoreHops + 1
    BY <1>6 DEF AnchorHop, Hopping
  <2>2. PriorHops \in Nat
    BY AnchorTyped DEF Typed
  <2> QED
    BY <1>a, <2>1, <2>2
<1>7. CASE PlainReplan
  <2>1. /\ pc = "close" /\ replans < MaxReplans /\ replans' = replans + 1 /\ UNCHANGED restoreHops
        /\ restore' \in {NoRestore, restore}
    BY <1>7 DEF PlainReplan, Eligible, Forget
  <2> QED
    BY <1>a, <2>1 DEF NoRestore
<1>8. CASE DispatchClick \/ DispatchForm \/ DispatchBack \/ DispatchOther
  <2>1. AfterDispatch
    BY <1>8 DEF DispatchClick, DispatchForm, DispatchBack, DispatchOther
  <2>2. pc' = "evaluate" /\ UNCHANGED <<restore, restoreHops, replans, move, act>>
    BY <2>1 DEF AfterDispatch
  <2>3. pc = "dispatch"
    BY <1>8 DEF DispatchClick, DispatchForm, DispatchBack, DispatchOther
  <2> QED
    BY <1>a, <2>2, <2>3
<1>9. CASE Evaluate
  <2>1. pc = "evaluate" /\ pc' = "conclude" /\ UNCHANGED <<restore, restoreHops, replans, move, act>>
    BY <1>9 DEF Evaluate
  <2> QED
    BY <1>a, <2>1
<1>10. CASE ContinueAtAnchor
  <2>1. restoreHops < MaxRestoreHops /\ UNCHANGED <<restore, restoreHops, replans>>
    BY <1>10 DEF ContinueAtAnchor, AskedAgain
  <2> QED
    BY <1>a, <2>1
<1>11. CASE EndAfterFailedRetreat
  <2>1. pc' = "ended" /\ UNCHANGED <<restoreHops, replans>> /\ restore' \in {restore, NoRestore}
    BY <1>11 DEF EndAfterFailedRetreat
  <2> QED
    BY <1>a, <2>1 DEF NoRestore
<1>12. CASE EndAfterSubmission \/ StopSuccess \/ StopUnsuccessfully
  <2>1. pc' = "ended" /\ UNCHANGED <<restore, restoreHops, replans>>
    BY <1>12 DEF EndAfterSubmission, StopSuccess, StopUnsuccessfully
  <2> QED
    BY <1>a, <2>1
<1>13. CASE RejectStopSuccess \/ Continue \/ ActionFailed
  <2>1. pc = "conclude" /\ act # "stop_blocked" /\ UNCHANGED <<restore, restoreHops, replans>>
    BY <1>13 DEF RejectStopSuccess, Continue, ActionFailed, Stops
  <2> QED
    BY <1>a, <2>1
<1>14. CASE Ended \/ UNCHANGED vars
  BY <1>14 DEF Ended, vars
<1> QED
  BY <1>1, <1>2, <1>3, <1>4, <1>5, <1>6, <1>7, <1>8, <1>9, <1>10, <1>11, <1>12, <1>13, <1>14 DEF Next

\* A branch that may be entered is within its budgets.
LEMMA EnteredBudgets ==
  ASSUME Typed, BranchBudgets, MayEnterBranch, EnterBranch
  PROVE  BranchBudgets'
<1>1. \A p \in Pages : branchAttempts[p] \in Nat /\ altAttempts[p] \in Nat
  BY DEF Typed, BranchTypes
<1>2. branch'.result = "open" /\ branch'.hops = 0
  BY DEF EnterBranch, NoBranch
<1>3. \A p \in Pages : branchAttempts'[p] <= CandidateBudget /\ altAttempts'[p] <= AlternativeBudget
  <2>1. CASE ForAmbiguity
    BY <1>1, <2>1 DEF EnterBranch, ForAmbiguity, BranchBudgets, Typed, BranchTypes
  <2>2. CASE ~ForAmbiguity
    BY <1>1, <2>2 DEF MayEnterBranch, EnterBranch, ForMilestone, BranchBudgets, Typed, BranchTypes
  <2> QED
    BY <2>1, <2>2
<1> QED
  BY <1>2, <1>3 DEF BranchBudgets

\* Every step keeps the budgets of branches.
LEMMA BranchBudgetsInductive ==
  ASSUME Typed, BranchBudgets, [Next]_vars
  PROVE  BranchBudgets'
<1>a. branch \in Branches /\ branch.hops \in Nat /\ branch.depth \in Nat /\ branch.budget \in Nat
  BY DEF Typed, BranchTypes, Branches
<1>b. NoBranch.result # "open" /\ NoBranch.hops = 0 /\ NoBranch.budget = 0
  BY DEF NoBranch
<1> USE DEF BranchBudgets, branchVars, budgetVars
<1>1. CASE Observe \/ StopAtLimit \/ AcceptConsent \/ PassLimits
  BY <1>1 DEF Observe, StopAtLimit, AcceptConsent, PassLimits
<1>2. CASE BranchSucceeds \/ BackAtDecisionPoint \/ RestoreLate \/ RestoreFails
  <2>1. branch' = NoBranch /\ UNCHANGED <<branchAttempts, altAttempts>>
    BY <1>2 DEF BranchSucceeds, BackAtDecisionPoint, RestoreLate, RestoreFails, Restored
  <2> QED
    BY <1>b, <2>1
<1>3. CASE AssessBranch
  <2>1. PICK verdict, seen, gained, idle :
          branch' = [branch EXCEPT !.result = verdict, !.gained = gained, !.idle = idle, !.seen = seen,
                       !.budget = IF verdict = "open" THEN branch.budget ELSE branch.depth + 1]
    BY <1>3 DEF AssessBranch
  <2>2. branch'.result = verdict /\ branch'.hops = branch.hops /\ (verdict # "open" => branch'.budget = branch.depth + 1)
    BY <1>a, <2>1 DEF Branches
  <2>3. branch.result = "open" /\ UNCHANGED <<branchAttempts, altAttempts>>
    BY <1>3 DEF AssessBranch
  <2> QED
    BY <1>a, <2>2, <2>3
<1>4. CASE ReturnHop
  <2>1. UNCHANGED <<branchAttempts, altAttempts>> /\ branch.hops < branch.budget /\ branch.result # "open"
    BY <1>4, <1>a DEF ReturnHop, CannotHop, NotBack, Typed, BranchTypes
  <2>2. branch' = NoBranch \/ branch' = [branch EXCEPT !.hops = @ + 1]
    BY <1>4 DEF ReturnHop
  <2>3. ASSUME branch' = [branch EXCEPT !.hops = @ + 1]
        PROVE  branch'.result = branch.result /\ branch'.hops = branch.hops + 1 /\ branch'.budget = branch.budget
    BY <1>a, <2>3 DEF Branches
  <2> QED
    BY <1>a, <1>b, <2>1, <2>2, <2>3
<1>5. CASE ReactToBlocker \/ SkipBlocked \/ Ask \/ RetryLowConfidence \/ RedirectDismiss \/ Weigh \/ Retarget
  BY <1>5 DEF ReactToBlocker, SkipBlocked, Ask, RetryLowConfidence, RedirectDismiss, Weigh, Retarget
<1>6. CASE CloseBranch
  <2>1. branch.result = "open" /\ UNCHANGED <<branchAttempts, altAttempts>>
    BY <1>6 DEF CloseBranch
  <2>2. branch' = NoBranch \/ branch' = [branch EXCEPT !.result = "exhausted", !.budget = branch.depth + 1, !.hops = @ + 1]
    BY <1>6 DEF CloseBranch, Restored
  <2>3. ASSUME branch' = [branch EXCEPT !.result = "exhausted", !.budget = branch.depth + 1, !.hops = @ + 1]
        PROVE  branch'.result = "exhausted" /\ branch'.hops = branch.hops + 1 /\ branch'.budget = branch.depth + 1
    BY <1>a, <2>3 DEF Branches
  <2> QED
    BY <1>a, <1>b, <2>1, <2>2, <2>3
<1>7. CASE CarryOn \/ RecoverAtAnchor \/ AnchorHop \/ PlainReplan
  BY <1>7 DEF CarryOn, RecoverAtAnchor, AnchorHop, PlainReplan
<1>8. CASE DispatchClick \/ DispatchForm \/ DispatchBack \/ DispatchOther
  <2>1. AfterDispatch
    BY <1>8 DEF DispatchClick, DispatchForm, DispatchBack, DispatchOther
  <2>2. TrackBranch
    BY <2>1 DEF AfterDispatch
  <2>3. CASE MayEnterBranch /\ EnterBranch
    BY <2>3, EnteredBudgets
  <2>4. CASE branch' = branch /\ UNCHANGED <<branchAttempts, altAttempts>>
    BY <2>4
  <2>5. CASE branch.result = "open" /\ branch' = [branch EXCEPT !.depth = @ + 1] /\ UNCHANGED <<branchAttempts, altAttempts>>
    <3>1. branch'.result = "open" /\ branch'.hops = branch.hops
      BY <1>a, <2>5 DEF Branches
    <3> QED
      BY <2>5, <3>1
  <2> QED
    BY <2>2, <2>3, <2>4, <2>5 DEF TrackBranch
<1>9. CASE Evaluate \/ ContinueAtAnchor \/ EndAfterFailedRetreat \/ EndAfterSubmission \/ StopSuccess
  BY <1>9 DEF Evaluate, ContinueAtAnchor, EndAfterFailedRetreat, EndAfterSubmission, StopSuccess
<1>10. CASE RejectStopSuccess \/ StopUnsuccessfully \/ Continue
  BY <1>10 DEF RejectStopSuccess, StopUnsuccessfully, Continue
<1>11. CASE ActionFailed
  <2>1. UNCHANGED <<branchAttempts, altAttempts>>
    BY <1>11 DEF ActionFailed
  <2>2. \/ branch' = branch
        \/ branch.result = "open" /\ branch' = [branch EXCEPT !.result = "exhausted", !.budget = branch.depth + 1]
    BY <1>11 DEF ActionFailed
  <2>3. ASSUME branch' = [branch EXCEPT !.result = "exhausted", !.budget = branch.depth + 1]
        PROVE  branch'.result = "exhausted" /\ branch'.hops = branch.hops /\ branch'.budget = branch.depth + 1
    BY <1>a, <2>3 DEF Branches
  <2> QED
    BY <1>a, <2>1, <2>2, <2>3
<1>12. CASE Ended \/ UNCHANGED vars
  BY <1>12 DEF Ended, vars
<1> QED
  BY <1>1, <1>2, <1>3, <1>4, <1>5, <1>6, <1>7, <1>8, <1>9, <1>10, <1>11, <1>12 DEF Next

\* No counter that bounds the run passes its limit.
THEOREM BudgetsAreRespected == Spec => []BudgetsRespected
<1>1. Init => AnchorBudgets /\ BranchBudgets
  BY DEF Init, AnchorBudgets, BranchBudgets, NoRestore, NoBranch
<1>2. Typed /\ AnchorBudgets /\ BranchBudgets => BudgetsRespected
  BY DEF Typed, Accounted, AnchorBudgets, BranchBudgets, BudgetsRespected
<1> QED
  BY <1>1, <1>2, AnchorBudgetsInductive, BranchBudgetsInductive, TypedInvariant, PTL DEF Spec
=============================================================================
