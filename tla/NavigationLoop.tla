--------------------------- MODULE NavigationLoop ---------------------------
(***************************************************************************)
(* One run of the navigation loop: engine.ts calls runStep (core/loop.ts)  *)
(* until it returns a terminal status, over the RunState of core/state.ts. *)
(*                                                                         *)
(* A step is sequential; pc names the part of runStep about to execute:    *)
(*   observe -> limits -> return -> blocker -> ask -> weigh -> guard ->    *)
(*   barred -> close -> dispatch -> evaluate -> conclude -> observe        *)
(* The site and the reasoning provider are the environment: whatever they  *)
(* answer is chosen at the await that receives it.  A page is the decision *)
(* point fingerprint the code computes from an observation; two pages may  *)
(* share a URL.  A criterion is a required success criterion or one group  *)
(* of them.  Captures, diagnostics and step logs are left out.             *)
(***************************************************************************)
EXTENDS Integers, Sequences, FiniteSets

CONSTANTS
  Pages,            \* decision-point fingerprints
  Candidates,       \* click and navigate identities (computeCandidateIdentity)
  FormControls,     \* candidates that are submit controls or lie inside a form
  Obstructions,     \* signatures of elements that intercept clicks
  NumCriteria,      \* required milestones, in task order
  AllowedActions,   \* task.safety.allowedActions
  MaxSteps, MaxBacktracks,         \* task.limits
  AlternativeBudget,               \* maxAlternativeCandidatesPerDecisionPoint
  MaxStaleRetries,                 \* MAX_STALE_TARGET_RECOVERY_ATTEMPTS
  MaxReplans,                      \* MAX_JOURNEY_REPLANNING_ATTEMPTS
  MaxRestoreHops, PerAnchorHops,   \* MAX_ANCHOR_RESTORE_HOPS_TOTAL, PER_ANCHOR_HOP_LIMIT
  MaxConsentRetries,               \* MAX_CONSENT_RETRIES, 0 unless the policy is accept_optional
  CandidateBudget, MaxBranchDepth, \* MAX_CANDIDATE_BUDGET_PER_DECISION_POINT, DEFAULT_MAX_BRANCH_DEPTH
  Ambiguous,        \* pages where no candidate clearly fits the objective
  TimeLimited,      \* maxDurationSeconds or the memory breaker may end the run
  MaxSurfaces       \* bound: dialogs and popups entered during the run

ASSUME ParametersAreNaturals ==
  /\ {NumCriteria, MaxSteps, MaxBacktracks, AlternativeBudget, MaxStaleRetries, MaxReplans, MaxRestoreHops,
      PerAnchorHops, MaxConsentRetries, CandidateBudget, MaxBranchDepth, MaxSurfaces} \subseteq Nat
  /\ FormControls \subseteq Candidates /\ Ambiguous \subseteq Pages /\ TimeLimited \in BOOLEAN

Nobody == "none"   \* no page, candidate or obstruction
ASSUME NobodyIsNoValue == Nobody \notin Pages \cup Candidates \cup Obstructions

VARIABLES
  pc, outcome,               \* where runStep is; the terminal status, "none" while running
  steps, backtracks,         \* stepCount, backtrackCount
  satisfied, submission,     \* satisfiedCriteriaIds; verifiedFormSubmission is set
  roamed,                    \* distinctVisitedUrls.size > 1
  stack, surfaces, adopted, viaDialog, suppress,  \* surfaceStack, surfaceGeneration, kinds, suppressInDocumentEntryOnce
  redirected,                \* surfaceCloseGuardRedirected
  memory,                    \* routeMemory of each surface: what is known of a candidate at a page
  branch, branchAttempts, altAttempts, reconstructed,
  anchors, restore, exhaustedAnchors, restoreHops, replans, \* recoveryAnchors, activeAnchorRestore, ...
  pendingAlt, lastRoute,     \* pendingAlternativeExploration, lastDispatchedRouteCandidate
  stale, blocker,            \* consecutiveStaleTargetFailures; lastBlocker*, per surface
  consents, rejectedStop, last, \* consentRetriesUsed, lastRejectedStopSuccessFingerprint, last recorded action
  here, choice, act, retries, move, recovered, result, \* the step's own: observation, decision, effectiveAction, ...
  deadEnds                   \* history: routes followed by a branch to a dead end, with the surface of the decision

limitVars == <<steps, backtracks, last>>
goalVars == <<satisfied, submission>>
surfaceVars == <<stack, surfaces, adopted, viaDialog, suppress>>
branchVars == <<memory, branch, deadEnds>>
budgetVars == <<branchAttempts, altAttempts, reconstructed>>
anchorVars == <<anchors, restore, exhaustedAnchors, restoreHops, replans, pendingAlt>>
blockerVars == <<stale, blocker>>
miscVars == <<roamed, redirected, lastRoute, consents, rejectedStop>>
decisionVars == <<choice, act>>
stepVars == <<here, choice, act, retries, move, recovered, result>>
vars == <<pc, outcome, limitVars, goalVars, surfaceVars, branchVars, budgetVars, anchorVars, blockerVars, miscVars, stepVars>>

Criteria == 1..NumCriteria
Missing == Criteria \ satisfied      \* getMissingRequiredCriteriaIds
Main == 0                            \* MAIN_SURFACE_ID
Surfaces == 0..MaxSurfaces
Top(s) == s[Len(s)]
Active == Top(stack)                 \* activeSurface
Stops == {"stop_success", "stop_blocked", "stop_failure"}
Routes == {"click", "navigate"}
Kinds == Stops \cup Routes \cup {"fill_form", "go_back", "wait"}
ASSUME ActionsAreKnown == AllowedActions \subseteq Kinds

\* What route memory knows of a candidate: a branch result once it has one ("exhausted" stands
\* for dead_end, blocked and unsafe, "productive" for the others).
Knowledge == {"untried", "tried", "productive", "exhausted"}
Closed == {"productive", "exhausted"}

Min3(a, b, c) == CHOOSE m \in {a, b, c} : m <= a /\ m <= b /\ m <= c

NoBranch == [result |-> "absent", on |-> Main, at |-> Nobody, via |-> Nobody, target |-> 0, depth |-> 0, maxDepth |-> 0,
             seen |-> {}, entry |-> {}, gained |-> {}, idle |-> 0, hops |-> 0, budget |-> 0]
NoRestore == [page |-> Nobody, hops |-> 0]
NoBlocker == [sig |-> Nobody, repeat |-> 0]
NoChoice == [kind |-> "wait", cand |-> Nobody, allowed |-> FALSE]
NoStop == [page |-> Nobody, met |-> {}]

Init ==
  /\ pc = "observe" /\ outcome = "none"
  /\ steps = 0 /\ backtracks = 0 /\ last = [changed |-> FALSE, progressed |-> TRUE]
  /\ satisfied = {} /\ submission = FALSE
  /\ stack = <<Main>> /\ surfaces = 0 /\ adopted = {} /\ viaDialog = {} /\ suppress = FALSE
  /\ memory = [k \in Surfaces \X Pages \X Candidates |-> "untried"] /\ branch = NoBranch /\ deadEnds = {}
  /\ branchAttempts = [p \in Pages |-> 0] /\ altAttempts = [p \in Pages |-> 0] /\ reconstructed = {}
  /\ anchors = [c \in Criteria |-> Nobody] /\ restore = NoRestore /\ exhaustedAnchors = {}
  /\ restoreHops = 0 /\ replans = 0 /\ pendingAlt = {}
  /\ stale = 0 /\ blocker = [s \in Surfaces |-> NoBlocker]
  /\ roamed = FALSE /\ redirected = {} /\ lastRoute = Nobody /\ consents = 0 /\ rejectedStop = NoStop
  /\ here = Nobody /\ choice = NoChoice /\ act = "wait" /\ retries = 0 /\ move = "none"
  /\ recovered = {} /\ result = "ok"

-----------------------------------------------------------------------------
(* Operations of RunState.                                                 *)

\* Mutant of recordAction: a wait is not counted as a step.
recordActionSkippingWaits(kind, changed) ==
  /\ steps' = steps + (IF kind = "wait" THEN 0 ELSE 1)
  /\ backtracks' = backtracks + (IF kind = "go_back" THEN 1 ELSE 0)
  /\ last' = [changed |-> changed, progressed |-> TRUE]
recordAction(kind, changed) ==
  /\ steps' = steps + 1
  /\ backtracks' = backtracks + (IF kind = "go_back" THEN 1 ELSE 0)
  /\ last' = [changed |-> changed, progressed |-> TRUE]

\* Route memory after recordBranchResult: that of the surface active by now, which need not be the one the branch was
\* entered on, and a no-op for a candidate never recorded there.
recordBranchResult(p, c, r) ==
  LET k == <<Active, p, c>>
  IN IF memory[k] = "untried" THEN memory ELSE [memory EXCEPT ![k] = r]
\* The open branch ends with r: its candidate gets the result; archiving forgets its checkpoint as well.
NoteDeadEnd(r) ==
  deadEnds' = IF r = "exhausted" THEN deadEnds \cup {<<branch.on, branch.at, branch.via>>} ELSE deadEnds

getExhaustedCandidates == {c \in Candidates : memory[<<Active, here, c>>] = "exhausted"}

\* What a go_back does to the surfaces: off the main page it returns to the parent surface instead.
LeaveSurface ==
  IF Active = Main
  THEN UNCHANGED surfaceVars
  ELSE /\ stack' = SubSeq(stack, 1, Len(stack) - 1)
       /\ suppress' = (Active \notin adopted)
       /\ UNCHANGED <<surfaces, adopted, viaDialog>>

\* runStep returns: with no terminal status, or with one.
NextStep ==
  /\ pc' = "observe" /\ outcome' = outcome
  /\ here' = Nobody /\ choice' = NoChoice /\ act' = "wait" /\ retries' = 0 /\ move' = "none"
  /\ recovered' = {} /\ result' = "ok"
Finish(status) ==
  /\ pc' = "ended" /\ outcome' = status
  /\ here' = Nobody /\ choice' = NoChoice /\ act' = "wait" /\ retries' = 0 /\ move' = "none"
  /\ recovered' = {} /\ result' = "ok"
Goto(label) == pc' = label /\ outcome' = outcome

\* On to the obstruction met last on this surface, if there is one, else to the decision.
Obstructed == blocker[Active].sig # Nobody
Proceed == IF Obstructed THEN "blocker" ELSE "ask"

-----------------------------------------------------------------------------
(* Observation, limits, consent.                                           *)

\* Mutant of SyncSurface: a panel is entered from any surface.
SyncSurfaceAnywhere(open, dialog) ==
  LET enters == ~suppress /\ (dialog \/ last.changed)
  IN /\ enters => surfaces < MaxSurfaces
     /\ stack' = IF enters THEN Append(open, surfaces + 1) ELSE open
     /\ surfaces' = surfaces + (IF enters THEN 1 ELSE 0)
     /\ viaDialog' = IF enters /\ dialog THEN viaDialog \cup {surfaces + 1} ELSE viaDialog
     /\ suppress' = FALSE /\ UNCHANGED adopted
\* Enter a dialog or panel over the main page, or leave one that was seen to close.
SyncSurface(open, dialog) ==
  LET enters == ~suppress /\ Top(open) = Main /\ (dialog \/ last.changed)
      leaves == ~enters /\ Top(open) \in viaDialog /\ ~dialog
  IN /\ enters => surfaces < MaxSurfaces
     /\ stack' = IF enters THEN Append(open, surfaces + 1)
                 ELSE IF leaves THEN SubSeq(open, 1, Len(open) - 1) ELSE open
     /\ surfaces' = surfaces + (IF enters THEN 1 ELSE 0)
     /\ viaDialog' = IF enters /\ dialog THEN viaDialog \cup {surfaces + 1} ELSE viaDialog
     /\ suppress' = FALSE /\ UNCHANGED adopted

\* The top of the stack may be adopted pages the site has closed; they are popped first.
Observe ==
  /\ pc = "observe"
  /\ \E gone \in 0..(Len(stack) - 1), dialog \in BOOLEAN :
       /\ \A i \in (Len(stack) - gone + 1)..Len(stack) : stack[i] \in adopted
       /\ SyncSurface(SubSeq(stack, 1, Len(stack) - gone), dialog)
  /\ here' \in Pages
  /\ \E progressed \in (IF branch.result = "open" THEN BOOLEAN ELSE {TRUE}) : \* read inside a branch only
       last' = [last EXCEPT !.progressed = progressed]
  /\ \E elsewhere \in BOOLEAN : roamed' = (roamed \/ (elsewhere /\ steps > 0))
  /\ \E met \in SUBSET Missing : satisfied' = satisfied \cup met
  /\ Goto("limits")
  /\ UNCHANGED <<steps, backtracks, submission, branchVars, budgetVars, anchorVars, blockerVars,
                 redirected, lastRoute, consents, rejectedStop, choice, act, retries, move, recovered, result>>

checkLimits == steps >= MaxSteps \/ backtracks > MaxBacktracks

StopAtLimit ==
  /\ pc = "limits" /\ (checkLimits \/ TimeLimited)
  /\ recordAction("stop_failure", FALSE)
  /\ Finish("limit")
  /\ UNCHANGED <<goalVars, surfaceVars, branchVars, budgetVars, anchorVars, blockerVars, miscVars>>

\* Whether a click can open a panel (surfaceChangeType); bound: only while a surface is left.
SurfaceChanges == IF surfaces' < MaxSurfaces THEN BOOLEAN ELSE {FALSE}

AcceptConsent ==
  /\ pc = "limits" /\ ~checkLimits /\ consents < MaxConsentRetries
  /\ consents' = consents + 1
  /\ UNCHANGED surfaceVars
  /\ \E changed \in SurfaceChanges : recordAction("click", changed)
  /\ NextStep
  /\ UNCHANGED <<goalVars, branchVars, budgetVars, anchorVars, blockerVars,
                 roamed, redirected, lastRoute, rejectedStop>>

PassLimits ==
  /\ pc = "limits" /\ ~checkLimits /\ branch.result # "open"
  /\ Goto(IF branch.result = "absent" THEN Proceed ELSE "return")
  /\ UNCHANGED <<limitVars, goalVars, surfaceVars, branchVars, budgetVars, anchorVars, blockerVars, miscVars, stepVars>>

-----------------------------------------------------------------------------
(* The open branch: assessment, and the way back once it is closed.        *)

BranchSucceeds ==
  /\ pc = "limits" /\ ~checkLimits /\ branch.result = "open" /\ Missing = {}
  /\ memory' = recordBranchResult(branch.at, branch.via, "productive")
  /\ branch' = NoBranch
  /\ Goto(Proceed)
  /\ UNCHANGED <<deadEnds, limitVars, goalVars, surfaceVars, budgetVars, anchorVars, blockerVars, miscVars, stepVars>>

assessBranchProgress(revisit, idle, gained) ==
  IF revisit \/ idle >= 2 THEN "exhausted"
  ELSE IF branch.depth < branch.maxDepth THEN "open"
  ELSE IF gained # {} THEN "productive" ELSE "exhausted"

AssessBranch ==
  /\ pc = "limits" /\ ~checkLimits /\ branch.result = "open" /\ Missing # {}
  /\ LET revisit == last.progressed /\ here \in branch.seen
         idle == IF last.progressed THEN 0 ELSE branch.idle + 1
         gained == satisfied \ branch.entry
         verdict == assessBranchProgress(revisit, idle, gained)
     IN /\ branch' = [branch EXCEPT !.result = verdict, !.gained = gained, !.idle = idle,
                        !.seen = IF last.progressed THEN @ \cup {here} ELSE @,
                        !.budget = IF verdict = "open" THEN @ ELSE branch.depth + 1]
        /\ memory' = IF verdict = "open" THEN memory ELSE recordBranchResult(branch.at, branch.via, verdict)
        /\ NoteDeadEnd(verdict)
        /\ Goto(IF verdict = "open" THEN Proceed ELSE "return")
  /\ UNCHANGED <<limitVars, goalVars, surfaceVars, budgetVars, anchorVars, blockerVars, miscVars, stepVars>>

\* The run is back at the branch's decision point: archiveActiveBranch, markAnchorRecovered.
Restored == branch' = NoBranch /\ recovered' = recovered \cup {branch.at}

\* hasBranchAchievedTargetMilestone: the branch was entered for a milestone, and reached it.
GoalReached == branch.target \in branch.gained

\* The branch reached its goal, or the page matches its decision point: by fingerprint, or by its meaning,
\* which may happen on any page.
BackAtDecisionPoint ==
  /\ pc = "return"
  /\ Restored
  /\ Goto(Proceed)
  /\ UNCHANGED <<memory, deadEnds, limitVars, goalVars, surfaceVars, budgetVars, anchorVars, blockerVars, miscVars,
                 here, choice, act, retries, move, result>>

CannotHop ==
  \/ branch.hops >= branch.budget
  \/ "go_back" \notin AllowedActions
  \/ backtracks >= MaxBacktracks
  \/ steps + 1 >= MaxSteps
NotBack == pc = "return" /\ ~GoalReached /\ here # branch.at

\* reobserveForBranchReturn, then attemptCheckpointReconstruction, once per decision point.
Reconstruct(rebuilt) ==
  /\ rebuilt => branch.at \notin reconstructed
  /\ reconstructed' = reconstructed \cup (IF rebuilt THEN {branch.at} ELSE {})
ReconstructInVain == reconstructed' = reconstructed \cup {branch.at}

RestoreLate ==
  /\ NotBack /\ CannotHop
  /\ \E rebuilt \in BOOLEAN : Reconstruct(rebuilt)
  /\ here' \in Pages
  /\ Restored
  /\ Goto(Proceed)
  /\ UNCHANGED <<memory, deadEnds, branchAttempts, altAttempts, limitVars, goalVars, surfaceVars, anchorVars,
                 blockerVars, miscVars, choice, act, retries, move, result>>

\* Mutant of RestoreFails: the run goes on from where it is.
RestoreFailsContinuing ==
  /\ NotBack /\ CannotHop
  /\ ReconstructInVain
  /\ Goto(Proceed)
  /\ UNCHANGED <<branchVars, branchAttempts, altAttempts, limitVars, goalVars, surfaceVars, anchorVars,
                 blockerVars, miscVars, stepVars>>
RestoreFails ==
  /\ NotBack /\ CannotHop
  /\ ReconstructInVain
  /\ branch' = NoBranch
  /\ recordAction("stop_blocked", FALSE)
  /\ Finish("blocked")
  /\ UNCHANGED <<memory, deadEnds, branchAttempts, altAttempts, goalVars, surfaceVars, anchorVars, blockerVars, miscVars>>

\* One go_back towards the decision point.  When it fails, the run must find itself back there anyway.
ReturnHop ==
  /\ NotBack /\ ~CannotHop
  /\ LeaveSurface
  /\ recordAction("go_back", FALSE)
  /\ \/ /\ branch' = [branch EXCEPT !.hops = @ + 1]
        /\ NextStep
        /\ UNCHANGED reconstructed
     \/ /\ branch' = NoBranch
        /\ \E rebuilt \in BOOLEAN : Reconstruct(rebuilt)
        /\ NextStep
     \/ /\ branch' = NoBranch
        /\ ReconstructInVain
        /\ Finish("blocked")
  /\ UNCHANGED <<memory, deadEnds, branchAttempts, altAttempts, goalVars, anchorVars, blockerVars, miscVars>>

-----------------------------------------------------------------------------
(* A persistent obstruction.                                               *)

\* The obstruction is gone, or this is the first time that it is met again.
ReactToBlocker ==
  /\ pc = "blocker" /\ Obstructed
  /\ blocker' = [blocker EXCEPT ![Active] = NoBlocker] \/ (blocker[Active].repeat = 0 /\ blocker' = [blocker EXCEPT ![Active].repeat = 1])
  /\ Goto("ask")
  /\ UNCHANGED <<stale, limitVars, goalVars, surfaceVars, branchVars, budgetVars, anchorVars, miscVars, stepVars>>

\* It is still there: a step without a decision.
SkipBlocked ==
  /\ pc = "blocker" /\ Obstructed /\ blocker[Active].repeat >= 1
  /\ stale' = stale + 1
  /\ recordAction("click", FALSE)
  /\ IF stale' > MaxStaleRetries THEN Finish("failure") ELSE NextStep
  /\ UNCHANGED <<blocker, goalVars, surfaceVars, branchVars, budgetVars, anchorVars, miscVars>>

-----------------------------------------------------------------------------
(* The decision: obtainDecision, and the checks that may ask again.        *)

\* A refusal is a stop_blocked decision, or a rejected decision that names no route.
Refusal == [kind |-> "stop_blocked", cand |-> Nobody, allowed |-> FALSE]
Plain(kind) == [kind |-> kind, cand |-> Nobody, allowed |-> TRUE]
\* A click on an element that is no longer observed has no identity; its target then counts as inside a form.
RouteDecisions ==
  [kind : Routes \cap AllowedActions, cand : Candidates, allowed : {TRUE}]
    \cup [kind : {"click"}, cand : Candidates, allowed : {FALSE}]   \* the kind of a rejected one is never read
Proposals == {Refusal} \cup RouteDecisions \cup {Plain(k) : k \in AllowedActions \ {"stop_blocked", "navigate"}}
Resubmits(d) == d.kind = "fill_form" \/ (d.kind = "click" /\ d.cand \in FormControls \cup {Nobody})

\* Mutant of obtainDecision: after a submission, form interaction is not refused.
obtainDecisionResubmitting == IF submission /\ Missing = {} THEN {Plain("stop_success")} ELSE Proposals
obtainDecision ==
  IF submission /\ Missing = {}
  THEN {Plain("stop_success")}
  ELSE {d \in Proposals : submission => ~(d.allowed /\ Resubmits(d))}

Effective(d) == IF d.allowed THEN d.kind ELSE "stop_blocked"
Decide == choice' \in obtainDecision /\ act' = Effective(choice')

Ask ==
  /\ pc = "ask"
  /\ Decide
  /\ Goto("weigh")
  /\ UNCHANGED <<limitVars, goalVars, surfaceVars, branchVars, budgetVars, anchorVars, blockerVars, miscVars,
                 here, retries, move, recovered, result>>

\* A low-confidence refusal right after a surface opened: observe and ask once more.
RetryLowConfidence ==
  /\ pc = "weigh" /\ choice = Refusal /\ last.changed
  /\ here' \in Pages
  /\ Decide
  /\ Goto("guard")
  /\ UNCHANGED <<limitVars, goalVars, surfaceVars, branchVars, budgetVars, anchorVars, blockerVars, miscVars,
                 retries, move, recovered, result>>

\* A click that would close a panel this run opened and has not inspected becomes a wait, once per panel.
RedirectDismiss ==
  /\ pc \in {"weigh", "guard"} /\ act = "click" /\ Active # Main /\ Active \notin adopted \cup redirected
  /\ redirected' = redirected \cup {Active}
  /\ act' = IF "wait" \in AllowedActions THEN "wait" ELSE act
  /\ Goto("barred")
  /\ UNCHANGED <<limitVars, goalVars, surfaceVars, branchVars, budgetVars, anchorVars, blockerVars,
                 roamed, lastRoute, consents, rejectedStop, here, choice, retries, move, recovered, result>>

\* Routes that must not be proposed here again; the pending ones are forgotten with this decision.
Barred == pendingAlt \cup getExhaustedCandidates

Weigh ==
  /\ pc \in {"weigh", "guard", "barred"}
  /\ IF choice.cand \notin Barred
     THEN UNCHANGED decisionVars
     ELSE \E d \in obtainDecision :
            /\ choice' = IF d.cand \in Barred THEN [d EXCEPT !.allowed = FALSE] ELSE d
            /\ act' = Effective(choice')
  /\ pendingAlt' = {}
  /\ Goto("close")
  /\ UNCHANGED <<limitVars, goalVars, surfaceVars, branchVars, budgetVars, anchors, restore, exhaustedAnchors, restoreHops,
                 replans, blockerVars, miscVars, here, retries, move, recovered, result>>

\* Before all else the click target must be actionable; if it is not: observe again and ask again.
Retarget ==
  /\ pc = "close" /\ act = "click" /\ retries < MaxStaleRetries
  /\ retries' = retries + 1
  /\ here' \in Pages
  /\ Decide
  /\ UNCHANGED <<pc, outcome, limitVars, goalVars, surfaceVars, branchVars, budgetVars, anchorVars, blockerVars, miscVars,
                 move, recovered, result>>

-----------------------------------------------------------------------------
(* stop_blocked inside an open branch closes it; elsewhere the run retreats. *)

CloseBranch ==
  /\ pc = "close" /\ branch.result = "open" /\ act = "stop_blocked"
  /\ memory' = recordBranchResult(branch.at, branch.via, "exhausted")
  /\ NoteDeadEnd("exhausted")
  /\ \/ /\ here = branch.at
        /\ Restored
        /\ Decide
        /\ UNCHANGED move
     \/ /\ here # branch.at /\ ~submission /\ "go_back" \in AllowedActions
        /\ branch' = [branch EXCEPT !.result = "exhausted", !.budget = branch.depth + 1, !.hops = @ + 1]
        /\ act' = "go_back" /\ move' = "branchReturn"
        /\ UNCHANGED <<choice, recovered>>
     \/ /\ here # branch.at /\ (submission \/ "go_back" \notin AllowedActions)
        /\ branch' = NoBranch
        /\ UNCHANGED <<choice, act, move, recovered>>
  /\ Goto("dispatch")
  /\ UNCHANGED <<limitVars, goalVars, surfaceVars, budgetVars, anchorVars, blockerVars, miscVars, here, retries, result>>

\* journeyReplanningEligible.  No page of the model is about:blank, on which the code never replans.
Eligible ==
  /\ ~submission /\ branch.result # "open"
  /\ act = "stop_blocked" /\ replans < MaxReplans /\ "go_back" \in AllowedActions /\ roamed
  /\ backtracks < MaxBacktracks /\ steps + 1 < MaxSteps

CarryOn ==
  /\ pc = "close" /\ ~(branch.result = "open" /\ act = "stop_blocked") /\ ~Eligible
  /\ Goto("dispatch")
  /\ UNCHANGED <<limitVars, goalVars, surfaceVars, branchVars, budgetVars, anchorVars, blockerVars, miscVars, stepVars>>

\* candidateRecoveryAnchor: the anchor being restored, else the one of the latest milestone that has one.
Anchored == {c \in Criteria : anchors[c] \notin exhaustedAnchors \cup {Nobody}}
selectRecoveryAnchor == IF Anchored = {} THEN Nobody ELSE anchors[CHOOSE c \in Anchored : \A d \in Anchored : d <= c]
Anchor == IF restore.page \notin exhaustedAnchors \cup {Nobody} THEN restore.page ELSE selectRecoveryAnchor
PriorHops == IF restore.page = Anchor THEN restore.hops ELSE 0
Retrying == Anchor # Nobody /\ altAttempts[Anchor] < AlternativeBudget /\ here = Anchor
\* Mutant of Hopping: the hops towards one anchor are not bounded.
HoppingUnbounded ==
  Anchor # Nobody /\ altAttempts[Anchor] < AlternativeBudget /\ here # Anchor /\ restoreHops < MaxRestoreHops
Hopping ==
  /\ Anchor # Nobody /\ altAttempts[Anchor] < AlternativeBudget /\ here # Anchor
  /\ PriorHops < PerAnchorHops /\ restoreHops < MaxRestoreHops
Known(x) == {x} \ {Nobody}
Forget(page) == IF restore.page = page THEN NoRestore ELSE restore

\* Already at the anchor: ask again instead of retreating.
RecoverAtAnchor ==
  /\ pc = "close" /\ Eligible /\ Retrying
  /\ restore' = NoRestore /\ recovered' = recovered \cup {Anchor}
  /\ Decide
  /\ move' = "anchorRetry"
  /\ IF act' = "stop_blocked"
     THEN exhaustedAnchors' = exhaustedAnchors \cup {Anchor} /\ restoreHops' = restoreHops + 1
     ELSE UNCHANGED <<exhaustedAnchors, restoreHops>>
  /\ Goto("dispatch")
  /\ UNCHANGED <<anchors, replans, pendingAlt, limitVars, goalVars, surfaceVars, branchVars, budgetVars, blockerVars, miscVars,
                 here, retries, result>>

AnchorHop ==
  /\ pc = "close" /\ Eligible /\ Hopping
  /\ restore' = [page |-> Anchor, hops |-> PriorHops + 1]
  /\ restoreHops' = restoreHops + 1
  /\ act' = "go_back" /\ move' = "anchorHop"
  /\ Goto("dispatch")
  /\ UNCHANGED <<anchors, exhaustedAnchors, replans, pendingAlt, limitVars, goalVars, surfaceVars, branchVars, budgetVars,
                 blockerVars, miscVars, here, choice, retries, recovered, result>>

PlainReplan ==
  /\ pc = "close" /\ Eligible /\ ~Retrying /\ ~Hopping
  /\ exhaustedAnchors' = exhaustedAnchors \cup Known(Anchor)
  /\ restore' = Forget(Anchor)
  /\ replans' = replans + 1
  /\ pendingAlt' = pendingAlt \cup Known(lastRoute)
  /\ act' = "go_back" /\ move' = "replan"
  /\ Goto("dispatch")
  /\ UNCHANGED <<anchors, restoreHops, limitVars, goalVars, surfaceVars, branchVars, budgetVars, blockerVars, miscVars,
                 here, choice, retries, recovered, result>>

-----------------------------------------------------------------------------
(* Dispatch of the effective action, with all that is recorded of it.      *)

\* computeEffectiveBranchDepth: the branch, a return of one hop more and one more candidate fit in the limits.
stepBound == (MaxSteps - steps' - 2) \div 2
BranchDepth == Min3(MaxBranchDepth, stepBound, MaxBacktracks - backtracks' - 1)

ForMilestone == here \in recovered /\ (\E c \in Criteria : anchors[c] = here) /\ altAttempts[here] < AlternativeBudget
ForAmbiguity == here \in Ambiguous /\ branchAttempts[here] < CandidateBudget

MayEnterBranch ==
  /\ branch.result = "absent" /\ choice.cand # Nobody /\ choice.allowed /\ result' = "ok"
  /\ "go_back" \in AllowedActions /\ Missing # {}
  /\ memory[<<Top(stack'), here, choice.cand>>] \notin Closed
  /\ ForMilestone \/ ForAmbiguity
  /\ BranchDepth > 0

EnterBranch ==
  /\ branch' = [NoBranch EXCEPT !.result = "open", !.on = Active, !.at = here, !.via = choice.cand, !.maxDepth = BranchDepth,
                  !.entry = satisfied, !.target = IF ForAmbiguity THEN 0 ELSE CHOOSE c \in Missing : \A d \in Missing : c <= d]
  /\ IF ForAmbiguity
     THEN branchAttempts' = [branchAttempts EXCEPT ![here] = @ + 1] /\ UNCHANGED altAttempts
     ELSE altAttempts' = [altAttempts EXCEPT ![here] = @ + 1] /\ UNCHANGED branchAttempts

TrackBranch ==
  \/ MayEnterBranch /\ EnterBranch
  \/ /\ ~MayEnterBranch \/ TimeLimited
     /\ branch' = IF branch.result = "open" THEN [branch EXCEPT !.depth = @ + 1] ELSE branch
     /\ UNCHANGED <<branchAttempts, altAttempts>>

\* Route memory keeps the outcome with the surface that is active by now, and a branch result it already has.
\* A click on a popup known to lead nowhere is noted as exhausted (popupReconsiderationReason).
RememberRoute ==
  LET k == <<Top(stack'), here, choice.cand>>
  IN \/ choice.cand = Nobody /\ memory' = memory
     \/ choice.cand # Nobody /\ memory' = [memory EXCEPT ![k] = IF @ = "untried" THEN "tried" ELSE @]
     \/ act = "click" /\ choice.cand # Nobody /\ memory' = [memory EXCEPT ![k] = "exhausted"]

\* A new signature does not reset the repeat count.
NoteBlocker(sig) ==
  IF sig = Nobody THEN NoBlocker ELSE [blocker[Active] EXCEPT !.sig = sig]
TrackStale ==
  IF result' = "stale"
  THEN /\ stale' = stale + 1
       /\ \E sig \in Obstructions \cup {Nobody} : blocker' = [blocker EXCEPT ![Active] = NoteBlocker(sig)]
  ELSE stale' = 0 /\ UNCHANGED blocker

\* What every dispatch leaves behind; result', stack' and submission' are the dispatched action's.
AfterDispatch ==
  /\ TrackStale
  /\ \E changed \in (IF act = "click" THEN SurfaceChanges ELSE {FALSE}) : recordAction(act, changed)
  /\ TrackBranch
  /\ RememberRoute
  /\ lastRoute' = IF choice.cand # Nobody /\ choice.allowed THEN choice.cand ELSE lastRoute
  /\ Goto("evaluate")
  /\ choice' = NoChoice /\ retries' = 0 /\ recovered' = {}     \* not read any more in this step
  /\ UNCHANGED <<deadEnds, satisfied, reconstructed, anchorVars, roamed, redirected, consents, rejectedStop, here, act, move>>

DispatchClick ==
  /\ pc = "dispatch" /\ act = "click"
  /\ result' \in {"ok", "stale", "failed"}
  /\ \/ UNCHANGED surfaceVars
     \/ /\ result' = "ok" /\ surfaces < MaxSurfaces     \* the popup it opened is adopted
        /\ surfaces' = surfaces + 1 /\ adopted' = adopted \cup {surfaces'} /\ stack' = Append(stack, surfaces')
        /\ UNCHANGED <<viaDialog, suppress>>
  /\ UNCHANGED submission
  /\ AfterDispatch

DispatchForm ==
  /\ pc = "dispatch" /\ act = "fill_form"
  /\ result' \in {"ok", "failed"}
  /\ submission' \in {submission, submission \/ result' = "ok"}
  /\ UNCHANGED surfaceVars
  /\ AfterDispatch

DispatchBack ==
  /\ pc = "dispatch" /\ act = "go_back"
  /\ LeaveSurface
  /\ result' \in {"ok", "failed"}
  /\ UNCHANGED submission
  /\ AfterDispatch

DispatchOther ==
  /\ pc = "dispatch" /\ act \notin {"click", "fill_form", "go_back"}
  /\ result' \in IF act \in Stops THEN {"ok"} ELSE {"ok", "failed"}
  /\ UNCHANGED <<surfaceVars, submission>>
  /\ AfterDispatch

\* Mutant of Evaluate: the criteria met now replace the ones met before.
EvaluateReplacing ==
  /\ pc = "evaluate"
  /\ \E met \in SUBSET Missing, page \in Pages :
       /\ satisfied' = met
       /\ anchors' = [c \in Criteria |-> IF c \in met THEN page ELSE anchors[c]]
  /\ Goto("conclude")
  /\ UNCHANGED <<submission, restore, exhaustedAnchors, restoreHops, replans, pendingAlt, limitVars, surfaceVars, branchVars,
                 budgetVars, blockerVars, miscVars, stepVars>>
\* The criteria met by now get an anchor at the page that is then observed.
Evaluate ==
  /\ pc = "evaluate"
  /\ \E met \in SUBSET Missing, page \in Pages :
       /\ satisfied' = satisfied \cup met
       /\ anchors' = [c \in Criteria |-> IF c \in met THEN page ELSE anchors[c]]
  /\ Goto("conclude")
  /\ UNCHANGED <<submission, restore, exhaustedAnchors, restoreHops, replans, pendingAlt, limitVars, surfaceVars, branchVars,
                 budgetVars, blockerVars, miscVars, stepVars>>

-----------------------------------------------------------------------------
(* The end of the step, in the order of the code.                          *)

AskedAgain == move = "anchorRetry" /\ act = "stop_blocked" /\ restoreHops < MaxRestoreHops
RetreatFailed == move \in {"replan", "anchorHop", "branchReturn"} /\ result # "ok"
Completed == submission /\ result = "ok" /\ act \notin Stops /\ Missing = {}
Settled == ~AskedAgain /\ ~RetreatFailed /\ ~Completed

ContinueAtAnchor ==
  /\ pc = "conclude" /\ AskedAgain
  /\ NextStep
  /\ UNCHANGED <<limitVars, goalVars, surfaceVars, branchVars, budgetVars, anchorVars, blockerVars, miscVars>>

EndAfterFailedRetreat ==
  /\ pc = "conclude" /\ RetreatFailed
  /\ IF move = "anchorHop"
     THEN exhaustedAnchors' = exhaustedAnchors \cup {restore.page} /\ restore' = NoRestore
     ELSE UNCHANGED <<exhaustedAnchors, restore>>
  /\ Finish("blocked")
  /\ UNCHANGED <<anchors, restoreHops, replans, pendingAlt, limitVars, goalVars, surfaceVars, branchVars, budgetVars,
                 blockerVars, miscVars>>

EndAfterSubmission ==
  /\ pc = "conclude" /\ ~AskedAgain /\ ~RetreatFailed /\ Completed
  /\ Finish("success")
  /\ UNCHANGED <<limitVars, goalVars, surfaceVars, branchVars, budgetVars, anchorVars, blockerVars, miscVars>>

StopSuccess ==
  /\ pc = "conclude" /\ Settled /\ act = "stop_success"
  /\ Missing = {}
  /\ Finish("success")
  /\ UNCHANGED <<limitVars, goalVars, surfaceVars, branchVars, budgetVars, anchorVars, blockerVars, miscVars>>

\* stop_success with criteria missing: the run goes on, unless it says so twice with nothing changed
\* (another page may have the same URL).
RejectStopSuccess ==
  /\ pc = "conclude" /\ Settled /\ act = "stop_success" /\ Missing # {}
  /\ rejectedStop' = [page |-> here, met |-> satisfied]
  /\ \/ rejectedStop' # rejectedStop /\ NextStep
     \/ rejectedStop.page # Nobody /\ rejectedStop.met = satisfied /\ Finish("failure")
  /\ UNCHANGED <<roamed, redirected, lastRoute, consents, limitVars, goalVars, surfaceVars, branchVars, budgetVars,
                 anchorVars, blockerVars>>

StopUnsuccessfully ==
  /\ pc = "conclude" /\ Settled /\ act \in {"stop_blocked", "stop_failure"}
  /\ Finish(IF act = "stop_blocked" THEN "blocked" ELSE "failure")
  /\ UNCHANGED <<limitVars, goalVars, surfaceVars, branchVars, budgetVars, anchorVars, blockerVars, miscVars>>

Recoverable == result = "stale" /\ stale <= MaxStaleRetries

Continue ==
  /\ pc = "conclude" /\ Settled /\ act \notin Stops /\ (result = "ok" \/ Recoverable)
  /\ NextStep
  /\ UNCHANGED <<limitVars, goalVars, surfaceVars, branchVars, budgetVars, anchorVars, blockerVars, miscVars>>

\* A failed action ends the open branch, or else the run.
ActionFailed ==
  /\ pc = "conclude" /\ Settled /\ act \notin Stops /\ result # "ok" /\ ~Recoverable
  /\ IF branch.result = "open"
     THEN /\ branch' = [branch EXCEPT !.result = "exhausted", !.budget = branch.depth + 1]
          /\ memory' = recordBranchResult(branch.at, branch.via, "exhausted")
          /\ NoteDeadEnd("exhausted")
          /\ NextStep
     ELSE Finish("failure") /\ UNCHANGED branchVars
  /\ UNCHANGED <<limitVars, goalVars, surfaceVars, budgetVars, anchorVars, blockerVars, miscVars>>

Ended == pc = "ended" /\ UNCHANGED vars

Next ==
  \/ Observe \/ StopAtLimit \/ AcceptConsent \/ PassLimits
  \/ BranchSucceeds \/ AssessBranch \/ BackAtDecisionPoint \/ RestoreLate \/ RestoreFails \/ ReturnHop
  \/ ReactToBlocker \/ SkipBlocked
  \/ Ask \/ RetryLowConfidence \/ RedirectDismiss \/ Weigh \/ Retarget
  \/ CloseBranch \/ CarryOn \/ RecoverAtAnchor \/ AnchorHop \/ PlainReplan
  \/ DispatchClick \/ DispatchForm \/ DispatchBack \/ DispatchOther \/ Evaluate
  \/ ContinueAtAnchor \/ EndAfterFailedRetreat \/ EndAfterSubmission \/ StopSuccess \/ RejectStopSuccess
  \/ StopUnsuccessfully \/ Continue \/ ActionFailed \/ Ended

Spec == Init /\ [][Next]_vars
\* engine.ts calls runStep until the run has ended; every await of a step is bounded by a timeout.
FairSpec == Spec /\ WF_vars(Next)

-----------------------------------------------------------------------------
(* Properties.                                                             *)

\* Every variable holds a value that the code can give it.
TypeOK ==
  /\ pc \in {"observe", "limits", "return", "blocker", "ask", "weigh", "guard", "barred", "close",
             "dispatch", "evaluate", "conclude", "ended"}
  /\ outcome \in {"none", "success", "failure", "blocked", "limit"}
  /\ steps \in Nat /\ backtracks \in Nat /\ last \in [changed : BOOLEAN, progressed : BOOLEAN]
  /\ satisfied \subseteq Criteria /\ submission \in BOOLEAN /\ roamed \in BOOLEAN
  /\ stack \in Seq(Surfaces) /\ stack # <<>> /\ surfaces \in Surfaces
  /\ adopted \subseteq Surfaces /\ viaDialog \subseteq Surfaces /\ suppress \in BOOLEAN /\ redirected \subseteq Surfaces
  /\ memory \in [Surfaces \X Pages \X Candidates -> Knowledge] /\ deadEnds \subseteq Surfaces \X Pages \X Candidates
  /\ branch \in [result : {"absent", "open", "productive", "exhausted"}, on : Surfaces, at : Pages \cup {Nobody},
                 via : Candidates \cup {Nobody}, target : Nat, depth : Nat, maxDepth : Nat, seen : SUBSET Pages, entry : SUBSET Criteria,
                 gained : SUBSET Criteria, idle : Nat, hops : Nat, budget : Nat]
  /\ branchAttempts \in [Pages -> Nat] /\ altAttempts \in [Pages -> Nat] /\ reconstructed \subseteq Pages
  /\ anchors \in [Criteria -> Pages \cup {Nobody}] /\ restore \in [page : Pages \cup {Nobody}, hops : Nat]
  /\ exhaustedAnchors \subseteq Pages /\ restoreHops \in Nat /\ replans \in Nat /\ pendingAlt \subseteq Candidates
  /\ lastRoute \in Candidates \cup {Nobody} /\ stale \in Nat
  /\ blocker \in [Surfaces -> [sig : Obstructions \cup {Nobody}, repeat : Nat]]
  /\ consents \in Nat /\ rejectedStop \in [page : Pages \cup {Nobody}, met : SUBSET Criteria]
  /\ here \in Pages \cup {Nobody} /\ act \in Kinds /\ retries \in Nat /\ recovered \subseteq Pages
  /\ choice \in [kind : Kinds, cand : Candidates \cup {Nobody}, allowed : BOOLEAN]
  /\ move \in {"none", "branchReturn", "anchorHop", "anchorRetry", "replan"} /\ result \in {"ok", "stale", "failed"}

\* Once a submitted form was verified, no form is filled and no form control clicked, and no retreat of the
\* engine's own (replanning, anchor recovery, a closed branch) is dispatched in place of a refused decision.
SubmissionGuarded ==
  pc = "dispatch" /\ submission =>
    /\ ~Resubmits([choice EXCEPT !.kind = act])
    /\ move \notin {"branchReturn", "anchorHop", "replan"}

\* The main page is never left from the bottom of the stack, surfaces lie in the order of their entry, and a panel
\* lies directly on the main page: only popups are entered from elsewhere, whatever was closed in between.
SurfacesNested ==
  /\ stack[1] = Main /\ (\A i \in 1..(Len(stack) - 1) : stack[i] < stack[i + 1])
  /\ \A i \in 3..Len(stack) : stack[i] \in adopted

\* From the decision to the dispatch the run stands in no branch that is closed and not yet returned from:
\* it never asks for, or acts on, a decision at a position that was not verified.
OnlyVerifiedPosition ==
  pc \in {"blocker", "ask", "weigh", "guard", "barred", "close"} => branch.result \in {"absent", "open"}

\* No counter that bounds the run passes its limit (the two run limits by the one action that ends the run
\* for it, the anchor ceiling by the one retry without a hop).
BudgetsRespected ==
  /\ steps <= MaxSteps + 1 /\ backtracks <= MaxBacktracks + 1
  /\ replans <= MaxReplans /\ restoreHops <= MaxRestoreHops + 1 /\ restore.hops <= PerAnchorHops
  /\ \A p \in Pages : branchAttempts[p] <= CandidateBudget /\ altAttempts[p] <= AlternativeBudget
  /\ branch.hops <= branch.budget \/ branch.result = "open"

\* A route that a branch followed from a decision point to a dead end is not entered again as a branch from that decision
\* point, on the same surface ("never re-enter a branch already known to be a dead end", docs/architecture.md).
DeadEndNotReentered ==
  [][branch.result = "absent" /\ branch'.result = "open" => <<branch'.on, branch'.at, branch'.via>> \notin deadEnds]_vars

\* The loop keeps the promises of a run: evidence and a verified submission are never lost, the actions are
\* bounded, the outcome is final, and success needs complete evidence.
Promise == INSTANCE TaskRun WITH Required <- Criteria, MaxActions <- MaxSteps, status <- outcome, met <- satisfied,
                                 submitted <- submission, used <- steps
ImplementsTaskRun == Promise!TaskSpec

\* Every run ends, whatever the site and the provider answer.
Terminates == <>(pc = "ended")
=============================================================================
