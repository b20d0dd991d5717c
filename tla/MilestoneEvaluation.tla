------------------------- MODULE MilestoneEvaluation -------------------------
(***************************************************************************)
(* Milestones of a run: the criteria of the task are judged before each    *)
(* decision and, in up to three rounds, after each action, against a page  *)
(* that changes between two readings; panels and popups opened by clicks   *)
(* become surfaces whose content may be credited to the click              *)
(* (src/core/successEvaluator.ts, panelEvidence.ts, semanticPageMatch.ts,  *)
(* and the steps of src/core/loop.ts that use them).                       *)
(***************************************************************************)
EXTENDS CriterionVerifier

CONSTANTS
  Criteria,    \* task.successCriteria: kind, group and required of each
  Looks,       \* what a page may look like: url, the criteria it makes evident, its panel
  InDomain,    \* the URLs inside effectiveAllowedDomains
  Closable,    \* controls named as generic dismissals
  MayClose,    \* a criterion's description asks for a closure
  MaxRounds,   \* MAX_CHAINED_MILESTONE_EVALUATIONS
  MaxSteps,    \* bound: limits.maxSteps
  MaxMoves     \* bound: changes the page makes by itself

Ids == DOMAIN Criteria

ASSUME MilestoneAssumption ==
  /\ Len(Criteria) \in Nat /\ Ids = 1..Len(Criteria)
  /\ \A c \in Ids : Criteria[c].kind \in {"page", "event", "semantic"} /\ Criteria[c].required \in BOOLEAN
  /\ \A look \in Looks :
       /\ look.evident \subseteq Ids /\ look.controls \subseteq Controls
       /\ look.panel # None => look.panel.relevant \subseteq Ids
  /\ Closable \subseteq Controls /\ MayClose \in BOOLEAN
  /\ MaxRounds \in Nat \ {0} /\ MaxSteps \in Nat /\ MaxMoves \in Nat

VARIABLES
  page,        \* the look of the page the step reads, bound when the step begins
  atHand,      \* whether that is still the active surface's page, or the opener of a popup, or a popup just closed
  moves,       \* changes the page has made by itself
  pushed,      \* event criteria whose event was seen: dataLayer and network captures
  surfaces,    \* the surface stack, main first
  generation,  \* surfaces ever entered
  step,        \* stepCount
  stage,       \* where the step is
  call,        \* the evaluation of the criteria in progress
  satisfied,   \* satisfiedCriteriaIds
  evidence,    \* milestoneEvidence
  act,         \* the action of this step and what came of it
  lastClick,   \* lastDispatchedClickDetails
  lastChange,  \* the last recorded action changed the surface
  pending,     \* pendingJustOpenedPanelVerified
  suppress,    \* suppressInDocumentEntryOnce
  submission,  \* a verified form submission is held
  rejected,    \* lastRejectedStopSuccessFingerprint
  outcome      \* how the run ended

pageVars == <<page, atHand, moves, pushed>>
surfaceVars == <<surfaces, generation, lastClick, lastChange, pending, suppress>>
milestoneVars == <<satisfied, evidence>>
runVars == <<step, stage, call, act, submission, rejected, outcome>>
vars == <<providerVars, verifierVars, pageVars, surfaceVars, milestoneVars, runVars>>

-----------------------------------------------------------------------------
(* Groups of criteria, in the order their first members are declared.       *)
Group(c) == IF Criteria[c].group = None THEN {c} ELSE {d \in Ids : Criteria[d].group = Criteria[c].group}
Precedes(c, d) == \E first \in Group(c) : \A other \in Group(d) : first < other
RequiredGroup(c) == \E member \in Group(c) : Criteria[member].required
GroupSatisfied(c, done) == Group(c) \cap done # {}

getMissingRequiredCriteriaIds(done) == {c \in Ids : RequiredGroup(c) /\ ~GroupSatisfied(c, done)}

\* The ordered gate without its order: every required milestone may be judged.
computeEligibleUngated(done) == Ids

(* Optional criteria, members of groups already satisfied, and the first    *)
(* required group that is not.                                              *)
computeEligibleCriteriaIds(done) ==
  LET missing == getMissingRequiredCriteriaIds(done)
  IN  {c \in Ids : c \in missing => \A d \in missing : ~Precedes(d, c)}

\* Milestones already satisfied are judged again.
ToJudgeAgain(done) == computeEligibleCriteriaIds(done)

(* What a call has to judge; it takes them in declaration order.            *)
ToJudge(done) == {c \in computeEligibleCriteriaIds(done) : c \notin done}
FirstOf(todo) == CHOOSE c \in todo : \A d \in todo : c <= d

-----------------------------------------------------------------------------
(* Surfaces.                                                                *)
NoClick == [step |-> 0, verified |-> FALSE]
Surface(kind, dialog, click) ==
  [kind |-> kind, dialog |-> dialog, click |-> click, since |-> step, checked |-> FALSE, held |-> FALSE]
Main == [kind |-> "main", dialog |-> FALSE, click |-> NoClick, since |-> 0, checked |-> FALSE, held |-> FALSE]
Active(stack) == stack[Len(stack)]
Marked(stack, field) == [stack EXCEPT ![Len(stack)][field] = TRUE]
Popped(stack) == SubSeq(stack, 1, Len(stack) - 1)
Dialog(look) == look.panel # None /\ look.panel.dialog

-----------------------------------------------------------------------------
(* The step begins: popups found closed are left, the page of the surface   *)
(* that is then active is bound, a dialog or the surface change of the last *)
(* action is entered as a surface of main, a dialog that is gone is left.   *)
shouldEnterInDocumentSurface(stack, look) ==
  Active(stack).kind = "main" /\ (Dialog(look) \/ lastChange)
shouldLeaveInDocumentSurface(stack, look) ==
  Active(stack).kind = "in_document" /\ Active(stack).dialog /\ ~Dialog(look)

Shows(look) == page' = look /\ pushed' = pushed \cup look.evident

\* A click of any earlier step is taken as the cause of the surface.
CausingClickOfAnyStep == lastClick
CausingClick == IF lastClick.step = step - 1 THEN lastClick ELSE NoClick

NoAct == [action |-> None, success |-> TRUE, opened |-> FALSE, verified |-> FALSE, controls |-> {}, inside |-> FALSE]

Enters(stack) ==
  /\ surfaces' = Append(stack, [Surface("in_document", Dialog(page'), CausingClick) EXCEPT !.checked = pending])
  /\ generation' = generation + 1
  /\ pending' = FALSE

Settles(stack) ==
  /\ surfaces' = IF shouldLeaveInDocumentSurface(stack, page') THEN Popped(stack) ELSE stack
  /\ UNCHANGED <<generation, pending>>

Observes(stack) ==
  /\ IF ~suppress /\ shouldEnterInDocumentSurface(stack, page') THEN Enters(stack) ELSE Settles(stack)
  /\ suppress' = FALSE
  /\ stage' = "observed"
  /\ act' = [NoAct EXCEPT !.controls = page'.controls, !.inside = (Active(surfaces').kind = "in_document")]
  /\ UNCHANGED <<providerVars, verifierVars, moves, milestoneVars, step, call, submission, rejected, outcome,
                 lastClick, lastChange>>

StepBegins ==
  /\ stage = "observing"
  /\ atHand' = "active"
  /\ \E open \in 1..Len(surfaces) :
       /\ \A i \in (open + 1)..Len(surfaces) : surfaces[i].kind = "adopted"
       /\ IF open = Len(surfaces) /\ atHand = "active"
          THEN UNCHANGED <<page, pushed>>
          ELSE \E look \in Looks : Shows(look)
       /\ Observes(SubSeq(surfaces, 1, open))

-----------------------------------------------------------------------------
(* One call of evaluateSuccessCriteria.                                     *)
NoContext == [via |-> None, panel |-> None, click |-> NoClick, since |-> 0]

gatherPanelEvidence == page.panel

(* The panel whose content may be credited, gathered before the call: the   *)
(* one this step's click opened; or, if the step was observed inside an     *)
(* in-document surface, the panel of the page at hand, with the click that  *)
(* caused the surface active by now: after the action that may be a popup   *)
(* adopted from inside the panel, or the main page, which no click caused.  *)
buildPanelMatchContext ==
  IF act.opened
  THEN [via |-> "opened", panel |-> gatherPanelEvidence, click |-> lastClick, since |-> step]
  ELSE IF act.inside
  THEN [via |-> Active(surfaces).kind, panel |-> gatherPanelEvidence, click |-> Active(surfaces).click,
        since |-> Active(surfaces).since]
  ELSE NoContext

Call(phase, round, context, done) ==
  [phase |-> phase, round |-> round, context |-> context, todo |-> ToJudge(done), found |-> {}, relied |-> {}]

Evaluates(phase) ==
  /\ call' = Call(phase, 1, buildPanelMatchContext, satisfied)
  /\ stage' = "evaluating"
  /\ UNCHANGED <<providerVars, verifierVars, pageVars, surfaceVars, milestoneVars, step, act, submission, rejected, outcome>>

EvaluatesBefore == stage = "observed" /\ Evaluates("pre_action")
EvaluatesAfter == stage = "acted" /\ Evaluates("post_action")

Judging == stage = "evaluating" /\ query = None /\ call.todo # {}
Judged == FirstOf(call.todo)
\* The words of a page that is closed cannot be read; a URL and the captured events can.
Readable == atHand = "closed" => Criteria[Judged].kind # "semantic"
AfterAction == call.phase = "post_action"
Scoped == AfterAction /\ act.opened

(* A page criterion holds while the page shows it, an event criterion once  *)
(* its event was seen; of a semantic one the words on the page decide,      *)
(* those that a new panel covers left out.                                  *)
PageHolds(c) == c \in page.evident
EventSeen(c) == c \in pushed
WordsMatch(c) == c \in page.evident /\ ~(Scoped /\ page.panel # None)

Observed(c) ==
  CASE Criteria[c].kind = "page" -> PageHolds(c)
    [] Criteria[c].kind = "event" -> EventSeen(c)
    [] Criteria[c].kind = "semantic" -> WordsMatch(c)

(* Or a verified click opened the surface whose usable panel is about it.   *)
PanelCausal(c) ==
  /\ Criteria[c].kind = "semantic"
  /\ call.context.panel # None
  /\ call.context.click.verified
  /\ call.context.panel.usable
  /\ c \in call.context.panel.relevant

Signals ==
  IF Scoped /\ page.panel # None THEN [panel |-> page.panel]
  ELSE [evident |-> {c \in page.evident : Criteria[c].kind = "semantic"}, controls |-> page.controls, panel |-> page.panel]

Forwarded == [panel |-> call.context.panel, click |-> call.context.click]
Asking == Question(Judged, Signals, Forwarded, AfterAction /\ act.verified, submission, [generation |-> generation, step |-> step])

Record(c, source) ==
  LET context == IF source = "panel_causal" THEN call.context ELSE NoContext
  IN  [criterion |-> c, step |-> step, phase |-> call.phase, source |-> source,
       via |-> context.via, click |-> context.click, since |-> context.since]

Satisfies(source, relied) ==
  /\ call' = [call EXCEPT !.todo = @ \ {Judged}, !.found = @ \cup {Judged}, !.relied = @ \cup relied]
  /\ evidence' = Append(evidence, Record(Judged, source))

Dismisses(relied) ==
  /\ call' = [call EXCEPT !.todo = @ \ {Judged}, !.relied = @ \cup relied]
  /\ UNCHANGED evidence

Judges(holds, source, relied) ==
  /\ IF holds THEN Satisfies(source, relied) ELSE Dismisses(relied)
  /\ UNCHANGED <<providerVars, pageVars, surfaceVars, satisfied, step, stage, act, submission, rejected, outcome>>

NeedsVerdict == Criteria[Judged].kind = "semantic" /\ ~Observed(Judged) /\ ~PanelCausal(Judged)

JudgesItself ==
  /\ Judging /\ Readable /\ ~NeedsVerdict
  /\ Judges(Observed(Judged) \/ PanelCausal(Judged), IF Observed(Judged) THEN "page" ELSE "panel_causal", {})
  /\ UNCHANGED verifierVars

RecallsVerdict ==
  /\ Judging /\ Readable /\ NeedsVerdict /\ Known(Asking)
  /\ Judges(Verdict(Asking).satisfied, "verifier", {Verdict(Asking).asked})
  /\ UNCHANGED verifierVars

AsksVerifier ==
  /\ Judging /\ Readable /\ NeedsVerdict /\ ~Known(Asking)
  /\ verify(Asking)
  /\ UNCHANGED <<providerVars, pageVars, surfaceVars, milestoneVars, runVars>>

AsksAgain ==
  /\ Retries
  /\ UNCHANGED <<providerVars, pageVars, surfaceVars, milestoneVars, runVars>>

VerifierConcludes ==
  \E holds \in BOOLEAN :
    /\ Concludes(holds)
    /\ Judges(holds, "verifier", {query.question.marker})

(* The page is closed or crashes under the evaluation: the exception ends   *)
(* the run, and the criteria found in this call are lost with it.           *)
EvaluationThrows ==
  /\ Judging
  /\ stage' = "ended" /\ outcome' = "thrown" /\ call' = None
  /\ UNCHANGED <<providerVars, verifierVars, pageVars, surfaceVars, milestoneVars, step, act, submission, rejected>>

-----------------------------------------------------------------------------
(* The end of a call: what it found is added at once, and the surface whose *)
(* panel was before it counts as verified.  After an action another call    *)
(* follows while something was found, MaxRounds in all.                     *)
CallEnds == stage = "evaluating" /\ query = None /\ call.todo = {}
Commits == satisfied' = satisfied \cup call.found /\ UNCHANGED evidence

EndsBefore ==
  /\ CallEnds /\ call.phase = "pre_action"
  /\ Commits
  /\ surfaces' = IF call.found # {} /\ Active(surfaces).kind = "in_document" THEN Marked(surfaces, "checked") ELSE surfaces
  /\ IF step > MaxSteps
     THEN stage' = "ended" /\ outcome' = "failure" /\ UNCHANGED providerVars
     ELSE stage' = "deciding" /\ decide(act.controls) /\ UNCHANGED outcome
  /\ call' = None
  /\ UNCHANGED <<verifierVars, pageVars, generation, lastClick, lastChange, pending, suppress, step, act, submission, rejected>>

\* With a milestone reached the page is read once more, for its anchor: a page that is closed ends the run.
ReadsForAnchors == call.found # {} \/ call.round > 1

EndsAfter ==
  /\ CallEnds /\ AfterAction
  /\ Commits
  /\ LET credited == call.found # {} /\ call.context # NoContext
     IN  /\ surfaces' = IF credited /\ act.inside THEN Marked(surfaces, "checked") ELSE surfaces
         /\ pending' = (pending \/ (credited /\ ~act.inside /\ act.opened))
  /\ IF call.found # {} /\ call.round < MaxRounds
     THEN call' = Call(call.phase, call.round + 1, call.context, satisfied') /\ UNCHANGED <<stage, outcome>>
     ELSE /\ call' = None
          /\ IF atHand = "closed" /\ ReadsForAnchors
             THEN stage' = "ended" /\ outcome' = "thrown"
             ELSE stage' = "concluding" /\ UNCHANGED outcome
  /\ UNCHANGED <<providerVars, verifierVars, pageVars, generation, lastClick, lastChange, suppress, step, act, submission,
                 rejected>>

-----------------------------------------------------------------------------
(* The decision and what it does.                                           *)
Reasons ==
  /\ stage = "deciding"
  /\ attemptOnce
  /\ UNCHANGED <<verifierVars, pageVars, surfaceVars, milestoneVars, runVars>>

(* A generic dismissal in a surface one of the run's clicks opened, not yet *)
(* checked, whose panel is not unrelated: held back once per surface.       *)
CloseGuarded ==
  /\ Active(surfaces).kind = "in_document" /\ Active(surfaces).click # NoClick
  /\ ~Active(surfaces).checked
  /\ decision.action = "click" /\ decision.target \in Closable
  /\ gatherPanelEvidence # None /\ ~gatherPanelEvidence.unrelated
  /\ ~MayClose

Takes(action) == stage = "deciding" /\ Answered /\ decision.action = action

Done(success, opened, verified) ==
  /\ act' = [act EXCEPT !.action = decision.action, !.success = success, !.opened = opened, !.verified = verified, !.controls = {}]
  /\ lastChange' = opened
  /\ stage' = "acted"
  /\ DecisionTaken
  /\ UNCHANGED <<verifierVars, moves, milestoneVars, step, call, rejected, outcome>>
KeepsPage == UNCHANGED <<page, atHand, pushed>>

HoldsOpen ==
  /\ Takes("click") /\ CloseGuarded /\ ~Active(surfaces).held
  /\ surfaces' = Marked(surfaces, "held")
  /\ IF "wait" \in AllowedActions
     THEN Done(TRUE, FALSE, FALSE) /\ KeepsPage /\ UNCHANGED <<generation, lastClick, pending, suppress, submission>>
     ELSE UNCHANGED <<providerVars, verifierVars, pageVars, generation, lastClick, lastChange, pending, suppress,
                      milestoneVars, runVars>>

ClickDispatched(verified) ==
  /\ Takes("click") /\ (CloseGuarded => Active(surfaces).held)
  /\ lastClick' = [step |-> step, verified |-> verified]
  /\ UNCHANGED <<pending, suppress, submission>>

ClickMoves ==
  \E look \in Looks :
    /\ ClickDispatched(TRUE)
    /\ look.url # page.url
    /\ Shows(look) /\ Done(TRUE, FALSE, TRUE)
    /\ UNCHANGED <<surfaces, generation, atHand>>

ClickOpensPanel ==
  \E look \in Looks :
    /\ ClickDispatched(TRUE)
    /\ look.url = page.url /\ look.panel \notin {None, page.panel}
    /\ Shows(look) /\ Done(TRUE, TRUE, TRUE)
    /\ UNCHANGED <<surfaces, generation, atHand>>

ClickShowsNothing ==
  \E look \in Looks, success \in BOOLEAN :
    /\ ClickDispatched(FALSE)
    /\ look = page \/ (look.url = page.url /\ look.panel = None)
    /\ Shows(look) /\ Done(success, FALSE, FALSE)
    /\ UNCHANGED <<surfaces, generation, atHand>>

\* The popup is the active surface from now on; the page at hand stays its opener's to the end of the step.
ClickAdoptsPopup ==
  /\ ClickDispatched(TRUE)
  /\ atHand' = "opener" /\ UNCHANGED page
  /\ \E look \in Looks : pushed' = pushed \cup look.evident
  /\ Done(TRUE, FALSE, TRUE)
  /\ surfaces' = Append(surfaces, Surface("adopted", FALSE, lastClick'))
  /\ generation' = generation + 1

(* A navigation call of the browser returns, times out or is aborted; where *)
(* the page stands then is read from the page, not from the call.           *)
Calls == {"returned", "timeout", "aborted"}
Blank == [url |-> None, evident |-> {}, controls |-> {}, panel |-> None]

\* A timeout is forgiven when the page shows a usable document of the domain, the one it was to leave included.
assessNavigationRecovery(look) == look # Blank /\ look.url \in InDomain
robustGoto(ends, look) ==
  IF ends = "returned" THEN "ok"
  ELSE IF ends = "timeout" /\ assessNavigationRecovery(look) THEN "recovered"
  ELSE "failed"
executeNavigate(ends, look) == robustGoto(ends, look) # "failed" /\ look.url \in InDomain

GoBackOutcome(before, ends, look) ==
  IF before = Blank THEN "no_navigation"
  ELSE IF ends = "aborted" THEN "restoration_failed"
  ELSE IF look = Blank THEN "blank_or_unusable_page"
  ELSE IF ends = "timeout" /\ look.url = before.url THEN "restoration_failed"
  ELSE "navigation_committed_restoration_unverified"
executeGoBack(before, ends, look) ==
  GoBackOutcome(before, ends, look) = "navigation_committed_restoration_unverified"

Navigates ==
  /\ Takes("navigate")
  /\ \E ends \in Calls, look \in Looks \cup {page} :
       Shows(look) /\ Done(executeNavigate(ends, look), FALSE, FALSE)
  /\ UNCHANGED <<surfaces, generation, lastClick, pending, suppress, submission, atHand>>

GoesBackOnMain ==
  /\ Takes("go_back") /\ Active(surfaces).kind = "main"
  /\ \E ends \in Calls, look \in IF page = Blank THEN {Blank} ELSE Looks \cup {Blank} :
       Shows(look) /\ Done(executeGoBack(page, ends, look), FALSE, FALSE)
  /\ suppress' = FALSE
  /\ UNCHANGED <<surfaces, generation, lastClick, pending, submission, atHand>>

(* A popup is closed, its parent may be closed itself, and the page at hand *)
(* stays the closed one to the end of the step; an in-document surface is   *)
(* only left, and may not be entered again in the next step.                *)
returnToParentSurface ==
  /\ Takes("go_back") /\ Active(surfaces).kind # "main"
  /\ surfaces' = Popped(surfaces)
  /\ suppress' = (Active(surfaces).kind = "in_document")
  /\ atHand' = IF Active(surfaces).kind = "adopted" THEN "closed" ELSE atHand
  /\ \E restored \in BOOLEAN : (Active(surfaces').kind = "main" => restored) /\ Done(restored, FALSE, FALSE)
  /\ UNCHANGED <<page, pushed, generation, lastClick, pending, submission>>

FillsForm ==
  /\ Takes("fill_form")
  /\ \E submitted, verified \in BOOLEAN, look \in Looks :
       /\ verified => submitted
       /\ submission' = (submission \/ verified) /\ Shows(look) /\ Done(submitted, FALSE, FALSE)
  /\ UNCHANGED <<surfaces, generation, lastClick, pending, suppress, atHand>>

LeavesPage ==
  /\ \E action \in {"wait", "scroll", "capture", "stop_success", "stop_blocked", "stop_failure"}, ok \in BOOLEAN :
       Takes(action) /\ (action # "scroll" => ok) /\ Done(ok, FALSE, FALSE)
  /\ KeepsPage
  /\ UNCHANGED <<surfaces, generation, lastClick, pending, suppress, submission>>

-----------------------------------------------------------------------------
(* The end of the step.  A stop_success with required milestones missing is *)
(* rejected; the same one again ends the run.                               *)
Fingerprint == [url |-> page.url, satisfied |-> satisfied]
Missing == getMissingRequiredCriteriaIds(satisfied) # {}

Outcome ==
  IF submission /\ act.success /\ act.action \notin {"stop_success", "stop_blocked", "stop_failure"} /\ ~Missing THEN "success"
  ELSE IF act.action = "stop_success" THEN
    IF ~Missing THEN "success" ELSE IF rejected = Fingerprint THEN "failure" ELSE None
  ELSE IF act.action = "stop_blocked" THEN "blocked"
  ELSE IF act.action = "stop_failure" \/ ~act.success THEN "failure"
  ELSE None

\* A click that failed on a stale target is allowed a few times.
MayGoOn == IF act.action = "click" /\ ~act.success THEN {None} ELSE {}

StepEnds ==
  /\ stage = "concluding"
  /\ rejected' = IF act.action = "stop_success" /\ Missing THEN Fingerprint ELSE rejected
  /\ outcome' \in {Outcome} \cup MayGoOn
  /\ IF outcome' = None THEN stage' = "observing" /\ step' = step + 1 ELSE stage' = "ended" /\ UNCHANGED step
  /\ act' = NoAct
  /\ UNCHANGED <<providerVars, verifierVars, pageVars, surfaceVars, milestoneVars, call, submission>>

-----------------------------------------------------------------------------
(* The page changes by itself where something is about to read it.          *)
PageMoves ==
  /\ moves < MaxMoves
  /\ atHand # "closed"
  /\ stage \in {"observing", "observed", "acted"} \/ Judging \/ (stage = "deciding" /\ Answered)
  /\ moves' = moves + 1
  /\ \E look \in Looks \ {page} : Shows(look)
  /\ UNCHANGED <<providerVars, verifierVars, atHand, surfaceVars, milestoneVars, runVars>>

Init ==
  /\ request = None /\ decision = None /\ query = None /\ cache = << >>
  /\ page \in Looks /\ atHand = "active" /\ moves = 0 /\ pushed = page.evident
  /\ surfaces = <<Main>> /\ generation = 0 /\ lastClick = NoClick /\ lastChange = FALSE
  /\ pending = FALSE /\ suppress = FALSE
  /\ satisfied = {} /\ evidence = << >>
  /\ step = 1 /\ stage = "observing" /\ call = None /\ submission = FALSE /\ rejected = None /\ outcome = None
  /\ act = NoAct

Next ==
  \/ StepBegins \/ EvaluatesBefore \/ EvaluatesAfter \/ JudgesItself \/ RecallsVerdict
  \/ AsksVerifier \/ AsksAgain \/ VerifierConcludes \/ EvaluationThrows \/ EndsBefore \/ EndsAfter
  \/ Reasons \/ HoldsOpen \/ ClickMoves \/ ClickOpensPanel \/ ClickShowsNothing \/ ClickAdoptsPopup
  \/ Navigates \/ GoesBackOnMain \/ returnToParentSurface \/ FillsForm \/ LeavesPage \/ StepEnds \/ PageMoves

Spec == Init /\ [][Next]_vars

-----------------------------------------------------------------------------
(* Milestones are reached in the order they are declared: when a member of  *)
(* a required group is added, every required group before it was satisfied  *)
(* by an earlier evaluation (successEvaluator.ts:148-166), whatever changed *)
(* between two criteria of the same evaluation.                             *)
MilestonesInOrder ==
  [][\A c \in satisfied' \ satisfied, d \in Ids :
       RequiredGroup(c) /\ RequiredGroup(d) /\ Precedes(d, c) => GroupSatisfied(d, satisfied)]_vars

(* Between two evaluations the evidence of a run is exactly one record for  *)
(* each milestone it counts as satisfied (state.ts:122-129).                *)
EvidenceMatchesMilestones ==
  stage \notin {"evaluating", "ended"} =>
    /\ {evidence[i].criterion : i \in DOMAIN evidence} = satisfied
    /\ Len(evidence) = Cardinality(satisfied)

(* A panel satisfies a milestone by being opened only on the credit of a    *)
(* click with a directly observed effect, never of an older one: this       *)
(* step's click, which opened it; the click of the step just before the     *)
(* surface was entered; or, although successEvaluator.ts:51-53 speaks of    *)
(* the click that opened the panel, this step's click from inside the panel *)
(* that opened a popup (loop.ts:206-213).  Once the surface is left nothing *)
(* is credited.                                                             *)
CreditFollowsAVerifiedClick ==
  \A i \in DOMAIN evidence :
    LET r == evidence[i]
    IN  r.source = "panel_causal" =>
          /\ r.click.verified
          /\ \/ r.via \in {"opened", "adopted"} /\ r.click.step = r.step
             \/ r.via = "in_document" /\ r.click.step = r.since - 1

(* No criterion is settled in a step by what the model said, or failed to   *)
(* say, in another step or about another generation of surfaces, however    *)
(* alike the page looks (semanticCriterionVerifier.ts:226-240).             *)
VerdictsAreFresh ==
  call # None => call.relied \subseteq {[generation |-> generation, step |-> step]}

(* A corrective request is the last of its decision: whatever comes of it,  *)
(* no further request is made (claudeReasoningProvider.ts:236-258).         *)
NothingSentAfterCorrection ==
  Asked => \A i \in DOMAIN request.sent : request.sent[i] = "corrective" => i = Len(request.sent)
=============================================================================
