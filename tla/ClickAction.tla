---------------------------- MODULE ClickAction ----------------------------
(***************************************************************************)
(* The click of a step and everything it sets off: the dispatch, the popup *)
(* it may open, the settle wait, the destination fallback, the hand-over of *)
(* an adopted popup to the surface stack, the evidence window, the return   *)
(* from a surface, and the end of the run (src/actions/click.ts, the click *)
(* parts of src/core/loop.ts, src/core/surfaceReturn.ts, the end of         *)
(* src/core/engine.ts and src/api/runner.ts).                               *)
(***************************************************************************)
EXTENDS EvidenceWindow

VARIABLES
  pc,            \* where the step is
  step,          \* RunState.stepCount
  surfaces,      \* adopted pages on the surface stack, innermost last
  adoptedCount,  \* adoptedSurfaceCounter
  tracked,       \* pages of listenerAttachedPages
  armed,         \* the page whose popup and navigation events are listened to, or NoPage
  baseline,      \* pages open before the dispatch
  popupOpened,   \* the popup this click claimed, or NoPage
  navigated,     \* mainFrameNavigated
  result         \* what the executor answered and the recorded statuses

engineVars == <<pc, step, surfaces, adoptedCount, tracked, armed, baseline, popupOpened, navigated, result>>
vars == <<engineVars, evidenceVars, popupVars, routingVars>>

NoResult == [success |-> FALSE, adopted |-> FALSE, opened |-> FALSE,
             fallback |-> "none", status |-> "none", primary |-> "none", segment |-> "none",
             arrivals |-> 0]   \* history: events written between the dispatch and the window's end
ActivePage == IF surfaces = <<>> THEN Main ELSE Last(surfaces)
Dispatching == {"pressing", "settling", "landing", "failing", "awaiting", "falling"}
Live == Dispatching \cup {"ready", "window"}   \* where a step awaits, as far as pages matter
Ended == {"unrouting", "closing", "done"}

(* engine.ts attaches the main page's listeners before the first step.      *)
Init ==
  /\ task \in Tasks
  /\ page = [p \in Pages |-> IF p = Main THEN "open" ELSE "unborn"]
  /\ adoption = [w \in Popups |-> Unclaimed]
  /\ listeners = [p \in Pages |-> IF p = Main THEN Attached ELSE 0]
  /\ seen = <<>>
  /\ routing = IF task.lowMemory THEN attachLowMemoryResourceRouting ELSE NoRouting
  /\ handled = EmptyTally
  /\ captured = <<>> /\ arrived = 0 /\ marks = NoMarks
  /\ pc = "observe" /\ step = 0 /\ surfaces = <<>> /\ adoptedCount = 0 /\ tracked = {}
  /\ armed = NoPage /\ baseline = {} /\ popupOpened = NoPage /\ navigated = FALSE /\ result = NoResult

-----------------------------------------------------------------------------
(* The browser: pages open and close, navigate and send requests at any     *)
(* time.  A popup is claimed by the popup event of the clicked page, or by  *)
(* the poll of the context's pages when adoption is on; once per click, and *)
(* only while the click listens: one that opens later is nobody's.          *)
OpensPopup(w, opener) ==
  /\ pc \in Live
  /\ page[w] = "unborn" /\ IsOpen(opener) /\ w = CHOOSE x \in Popups : page[x] = "unborn"
  /\ page' = [page EXCEPT ![w] = "open"]
  /\ routing' = onNewPage(routing, w)
  /\ IF armed = opener /\ popupOpened = NoPage
     THEN popupOpened' = w /\ adoptOrCapturePopup(w, adoptedCount, step)
     ELSE UNCHANGED <<popupOpened, adoption, listeners>>
  /\ UNCHANGED <<task, seen, handled, evidenceVars, pc, step, surfaces, adoptedCount, tracked, armed, baseline,
                 navigated, result>>

findNewPages == {w \in Popups : IsOpen(w)} \ baseline
Polls(w) ==
  /\ task.adoption /\ armed # NoPage /\ popupOpened = NoPage /\ w \in findNewPages
  /\ popupOpened' = w /\ adoptOrCapturePopup(w, adoptedCount, step)
  /\ UNCHANGED <<task, page, seen, routingVars, evidenceVars, pc, step, surfaces, adoptedCount, tracked, armed,
                 baseline, navigated, result>>

SiteCloses(w) ==
  /\ pc \in Live /\ IsOpen(w) /\ adoption[w].phase # "none"
  /\ Closes(w)
  /\ UNCHANGED <<task, adoption, listeners, seen, handled, evidenceVars, engineVars>>

Navigates ==
  /\ armed # NoPage /\ IsOpen(armed) /\ ~navigated
  /\ navigated' = TRUE
  /\ UNCHANGED <<popupVars, routingVars, evidenceVars, pc, step, surfaces, adoptedCount, tracked, armed, baseline,
                 popupOpened, result>>

Requests(p, fate) ==
  /\ p # NoPage => page[p] # "unborn"
  /\ routeHandler(p, fate, p # NoPage /\ IsOpen(p), task.requests)
  /\ UNCHANGED <<popupVars, evidenceVars, engineVars>>

Fires(p, shape) == pc \in Live \cup {"recording"} /\ Observed(p, shape, step) /\ UNCHANGED engineVars

Browser ==
  \/ \E w \in Popups, p \in Pages : OpensPopup(w, p)
  \/ \E w \in Popups : Polls(w) \/ SiteCloses(w)
  \/ Navigates
  \/ \E p \in Pages \cup {NoPage}, fate \in Fates : Requests(p, fate)
  \/ \E p \in Pages, shape \in task.shapes : Fires(p, shape)

-----------------------------------------------------------------------------
(* The step.  Surfaces whose page the site closed are left first.           *)
detectClosedAdoptedSurfaces(stack) ==
  IF \A i \in DOMAIN stack : ~IsOpen(stack[i]) THEN <<>>
  ELSE SubSeq(stack, 1, CHOOSE i \in DOMAIN stack : IsOpen(stack[i]) /\ \A j \in DOMAIN stack : j > i => ~IsOpen(stack[j]))

StepBegins ==
  /\ pc = "observe" /\ step < task.steps
  /\ surfaces' = detectClosedAdoptedSurfaces(surfaces)
  /\ pc' = "ready" /\ result' = NoResult
  /\ UNCHANGED <<popupVars, routingVars, evidenceVars, step, adoptedCount, tracked, armed, baseline, popupOpened, navigated>>

(* go_back off the main surface: the child page is closed and its surface   *)
(* popped.                                                                  *)
returnToParentSurface ==
  /\ pc = "ready" /\ surfaces # <<>>
  /\ IF IsOpen(ActivePage) THEN Closes(ActivePage) ELSE UNCHANGED <<page, routing>>
  /\ surfaces' = Front(surfaces)
  /\ step' = step + 1 /\ pc' = "observe"
  /\ UNCHANGED <<task, adoption, listeners, seen, handled, evidenceVars, adoptedCount, tracked, armed, baseline,
                 popupOpened, navigated, result>>

(* executeClick up to the dispatch; the window's first mark is read before. *)
Presses ==
  /\ pc = "ready"
  /\ marks' = WindowOpens
  /\ armed' = ActivePage /\ baseline' = {p \in Pages : IsOpen(p)}
  /\ popupOpened' = NoPage /\ navigated' = FALSE
  /\ pc' = "pressing"
  /\ UNCHANGED <<popupVars, routingVars, captured, arrived, step, surfaces, adoptedCount, tracked, result>>

(* The target is gone, hidden, disabled, covered or its frame is away: no   *)
(* dispatch, the destination fallback at once.                              *)
NotActionable ==
  /\ pc = "ready"
  /\ marks' = WindowOpens
  /\ pc' = "falling"
  /\ UNCHANGED <<popupVars, routingVars, captured, arrived, step, surfaces, adoptedCount, tracked, armed, baseline,
                 popupOpened, navigated, result>>

Disarm == armed' = NoPage
PopupResolved == popupOpened # NoPage => adoption[popupOpened].phase \in {"adopted", "turned_away"}
engineRest == <<popupVars, routingVars, evidenceVars, step, surfaces, adoptedCount, tracked, baseline, navigated>>

(* The click returned.  A page that navigated is waited for; any other is   *)
(* let settle while popups are still looked for.                            *)
ClickReturns ==
  /\ pc = "pressing"
  /\ IF navigated THEN pc' = "landing" /\ Disarm ELSE pc' = "settling" /\ UNCHANGED armed
  /\ UNCHANGED <<engineRest, popupOpened, result>>

ClickThrows ==
  /\ pc = "pressing"
  /\ pc' = "failing" /\ Disarm
  /\ UNCHANGED <<engineRest, popupOpened, result>>

(* After a failed click its popup is waited for.  An error that is no       *)
(* timeout fails the click; a covered target with corroborated evidence of  *)
(* its own surface is a success; anything else takes the fallback.          *)
FailureAssessed(outcome) ==
  /\ pc = "failing" /\ PopupResolved
  /\ LET r == [NoResult EXCEPT !.opened = popupOpened # NoPage]
     IN  CASE outcome = "error"    -> result' = r /\ pc' = "answered"
           [] outcome = "surface"  -> result' = [r EXCEPT !.success = TRUE] /\ pc' = "answered"
           [] outcome = "fallback" -> result' = r /\ pc' = "falling"
  /\ UNCHANGED <<engineRest, popupOpened, armed>>

Settles ==
  /\ pc = "settling" /\ Disarm
  /\ IF navigated THEN pc' = "landing" /\ UNCHANGED result
     ELSE IF popupOpened # NoPage THEN pc' = "awaiting" /\ UNCHANGED result
     ELSE pc' = "answered" /\ result' = [NoResult EXCEPT !.success = TRUE]
  /\ UNCHANGED <<engineRest, popupOpened>>

(* The navigation came to a document inside the allowed domains, or not.    *)
Lands(ok) ==
  /\ pc = "landing"
  /\ pc' = "answered" /\ result' = [NoResult EXCEPT !.success = ok]
  /\ UNCHANGED <<engineRest, popupOpened, armed>>

PopupDecided ==
  /\ pc = "awaiting" /\ PopupResolved
  /\ IF adoption[popupOpened].phase = "adopted"
     THEN pc' = "answered" /\ result' = [NoResult EXCEPT !.success = TRUE, !.adopted = TRUE, !.opened = TRUE]
     ELSE pc' = "falling" /\ result' = [NoResult EXCEPT !.opened = TRUE]
  /\ UNCHANGED <<engineRest, popupOpened, armed>>

(* resolveUnactionableClick: a destination that may be visited is, and the  *)
(* visit counts as the click only when its effect is verified.              *)
resolveUnactionableClick(fallback) ==
  /\ pc = "falling" /\ pc' = "answered"
  /\ result' = CASE fallback = "verified"   -> [result EXCEPT !.success = TRUE, !.fallback = fallback]
                 [] fallback # "verified"   -> [result EXCEPT !.fallback = fallback]
  /\ UNCHANGED <<engineRest, popupOpened, armed>>

(* The answer is taken up without an await: middle marks, then an adopted   *)
(* popup becomes the active surface, its early listeners kept for the run.  *)
Answered ==
  /\ pc = "answered"
  /\ marks' = WindowMid
  /\ IF result.adopted
     THEN /\ surfaces' = Append(surfaces, popupOpened)
          /\ adoptedCount' = adoptedCount + 1
          /\ tracked' = tracked \cup {popupOpened}
          /\ routing' = describePage(routing, popupOpened, IF surfaces = <<>> THEN "adopted_popup" ELSE "nested_popup")
     ELSE UNCHANGED <<surfaces, adoptedCount, tracked, routing>>
  /\ pc' = "window"
  /\ UNCHANGED <<popupVars, handled, captured, arrived, step, armed, baseline, popupOpened, navigated, result>>

(* The quiet period is over and the step is counted; then, after the criteria were evaluated, the   *)
(* click is recorded with what its window holds.                            *)
WindowEnds ==
  /\ pc = "window"
  /\ marks' = WindowCloses
  /\ pc' = "recording" /\ step' = step + 1
  /\ UNCHANGED <<popupVars, routingVars, captured, arrived, surfaces, adoptedCount, tracked, armed, baseline,
                 popupOpened, navigated, result>>

Records(delta, pushAttached, consentVerified) ==
  /\ pc = "recording"
  /\ LET window == Slice(marks.start, marks.end)
         before == Slice(marks.start, marks.mid)
         status(s) == Guarded(window, delta, pushAttached, consentVerified, s)
     IN  result' = IF ~task.capture THEN result
                   ELSE [result EXCEPT
                     !.arrivals = marks.to - marks.from,
                     !.status = status(analyticsStatus(window, delta)),
                     !.primary = status(primaryClickEventStatus(window)),
                     !.segment = triggerSegment(window, before, delta, result.opened, result.fallback # "none")]
  /\ pc' = "observe"
  /\ marks' = NoMarks /\ popupOpened' = NoPage /\ navigated' = FALSE /\ baseline' = {}
  /\ UNCHANGED <<popupVars, routingVars, captured, arrived, step, surfaces, adoptedCount, tracked, armed>>

-----------------------------------------------------------------------------
(* The end of the run: the engine takes its listeners off, the runner       *)
(* detaches routing, closes the page and the browser.                       *)
RunEnds ==
  /\ pc = "observe"
  /\ pc' = "unrouting" /\ result' = NoResult
  /\ listeners' = [p \in Pages |-> IF p = Main \/ p \in tracked THEN 0 ELSE listeners[p]]
  /\ routing' = DetachBegins(routing)
  /\ UNCHANGED <<task, page, adoption, seen, handled, evidenceVars, step, surfaces, adoptedCount, tracked, armed,
                 baseline, popupOpened, navigated>>

Unrouted ==
  /\ pc = "unrouting" /\ pc' = "closing"
  /\ routing' = IF task.lowMemory THEN DetachEnds(routing) ELSE routing
  /\ UNCHANGED <<popupVars, handled, evidenceVars, step, surfaces, adoptedCount, tracked, armed, baseline, popupOpened,
                 navigated, result>>

BrowserCloses ==
  /\ pc = "closing" /\ pc' = "done"
  /\ page' = [p \in Pages |-> IF IsOpen(p) THEN "closed" ELSE page[p]]
  /\ UNCHANGED <<task, adoption, listeners, seen, routingVars, evidenceVars, step, surfaces, adoptedCount, tracked,
                 armed, baseline, popupOpened, navigated, result>>

FailureOutcomes == {"error", "surface", "fallback"}
Fallbacks == {"none", "verified", "unverified"}
Deltas == {"none", "new", "replaced"}

Engine ==
  \/ StepBegins \/ returnToParentSurface \/ Presses \/ NotActionable
  \/ ClickReturns \/ ClickThrows \/ \E o \in FailureOutcomes : FailureAssessed(o)
  \/ Settles \/ \E ok \in BOOLEAN : Lands(ok)
  \/ PopupDecided \/ \E f \in Fallbacks : resolveUnactionableClick(f)
  \/ Answered \/ WindowEnds
  \/ \E delta \in Deltas, pushAttached, consentVerified \in BOOLEAN : Records(delta, pushAttached, consentVerified)
  \/ RunEnds \/ Unrouted \/ BrowserCloses

Adopts(w) == AdoptionStep(w) /\ UNCHANGED <<evidenceVars, engineVars>>

Next == Engine \/ Browser \/ \E w \in Popups : Adopts(w)
(* Timers and bounded waits end every await of the engine and of a popup's  *)
(* function; the browser owes nothing.                                      *)
Spec == Init /\ [][Next]_vars /\ WF_vars(Engine) /\ \A w \in Popups : WF_vars(Adopts(w))

-----------------------------------------------------------------------------
TypeOK ==
  /\ RoutingTypeOK /\ PopupTypeOK /\ EvidenceTypeOK
  /\ pc \in Dispatching \cup Ended \cup {"observe", "ready", "answered", "window", "recording"}
  /\ step \in 0..task.steps /\ adoptedCount \in 0..task.steps
  /\ {surfaces[i] : i \in DOMAIN surfaces} \subseteq tracked /\ tracked \subseteq Popups
  /\ armed \in Pages \cup {NoPage} /\ popupOpened \in Popups \cup {NoPage} /\ baseline \subseteq Pages

(* While a popup is captured exactly one set of listeners writes for it,    *)
(* and none once it has been let go: no event is recorded twice and none    *)
(* after a popup was turned away, whichever way it was judged, claimed and  *)
(* left.  popupCapture.ts:252-258, 397-400, 445-452; state.ts:251-273       *)
ListenersMatchUse ==
  task.capture =>
    \A w \in Popups :
      listeners[w] = IF adoption[w].phase \in (Waiting \ {"closing"}) \cup {"adopted"} /\ ~(pc \in Ended /\ w \in tracked)
                     THEN 1 ELSE 0

(* A click reported to have no tag at all, capture having been healthy and  *)
(* complete, is one during which nothing was written: the marks taken at    *)
(* dispatch and after the quiet period bound everything that arrived in     *)
(* between, until the array has dropped its oldest entries.                 *)
(* loop.ts:1841-1853, 2259-2285, 2684-2694; boundedArray.ts:11-14           *)
NoTagMeansNothingArrived ==
  result.status = "WEBSITE_NO_OBSERVED_TAG" => result.arrivals = 0 \/ arrived > Cap

(* A dispatched click ends, whatever its popups do: one that closes under   *)
(* its assessment, one that is never claimed, two that open at once.        *)
(* click.ts:690-695, 820-850; popupCapture.ts:577-590, 622-625              *)
ClicksReturn == (pc \in Dispatching) ~> (pc = "observe")
=============================================================================
