--------------------------- MODULE EvidenceWindow ---------------------------
(***************************************************************************)
(* The evidence a run captures and the window of it one click owns          *)
(* (src/capture-modules/ga4NetworkEvents.ts, core/boundedArray.ts, the      *)
(* marks of core/loop.ts, analyticsCaptureClassification.ts).  The run      *)
(* keeps two arrays, requests and dataLayer pushes, and treats them alike;  *)
(* one is modelled.  It keeps the most recent Cap entries, and a window is  *)
(* a pair of array lengths.                                                 *)
(***************************************************************************)
EXTENDS PopupAdoption, SequencesExt

CONSTANTS
  Cap          \* MAX_GA4_NETWORK_EVENTS

(* What an event may say of itself; task.shapes are those of the scenario.  *)
ShapeFields == [virtual  : {"none", "page", "form"}, \* virtual-page or form metadata
                direct   : BOOLEAN,                  \* CTA identifier, label match or click event name
                dest     : {"none", "a", "b"},       \* destination the event itself names
                name     : {"none", "page_view", "other"},
                location : {"none", "near", "far"}]  \* page location, against the click's URLs
ASSUME EvidenceAssumption == Cap \in Nat \ {0} /\ \A t \in Tasks : t.shapes \subseteq ShapeFields

VARIABLES
  captured,   \* the array: [page, stepIndex, at, main, shape]
  arrived,    \* history: how many events were written since the run began
  marks       \* lengths at dispatch, at its answer and at the end; `from' the history at dispatch

evidenceVars == <<captured, arrived, marks>>
NoMarks == [start |-> 0, mid |-> 0, end |-> 0, from |-> 0, to |-> 0]

(* Entries pushed one after the other, the oldest dropped beyond Cap.       *)
appendBounded(array, entries) ==
  LET next == array \o entries
  IN  IF Len(next) > Cap THEN SubSeq(next, Len(next) - Cap + 1, Len(next)) ELSE next

(* A page fires a request or a push: every set of listeners writes it once. *)
(* The step recorded is read from the getter the listener was given: the    *)
(* run's counter on the main page, the opening step on a popup.             *)
Observed(p, shape, stepNow) ==
  LET w     == IF p = Main THEN Unclaimed ELSE adoption[p]
      entry == [page |-> p, stepIndex |-> IF p = Main THEN stepNow ELSE w.step, at |-> stepNow,
                main |-> p = Main \/ w.phase = "adopted", shape |-> shape]
  IN  /\ task.capture /\ IsOpen(p) /\ listeners[p] > 0
      /\ arrived + listeners[p] <= task.events
      /\ captured' = appendBounded(captured, [i \in 1..listeners[p] |-> entry])
      /\ arrived' = arrived + listeners[p]
      /\ UNCHANGED <<marks, popupVars, routingVars>>

WindowOpens == [NoMarks EXCEPT !.start = Len(captured), !.from = arrived]
WindowMid == [marks EXCEPT !.mid = Len(captured)]
(* Mutant: the window ends when the dispatch is answered, so what the quiet *)
(* period waited for is left out.                                           *)
WindowClosesAtAnswer == [marks EXCEPT !.end = marks.mid, !.to = arrived]
WindowCloses == [marks EXCEPT !.end = Len(captured), !.to = arrived]

(* slice(start, end): JavaScript indexes from 0 and never fails.            *)
Slice(from, to) == SubSeq(captured, from + 1, IF to < Len(captured) THEN to ELSE Len(captured))

-----------------------------------------------------------------------------
(* Classification of one event, in the code's order.                        *)
Confirming == {"CLICK_EVENT", "PHYSICAL_PAGE_CHANGE", "VIRTUAL_PAGE_CHANGE", "FORM_OR_CONFIGURATOR_STATE"}
classifyEvidenceItem(e) ==
  IF e.virtual = "page" THEN "VIRTUAL_PAGE_CHANGE"
  ELSE IF e.virtual = "form" THEN "FORM_OR_CONFIGURATOR_STATE"
  ELSE IF e.direct \/ e.dest # "none" THEN "CLICK_EVENT"
  ELSE IF e.name = "other" THEN "OTHER_MEANINGFUL_EVENT"
  ELSE IF e.location = "near" THEN "PHYSICAL_PAGE_CHANGE"
  ELSE IF e.location = "none" /\ e.name = "page_view" THEN "OTHER_MEANINGFUL_EVENT"
  ELSE "CORRELATION_UNRESOLVED"

Kinds(window) == {classifyEvidenceItem(window[i].shape) : i \in DOMAIN window}
Clicks(window) == SelectSeq(window, LAMBDA e : classifyEvidenceItem(e.shape) = "CLICK_EVENT")
clickEvidenceConflicts(window) ==
  {"a", "b"} \subseteq {Clicks(window)[i].shape.dest : i \in DOMAIN Clicks(window)}

(* computeCaptureHealth: the push listener attached, and no dataLayer was   *)
(* replaced with nothing seen in the window.                                *)
captureComplete(window, pushAttached, delta) == pushAttached /\ ~(delta = "replaced" /\ window = <<>>)

(* What both statuses of a click check first: consent, then completeness;   *)
(* `otherwise' is what the window shows.                                    *)
Guarded(window, delta, pushAttached, consentVerified, otherwise) ==
  IF AcceptConsent /\ ~consentVerified THEN "CAPTURE_UNCERTAIN_CONSENT_STATE"
  ELSE IF ~captureComplete(window, pushAttached, delta) THEN "ENGINE_CAPTURE_INCOMPLETE"
  ELSE otherwise

analyticsStatus(window, delta) ==
  IF Kinds(window) \cap Confirming # {} \/ delta = "new" THEN "CAPTURED"
  ELSE IF window # <<>> THEN "CORRELATION_UNRESOLVED" ELSE "WEBSITE_NO_OBSERVED_TAG"

primaryClickEventStatus(window) ==
  IF Clicks(window) # <<>>
  THEN IF clickEvidenceConflicts(window) THEN "CORRELATION_UNRESOLVED" ELSE "CAPTURED"
  ELSE IF "CORRELATION_UNRESOLVED" \in Kinds(window) THEN "CORRELATION_UNRESOLVED"
  ELSE "WEBSITE_NO_OBSERVED_CLICK_TAG"

(* Which part of the click the confirming evidence came from.               *)
triggerSegment(window, beforeMid, delta, openedNewContext, usedFallback) ==
  IF Kinds(window) \cap Confirming = {} /\ delta # "new" THEN "none"
  ELSE IF openedNewContext THEN "POPUP_OR_NEW_TAB"
  ELSE IF Kinds(beforeMid) \cap Confirming # {} THEN "PHYSICAL_CLICK"
  ELSE IF usedFallback THEN "FALLBACK_NAVIGATION" ELSE "DESTINATION_SETTLEMENT"

EvidenceTypeOK ==
  /\ Len(captured) <= Cap /\ arrived \in 0..task.events
  /\ \A i \in DOMAIN captured : captured[i].shape \in task.shapes /\ captured[i].page \in Pages
  /\ {marks.start, marks.mid, marks.end} \subseteq 0..Cap /\ marks.from <= arrived
=============================================================================
