--------------------------- MODULE PopupAdoption ---------------------------
(***************************************************************************)
(* What happens to a page a click opens: claimed by the click, instrumented *)
(* at once, judged for relevance, then adopted as a surface or captured     *)
(* and closed (src/capture-modules/popupCapture.ts, core/surfaceAdoption.ts, *)
(* core/surfaceRelevance.ts, core/surfaceFingerprint.ts).  Each popup is one *)
(* asynchronous function; its awaits are where other callbacks get in.      *)
(***************************************************************************)
EXTENDS ResourceRouting

CONSTANTS
  Tasks,          \* what a run may ask for, and the bounds of its scenario (below)
  Addresses,      \* where a popup may land: "own", "foreign", "blank"
  MaxAdopted,     \* safety.maxAdoptedSurfacesPerRun
  ExtendTrust,    \* domain policy extend_trust_from_landing
  AcceptConsent,  \* consentInteractionPolicy accept_optional
  Resolver        \* a relevance ambiguity resolver is configured

(* capture, adoption, low-memory mode and maxSteps are the run's; `requests' *)
(* and `events' bound what its browser does.                                *)
ASSUME TaskAssumption ==
  \A t \in Tasks : /\ {t.capture, t.adoption, t.lowMemory} \subseteq BOOLEAN
                   /\ {t.steps, t.requests, t.events} \subseteq Nat
ASSUME AdoptionAssumption ==
  /\ Addresses \subseteq {"own", "foreign", "blank"} /\ MaxAdopted \in Nat
  /\ {ExtendTrust, AcceptConsent, Resolver} \subseteq BOOLEAN

ReconsiderationInterval == 3
Tiers == {"adopt", "ambiguous", "reject"}

VARIABLES
  task,        \* the options of this run
  page,        \* page[p]: unborn, open or closed
  adoption,    \* adoption[w]: how far the popup's function has come
  listeners,   \* listeners[p]: how many sets of capture listeners write for p
  seen         \* the run's outcomes by fingerprint; no entry before the first

popupVars == <<task, page, adoption, listeners, seen>>

Waiting == {"loading", "assessing", "settling", "capturing", "closing"}
Unclaimed == [phase |-> "none", address |-> "none", cached |-> FALSE, count |-> 0, step |-> 0]

IsOpen(p) == page[p] = "open"
Attached == IF task.capture THEN 1 ELSE 0

(* claimPopupCandidate, as far as the popup is concerned.  Listeners go on  *)
(* before anything is awaited; a run that captures nothing and adopts       *)
(* nothing closes the popup at once.                                        *)
adoptOrCapturePopup(w, count, step) ==
  /\ adoption' = [adoption EXCEPT ![w] =
       [Unclaimed EXCEPT !.count = count, !.step = step,
                         !.phase = IF task.adoption THEN "loading"
                                   ELSE IF task.capture THEN "capturing" ELSE "closing"]]
  /\ listeners' = [listeners EXCEPT ![w] = @ + Attached]

-----------------------------------------------------------------------------
(* The decision: the run's budget, an address that can be read, the domain  *)
(* policy.                                                                  *)
decideSurfaceAdoption(count, address) ==
  /\ count < MaxAdopted
  /\ address # "blank"
  /\ address = "own" \/ ExtendTrust

(* adoptPopupForCapture with handles attached before: the capture window if *)
(* anything is captured, else only the close.                               *)
TurnedAway(a) == [a EXCEPT !.phase = IF task.capture THEN "capturing" ELSE "closing"]
Decided(a) == IF decideSurfaceAdoption(a.count, a.address) THEN [a EXCEPT !.phase = "settling"] ELSE TurnedAway(a)
Resolved(a, phase) == [Unclaimed EXCEPT !.phase = phase, !.step = a.step]

(* The fingerprint is the click's identity and the landing address; one     *)
(* control is clicked here, so the address tells fingerprints apart.  An    *)
(* outcome that was not "adopt" stands for the next attempts.               *)
reuseCachedRejection(address) ==
  /\ address \in DOMAIN seen
  /\ seen[address].tier # "adopt"
  /\ seen[address].attempts % ReconsiderationInterval # 0

recordPopupFingerprintOutcome(address, tier, relevant) ==
  LET before == IF address \in DOMAIN seen THEN seen[address].attempts ELSE 0
  IN  seen' = [x \in DOMAIN seen \cup {address} |->
                 IF x = address THEN [tier |-> tier, relevant |-> relevant, attempts |-> before + 1]
                 ELSE seen[x]]

(* domcontentloaded came, or its time was up, or the page closed.           *)
Loaded(w, address) ==
  /\ adoption[w].phase = "loading"
  /\ LET a == [adoption[w] EXCEPT !.address = address]
     IN  adoption' = [adoption EXCEPT ![w] =
           IF reuseCachedRejection(address) THEN [TurnedAway(a) EXCEPT !.cached = TRUE]
           ELSE IF a.count >= MaxAdopted THEN Decided(a)
           ELSE [a EXCEPT !.phase = "assessing"]]
  /\ UNCHANGED <<task, page, listeners, seen, routing, handled>>

(* assessSurfaceRelevance: the tier of the last score; an ambiguous one is  *)
(* relevant only when a resolver says so.  A surface that is not relevant   *)
(* may be scored once more behind its consent banner.                       *)
Verdicts == {[tier |-> "adopt", relevant |-> TRUE], [tier |-> "reject", relevant |-> FALSE],
             [tier |-> "ambiguous", relevant |-> FALSE]}
  \cup (IF Resolver THEN {[tier |-> "ambiguous", relevant |-> TRUE]} ELSE {})
attemptConsentOnlyCandidateResolution(v) == {v} \cup (IF AcceptConsent /\ ~v.relevant THEN Verdicts ELSE {})

Assessed(w, first, v) ==
  /\ adoption[w].phase = "assessing"
  /\ v \in attemptConsentOnlyCandidateResolution(first)
  /\ recordPopupFingerprintOutcome(adoption[w].address, v.tier, v.relevant)
  /\ adoption' = [adoption EXCEPT ![w] = IF v.relevant THEN Decided(@) ELSE TurnedAway(@)]
  /\ UNCHANGED <<task, page, listeners, routing, handled>>

(* The page closed or navigated while its document was read: the relevance  *)
(* gate is skipped.                                                         *)
AssessmentThrows(w) ==
  /\ adoption[w].phase = "assessing"
  /\ adoption' = [adoption EXCEPT ![w] = Decided(@)]
  /\ UNCHANGED <<task, page, listeners, seen, routing, handled>>

(* Adopted: the early listeners stay and are only retagged.                 *)
Settled(w) ==
  /\ adoption[w].phase = "settling"
  /\ adoption' = [adoption EXCEPT ![w] = Resolved(@, "adopted")]
  /\ UNCHANGED <<task, page, listeners, seen, routing, handled>>

(* Mutant: the finally block does not detach the listeners.                 *)
CapturedStillAttached(w) ==
  /\ adoption[w].phase = "capturing"
  /\ adoption' = [adoption EXCEPT ![w].phase = "closing"]
  /\ UNCHANGED <<task, page, listeners, seen, routing, handled>>
(* The end of the capture window and the finally block; what its snapshots  *)
(* add to the captured events is left out.                                  *)
Captured(w) ==
  /\ adoption[w].phase = "capturing"
  /\ adoption' = [adoption EXCEPT ![w].phase = "closing"]
  /\ listeners' = [listeners EXCEPT ![w] = 0]
  /\ UNCHANGED <<task, page, seen, routing, handled>>

Closes(w) ==
  /\ page' = [page EXCEPT ![w] = "closed"]
  /\ routing' = onClose(routing, w)

(* Mutant: the function waits for the close event of a page the site may    *)
(* have closed before.                                                      *)
ClosedWhenOpen(w) ==
  /\ adoption[w].phase = "closing" /\ IsOpen(w)
  /\ adoption' = [adoption EXCEPT ![w] = Resolved(@, "turned_away")]
  /\ Closes(w)
  /\ UNCHANGED <<task, listeners, seen, handled>>
ClosedAway(w) ==
  /\ adoption[w].phase = "closing"
  /\ adoption' = [adoption EXCEPT ![w] = Resolved(@, "turned_away")]
  /\ IF IsOpen(w) THEN Closes(w) ELSE UNCHANGED <<page, routing>>
  /\ UNCHANGED <<task, listeners, seen, handled>>

AdoptionStep(w) ==
  \/ \E x \in Addresses : Loaded(w, x)
  \/ \E first, v \in Verdicts : Assessed(w, first, v)
  \/ AssessmentThrows(w) \/ Settled(w) \/ Captured(w) \/ ClosedAway(w)

PopupTypeOK ==
  /\ task \in Tasks
  /\ page \in [Pages -> {"unborn", "open", "closed"}]
  /\ \A w \in Popups :
       /\ adoption[w].phase \in Waiting \cup {"none", "adopted", "turned_away"}
       /\ adoption[w].address \in Addresses \cup {"none"}
  /\ listeners \in [Pages -> Nat]
  /\ \A x \in DOMAIN seen : seen[x].tier \in Tiers /\ seen[x].attempts \in Nat \ {0}
=============================================================================
