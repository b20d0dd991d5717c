------------------------- MODULE ReasoningProvider -------------------------
(***************************************************************************)
(* One decision of the reasoning model: requests are repeated a bounded    *)
(* number of times, an answer that breaks the format or the consent policy *)
(* earns one corrective request, and what comes back is checked against    *)
(* the controls observed before it is used; else the run stops as blocked  *)
(* (src/reasoning/claudeReasoningProvider.ts, validateClaudeDecision.ts).  *)
(***************************************************************************)
EXTENDS Integers, Sequences, FiniteSets

CONSTANTS
  AllowedActions,  \* the task's safety.allowedActions
  Controls,        \* elements a page may show
  ConsentPolicy,   \* the task's consentInteractionPolicy
  Intents,         \* bound: the consentControlIntents the model reports
  ModelRetries,    \* config.maxRetries
  None             \* no element, no request, no decision

ACTION_TYPES == {"click", "scroll", "wait", "go_back", "navigate", "capture", "fill_form",
                 "stop_success", "stop_blocked", "stop_failure"}
ConsentControlIntents ==
  {"grants_optional_consent", "declines_optional_consent", "opens_consent_settings", "not_consent_related"}

ASSUME ProviderAssumption ==
  /\ AllowedActions \subseteq ACTION_TYPES /\ AllowedActions # {}
  /\ ConsentPolicy \in {"accept_optional", "do_not_interact", "essential_only", "reject_optional"}
  /\ Intents \subseteq ConsentControlIntents
  /\ ModelRetries \in {0, 1} /\ None \notin Controls

VARIABLES
  request,   \* the decision being asked for: attempt, requests sent, controls observed
  decision   \* the decision returned

providerVars == <<request, decision>>

-----------------------------------------------------------------------------
(* What the client returns: a payload of the schema, no parsed output, or   *)
(* an error by its category.                                                *)
buildClaudeDecisionSchema ==
  [action : AllowedActions, target : Controls \cup {None}, confident : BOOLEAN,
   inDomain : BOOLEAN, intent : Intents]
Uncorrectable == {"refusal", "malformed_output", "provider_error"}
BrokenFormat == {"response_parse_failed", "response_schema_invalid"}
CorrectiveRetryCategories == BrokenFormat \cup {"consent_policy_violation"}

isConsentIntentCompliant(intent) ==
  \/ intent \in {"not_consent_related", "opens_consent_settings"}
  \/ ConsentPolicy = "accept_optional" /\ intent = "grants_optional_consent"
  \/ ConsentPolicy \in {"essential_only", "reject_optional"} /\ intent = "declines_optional_consent"

Usable(payload, observed) ==
  /\ payload.action \in AllowedActions
  /\ payload.confident
  /\ payload.action = "click" => payload.target \in observed
  /\ payload.action = "navigate" => payload.inDomain

validateClaudeDecision(payload, observed) ==
  IF ~Usable(payload, observed) THEN "low_confidence"
  ELSE IF ~isConsentIntentCompliant(payload.intent) THEN "consent_policy_violation"
  ELSE "valid"

buildSelectedAction(payload) ==
  [action |-> payload.action, target |-> IF payload.action = "click" THEN payload.target ELSE None]
Fallback == [action |-> "stop_blocked", target |-> None]

-----------------------------------------------------------------------------
Asked == request # None
Answered == decision # None
Corrective == Asked /\ request.sent[Len(request.sent)] = "corrective"

decide(observed) ==
  /\ request' = [attempt |-> 0, sent |-> <<"plain">>, observed |-> observed]
  /\ decision' = None

Accepts(payload) ==
  /\ decision' = buildSelectedAction(payload)
  /\ UNCHANGED request

FallsBack == decision' = Fallback /\ UNCHANGED request

Sends(kind) ==
  /\ request' = [request EXCEPT !.attempt = @ + 1, !.sent = Append(@, kind)]
  /\ UNCHANGED decision

\* A corrective request taken for an ordinary attempt: the loop goes on after it.
AfterFailureGoesOn(reason) ==
  IF reason \in CorrectiveRetryCategories /\ "corrective" \notin {request.sent[i] : i \in DOMAIN request.sent}
  THEN Sends("corrective")
  ELSE IF request.attempt <= ModelRetries THEN Sends("plain")
  ELSE FallsBack

(* After a failed request: one corrective request, whose outcome is final,  *)
(* or the next plain one while attempts remain.                             *)
AfterFailure(reason) ==
  IF Corrective THEN FallsBack
  ELSE IF reason \in CorrectiveRetryCategories THEN Sends("corrective")
  ELSE IF request.attempt < ModelRetries THEN Sends("plain")
  ELSE FallsBack

attemptOnce ==
  /\ Asked /\ ~Answered
  /\ \/ \E payload \in buildClaudeDecisionSchema :
          LET verdict == validateClaudeDecision(payload, request.observed)
          IN  IF verdict = "valid" THEN Accepts(payload) ELSE AfterFailure(verdict)
     \/ \E reason \in Uncorrectable \cup BrokenFormat : AfterFailure(reason)

DecisionTaken == request' = None /\ decision' = None
=============================================================================
