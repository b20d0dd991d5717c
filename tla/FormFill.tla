------------------------------ MODULE FormFill ------------------------------
(***************************************************************************)
(* The fill_form action (src/actions/fillForm.ts, executeFillFormInner):   *)
(* fill the chosen form, answer its consent groups, pass the readiness     *)
(* gate, click Submit, observe, and decide whether one more Submit may be  *)
(* made.  The dealer lookup is seen through the outcome it reports.        *)
(***************************************************************************)
EXTENDS SubmissionObserver, ConsentGroups

CONSTANTS
  Fields,           \* controls of the chosen form other than radio groups
  Required,         \* those the form requires
  Dealer,           \* the dealer-lookup fields: at most one
  Phones,           \* phone fields
  Selects,          \* drop-downs
  MaxRetries,       \* corrections of one fill_form, before and after Submit
  MaxSubmitAttempts,
  LivelyFields,     \* bound: the fields the page changes on its own; the rest start shown and empty
  LivelyGroups,     \* bound: likewise for groups; the rest start within reach and unanswered
  MaxPolls,         \* polls for a dependent drop-down
  MaxGateAttempts,
  FallbackFlag      \* safety.allowOptionalConsentOptInFallbackForTest

ASSUME FieldAssumption ==
  /\ IsFiniteSet(Fields) /\ Fields \cap Groups = {}
  /\ Required \subseteq Fields /\ Phones \subseteq Fields /\ Selects \subseteq Fields
  /\ LivelyFields \subseteq Fields /\ LivelyGroups \subseteq Groups
  /\ Dealer \subseteq Fields /\ Cardinality(Dealer) <= 1
  /\ MaxRetries \in Nat /\ MaxSubmitAttempts \in Nat \ {0}
  /\ MaxPolls \in Nat /\ MaxGateAttempts \in Nat /\ FallbackFlag \in BOOLEAN

VARIABLES
  pc,        \* where the action stands
  shown,     \* the page: visible fields
  held,      \* the page: fields holding a value
  refused,   \* the page: fields the site's validator marks as invalid
  fill,      \* what the filling knows
  dealer,    \* what the dealer lookup last reported
  tries,     \* counters of the action
  attempt,   \* the last Submit attempt
  result     \* what the action returned

pageVars == <<shown, held, refused>>
fillVars == <<pc, pageVars, fill, dealer, tries, attempt, result>>
vars     == <<fillVars, observerVars, consentVars>>

(* "pending" is a lookup still in flight, the only state a retry can help. *)
DealerStates == {"untried", "not_triggered", "verified", "pending", "failed"}
DealerOpen == dealer \in {"pending", "failed"}


NoFill == [filled |-> {}, typed |-> {}, targets |-> {}, late |-> {}, actionable |-> FALSE,
           postcodes |-> FALSE, polls |-> 0, gate |-> 0]
NoTries == [retries |-> 0, clicks |-> 0, corrective |-> 0, recovered |-> FALSE,
            fallback |-> FALSE, next |-> "judge"]
NoAttempt == [made |-> FALSE, clicked |-> FALSE, succeeded |-> FALSE, invalid |-> {},
              cause |-> FALSE, rejection |-> FALSE, committed |-> {}, answer |-> "no_request",
              seen |-> NoObservation]
NoResult == [outcome |-> "none", submission |-> "none"]

Finish(outcome, submission) ==
  /\ pc' = "done"
  /\ result' = [outcome |-> outcome, submission |-> submission]

-----------------------------------------------------------------------------
(* Filling.                                                                *)

(* fillAllRequired on the fields `only': a field that holds a value counts *)
(* as filled and is left alone, the others are filled or cannot be.  The   *)
(* lookup types into its own field and reports what became of it.          *)
FillResults(only) ==
  LET targets == only \cap shown
      empty   == {f \in targets : f \notin held /\ f \in Required \cup Dealer}
      search  == Dealer \cap empty
  IN  {[held |-> held \cup done, typed |-> done, filled |-> done \cup (targets \cap held), dealer |-> d] :
         done \in {D \in SUBSET empty : search \subseteq D},
         d \in IF search = {} THEN {dealer} ELSE DealerStates \ {"untried"}}

Fill(only) ==
  \E r \in FillResults(only) :
    /\ held' = r.held /\ dealer' = r.dealer
    /\ fill' = [fill EXCEPT !.filled = @ \cup r.filled, !.typed = @ \cup r.typed]

CheckCaptcha ==
  /\ pc = "start"
  /\ \/ Finish("blocked_captcha", "none")
     \/ pc' = "gate" /\ UNCHANGED result
  /\ UNCHANGED <<pageVars, fill, dealer, tries, attempt, observerVars, consentVars>>

(* resolveLocationGate: a bounded number of tries; the form is looked for either way. *)
PassLocationGate ==
  /\ pc = "gate"
  /\ \/ pc' = "select" /\ UNCHANGED fill
     \/ /\ fill.gate < MaxGateAttempts
        /\ fill' = [fill EXCEPT !.gate = @ + 1] /\ UNCHANGED pc
  /\ UNCHANGED <<pageVars, dealer, tries, attempt, result, observerVars, consentVars>>

(* A form is filled only when one is chosen with confidence.               *)
SelectForm ==
  /\ pc = "select"
  /\ \/ Finish("no_form_found", "none")
     \/ Finish("form_discovery_failed", "none")
     \/ pc' = "fill" /\ UNCHANGED result
  /\ UNCHANGED <<pageVars, fill, dealer, tries, attempt, observerVars, consentVars>>

FillInitial ==
  /\ pc = "fill"
  /\ \E r \in FillResults(Fields), postcodes \in BOOLEAN :
       /\ held' = r.held /\ dealer' = r.dealer
       /\ fill' = [fill EXCEPT !.filled = r.filled, !.typed = r.typed, !.postcodes = postcodes,
                     !.targets = Required \cap shown,
                     !.actionable = (shown \cap (Required \cup Dealer)) \ held # {}]
  /\ pc' = "dependent"
  /\ UNCHANGED <<shown, refused, tries, attempt, result, observerVars, consentVars>>

(* A drop-down whose options depend on another is polled a bounded number of times. *)
PollDependentSelects ==
  LET waiting == (fill.targets \cap Selects) \ fill.filled IN
  /\ pc = "dependent"
  /\ IF waiting # {} /\ fill.polls < MaxPolls
       THEN /\ \E r \in FillResults(waiting) :
                 /\ held' = r.held /\ dealer' = r.dealer
                 /\ fill' = [fill EXCEPT !.filled = @ \cup r.filled, !.typed = @ \cup r.typed,
                                         !.polls = @ + 1]
            /\ UNCHANGED <<pc, consentVars>>
       ELSE /\ pc' = "consent" /\ StartScan
            /\ UNCHANGED <<held, dealer, fill>>
  /\ UNCHANGED <<shown, refused, tries, attempt, result, observerVars>>

AnswerConsents ==
  /\ pc = "consent"
  /\ ConsentStep
  /\ pc' = IF scan.phase = "settle" THEN "catch_up" ELSE "consent"
  /\ UNCHANGED <<pageVars, fill, dealer, tries, attempt, result, observerVars>>

(* One more pass for what the answers revealed; a form of which nothing was *)
(* filled is never submitted.                                               *)
CatchUp ==
  LET late == Required \cap shown IN
  /\ pc = "catch_up"
  /\ \E r \in FillResults(late \ fill.filled) :
       LET filled == fill.filled \cup r.filled IN
       /\ held' = r.held /\ dealer' = r.dealer
       /\ fill' = [fill EXCEPT !.filled = filled, !.typed = @ \cup r.typed, !.late = late]
       /\ IF \/ ~fill.actionable \/ filled = {}
             \/ fill.targets # {} /\ fill.targets \cap filled = {}
            THEN Finish("form_discovery_failed", "none")
            ELSE pc' = "ready" /\ UNCHANGED result
  /\ UNCHANGED <<shown, refused, tries, attempt, observerVars, consentVars>>

(* Only a lookup still in flight is polled again.                          *)
RetryDealer ==
  /\ pc = "ready" /\ dealer = "pending" /\ tries.retries < MaxRetries
  /\ dealer' \in DealerStates \ {"untried"}
  /\ tries' = [tries EXCEPT !.retries = @ + 1]
  /\ UNCHANGED <<pc, pageVars, fill, attempt, result, observerVars, consentVars>>

RefusedPhones == Phones \cap fill.typed \cap refused

Ready ==
  /\ fill.late \subseteq fill.filled
  /\ ~DealerOpen /\ ~fill.postcodes
  /\ consent.unresolvedRequired = {} /\ RefusedPhones = {}

(* The readiness gate, then the search for the Submit control.             *)
PassReadinessGate ==
  /\ pc = "ready" /\ ~(dealer = "pending" /\ tries.retries < MaxRetries)
  /\ \/ /\ ~Ready /\ Finish("form_validation_failed", "cancelled_before_request")
     \/ /\ Ready
        /\ \/ Finish("no_submit_control_found", "none")
           \/ pc' = "submit" /\ UNCHANGED result
  /\ UNCHANGED <<pageVars, fill, dealer, tries, attempt, observerVars, consentVars>>

-----------------------------------------------------------------------------
(* One Submit attempt.                                                     *)

(* With the opt-in enabled a silent first attempt is watched to the cap.   *)
WindowNotExtended == BaseWindow
Window == IF FallbackFlag /\ ~attempt.made THEN HardCap ELSE BaseWindow

(* A later attempt fills again what was committed and no longer is.        *)
RefreshTargets == IF attempt.made THEN (attempt.committed \cap shown) \ held ELSE {}

ClickSubmit ==
  /\ pc = "submit"
  /\ \E r \in FillResults(RefreshTargets) :
       /\ held' = r.held /\ dealer' = r.dealer
       /\ fill' = [fill EXCEPT !.filled = @ \cup r.filled, !.typed = @ \cup r.typed]
       /\ LET this == [NoAttempt EXCEPT !.made = TRUE, !.committed = Required \cap shown \cap r.held] IN
          \/ (* the control stays disabled: it is never clicked *)
             \E cause \in BOOLEAN :
               LET missing == (Required \cap shown) \ r.held
                   blocked == [this EXCEPT !.invalid = missing, !.cause = cause \/ missing # {}]
               IN  /\ attempt' = blocked
                   /\ pc' = tries.next
                   /\ UNCHANGED <<tries, observerVars>>
          \/ /\ attempt' = [this EXCEPT !.clicked = TRUE]
             /\ tries' = [tries EXCEPT !.clicks = @ + 1]
             /\ \E kinds \in {<<>>} \cup {<<k>> : k \in RequestKinds} :
                  Len(kinds) <= MaxRequests /\ BeginObservation(Window, kinds)
             /\ pc' = "observe"
  /\ UNCHANGED <<shown, refused, result, consentVars>>

Observe ==
  /\ pc = "observe"
  /\ ObserverStep
  /\ UNCHANGED <<fillVars, consentVars>>

Traffic ==
  /\ pc = "observe"
  /\ Network
  /\ UNCHANGED <<fillVars, consentVars>>

(* classifySubmissionResponses.                                            *)
ResponseCategory(rs) ==
  LET statuses == {r.status : r \in rs} \ {NoStatus} IN
  IF rs = {} THEN "no_request"
  ELSE IF \E s \in statuses : s >= 500 THEN "server_error"
  ELSE IF statuses \cap {401, 403, 429} # {} THEN "blocked_or_rate_limited"
  ELSE IF statuses \cap {400, 409, 422} # {} THEN "server_validation_rejected"
  ELSE IF statuses \cap {404, 405} # {} THEN "not_found"
  ELSE IF statuses \cap (200..299) # {} THEN "accepted"
  ELSE "failed_or_pending"

(* The capture runs on until a screenshot is taken; then what the attempt left *)
(* is read: nothing from a page that was left, nothing from a form that is gone *)
(* after a success.                                                        *)
CollectAttempt ==
  /\ pc = "observe" /\ watch.phase = "off"
  /\ \E gone, cause, rejection \in BOOLEAN, groups \in SUBSET (Actionable \cap MarkedRequired) :
       LET unread  == obs.urlChanged \/ gone
           invalid == IF unread THEN {}
                      ELSE (Required \cap shown \cap ((Fields \ held) \cup refused)) \cup groups
           done    == [attempt EXCEPT
                         !.succeeded = obs.terminal = "succeeded" /\ invalid = {},
                         !.invalid   = invalid,
                         !.cause     = IF obs.urlChanged THEN TRUE
                                       ELSE ~unread /\ (cause \/ invalid # {}),
                         !.rejection = ~unread /\ (rejection \/ invalid # {}),
                         !.answer    = ResponseCategory({reqs[i] : i \in BusinessRequests(reqs)}),
                         !.seen      = obs]
       IN  /\ gone => obs.terminal = "succeeded"
           /\ groups # {} => \A g \in groups : checked[g] = "none"
           /\ attempt' = done
  /\ reqs' = <<>> /\ obs' = NoObservation /\ UNCHANGED watch
  /\ pc' = tries.next
  /\ UNCHANGED <<pageVars, fill, dealer, tries, result, consentVars>>

-----------------------------------------------------------------------------
(* Whether one more Submit is made.                                        *)

LandedByEvidence ==
  /\ attempt.seen.detected
  /\ \/ attempt.seen.business.outcome = "pending"
     \/ attempt.seen.business.status # NoStatus /\ attempt.seen.business.status < 400

RecoveryPossible ==
  attempt.clicked /\ dealer # "pending" /\ ~tries.recovered /\ attempt.rejection
CorrectionPossible ==
  attempt.clicked /\ (dealer = "pending" \/ attempt.invalid # {} \/ RecoveryPossible)

MayRetryWithoutCeiling ==
  ~attempt.succeeded /\ tries.retries < MaxRetries /\ ~LandedByEvidence /\ CorrectionPossible
MayRetryUnlessPending ==
  /\ ~attempt.succeeded /\ tries.retries < MaxRetries
  /\ attempt.seen.business.outcome # "pending"
  /\ CorrectionPossible /\ tries.clicks < MaxSubmitAttempts

MayRetry ==
  /\ ~attempt.succeeded /\ tries.retries < MaxRetries
  /\ ~LandedByEvidence /\ CorrectionPossible /\ tries.clicks < MaxSubmitAttempts

StopRetrying ==
  /\ pc = "judge" /\ ~MayRetry
  /\ pc' = "fallback"
  /\ UNCHANGED <<pageVars, fill, dealer, tries, attempt, result, observerVars, consentVars>>

Corrected(next) == [tries EXCEPT !.retries = @ + 1, !.corrective = @ + 1, !.next = next]

ReadyAfterRecovery ==
  /\ ~DealerOpen /\ RefusedPhones = {}
  /\ \A g \in Actionable \cap MarkedRequired : checked'[g] # "none"

(* Rejected groups are declined where that is proven safe.  When nothing   *)
(* else was rejected, the one recovery Submit follows only if every one of *)
(* them is answered and the gate passes again; else the refill goes on.    *)
RecoverConsents ==
  /\ pc = "judge" /\ MayRetry /\ RecoveryPossible
  /\ \E rejected \in SUBSET Found, outside \in BOOLEAN, verified \in SUBSET Groups :
       /\ attempt.invalid \cap Found \subseteq rejected
       /\ attempt.invalid \cap Fields # {} => outside
       /\ RecoverGroups(rejected, verified)
       /\ IF (rejected # {} /\ ~outside) \/ attempt.invalid = {}
            THEN IF RecoveryAnswered(rejected, verified) /\ ~outside /\ ReadyAfterRecovery
                   THEN /\ tries' = [Corrected("fallback") EXCEPT !.recovered = TRUE]
                        /\ pc' = "submit"
                   ELSE /\ tries' = [tries EXCEPT !.recovered = TRUE]
                        /\ pc' = "fallback"
            ELSE tries' = [tries EXCEPT !.recovered = TRUE] /\ pc' = "correct"
  /\ UNCHANGED <<pageVars, fill, dealer, attempt, result, observerVars>>

(* The dealer lookup is polled again, or the invalid fields are filled again. *)
CorrectAndResubmit ==
  /\ \/ pc = "correct"
     \/ pc = "judge" /\ MayRetry /\ ~RecoveryPossible
  /\ IF dealer = "pending"
       THEN dealer' \in DealerStates \ {"untried"} /\ UNCHANGED <<held, fill>>
       ELSE Fill(attempt.invalid \cap Fields)
  /\ tries' = Corrected("judge")
  /\ pc' = "submit"
  /\ UNCHANGED <<shown, refused, attempt, result, observerVars, consentVars>>

(* classifySubmitAttempt, as the fallback reads the first attempt.         *)
AttemptOutcome(a, declineFailed) ==
  IF a.succeeded THEN "succeeded"
  ELSE IF ~a.clicked THEN "submit_blocked_before_click"
  ELSE IF a.seen.terminal \in {"blocked_or_challenged", "server_rejected", "server_error"} THEN a.seen.terminal
  ELSE IF a.seen.terminal = "validation_failed" \/ a.cause THEN "validation_failed"
  ELSE IF a.seen.detected
    THEN IF a.seen.business.outcome = "pending" THEN "business_request_pending"
         ELSE IF a.seen.business.status \in 100..399 THEN "business_request_accepted_unconfirmed"
         ELSE "business_request_outcome_unknown"
  ELSE IF declineFailed THEN "consent_state_not_committed"
  ELSE "cancelled_before_business_request"

FirstSucceeded == attempt.succeeded /\ tries.corrective = 0

(* evaluateFallbackEligibility: every guard of the test-only second Submit. *)
(* They speak of the first attempt, which is the last one unless a         *)
(* correction was submitted, and then none is eligible.                    *)
Eligible(challengeNow, usableNow, duplicateStatus) ==
  LET o == attempt.seen IN
  /\ FallbackFlag
  /\ attempt.clicked
  /\ o.total >= o.minimum
  /\ ~attempt.succeeded /\ ~o.confirmed
  /\ ~o.detected /\ o.business.outcome # "pending" /\ o.business.status \notin 100..399
  /\ o.terminal = "unknown_outcome" /\ ~o.progress /\ ~attempt.cause
  /\ ~challengeNow /\ ~duplicateStatus
  /\ o.formPresent /\ ~o.disabled /\ usableNow
  /\ AttemptOutcome(attempt, consent.declineFailed # {}) \in
       {"cancelled_before_business_request", "consent_state_not_committed"}
  /\ consent.optionalAnswerable # {} /\ consent.optionalObscured = {}
  /\ tries.clicks = 1 /\ tries.corrective = 0 /\ tries.clicks < MaxSubmitAttempts

(* The optional groups are read again, then the guards are evaluated.      *)
RereadOptionalConsents ==
  /\ pc = "fallback" /\ ~FirstSucceeded /\ FallbackFlag
  /\ Rediscover
  /\ pc' = IF scan'.phase = "off" THEN "eligible" ELSE "fallback"
  /\ UNCHANGED <<pageVars, fill, dealer, tries, attempt, result, observerVars>>

SkipFallback ==
  /\ pc = "fallback" /\ (FirstSucceeded \/ ~FallbackFlag)
  /\ pc' = "report"
  /\ UNCHANGED <<pageVars, fill, dealer, tries, attempt, result, observerVars, consentVars>>

DecideFallback ==
  /\ pc = "eligible"
  /\ \E challengeNow, usableNow, duplicateStatus \in BOOLEAN :
       IF ~Eligible(challengeNow, usableNow, duplicateStatus)
         THEN pc' = "report" /\ UNCHANGED <<tries, consentVars>>
         ELSE \E verified \in SUBSET Groups :
                /\ OptIn(verified)
                /\ IF OptInVerified(verified)
                     THEN /\ pc' = "submit"
                          /\ tries' = [tries EXCEPT !.fallback = TRUE, !.next = "report"]
                     ELSE pc' = "report" /\ UNCHANGED tries
  /\ UNCHANGED <<pageVars, fill, dealer, attempt, result, observerVars>>

(* The submission outcome the response reports for the last attempt.       *)
SubmissionOutcomeSilenceFirst(a) ==
  IF a.succeeded THEN "succeeded"
  ELSE IF ~a.clicked \/ a.answer = "no_request" THEN "cancelled_before_request"
  ELSE IF a.seen.terminal \in {"server_rejected", "server_error", "validation_failed"} THEN a.seen.terminal
  ELSE IF a.seen.terminal = "blocked_or_challenged" THEN "blocked_or_rate_limited"
  ELSE IF a.cause THEN "validation_failed" ELSE "unconfirmed"

SubmissionOutcome(a) ==
  IF a.succeeded THEN "succeeded"
  ELSE IF ~a.clicked THEN "cancelled_before_request"
  ELSE IF a.seen.terminal = "blocked_or_challenged" \/ a.answer = "blocked_or_rate_limited"
    THEN "blocked_or_rate_limited"
  ELSE IF a.seen.terminal = "server_rejected" \/ a.answer = "server_validation_rejected"
    THEN "server_rejected"
  ELSE IF a.seen.terminal = "server_error" \/ a.answer = "server_error" THEN "server_error"
  ELSE IF a.seen.terminal = "validation_failed" \/ a.cause THEN "validation_failed"
  ELSE IF a.answer = "no_request" THEN "cancelled_before_request"
  ELSE IF a.answer \in {"accepted", "failed_or_pending"} THEN "unconfirmed"
  ELSE "cancelled_unknown_cause"

Report ==
  /\ pc = "report"
  /\ Finish(IF attempt.succeeded THEN "submitted"
            ELSE IF attempt.cause THEN "form_validation_failed" ELSE "validation_cause_not_observed",
            SubmissionOutcome(attempt))
  /\ UNCHANGED <<pageVars, fill, dealer, tries, attempt, observerVars, consentVars>>

-----------------------------------------------------------------------------
(* The page changes on its own between two readings: fields appear, lose   *)
(* their value, are marked or cleared by the site's validator.  A change   *)
(* no later step can read is not told apart.                               *)
FieldsRead ==
  \/ pc \in {"dependent", "catch_up", "ready", "submit"}
  \/ pc = "observe" /\ watch.phase = "off"
  \/ pc = "judge" /\ MayRetry

PageMovesField(f) ==
  /\ FieldsRead
  /\ \/ f \notin shown /\ shown' = shown \cup {f} /\ UNCHANGED <<held, refused>>
     \/ f \in held /\ held' = held \ {f} /\ refused' = refused \ {f} /\ UNCHANGED shown
     \/ f \in held \ refused /\ refused' = refused \cup {f} /\ UNCHANGED <<shown, held>>
     \/ f \in refused /\ refused' = refused \ {f} /\ UNCHANGED <<shown, held>>
  /\ UNCHANGED <<pc, fill, dealer, tries, attempt, result, observerVars, consentVars>>

GroupsRead ==
  \/ pc = "consent" /\ scan.phase \in {"discover", "settle"}
  \/ pc = "judge" /\ MayRetry /\ RecoveryPossible
  \/ pc = "fallback" /\ FallbackFlag /\ ~attempt.succeeded /\ tries.corrective = 0

PageMovesConsent(g) ==
  /\ GroupsRead
  /\ PageMovesGroup(g)
  /\ UNCHANGED <<fillVars, observerVars>>

Init ==
  /\ pc = "start"
  /\ shown \in {Fields \ S : S \in SUBSET LivelyFields} /\ held \in SUBSET LivelyFields /\ refused = {}
  /\ fill = NoFill /\ dealer = "untried" /\ tries = NoTries
  /\ attempt = NoAttempt /\ result = NoResult
  /\ ObserverInit /\ ConsentInit
  /\ \A g \in Groups \ LivelyGroups : reach[g] = "actionable" /\ checked[g] = "none"

Step ==
  \/ CheckCaptcha \/ PassLocationGate \/ SelectForm \/ FillInitial \/ PollDependentSelects
  \/ AnswerConsents \/ CatchUp \/ RetryDealer \/ PassReadinessGate
  \/ ClickSubmit \/ CollectAttempt
  \/ StopRetrying \/ RecoverConsents \/ CorrectAndResubmit
  \/ RereadOptionalConsents \/ SkipFallback \/ DecideFallback \/ Report

Page == (\E f \in LivelyFields : PageMovesField(f)) \/ (\E g \in LivelyGroups : PageMovesConsent(g))
Done == pc = "done" /\ UNCHANGED vars

Next == Step \/ Observe \/ Traffic \/ Page \/ Done

(* The engine's own steps are awaited calls with timeouts and go on; neither *)
(* the page nor the site's servers owe it anything.                        *)
Fairness == WF_vars(Step) /\ WF_vars(Observe)
Spec == Init /\ [][Next]_vars /\ Fairness

-----------------------------------------------------------------------------
Places == {"start", "gate", "select", "fill", "dependent", "consent", "catch_up", "ready", "submit",
           "observe", "judge", "correct", "fallback", "eligible", "report", "done"}

TypeOK ==
  /\ ObserverTypeOK /\ ConsentTypeOK
  /\ pc \in Places
  /\ shown \subseteq Fields /\ held \subseteq Fields /\ refused \subseteq Fields
  /\ fill.filled \subseteq Fields /\ fill.typed \subseteq fill.filled
  /\ fill.polls \in 0..MaxPolls /\ fill.gate \in 0..MaxGateAttempts
  /\ dealer \in DealerStates
  /\ tries.retries \in 0..MaxRetries /\ tries.next \in Places
  /\ attempt.invalid \subseteq Fields \cup Groups /\ attempt.committed \subseteq Fields

(* No more Submit clicks are made than allowed, two in the code, and one   *)
(* after the first follows either corrections of a rejected attempt or the *)
(* test-only opt-in, never both and never one after the other              *)
(* (submitAttemptPlan.ts:6 and the three paths of fillForm.ts that click   *)
(* again).                                                                 *)
ClickBudget ==
  /\ tries.clicks <= MaxSubmitAttempts
  /\ tries.clicks > 1 => tries.fallback # (tries.corrective > 0)
  /\ tries.fallback => tries.corrective = 0

(* No path clicks Submit again after an attempt whose observation ended on *)
(* a lead request the site accepted or still owed an answer to             *)
(* (fillForm.ts:2182, the guard of the corrections, and the eligibility of *)
(* the opt-in, which tests it in other words).                             *)
SecondClickAfterRefusal ==
  [][tries.clicks > 0 /\ tries'.clicks > tries.clicks => ~LandedByEvidence]_vars

(* What a failed fill_form reports agrees with both records of its last    *)
(* attempt, the observer's and the capture's, which are read at different  *)
(* moments: "before any request" only when neither holds a lead request,   *)
(* "unconfirmed" never over a refusal the observer has a name for, unless  *)
(* requests that only read are lead requests too (a later one that writes  *)
(* takes their place), and whatever made the observer give up early is     *)
(* never overruled by a request it did not see (fillForm.ts:2416-2432).    *)
OutcomeAgreesWithEvidence ==
  pc = "done" /\ attempt.clicked /\ ~attempt.succeeded =>
    /\ result.submission = "cancelled_before_request" =>
         ~attempt.seen.detected /\ attempt.answer = "no_request"
    /\ (\A kind \in RequestKinds : Tier(kind) # "secondary") /\ result.submission = "unconfirmed" =>
         ResponseState(attempt.seen.business.status) = "none"
    /\ attempt.seen.terminal \notin {"unknown_outcome", "succeeded"} =>
         result.submission \in {"validation_failed", "server_rejected", "server_error", "blocked_or_rate_limited"}

(* Optional commercial consent is given on behalf of nobody outside the    *)
(* test-only opt-in, and a processing consent only where the form marks it *)
(* required; answers to recoveries are declines (consentGroups.ts:954-987, *)
(* 1121-1150 and 1199-1264).                                               *)
OptionalConsentGuarded ==
  \A c \in chosen :
    /\ Purpose[c[1]] = "optional_commercial" /\ c[2] = "positive" => c[3] = "opt_in" /\ FallbackFlag
    /\ Purpose[c[1]] = "required_processing" => c[3] = "resolution" /\ c[1] \in MarkedRequired
    /\ Purpose[c[1]] = "ambiguous" => FALSE

(* When the opt-in Submit is about to be clicked, the first attempt was    *)
(* watched to the hard cap without a lead request on record or anything in *)
(* progress, and every optional group within reach reads as accepted on    *)
(* the page (submitAttemptPlan.ts:80-133, fillForm.ts:1946 and 2302).      *)
FallbackJustified ==
  pc = "submit" /\ tries.fallback =>
    /\ attempt.seen.total >= HardCap
    /\ ~attempt.seen.detected /\ ~attempt.seen.progress
    /\ Optional(Actionable) # {} /\ \A g \in Optional(Actionable) : checked[g] = "positive"

(* Whatever the page and the servers do, fill_form returns: every poll,    *)
(* rescan, retry and observation is bounded (fillForm.ts:1339-2583).       *)
Terminates == <>(pc = "done")
=============================================================================
