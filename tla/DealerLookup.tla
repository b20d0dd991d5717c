---------------------------- MODULE DealerLookup ----------------------------
(***************************************************************************)
(* The dealer lookup of a lead form: a postcode is typed, the lookup is    *)
(* coaxed into starting, a location and then a dealer are selected and the *)
(* selection is verified; a lookup still in flight at the end is polled    *)
(* again (src/actions/dealerLookup.ts, dealerLookupNetwork.ts,             *)
(* dealerLookupProbe.ts, and the calls of it in fillForm.ts).  The page    *)
(* renders, replaces and commits what it likes, whenever it likes.         *)
(***************************************************************************)
EXTENDS Integers, Sequences, FiniteSets

CONSTANTS
  Results,        \* elements a widget may render as a result
  Choices,        \* those with a role of their own: radio, option
  InScope,        \* those inside the widget; the others are rendered elsewhere on the page
  Lookups,        \* lookup requests the page may send
  Widgets,        \* the pages: which results, requests, commits and controls they may produce
  StaleRefinds,   \* STALE_RESULT_REFINDS
  FollowUps,      \* DEALER_FOLLOW_UP_SELECTIONS
  MaxRetries,     \* MAX_RETRIES of fillForm.ts
  None            \* no result

ASSUME DealerAssumption ==
  /\ Choices \subseteq Results /\ InScope \subseteq Results /\ None \notin Results
  /\ StaleRefinds \in Nat /\ FollowUps \in Nat /\ MaxRetries \in Nat
  /\ Widgets \subseteq [results : SUBSET Results, lookups : SUBSET Lookups, commits : Nat,
                        busy : BOOLEAN, confirm : BOOLEAN, searches : BOOLEAN]

VARIABLES
  widget,     \* the page's bounds
  lookup,     \* each lookup request: unsent, in flight, or how it was answered
  shown,      \* results on the page now
  rendered,   \* results that have been on the page
  signs,      \* busy indicator, expanded list, hidden identifiers committed, confirm control, selected marks
  marks,      \* the attributes the lookup puts on elements
  captured,   \* requests the network capture of this call has seen
  pc,         \* where the lookup is
  call,       \* the state of the call of resolveDealerLookup
  outcome,    \* what the call reports
  retries,    \* re-polls made
  offered     \* history: results on the page when a selection was clicked

pageVars == <<widget, lookup, shown, rendered, signs>>
vars == <<pageVars, marks, captured, pc, call, outcome, retries, offered>>

-----------------------------------------------------------------------------
InFlight == {q \in captured : lookup[q] = "in_flight"}
Visible(kinds) == shown \cap kinds

(* The discovery tiers, most to least specific; the first that finds        *)
(* anything decides.                                                        *)
inScopeAuthoritative == Visible(Choices \cap InScope) \ marks.activated
firstNewCandidate == Visible(InScope \ Choices) \ (marks.baseline \cup marks.activated)
pageWideNewAuthoritative == Visible(Choices \ InScope) \ (marks.activated \cup marks.page)
probeFindResult == (Visible(Results \ InScope) \cap marks.since) \ marks.activated
Tiers == <<inScopeAuthoritative, firstNewCandidate, pageWideNewAuthoritative, probeFindResult>>
findResultOnce ==
  LET found == {i \in DOMAIN Tiers : Tiers[i] # {}}
  IN  IF found = {} THEN {} ELSE Tiers[CHOOSE i \in found : \A j \in found : i <= j]

(* An identifier that was not there at the snapshot.                       *)
detectHiddenCommit(before) == signs.hidden > before

markStage(m) == [m EXCEPT !.since = {}]
markBaselineCandidates(m) == [m EXCEPT !.baseline = @ \cup Visible(InScope \ Choices)]
\* Elements with a role of their own are marked, visible or not: in the widget no tier asks for this mark.
markPageBaseline(m, hidden) == [m EXCEPT !.page = @ \cup Visible(Choices) \cup hidden]
retireNothing(m) == m
retireVisibleStageResults(m) == [m EXCEPT !.activated = @ \cup Visible(Choices)]
baselineStageBeforeClick(m, r) ==
  markStage(markBaselineCandidates(retireVisibleStageResults([m EXCEPT !.activated = @ \cup {r}])))

-----------------------------------------------------------------------------
NoMarks == [activated |-> {}, baseline |-> {}, page |-> {}, since |-> {}]
Nothing == [suggestions |-> FALSE, dealers |-> FALSE, selected |-> FALSE, verified |-> FALSE,
            how |-> "unresolved", recommendation |-> "none"]
NewCall(mode) ==
  [mode |-> mode, key |-> 0, retained |-> TRUE, active |-> FALSE, listed |-> FALSE,
   waited |-> FALSE, extended |-> FALSE, pending |-> FALSE,
   stage |-> "location", found |-> None, refinds |-> 0, selection |-> 0,
   location |-> None, before |-> 0, baseline |-> 0, after |-> 0, verified |-> FALSE, confirmed |-> FALSE]

Init ==
  /\ widget \in Widgets
  /\ lookup = [q \in Lookups |-> "unsent"]
  /\ shown \in {{}, widget.results \cap InScope} /\ rendered = shown
  /\ signs = [busy |-> FALSE, listed |-> FALSE, hidden |-> 0, chosen |-> "no",
              control |-> IF widget.confirm THEN "shown" ELSE "absent"]
  /\ marks = NoMarks /\ captured = {}
  /\ pc = "begin" /\ call = NewCall("full") /\ outcome = Nothing /\ retries = 0 /\ offered = {}

(***************************************************************************)
(* The page and the network.  They act while the lookup awaits; each kind   *)
(* of event is listed where the lookup is about to read what it changes,    *)
(* as one that came earlier is read no sooner.                              *)
(***************************************************************************)
engineVars == <<pc, outcome, retries, offered>>

Sends(q) ==
  /\ pc \in {"typing", "observing", "polling"}
  /\ q \in widget.lookups /\ lookup[q] = "unsent"
  /\ lookup' = [lookup EXCEPT ![q] = "in_flight"]
  /\ captured' = captured \cup {q}
  /\ call' = [call EXCEPT !.active = pc = "observing"]
  /\ UNCHANGED <<widget, shown, rendered, signs, marks, engineVars>>

Answers(q, how) ==
  /\ pc \in {"lapsing", "stopping"} /\ lookup[q] = "in_flight"
  /\ lookup' = [lookup EXCEPT ![q] = how]
  /\ UNCHANGED <<widget, shown, rendered, signs, marks, captured, call, engineVars>>

Looking == {"begin", "observing", "polling", "clicking", "pressed", "refinding", "noting", "confirming"}
Renders(r) ==
  /\ pc \in Looking /\ r \in widget.results \ rendered
  /\ shown' = shown \cup {r} /\ rendered' = rendered \cup {r}
  /\ marks' = [marks EXCEPT !.since = @ \cup {r}]
  /\ UNCHANGED <<widget, lookup, signs, captured, call, engineVars>>

Removes(r) ==
  /\ pc \in Looking /\ r \in shown
  /\ shown' = shown \ {r}
  /\ UNCHANGED <<widget, lookup, rendered, signs, marks, captured, call, engineVars>>

Signals ==
  /\ \/ /\ widget.busy /\ pc \in {"observing", "pressing", "lapsing"}
        /\ signs' = [signs EXCEPT !.busy = ~@]
     \/ /\ widget.busy /\ ~signs.listed /\ pc = "observing"
        /\ signs' = [signs EXCEPT !.listed = TRUE]
     \/ /\ signs.hidden < widget.commits
        /\ pc \in {"begin", "giving_up", "selecting", "committing", "noting", "concluding"}
        /\ signs' = [signs EXCEPT !.hidden = @ + 1]
     \/ /\ pc = "committing" /\ signs.chosen = "no"
        /\ \E how \in {"state", "section"} : signs' = [signs EXCEPT !.chosen = how]
  /\ UNCHANGED <<widget, lookup, shown, rendered, marks, captured, call, engineVars>>

Answer == {"records", "empty", "failed", "unreadable"}
Page ==
  \/ \E q \in Lookups : Sends(q) \/ \E how \in Answer : Answers(q, how)
  \/ \E r \in Results : Renders(r) \/ Removes(r)
  \/ Signals

-----------------------------------------------------------------------------
(* The call begins: hidden inputs are snapshot, what is on the page is      *)
(* marked as old, some of it not visible yet; the generic candidates only   *)
(* when visible, and when the value is about to be typed.                   *)
Begins ==
  /\ pc = "begin"
  /\ \E hidden \in SUBSET ((Choices \cap widget.results) \ (InScope \cup shown)) :
       marks' = markStage(markPageBaseline(IF call.mode = "full" THEN markBaselineCandidates(marks) ELSE marks, hidden))
  /\ captured' = {}
  /\ call' = [call EXCEPT !.baseline = signs.hidden, !.listed = signs.listed]
  /\ pc' = IF call.mode = "full" THEN "typing" ELSE "polling"
  /\ UNCHANGED <<pageVars, outcome, retries, offered>>

(* Real keystrokes, or fill when the field did not keep them.  The step's   *)
(* own activity is recorded; the observation that follows starts afresh.    *)
Typed(retained) ==
  /\ pc = "typing"
  /\ call' = [call EXCEPT !.retained = retained, !.active = FALSE, !.listed = signs.listed]
  /\ pc' = "observing"
  /\ UNCHANGED <<pageVars, marks, captured, outcome, retries, offered>>

fullStageWait(c, stage) == [c EXCEPT !.stage = stage, !.extended = FALSE, !.pending = FALSE]

Keys == 1..(IF widget.searches THEN 4 ELSE 3)   \* ArrowDown, Enter, Tab and the trigger, unless it geolocates
Activity == call.active \/ signs.busy \/ (signs.listed /\ ~call.listed)
(* The ladder's next rung, or, no result having come, the wait that is owed. *)
NextRung(c) ==
  IF c.key + 1 \in Keys THEN "pressing" ELSE IF c.waited THEN "giving_up" ELSE "polling"

observeStep ==
  /\ pc = "observing"
  /\ LET seen == [call EXCEPT !.listed = signs.listed]
     IN  \/ /\ findResultOnce # {}
            /\ \E r \in findResultOnce : call' = [seen EXCEPT !.found = r]
            /\ pc' = "selecting"
         \/ /\ findResultOnce = {}
            /\ call' = IF Activity \/ NextRung(call) = "polling" THEN fullStageWait(seen, "location") ELSE seen
            /\ pc' = IF Activity THEN "polling" ELSE NextRung(call)
  /\ UNCHANGED <<pageVars, marks, captured, outcome, retries, offered>>

(* A lookup that was awaited and is still running is not pressed over.      *)
Escalates ==
  /\ pc = "pressing"
  /\ IF call.waited /\ (call.pending \/ signs.busy)
     THEN pc' = "giving_up" /\ UNCHANGED call
     ELSE pc' = "observing" /\ call' = [call EXCEPT !.key = @ + 1, !.active = FALSE]
  /\ UNCHANGED <<pageVars, marks, captured, outcome, retries, offered>>

(* One stage's bounded wait.  A look, then, at the deadline, one extension  *)
(* when the page is busy or a lookup this capture saw start is unanswered.  *)
pollForStageResult ==
  /\ pc = "polling"
  /\ IF findResultOnce # {}
     THEN pc' = "selecting" /\ \E r \in findResultOnce : call' = [call EXCEPT !.found = r]
     ELSE pc' = "lapsing" /\ UNCHANGED call
  /\ UNCHANGED <<pageVars, marks, captured, outcome, retries, offered>>

MayExtendAgain(c) == TRUE
MayExtend(c) == ~c.extended
Extends ==
  /\ pc = "lapsing" /\ MayExtend(call) /\ (signs.busy \/ InFlight # {})
  /\ call' = [call EXCEPT !.extended = TRUE, !.pending = InFlight # {}]
  /\ pc' = "polling"
  /\ UNCHANGED <<pageVars, marks, captured, outcome, retries, offered>>

TimesOut ==
  /\ pc = "lapsing" /\ ~(MayExtend(call) /\ (signs.busy \/ InFlight # {}))
  /\ call' = [call EXCEPT !.pending = @ \/ InFlight # {}, !.waited = @ \/ call.stage = "location"]
  /\ pc' = CASE call.stage = "location" -> IF call.mode = "full" THEN NextRung([call EXCEPT !.waited = TRUE]) ELSE "giving_up"
             [] call.stage = "dealer"   -> "concluding"
             [] call.stage = "followup" -> "reporting"
  /\ UNCHANGED <<pageVars, marks, captured, outcome, retries, offered>>

GivesUpOnAnyIdentifier ==
  /\ pc = "giving_up"
  /\ outcome' = IF signs.hidden > 0 THEN [Nothing EXCEPT !.verified = TRUE, !.how = "auto_populated"] ELSE Nothing
  /\ pc' = "stopping"
  /\ UNCHANGED <<pageVars, marks, captured, call, retries, offered>>

(* Nothing selectable: only an identifier committed since the call began    *)
(* counts.                                                                  *)
GivesUp ==
  /\ pc = "giving_up"
  /\ outcome' = IF detectHiddenCommit(call.baseline) THEN [Nothing EXCEPT !.verified = TRUE, !.how = "auto_populated"] ELSE Nothing
  /\ pc' = "stopping"
  /\ UNCHANGED <<pageVars, marks, captured, call, retries, offered>>

-----------------------------------------------------------------------------
(* A selection.  What is visible is retired, the result is pressed; one     *)
(* that was replaced before the press is looked for again.                  *)
Selects ==
  /\ pc = "selecting"
  /\ call' = [call EXCEPT !.before = signs.hidden, !.refinds = 0, !.key = 0, !.active = FALSE,
                          !.listed = FALSE, !.extended = FALSE, !.pending = FALSE, !.waited = FALSE]
  /\ pc' = "clicking"
  /\ UNCHANGED <<pageVars, marks, captured, outcome, retries, offered>>

Detached ==
  IF call.refinds < StaleRefinds
  THEN pc' = "refinding" /\ call' = [call EXCEPT !.refinds = @ + 1]
  ELSE pc' = "committing" /\ UNCHANGED call

clickStageResult ==
  /\ pc = "clicking"
  /\ IF call.found \in shown
     THEN /\ marks' = baselineStageBeforeClick(marks, call.found)
          /\ offered' = offered \cup shown
          /\ signs' = [signs EXCEPT !.chosen = "no"]
          /\ pc' = "pressed" /\ UNCHANGED call
     ELSE Detached /\ UNCHANGED <<marks, offered, signs>>
  /\ UNCHANGED <<widget, lookup, shown, rendered, captured, outcome, retries>>

(* A short wait of its own, which nothing extends.                          *)
Refinds ==
  /\ pc = "refinding"
  /\ IF findResultOnce = {} THEN pc' = "committing" /\ UNCHANGED call
     ELSE pc' = "clicking" /\ \E r \in findResultOnce : call' = [call EXCEPT !.found = r]
  /\ UNCHANGED <<pageVars, marks, captured, outcome, retries, offered>>

guardedClick(landed) ==
  /\ pc = "pressed"
  /\ IF landed \/ call.found \in shown THEN pc' = "committing" /\ UNCHANGED call ELSE Detached
  /\ UNCHANGED <<pageVars, marks, captured, outcome, retries, offered>>

(* The evidence of a commit, or the end of its window.  A result shown in a *)
(* section of its own, and by nothing else, ends the lookup; a location     *)
(* leads on to the dealers, a dealer at most to one more selection.         *)
Selected == [Nothing EXCEPT !.suggestions = TRUE, !.dealers = TRUE, !.selected = TRUE]
waitForSelectionCommit ==
  /\ pc = "committing"
  /\ LET committed == detectHiddenCommit(call.before)
         verified == committed \/ signs.chosen # "no"
     IN  \/ /\ call.location = None /\ signs.chosen = "section" /\ ~committed
            /\ outcome' = [Selected EXCEPT !.verified = TRUE, !.how = "selected"]
            /\ call' = [call EXCEPT !.location = call.found]
            /\ pc' = "stopping"
         \/ /\ call.location = None /\ ~(signs.chosen = "section" /\ ~committed)
            /\ call' = [call EXCEPT !.location = call.found, !.verified = verified]
            /\ pc' = "noting" /\ UNCHANGED outcome
         \/ /\ call.location # None /\ (verified \/ call.selection = FollowUps)
            /\ outcome' = [Selected EXCEPT !.verified = verified, !.how = IF verified THEN "selected" ELSE "unresolved"]
            /\ pc' = "stopping" /\ UNCHANGED call
         \/ /\ call.location # None /\ ~verified /\ call.selection < FollowUps
            /\ call' = fullStageWait([call EXCEPT !.selection = @ + 1], "followup")
            /\ pc' = "polling" /\ UNCHANGED outcome
  /\ UNCHANGED <<pageVars, marks, captured, retries, offered>>

(* After the location: the hidden inputs are noted, and a confirm control   *)
(* is pressed unless dealers are already there.                             *)
Notes ==
  /\ pc = "noting"
  /\ LET confirms == Visible(Choices \cap InScope) \subseteq marks.activated /\ signs.control = "shown"
     IN  /\ call' = fullStageWait([call EXCEPT !.after = signs.hidden, !.confirmed = confirms], "dealer")
         /\ signs' = [signs EXCEPT !.control = IF confirms THEN "used" ELSE @]
         /\ pc' = IF confirms THEN "confirming" ELSE "polling"
  /\ UNCHANGED <<widget, lookup, shown, rendered, marks, captured, outcome, retries, offered>>

ConfirmBaselined ==
  /\ pc = "confirming"
  /\ marks' = markStage(markBaselineCandidates(marks))
  /\ pc' = "polling"
  /\ UNCHANGED <<pageVars, captured, call, outcome, retries, offered>>

(* No dealers came: an identifier committed since, the location itself, or  *)
(* nothing that could be verified.                                          *)
Concludes ==
  /\ pc = "concluding"
  /\ LET only == call.location \in Choices /\ ~call.confirmed
     IN  outcome' = CASE detectHiddenCommit(call.after) ->
                           [Nothing EXCEPT !.suggestions = TRUE, !.verified = TRUE, !.how = "auto_populated"]
                      [] ~detectHiddenCommit(call.after) /\ call.verified ->
                           [Selected EXCEPT !.verified = TRUE, !.how = "selected"]
                      [] OTHER -> [Nothing EXCEPT !.suggestions = TRUE, !.dealers = only, !.selected = only]
  /\ pc' = "stopping"
  /\ UNCHANGED <<pageVars, marks, captured, call, retries, offered>>

Reports ==
  /\ pc = "reporting"
  /\ outcome' = Selected /\ pc' = "stopping"
  /\ UNCHANGED <<pageVars, marks, captured, call, retries, offered>>

-----------------------------------------------------------------------------
(* The capture is stopped and an unverified lookup is explained: the first  *)
(* of these that holds.  Only the last named recommends polling again.      *)
Requested(how) == \E q \in captured : lookup[q] = how
Explanations ==
  <<<<"field_value_not_retained", ~call.retained>>,
    <<"result_selected_but_commit_not_verified", outcome.selected \/ (outcome.suggestions /\ outcome.dealers)>>,
    <<"location_selected_but_no_dealer_result_or_commit", outcome.suggestions>>,
    <<"lookup_request_failed", Requested("failed")>>,
    <<"lookup_request_returned_records_but_no_result_rendered", Requested("records")>>,
    <<"lookup_request_returned_empty_results", Requested("empty")>>,
    <<"lookup_request_still_pending_at_timeout", InFlight # {}>>,
    <<"unexplained", TRUE>>>>
FirstHolding(reasons) ==
  reasons[CHOOSE i \in DOMAIN reasons : reasons[i][2] /\ \A j \in 1..i-1 : ~reasons[j][2]][1]
classifyPendingFirst(reasons) == IF InFlight # {} THEN "lookup_request_still_pending_at_timeout" ELSE FirstHolding(reasons)
classifyLookupFailure(reasons) == FirstHolding(reasons)

Stops ==
  /\ pc = "stopping" /\ pc' = "returned"
  /\ outcome' = [outcome EXCEPT !.recommendation =
       IF ~outcome.verified /\ classifyLookupFailure(Explanations) = "lookup_request_still_pending_at_timeout"
       THEN "await_pending_lookup" ELSE "none"]
  /\ UNCHANGED <<pageVars, marks, captured, call, retries, offered>>

(* fillForm: a lookup that was in flight is polled again, twice at most.    *)
rerunDealerSearch ==
  /\ pc = "returned" /\ ~outcome.verified /\ outcome.recommendation # "none" /\ retries < MaxRetries
  /\ retries' = retries + 1
  /\ call' = NewCall("await_pending_lookup") /\ outcome' = Nothing
  /\ pc' = "begin"
  /\ UNCHANGED <<pageVars, marks, captured, offered>>

Returns ==
  /\ pc = "returned" /\ ~(~outcome.verified /\ outcome.recommendation # "none" /\ retries < MaxRetries)
  /\ pc' = "done"
  /\ UNCHANGED <<pageVars, marks, captured, call, outcome, retries, offered>>

Engine ==
  \/ Begins \/ \E retained \in BOOLEAN : Typed(retained)
  \/ observeStep \/ Escalates \/ pollForStageResult \/ Extends \/ TimesOut \/ GivesUp
  \/ Selects \/ clickStageResult \/ Refinds \/ \E landed \in BOOLEAN : guardedClick(landed)
  \/ waitForSelectionCommit \/ Notes \/ ConfirmBaselined \/ Concludes \/ Reports
  \/ Stops \/ rerunDealerSearch \/ Returns

Next == Engine \/ Page
(* Every await of the lookup is bounded by a timer; the page owes nothing.  *)
Spec == Init /\ [][Next]_vars /\ WF_vars(Engine)

-----------------------------------------------------------------------------
(* What a click did not choose is never chosen later: a selection is never  *)
(* one of the results that were on the page when an earlier one was         *)
(* clicked, in this call or in a call it follows, however the widget        *)
(* re-renders in between.  dealerLookup.ts:826-831, 1861-1866               *)
SelectionsAdvance == pc = "clicking" => call.found \notin offered

(* A lookup is polled again only when nothing was selected in it: the       *)
(* re-poll cannot undo a choice.  dealerLookup.ts:1336-1338, 1384-1387      *)
RepollsOnlyUntouched ==
  outcome.recommendation = "await_pending_lookup" => call.location = None /\ ~outcome.verified

(* A lookup reported resolved without any selection had an identifier       *)
(* committed since its call began, not one that was there before.           *)
(* dealerLookup.ts:1790-1796; dealerLookupProbe.ts:502-505                  *)
PopulatedByThisCall ==
  outcome.how = "auto_populated" => signs.hidden > call.baseline

(* Every lookup comes back, its re-polls included, while the page may stay  *)
(* busy for ever and answer nothing.  dealerLookup.ts:750-784               *)
LookupReturns == (pc = "typing") ~> (pc = "done")
=============================================================================
