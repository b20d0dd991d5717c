------------------------- MODULE DealerLookupProofs -------------------------
(***************************************************************************)
(* Proofs about the dealer lookup: no selection chooses what an earlier    *)
(* click passed over, a lookup is polled again only when nothing was       *)
(* selected in it, and a lookup populated without a selection was          *)
(* populated by this call.                                                 *)
(***************************************************************************)
EXTENDS DealerLookup, TLAPS

Stages == {"location", "dealer", "followup"}
Steps == {"begin", "typing", "observing", "pressing", "polling", "lapsing", "giving_up", "selecting", "clicking",
          "refinding", "pressed", "committing", "noting", "confirming", "concluding", "reporting", "stopping",
          "returned", "done"}
CallType ==
  [mode : {"full", "await_pending_lookup"}, key : Nat, retained : BOOLEAN, active : BOOLEAN, listed : BOOLEAN,
   waited : BOOLEAN, extended : BOOLEAN, pending : BOOLEAN, stage : Stages, found : Results \cup {None},
   refinds : Nat, selection : Nat, location : Results \cup {None}, before : Nat, baseline : Nat, after : Nat,
   verified : BOOLEAN, confirmed : BOOLEAN]
SignsType ==
  [busy : BOOLEAN, listed : BOOLEAN, hidden : Nat, chosen : {"no", "state", "section"},
   control : {"absent", "shown", "used"}]
MarksType ==
  [activated : SUBSET Results, baseline : SUBSET Results, page : SUBSET Results, since : SUBSET Results]
OutcomeType ==
  [suggestions : BOOLEAN, dealers : BOOLEAN, selected : BOOLEAN, verified : BOOLEAN,
   how : {"unresolved", "auto_populated", "selected"}, recommendation : {"none", "await_pending_lookup"}]

LookupTyped ==
  /\ shown \subseteq Results
  /\ signs \in SignsType /\ marks \in MarksType /\ pc \in Steps /\ call \in CallType /\ outcome \in OutcomeType

-----------------------------------------------------------------------------
(* The discovery tiers and the explanations: the first that applies.       *)

\* The first of the tiers that found something is one of them.
LEMMA FirstOfTiers ==
  ASSUME NEW found, found \subseteq 1..4, found # {}
  PROVE  (CHOOSE i \in found : \A j \in found : i <= j) \in found
<1>1. \E i \in found : \A j \in found : i <= j
  <2>1. CASE 1 \in found
    BY <2>1
  <2>2. CASE 1 \notin found /\ 2 \in found
    BY <2>2
  <2>3. CASE 1 \notin found /\ 2 \notin found /\ 3 \in found
    BY <2>3
  <2>4. CASE 1 \notin found /\ 2 \notin found /\ 3 \notin found
    <3>1. \A j \in found : j = 4
      BY <2>4
    <3>2. 4 \in found
      BY <3>1
    <3> QED
      BY <3>1, <3>2
  <2> QED
    BY <2>1, <2>2, <2>3, <2>4
<1> QED
  BY <1>1

\* What findResultOnce finds was found by a tier.
LEMMA FoundByATier ==
  ASSUME NEW r, r \in findResultOnce
  PROVE  \/ r \in inScopeAuthoritative \/ r \in firstNewCandidate
         \/ r \in pageWideNewAuthoritative \/ r \in probeFindResult
<1> DEFINE found == {i \in DOMAIN Tiers : Tiers[i] # {}}
           first == CHOOSE i \in found : \A j \in found : i <= j
<1>1. DOMAIN Tiers = 1..4
  BY DEF Tiers
<1>2. found # {} /\ r \in Tiers[first]
  BY DEF findResultOnce
<1> HIDE DEF first
<1>3. first \in found
  <2>1. found \subseteq 1..4
    BY <1>1
  <2> HIDE DEF found
  <2> QED
    BY <1>2, <2>1, FirstOfTiers DEF first
<1>4. first \in 1..4
  BY <1>1, <1>3
<1> QED
  BY <1>2, <1>4 DEF Tiers

\* What is recommended is to poll again only when no earlier explanation holds.
LEMMA PendingIsTheOnlyExplanation ==
  ASSUME classifyLookupFailure(Explanations) = "lookup_request_still_pending_at_timeout"
  PROVE  ~outcome.selected /\ ~outcome.suggestions
<1> DEFINE E == Explanations
           holds(i) == E[i][2]
           first(i) == holds(i) /\ \A j \in 1..i-1 : ~holds(j)
           n == CHOOSE i \in DOMAIN E : first(i)
<1>1. /\ DOMAIN E = 1..8 /\ holds(8)
      /\ E[7][1] = "lookup_request_still_pending_at_timeout"
      /\ \A i \in 1..8 : i # 7 => E[i][1] # "lookup_request_still_pending_at_timeout"
      /\ holds(2) <=> outcome.selected \/ (outcome.suggestions /\ outcome.dealers)
      /\ holds(3) <=> outcome.suggestions
  <2> DEFINE more == outcome.selected \/ (outcome.suggestions /\ outcome.dealers)
             some == outcome.suggestions
             unkept == ~call.retained
             failed == Requested("failed")
             records == Requested("records")
             empty == Requested("empty")
             pending == InFlight # {}
  <2>1. E = <<<<"field_value_not_retained", unkept>>,
              <<"result_selected_but_commit_not_verified", more>>,
              <<"location_selected_but_no_dealer_result_or_commit", some>>,
              <<"lookup_request_failed", failed>>,
              <<"lookup_request_returned_records_but_no_result_rendered", records>>,
              <<"lookup_request_returned_empty_results", empty>>,
              <<"lookup_request_still_pending_at_timeout", pending>>,
              <<"unexplained", TRUE>>>>
    BY Zenon DEF Explanations
  <2> HIDE DEF more, some, unkept, failed, records, empty, pending, E
  <2>2. DOMAIN E = 1..8
    BY <2>1
  <2>3. holds(2) = more /\ holds(3) = some /\ holds(8) = TRUE
    BY <2>1
  <2>4. /\ E[1][1] = "field_value_not_retained" /\ E[2][1] = "result_selected_but_commit_not_verified"
        /\ E[3][1] = "location_selected_but_no_dealer_result_or_commit" /\ E[4][1] = "lookup_request_failed"
        /\ E[5][1] = "lookup_request_returned_records_but_no_result_rendered"
        /\ E[6][1] = "lookup_request_returned_empty_results"
        /\ E[7][1] = "lookup_request_still_pending_at_timeout" /\ E[8][1] = "unexplained"
    BY <2>1
  <2>5. \A i \in 1..8 : i # 7 => E[i][1] # "lookup_request_still_pending_at_timeout"
    <3>1. \A i \in 1..8 : i = 1 \/ i = 2 \/ i = 3 \/ i = 4 \/ i = 5 \/ i = 6 \/ i = 7 \/ i = 8
      OBVIOUS
    <3> QED
      BY <2>4, <3>1
  <2> QED
    BY <2>2, <2>3, <2>4, <2>5 DEF more, some
<1>2. E[n][1] = "lookup_request_still_pending_at_timeout"
  BY DEF classifyLookupFailure, FirstHolding
<1> HIDE DEF E
<1>3. \E i \in 1..8 : first(i)
  <2>1. CASE holds(1)
    BY <2>1
  <2>2. CASE ~holds(1) /\ holds(2)
    BY <2>2
  <2>3. CASE ~holds(1) /\ ~holds(2) /\ holds(3)
    BY <2>3
  <2>4. CASE ~holds(1) /\ ~holds(2) /\ ~holds(3) /\ holds(4)
    BY <2>4
  <2>5. CASE ~holds(1) /\ ~holds(2) /\ ~holds(3) /\ ~holds(4) /\ holds(5)
    BY <2>5
  <2>6. CASE ~holds(1) /\ ~holds(2) /\ ~holds(3) /\ ~holds(4) /\ ~holds(5) /\ holds(6)
    BY <2>6
  <2>7. CASE ~holds(1) /\ ~holds(2) /\ ~holds(3) /\ ~holds(4) /\ ~holds(5) /\ ~holds(6) /\ holds(7)
    BY <2>7
  <2>8. CASE ~holds(1) /\ ~holds(2) /\ ~holds(3) /\ ~holds(4) /\ ~holds(5) /\ ~holds(6) /\ ~holds(7)
    BY <1>1, <2>8
  <2> QED
    BY <2>1, <2>2, <2>3, <2>4, <2>5, <2>6, <2>7, <2>8
<1>4. n \in 1..8 /\ first(n)
  BY <1>1, <1>3
<1> HIDE DEF n
<1>5. n = 7
  BY <1>1, <1>2, <1>4
<1>6. ~holds(2) /\ ~holds(3)
  BY <1>4, <1>5
<1> QED
  BY <1>1, <1>6

-----------------------------------------------------------------------------
(* Types.                                                                  *)

\* What findResultOnce finds are results.
LEMMA FoundAreResults ==
  ASSUME LookupTyped, NEW r, r \in findResultOnce
  PROVE  r \in Results /\ r # None
<1>1. r \in shown
  BY FoundByATier DEF inScopeAuthoritative, firstNewCandidate, pageWideNewAuthoritative, probeFindResult, Visible
<1> QED
  BY <1>1, DealerAssumption DEF LookupTyped

\* The two outcomes a call begins with.
LEMMA OutcomesAreTyped ==
  /\ Nothing \in OutcomeType /\ Selected \in OutcomeType
  /\ Nothing.recommendation = "none" /\ Selected.recommendation = "none"
  /\ ~Nothing.suggestions /\ Selected.suggestions
  /\ Nothing.how = "unresolved" /\ Selected.how = "unresolved"
  BY DEF Nothing, Selected, OutcomeType

\* A call that begins to wait for another stage keeps its location, its baseline and what it found.
LEMMA CallsAreTyped ==
  ASSUME NEW c, c \in CallType, NEW stage, stage \in Stages
  PROVE  /\ fullStageWait(c, stage) \in CallType
         /\ fullStageWait(c, stage).stage = stage
         /\ fullStageWait(c, stage).location = c.location
         /\ fullStageWait(c, stage).baseline = c.baseline /\ fullStageWait(c, stage).after = c.after
         /\ fullStageWait(c, stage).found = c.found
  BY DEF CallType, fullStageWait

\* The ways to mark results give marks.
LEMMA BaselinedMarks ==
  ASSUME LookupTyped, NEW m, m \in MarksType
  PROVE  /\ markStage(m) \in MarksType /\ markBaselineCandidates(m) \in MarksType
         /\ \A hidden \in SUBSET Results : markPageBaseline(m, hidden) \in MarksType
         /\ \A r \in Results : baselineStageBeforeClick(m, r) \in MarksType
<1>1. /\ Visible(InScope \ Choices) \in SUBSET Results /\ Visible(Choices) \in SUBSET Results
  BY DealerAssumption DEF LookupTyped, Visible
<1>2. ASSUME NEW n, n \in MarksType
      PROVE  markStage(n) \in MarksType /\ markBaselineCandidates(n) \in MarksType
  BY <1>1, <1>2 DEF markStage, markBaselineCandidates, MarksType
<1>3. ASSUME NEW hidden \in SUBSET Results
      PROVE  markPageBaseline(m, hidden) \in MarksType
  BY <1>1 DEF markPageBaseline, MarksType
<1>4. ASSUME NEW r \in Results
      PROVE  baselineStageBeforeClick(m, r) \in MarksType
  <2> DEFINE a == [m EXCEPT !.activated = m.activated \cup {r}]
             b == retireVisibleStageResults(a)
  <2>1. a \in MarksType
    BY DEF MarksType
  <2>2. b \in MarksType
    BY <1>1, <2>1 DEF retireVisibleStageResults, MarksType
  <2> HIDE DEF a, b
  <2>3. markStage(markBaselineCandidates(b)) \in MarksType
    BY <1>2, <2>2
  <2>4. baselineStageBeforeClick(m, r) = markStage(markBaselineCandidates(b))
    BY DEF baselineStageBeforeClick, a, b
  <2> QED
    BY <2>3, <2>4
<1> QED
  BY <1>2, <1>3, <1>4

\* The page changes what is shown, the signs it gives and one mark.
LEMMA PageIsTyped ==
  ASSUME LookupTyped, Page
  PROVE  /\ LookupTyped' /\ UNCHANGED engineVars
         /\ call'.found = call.found /\ call'.location = call.location /\ call'.stage = call.stage
         /\ call'.baseline = call.baseline /\ call'.after = call.after
         /\ signs'.hidden >= signs.hidden
<1> USE DEF LookupTyped
<1>1. CASE \E q \in Lookups : Sends(q)
  <2> DEFINE active == pc = "observing"
  <2>1. active \in BOOLEAN /\ call' = [call EXCEPT !.active = active] /\ UNCHANGED <<shown, signs, marks, engineVars>>
    BY <1>1 DEF Sends
  <2> HIDE DEF active
  <2>2. /\ call' \in CallType /\ call'.found = call.found /\ call'.location = call.location /\ call'.stage = call.stage
        /\ call'.baseline = call.baseline /\ call'.after = call.after
    BY <2>1 DEF CallType
  <2> QED
    BY <2>1, <2>2 DEF engineVars, SignsType
<1>2. CASE \E q \in Lookups, how \in Answer : Answers(q, how)
  BY <1>2 DEF Answers, engineVars, SignsType
<1>3. CASE \E r \in Results : Renders(r)
  <2>1. PICK r \in Results : Renders(r)
    BY <1>3
  <2>2. marks' = [marks EXCEPT !.since = marks.since \cup {r}] /\ shown' = shown \cup {r}
    BY <2>1 DEF Renders
  <2>3. marks' \in MarksType
    BY <2>2 DEF MarksType
  <2> QED
    BY <2>1, <2>2, <2>3 DEF Renders, engineVars, SignsType
<1>4. CASE \E r \in Results : Removes(r)
  BY <1>4 DEF Removes, engineVars, SignsType
<1>5. CASE Signals
  <2> DEFINE idle == ~signs.busy
             yes == TRUE
             more == signs.hidden + 1
  <2>0. yes \in BOOLEAN /\ idle \in BOOLEAN /\ more \in Nat /\ more >= signs.hidden /\ signs.hidden \in Nat
    BY DEF SignsType
  <2>1. /\ \/ signs' = [signs EXCEPT !.busy = idle] \/ signs' = [signs EXCEPT !.listed = yes]
           \/ signs' = [signs EXCEPT !.hidden = more]
           \/ \E how \in {"state", "section"} : signs' = [signs EXCEPT !.chosen = how]
        /\ UNCHANGED <<shown, marks, call, engineVars>>
    BY <1>5 DEF Signals
  <2> HIDE DEF idle, yes, more
  <2>2. signs' \in SignsType /\ signs'.hidden >= signs.hidden
    <3>1. CASE signs' = [signs EXCEPT !.busy = idle]
      BY <2>0, <3>1 DEF SignsType
    <3>2. CASE signs' = [signs EXCEPT !.hidden = more]
      BY <2>0, <3>2 DEF SignsType
    <3>3. CASE signs' = [signs EXCEPT !.listed = yes]
      BY <2>0, <3>3 DEF SignsType
    <3>4. CASE \E how \in {"state", "section"} : signs' = [signs EXCEPT !.chosen = how]
      BY <2>0, <3>4 DEF SignsType
    <3> QED
      BY <2>1, <3>1, <3>2, <3>3, <3>4
  <2> QED
    BY <2>1, <2>2 DEF engineVars
<1> QED
  BY <1>1, <1>2, <1>3, <1>4, <1>5, Zenon DEF Page

\* A call begins with no location, at the location stage.
LEMMA NewCalls ==
  ASSUME NEW mode, mode \in {"full", "await_pending_lookup"}
  PROVE  /\ NewCall(mode) \in CallType /\ NewCall(mode).location = None /\ NewCall(mode).stage = "location"
  BY DEF NewCall, CallType, Stages

-----------------------------------------------------------------------------
(* The inductive invariant.  What was on the page at a click is marked so  *)
(* that no tier finds it again; a call that gives up has selected nothing; *)
(* the counts of identifiers taken at the beginning and after the location *)
(* are of this call.                                                       *)

Marked ==
  /\ shown \subseteq rendered /\ offered \subseteq rendered /\ rendered \subseteq Results
  /\ offered \cap Choices \subseteq marks.activated
  /\ offered \cap (InScope \ Choices) \subseteq marks.baseline
  /\ offered \cap marks.since = {} /\ marks.since \subseteq rendered
  /\ pc \in {"selecting", "clicking"} => call.found \in Results \ offered
Staged ==
  /\ pc \in {"begin", "typing", "observing", "pressing", "giving_up"} => call.location = None
  /\ pc \in {"polling", "lapsing"} /\ call.stage = "location" => call.location = None
  /\ pc \notin {"stopping", "returned", "done"} => outcome = Nothing
  /\ pc = "stopping" => outcome.recommendation = "none"
  /\ pc = "stopping" /\ call.location # None => outcome.suggestions
  /\ RepollsOnlyUntouched
Committed ==
  /\ pc = "begin" => call.stage = "location"
  /\ pc # "begin" => call.baseline <= signs.hidden
  /\ pc \in {"confirming", "concluding"} => call.stage = "dealer"
  /\ call.stage = "dealer" => call.after >= call.baseline
  /\ PopulatedByThisCall
LookupInv == LookupTyped /\ Marked /\ Staged /\ Committed

\* What findResultOnce finds was not offered before.
LEMMA FoundIsNew ==
  ASSUME LookupTyped, Marked, NEW r, r \in findResultOnce
  PROVE  r \in Results \ offered
<1>1. r \in Results /\ offered \cap marks.since = {}
  BY FoundAreResults DEF Marked
<1>2. CASE r \in inScopeAuthoritative
  BY <1>1, <1>2 DEF inScopeAuthoritative, Visible, Marked
<1>3. CASE r \in firstNewCandidate
  BY <1>1, <1>3 DEF firstNewCandidate, Visible, Marked
<1>4. CASE r \in pageWideNewAuthoritative
  BY <1>1, <1>4 DEF pageWideNewAuthoritative, Visible, Marked
<1>5. CASE r \in probeFindResult
  BY <1>1, <1>5 DEF probeFindResult, Visible, Marked
<1> QED
  BY <1>2, <1>3, <1>4, <1>5, FoundByATier

\* The page renders a result once and takes results away.
LEMMA PageKeepsInv ==
  ASSUME LookupInv, Page
  PROVE  LookupInv'
<1> USE DEF LookupInv
<1>1. /\ LookupTyped' /\ UNCHANGED engineVars
      /\ call'.found = call.found /\ call'.location = call.location /\ call'.stage = call.stage
      /\ call'.baseline = call.baseline /\ call'.after = call.after
      /\ signs'.hidden >= signs.hidden
  BY PageIsTyped
<1>2. Marked'
  <2>1. CASE \E r \in Results : Renders(r)
    <3>1. PICK r \in Results : Renders(r)
      BY <2>1
    <3>2. /\ shown' = shown \cup {r} /\ rendered' = rendered \cup {r} /\ r \notin rendered
          /\ marks' = [marks EXCEPT !.since = marks.since \cup {r}]
      BY <3>1 DEF Renders
    <3>3. /\ marks'.activated = marks.activated /\ marks'.baseline = marks.baseline
          /\ marks'.since = marks.since \cup {r}
      BY <3>2 DEF LookupTyped, MarksType
    <3> QED
      BY <1>1, <3>2, <3>3 DEF Marked, engineVars
  <2>2. CASE \E r \in Results : Removes(r)
    BY <1>1, <2>2 DEF Removes, Marked, engineVars
  <2>3. CASE Signals \/ \E q \in Lookups : Sends(q) \/ \E how \in Answer : Answers(q, how)
    <3>1. UNCHANGED <<shown, rendered, marks, offered>>
      BY <2>3 DEF Signals, Sends, Answers, engineVars
    <3> QED
      BY <1>1, <3>1 DEF Marked, engineVars
  <2> QED
    BY <2>1, <2>2, <2>3, Zenon DEF Page
<1>3. Staged'
  BY <1>1 DEF Staged, RepollsOnlyUntouched, engineVars
<1>4. Committed'
  <2>1. /\ signs.hidden \in Nat /\ signs'.hidden \in Nat /\ call.baseline \in Nat
    BY <1>1 DEF LookupTyped, SignsType, CallType
  <2> QED
    BY <1>1, <2>1 DEF Committed, PopulatedByThisCall, engineVars
<1> QED
  BY <1>1, <1>2, <1>3, <1>4

\* A result a tier found is taken up.
LEMMA FoundIsTaken ==
  ASSUME LookupInv, NEW c, c \in CallType, c.stage \in {call.stage, "location"}, c.location = call.location,
         c.baseline = call.baseline, c.after = call.after, pc \in Steps \ {"begin", "stopping", "returned", "done"},
         NEW r, r \in findResultOnce, call' = [c EXCEPT !.found = r], pc' \in {"selecting", "clicking"},
         UNCHANGED <<pageVars, marks, outcome, offered>>
  PROVE  LookupInv'
<1> USE DEF LookupInv
<1>1. r \in Results \ offered
  BY FoundIsNew
<1>2. /\ call' \in CallType /\ call'.found = r /\ call'.location = c.location /\ call'.stage = c.stage
      /\ call'.baseline = c.baseline /\ call'.after = c.after
  BY <1>1 DEF CallType
<1>3. LookupTyped'
  BY <1>2 DEF LookupTyped, pageVars, Steps
<1>4. Marked'
  BY <1>1, <1>2 DEF Marked, pageVars
<1>5. Staged'
  BY <1>2 DEF Staged, RepollsOnlyUntouched, Steps, Nothing
<1>6. Committed'
  BY <1>2 DEF Committed, PopulatedByThisCall, pageVars
<1> QED
  BY <1>3, <1>4, <1>5, <1>6

\* Steps that leave the marks, the page and the outcome alone.
LEMMA CallGoesOn ==
  ASSUME LookupInv, call' \in CallType, pc \in Steps \ {"begin", "stopping", "returned", "done"},
         pc' \in Steps \ {"begin", "selecting", "clicking", "stopping", "returned", "done"},
         call'.baseline = call.baseline, call'.stage = "dealer" => call'.after >= call'.baseline,
         pc' \in {"confirming", "concluding"} => call'.stage = "dealer",
         pc' \in {"typing", "observing", "pressing", "giving_up"} => call'.location = None,
         pc' \in {"polling", "lapsing"} /\ call'.stage = "location" => call'.location = None,
         UNCHANGED <<pageVars, marks, outcome, offered>>
  PROVE  LookupInv'
<1> USE DEF LookupInv
<1>1. LookupTyped'
  BY DEF LookupTyped, pageVars
<1>2. Marked'
  BY DEF Marked, pageVars
<1>3. Staged'
  BY DEF Staged, RepollsOnlyUntouched, Steps, Nothing
<1>4. Committed'
  BY DEF Committed, PopulatedByThisCall, pageVars
<1> QED
  BY <1>1, <1>2, <1>3, <1>4

-----------------------------------------------------------------------------
(* The engine's actions.                                                   *)

\* The call begins: what is on the page is marked as old, and the identifiers are counted.
LEMMA BeginKeepsInv ==
  ASSUME LookupInv, Begins
  PROVE  LookupInv'
<1> USE DEF LookupInv
<1> DEFINE old == IF call.mode = "full" THEN markBaselineCandidates(marks) ELSE marks
<1>1. /\ signs.hidden \in Nat /\ signs.listed \in BOOLEAN /\ marks \in MarksType
  BY DEF LookupTyped, SignsType
<1>2. PICK hidden \in SUBSET Results :
      /\ marks' = markStage(markPageBaseline(old, hidden)) /\ pc = "begin" /\ pc' \in {"typing", "polling"}
      /\ call' = [call EXCEPT !.baseline = signs.hidden, !.listed = signs.listed]
      /\ UNCHANGED <<pageVars, outcome, retries, offered>>
  BY DealerAssumption DEF Begins
<1>3. /\ old \in MarksType /\ marks.baseline \subseteq old.baseline /\ old.activated = marks.activated
  <2>1. markBaselineCandidates(marks) \in MarksType
    BY <1>1, BaselinedMarks
  <2>2. /\ markBaselineCandidates(marks).activated = marks.activated
        /\ marks.baseline \subseteq markBaselineCandidates(marks).baseline
    BY <1>1 DEF markBaselineCandidates, MarksType
  <2> QED
    BY <1>1, <2>1, <2>2
<1> HIDE DEF old
<1>4. /\ marks' \in MarksType /\ marks'.since = {} /\ marks.baseline \subseteq marks'.baseline
      /\ marks'.activated = marks.activated
  <2>1. /\ markPageBaseline(old, hidden) \in MarksType /\ markPageBaseline(old, hidden).activated = old.activated
        /\ markPageBaseline(old, hidden).baseline = old.baseline
    BY <1>3, BaselinedMarks DEF markPageBaseline, MarksType
  <2> DEFINE page == markPageBaseline(old, hidden)
  <2> HIDE DEF page
  <2>2. markStage(page) \in MarksType /\ markStage(page).since = {} /\ markStage(page).activated = page.activated
        /\ markStage(page).baseline = page.baseline
    BY <2>1 DEF page, markStage, MarksType
  <2> QED
    BY <1>2, <1>3, <2>1, <2>2 DEF page
<1>5. /\ call' \in CallType /\ call'.location = call.location /\ call'.stage = call.stage
      /\ call'.baseline = signs.hidden /\ call'.after = call.after
  <2>1. call \in CallType
    BY DEF LookupTyped
  <2> QED
    BY <1>1, <1>2, <2>1 DEF CallType
<1>6. LookupTyped'
  BY <1>2, <1>4, <1>5 DEF LookupTyped, pageVars, Steps
<1>7. Marked'
  BY <1>2, <1>4 DEF Marked, pageVars
<1>8. Staged'
  BY <1>2, <1>5 DEF Staged, RepollsOnlyUntouched, pageVars, Nothing
<1>9. Committed'
  BY <1>1, <1>2, <1>5 DEF Committed, PopulatedByThisCall, Staged, pageVars, Nothing
<1> QED
  BY <1>6, <1>7, <1>8, <1>9

\* A result found by a look at the page, or none.
LEMMA LookingKeepsInv ==
  ASSUME LookupInv, observeStep \/ pollForStageResult \/ Refinds
  PROVE  LookupInv'
<1> USE DEF LookupInv
<1>0. call \in CallType /\ signs.listed \in BOOLEAN /\ pc \in Steps
  BY DEF LookupTyped, SignsType
<1>1. CASE observeStep
  <2> DEFINE seen == [call EXCEPT !.listed = signs.listed]
             active == Activity
             rung == NextRung(call)
  <2>1. /\ seen \in CallType /\ seen.location = call.location /\ seen.stage = call.stage
        /\ seen.baseline = call.baseline /\ seen.after = call.after
    BY <1>0 DEF CallType
  <2>2. rung \in {"pressing", "giving_up", "polling"}
    BY DEF NextRung
  <2>3. /\ pc = "observing" /\ UNCHANGED <<pageVars, marks, captured, outcome, retries, offered>>
        /\ \/ pc' = "selecting" /\ \E r \in findResultOnce : call' = [seen EXCEPT !.found = r]
           \/ /\ call' = IF active \/ rung = "polling" THEN fullStageWait(seen, "location") ELSE seen
              /\ pc' = IF active THEN "polling" ELSE rung
    BY <1>1 DEF observeStep
  <2> HIDE DEF seen, active, rung
  <2>4. call.location = None
    BY <2>3 DEF Staged
  <2>5. CASE pc' = "selecting" /\ \E r \in findResultOnce : call' = [seen EXCEPT !.found = r]
    <3>1. PICK r \in findResultOnce : call' = [seen EXCEPT !.found = r]
      BY <2>5
    <3>2. pc \in Steps \ {"begin", "stopping", "returned", "done"} /\ seen.stage \in {call.stage, "location"}
      BY <2>1, <2>3 DEF Steps
    <3> QED
      BY <2>1, <2>3, <2>5, <3>1, <3>2, FoundIsTaken
  <2>6. CASE /\ call' = IF active \/ rung = "polling" THEN fullStageWait(seen, "location") ELSE seen
             /\ pc' = IF active THEN "polling" ELSE rung
    <3>1. /\ fullStageWait(seen, "location") \in CallType
          /\ fullStageWait(seen, "location").stage = "location"
          /\ fullStageWait(seen, "location").location = None
          /\ fullStageWait(seen, "location").baseline = call.baseline
          /\ fullStageWait(seen, "location").after = call.after
      BY <2>1, <2>4, CallsAreTyped DEF Stages
    <3>2. /\ call' \in CallType /\ call'.location = None /\ call'.baseline = call.baseline
          /\ call'.after = call.after /\ call'.stage \in {call.stage, "location"}
      BY <2>1, <2>4, <2>6, <3>1
    <3>3. call'.stage = "dealer" => call'.after >= call'.baseline
      BY <3>2 DEF Committed
    <3>4. /\ pc \in Steps \ {"begin", "stopping", "returned", "done"}
          /\ pc' \in Steps \ {"begin", "selecting", "clicking", "stopping", "returned", "done"}
          /\ pc' \notin {"confirming", "concluding"}
      BY <2>2, <2>3, <2>6 DEF Steps
    <3> QED
      BY <2>3, <3>2, <3>3, <3>4, CallGoesOn
  <2> QED
    BY <2>3, <2>5, <2>6
<1>2. CASE pollForStageResult
  <2>1. /\ pc = "polling" /\ UNCHANGED <<pageVars, marks, captured, outcome, retries, offered>>
        /\ \/ pc' = "selecting" /\ \E r \in findResultOnce : call' = [call EXCEPT !.found = r]
           \/ pc' = "lapsing" /\ UNCHANGED call
    BY <1>2 DEF pollForStageResult
  <2>2. pc \in Steps \ {"begin", "stopping", "returned", "done"}
    BY <2>1 DEF Steps
  <2>3. CASE pc' = "selecting" /\ \E r \in findResultOnce : call' = [call EXCEPT !.found = r]
    BY <1>0, <2>1, <2>2, <2>3, FoundIsTaken
  <2>4. CASE pc' = "lapsing" /\ UNCHANGED call
    <3>1. pc' \in Steps \ {"begin", "selecting", "clicking", "stopping", "returned", "done"}
      BY <2>4 DEF Steps
    <3>2. /\ call' \in CallType /\ call'.baseline = call.baseline
          /\ call'.stage = "dealer" => call'.after >= call'.baseline
          /\ call'.stage = "location" => call'.location = None
      BY <1>0, <2>1, <2>4 DEF Committed, Staged
    <3> QED
      BY <2>1, <2>2, <2>4, <3>1, <3>2, CallGoesOn
  <2> QED
    BY <2>1, <2>3, <2>4
<1>3. CASE Refinds
  <2>1. /\ pc = "refinding" /\ UNCHANGED <<pageVars, marks, captured, outcome, retries, offered>>
        /\ \/ pc' = "clicking" /\ \E r \in findResultOnce : call' = [call EXCEPT !.found = r]
           \/ pc' = "committing" /\ UNCHANGED call
    BY <1>3 DEF Refinds
  <2>2. pc \in Steps \ {"begin", "stopping", "returned", "done"}
    BY <2>1 DEF Steps
  <2>3. CASE pc' = "clicking" /\ \E r \in findResultOnce : call' = [call EXCEPT !.found = r]
    BY <1>0, <2>1, <2>2, <2>3, FoundIsTaken
  <2>4. CASE pc' = "committing" /\ UNCHANGED call
    <3>1. pc' \in Steps \ {"begin", "selecting", "clicking", "stopping", "returned", "done"}
      BY <2>4 DEF Steps
    <3>2. /\ call' \in CallType /\ call'.baseline = call.baseline
          /\ call'.stage = "dealer" => call'.after >= call'.baseline
      BY <1>0, <2>4 DEF Committed
    <3> QED
      BY <2>1, <2>2, <2>4, <3>1, <3>2, CallGoesOn
  <2> QED
    BY <2>1, <2>3, <2>4
<1> QED
  BY <1>1, <1>2, <1>3

\* The steps of the ladder and of the waits, which change the call only.
LEMMA WaitingKeepsInv ==
  ASSUME LookupInv, (\E retained \in BOOLEAN : Typed(retained)) \/ Escalates \/ Extends \/ TimesOut
  PROVE  LookupInv'
<1> USE DEF LookupInv
<1> DEFINE no == FALSE
           yes == TRUE
           working == InFlight # {}
<1>0. /\ call \in CallType /\ signs.listed \in BOOLEAN /\ no \in BOOLEAN /\ yes \in BOOLEAN /\ working \in BOOLEAN
      /\ UNCHANGED <<pageVars, marks, outcome, offered>>
  BY DEF LookupTyped, SignsType, Typed, Escalates, Extends, TimesOut
<1>1. CASE \E retained \in BOOLEAN : Typed(retained)
  <2>1. PICK retained \in BOOLEAN : Typed(retained)
    BY <1>1
  <2>2. /\ pc = "typing" /\ pc' = "observing"
        /\ call' = [call EXCEPT !.retained = retained, !.active = no, !.listed = signs.listed]
    BY <2>1 DEF Typed
  <2> HIDE DEF no
  <2>3. /\ call' \in CallType /\ call'.baseline = call.baseline /\ call'.stage = call.stage
        /\ call'.after = call.after /\ call'.location = call.location
    BY <1>0, <2>2 DEF CallType
  <2>4. pc \in Steps \ {"begin", "stopping", "returned", "done"} /\ call.location = None
        /\ pc' \in Steps \ {"begin", "selecting", "clicking", "stopping", "returned", "done"}
    BY <2>2 DEF Steps, Staged
  <2>5. call'.stage = "dealer" => call'.after >= call'.baseline
    BY <2>3 DEF Committed
  <2> QED
    BY <1>0, <2>2, <2>3, <2>4, <2>5, CallGoesOn
<1>2. CASE Escalates
  <2> DEFINE next == call.key + 1
  <2>1. /\ pc = "pressing" /\ next \in Nat
        /\ \/ pc' = "giving_up" /\ UNCHANGED call
           \/ pc' = "observing" /\ call' = [call EXCEPT !.key = next, !.active = no]
    BY <1>0, <1>2 DEF Escalates, CallType
  <2> HIDE DEF no, next
  <2>3. /\ call' \in CallType /\ call'.baseline = call.baseline /\ call'.stage = call.stage
        /\ call'.after = call.after /\ call'.location = call.location
    BY <1>0, <2>1 DEF CallType
  <2>4. pc \in Steps \ {"begin", "stopping", "returned", "done"} /\ call.location = None
        /\ pc' \in Steps \ {"begin", "selecting", "clicking", "stopping", "returned", "done"}
    BY <2>1 DEF Steps, Staged
  <2>5. call'.stage = "dealer" => call'.after >= call'.baseline
    BY <2>3 DEF Committed
  <2> QED
    BY <1>0, <2>1, <2>3, <2>4, <2>5, CallGoesOn
<1>3. CASE Extends
  <2>1. pc = "lapsing" /\ pc' = "polling" /\ call' = [call EXCEPT !.extended = yes, !.pending = working]
    BY <1>3 DEF Extends
  <2> HIDE DEF yes, working
  <2>3. /\ call' \in CallType /\ call'.baseline = call.baseline /\ call'.stage = call.stage
        /\ call'.after = call.after /\ call'.location = call.location
    BY <1>0, <2>1 DEF CallType
  <2>4. pc \in Steps \ {"begin", "stopping", "returned", "done"} /\ (call.stage = "location" => call.location = None)
        /\ pc' \in Steps \ {"begin", "selecting", "clicking", "stopping", "returned", "done"}
    BY <2>1 DEF Steps, Staged
  <2>5. call'.stage = "dealer" => call'.after >= call'.baseline
    BY <2>3 DEF Committed
  <2> QED
    BY <1>0, <2>1, <2>3, <2>4, <2>5, CallGoesOn
<1>4. CASE TimesOut
  <2> DEFINE still == call.pending \/ InFlight # {}
             awaited == call.waited \/ call.stage = "location"
             rung == NextRung([call EXCEPT !.waited = TRUE])
  <2>1. pc = "lapsing" /\ call' = [call EXCEPT !.pending = still, !.waited = awaited]
    BY <1>4 DEF TimesOut
  <2>2. /\ still \in BOOLEAN /\ awaited \in BOOLEAN /\ call.stage \in Stages
        /\ rung \in {"pressing", "giving_up", "polling"}
    BY <1>0 DEF CallType, NextRung
  <2>3. /\ call.stage = "location" => pc' \in {rung, "giving_up"}
        /\ call.stage # "location" => pc' \in {"concluding", "reporting"}
        /\ pc' # "confirming" /\ (pc' = "concluding" => call.stage = "dealer")
    <3>1. pc' = CASE call.stage = "location" -> IF call.mode = "full" THEN rung ELSE "giving_up"
                  [] call.stage = "dealer"   -> "concluding"
                  [] call.stage = "followup" -> "reporting"
      BY <1>4 DEF TimesOut
    <3> HIDE DEF rung
    <3> QED
      BY <2>2, <3>1 DEF Stages
  <2> HIDE DEF still, awaited, rung
  <2>4. /\ call' \in CallType /\ call'.baseline = call.baseline /\ call'.stage = call.stage
        /\ call'.after = call.after /\ call'.location = call.location
    BY <1>0, <2>1, <2>2 DEF CallType
  <2>5. pc \in Steps \ {"begin", "stopping", "returned", "done"} /\ (call.stage = "location" => call.location = None)
        /\ pc' \in Steps \ {"begin", "selecting", "clicking", "stopping", "returned", "done"}
    BY <2>1, <2>2, <2>3 DEF Steps, Staged
  <2>6. call'.stage = "dealer" => call'.after >= call'.baseline
    BY <2>4 DEF Committed
  <2>7. /\ pc' \in {"typing", "observing", "pressing", "giving_up"} => call'.location = None
        /\ pc' \in {"polling", "lapsing"} /\ call'.stage = "location" => call'.location = None
        /\ pc' \in {"confirming", "concluding"} => call'.stage = "dealer"
    BY <2>3, <2>4, <2>5
  <2> QED
    BY <1>0, <2>4, <2>5, <2>6, <2>7, CallGoesOn
<1> QED
  BY <1>1, <1>2, <1>3, <1>4

\* A selection begins with the count of identifiers it is judged by.
LEMMA SelectionKeepsInv ==
  ASSUME LookupInv, Selects
  PROVE  LookupInv'
<1> USE DEF LookupInv
<1> DEFINE no == FALSE
<1>1. /\ call \in CallType /\ signs.hidden \in Nat /\ no \in BOOLEAN /\ pc = "selecting" /\ pc' = "clicking"
      /\ call' = [call EXCEPT !.before = signs.hidden, !.refinds = 0, !.key = 0, !.active = no,
                              !.listed = no, !.extended = no, !.pending = no, !.waited = no]
      /\ UNCHANGED <<pageVars, marks, captured, outcome, retries, offered>>
  BY DEF Selects, LookupTyped, SignsType
<1> HIDE DEF no
<1>2. /\ call' \in CallType /\ call'.found = call.found /\ call'.location = call.location /\ call'.stage = call.stage
      /\ call'.baseline = call.baseline /\ call'.after = call.after
  BY <1>1 DEF CallType
<1>3. LookupTyped'
  BY <1>1, <1>2 DEF LookupTyped, pageVars, Steps
<1>4. Marked'
  BY <1>1, <1>2 DEF Marked, pageVars
<1>5. Staged'
  BY <1>1, <1>2 DEF Staged, RepollsOnlyUntouched, Nothing
<1>6. Committed'
  BY <1>1, <1>2 DEF Committed, PopulatedByThisCall, pageVars
<1> QED
  BY <1>3, <1>4, <1>5, <1>6

\* A press that came too late looks for the result again, or goes on without one.
LEMMA DetachedKeepsInv ==
  ASSUME LookupInv, Detached, pc \in {"clicking", "pressed"}, UNCHANGED <<pageVars, marks, outcome, offered>>
  PROVE  LookupInv'
<1> USE DEF LookupInv
<1> DEFINE next == call.refinds + 1
<1>1. /\ call \in CallType /\ next \in Nat /\ pc' \in {"refinding", "committing"}
      /\ call' = [call EXCEPT !.refinds = next] \/ UNCHANGED call
  BY DEF Detached, LookupTyped, CallType
<1> HIDE DEF next
<1>2. /\ call' \in CallType /\ call'.stage = call.stage /\ call'.baseline = call.baseline
      /\ call'.after = call.after
  BY <1>1 DEF CallType
<1>3. /\ pc \in Steps \ {"begin", "stopping", "returned", "done"}
      /\ pc' \in Steps \ {"begin", "selecting", "clicking", "stopping", "returned", "done"}
      /\ pc' \notin {"typing", "observing", "pressing", "giving_up", "polling", "lapsing", "confirming", "concluding"}
  BY <1>1 DEF Steps
<1>4. call'.stage = "dealer" => call'.after >= call'.baseline
  BY <1>2 DEF Committed
<1> QED
  BY <1>2, <1>3, <1>4, CallGoesOn

\* A click retires what is visible: nothing offered with it is found later.
LEMMA ClickKeepsInv ==
  ASSUME LookupInv, clickStageResult \/ \E landed \in BOOLEAN : guardedClick(landed)
  PROVE  LookupInv'
<1> USE DEF LookupInv
<1>1. CASE clickStageResult /\ call.found \in shown
  <2> DEFINE a == [marks EXCEPT !.activated = marks.activated \cup {call.found}]
             b == retireVisibleStageResults(a)
             c == markBaselineCandidates(b)
  <2>1. /\ pc = "clicking" /\ pc' = "pressed" /\ marks' = baselineStageBeforeClick(marks, call.found)
        /\ offered' = offered \cup shown /\ signs' = [signs EXCEPT !.chosen = "no"]
        /\ UNCHANGED <<call, widget, lookup, shown, rendered, captured, outcome, retries>>
    BY <1>1 DEF clickStageResult
  <2>2. marks \in MarksType /\ call.found \in Results /\ shown \subseteq Results
    BY <1>1 DEF LookupTyped
  <2>3. marks' = markStage(c)
    BY <2>1 DEF baselineStageBeforeClick
  <2>4. /\ a \in MarksType /\ marks.activated \subseteq a.activated /\ a.baseline = marks.baseline
    BY <2>2 DEF MarksType
  <2>5. /\ b \in MarksType /\ b.activated = a.activated \cup Visible(Choices) /\ b.baseline = a.baseline
    <3> HIDE DEF a
    <3>1. Visible(Choices) \subseteq Results
      BY <2>2 DEF Visible
    <3> QED
      BY <2>4, <3>1 DEF retireVisibleStageResults, MarksType
  <2>6. /\ c \in MarksType /\ c.activated = b.activated /\ c.baseline = b.baseline \cup Visible(InScope \ Choices)
    <3> HIDE DEF b
    <3>1. Visible(InScope \ Choices) \subseteq Results
      BY <2>2 DEF Visible
    <3> QED
      BY <2>5, <3>1 DEF markBaselineCandidates, MarksType
  <2> HIDE DEF a, b, c
  <2>7. /\ marks' \in MarksType /\ marks'.activated = c.activated /\ marks'.baseline = c.baseline /\ marks'.since = {}
    BY <2>3, <2>6 DEF markStage, MarksType
  <2>8. signs' \in SignsType /\ signs'.hidden = signs.hidden
    BY <2>1 DEF LookupTyped, SignsType
  <2>9. LookupTyped'
    BY <2>1, <2>7, <2>8 DEF LookupTyped, Steps
  <2>10. Marked'
    BY <2>1, <2>4, <2>5, <2>6, <2>7 DEF Marked, Visible
  <2>11. Staged'
    BY <2>1 DEF Staged, RepollsOnlyUntouched, Nothing
  <2>12. Committed'
    BY <2>1, <2>8 DEF Committed, PopulatedByThisCall
  <2> QED
    BY <2>9, <2>10, <2>11, <2>12
<1>2. CASE clickStageResult /\ call.found \notin shown
  <2>1. /\ Detached /\ pc = "clicking" /\ UNCHANGED <<pageVars, marks, outcome, offered>>
    BY <1>2 DEF clickStageResult, pageVars
  <2> QED
    BY <2>1, DetachedKeepsInv
<1>3. CASE \E landed \in BOOLEAN : guardedClick(landed)
  <2>1. /\ pc = "pressed" /\ UNCHANGED <<pageVars, marks, outcome, offered>>
        /\ Detached \/ (pc' = "committing" /\ UNCHANGED call)
    BY <1>3 DEF guardedClick
  <2>2. CASE pc' = "committing" /\ UNCHANGED call
    <3>1. /\ pc \in Steps \ {"begin", "stopping", "returned", "done"}
          /\ pc' \in Steps \ {"begin", "selecting", "clicking", "stopping", "returned", "done"}
      BY <2>1, <2>2 DEF Steps
    <3>2. /\ call' \in CallType /\ call'.baseline = call.baseline
          /\ call'.stage = "dealer" => call'.after >= call'.baseline
      BY <2>2 DEF LookupTyped, Committed
    <3> QED
      BY <2>1, <2>2, <3>1, <3>2, CallGoesOn
  <2> QED
    BY <2>1, <2>2, DetachedKeepsInv
<1> QED
  BY <1>1, <1>2, <1>3

\* The end of a lookup: with a selection, or with an identifier this call saw committed.
LEMMA EndingKeepsInv ==
  ASSUME LookupInv, GivesUp \/ Concludes \/ Reports
  PROVE  LookupInv'
<1> USE DEF LookupInv
<1> DEFINE populated == [Nothing EXCEPT !.verified = TRUE, !.how = "auto_populated"]
           suggested == [Nothing EXCEPT !.suggestions = TRUE, !.verified = TRUE, !.how = "auto_populated"]
           kept == [Selected EXCEPT !.verified = TRUE, !.how = "selected"]
           only == call.location \in Choices /\ ~call.confirmed
           unverified == [Nothing EXCEPT !.suggestions = TRUE, !.dealers = only, !.selected = only]
           Ends == {Nothing, populated, suggested, kept, unverified, Selected}
<1>1. /\ Ends \subseteq OutcomeType /\ \A o \in Ends : o.recommendation = "none"
      /\ \A o \in Ends : o \notin {Nothing, populated} => o.suggestions
      /\ \A o \in Ends : o.how = "auto_populated" => o \in {populated, suggested}
  <2> DEFINE yes == TRUE
  <2>1. /\ populated = [Nothing EXCEPT !.verified = yes, !.how = "auto_populated"]
        /\ suggested = [Nothing EXCEPT !.suggestions = yes, !.verified = yes, !.how = "auto_populated"]
        /\ kept = [Selected EXCEPT !.verified = yes, !.how = "selected"]
        /\ unverified = [Nothing EXCEPT !.suggestions = yes, !.dealers = only, !.selected = only]
        /\ yes = TRUE /\ yes \in BOOLEAN /\ only \in BOOLEAN
    OBVIOUS
  <2> HIDE DEF yes, only, populated, suggested, kept, unverified
  <2>2. /\ Nothing \in OutcomeType /\ Selected \in OutcomeType /\ Nothing.how = "unresolved" /\ Selected.how = "unresolved"
        /\ Nothing.recommendation = "none" /\ Selected.recommendation = "none" /\ Selected.suggestions
    BY OutcomesAreTyped
  <2>3. /\ populated \in OutcomeType /\ populated.recommendation = "none" /\ populated.how = "auto_populated"
    BY <2>1, <2>2 DEF OutcomeType
  <2>4. /\ suggested \in OutcomeType /\ suggested.recommendation = "none" /\ suggested.suggestions
        /\ suggested.how = "auto_populated"
    BY <2>1, <2>2 DEF OutcomeType
  <2>5. /\ kept \in OutcomeType /\ kept.recommendation = "none" /\ kept.suggestions /\ kept.how = "selected"
    BY <2>1, <2>2 DEF OutcomeType
  <2>6. /\ unverified \in OutcomeType /\ unverified.recommendation = "none" /\ unverified.suggestions
        /\ unverified.how = "unresolved"
    BY <2>1, <2>2 DEF OutcomeType
  <2> QED
    BY <2>2, <2>3, <2>4, <2>5, <2>6
<1>2. /\ pc \in {"giving_up", "concluding", "reporting"} /\ pc' = "stopping" /\ outcome' \in Ends
      /\ pc # "giving_up" => outcome' \notin {Nothing, populated}
      /\ outcome' = populated => pc = "giving_up" /\ detectHiddenCommit(call.baseline)
      /\ outcome' = suggested => pc = "concluding" /\ detectHiddenCommit(call.after)
      /\ UNCHANGED <<pageVars, marks, captured, call, retries, offered>>
  <2>1. populated.suggestions = FALSE /\ Nothing.suggestions = FALSE /\ populated.how = "auto_populated"
        /\ suggested.suggestions = TRUE /\ kept.suggestions = TRUE /\ unverified.suggestions = TRUE
        /\ Selected.suggestions = TRUE /\ kept.how = "selected" /\ unverified.how = "unresolved"
        /\ suggested.how = "auto_populated" /\ Nothing.how = "unresolved" /\ Selected.how = "unresolved"
    BY DEF Nothing, Selected
  <2>2. CASE GivesUp
    <3>1. /\ pc = "giving_up" /\ pc' = "stopping"
          /\ outcome' = IF detectHiddenCommit(call.baseline) THEN populated ELSE Nothing
          /\ UNCHANGED <<pageVars, marks, captured, call, retries, offered>>
      BY <2>2 DEF GivesUp
    <3> HIDE DEF populated, suggested, kept, unverified
    <3> QED
      BY <2>1, <3>1
  <2>3. CASE Concludes
    <3>1. /\ pc = "concluding" /\ pc' = "stopping"
          /\ \/ outcome' = suggested /\ detectHiddenCommit(call.after)
             \/ outcome' \in {kept, unverified}
          /\ UNCHANGED <<pageVars, marks, captured, call, retries, offered>>
      <4>1. outcome' = CASE detectHiddenCommit(call.after) -> suggested
                         [] ~detectHiddenCommit(call.after) /\ call.verified -> kept
                         [] OTHER -> unverified
        BY <2>3, Zenon DEF Concludes
      <4> HIDE DEF populated, suggested, kept, unverified
      <4> QED
        BY <2>3, <4>1 DEF Concludes
    <3> HIDE DEF populated, suggested, kept, unverified
    <3> QED
      BY <2>1, <3>1
  <2>4. CASE Reports
    <3>1. /\ pc = "reporting" /\ pc' = "stopping" /\ outcome' = Selected
          /\ UNCHANGED <<pageVars, marks, captured, call, retries, offered>>
      BY <2>4 DEF Reports
    <3> HIDE DEF populated, suggested, kept, unverified
    <3> QED
      BY <2>1, <3>1
  <2> QED
    BY <2>2, <2>3, <2>4
<1> HIDE DEF Ends, populated, suggested
<1>3. /\ outcome' \in OutcomeType /\ outcome'.recommendation = "none"
      /\ pc # "giving_up" => outcome'.suggestions
      /\ outcome'.how = "auto_populated" => outcome' \in {populated, suggested}
  BY <1>1, <1>2
<1>4. LookupTyped'
  BY <1>2, <1>3 DEF LookupTyped, pageVars, Steps
<1>5. Marked'
  BY <1>2 DEF Marked, pageVars
<1>6. Staged'
  BY <1>2, <1>3 DEF Staged, RepollsOnlyUntouched
<1>7. Committed'
  <2>1. signs.hidden \in Nat /\ call.baseline \in Nat /\ call.after \in Nat
    BY DEF LookupTyped, SignsType, CallType
  <2>2. outcome'.how = "auto_populated" => signs.hidden > call.baseline
    BY <1>2, <1>3, <2>1 DEF Committed, detectHiddenCommit
  <2> QED
    BY <1>2, <2>2 DEF Committed, PopulatedByThisCall, pageVars
<1> QED
  BY <1>4, <1>5, <1>6, <1>7

\* The evidence of a selection, or the end of its window.
LEMMA CommitKeepsInv ==
  ASSUME LookupInv, waitForSelectionCommit
  PROVE  LookupInv'
<1> USE DEF LookupInv
<1> DEFINE committed == detectHiddenCommit(call.before)
           verified == committed \/ signs.chosen # "no"
           next == call.selection + 1
           yes == TRUE
           how == IF verified THEN "selected" ELSE "unresolved"
<1>1. /\ pc = "committing" /\ UNCHANGED <<pageVars, marks, captured, retries, offered>>
      /\ \/ /\ outcome' = [Selected EXCEPT !.verified = yes, !.how = "selected"]
            /\ call' = [call EXCEPT !.location = call.found] /\ pc' = "stopping"
         \/ /\ call' = [call EXCEPT !.location = call.found, !.verified = verified]
            /\ pc' = "noting" /\ UNCHANGED outcome
         \/ /\ outcome' = [Selected EXCEPT !.verified = verified, !.how = how]
            /\ pc' = "stopping" /\ UNCHANGED call
         \/ /\ call' = fullStageWait([call EXCEPT !.selection = next], "followup")
            /\ pc' = "polling" /\ UNCHANGED outcome
  BY DEF waitForSelectionCommit
<1>2. /\ call \in CallType /\ call.found \in Results \cup {None} /\ next \in Nat /\ yes \in BOOLEAN
      /\ verified \in BOOLEAN /\ how \in {"unresolved", "selected"}
  BY DEF LookupTyped, CallType
<1> HIDE DEF committed, verified, next, yes, how
<1>3. pc \in Steps \ {"begin", "stopping", "returned", "done"}
  BY <1>1 DEF Steps
<1>4. CASE pc' = "stopping"
  <2>1. /\ call' = [call EXCEPT !.location = call.found] \/ UNCHANGED call
        /\ \/ outcome' = [Selected EXCEPT !.verified = yes, !.how = "selected"]
           \/ outcome' = [Selected EXCEPT !.verified = verified, !.how = how]
    BY <1>1, <1>4
  <2>2. /\ call' \in CallType /\ call'.baseline = call.baseline /\ call'.after = call.after
        /\ call'.stage = call.stage /\ call'.found = call.found
    BY <1>2, <2>1 DEF CallType
  <2>3. /\ outcome' \in OutcomeType /\ outcome'.suggestions /\ outcome'.recommendation = "none"
        /\ outcome'.how # "auto_populated"
    BY <1>2, <2>1, OutcomesAreTyped DEF OutcomeType
  <2>4. LookupTyped'
    BY <1>1, <1>4, <2>2, <2>3 DEF LookupTyped, pageVars, Steps
  <2>5. Marked'
    BY <1>1, <1>4 DEF Marked, pageVars
  <2>6. Staged'
    BY <1>4, <2>3 DEF Staged, RepollsOnlyUntouched
  <2>7. Committed'
    BY <1>1, <1>3, <1>4, <2>2, <2>3 DEF Committed, PopulatedByThisCall, pageVars
  <2> QED
    BY <2>4, <2>5, <2>6, <2>7
<1>5. CASE pc' = "noting"
  <2>1. /\ call' = [call EXCEPT !.location = call.found, !.verified = verified] /\ UNCHANGED outcome
    BY <1>1, <1>5
  <2>2. /\ call' \in CallType /\ call'.baseline = call.baseline /\ call'.after = call.after
        /\ call'.stage = call.stage
    BY <1>2, <2>1 DEF CallType
  <2>3. pc' \in Steps \ {"begin", "selecting", "clicking", "stopping", "returned", "done"}
    BY <1>5 DEF Steps
  <2>4. call'.stage = "dealer" => call'.after >= call'.baseline
    BY <2>2 DEF Committed
  <2> QED
    BY <1>1, <1>3, <1>5, <2>1, <2>2, <2>3, <2>4, CallGoesOn
<1>6. CASE pc' = "polling"
  <2>1. call' = fullStageWait([call EXCEPT !.selection = next], "followup") /\ UNCHANGED outcome
    BY <1>1, <1>6
  <2> DEFINE c == [call EXCEPT !.selection = next]
  <2>2. c \in CallType /\ c.baseline = call.baseline
    BY <1>2 DEF CallType
  <2> HIDE DEF c
  <2>3. call' = fullStageWait(c, "followup")
    BY <2>1 DEF c
  <2>4. call' \in CallType /\ call'.baseline = call.baseline /\ call'.stage = "followup"
    BY <2>2, <2>3, CallsAreTyped DEF Stages
  <2>5. pc' \in Steps \ {"begin", "selecting", "clicking", "stopping", "returned", "done"}
    BY <1>6 DEF Steps
  <2> QED
    BY <1>1, <1>3, <1>6, <2>1, <2>4, <2>5, CallGoesOn
<1> QED
  BY <1>1, <1>4, <1>5, <1>6

\* After the location: the identifiers are counted again, a confirm control is pressed.
LEMMA NotingKeepsInv ==
  ASSUME LookupInv, Notes \/ ConfirmBaselined
  PROVE  LookupInv'
<1> USE DEF LookupInv
<1>1. CASE Notes
  <2> DEFINE confirms == Visible(Choices \cap InScope) \subseteq marks.activated /\ signs.control = "shown"
             control == IF confirms THEN "used" ELSE signs.control
             c == [call EXCEPT !.after = signs.hidden, !.confirmed = confirms]
  <2>1. /\ pc = "noting" /\ call' = fullStageWait(c, "dealer") /\ signs' = [signs EXCEPT !.control = control]
        /\ pc' = IF confirms THEN "confirming" ELSE "polling"
        /\ UNCHANGED <<widget, lookup, shown, rendered, marks, captured, outcome, retries, offered>>
    BY <1>1 DEF Notes
  <2>2. /\ signs \in SignsType /\ signs.hidden \in Nat /\ confirms \in BOOLEAN
        /\ control \in {"absent", "shown", "used"} /\ call \in CallType
    BY DEF LookupTyped, SignsType
  <2> HIDE DEF confirms, control
  <2>3. c \in CallType /\ c.after = signs.hidden /\ c.baseline = call.baseline
    BY <2>2 DEF CallType
  <2> HIDE DEF c
  <2>4. /\ call' \in CallType /\ call'.stage = "dealer" /\ call'.after = signs.hidden /\ call'.baseline = call.baseline
    BY <2>1, <2>3, CallsAreTyped DEF Stages
  <2>5. signs' \in SignsType /\ signs'.hidden = signs.hidden
    BY <2>1, <2>2 DEF SignsType
  <2>6. pc' \in {"confirming", "polling"}
    BY <2>1
  <2>7. LookupTyped'
    BY <2>1, <2>4, <2>5, <2>6 DEF LookupTyped, Steps
  <2>8. Marked'
    BY <2>1, <2>6 DEF Marked
  <2>9. Staged'
    BY <2>1, <2>4, <2>6 DEF Staged, RepollsOnlyUntouched, Nothing
  <2>10. Committed'
    BY <2>1, <2>2, <2>4, <2>5, <2>6 DEF Committed, PopulatedByThisCall, Staged, CallType, Nothing
  <2> QED
    BY <2>7, <2>8, <2>9, <2>10
<1>2. CASE ConfirmBaselined
  <2> DEFINE m == markBaselineCandidates(marks)
  <2>1. /\ pc = "confirming" /\ pc' = "polling" /\ marks' = markStage(m)
        /\ UNCHANGED <<pageVars, captured, call, outcome, retries, offered>>
    BY <1>2 DEF ConfirmBaselined
  <2>2. m \in MarksType /\ m.activated = marks.activated /\ marks.baseline \subseteq m.baseline
    BY BaselinedMarks DEF LookupTyped, markBaselineCandidates, MarksType
  <2> HIDE DEF m
  <2>3. /\ marks' \in MarksType /\ marks'.activated = marks.activated /\ marks.baseline \subseteq marks'.baseline
        /\ marks'.since = {}
    BY <2>1, <2>2 DEF markStage, MarksType
  <2>4. LookupTyped'
    BY <2>1, <2>3 DEF LookupTyped, pageVars, Steps
  <2>5. Marked'
    BY <2>1, <2>3 DEF Marked, pageVars
  <2>6. Staged'
    BY <2>1 DEF Staged, RepollsOnlyUntouched, Nothing, Committed
  <2>7. Committed'
    BY <2>1 DEF Committed, PopulatedByThisCall, pageVars
  <2> QED
    BY <2>4, <2>5, <2>6, <2>7
<1> QED
  BY <1>1, <1>2

\* The capture stops, the lookup is explained, and begun again or left.
LEMMA ReturningKeepsInv ==
  ASSUME LookupInv, Stops \/ rerunDealerSearch \/ Returns
  PROVE  LookupInv'
<1> USE DEF LookupInv
<1>1. CASE Stops
  <2> DEFINE pending == ~outcome.verified
                        /\ classifyLookupFailure(Explanations) = "lookup_request_still_pending_at_timeout"
             advice == IF pending THEN "await_pending_lookup" ELSE "none"
  <2>1. /\ pc = "stopping" /\ pc' = "returned" /\ outcome' = [outcome EXCEPT !.recommendation = advice]
        /\ UNCHANGED <<pageVars, marks, captured, call, retries, offered>>
    BY <1>1 DEF Stops
  <2>2. pending => ~outcome.suggestions /\ ~outcome.verified
    BY PendingIsTheOnlyExplanation
  <2> HIDE DEF pending
  <2>3. advice \in {"none", "await_pending_lookup"} /\ (advice = "await_pending_lookup" => pending)
    OBVIOUS
  <2> HIDE DEF advice
  <2>4. /\ outcome' \in OutcomeType /\ outcome'.recommendation = advice /\ outcome'.how = outcome.how
        /\ outcome'.verified = outcome.verified
    BY <2>1, <2>3 DEF LookupTyped, OutcomeType
  <2>5. LookupTyped'
    BY <2>1, <2>4 DEF LookupTyped, pageVars, Steps
  <2>6. Marked'
    BY <2>1 DEF Marked, pageVars
  <2>7. Staged'
    BY <2>1, <2>2, <2>3, <2>4 DEF Staged, RepollsOnlyUntouched
  <2>8. Committed'
    BY <2>1, <2>4 DEF Committed, PopulatedByThisCall, pageVars
  <2> QED
    BY <2>5, <2>6, <2>7, <2>8
<1>2. CASE rerunDealerSearch
  <2>1. /\ pc = "returned" /\ pc' = "begin" /\ call' = NewCall("await_pending_lookup") /\ outcome' = Nothing
        /\ UNCHANGED <<pageVars, marks, captured, offered>>
    BY <1>2 DEF rerunDealerSearch
  <2>2. call' \in CallType /\ call'.location = None /\ call'.stage = "location"
    BY <2>1, NewCalls
  <2>3. LookupTyped'
    BY <2>1, <2>2, OutcomesAreTyped DEF LookupTyped, pageVars, Steps
  <2>4. Marked'
    BY <2>1 DEF Marked, pageVars
  <2>5. Staged'
    BY <2>1, <2>2, OutcomesAreTyped DEF Staged, RepollsOnlyUntouched
  <2>6. Committed'
    BY <2>1, <2>2, OutcomesAreTyped DEF Committed, PopulatedByThisCall
  <2> QED
    BY <2>3, <2>4, <2>5, <2>6
<1>3. CASE Returns
  <2>1. /\ pc = "returned" /\ pc' = "done" /\ UNCHANGED <<pageVars, marks, captured, call, outcome, retries, offered>>
    BY <1>3 DEF Returns
  <2>2. LookupTyped'
    BY <2>1 DEF LookupTyped, pageVars, Steps
  <2>3. Marked'
    BY <2>1 DEF Marked, pageVars
  <2>4. Staged'
    BY <2>1 DEF Staged, RepollsOnlyUntouched
  <2>5. Committed'
    BY <2>1 DEF Committed, PopulatedByThisCall, pageVars
  <2> QED
    BY <2>2, <2>3, <2>4, <2>5
<1> QED
  BY <1>1, <1>2, <1>3

-----------------------------------------------------------------------------

\* The invariant holds before the first lookup.
LEMMA LookupInvInit == Init => LookupInv
<1> SUFFICES ASSUME Init PROVE LookupInv
  OBVIOUS
<1> USE DEF Init
<1> DEFINE control == IF widget.confirm THEN "shown" ELSE "absent"
           no == FALSE
<1>1. call \in CallType /\ call.location = None /\ call.stage = "location" /\ outcome \in OutcomeType
  BY NewCalls, OutcomesAreTyped
<1>2. signs \in SignsType
  <2>1. signs = [busy |-> no, listed |-> no, hidden |-> 0, chosen |-> "no", control |-> control]
    OBVIOUS
  <2>2. control \in {"absent", "shown"} /\ no \in BOOLEAN
    OBVIOUS
  <2> HIDE DEF control, no
  <2> QED
    BY <2>1, <2>2 DEF SignsType
<1>3. shown \subseteq Results /\ rendered = shown
  BY DealerAssumption
<1>4. marks \in MarksType /\ marks.since = {}
  BY DEF NoMarks, MarksType
<1>5. LookupTyped
  BY <1>1, <1>2, <1>3, <1>4 DEF LookupTyped, Steps
<1>6. Marked
  BY <1>3, <1>4 DEF Marked
<1>7. Staged
  BY <1>1, OutcomesAreTyped DEF Staged, RepollsOnlyUntouched
<1>8. Committed
  BY <1>1, OutcomesAreTyped DEF Committed, PopulatedByThisCall
<1> QED
  BY <1>5, <1>6, <1>7, <1>8 DEF LookupInv

\* Every step keeps the invariant.
LEMMA LookupInvStep == LookupInv /\ [Next]_vars => LookupInv'
<1> SUFFICES ASSUME LookupInv, [Next]_vars PROVE LookupInv'
  OBVIOUS
<1>1. CASE UNCHANGED vars
  BY <1>1 DEF vars, pageVars, LookupInv, LookupTyped, Marked, Staged, Committed, RepollsOnlyUntouched, PopulatedByThisCall
<1>2. CASE Page
  BY <1>2, PageKeepsInv
<1>3. CASE Begins
  BY <1>3, BeginKeepsInv
<1>4. CASE (\E retained \in BOOLEAN : Typed(retained)) \/ Escalates \/ Extends \/ TimesOut
  BY <1>4, WaitingKeepsInv
<1>5. CASE observeStep \/ pollForStageResult \/ Refinds
  BY <1>5, LookingKeepsInv
<1>6. CASE GivesUp \/ Concludes \/ Reports
  BY <1>6, EndingKeepsInv
<1>7. CASE Selects
  BY <1>7, SelectionKeepsInv
<1>8. CASE clickStageResult \/ \E landed \in BOOLEAN : guardedClick(landed)
  BY <1>8, ClickKeepsInv
<1>9. CASE waitForSelectionCommit
  BY <1>9, CommitKeepsInv
<1>10. CASE Notes \/ ConfirmBaselined
  BY <1>10, NotingKeepsInv
<1>11. CASE Stops \/ rerunDealerSearch \/ Returns
  BY <1>11, ReturningKeepsInv
<1> QED
  BY <1>1, <1>2, <1>3, <1>4, <1>5, <1>6, <1>7, <1>8, <1>9, <1>10, <1>11 DEF Next, Engine

(* The inductive invariant of the lookup holds in every reachable state:   *)
(* types, what the marks hide, what each place of the lookup has selected, *)
(* and the counts its verdicts compare.                                    *)
(* dealerLookup.ts:1275-1400, 1700-1900                                    *)
THEOREM LookupInvariance == Spec => []LookupInv
<1>1. LookupInv /\ [Next]_vars => LookupInv'
  BY LookupInvStep
<1> QED
  BY <1>1, LookupInvInit, PTL DEF Spec

(* A selection is never a result that was on the page when an earlier one  *)
(* was clicked: a click marks everything visible, the probe's own trace of *)
(* new results is emptied with it, and a result enters the page once.      *)
(* dealerLookup.ts:826-831, 1861-1866                                      *)
THEOREM SelectionsNeverGoBack == Spec => []SelectionsAdvance
<1>1. LookupInv => SelectionsAdvance
  BY DEF LookupInv, Marked, SelectionsAdvance
<1> QED
  BY <1>1, LookupInvariance, PTL

(* A lookup recommended to be polled again had selected nothing: the       *)
(* recommendation is the last explanation, and every end of a call that    *)
(* selected a location has an earlier one.                                 *)
(* dealerLookup.ts:1336-1338, 1384-1387                                    *)
THEOREM RepollsAreHarmless == Spec => []RepollsOnlyUntouched
<1>1. LookupInv => RepollsOnlyUntouched
  BY DEF LookupInv, Staged
<1> QED
  BY <1>1, LookupInvariance, PTL

(* A lookup reported populated without a selection had an identifier       *)
(* committed since its own call began: both counts it may be compared with *)
(* were taken in this call.                                                *)
(* dealerLookup.ts:1790-1796; dealerLookupProbe.ts:502-505                 *)
THEOREM PopulationIsNew == Spec => []PopulatedByThisCall
<1>1. LookupInv => PopulatedByThisCall
  BY DEF LookupInv, Committed
<1> QED
  BY <1>1, LookupInvariance, PTL
=============================================================================
