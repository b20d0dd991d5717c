------------------------- MODULE SubmissionObserver -------------------------
(***************************************************************************)
(* The bounded observation that follows one Submit click                   *)
(* (src/actions/submissionObserver.ts): a loop that polls the network      *)
(* capture and the page until a decisive signal, or until its deadline     *)
(* passes without progress.  One unit of the clock is one poll interval.   *)
(*                                                                         *)
(* The loop reads the captured requests, then awaits several reads of the  *)
(* page: requests are sent and answered in between, so the two halves of   *)
(* an iteration are two actions.                                           *)
(***************************************************************************)
EXTENDS Integers, Sequences, FiniteSets

CONSTANTS
  BaseWindow,     \* polls the window lasts even when nothing happens
  Extension,      \* polls one extension adds
  HardCap,        \* polls after which no extension is given
  ChallengeGap,   \* polls between two looks for a challenge
  RequestKinds,   \* the requests a click may start: records [purpose, host, writes]
  Statuses,       \* the HTTP statuses servers answer with
  MaxRequests,    \* bound: captured requests of one attempt
  MaxSignals      \* bound: page signals one poll finds together

ASSUME WindowAssumption ==
  /\ BaseWindow \in Nat /\ Extension \in Nat \ {0} /\ HardCap \in Nat
  /\ BaseWindow <= HardCap /\ ChallengeGap \in Nat
ASSUME TrafficAssumption ==
  /\ RequestKinds \subseteq [purpose : {"lead", "lookup", "tracking"},
                             host : {"own_site", "form_action", "third_party"},
                             writes : BOOLEAN]
  /\ Statuses \subseteq 100..599
  /\ MaxRequests \in Nat /\ MaxSignals \in Nat

VARIABLES
  reqs,    \* requests captured since just before the click, in order
  watch,   \* the observation under way
  obs      \* what the last observation returned

observerVars == <<reqs, watch, obs>>

(* What one poll may find on the page besides a new URL.                   *)
SuccessSurfaces == {"confirmation", "success_surface"}    \* the latter: a status or a data-layer event
BusySurfaces    == {"submit_disabled", "loading"}         \* the latter: an indicator or mutations
Signals == SuccessSurfaces \cup BusySurfaces \cup
           {"duplicate_notice", "status_error", "aria_invalid", "challenge", "form_gone", "form_hidden"}
Snapshots == {S \in SUBSET Signals : Cardinality(S) <= MaxSignals /\ ~({"form_gone", "form_hidden"} \subseteq S)}

NoStatus  == 0
NoRequest == [outcome |-> "none", status |-> NoStatus]
Terminals == {"succeeded", "validation_failed", "server_rejected", "server_error",
              "blocked_or_challenged", "unknown_outcome"}

-----------------------------------------------------------------------------
(* Which of the captured requests are the lead itself: their positions.     *)

Tier(kind) ==
  IF kind.purpose = "tracking" \/ kind.host = "third_party" THEN "excluded"
  ELSE IF kind.writes THEN "primary"
  ELSE IF kind.purpose = "lookup" THEN "excluded"
  ELSE "secondary"

BusinessRequests(rs) ==
  LET ofTier(tier) == {i \in DOMAIN rs : Tier(rs[i].kind) = tier}
  IN  IF ofTier("primary") # {} THEN ofTier("primary") ELSE ofTier("secondary")

Refused(r) == r.status >= 400

(* The request the observation speaks of: the first refused one, else the first one. *)
First(I) == CHOOSE i \in I : \A j \in I : i <= j
DecisiveRequest(rs) ==
  LET business == BusinessRequests(rs)
      refused  == {i \in business : Refused(rs[i])}
      decisive == rs[First(IF refused # {} THEN refused ELSE business)]
  IN  IF business = {} THEN NoRequest
      ELSE [outcome |-> decisive.outcome, status |-> decisive.status]

BusinessPending(rs) ==
  \E i \in DOMAIN rs : rs[i].outcome = "pending" /\ Tier(rs[i].kind) # "excluded"

ResponseState(status) ==
  IF status \in {401, 403, 429} THEN "blocked_or_challenged"
  ELSE IF status \in {400, 409, 422} THEN "server_rejected"
  ELSE IF status >= 500 THEN "server_error"
  ELSE "none"

-----------------------------------------------------------------------------
(* One poll.                                                               *)

Succeeding(S, business) ==
  \/ S \cap SuccessSurfaces # {}
  \/ business.status \in 200..299 /\ S \cap {"form_gone", "form_hidden"} # {}

InProgress(S) == BusinessPending(reqs) \/ S \cap (BusySurfaces \cup {"form_hidden"}) # {}

(* The order the loop asks its questions in; "none" when no signal is decisive. *)
Verdict(S, business, challengeDue) ==
  IF "duplicate_notice" \in S THEN "blocked_or_challenged"
  ELSE IF Succeeding(S, business) /\ "status_error" \notin S THEN "succeeded"
  ELSE IF ResponseState(business.status) # "none" THEN ResponseState(business.status)
  ELSE IF S \cap {"aria_invalid", "status_error"} # {} THEN "validation_failed"
  ELSE IF challengeDue /\ "challenge" \in S THEN "blocked_or_challenged"
  ELSE "none"

Off == [phase |-> "off", clock |-> 0, base |-> 0, deadline |-> 0, challengeAt |-> 0,
        business |-> NoRequest]
NoObservation ==
  [terminal |-> "none", minimum |-> 0, total |-> 0, detected |-> FALSE,
   business |-> NoRequest, confirmed |-> FALSE, urlChanged |-> FALSE, formPresent |-> TRUE,
   disabled |-> FALSE, progress |-> FALSE]

(* Ending the loop re-reads the capture and the progress signals.          *)
EndObservation(terminal, urlChanged, S) ==
  /\ obs' = [terminal    |-> terminal,
             minimum     |-> watch.base,
             total       |-> watch.clock,
             detected    |-> BusinessRequests(reqs) # {},
             business    |-> DecisiveRequest(reqs),
             confirmed   |-> "confirmation" \in S /\ "duplicate_notice" \notin S,
             urlChanged  |-> urlChanged,
             formPresent |-> S \cap {"form_gone", "form_hidden"} = {},
             disabled    |-> "submit_disabled" \in S,
             progress    |-> terminal # "succeeded" /\ InProgress(S)]
  /\ watch' = Off

(* The capture is already on when the click fires its first requests.      *)
BeginObservation(base, kinds) ==
  /\ reqs' = [i \in DOMAIN kinds |-> [kind |-> kinds[i], outcome |-> "pending", status |-> NoStatus]]
  /\ watch' = [Off EXCEPT !.phase = "network", !.base = base, !.deadline = base,
                          !.challengeAt = -ChallengeGap - 1]
  /\ obs' = NoObservation

ReadNetwork ==
  /\ watch.phase = "network"
  /\ \/ EndObservation("succeeded", TRUE, {})
     \/ /\ watch' = [watch EXCEPT !.phase = "page", !.business = DecisiveRequest(reqs)]
        /\ UNCHANGED obs
  /\ UNCHANGED reqs

(* At the deadline, progress buys more time until the cap.                 *)
KeepWaitingForever(S) == InProgress(S)
KeepWaiting(S) == InProgress(S) /\ watch.clock < HardCap

(* The half of an iteration that awaits the page: decide, extend, give up or wait. *)
ReadPage(S) ==
  LET due     == watch.clock - watch.challengeAt > ChallengeGap
      verdict == Verdict(S, watch.business, due)
      waiting == [watch EXCEPT !.phase = "network", !.clock = @ + 1,
                               !.challengeAt = IF due THEN watch.clock ELSE @]
  IN
  /\ watch.phase = "page"
  /\ \/ /\ verdict # "none"
        /\ EndObservation(verdict, FALSE, S)
     \/ /\ verdict = "none" /\ watch.clock < watch.deadline
        /\ watch' = waiting /\ UNCHANGED obs
     \/ /\ verdict = "none" /\ watch.clock >= watch.deadline /\ KeepWaiting(S)
        /\ watch' = [waiting EXCEPT !.deadline =
                       IF watch.clock + Extension < HardCap THEN watch.clock + Extension ELSE HardCap]
        /\ UNCHANGED obs
     \/ /\ verdict = "none" /\ watch.clock >= watch.deadline /\ ~KeepWaiting(S)
        /\ EndObservation("unknown_outcome", FALSE, S)
  /\ UNCHANGED reqs

-----------------------------------------------------------------------------
(* The network while the capture is on.                                    *)

StartRequest(kind) ==
  /\ Len(reqs) < MaxRequests
  /\ reqs' = Append(reqs, [kind |-> kind, outcome |-> "pending", status |-> NoStatus])
  /\ UNCHANGED <<watch, obs>>

EndRequest(i, status) ==
  /\ reqs[i].outcome = "pending"
  /\ reqs' = [reqs EXCEPT ![i].outcome = IF status = NoStatus THEN "failed" ELSE "completed",
                          ![i].status  = status]
  /\ UNCHANGED <<watch, obs>>

Network ==
  \/ \E kind \in RequestKinds : StartRequest(kind)
  \/ \E i \in DOMAIN reqs, status \in Statuses \cup {NoStatus} : EndRequest(i, status)

ObserverInit == reqs = <<>> /\ watch = Off /\ obs = NoObservation
ObserverStep == ReadNetwork \/ \E S \in Snapshots : ReadPage(S)

RequestType ==
  [kind : RequestKinds, outcome : {"pending", "completed", "failed"}, status : Statuses \cup {NoStatus}]
ObserverTypeOK ==
  /\ reqs \in Seq(RequestType)
  /\ watch.phase \in {"off", "network", "page"}
  /\ watch.clock \in 0..HardCap + 1 /\ watch.deadline \in 0..HardCap
  /\ obs.terminal \in Terminals \cup {"none"}

(* An observation that ends undecided was kept for the whole of its minimum *)
(* window, is never extended past the hard cap, and before that cap is only *)
(* given up when nothing was in progress at the poll that gave it up: a     *)
(* slow site is waited for, and a silent one is not waited for for ever     *)
(* (submissionObserver.ts:479-503, the deadline and its extensions).        *)
UndecidedOnlyWhenSpent ==
  /\ watch.clock <= HardCap
  /\ obs.terminal = "unknown_outcome" =>
       /\ obs.minimum <= obs.total /\ obs.total <= HardCap
       /\ obs.total < HardCap => ~obs.progress
=============================================================================
