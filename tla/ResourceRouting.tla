-------------------------- MODULE ResourceRouting --------------------------
(***************************************************************************)
(* Low-memory resource routing (src/api/browserResourceRouting.ts): one    *)
(* route handler on the browser context, one tally per page, a report of a *)
(* page when it closes and of the pages still live when routing is         *)
(* detached.  Page events, requests and the detaching are callbacks of one *)
(* event loop and come in any order.                                       *)
(***************************************************************************)
EXTENDS Integers, Sequences, FiniteSets, Functions

CONSTANTS
  Main,          \* the page the run started with
  Popups,        \* the other pages of its browser context
  NoPage         \* the frame of a request could not be read

ASSUME PageAssumption == Main \notin Popups /\ NoPage \notin Popups \cup {Main} /\ IsFiniteSet(Popups)

Pages == Popups \cup {Main}
Fates == {"allowed", "blocked"}        \* blocked: image, media, font
Roles == {"original", "popup", "adopted_popup", "nested_popup"}
EmptyTally == [k \in Fates |-> 0]

VARIABLES
  routing,   \* the handle of this run
  handled    \* history: the requests the handler was called with, by fate

routingVars == <<routing, handled>>

NewState(role) == [role |-> role, duplicate |-> FALSE, closes |-> TRUE, tally |-> EmptyTally]

(* A page is registered once while it is live; a second attempt is noted.  *)
(* `closes' says whether its close event is still to come.                 *)
registerPage(r, p, role, closes) ==
  IF p \in DOMAIN r.live THEN [r EXCEPT !.live[p].duplicate = TRUE]
  ELSE [r EXCEPT !.live = [q \in DOMAIN @ \cup {p} |->
                             IF q = p THEN [NewState(role) EXCEPT !.closes = closes] ELSE @[q]]]

NoRouting == [phase |-> "off", live |-> <<>>, reports |-> <<>>, loose |-> EmptyTally]
attachLowMemoryResourceRouting ==
  registerPage([NoRouting EXCEPT !.phase = "on"], Main, "original", TRUE)

Report(r, p) == [page |-> p, role |-> r.live[p].role, tally |-> r.live[p].tally]
Released(r, p) == [r EXCEPT !.reports = Append(@, Report(r, p)),
                            !.live = [q \in DOMAIN @ \ {p} |-> @[q]]]

(* context "page", page "close" and describePage, as what they make of the *)
(* handle; each does nothing for a page or a phase it does not know.       *)
onNewPage(r, p) == IF r.phase = "on" THEN registerPage(r, p, "popup", TRUE) ELSE r
onClose(r, p) == IF p \in DOMAIN r.live /\ r.live[p].closes THEN Released(r, p) ELSE r
describePage(r, p, role) == IF p \in DOMAIN r.live THEN [r EXCEPT !.live[p].role = role] ELSE r

(* The handler stays on the context until unroute has been answered.  It   *)
(* registers a page it does not know, one that has closed included.        *)
routeHandler(p, fate, isOpen, bound) ==
  LET known == IF p = NoPage THEN routing
               ELSE IF p \in DOMAIN routing.live THEN routing
               ELSE registerPage(routing, p, "popup", isOpen)
  IN  /\ routing.phase \in {"on", "detaching"}
      /\ handled["allowed"] + handled["blocked"] < bound
      /\ routing' = IF p = NoPage THEN [known EXCEPT !.loose[fate] = @ + 1]
                    ELSE [known EXCEPT !.live[p].tally[fate] = @ + 1]
      /\ handled' = [handled EXCEPT ![fate] = @ + 1]

(* detach: pages are no longer announced, then unroute is awaited, then    *)
(* every page still live is reported.                                      *)
DetachBegins(r) == IF r.phase = "on" THEN [r EXCEPT !.phase = "detaching"] ELSE r
ReportAll(r) ==
  LET order == CHOOSE s \in [1..Cardinality(DOMAIN r.live) -> DOMAIN r.live] :
                 \A i, j \in DOMAIN s : i # j => s[i] # s[j]
  IN  r.reports \o [i \in DOMAIN order |-> Report(r, order[i])]
(* Mutant: pages still open when routing is detached are forgotten.        *)
DetachUnreported(r) == [r EXCEPT !.phase = "off", !.live = <<>>]
DetachEnds(r) == [r EXCEPT !.phase = "off", !.reports = ReportAll(r), !.live = <<>>]

(* diagnostics: the tallies of the reported, the live and the unknown pages. *)
diagnostics(fate) ==
    routing.loose[fate]
  + SumFunction([p \in DOMAIN routing.live |-> routing.live[p].tally[fate]])
  + SumFunction([i \in DOMAIN routing.reports |-> routing.reports[i].tally[fate]])

RoutingTypeOK ==
  /\ routing.phase \in {"off", "on", "detaching"}
  /\ DOMAIN routing.live \subseteq Pages
  /\ \A p \in DOMAIN routing.live :
       /\ routing.live[p].role \in Roles /\ routing.live[p].closes \in BOOLEAN
       /\ routing.live[p].tally \in [Fates -> Nat]
  /\ routing.loose \in [Fates -> Nat]
  /\ handled \in [Fates -> Nat]

(* Every request that went through the handler is counted in exactly one   *)
(* tally of the diagnostics, whatever the order of page events, late       *)
(* requests and the detaching.  browserResourceRouting.ts:241-245, 308-332 *)
RequestsAccounted == \A fate \in Fates : diagnostics(fate) = handled[fate]

=============================================================================
