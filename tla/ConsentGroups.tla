---------------------------- MODULE ConsentGroups ----------------------------
(***************************************************************************)
(* The radio groups of a lead form (src/forms/consentGroups.ts): the       *)
(* bounded scan that answers them before Submit, the recovery of groups    *)
(* the site's own validator rejected, and the test-only opt-in.            *)
(*                                                                         *)
(* A group's options are told apart by polarity only; what a group asks    *)
(* for (its purpose) and which polarities can be recognised among its      *)
(* labels are constants of the form.                                       *)
(***************************************************************************)
EXTENDS Integers, FiniteSets

CONSTANTS
  Groups,
  Purpose,        \* [Groups -> Purposes]
  Recognised,     \* polarities a label or value of the group spells out
  MarkedRequired, \* groups the form marks as required
  Reaches,        \* the ways a group may be rendered
  MaxRescans,     \* rescans of one resolution
  MaxRereads      \* rescans of one rediscovery, after its first reading

Purposes == {"optional_commercial", "required_processing", "policy_choice", "ambiguous"}

ASSUME GroupAssumption ==
  /\ IsFiniteSet(Groups)
  /\ Purpose \in [Groups -> Purposes]
  /\ Recognised \in [Groups -> SUBSET {"positive", "negative"}]
  /\ MarkedRequired \subseteq Groups
  /\ MaxRescans \in Nat /\ MaxRereads \in Nat

VARIABLES
  checked,   \* the page: polarity of each group's selected option
  reach,     \* the page: how each group is rendered
  scan,      \* the resolution under way
  consent,   \* what the last resolution returned
  chosen     \* history: <<group, answer, path>> of every option the engine activated

consentVars == <<checked, reach, scan, consent, chosen>>

Polarities == {"none", "positive", "negative", "unknown"}
(* "unrendered": no member has a box; "obscured": rendered, but no surface can be clicked; *)
(* "copy": another layout's duplicate of a group that is reachable.                        *)
ASSUME ReachAssumption ==
  /\ Reaches \subseteq {"absent", "unrendered", "obscured", "copy", "actionable"}
  /\ Reaches # {}

Found      == {g \in Groups : reach[g] # "absent"}
Actionable == {g \in Groups : reach[g] = "actionable"}
Optional(G) == {g \in G : Purpose[g] = "optional_commercial"}
Unreached(G) == {g \in G : reach[g] \in {"unrendered", "obscured"}}

NoScan == [phase |-> "off", pending |-> {}, view |-> [g \in Groups |-> "none"],
           outcome |-> [g \in Groups |-> "none"],
           rescans |-> 0, idle |-> FALSE, reads |-> 0]
NoConsent == [unresolvedRequired |-> {}, declineFailed |-> {},
              optionalAnswerable |-> {}, optionalObscured |-> {}]

(* The answer planConsentGroup intends for a group read with `state' selected; *)
(* "keep" and "done" complete the group untouched, "leave" gives up on it.     *)
Plan(g, state) ==
  CASE Purpose[g] = "optional_commercial" ->
         IF "negative" \in Recognised[g] THEN "negative" ELSE "leave"
    [] Purpose[g] = "required_processing" ->
         IF g \notin MarkedRequired THEN "leave"
         ELSE IF state = "positive" THEN "keep"
         ELSE IF "positive" \in Recognised[g] THEN "positive" ELSE "leave"
    [] Purpose[g] = "policy_choice" -> IF state # "none" THEN "done" ELSE "policy"
    [] Purpose[g] = "ambiguous" -> IF state # "none" THEN "done" ELSE "leave"

(* Activating an option: every route is tried until two readings agree, so *)
(* the answer is on the page, or every route failed and the page shows     *)
(* whatever the widget made of the clicks.                                 *)
Activate(g, answer, verified, path) ==
  /\ \E shown \in Polarities :
       /\ verified => shown = answer
       /\ checked' = [checked EXCEPT ![g] = shown]
  /\ chosen' = chosen \cup {<<g, answer, path>>}

-----------------------------------------------------------------------------
(* resolveConsentGroups.                                                   *)

StartScan ==
  /\ scan.phase = "off"
  /\ scan' = [NoScan EXCEPT !.phase = "discover"]
  /\ UNCHANGED <<checked, reach, consent, chosen>>

(* A pass reads every group once, and acts on what it read.                *)
Discover ==
  LET pending == {g \in Actionable : scan.outcome[g] = "none"}
      waiting == {g \in Unreached(Groups) : scan.outcome[g] = "none"} # {}
  IN
  /\ scan.phase = "discover"
  /\ scan' = [scan EXCEPT !.phase = "answer", !.pending = pending, !.view = checked,
                          !.idle = (pending = {} /\ ~waiting)]
  /\ UNCHANGED <<checked, reach, consent, chosen>>

ResolveGroup(g, verified) ==
  LET plan == Plan(g, scan.view[g]) IN
  /\ scan.phase = "answer" /\ g \in scan.pending
  /\ \/ /\ plan \in {"keep", "done", "leave"} /\ ~verified
        /\ scan' = [scan EXCEPT !.pending = @ \ {g}, !.outcome[g] = plan]
        /\ UNCHANGED <<checked, chosen>>
     \/ /\ plan = "policy"
        /\ \/ /\ ~verified    \* no option fits the journey or the private customer
              /\ scan' = [scan EXCEPT !.pending = @ \ {g}, !.outcome[g] = "leave"]
              /\ UNCHANGED <<checked, chosen>>
           \/ /\ Activate(g, "unknown", verified, "resolution")
              /\ scan' = [scan EXCEPT !.pending = @ \ {g},
                                      !.outcome[g] = IF verified THEN "committed" ELSE "failed"]
     \/ /\ plan \in {"negative", "positive"}
        /\ Activate(g, plan, verified, "resolution")
        /\ scan' = [scan EXCEPT !.pending = @ \ {g},
                       !.outcome[g] = IF verified THEN "committed"
                                      ELSE IF plan = "negative" THEN "decline_failed" ELSE "failed"]
  /\ UNCHANGED <<reach, consent>>

EndPassForever ==
  /\ scan.phase = "answer" /\ scan.pending = {}
  /\ scan' = [scan EXCEPT !.phase = IF scan.idle THEN "settle" ELSE "discover"]
  /\ UNCHANGED <<checked, reach, consent, chosen>>

EndPass ==
  /\ scan.phase = "answer" /\ scan.pending = {}
  /\ scan' = IF scan.idle \/ scan.rescans >= MaxRescans
               THEN [scan EXCEPT !.phase = "settle"]
               ELSE [scan EXCEPT !.phase = "discover", !.rescans = @ + 1]
  /\ UNCHANGED <<checked, reach, consent, chosen>>

(* The summary reads the page once more; which optional groups could be    *)
(* answered is read afresh where it is decided on (Rediscover).            *)
EndScan ==
  /\ scan.phase = "settle"
  /\ consent' = [NoConsent EXCEPT
                   !.unresolvedRequired = {g \in Actionable \cap MarkedRequired : checked[g] = "none"},
                   !.declineFailed = {g \in Groups : scan.outcome[g] = "decline_failed"}]
  /\ scan' = NoScan
  /\ UNCHANGED <<checked, reach, chosen>>

-----------------------------------------------------------------------------
(* recoverSiteRejectedConsentGroups: `rejected' are the groups the site's  *)
(* validator complains about, `verified' the declines that read back.      *)

Declinable(rejected) ==
  {g \in Optional(rejected \cap Actionable) : checked[g] = "none"}

RecoveryAnswered(rejected, verified) ==
  rejected # {} /\ rejected = Declinable(rejected) \cap verified

RecoverGroups(rejected, verified) ==
  LET clicked == {g \in Declinable(rejected) : "negative" \in Recognised[g]} IN
  /\ verified \subseteq clicked
  /\ \E shown \in [clicked -> Polarities] :
       /\ \A g \in clicked : (g \in verified) => (shown[g] = "negative")
       /\ checked' = [g \in Groups |-> IF g \in clicked THEN shown[g] ELSE checked[g]]
  /\ chosen' = chosen \cup {<<g, "negative", "recovery">> : g \in clicked}
  /\ UNCHANGED <<reach, scan, consent>>

-----------------------------------------------------------------------------
(* The opt-in of the test-only second Submit.                              *)

(* rediscoverOptionalConsentGroups: read, and read again while an optional *)
(* group is rendered out of reach.                                         *)
Rediscover ==
  /\ scan.phase \in {"off", "reread"}
  /\ IF Optional(Unreached(Groups)) # {} /\ scan.reads < MaxRereads
       THEN scan' = [scan EXCEPT !.phase = "reread", !.reads = @ + 1] /\ UNCHANGED consent
       ELSE /\ scan' = NoScan
            /\ consent' = [consent EXCEPT !.optionalAnswerable = Optional(Actionable),
                                          !.optionalObscured = Optional({g \in Groups : reach[g] = "obscured"})]
  /\ UNCHANGED <<checked, reach, chosen>>

OptInTargetsAny == {g \in Actionable : "positive" \in Recognised[g]}
OptInTargets == {g \in Optional(Actionable) : "positive" \in Recognised[g]}

(* allVerified: something was answered, and all of it.                     *)
OptInVerified(verified) == Optional(Actionable) # {} /\ verified = Optional(Actionable)

OptIn(verified) ==
  /\ verified \subseteq OptInTargets
  /\ \E shown \in [OptInTargets -> Polarities] :
       /\ \A g \in OptInTargets : (g \in verified) => (shown[g] = "positive")
       /\ checked' = [g \in Groups |-> IF g \in OptInTargets THEN shown[g] ELSE checked[g]]
  /\ chosen' = chosen \cup {<<g, "positive", "opt_in">> : g \in OptInTargets}
  /\ UNCHANGED <<reach, scan, consent>>

-----------------------------------------------------------------------------
(* The page between two readings: groups are rendered late, covered or     *)
(* uncovered, and a framework restores an answer from its own state.       *)
PageMovesGroup(g) ==
  /\ \/ \E r \in Reaches \ {reach[g]} : reach' = [reach EXCEPT ![g] = r] /\ UNCHANGED checked
     \/ \E c \in Polarities \ {checked[g]} : checked' = [checked EXCEPT ![g] = c] /\ UNCHANGED reach
  /\ UNCHANGED <<scan, consent, chosen>>

ConsentInit ==
  /\ checked \in [Groups -> {"none", "positive", "negative"}]
  /\ reach \in [Groups -> Reaches]
  /\ scan = NoScan /\ consent = NoConsent /\ chosen = {}

ConsentStep ==
  \/ Discover \/ EndPass \/ EndScan
  \/ \E g \in Groups, verified \in BOOLEAN : ResolveGroup(g, verified)

Outcomes == {"none", "keep", "done", "leave", "committed", "failed", "decline_failed"}
ConsentTypeOK ==
  /\ checked \in [Groups -> Polarities] /\ reach \in [Groups -> Reaches]
  /\ scan.phase \in {"off", "discover", "answer", "settle", "reread"}
  /\ scan.pending \subseteq Groups /\ scan.outcome \in [Groups -> Outcomes]
  /\ scan.rescans \in 0..MaxRescans /\ scan.reads \in 0..MaxRereads
  /\ \A field \in DOMAIN consent : consent[field] \subseteq Groups
  /\ \A c \in chosen : c[1] \in Groups /\ c[2] \in Polarities
=============================================================================
