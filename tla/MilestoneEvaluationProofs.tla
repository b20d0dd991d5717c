---------------------- MODULE MilestoneEvaluationProofs ----------------------
(***************************************************************************)
(* Proofs about the milestones of a run: they are reached in their order,  *)
(* with one record of evidence each; a panel is never credited to an older *)
(* or an unverified click; no verdict outlives its step; and a corrective  *)
(* request of the reasoning model is the last of its decision.             *)
(***************************************************************************)
EXTENDS MilestoneEvaluation, FiniteSetTheorems, WellFoundedInduction, TLAPS

Stages == {"observing", "observed", "evaluating", "deciding", "acted", "concluding", "ended"}
ClickType == [step : Nat, verified : BOOLEAN]
SurfaceType ==
  [kind : {"main", "in_document", "adopted"}, dialog : BOOLEAN, click : ClickType, since : Nat,
   checked : BOOLEAN, held : BOOLEAN]
Panels == {look.panel : look \in Looks} \cup {None}
Vias == {"opened", "main", "in_document", "adopted", None}
ContextType == [via : Vias, panel : Panels, click : ClickType, since : Nat]
MarkerType == [generation : Nat, step : Nat]
CallType ==
  [phase : {"pre_action", "post_action"}, round : Nat, context : ContextType, todo : SUBSET Ids,
   found : SUBSET Ids, relied : SUBSET MarkerType]
RecordType ==
  [criterion : Ids, step : Nat, phase : {"pre_action", "post_action"},
   source : {"page", "panel_causal", "verifier"}, via : Vias, click : ClickType, since : Nat]
ActType ==
  [action : ACTION_TYPES \cup {None}, success : BOOLEAN, opened : BOOLEAN, verified : BOOLEAN,
   controls : SUBSET Controls, inside : BOOLEAN]
DecisionType == [action : ACTION_TYPES, target : Controls \cup {None}]
RequestType == [attempt : Nat, sent : Seq({"plain", "corrective"}), observed : SUBSET Controls]

\* A click that may be credited with what a surface entered in the step `since` shows.
Justified(click, since) == click.verified => click.step = since - 1

\* No click caused a main page; an in-document surface may be credited with the click just before it.
SurfaceSound(s) ==
  /\ s.kind = "main" => ~s.click.verified
  /\ s.kind = "in_document" => Justified(s.click, s.since)

\* An in-document surface is always one of a main page.
SurfacesSound(stack) ==
  /\ stack \in Seq(SurfaceType) /\ Len(stack) >= 1
  /\ stack[1].kind = "main"
  /\ \A i \in 1..Len(stack) : SurfaceSound(stack[i])
  /\ \A i \in 2..Len(stack) : stack[i].kind = "in_document" => stack[i - 1].kind = "main"

MilestonesTyped ==
  /\ page \in Looks \cup {Blank}
  /\ SurfacesSound(surfaces) /\ generation \in Nat /\ step \in Nat
  /\ stage \in Stages
  /\ stage = "evaluating" => call \in CallType
  /\ satisfied \subseteq Ids /\ evidence \in Seq(RecordType)
  /\ act \in ActType /\ lastClick \in ClickType
  /\ lastChange \in BOOLEAN /\ pending \in BOOLEAN /\ suppress \in BOOLEAN /\ submission \in BOOLEAN
  /\ Asked => request \in RequestType /\ request.sent # << >>
  /\ Answered => decision \in DecisionType

-----------------------------------------------------------------------------
(* The surface stack.                                                      *)

\* The active surface of a sound stack is sound.
LEMMA ActiveSurface ==
  ASSUME NEW stack, SurfacesSound(stack)
  PROVE  Active(stack) \in SurfaceType /\ SurfaceSound(Active(stack))
  BY DEF SurfacesSound, Active

\* Marking the active surface keeps a stack sound, and the surface what it is.
LEMMA MarkedSurfaces ==
  ASSUME NEW stack, SurfacesSound(stack), NEW field, field \in {"checked", "held"}
  PROVE  /\ SurfacesSound(Marked(stack, field))
         /\ Active(Marked(stack, field)).kind = Active(stack).kind
         /\ Active(Marked(stack, field)).click = Active(stack).click
<1> DEFINE n == Len(stack)
           yes == TRUE
           top == [stack[n] EXCEPT ![field] = yes]
<1>1. stack \in Seq(SurfaceType) /\ n \in Nat /\ n >= 1 /\ stack[n] \in SurfaceType /\ yes \in BOOLEAN
  BY DEF SurfacesSound
<1>2. Marked(stack, field) = [stack EXCEPT ![n] = top]
  BY DEF Marked
<1> HIDE DEF yes
<1>3. top \in SurfaceType /\ top.kind = stack[n].kind /\ top.click = stack[n].click /\ top.since = stack[n].since
  <2>1. CASE field = "checked"
    BY <1>1, <2>1 DEF SurfaceType
  <2>2. CASE field = "held"
    BY <1>1, <2>2 DEF SurfaceType
  <2> QED
    BY <2>1, <2>2
<1> HIDE DEF top
<1> DEFINE marked == [stack EXCEPT ![n] = top]
<1>4. marked \in Seq(SurfaceType) /\ Len(marked) = n /\ \A i \in 1..n : marked[i] = IF i = n THEN top ELSE stack[i]
  BY <1>1, <1>3
<1>5. \A i \in 1..n : /\ marked[i].kind = stack[i].kind /\ marked[i].click = stack[i].click
                      /\ marked[i].since = stack[i].since
  BY <1>3, <1>4
<1> HIDE DEF marked, n
<1>6. SurfacesSound(Marked(stack, field))
  <2>1. \A i \in 1..n : SurfaceSound(marked[i])
    BY <1>5 DEF SurfacesSound, SurfaceSound, n
  <2>2. marked[1].kind = "main"
    BY <1>1, <1>5 DEF SurfacesSound, n
  <2>3. \A i \in 2..n : marked[i].kind = "in_document" => marked[i - 1].kind = "main"
    <3>1. \A i \in 2..n : i \in 1..n /\ i - 1 \in 1..n
      BY <1>1
    <3> QED
      BY <1>5, <3>1 DEF SurfacesSound, n
  <2> QED
    BY <1>1, <1>2, <1>4, <2>1, <2>2, <2>3 DEF SurfacesSound, marked
<1> QED
  BY <1>1, <1>2, <1>4, <1>5, <1>6 DEF Active, n, marked

\* The surfaces below another are sound without it.
LEMMA LowerSurfaces ==
  ASSUME NEW stack, SurfacesSound(stack), NEW n \in 1..Len(stack)
  PROVE  SurfacesSound(SubSeq(stack, 1, n))
<1>1. stack \in Seq(SurfaceType) /\ Len(stack) \in Nat
  BY DEF SurfacesSound
<1>2. n \in Nat /\ n >= 1 /\ n <= Len(stack)
  BY <1>1
<1>3. /\ SubSeq(stack, 1, n) \in Seq(SurfaceType) /\ Len(SubSeq(stack, 1, n)) = n
      /\ \A i \in 1..n : SubSeq(stack, 1, n)[i] = stack[i]
  BY <1>1, <1>2
<1>4. \A i \in 2..n : i \in 1..n /\ i - 1 \in 1..n /\ i \in 2..Len(stack)
  BY <1>2
<1> QED
  BY <1>2, <1>3, <1>4 DEF SurfacesSound

\* Leaving a surface keeps a stack sound, and what an in-document surface is left for is a main page.
LEMMA PoppedSurfaces ==
  ASSUME NEW stack, SurfacesSound(stack), Active(stack).kind # "main"
  PROVE  /\ SurfacesSound(Popped(stack))
         /\ Active(stack).kind = "in_document" => Active(Popped(stack)).kind = "main"
<1>1. Len(stack) > 1 /\ stack \in Seq(SurfaceType) /\ Len(stack) \in Nat
  BY DEF SurfacesSound, Active
<1> DEFINE n == Len(stack) - 1
<1>2. n \in 1..Len(stack) /\ Len(stack) \in 2..Len(stack)
  BY <1>1
<1>3. /\ Len(SubSeq(stack, 1, n)) = n
      /\ SubSeq(stack, 1, n)[n] = stack[n]
  BY <1>1, <1>2
<1> QED
  BY <1>2, <1>3, LowerSurfaces DEF Popped, SurfacesSound, Active

\* Entering a sound surface keeps a stack sound, when an in-document one is entered from a main page.
LEMMA PushedSurface ==
  ASSUME NEW stack, SurfacesSound(stack), NEW s, s \in SurfaceType, SurfaceSound(s),
         s.kind = "in_document" => Active(stack).kind = "main"
  PROVE  SurfacesSound(Append(stack, s)) /\ Active(Append(stack, s)) = s
<1>1. stack \in Seq(SurfaceType) /\ Len(stack) \in Nat /\ Len(stack) >= 1
  BY DEF SurfacesSound
<1>2. /\ Append(stack, s) \in Seq(SurfaceType) /\ Len(Append(stack, s)) = Len(stack) + 1
      /\ \A i \in 1..Len(stack) : Append(stack, s)[i] = stack[i]
      /\ Append(stack, s)[Len(stack) + 1] = s
  BY <1>1
<1>3. \A i \in 1..Len(stack) + 1 : i \in 1..Len(stack) \/ i = Len(stack) + 1
  BY <1>1
<1>4. \A i \in 2..Len(stack) + 1 :
        i - 1 \in 1..Len(stack) /\ (i \in 2..Len(stack) \/ (i = Len(stack) + 1 /\ i - 1 = Len(stack)))
  BY <1>1
<1>5. \A i \in 2..Len(stack) + 1 :
        Append(stack, s)[i].kind = "in_document" => Append(stack, s)[i - 1].kind = "main"
  <2> SUFFICES ASSUME NEW i \in 2..Len(stack) + 1, Append(stack, s)[i].kind = "in_document"
               PROVE  Append(stack, s)[i - 1].kind = "main"
    OBVIOUS
  <2>1. Append(stack, s)[i - 1] = stack[i - 1]
    BY <1>2, <1>4
  <2>2. CASE i \in 2..Len(stack)
    <3>1. Append(stack, s)[i] = stack[i]
      BY <1>2, <2>2
    <3> QED
      BY <2>1, <2>2, <3>1 DEF SurfacesSound
  <2>3. CASE i = Len(stack) + 1 /\ i - 1 = Len(stack)
    BY <1>2, <2>1, <2>3 DEF Active
  <2> QED
    BY <1>4, <2>2, <2>3
<1>6. \A i \in 1..Len(stack) + 1 : SurfaceSound(Append(stack, s)[i])
  BY <1>2, <1>3 DEF SurfacesSound
<1> QED
  BY <1>1, <1>2, <1>5, <1>6 DEF SurfacesSound, Active

-----------------------------------------------------------------------------
(* The groups of criteria and the order in which they are judged.          *)

\* The criterion that is judged first is one of those to judge.
LEMMA FirstJudged ==
  ASSUME NEW todo, todo \subseteq Ids, todo # {}
  PROVE  FirstOf(todo) \in todo
<1>1. todo \subseteq Nat
  BY MilestoneAssumption
<1>2. PICK n \in todo : \A m \in todo : ~(<<m, n>> \in OpToRel(<, Nat))
  BY <1>1, NatLessThanWellFounded, WFMin, Zenon
<1>3. \A m \in todo : ~(m < n)
  BY <1>1, <1>2, Zenon DEF OpToRel
<1>4. \A m \in todo : n <= m
  BY <1>1, <1>3
<1> QED
  BY <1>4 DEF FirstOf

\* The criteria of a group have the same group.
LEMMA GroupsAgree ==
  ASSUME NEW c, c \in Ids, NEW d, d \in Group(c)
  PROVE  d \in Ids /\ c \in Group(c) /\ Group(d) = Group(c)
  BY DEF Group

\* When every required group before a satisfied one is satisfied, adding what is eligible keeps it so.
InOrder(done) ==
  \A c, d \in Ids :
    RequiredGroup(c) /\ RequiredGroup(d) /\ Precedes(d, c) /\ GroupSatisfied(c, done) => GroupSatisfied(d, done)

\* The groups ahead of an eligible required criterion are satisfied.
LEMMA EligibleComeInOrder ==
  ASSUME NEW done, done \subseteq Ids, InOrder(done), NEW c, c \in computeEligibleCriteriaIds(done),
         NEW d, d \in Ids, RequiredGroup(c), RequiredGroup(d), Precedes(d, c)
  PROVE  GroupSatisfied(d, done)
<1>1. c \in Ids
  BY DEF computeEligibleCriteriaIds
<1>2. CASE GroupSatisfied(c, done)
  BY <1>1, <1>2 DEF InOrder
<1>3. CASE ~GroupSatisfied(c, done)
  <2>1. c \in getMissingRequiredCriteriaIds(done)
    BY <1>1, <1>3 DEF getMissingRequiredCriteriaIds
  <2>2. d \notin getMissingRequiredCriteriaIds(done)
    BY <2>1 DEF computeEligibleCriteriaIds
  <2> QED
    BY <2>2 DEF getMissingRequiredCriteriaIds
<1> QED
  BY <1>2, <1>3

\* Adding eligible criteria keeps the order.
LEMMA OrderIsKept ==
  ASSUME NEW done, done \subseteq Ids, InOrder(done), NEW found, found \subseteq computeEligibleCriteriaIds(done)
  PROVE  InOrder(done \cup found)
<1> SUFFICES ASSUME NEW c \in Ids, NEW d \in Ids, RequiredGroup(c), RequiredGroup(d), Precedes(d, c),
                    GroupSatisfied(c, done \cup found)
             PROVE  GroupSatisfied(d, done \cup found)
  BY DEF InOrder
<1>1. CASE GroupSatisfied(c, done)
  BY <1>1 DEF InOrder, GroupSatisfied
<1>2. CASE ~GroupSatisfied(c, done)
  <2>1. PICK e \in Group(c) : e \in found
    BY <1>2 DEF GroupSatisfied
  <2>2. e \in Ids /\ Group(e) = Group(c)
    BY <2>1, GroupsAgree
  <2>3. RequiredGroup(e) /\ Precedes(d, e)
    BY <2>2 DEF RequiredGroup, Precedes
  <2>4. GroupSatisfied(d, done)
    BY <2>1, <2>3, EligibleComeInOrder
  <2> QED
    BY <2>4 DEF GroupSatisfied
<1> QED
  BY <1>1, <1>2

-----------------------------------------------------------------------------
(* The inductive invariant.                                                *)

Now == [generation |-> generation, step |-> step]
Found == IF stage = "evaluating" THEN call.found ELSE {}

\* A context credits a click of the step, or the one just before the in-document surface was entered.
Creditable(context, at) ==
  context.click.verified =>
    \/ context.via \in {"opened", "adopted"} /\ context.click.step = at
    \/ context.via = "in_document" /\ context.click.step = context.since - 1

\* A step observed inside a panel acts inside it; a popup that is active afterwards was opened by its click.
Located ==
  act.inside =>
    /\ stage \in {"observed", "deciding"} \/ (stage = "evaluating" /\ call.phase = "pre_action") =>
         Active(surfaces).kind = "in_document"
    /\ stage = "acted" /\ Active(surfaces).kind = "adopted" => Active(surfaces).click.step = step

Credited ==
  /\ act.opened => lastClick.step = step
  /\ stage = "evaluating" => Creditable(call.context, step)
  /\ CreditFollowsAVerifiedClick

\* Verdicts carry the marker of the question they answered, and a question is asked within one step.
Fresh ==
  /\ call # None => stage = "evaluating"
  /\ stage = "evaluating" => call.relied \subseteq {Now}
  /\ query # None =>
       /\ stage = "evaluating" /\ call.todo # {}
       /\ query = [question |-> query.question, attempt |-> query.attempt]
       /\ query.question.marker = Now
  /\ \A q \in DOMAIN cache : cache[q].asked = q.marker

\* An evaluation finds only what it had to judge, each once; the evidence is of what is satisfied or found.
EvidenceOf(records, done) ==
  /\ {records[i].criterion : i \in DOMAIN records} = done
  /\ Len(records) = Cardinality(done)
Matched ==
  /\ stage # "ended" => EvidenceOf(evidence, satisfied \cup Found)
  /\ stage = "evaluating" =>
       /\ call.todo \subseteq ToJudge(satisfied) /\ call.found \subseteq ToJudge(satisfied)
       /\ call.todo \cap call.found = {}

MilestoneInv ==
  MilestonesTyped /\ Located /\ Credited /\ Fresh /\ Matched /\ InOrder(satisfied) /\ NothingSentAfterCorrection

-----------------------------------------------------------------------------
(* Judging one criterion.                                                  *)

\* A record that is made is of its criterion, source and step.
LEMMA RecordsAreTyped ==
  ASSUME MilestonesTyped, stage = "evaluating", NEW c, c \in Ids,
         NEW source, source \in {"page", "panel_causal", "verifier"}
  PROVE  /\ Record(c, source) \in RecordType /\ Record(c, source).criterion = c
         /\ Record(c, source).source = source /\ Record(c, source).step = step
         /\ source = "panel_causal" => /\ Record(c, source).via = call.context.via
                                       /\ Record(c, source).click = call.context.click
                                       /\ Record(c, source).since = call.context.since
<1> DEFINE context == IF source = "panel_causal" THEN call.context ELSE NoContext
           no == FALSE
<1>1. NoClick = [step |-> 0, verified |-> no] /\ no \in BOOLEAN
  BY DEF NoClick
<1> HIDE DEF no
<1>2. NoClick \in ClickType
  BY <1>1 DEF ClickType
<1>3. call.context \in ContextType /\ call.phase \in {"pre_action", "post_action"} /\ step \in Nat
  BY DEF MilestonesTyped, CallType
<1>4. context \in ContextType
  <2>1. NoContext = [via |-> None, panel |-> None, click |-> NoClick, since |-> 0]
    BY DEF NoContext
  <2>2. NoContext \in ContextType
    BY <1>2, <2>1 DEF ContextType, Vias, Panels
  <2> QED
    BY <1>3, <2>2
<1>5. Record(c, source) = [criterion |-> c, step |-> step, phase |-> call.phase, source |-> source,
                           via |-> context.via, click |-> context.click, since |-> context.since]
  BY DEF Record
<1>6. source = "panel_causal" => context = call.context
  OBVIOUS
<1>7. context.via \in Vias /\ context.click \in ClickType /\ context.since \in Nat
  BY <1>4 DEF ContextType
<1> HIDE DEF context
<1> QED
  BY <1>3, <1>5, <1>6, <1>7 DEF RecordType

\* Adding a criterion with its record keeps the evidence complete.
LEMMA EvidenceGrows ==
  ASSUME NEW records, records \in Seq(RecordType), NEW done, done \subseteq Ids, EvidenceOf(records, done),
         NEW r, r \in RecordType, r.criterion \notin done
  PROVE  EvidenceOf(Append(records, r), done \cup {r.criterion})
<1> DEFINE more == Append(records, r)
           n == Len(records)
<1>1. /\ n \in Nat /\ DOMAIN records = 1..n /\ DOMAIN more = 1..n + 1 /\ Len(more) = n + 1
      /\ \A i \in 1..n : more[i] = records[i]
      /\ more[n + 1] = r
  OBVIOUS
<1> HIDE DEF more, n
<1>2. {more[i].criterion : i \in 1..n + 1} = {records[i].criterion : i \in 1..n} \cup {r.criterion}
  <2>1. \A i \in 1..n + 1 : i \in 1..n \/ i = n + 1
    BY <1>1
  <2>2. \A i \in 1..n : i \in 1..n + 1
    BY <1>1
  <2>3. n + 1 \in 1..n + 1
    BY <1>1
  <2> QED
    BY <1>1, <2>1, <2>2, <2>3
<1>3. IsFiniteSet(done)
  <2>1. Len(Criteria) \in Int /\ 1 \in Int /\ Ids = 1..Len(Criteria)
    BY MilestoneAssumption
  <2>2. IsFiniteSet(1..Len(Criteria))
    BY <2>1, FS_Interval
  <2> QED
    BY <2>1, <2>2, FS_Subset
<1>4. Cardinality(done \cup {r.criterion}) = Cardinality(done) + 1
  BY <1>3, FS_AddElement
<1> QED
  BY <1>1, <1>2, <1>4 DEF EvidenceOf, more, n

\* What an evaluation does leaves everything but the call, the evidence, the cache and the query alone.
evaluationFrame == <<providerVars, pageVars, surfaceVars, satisfied, step, stage, act, submission, rejected, outcome>>

\* Judging one criterion keeps the invariant.
LEMMA JudgingKeepsInv ==
  ASSUME MilestoneInv, stage = "evaluating", call.todo # {}, NEW holds, holds \in BOOLEAN,
         NEW source, source \in {"page", "panel_causal", "verifier"}, NEW relied, relied \subseteq {Now},
         holds /\ source = "panel_causal" => call.context.click.verified,
         IF holds THEN Satisfies(source, relied) ELSE Dismisses(relied),
         UNCHANGED evaluationFrame,
         query' = None, \A q \in DOMAIN cache' : cache'[q].asked = q.marker
  PROVE  MilestoneInv'
<1> USE DEF MilestoneInv
<1> DEFINE c == Judged
           t == call.todo \ {c}
           f == IF holds THEN call.found \cup {c} ELSE call.found
           r == call.relied \cup relied
           record == Record(c, source)
<1>1. call \in CallType /\ call.todo \subseteq Ids /\ call.found \subseteq Ids /\ satisfied \subseteq Ids
  BY DEF MilestonesTyped, CallType
<1>2. c \in call.todo /\ c \in Ids
  BY <1>1, FirstJudged DEF Judged
<1>3. Now \in MarkerType /\ relied \subseteq MarkerType /\ call.relied \subseteq {Now}
  BY DEF MilestonesTyped, Now, MarkerType, Fresh
<1>4. call' = [call EXCEPT !.todo = t, !.found = f, !.relied = r]
  <2>1. CASE holds
    BY <2>1 DEF Satisfies
  <2>2. CASE ~holds
    <3>1. call' = [call EXCEPT !.todo = t, !.relied = r] /\ f = call.found
      BY <2>2 DEF Dismisses
    <3> HIDE DEF t, r, f
    <3> QED
      BY <1>1, <3>1 DEF CallType
  <2> QED
    BY <2>1, <2>2
<1>5. t \subseteq Ids /\ f \subseteq Ids /\ r \subseteq MarkerType /\ r \subseteq {Now}
  BY <1>1, <1>2, <1>3 DEF CallType
<1> HIDE DEF c
<1>6. /\ call' \in CallType /\ call'.todo = t /\ call'.found = f /\ call'.relied = r /\ call'.context = call.context
      /\ call'.phase = call.phase
  <2> HIDE DEF t, f, r
  <2> QED
    BY <1>1, <1>4, <1>5 DEF CallType
<1>7. /\ record \in RecordType /\ record.criterion = c /\ record.source = source /\ record.step = step
      /\ source = "panel_causal" =>
           record.via = call.context.via /\ record.click = call.context.click /\ record.since = call.context.since
  BY <1>2, RecordsAreTyped
<1> HIDE DEF record
<1>8. evidence' = IF holds THEN Append(evidence, record) ELSE evidence
  BY DEF Satisfies, Dismisses, record, c
<1>9. evidence \in Seq(RecordType)
  BY DEF MilestonesTyped
<1>10. MilestonesTyped'
  <2>1. evidence' \in Seq(RecordType)
    BY <1>7, <1>8, <1>9
  <2>2. stage' = stage /\ satisfied' = satisfied
    BY DEF evaluationFrame
  <2> QED
    BY <1>6, <2>1, <2>2 DEF MilestonesTyped, evaluationFrame, providerVars, pageVars, surfaceVars, Asked, Answered
<1>11. Credited'
  <2>1. Creditable(call.context, step)
    BY DEF Credited
  <2>2. CASE ~holds
    BY <1>6, <1>8, <2>1, <2>2 DEF Credited, CreditFollowsAVerifiedClick, Creditable, evaluationFrame, surfaceVars
  <2>3. CASE holds
    <3>1. /\ DOMAIN evidence' = 1..Len(evidence) + 1 /\ DOMAIN evidence = 1..Len(evidence) /\ Len(evidence) \in Nat
          /\ \A i \in 1..Len(evidence) : evidence'[i] = evidence[i]
          /\ evidence'[Len(evidence) + 1] = record
      BY <1>7, <1>8, <1>9, <2>3
    <3>2. record.source = "panel_causal" =>
            /\ record.click.verified
            /\ \/ record.via \in {"opened", "adopted"} /\ record.click.step = record.step
               \/ record.via = "in_document" /\ record.click.step = record.since - 1
      BY <1>7, <2>1, <2>3 DEF Creditable
    <3>3. CreditFollowsAVerifiedClick'
      BY <3>1, <3>2 DEF Credited, CreditFollowsAVerifiedClick
    <3> QED
      BY <1>6, <2>1, <3>3 DEF Credited, Creditable, evaluationFrame, surfaceVars
  <2> QED
    BY <2>2, <2>3
<1>12. Fresh'
  BY <1>5, <1>6 DEF Fresh, Now, evaluationFrame, surfaceVars
<1>13. Matched'
  <2>1. /\ call.todo \subseteq ToJudge(satisfied) /\ call.found \subseteq ToJudge(satisfied)
        /\ call.todo \cap call.found = {} /\ EvidenceOf(evidence, satisfied \cup call.found)
    BY DEF Matched, Found
  <2>2. t \cap f = {} /\ t \subseteq ToJudge(satisfied) /\ f \subseteq ToJudge(satisfied)
    BY <1>2, <2>1
  <2>3. EvidenceOf(evidence', satisfied \cup f)
    <3>1. CASE ~holds
      BY <1>8, <2>1, <3>1
    <3>2. CASE holds
      <4>1. c \notin satisfied \cup call.found
        BY <1>2, <2>1 DEF ToJudge
      <4>2. EvidenceOf(Append(evidence, record), (satisfied \cup call.found) \cup {record.criterion})
        BY <1>1, <1>7, <1>9, <2>1, <4>1, EvidenceGrows
      <4>3. (satisfied \cup call.found) \cup {record.criterion} = satisfied \cup f
        BY <1>7, <3>2
      <4> QED
        BY <1>8, <3>2, <4>2, <4>3
    <3> QED
      BY <3>1, <3>2
  <2>4. UNCHANGED <<stage, satisfied>>
    BY DEF evaluationFrame
  <2>5. Found' = f /\ ToJudge(satisfied)' = ToJudge(satisfied)
    BY <1>6, <2>4 DEF Found, ToJudge, computeEligibleCriteriaIds, getMissingRequiredCriteriaIds, GroupSatisfied
  <2> HIDE DEF t, f
  <2> QED
    BY <1>6, <2>2, <2>3, <2>4, <2>5 DEF Matched
<1>14. InOrder(satisfied)' /\ NothingSentAfterCorrection'
  BY DEF evaluationFrame, providerVars, InOrder, NothingSentAfterCorrection, Asked, GroupSatisfied
<1>15. Located'
  BY <1>6 DEF Located, evaluationFrame, surfaceVars
<1> QED
  BY <1>10, <1>11, <1>12, <1>13, <1>14, <1>15

-----------------------------------------------------------------------------
(* The steps of an evaluation.                                             *)

\* The criterion is settled by the page, by the panel, or by a verdict of this very step.
LEMMA SettlingKeepsInv ==
  ASSUME MilestoneInv, JudgesItself \/ RecallsVerdict \/ VerifierConcludes
  PROVE  MilestoneInv'
<1> USE DEF MilestoneInv
<1>1. CASE JudgesItself
  <2> DEFINE holds == Observed(Judged) \/ PanelCausal(Judged)
             source == IF Observed(Judged) THEN "page" ELSE "panel_causal"
  <2>0. PanelCausal(Judged) => call.context.click.verified
    BY DEF PanelCausal
  <2>1. /\ stage = "evaluating" /\ query = None /\ call.todo # {}
        /\ Judges(holds, source, {}) /\ UNCHANGED verifierVars
    BY <1>1 DEF JudgesItself, Judging
  <2>2. holds \in BOOLEAN /\ source \in {"page", "panel_causal", "verifier"}
        /\ (holds /\ source = "panel_causal" => call.context.click.verified)
    BY <2>0
  <2> HIDE DEF holds, source
  <2>3. /\ IF holds THEN Satisfies(source, {}) ELSE Dismisses({})
        /\ UNCHANGED evaluationFrame
    BY <2>1 DEF Judges, evaluationFrame
  <2>4. query' = None /\ \A q \in DOMAIN cache' : cache'[q].asked = q.marker
    BY <2>1 DEF verifierVars, Fresh
  <2> QED
    BY <2>1, <2>2, <2>3, <2>4, JudgingKeepsInv
<1>2. CASE RecallsVerdict
  <2> DEFINE asking == Asking
             holds == Verdict(asking).satisfied
             relied == {Verdict(asking).asked}
  <2>1. /\ stage = "evaluating" /\ query = None /\ call.todo # {} /\ Known(asking)
        /\ Judges(holds, "verifier", relied) /\ UNCHANGED verifierVars
    BY <1>2 DEF RecallsVerdict, Judging
  <2>2. asking.marker = Now
    BY DEF Asking, Question, Now
  <2> HIDE DEF asking
  <2>3. relied \subseteq {Now}
    BY <2>1, <2>2 DEF Known, Verdict, buildCacheKey, Fresh
  <2>4. query' = None /\ \A q \in DOMAIN cache' : cache'[q].asked = q.marker
    BY <2>1 DEF verifierVars, Fresh
  <2> HIDE DEF holds, relied
  <2>5. /\ IF holds THEN Satisfies("verifier", relied) ELSE Dismisses(relied)
        /\ UNCHANGED evaluationFrame
    BY <2>1 DEF Judges, evaluationFrame
  <2> DEFINE found == holds = TRUE
  <2>6. IF found THEN Satisfies("verifier", relied) ELSE Dismisses(relied)
    BY <2>5
  <2> HIDE DEF found
  <2> QED
    BY <2>1, <2>3, <2>4, <2>5, <2>6, JudgingKeepsInv
<1>3. CASE VerifierConcludes
  <2>1. PICK holds \in BOOLEAN : Concludes(holds) /\ Judges(holds, "verifier", {query.question.marker})
    BY <1>3, Zenon DEF VerifierConcludes
  <2>2. query # None /\ Keeps(holds)
    BY <2>1 DEF Concludes
  <2>3. stage = "evaluating" /\ call.todo # {} /\ query.question.marker = Now
    BY <2>2 DEF Fresh
  <2>4. query' = None /\ \A q \in DOMAIN cache' : cache'[q].asked = q.marker
    <3> DEFINE question == query.question
               verdict == [satisfied |-> holds, asked |-> question.marker]
    <3>1. query' = None /\ cache' = [q \in DOMAIN cache \cup {question} |-> IF q = question THEN verdict ELSE cache[q]]
      BY <2>2 DEF Keeps, buildCacheKey
    <3>2. verdict.asked = question.marker
      OBVIOUS
    <3> HIDE DEF verdict, question
    <3> QED
      BY <3>1, <3>2 DEF Fresh
  <2>5. /\ IF holds THEN Satisfies("verifier", {Now}) ELSE Dismisses({Now})
        /\ UNCHANGED evaluationFrame
    BY <2>1, <2>3 DEF Judges, evaluationFrame
  <2> QED
    BY <2>1, <2>3, <2>4, <2>5, JudgingKeepsInv
<1> QED
  BY <1>1, <1>2, <1>3

\* A question is put, and put again when no verdict comes.
LEMMA AskingKeepsInv ==
  ASSUME MilestoneInv, AsksVerifier \/ AsksAgain
  PROVE  MilestoneInv'
<1> USE DEF MilestoneInv
<1> DEFINE next == query.attempt + 1
           asking == Asking
<1>0. asking.marker = Now
  BY DEF Asking, Question, Now
<1> HIDE DEF asking
<1>1. /\ \/ /\ stage = "evaluating" /\ call.todo # {}
            /\ query' = [question |-> asking, attempt |-> 0]
         \/ query # None /\ query' = [query EXCEPT !.attempt = next]
      /\ UNCHANGED <<providerVars, pageVars, surfaceVars, milestoneVars, runVars, cache>>
  BY DEF AsksVerifier, AsksAgain, verify, Retries, Judging, asking
<1>2. Fresh'
  <2> HIDE DEF next
  <2>1. CASE stage = "evaluating" /\ call.todo # {} /\ query' = [question |-> asking, attempt |-> 0]
    BY <1>0, <1>1, <2>1 DEF Fresh, Now, surfaceVars, runVars
  <2>2. CASE query # None /\ query' = [query EXCEPT !.attempt = next]
    <3>1. /\ stage = "evaluating" /\ call.todo # {} /\ query.question.marker = Now
          /\ query = [question |-> query.question, attempt |-> query.attempt]
      BY <2>2 DEF Fresh
    <3>2. query' = [question |-> query.question, attempt |-> next]
      BY <2>2, <3>1
    <3>3. query'.question = query.question /\ query'.attempt = next
      BY <3>2
    <3> QED
      BY <1>1, <3>1, <3>2, <3>3 DEF Fresh, Now, surfaceVars, runVars
  <2> QED
    BY <1>1, <2>1, <2>2
<1> QED
  BY <1>1, <1>2 DEF MilestonesTyped, Located, Credited, Matched, CreditFollowsAVerifiedClick, InOrder, NothingSentAfterCorrection,
     providerVars, pageVars, surfaceVars, milestoneVars, runVars, Asked, Answered, Found, GroupSatisfied, ToJudge,
     computeEligibleCriteriaIds, getMissingRequiredCriteriaIds

\* What is to be judged are criteria.
LEMMA JudgedAreCriteria == \A done : ToJudge(done) \subseteq Ids
  BY DEF ToJudge, computeEligibleCriteriaIds

\* The context of a panel may credit the click it names, if it credits one.
LEMMA ContextsAreTyped ==
  ASSUME MilestonesTyped, Located, Credited, stage \in {"observed", "acted"}
  PROVE  buildPanelMatchContext \in ContextType /\ Creditable(buildPanelMatchContext, step)
<1> DEFINE no == FALSE
           surface == Active(surfaces)
<1>1. NoClick = [step |-> 0, verified |-> no] /\ no \in BOOLEAN /\ ~no
  BY DEF NoClick
<1> HIDE DEF no
<1>2. NoClick \in ClickType /\ ~NoClick.verified
  BY <1>1 DEF ClickType
<1>3. page.panel \in Panels /\ None \in Panels
  BY DEF MilestonesTyped, Panels, Blank
<1>4. surface \in SurfaceType /\ SurfaceSound(surface)
  BY ActiveSurface DEF MilestonesTyped
<1>5. surface.click \in ClickType /\ surface.since \in Nat /\ surface.kind \in {"main", "in_document", "adopted"}
  BY <1>4 DEF SurfaceType
<1>6. CASE act.opened
  <2>1. buildPanelMatchContext = [via |-> "opened", panel |-> page.panel, click |-> lastClick, since |-> step]
    BY <1>6 DEF buildPanelMatchContext, gatherPanelEvidence
  <2>2. lastClick \in ClickType /\ step \in Nat /\ lastClick.step = step
    BY <1>6 DEF MilestonesTyped, Credited
  <2> QED
    BY <1>3, <2>1, <2>2 DEF ContextType, Creditable, Vias
<1>7. CASE ~act.opened /\ act.inside
  <2>1. buildPanelMatchContext =
          [via |-> surface.kind, panel |-> page.panel, click |-> surface.click, since |-> surface.since]
    BY <1>7 DEF buildPanelMatchContext, gatherPanelEvidence
  <2>2. /\ surface.kind = "main" => ~surface.click.verified
        /\ surface.kind = "adopted" => surface.click.step = step
        /\ surface.kind = "in_document" /\ surface.click.verified => surface.click.step = surface.since - 1
    BY <1>4, <1>7 DEF SurfaceSound, Justified, Located
  <2> HIDE DEF surface
  <2> QED
    BY <1>3, <1>5, <2>1, <2>2 DEF ContextType, Creditable, Vias
<1>8. CASE ~act.opened /\ ~act.inside
  <2>1. buildPanelMatchContext = [via |-> None, panel |-> None, click |-> NoClick, since |-> 0]
    BY <1>8 DEF buildPanelMatchContext, NoContext
  <2> QED
    BY <1>2, <1>3, <2>1 DEF ContextType, Creditable, Vias
<1> QED
  BY <1>6, <1>7, <1>8

\* A call of the evaluation begins, or the page is gone under it.
LEMMA EvaluationKeepsInv ==
  ASSUME MilestoneInv, EvaluatesBefore \/ EvaluatesAfter \/ EvaluationThrows
  PROVE  MilestoneInv'
<1> USE DEF MilestoneInv
<1>1. CASE EvaluatesBefore \/ EvaluatesAfter
  <2>1. PICK phase \in {"pre_action", "post_action"} :
          call' = Call(phase, 1, buildPanelMatchContext, satisfied)
    BY <1>1 DEF EvaluatesBefore, EvaluatesAfter, Evaluates
  <2>2. /\ stage \in {"observed", "acted"} /\ stage' = "evaluating"
        /\ UNCHANGED <<providerVars, verifierVars, pageVars, surfaceVars, milestoneVars, step, act, submission,
                       rejected, outcome>>
    BY <1>1 DEF EvaluatesBefore, EvaluatesAfter, Evaluates
  <2>3. /\ call' \in CallType /\ call'.todo = ToJudge(satisfied) /\ call'.found = {} /\ call'.relied = {}
        /\ Creditable(call'.context, step)
    <3> DEFINE context == buildPanelMatchContext
    <3>1. context \in ContextType /\ Creditable(context, step)
      BY <2>2, ContextsAreTyped
    <3> HIDE DEF context
    <3>2. 1 \in Nat
      OBVIOUS
    <3>3. /\ Call(phase, 1, context, satisfied) \in CallType
          /\ Call(phase, 1, context, satisfied).todo = ToJudge(satisfied)
          /\ Call(phase, 1, context, satisfied).found = {} /\ Call(phase, 1, context, satisfied).relied = {}
          /\ Call(phase, 1, context, satisfied).context = context
      <4>1. ToJudge(satisfied) \subseteq Ids /\ {} \subseteq Ids /\ {} \subseteq MarkerType
        BY JudgedAreCriteria
      <4> QED
        BY <3>1, <3>2, <4>1 DEF Call, CallType
    <3>4. call' = Call(phase, 1, context, satisfied)
      BY <2>1 DEF context
    <3> QED
      BY <3>1, <3>3, <3>4
  <2>4. query = None
    BY <2>2 DEF Fresh
  <2>5. MilestonesTyped'
    BY <2>2, <2>3 DEF MilestonesTyped, Stages, providerVars, pageVars, surfaceVars, milestoneVars, Asked, Answered
  <2>6. Credited'
    BY <2>2, <2>3 DEF Credited, CreditFollowsAVerifiedClick, Creditable, surfaceVars, milestoneVars
  <2>9. Located'
    <3>1. CASE EvaluatesBefore
      <4>1. stage = "observed"
        BY <3>1 DEF EvaluatesBefore
      <4> QED
        BY <2>2, <4>1 DEF Located, surfaceVars
    <3>2. CASE EvaluatesAfter
      <4>1. call' = Call("post_action", 1, buildPanelMatchContext, satisfied)
        BY <3>2 DEF EvaluatesAfter, Evaluates
      <4>2. call'.phase = "post_action"
        BY <4>1 DEF Call
      <4> QED
        BY <2>2, <4>2 DEF Located
    <3> QED
      BY <1>1, <3>1, <3>2
  <2>7. Fresh'
    BY <2>2, <2>3, <2>4 DEF Fresh, verifierVars
  <2>8. Matched'
    <3>1. UNCHANGED <<satisfied, evidence>> /\ Found' = {} /\ Found = {}
      BY <2>2, <2>3 DEF Found, milestoneVars
    <3>2. ToJudge(satisfied)' = ToJudge(satisfied)
      BY <3>1 DEF ToJudge, computeEligibleCriteriaIds, getMissingRequiredCriteriaIds, GroupSatisfied
    <3> QED
      BY <2>2, <2>3, <3>1, <3>2 DEF Matched
  <2> QED
    BY <2>2, <2>5, <2>6, <2>7, <2>8, <2>9
       DEF InOrder, GroupSatisfied, milestoneVars, NothingSentAfterCorrection, Asked, providerVars
<1>2. CASE EvaluationThrows
  <2>1. /\ query = None /\ stage' = "ended" /\ call' = None
        /\ UNCHANGED <<providerVars, verifierVars, pageVars, surfaceVars, milestoneVars, step, act, submission, rejected>>
    BY <1>2 DEF EvaluationThrows, Judging
  <2>2. MilestonesTyped'
    BY <2>1 DEF MilestonesTyped, Stages, providerVars, pageVars, surfaceVars, milestoneVars, Asked, Answered
  <2>3. Credited'
    BY <2>1 DEF Credited, CreditFollowsAVerifiedClick, surfaceVars, milestoneVars
  <2>4. Fresh' /\ Matched' /\ Located'
    BY <2>1 DEF Fresh, Matched, Located, verifierVars
  <2> QED
    BY <2>1, <2>2, <2>3, <2>4
       DEF InOrder, GroupSatisfied, milestoneVars, NothingSentAfterCorrection, Asked, providerVars
<1> QED
  BY <1>1, <1>2

\* What a call found is added at once: the milestones, their evidence and their order agree again.
LEMMA CommitMatches ==
  ASSUME MilestoneInv, CallEnds, Commits
  PROVE  /\ satisfied' \subseteq Ids /\ evidence' = evidence /\ InOrder(satisfied')
         /\ EvidenceOf(evidence', satisfied') /\ query = None
<1>1. /\ stage = "evaluating" /\ query = None /\ satisfied' = satisfied \cup call.found /\ evidence' = evidence
  BY DEF CallEnds, Commits
<1>2. /\ satisfied \subseteq Ids /\ call.found \subseteq Ids
  BY <1>1 DEF MilestoneInv, MilestonesTyped, CallType
<1>3. call.found \subseteq computeEligibleCriteriaIds(satisfied)
  BY <1>1 DEF MilestoneInv, Matched, ToJudge
<1>4. InOrder(satisfied \cup call.found)
  BY <1>2, <1>3, OrderIsKept DEF MilestoneInv
<1>5. EvidenceOf(evidence, satisfied \cup call.found)
  BY <1>1 DEF MilestoneInv, Matched, Found
<1> QED
  BY <1>1, <1>2, <1>4, <1>5

\* The end of the evaluation before the decision.
LEMMA EndBeforeKeepsInv ==
  ASSUME MilestoneInv, EndsBefore
  PROVE  MilestoneInv'
<1> USE DEF MilestoneInv
<1>1. /\ CallEnds /\ Commits
      /\ \/ surfaces' = Marked(surfaces, "checked") \/ surfaces' = surfaces
      /\ \/ stage' = "ended" /\ UNCHANGED providerVars
         \/ stage' = "deciding" /\ decide(act.controls)
      /\ call' = None /\ call.phase = "pre_action" /\ stage = "evaluating"
      /\ UNCHANGED <<verifierVars, pageVars, generation, lastClick, lastChange, pending, suppress, step, act, submission, rejected>>
  BY DEF EndsBefore, CallEnds
<1>2. SurfacesSound(surfaces') /\ Active(surfaces').kind = Active(surfaces).kind
  BY <1>1, MarkedSurfaces DEF MilestonesTyped
<1>3. /\ satisfied' \subseteq Ids /\ evidence' = evidence /\ InOrder(satisfied')
      /\ EvidenceOf(evidence', satisfied') /\ query = None
  BY <1>1, CommitMatches
<1>4. /\ Asked' => request' \in RequestType /\ request'.sent # << >>
      /\ Answered' => decision' \in DecisionType
      /\ NothingSentAfterCorrection'
  <2>1. CASE UNCHANGED providerVars
    BY <2>1 DEF MilestonesTyped, providerVars, Asked, Answered, NothingSentAfterCorrection
  <2>2. CASE decide(act.controls)
    <3> DEFINE sent == <<"plain">>
    <3>1. /\ request' = [attempt |-> 0, sent |-> sent, observed |-> act.controls] /\ decision' = None
          /\ act.controls \subseteq Controls
      BY <2>2 DEF decide, MilestonesTyped, ActType
    <3>2. sent \in Seq({"plain", "corrective"}) /\ sent # << >> /\ \A i \in DOMAIN sent : sent[i] # "corrective"
      OBVIOUS
    <3> HIDE DEF sent
    <3>3. request' \in RequestType /\ request'.sent = sent
      BY <3>1, <3>2 DEF RequestType
    <3> QED
      BY <3>1, <3>2, <3>3 DEF Answered, NothingSentAfterCorrection
  <2> QED
    BY <1>1, <2>1, <2>2
<1>5. MilestonesTyped'
  BY <1>1, <1>2, <1>3, <1>4 DEF MilestonesTyped, Stages, pageVars
<1>6. Credited'
  BY <1>1, <1>3 DEF Credited, CreditFollowsAVerifiedClick
<1>7. Fresh'
  BY <1>1, <1>3 DEF Fresh, verifierVars
<1>8. Matched'
  BY <1>1, <1>3 DEF Matched, Found
<1>9. Located'
  BY <1>1, <1>2 DEF Located
<1> QED
  BY <1>3, <1>4, <1>5, <1>6, <1>7, <1>8, <1>9

\* The end of a round after an action, which another round may follow.
LEMMA EndAfterKeepsInv ==
  ASSUME MilestoneInv, EndsAfter
  PROVE  MilestoneInv'
<1> USE DEF MilestoneInv
<1> DEFINE credited == call.found # {} /\ call.context # NoContext
           owed == pending \/ (credited /\ ~act.inside /\ act.opened)
           next == call.round + 1
<1>1. /\ CallEnds /\ Commits /\ stage = "evaluating" /\ call.phase = "post_action"
      /\ \/ surfaces' = Marked(surfaces, "checked") \/ surfaces' = surfaces
      /\ pending' = owed
      /\ \/ call' = Call(call.phase, next, call.context, satisfied') /\ UNCHANGED stage
         \/ call' = None /\ stage' \in {"concluding", "ended"}
      /\ UNCHANGED <<providerVars, verifierVars, pageVars, generation, lastClick, lastChange, suppress, step, act, submission,
                     rejected>>
  BY DEF EndsAfter, CallEnds, AfterAction
<1>2. owed \in BOOLEAN /\ SurfacesSound(surfaces')
  BY <1>1, MarkedSurfaces DEF MilestonesTyped
<1> HIDE DEF credited, owed
<1>3. /\ satisfied' \subseteq Ids /\ evidence' = evidence /\ InOrder(satisfied')
      /\ EvidenceOf(evidence', satisfied') /\ query = None
  BY <1>1, CommitMatches
<1>4. \/ /\ stage' = "evaluating" /\ call' \in CallType /\ call'.todo = ToJudge(satisfied') /\ call'.found = {}
         /\ call'.relied = {} /\ call'.context = call.context /\ call'.phase = call.phase
      \/ stage' \in {"concluding", "ended"} /\ call' = None
  <2>1. call \in CallType
    BY <1>1 DEF MilestonesTyped
  <2>2. call.phase \in {"pre_action", "post_action"} /\ next \in Nat /\ call.context \in ContextType
    BY <2>1 DEF CallType
  <2> HIDE DEF next
  <2>3. /\ Call(call.phase, next, call.context, satisfied') \in CallType
        /\ Call(call.phase, next, call.context, satisfied').todo = ToJudge(satisfied')
        /\ Call(call.phase, next, call.context, satisfied').found = {}
        /\ Call(call.phase, next, call.context, satisfied').relied = {}
        /\ Call(call.phase, next, call.context, satisfied').context = call.context
        /\ Call(call.phase, next, call.context, satisfied').phase = call.phase
    <3>1. ToJudge(satisfied') \subseteq Ids /\ {} \subseteq Ids /\ {} \subseteq MarkerType
      BY JudgedAreCriteria
    <3> QED
      BY <2>2, <3>1 DEF Call, CallType
  <2> QED
    BY <1>1, <2>3
<1>5. MilestonesTyped'
  BY <1>1, <1>2, <1>3, <1>4 DEF MilestonesTyped, Stages, pageVars, providerVars, Asked, Answered
<1>6. Credited'
  BY <1>1, <1>3, <1>4 DEF Credited, CreditFollowsAVerifiedClick
<1>7. Fresh'
  BY <1>1, <1>3, <1>4 DEF Fresh, verifierVars
<1>8. Matched'
  <2>1. ToJudge(satisfied)' = ToJudge(satisfied')
    BY DEF ToJudge, computeEligibleCriteriaIds, getMissingRequiredCriteriaIds, GroupSatisfied
  <2>2. Found' = {}
    BY <1>4 DEF Found
  <2> QED
    BY <1>3, <1>4, <2>1, <2>2 DEF Matched
<1>9. Located'
  BY <1>1, <1>4 DEF Located
<1> QED
  BY <1>1, <1>3, <1>5, <1>6, <1>7, <1>8, <1>9 DEF NothingSentAfterCorrection, Asked, providerVars

-----------------------------------------------------------------------------
(* The steps of the run outside an evaluation.                             *)

\* They leave the milestones, their evidence and the verifier alone.
LEMMA ElsewhereKeepsInv ==
  ASSUME MilestoneInv, stage \notin {"evaluating", "ended"}, MilestonesTyped', Located', stage' # "evaluating",
         UNCHANGED <<milestoneVars, verifierVars, call>>,
         act'.opened => lastClick'.step = step', NothingSentAfterCorrection'
  PROVE  MilestoneInv'
<1> USE DEF MilestoneInv
<1>1. UNCHANGED <<satisfied, evidence, cache, query, call>>
  BY DEF milestoneVars, verifierVars
<1>2. Credited'
  BY <1>1 DEF Credited, CreditFollowsAVerifiedClick
<1>3. Fresh'
  BY <1>1 DEF Fresh
<1>4. Matched'
  BY <1>1 DEF Matched, Found
<1>5. InOrder(satisfied)'
  BY <1>1 DEF InOrder, GroupSatisfied
<1> QED
  BY <1>2, <1>3, <1>4, <1>5

\* The step begins: surfaces the page no longer shows are left, a new one is entered.
LEMMA ObservationKeepsInv ==
  ASSUME MilestoneInv, StepBegins
  PROVE  MilestoneInv'
<1> USE DEF MilestoneInv
<1>1. PICK stack : /\ SurfacesSound(stack) /\ page' \in Looks \cup {Blank} /\ Observes(stack)
                   /\ stage = "observing"
  <2>1. PICK open \in 1..Len(surfaces) :
          /\ UNCHANGED page \/ page' \in Looks
          /\ Observes(SubSeq(surfaces, 1, open))
    BY DEF StepBegins, Shows
  <2>2. SurfacesSound(SubSeq(surfaces, 1, open))
    BY LowerSurfaces DEF MilestonesTyped
  <2> QED
    BY <2>1, <2>2 DEF StepBegins, MilestonesTyped
<1> DEFINE no == FALSE
           yes == TRUE
           inside == Active(surfaces').kind = "in_document"
<1>2. /\ (Enters(stack) /\ Active(stack).kind = "main") \/ Settles(stack)
      /\ suppress' = no /\ stage' = "observed"
      /\ act' = [NoAct EXCEPT !.controls = page'.controls, !.inside = inside]
      /\ UNCHANGED <<providerVars, verifierVars, moves, milestoneVars, step, call, submission, rejected, outcome,
                     lastClick, lastChange>>
  BY <1>1 DEF Observes, shouldEnterInDocumentSurface
<1>3. NoAct = [action |-> None, success |-> yes, opened |-> no, verified |-> no, controls |-> {}, inside |-> no]
      /\ yes \in BOOLEAN /\ no \in BOOLEAN /\ ~no
  BY DEF NoAct
<1>4. page'.controls \subseteq Controls
  <2>1. Blank.controls = {}
    BY DEF Blank
  <2>2. \A look \in Looks : look.controls \subseteq Controls
    BY MilestoneAssumption
  <2> QED
    BY <1>1, <2>1, <2>2
<1>5. act' \in ActType /\ ~act'.opened /\ act'.inside = inside
  <2>1. inside \in BOOLEAN
    OBVIOUS
  <2> HIDE DEF no, yes, inside
  <2> QED
    BY <1>2, <1>3, <1>4, <2>1 DEF ActType
<1> HIDE DEF no, yes
<1>6. SurfacesSound(surfaces') /\ generation' \in Nat /\ pending' \in BOOLEAN
  <2>1. CASE Enters(stack) /\ Active(stack).kind = "main"
    <3> DEFINE click == CausingClick
               dialog == Dialog(page')
               new == [kind |-> "in_document", dialog |-> dialog, click |-> click, since |-> step,
                       checked |-> no, held |-> no]
               s == [new EXCEPT !.checked = pending]
    <3>1. click \in ClickType /\ Justified(click, step) /\ step \in Nat /\ pending \in BOOLEAN /\ generation \in Nat
      <4>1. NoClick = [step |-> 0, verified |-> no]
        BY DEF NoClick, no
      <4>2. NoClick \in ClickType /\ ~NoClick.verified
        BY <1>3, <4>1 DEF ClickType
      <4> QED
        BY <4>2 DEF CausingClick, MilestonesTyped, Justified
    <3>2. dialog \in BOOLEAN
      BY DEF Dialog
    <3>3. surfaces' = Append(stack, s) /\ generation' = generation + 1 /\ pending' = FALSE
      BY <2>1 DEF Enters, Surface, no
    <3> HIDE DEF click, dialog
    <3>4. s \in SurfaceType /\ SurfaceSound(s)
      <4>1. new \in SurfaceType /\ new.click = click /\ new.since = step
        BY <1>3, <3>1, <3>2 DEF SurfaceType
      <4> HIDE DEF new
      <4>2. s \in SurfaceType /\ s.click = new.click /\ s.since = new.since /\ s.kind = new.kind
        BY <3>1, <4>1 DEF SurfaceType
      <4>3. new.kind = "in_document"
        BY DEF new
      <4> QED
        BY <3>1, <4>1, <4>2, <4>3 DEF SurfaceSound
    <3> HIDE DEF s
    <3> QED
      <4>1. SurfacesSound(Append(stack, s))
        BY <1>1, <2>1, <3>4, PushedSurface
      <4>2. SurfacesSound(surfaces')
        BY <3>3, <4>1, Zenon
      <4>3. generation' \in Nat
        BY <3>1, <3>3
      <4>4. pending' \in BOOLEAN
        BY <3>3
      <4> QED
        BY <4>2, <4>3, <4>4
  <2>2. CASE Settles(stack)
    <3>1. /\ surfaces' = stack \/ (surfaces' = Popped(stack) /\ Active(stack).kind # "main")
          /\ UNCHANGED <<generation, pending>>
      BY <2>2 DEF Settles, shouldLeaveInDocumentSurface
    <3> QED
      BY <1>1, <3>1, PoppedSurfaces DEF MilestonesTyped
  <2> QED
    BY <1>2, <2>1, <2>2
<1>7. MilestonesTyped'
  BY <1>1, <1>2, <1>3, <1>5, <1>6 DEF MilestonesTyped, Stages, milestoneVars, providerVars, Asked, Answered
<1>8. NothingSentAfterCorrection'
  BY <1>2 DEF providerVars, NothingSentAfterCorrection, Asked
<1>9. Located'
  BY <1>2, <1>5 DEF Located
<1> QED
  BY <1>1, <1>2, <1>5, <1>7, <1>8, <1>9, ElsewhereKeepsInv

\* What an action did is noted, and the decision is spent.
LEMMA DoneKeepsInv ==
  ASSUME MilestoneInv, stage = "deciding", Answered, NEW success, success \in BOOLEAN,
         NEW opened, opened \in BOOLEAN, NEW verified, verified \in BOOLEAN, Done(success, opened, verified),
         page' \in Looks \cup {Blank}, SurfacesSound(surfaces'), generation' \in Nat, lastClick' \in ClickType,
         pending' \in BOOLEAN, suppress' \in BOOLEAN, submission' \in BOOLEAN, opened => lastClick'.step = step,
         act.inside /\ Active(surfaces').kind = "adopted" => Active(surfaces').click.step = step
  PROVE  MilestoneInv'
<1> USE DEF MilestoneInv
<1>1. /\ act' = [act EXCEPT !.action = decision.action, !.success = success, !.opened = opened,
                            !.verified = verified, !.controls = {}]
      /\ lastChange' = opened /\ stage' = "acted" /\ request' = None /\ decision' = None
      /\ UNCHANGED <<verifierVars, moves, milestoneVars, step, call, rejected, outcome>>
  BY DEF Done, DecisionTaken
<1>2. decision.action \in ACTION_TYPES
  BY DEF MilestonesTyped, DecisionType
<1>3. act' \in ActType /\ act'.opened = opened /\ act'.inside = act.inside
  BY <1>1, <1>2 DEF MilestonesTyped, ActType
<1>4. MilestonesTyped'
  BY <1>1, <1>3 DEF MilestonesTyped, Stages, milestoneVars, Asked, Answered
<1>5. NothingSentAfterCorrection'
  BY <1>1 DEF NothingSentAfterCorrection, Asked
<1>6. Located'
  BY <1>1, <1>3 DEF Located
<1> QED
  BY <1>1, <1>3, <1>4, <1>5, <1>6, ElsewhereKeepsInv

\* The model is asked, asked again, or its answer is taken.
LEMMA ReasoningKeepsInv ==
  ASSUME MilestoneInv, Reasons
  PROVE  MilestoneInv'
<1> USE DEF MilestoneInv
<1>1. /\ stage = "deciding" /\ attemptOnce
      /\ UNCHANGED <<verifierVars, pageVars, surfaceVars, milestoneVars, runVars>>
  BY DEF Reasons
<1>2. /\ Asked /\ ~Answered /\ request \in RequestType /\ request.sent # << >>
      /\ \/ \E payload \in buildClaudeDecisionSchema : Accepts(payload)
         \/ \E reason \in Uncorrectable \cup CorrectiveRetryCategories \cup {"low_confidence"} : AfterFailure(reason)
  <2>1. Asked /\ ~Answered
    BY <1>1 DEF attemptOnce
  <2>2. CASE \E payload \in buildClaudeDecisionSchema :
               IF validateClaudeDecision(payload, request.observed) = "valid" THEN Accepts(payload)
               ELSE AfterFailure(validateClaudeDecision(payload, request.observed))
    <3>1. \A payload : validateClaudeDecision(payload, request.observed)
                         \in {"low_confidence", "consent_policy_violation", "valid"}
      BY DEF validateClaudeDecision
    <3> QED
      BY <2>1, <2>2, <3>1 DEF MilestonesTyped, CorrectiveRetryCategories
  <2>3. CASE \E reason \in Uncorrectable \cup BrokenFormat : AfterFailure(reason)
    BY <2>1, <2>3 DEF MilestonesTyped, CorrectiveRetryCategories
  <2> QED
    BY <1>1, <2>2, <2>3, Zenon DEF attemptOnce
<1>3. CASE \E payload \in buildClaudeDecisionSchema : Accepts(payload)
  <2>1. PICK payload \in buildClaudeDecisionSchema : Accepts(payload)
    BY <1>3
  <2> DEFINE target == IF payload.action = "click" THEN payload.target ELSE None
  <2>2. decision' = [action |-> payload.action, target |-> target] /\ UNCHANGED request
    BY <2>1 DEF Accepts, buildSelectedAction
  <2>3. payload.action \in ACTION_TYPES /\ target \in Controls \cup {None}
    BY <2>1, ProviderAssumption DEF buildClaudeDecisionSchema
  <2> HIDE DEF target
  <2>4. decision' \in DecisionType
    BY <2>2, <2>3 DEF DecisionType
  <2>5. MilestonesTyped'
    BY <1>1, <2>2, <2>4 DEF MilestonesTyped, pageVars, surfaceVars, milestoneVars, runVars, Asked
  <2>6. NothingSentAfterCorrection'
    BY <2>2 DEF NothingSentAfterCorrection, Asked
  <2> QED
    BY <1>1, <2>5, <2>6, ElsewhereKeepsInv DEF Located, Credited, surfaceVars, runVars
<1>4. CASE \E reason \in Uncorrectable \cup CorrectiveRetryCategories \cup {"low_confidence"} : AfterFailure(reason)
  <2>1. \/ FallsBack
        \/ ~Corrective /\ \E kind \in {"plain", "corrective"} : Sends(kind)
    BY <1>4 DEF AfterFailure
  <2>2. /\ Asked' => request' \in RequestType /\ request'.sent # << >>
        /\ Answered' => decision' \in DecisionType
        /\ NothingSentAfterCorrection'
    <3>1. CASE FallsBack
      <4>1. decision' = [action |-> "stop_blocked", target |-> None] /\ UNCHANGED request
        BY <3>1 DEF FallsBack, Fallback
      <4>2. decision' \in DecisionType
        BY <4>1 DEF DecisionType, ACTION_TYPES
      <4> QED
        BY <1>2, <4>1, <4>2 DEF NothingSentAfterCorrection, Asked
    <3>2. CASE ~Corrective /\ \E kind \in {"plain", "corrective"} : Sends(kind)
      <4>1. PICK kind \in {"plain", "corrective"} : Sends(kind)
        BY <3>2
      <4> DEFINE sent == Append(request.sent, kind)
                 next == request.attempt + 1
                 n == Len(request.sent)
      <4>2. request' = [request EXCEPT !.attempt = next, !.sent = sent] /\ UNCHANGED decision
        BY <4>1 DEF Sends
      <4>3. request.sent \in Seq({"plain", "corrective"}) /\ next \in Nat
        BY <1>2 DEF RequestType
      <4>4. /\ sent \in Seq({"plain", "corrective"}) /\ sent # << >> /\ Len(sent) = n + 1 /\ n \in Nat /\ n >= 1
            /\ DOMAIN sent = 1..n + 1 /\ \A i \in 1..n : sent[i] = request.sent[i]
        BY <1>2, <4>3
      <4>5. request.sent[n] # "corrective"
        BY <1>2, <3>2 DEF Corrective
      <4>6. \A i \in 1..n : request.sent[i] # "corrective"
        BY <1>2, <4>3, <4>4, <4>5 DEF NothingSentAfterCorrection
      <4>7. \A i \in 1..n + 1 : sent[i] = "corrective" => i = n + 1
        BY <4>4, <4>6
      <4> HIDE DEF sent, next, n
      <4>8. request' \in RequestType /\ request'.sent = sent
        BY <1>2, <4>2, <4>3, <4>4 DEF RequestType
      <4> QED
        BY <1>2, <4>2, <4>4, <4>7, <4>8 DEF NothingSentAfterCorrection, Answered
    <3> QED
      BY <2>1, <3>1, <3>2
  <2>3. MilestonesTyped'
    BY <1>1, <2>2 DEF MilestonesTyped, pageVars, surfaceVars, milestoneVars, runVars
  <2> QED
    BY <1>1, <2>2, <2>3, ElsewhereKeepsInv DEF Located, Credited, surfaceVars, runVars
<1> QED
  BY <1>2, <1>3, <1>4

\* A click: what it shows, and the surface a popup becomes.
LEMMA ClickKeepsInv ==
  ASSUME MilestoneInv, ClickMoves \/ ClickOpensPanel \/ ClickShowsNothing \/ ClickAdoptsPopup
  PROVE  MilestoneInv'
<1> USE DEF MilestoneInv
<1> DEFINE no == FALSE
           yes == TRUE
<1>1. PICK verified \in BOOLEAN, opened \in BOOLEAN, success \in BOOLEAN :
        /\ ClickDispatched(verified) /\ Done(success, opened, verified)
        /\ page' \in Looks \cup {Blank}
        /\ \/ UNCHANGED <<surfaces, generation>>
           \/ /\ surfaces' = Append(surfaces, Surface("adopted", FALSE, lastClick'))
              /\ generation' = generation + 1
  <2>0. yes \in BOOLEAN /\ no \in BOOLEAN
    OBVIOUS
  <2>1. CASE ClickMoves
    <3>1. /\ ClickDispatched(yes) /\ Done(yes, no, yes) /\ page' \in Looks /\ UNCHANGED <<surfaces, generation>>
      BY <2>1 DEF ClickMoves, Shows
    <3> QED
      BY <2>0, <3>1
  <2>2. CASE ClickOpensPanel
    <3>1. /\ ClickDispatched(yes) /\ Done(yes, yes, yes) /\ page' \in Looks /\ UNCHANGED <<surfaces, generation>>
      BY <2>2 DEF ClickOpensPanel, Shows
    <3> QED
      BY <2>0, <3>1
  <2>3. CASE ClickShowsNothing
    <3>1. PICK look \in Looks, success \in BOOLEAN :
            /\ ClickDispatched(no) /\ Shows(look) /\ Done(success, no, no)
            /\ UNCHANGED <<surfaces, generation>>
      BY <2>3, Zenon DEF ClickShowsNothing
    <3>2. page' \in Looks
      BY <3>1 DEF Shows
    <3> QED
      BY <2>0, <3>1, <3>2
  <2>4. CASE ClickAdoptsPopup
    <3>1. /\ ClickDispatched(yes) /\ Done(yes, no, yes) /\ page' = page
          /\ surfaces' = Append(surfaces, Surface("adopted", FALSE, lastClick')) /\ generation' = generation + 1
      BY <2>4 DEF ClickAdoptsPopup
    <3> QED
      BY <2>0, <3>1 DEF MilestonesTyped
  <2> QED
    BY <2>1, <2>2, <2>3, <2>4
<1>2. /\ stage = "deciding" /\ Answered /\ lastClick' = [step |-> step, verified |-> verified]
      /\ UNCHANGED <<pending, suppress, submission>>
  BY <1>1 DEF ClickDispatched, Takes
<1>3. lastClick' \in ClickType /\ lastClick'.step = step
  BY <1>2 DEF ClickType, MilestonesTyped
<1>4. /\ SurfacesSound(surfaces') /\ generation' \in Nat
      /\ act.inside /\ Active(surfaces').kind = "adopted" => Active(surfaces').click.step = step
  <2> DEFINE s == Surface("adopted", FALSE, lastClick')
  <2>1. s \in SurfaceType /\ s.kind = "adopted" /\ s.click = lastClick'
    <3>1. s = [kind |-> "adopted", dialog |-> no, click |-> lastClick', since |-> step, checked |-> no, held |-> no]
      BY DEF Surface
    <3>2. no \in BOOLEAN /\ step \in Nat
      BY DEF MilestonesTyped
    <3> HIDE DEF s, no
    <3> QED
      BY <1>3, <3>1, <3>2 DEF SurfaceType
  <2> HIDE DEF s
  <2>2. SurfacesSound(Append(surfaces, s)) /\ Active(Append(surfaces, s)) = s
    BY <2>1, PushedSurface DEF MilestonesTyped, SurfaceSound
  <2>3. CASE UNCHANGED <<surfaces, generation>>
    BY <1>2, <2>3 DEF MilestonesTyped, Located
  <2>4. CASE surfaces' = Append(surfaces, s) /\ generation' = generation + 1
    <3>1. SurfacesSound(surfaces')
      BY <2>2, <2>4, Zenon
    <3>2. generation' \in Nat
      BY <2>4 DEF MilestonesTyped
    <3>3. Active(surfaces') = s
      BY <2>2, <2>4, Zenon
    <3> QED
      BY <1>3, <2>1, <3>1, <3>2, <3>3
  <2> QED
    BY <1>1, <2>3, <2>4 DEF s
<1>5. pending' \in BOOLEAN /\ suppress' \in BOOLEAN /\ submission' \in BOOLEAN
  BY <1>2 DEF MilestonesTyped
<1> QED
  BY <1>1, <1>2, <1>3, <1>4, <1>5, DoneKeepsInv

\* The other actions, which click nothing.
LEMMA ActionKeepsInv ==
  ASSUME MilestoneInv, Navigates \/ GoesBackOnMain \/ returnToParentSurface \/ FillsForm \/ LeavesPage
  PROVE  MilestoneInv'
<1> USE DEF MilestoneInv
<1> DEFINE no == FALSE
<1>1. page \in Looks \cup {Blank} /\ SurfacesSound(surfaces) /\ generation \in Nat /\ lastClick \in ClickType
      /\ pending \in BOOLEAN /\ suppress \in BOOLEAN /\ submission \in BOOLEAN /\ no \in BOOLEAN /\ ~no
  BY DEF MilestonesTyped
<1>2. PICK success \in BOOLEAN : Done(success, no, no)
  <2>1. CASE Navigates
    <3>1. PICK ends \in Calls, look \in Looks \cup {page} : Done(executeNavigate(ends, look), no, no)
      BY <2>1 DEF Navigates
    <3>2. executeNavigate(ends, look) \in BOOLEAN
      BY DEF executeNavigate
    <3> QED
      BY <3>1, <3>2
  <2>2. CASE GoesBackOnMain
    <3>1. PICK ends \in Calls, look \in Looks \cup {Blank} : Done(executeGoBack(page, ends, look), no, no)
      BY <2>2 DEF GoesBackOnMain
    <3>2. executeGoBack(page, ends, look) \in BOOLEAN
      BY DEF executeGoBack
    <3> QED
      BY <3>1, <3>2
  <2>3. CASE returnToParentSurface
    BY <2>3 DEF returnToParentSurface
  <2>4. CASE FillsForm
    BY <2>4 DEF FillsForm
  <2>5. CASE LeavesPage
    BY <2>5 DEF LeavesPage
  <2> QED
    BY <2>1, <2>2, <2>3, <2>4, <2>5
<1>3. /\ stage = "deciding" /\ Answered /\ generation' = generation /\ lastClick' = lastClick /\ pending' = pending
  BY DEF Navigates, GoesBackOnMain, returnToParentSurface, FillsForm, LeavesPage, Takes
<1>4. page' \in Looks \cup {Blank}
  <2>1. CASE Navigates
    BY <1>1, <2>1 DEF Navigates, Shows
  <2>2. CASE GoesBackOnMain
    BY <1>1, <2>2 DEF GoesBackOnMain, Shows
  <2>3. CASE returnToParentSurface
    BY <1>1, <2>3 DEF returnToParentSurface
  <2>4. CASE FillsForm
    BY <1>1, <2>4 DEF FillsForm, Shows
  <2>5. CASE LeavesPage
    BY <1>1, <2>5 DEF LeavesPage, KeepsPage
  <2> QED
    BY <2>1, <2>2, <2>3, <2>4, <2>5
<1>5. suppress' \in BOOLEAN
  <2> DEFINE inside == Active(surfaces).kind = "in_document"
  <2>1. suppress' \in {suppress, no, inside} /\ inside \in BOOLEAN
    BY DEF Navigates, GoesBackOnMain, returnToParentSurface, FillsForm, LeavesPage
  <2> HIDE DEF inside, no
  <2> QED
    BY <1>1, <2>1
<1>6. submission' \in BOOLEAN
  <2>1. CASE FillsForm
    <3>1. PICK verified \in BOOLEAN : submission' = (submission \/ verified)
      BY <2>1 DEF FillsForm
    <3> QED
      BY <3>1
  <2>2. CASE Navigates \/ GoesBackOnMain \/ returnToParentSurface \/ LeavesPage
    BY <1>1, <2>2 DEF Navigates, GoesBackOnMain, returnToParentSurface, LeavesPage
  <2> QED
    BY <2>1, <2>2
<1>7. /\ SurfacesSound(surfaces')
      /\ act.inside /\ Active(surfaces').kind = "adopted" => Active(surfaces').click.step = step
  <2>0. act.inside => Active(surfaces).kind = "in_document"
    BY <1>3 DEF Located
  <2>1. CASE returnToParentSurface
    BY <1>1, <2>0, <2>1, PoppedSurfaces DEF returnToParentSurface
  <2>2. CASE Navigates \/ GoesBackOnMain \/ FillsForm \/ LeavesPage
    BY <1>1, <2>0, <2>2 DEF Navigates, GoesBackOnMain, FillsForm, LeavesPage
  <2> QED
    BY <2>1, <2>2
<1> HIDE DEF no
<1> QED
  BY <1>1, <1>2, <1>3, <1>4, <1>5, <1>6, <1>7, DoneKeepsInv

\* A dismissal held back, the end of the step, and the page changing by itself.
LEMMA RestKeepsInv ==
  ASSUME MilestoneInv, HoldsOpen \/ StepEnds \/ PageMoves
  PROVE  MilestoneInv'
<1> USE DEF MilestoneInv
<1> DEFINE no == FALSE
           yes == TRUE
<1>1. CASE HoldsOpen
  <2>1. /\ stage = "deciding" /\ Answered /\ surfaces' = Marked(surfaces, "held") /\ page' = page
        /\ \/ Done(yes, no, no) /\ UNCHANGED <<page, atHand, pushed, generation, lastClick, pending, suppress, submission>>
           \/ UNCHANGED <<providerVars, verifierVars, pageVars, generation, lastClick, lastChange, pending, suppress,
                          milestoneVars, runVars>>
    BY <1>1 DEF HoldsOpen, Takes, KeepsPage, pageVars
  <2>2. SurfacesSound(surfaces') /\ Active(surfaces').kind = Active(surfaces).kind
    BY <2>1, MarkedSurfaces DEF MilestonesTyped
  <2>5. act.inside => Active(surfaces).kind = "in_document"
    BY <2>1 DEF Located
  <2>3. CASE Done(yes, no, no) /\ UNCHANGED <<page, atHand, pushed, generation, lastClick, pending, suppress, submission>>
    <3>1. yes \in BOOLEAN /\ no \in BOOLEAN /\ ~no
      OBVIOUS
    <3>2. /\ page' \in Looks \cup {Blank} /\ generation' \in Nat /\ lastClick' \in ClickType
          /\ pending' \in BOOLEAN /\ suppress' \in BOOLEAN /\ submission' \in BOOLEAN
      BY <2>3 DEF MilestonesTyped
    <3> HIDE DEF yes, no
    <3> QED
      BY <2>1, <2>2, <2>3, <2>5, <3>1, <3>2, DoneKeepsInv
  <2>4. CASE UNCHANGED <<providerVars, verifierVars, pageVars, generation, lastClick, lastChange, pending, suppress,
                         milestoneVars, runVars>>
    <3>1. MilestonesTyped'
      BY <2>2, <2>4 DEF MilestonesTyped, providerVars, pageVars, milestoneVars, runVars, Asked, Answered
    <3>2. NothingSentAfterCorrection'
      BY <2>4 DEF providerVars, NothingSentAfterCorrection, Asked
    <3>3. Located'
      BY <2>1, <2>2, <2>4, <2>5 DEF Located, runVars
    <3> QED
      BY <2>1, <2>4, <3>1, <3>2, <3>3, ElsewhereKeepsInv DEF runVars, Credited
  <2> QED
    BY <2>1, <2>3, <2>4
<1>2. CASE StepEnds
  <2>1. /\ stage = "concluding" /\ act' = NoAct
        /\ \/ stage' = "observing" /\ step' = step + 1
           \/ stage' = "ended" /\ UNCHANGED step
        /\ UNCHANGED <<providerVars, verifierVars, pageVars, surfaceVars, milestoneVars, call, submission>>
    BY <1>2 DEF StepEnds
  <2>2. act' \in ActType /\ ~act'.opened /\ ~act'.inside
    <3>1. act' = [action |-> None, success |-> yes, opened |-> no, verified |-> no, controls |-> {}, inside |-> no]
          /\ yes \in BOOLEAN /\ no \in BOOLEAN /\ ~no
      BY <2>1 DEF NoAct
    <3> HIDE DEF yes, no
    <3> QED
      BY <3>1 DEF ActType
  <2>3. MilestonesTyped'
    BY <2>1, <2>2 DEF MilestonesTyped, Stages, providerVars, pageVars, surfaceVars, milestoneVars, Asked, Answered
  <2>4. NothingSentAfterCorrection' /\ Located'
    BY <2>1, <2>2 DEF providerVars, NothingSentAfterCorrection, Asked, Located
  <2> QED
    BY <2>1, <2>2, <2>3, <2>4, ElsewhereKeepsInv
<1>3. CASE PageMoves
  <2>1. /\ page' \in Looks
        /\ UNCHANGED <<providerVars, verifierVars, surfaceVars, milestoneVars, runVars>>
    BY <1>3 DEF PageMoves, Shows
  <2>2. MilestonesTyped'
    BY <2>1 DEF MilestonesTyped, providerVars, surfaceVars, milestoneVars, runVars, Asked, Answered
  <2>3. Credited'
    BY <2>1 DEF Credited, Creditable, CreditFollowsAVerifiedClick, surfaceVars, milestoneVars, runVars
  <2>4. Fresh'
    BY <2>1 DEF Fresh, Now, verifierVars, surfaceVars, runVars
  <2>5. Matched'
    BY <2>1 DEF Matched, Found, milestoneVars, runVars, ToJudge, computeEligibleCriteriaIds,
                getMissingRequiredCriteriaIds, GroupSatisfied
  <2>6. InOrder(satisfied)' /\ NothingSentAfterCorrection' /\ Located'
    BY <2>1 DEF providerVars, milestoneVars, surfaceVars, runVars, InOrder, GroupSatisfied, NothingSentAfterCorrection,
                Asked, Located
  <2> QED
    BY <2>2, <2>3, <2>4, <2>5, <2>6
<1> QED
  BY <1>1, <1>2, <1>3

-----------------------------------------------------------------------------

\* The invariant holds before the first step.
LEMMA MilestoneInvInit == Init => MilestoneInv
<1> SUFFICES ASSUME Init PROVE MilestoneInv
  OBVIOUS
<1> USE DEF Init
<1> DEFINE no == FALSE
           yes == TRUE
<1>0. no \in BOOLEAN /\ yes \in BOOLEAN /\ ~no
  OBVIOUS
<1>1. NoClick = [step |-> 0, verified |-> no] /\ NoClick \in ClickType /\ ~NoClick.verified
  <2>1. NoClick = [step |-> 0, verified |-> no]
    BY DEF NoClick
  <2> HIDE DEF no
  <2> QED
    BY <1>0, <2>1 DEF ClickType
<1>2. SurfacesSound(surfaces)
  <2>1. Main = [kind |-> "main", dialog |-> no, click |-> NoClick, since |-> 0, checked |-> no, held |-> no]
    BY DEF Main
  <2> HIDE DEF no
  <2>2. Main \in SurfaceType /\ Main.kind = "main"
    BY <1>0, <1>1, <2>1 DEF SurfaceType
  <2>5. SurfaceSound(Main)
    BY <1>1, <2>1 DEF SurfaceSound
  <2>3. <<Main>> \in Seq(SurfaceType) /\ Len(<<Main>>) = 1 /\ <<Main>>[1] = Main
    BY <2>2
  <2>4. (\A i \in 1..1 : i = 1) /\ 2..1 = {}
    OBVIOUS
  <2> QED
    BY <2>2, <2>3, <2>4, <2>5 DEF SurfacesSound
<1>3. act \in ActType /\ ~act.opened /\ ~act.inside
  <2>1. act = [action |-> None, success |-> yes, opened |-> no, verified |-> no, controls |-> {}, inside |-> no]
    BY DEF NoAct
  <2> HIDE DEF yes, no
  <2> QED
    BY <1>0, <2>1 DEF ActType
<1>4. /\ satisfied = {} /\ evidence = << >> /\ stage = "observing" /\ call = None /\ query = None
      /\ cache = << >> /\ DOMAIN cache = {} /\ ~Asked /\ ~Answered /\ evidence \in Seq(RecordType)
      /\ DOMAIN evidence = {} /\ Len(evidence) = 0
  BY DEF Asked, Answered
<1>5. MilestonesTyped
  BY <1>1, <1>2, <1>3, <1>4 DEF MilestonesTyped, Stages
<1>6. Located /\ Credited /\ Fresh
  BY <1>3, <1>4 DEF Located, Credited, CreditFollowsAVerifiedClick, Fresh
<1>7. Matched
  <2>1. Found = {} /\ Cardinality({}) = 0
    BY <1>4, FS_EmptySet DEF Found
  <2> QED
    BY <1>4, <2>1 DEF Matched, EvidenceOf
<1>8. InOrder(satisfied) /\ NothingSentAfterCorrection
  BY <1>4 DEF InOrder, GroupSatisfied, NothingSentAfterCorrection
<1> QED
  BY <1>5, <1>6, <1>7, <1>8 DEF MilestoneInv

\* Every step keeps the invariant.
LEMMA MilestoneInvStep == MilestoneInv /\ [Next]_vars => MilestoneInv'
<1> SUFFICES ASSUME MilestoneInv, [Next]_vars PROVE MilestoneInv'
  OBVIOUS
<1>1. CASE UNCHANGED vars
  <2>1. UNCHANGED <<providerVars, verifierVars, pageVars, surfaceVars, milestoneVars, runVars>>
    BY <1>1 DEF vars
  <2> QED
    BY <2>1 DEF MilestoneInv, MilestonesTyped, Located, Credited, Fresh, Matched, CreditFollowsAVerifiedClick, InOrder,
         NothingSentAfterCorrection, providerVars, verifierVars, pageVars, surfaceVars, milestoneVars, runVars, Asked,
         Answered, Found, Now, GroupSatisfied, ToJudge, computeEligibleCriteriaIds, getMissingRequiredCriteriaIds
<1>2. CASE EvaluatesBefore \/ EvaluatesAfter \/ EvaluationThrows
  BY <1>2, EvaluationKeepsInv
<1>3. CASE JudgesItself \/ RecallsVerdict \/ VerifierConcludes
  BY <1>3, SettlingKeepsInv
<1>4. CASE AsksVerifier \/ AsksAgain
  BY <1>4, AskingKeepsInv
<1>5. CASE EndsBefore
  BY <1>5, EndBeforeKeepsInv
<1>6. CASE EndsAfter
  BY <1>6, EndAfterKeepsInv
<1>7. CASE StepBegins
  BY <1>7, ObservationKeepsInv
<1>8. CASE Reasons
  BY <1>8, ReasoningKeepsInv
<1>9. CASE ClickMoves \/ ClickOpensPanel \/ ClickShowsNothing \/ ClickAdoptsPopup
  BY <1>9, ClickKeepsInv
<1>10. CASE Navigates \/ GoesBackOnMain \/ returnToParentSurface \/ FillsForm \/ LeavesPage
  BY <1>10, ActionKeepsInv
<1>11. CASE HoldsOpen \/ StepEnds \/ PageMoves
  BY <1>11, RestKeepsInv
<1> QED
  BY <1>1, <1>2, <1>3, <1>4, <1>5, <1>6, <1>7, <1>8, <1>9, <1>10, <1>11 DEF Next

(* The inductive invariant of the evaluation holds in every reachable      *)
(* state: types, who may be credited, what a verdict is about, what was    *)
(* found against what was to be judged, and the order of what is satisfied.*)
(* successEvaluator.ts:148-260, 700-760; loop.ts:1500-1640                 *)
THEOREM MilestoneInvariance == Spec => []MilestoneInv
<1>1. MilestoneInv /\ [Next]_vars => MilestoneInv'
  BY MilestoneInvStep
<1> QED
  BY <1>1, MilestoneInvInit, PTL DEF Spec

(* Milestones are reached in the order they are declared: an evaluation    *)
(* finds only what was eligible when it started, and when a required group *)
(* is eligible every required group before it is satisfied already.        *)
(* successEvaluator.ts:148-166                                             *)
THEOREM MilestonesComeInOrder == Spec => MilestonesInOrder
<1> DEFINE Ordered == \A c \in satisfied' \ satisfied, d \in Ids :
             RequiredGroup(c) /\ RequiredGroup(d) /\ Precedes(d, c) => GroupSatisfied(d, satisfied)
<1>1. MilestoneInv /\ [Next]_vars => [Ordered]_vars
  <2> SUFFICES ASSUME MilestoneInv, Next, NEW c \in satisfied' \ satisfied, NEW d \in Ids,
                      RequiredGroup(c), RequiredGroup(d), Precedes(d, c)
               PROVE  GroupSatisfied(d, satisfied)
    OBVIOUS
  <2>1. CallEnds /\ Commits
    <3>1. satisfied' # satisfied
      OBVIOUS
    <3>2. CASE EndsBefore \/ EndsAfter
      BY <3>2 DEF EndsBefore, EndsAfter
    <3>3. CASE EvaluatesBefore \/ EvaluatesAfter \/ EvaluationThrows
      BY <3>1, <3>3 DEF EvaluatesBefore, EvaluatesAfter, Evaluates, EvaluationThrows, milestoneVars
    <3>4. CASE JudgesItself \/ RecallsVerdict \/ VerifierConcludes
      BY <3>1, <3>4 DEF JudgesItself, RecallsVerdict, VerifierConcludes, Judges
    <3>5. CASE AsksVerifier \/ AsksAgain \/ StepBegins \/ Reasons \/ StepEnds \/ PageMoves
      BY <3>1, <3>5 DEF AsksVerifier, AsksAgain, StepBegins, Observes, Reasons, StepEnds, PageMoves, milestoneVars
    <3>6. CASE HoldsOpen \/ ClickMoves \/ ClickOpensPanel \/ ClickShowsNothing \/ ClickAdoptsPopup
      BY <3>1, <3>6 DEF HoldsOpen, ClickMoves, ClickOpensPanel, ClickShowsNothing, ClickAdoptsPopup, Done, milestoneVars
    <3>7. CASE Navigates \/ GoesBackOnMain \/ returnToParentSurface \/ FillsForm \/ LeavesPage
      BY <3>1, <3>7 DEF Navigates, GoesBackOnMain, returnToParentSurface, FillsForm, LeavesPage, Done, milestoneVars
    <3> QED
      BY <3>2, <3>3, <3>4, <3>5, <3>6, <3>7 DEF Next
  <2>2. c \in computeEligibleCriteriaIds(satisfied)
    BY <2>1 DEF CallEnds, Commits, MilestoneInv, Matched, ToJudge
  <2> QED
    BY <2>2, EligibleComeInOrder DEF MilestoneInv, MilestonesTyped
<1> QED
  BY <1>1, MilestoneInvariance, PTL DEF Spec, MilestonesInOrder

(* Between two evaluations there is exactly one record of evidence for     *)
(* each milestone the run counts as satisfied, whatever number of rounds   *)
(* and questions the evaluations took.                                     *)
(* state.ts:122-129; successEvaluator.ts:183-260                           *)
THEOREM EvidenceIsComplete == Spec => []EvidenceMatchesMilestones
<1>1. MilestoneInv => EvidenceMatchesMilestones
  BY DEF MilestoneInv, Matched, EvidenceOf, Found, EvidenceMatchesMilestones
<1> QED
  BY <1>1, MilestoneInvariance, PTL

(* Whatever panel satisfies a milestone, the click it is credited to had a *)
(* directly observed effect, and it is the click of this very step, which  *)
(* opened the panel, or opened a popup from inside the panel; or it is the *)
(* click of the step just before the panel's surface was entered.  Never   *)
(* an older click, and never any once the surface is left.                 *)
(* successEvaluator.ts:724-742; loop.ts:189-228                            *)
THEOREM PanelsAreCredited == Spec => []CreditFollowsAVerifiedClick
<1>1. MilestoneInv => CreditFollowsAVerifiedClick
  BY DEF MilestoneInv, Credited
<1> QED
  BY <1>1, MilestoneInvariance, PTL

(* A verdict of the model, remembered or new, settles a criterion only in  *)
(* the step and the generation of surfaces it was asked in.                *)
(* semanticCriterionVerifier.ts:226-240                                    *)
THEOREM VerdictsAreOfTheStep == Spec => []VerdictsAreFresh
<1>1. MilestoneInv => VerdictsAreFresh
  BY DEF MilestoneInv, Fresh, Now, VerdictsAreFresh
<1> QED
  BY <1>1, MilestoneInvariance, PTL

(* Whatever comes of a corrective request, nothing is sent after it.       *)
(* claudeReasoningProvider.ts:236-258                                      *)
THEOREM CorrectionIsLast == Spec => []NothingSentAfterCorrection
<1>1. MilestoneInv => NothingSentAfterCorrection
  BY DEF MilestoneInv
<1> QED
  BY <1>1, MilestoneInvariance, PTL
=============================================================================
