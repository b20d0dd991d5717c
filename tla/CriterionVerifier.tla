-------------------------- MODULE CriterionVerifier --------------------------
(***************************************************************************)
(* The model that judges whether the evidence of a page shows a described  *)
(* state: asked again when no verdict comes, and never twice about the     *)
(* same evidence, the failure to get a verdict being remembered too        *)
(* (src/reasoning/semanticCriterionVerifier.ts).                           *)
(***************************************************************************)
EXTENDS ReasoningProvider

VARIABLES
  cache,   \* the verdict kept for each question
  query    \* the question being asked and the attempts made

verifierVars == <<cache, query>>

-----------------------------------------------------------------------------
(* A question is the criterion with all the evidence forwarded: the page's, *)
(* the panel's, the last click, the verified submission, and the marker of  *)
(* the surface generation and the step.                                     *)
Question(criterion, signals, panel, acted, submitted, marker) ==
  [criterion |-> criterion, signals |-> signals, panel |-> panel, acted |-> acted,
   submitted |-> submitted, marker |-> marker]

\* A cache that knows the content of the evidence only.
buildCacheKeyOfContent(question) == [question EXCEPT !.marker = None]

buildCacheKey(question) == question

Known(question) == buildCacheKey(question) \in DOMAIN cache
Verdict(question) == cache[buildCacheKey(question)]

verify(question) ==
  /\ query = None
  /\ query' = [question |-> question, attempt |-> 0]
  /\ UNCHANGED cache

Keeps(satisfied) ==
  /\ cache' = [q \in DOMAIN cache \cup {buildCacheKey(query.question)} |->
                 IF q = buildCacheKey(query.question)
                 THEN [satisfied |-> satisfied, asked |-> query.question.marker] ELSE cache[q]]
  /\ query' = None

(* A verdict counts as satisfied only with enough confidence and with the   *)
(* evidence it rests on; without any verdict the last failure counts as one *)
(* that is not.                                                             *)
Concludes(satisfied) ==
  /\ query # None
  /\ \/ \E says, confident, cites \in BOOLEAN : satisfied = (says /\ confident /\ cites)
     \/ ~satisfied /\ query.attempt = ModelRetries
  /\ Keeps(satisfied)

Retries ==
  /\ query # None /\ query.attempt < ModelRetries
  /\ query' = [query EXCEPT !.attempt = @ + 1]
  /\ UNCHANGED cache
=============================================================================
