# Formal models of the navigation engine

This directory holds TLA+ models of the automotive navigation engine in `src/`: an HTTP service that
runs browser tasks (`POST /v1/tasks`), drives a page step by step with the help of a reasoning
provider, and reports which required success criteria it saw evidence for.  The models are checked
with TLC on small instances; the theorems are proved with TLAPS for every value of the constants.
Paths below are relative to the repository; `loop.ts:748` means `src/core/loop.ts`, line 748.

## 1. Inventory

### 1.1 The parts, their state and how they interact

| Part (source) | State it keeps | Operations | Talks to |
|---|---|---|---|
| HTTP API and run lifecycle (`api/server.ts`, `runner.ts`, `concurrencyLimiter.ts`, `main.ts`) | slots in use, per-run timers | create a task, read a task, run it in the background, heartbeat, memory sampling, shutdown | run store (awaited and fire-and-forget calls), engine (one awaited call) |
| Run stores (`redisTaskStore.ts`, `inMemoryTaskStore.ts`, `staleDetection.ts`) | one record per run with status, owner, `updatedAt`, TTL | create, read (marks stale), complete, fail, heartbeat | Redis, or a map of the process |
| Engine and navigation loop (`core/engine.ts`, `core/loop.ts`, `core/state.ts`) | `RunState`: counters, satisfied criteria, surface stack, histories | `runStep` until a terminal status | observation, provider, actions, evaluator, safety |
| Branches (`core/branchExploration.ts`, `branchReturnRecovery.ts`, `routeMemory.ts`, `decisionPointCheckpoint.ts`) | the active branch, attempts and results per decision point | enter, assess, close, return, reconstruct | loop |
| Recovery anchors and replanning (`core/recoveryAnchors.ts`) | anchors per milestone, restore in progress, hop and replan budgets | create, select, hop, retry, exhaust | loop |
| Surfaces (`core/surfaceReturn.ts`, `inDocumentSurface.ts`, `surfaceAdoption.ts`, `capture-modules/popupCapture.ts`) | stack of panels, dialogs and adopted popups; adoption budget and fingerprints | enter, adopt, leave, hand over listeners | loop, capture |
| Success evaluation (`core/successEvaluator.ts`, `panelEvidence.ts`, `reasoning/semanticCriterionVerifier.ts`) | satisfied ids (owned by `RunState`), verifier cache | evaluate criteria in milestone order, verify semantically | loop, model client |
| Reasoning provider (`reasoning/claudeReasoningProvider.ts`, ...) | none between calls | ask, validate, correct once, fall back | model client |
| Form submission (`actions/fillForm.ts`, `submissionObserver.ts`, `submitAttemptPlan.ts`) | evidence of one submission | fill, submit, observe with extensions, one fallback attempt | page, network events |
| Dealer lookup (`actions/dealerLookup*.ts`) | evidence of one lookup | type, wait for results, select, confirm | page, network events |
| Journey memory (`core/journeyMemory/*`) | segments in Redis with three indexes | build, record with precedence and eviction, look up by tier under a timeout | Redis, engine |
| Resource routing (`api/browserResourceRouting.ts`) | per-page tallies | register, route, close, describe, detach | browser context events |
| Safety (`safety/*`) | none; reads `RunState` | limits, action, domain, repetition, consent | loop |
| Capture and analytics (`capture-modules/*`) | captured events, bounded | attach, snapshot, classify | page events |
| Discovery (`discovery/*`), observation (`observation/*`), form understanding (`forms/*`) | none | read and score pages | page |

A run is created under a slot of the concurrency limiter; its record is written; `executeTaskAsync`
then owns the run: a heartbeat interval and, with the memory breaker on, a sampling interval run beside
the awaited browser launch and `runTask`.  `runTask` calls `runStep` in a plain loop; inside a step
everything is sequential, and the site and the provider answer at awaits.

### 1.2 What is hard here

* **Concurrency at the store.**  The record of a run is written by the run, by its heartbeat timer, by
  the sampler and by any reader (staleness), each a read followed by a write.
* **Failure on the way out.**  Completing, failing, launching and closing all have rejection paths, and
  the slot has to come back on each.
* **Crash and restart.**  A process that dies leaves records that only another process, by worker id
  and age, can tell to be lost.
* **A step with many exits.**  `runStep` has more than twenty returns; six budgets are updated on
  different paths; a branch may be closed in one step and returned from over several later ones, while
  replanning, anchors, obstructions, panels, consent and a verified submission each add their own rules.
* **Stale keys.**  Route memory belongs to a surface and to a page fingerprint, both of which may have
  changed between the decision, its outcome and the result of its branch.
* **Limits.**  Steps are compared with `>=`, backtracks with `>`, and the guards look one step ahead.
* **Waiting.**  The submission window is extended while progress is seen, up to a hard cap; lookups in
  the journey memory run under one deadline across tiers; timeouts race late answers.

### 1.3 What makes each part correct

* Service: a slot is counted exactly once and comes back; a live run is not reported as lost; a
  finished run's outcome is recorded; a lost run does not stay running.
* Loop: success only with every required criterion; a verified submission is not repeated; no decision
  at a position that was not verified; every budget holds; every run ends.
* Branches: a dead end is not entered again; the way back is affordable when a branch is entered.
* Surfaces: nested in the order of entry, main page at the bottom.
* Forms: Submit is clicked at most twice and not again after a lead request that was accepted or is still
  owed an answer; what is reported agrees with what was seen; nobody's optional consent is given for them.
* Dealer lookup: a selection never falls back on what an earlier click passed over; a lookup is polled again
  only while nothing was selected; "resolved" means something this call brought about.
* Clicks and popups: every popup is instrumented exactly as long as it is used, every request counted once,
  and "no tag" means that nothing was captured.
* Milestones: reached in the declared order, one record each; a panel is credited only to a fresh click with
  an observed effect; no verdict of the model outlives the step it was asked in.
* Provider: one corrective request at most, and nothing sent after it.

## 2. Modules

| Module | Models | Kind |
|---|---|---|
| `RunStatus` | what a reader of run records may rely on | abstract specification |
| `RunService` | server, runner, limiter, both stores, process death and restart | component |
| `MCRunService` | symmetry for TLC | model checking |
| `RunServiceProofs` | type correctness, slot accounting, concurrency bound, the worker-lost verdict, fresh records and recorded completions in memory, the in-memory store implements `RunStatus` | proofs |
| `TaskRun` | what the engine promises of one run | abstract specification |
| `NavigationLoop` | `runStep` over `RunState`, with branches, anchors, surfaces, obstructions, submission | component |
| `JourneyMemory` | lookup and write-back of runs that share the journey memory, one Redis command at a time | component |
| `MCJourneyMemory` | one domain and one market; symmetry for TLC | model checking |
| `JourneyMemoryProofs` | completed lookups, justified decay, the cap, evidence | proofs |
| `MCNavigationLoop` | symmetry for TLC | model checking |
| `NavigationLoopProofs` | type correctness and safety of the loop, the loop implements `TaskRun` | proofs |
| `SubmissionObserver` | the bounded observation after one Submit | component, used by `FormFill` |
| `ConsentGroups` | the scan, recovery and opt-in of radio groups | component, used by `FormFill` |
| `FormFill` | the whole `fill_form` action | composition |
| `MCFormFill` | one form of fields, one of groups | model checking |
| `FormFillProofs` | the observation, the number and justification of Submits, the report, consent | proofs |
| `ResourceRouting` | the low-memory route handler and its page callbacks | component |
| `PopupAdoption` | the function of a claimed popup, beside the routing of its page | component on `ResourceRouting` |
| `EvidenceWindow` | captured events, the window of a click and its classification | component on `PopupAdoption` |
| `ClickAction` | one click with its popups, surfaces, window, and the end of the run | composition |
| `MCClickAction` | four kinds of run | model checking |
| `FiniteSums` | sums over finite sets: order, one element more or less, one value changed | lemmas |
| `ClickActionProofs` | requests counted once, listeners, the no-tag verdict | proofs |
| `DealerLookup` | one dealer lookup with its re-polls | component |
| `MCDealerLookup` | four widgets | model checking |
| `DealerLookupProofs` | selections, re-polls, populated fields | proofs |
| `ReasoningProvider` | one decision: request, corrective request, validation | component |
| `CriterionVerifier` | the semantic verifier and its cache | component on `ReasoningProvider` |
| `MilestoneEvaluation` | milestones before and after the actions of a run | composition |
| `MCMilestoneEvaluation` | three criteria, three looks | model checking |
| `MilestoneEvaluationProofs` | order, records, credit, freshness of verdicts, the one correction | proofs |

### 2.1 RunService

`phase[r]` is where `executeTaskAsync` (and `handleCreateTask` before it) stands for run `r`;
`current` is the limiter's counter; `store[r]` is the record; `pending` holds the Redis writes that were
sent and have not taken effect.  A Redis call is two steps, the read that decides what to write and the
write (`Call`, `Commit`), so that another call may fall in between; an in-memory call is one step, as no
await separates its read from its write.  `GetTask`, `Heartbeat` and `SampleMemory` run beside the run's
own calls; `CompleteRun`, `FailRun`, `LaunchFails` and the rejection actions follow the `try`/`finally`
structure of `runner.ts`.  `Shutdown`, `Exit`, death and `Restart` replace the worker id.  Time is a
`Tick` that ages records and timers together; ages beyond `AgeCap` are not told apart.

### 2.2 NavigationLoop

A run of the loop is one behaviour.  `pc` is the part of `runStep` about to execute:

    observe -> limits -> return -> blocker -> ask -> weigh -> guard -> barred -> close
            -> dispatch -> evaluate -> conclude -> (observe | ended)

| Actions | `runStep` |
|---|---|
| `Observe`, `SyncSurface` | observation, evidence of the page, entering and leaving dialogs (305-448) |
| `StopAtLimit`, `AcceptConsent`, `PassLimits` | limits, automatic consent (450-650) |
| `BranchSucceeds`, `AssessBranch` | progress of an open branch (652-735) |
| `BackAtDecisionPoint`, `RestoreLate`, `RestoreFails`, `ReturnHop` | the way back of a closed branch (748-1166) |
| `ReactToBlocker`, `SkipBlocked` | a persistent obstruction (1184-1244) |
| `Ask`, `RetryLowConfidence`, `RedirectDismiss`, `Weigh`, `Retarget` | the decision and the checks that ask again (1259-1485) |
| `CloseBranch`, `RecoverAtAnchor`, `AnchorHop`, `PlainReplan`, `CarryOn` | `stop_blocked` inside a branch, journey replanning (1495-1815) |
| `DispatchClick`, `DispatchForm`, `DispatchBack`, `DispatchOther` | the action, stale-target and obstruction bookkeeping, branch entry, route memory (1816-2498) |
| `Evaluate` | success criteria and anchors (2500-2617) |
| `ContinueAtAnchor` ... `ActionFailed` | the terminal ladder (2771-2951) |

The site and the provider are the environment.  A page is the fingerprint the code computes for a
decision point; a candidate is the identity of a click or navigation; a criterion is a required success
criterion or one group of them; a surface is a number in order of entry.  Where the code asks the page
or the provider, the model chooses among all answers the code's types and checks let through; for
instance a semantic page match may hold on any page, and a low-confidence retry may happen at any
refusal right after a surface opened.  These choices make the model take more steps than the code, so
what holds in the model holds in the code.  `branch.on` is the surface a branch was entered on; the code does not
keep it, and records the result of the branch for the surface active at its closure.  `deadEnds`, the routes with their
surface, is a history variable; no action reads either.

### 2.3 JourneyMemory

`engine.ts` looks for segments of earlier runs before its first step and writes its own back after the last.
`store` is the record under each id, `members` are the domain, market and global indexes; they are all that
runs share, and nothing locks them.  `pc[r]` is where a run stands: a tier of its lookup, `navigate` (or `found`,
`timeout`, after a lookup) while `runStep` is at work, then `list`, `apply` and `evict`.  Reading a tier is a
`SMEMBERS` followed by a `GET` per member (`Smembers`, `Get`); what a segment does to the records of its domain is
computed from the copy that was listed (`ApplySegment`, with the operators of `retention.ts`: which records are
`Superseded`, `Restored` and `Decayed`, and how a changed one is `Rated`) and laid out as the sequence of
commands in `work[r]`, which `Command` sends one at a time.  `WriteBackStops` is a rejected command or a process that
dies: the command may or may not have taken effect.  `LookupRejected` fails the run, as
`withTimeout` passes a rejection on.  Confidences are integers (fortieths) with the one comparison that floating point
decides differently set right by `Rounded`: a confidence of 0.7 lowered, raised and lowered again stays just below 0.7,
while one that is lowered twice and then raised is 0.7 again.  Index keys outlive the records they name, because each write
renews them after the record; expiry is therefore of records only (`Lapse`).  An id belongs to one run: the ids of
the code contain `taskId` and a counter of the process, so two processes that are given the same `taskId` could
share one; that is left out.  `proved`, `excused`, `failures`, `stable` and `alone` are history variables.

### 2.4 FormFill, with SubmissionObserver and ConsentGroups

`fill_form` runs in one place, so `pc` is a single program counter over `executeFillFormInner`:

    start -> gate -> select -> fill -> dependent -> consent -> catch_up -> ready -> submit
          -> observe -> judge -> (correct -> submit | fallback -> eligible -> submit) -> report -> done

The page (`shown`, `held`, `refused`; `checked`, `reach`) and the network (`reqs`) change beside it.
`PageMovesField` and `PageMovesConsent` may change anything the page owns, but only where the engine is about
to read it again: a change that nobody reads before the next one is the same behaviour.
`SubmissionObserver` is the poll loop.  One unit of `watch.clock` is one poll interval.  An iteration first
takes the captured requests and then awaits the page, so it is two actions, and requests may be sent and
answered between them; the ranking of what one poll finds is the order of the tests in the code.  The requests
that count as leads are known by their positions (`BusinessRequests`), the decisive one by the first of a position.
`ConsentGroups` knows a group by its purpose and by the polarities its labels spell out.  What the engine
activates is kept in the history variable `chosen`, with the path (resolution, recovery, opt-in) that did it.
The dealer lookup is seen through its outcome here (`dealer`); `DealerLookup` models it.

### 2.5 ClickAction, with ResourceRouting, PopupAdoption and EvidenceWindow

A popup is claimed by the click that opened it and from then on has an asynchronous function of its own
(`adoptOrCapturePopup`): `adoption[w].phase` says at which await it stands, and every await is an action
(`Loaded`, `Assessed`, `Settled`, `Captured`, `ClosedWhenOpen`, ...).  `ResourceRouting` holds the callbacks of the
browser context: the route handler, a new page, a close, the description of a popup's role, and the detaching at
the end of the run.  They share `routing` and come in any order, also after the page they belong to is gone.
`EvidenceWindow` is the bounded array of captured events (`appendBounded`, which takes what every listener of a page
pushes for one event) with the marks a click takes of its length, and
`analyticsStatus`, `primaryClickEventStatus`, `triggerSegment` as the code computes them from a slice.
`ClickAction` composes them with the step: dispatch, settling, landing, the destination fallback, the hand-over of an
adopted popup to the surface stack, the return from it, and the end of the run, where listeners, routing and browser
are let go in that order.

### 2.6 DealerLookup

`pc` follows `resolveDealerLookup`: typing, the ladder of activations (`NextRung`), the wait for a stage with its
one extension (`pollForStageResult`, `Extends`), the discovery tiers (`findResultOnce`), the click with its re-finds
(`Refinds`, `guardedClick`), the commit evidence (`waitForSelectionCommit`), a possible confirm control, and the
classification of a lookup that did not verify; `rerunDealerSearch` is the re-poll of `fillForm.ts`.  The attributes
that the lookup writes into the page to tell new results from old are `marks`.  The page (`Page`) renders, removes
and commits, starts and answers requests, at any await.

### 2.7 MilestoneEvaluation, with ReasoningProvider and CriterionVerifier

A step observes, evaluates the criteria, asks for a decision, acts, evaluates in up to three rounds, and ends.
An evaluation (`call`) goes through the eligible criteria one at a time; a semantic one may need the model
(`AsksVerifier`, `AsksAgain`, `VerifierConcludes`) or be answered from `cache`, whose key is the whole evidence with
the marker of surface generation and step.  `page` is what the step reads: it is bound when the step begins, from the
surface that is then active, and stays bound to its end.  `atHand` says what it has become since: the opener, once a
click adopted a popup, or a popup that a `go_back` has closed, whose words can no longer be read (`Readable`).
A panel's content is evidence of its own (`gatherPanelEvidence`).  Whether it is gathered depends on the surface observed
before the action (`act.inside`), which click is credited on the surface active by then
(`buildPanelMatchContext`, `loop.ts:206-213`); `via` records which of the two it was: the panel this step's click opened, an
in-document surface with the click of `CausingClick`, or a popup adopted from inside the panel.  `ReasoningProvider` is one decision: a plain
request, possibly repeated, and one corrective request for an answer that breaks the format or the consent policy.
`executeNavigate` and `executeGoBack` decide from the way the browser's call ended and from where the page then stands
whether the action succeeded.  `Evaluate` of `NavigationLoop` is the same evaluation seen from the loop, as an outcome.

### 2.8 Abstract specifications

`RunStatus` lets a record appear, be marked stale, get one outcome and be forgotten.  The in-memory
store implements it (`ImplementsRunStatus`); the Redis store does not, as the run
`RunServiceOutcomeOverwritten` shows.  `TaskRun` lets a run gain evidence, count actions up to
`MaxActions`, and end once, successfully only with complete evidence, its last action being allowed one
beyond the limit.  The loop implements it (`ImplementsTaskRun`) with outcome, satisfied criteria, verified
submission and step count as the mapping.

## 3. Runs

| Run | Question | Bounds and why they are enough |
|---|---|---|
| `RunServiceMemory` | slots, staleness, completions and refinement with the in-memory store | three runs and two slots: one run waits while two interfere; timers may be one tick late; two processes |
| `RunServiceRedis` | slots, the worker-lost verdict and liveness with Redis | two runs on one slot, one background write in flight beside the run's own, one rejected request, one restart; ages up to expiry |
| `RunServiceOutcomeOverwritten` | the comment at `redisTaskStore.ts:30-32`; ends in a violation, section 6 | two runs, two background writes, no fault |
| `NavigationDeadEndReentered` | `routeMemory.ts:218`, `docs/architecture.md:1800-1801`: no dead end is entered again; ends in a violation, section 6 | seven steps, three backtracks and two surfaces above the main page: enough for a branch closed on another surface, the way back and a second entry |
| `NavigationGoals` | budgets, position, submission guard, refinement of `TaskRun` | five steps, two backtracks; two milestones (anchors of both, the later one exhausted first), two restore hops, one replan; one ambiguous page, so that a branch is entered, closed and returned from, or the return fails; form filling; one candidate per decision point |
| `NavigationLiveness` | nesting of surfaces; every run ends | three steps, two surfaces (a popup above a panel above the main page), obstruction, consent retry, a stale retry, the wall clock; one required criterion, so that claims of success are rejected and repeated, one replan and retries at its anchor. With one backtrack no branch is affordable, so that the termination of branches rests on `BudgetsRespected` and on every step of a return being counted or ending the run |
| `JourneyMemory` | evidence, decay, completeness of lookups and the cap, under every interleaving of three writers | one segment per run: three runs supersede, fail, restore and evict at a cap of two and a threshold of two; one forward and one recovery journey; the third run reads first, with a scan limit below the number of records; one mishap |
| `FormSubmission` | observation window, number and justification of Submits, agreement of the report | one phone field that the page changes; a window of one poll, extended by two, up to two; two lead requests answered 200, 422 or not at all; one page signal per poll; two corrections. Two requests are needed so that one can be refused while another is out |
| `FormConsents` | optional consent; every `fill_form` returns | two fields and two groups, optional and processing, each appearing, covered or absent, with one rescan and one reread; no requests, so that every Submit ends in silence and reaches the test-only opt-in |
| `ClickPopups` | accounting of requests and listeners, the no-tag verdict, every click returns | two popups, so that one is claimed and one is a sibling. Four kinds of run: capturing only with three events on an array of two (it overflows), adopting with events, adopting over two steps with a budget of one surface, adopting in low-memory mode with two requests. Every third reconsideration of a popup is not reached in two steps |
| `DealerLookup` | selections, re-polls, populated fields, every lookup returns | widgets that complete, search slowly, ask for a confirmation, or show siblings; one request, up to three results, one re-find instead of three, one follow-up, two re-polls. Page events are placed where the lookup is about to read |
| `Milestones` | order of milestones, their records, credit, freshness of verdicts, corrections | three criteria: a required group of an event and a semantic criterion, then a required semantic one; three looks; two acted steps and the evaluation of a third; one change the page makes by itself, placed where something is about to read; two consent intents; one repeat of a request; three rounds |

Two runs end in a violation: each states what a comment says and the code does not do (section 6).  The type
invariants of `RunService` and `NavigationLoop` are proved (section 4) and not checked again by a run; those of the
other modules document the state.

**Fairness.**  `RunService`: the event loop gets to every enabled step of a run, every sent Redis request
is answered, time passes, a dead process is restarted, and readers keep reading.  `NavigationLoop`: weak
fairness of `Next` as a whole, because `engine.ts` calls `runStep` in a loop (412-444) and every await
inside a step has a timeout of its own.  `FormFill`: weak fairness of its own steps and of the observer's, both
awaited calls with timeouts (`fillForm.ts:1339-2583`, `submissionObserver.ts:479-503`).  `ClickAction`: of the engine
and of each popup's function, whose awaits end by timer (`click.ts:690-695`, `popupCapture.ts:577-590`).
`DealerLookup`: of the engine only.  `MilestoneEvaluation` and `JourneyMemory` are checked for safety alone.  In
none of them is anything assumed of the site, its servers or the provider: requests may stay unanswered, pages may
stay busy for ever.

**Deadlock** is checked except in `ClickPopups`, `DealerLookup` and `Milestones`, where the run, or the lookup, is
over and nothing is left to do; elsewhere an ended run stutters (`Ended`, `AllOver`, `Done`), an idle service ticks.

## 4. Proofs

`RunServiceProofs` proves, for any number of runs, slots, faults, restarts and either store:
`TypeOK`, `OneOwnCall`, `SlotAccounting` and `ConcurrencyBounded`.  `SlotAccounting` is not inductive:
a second own call of a run that is already past its slot could release it again.  The strengthening
conjoins `OneOwnCall` (what the program counter awaits is the one own call in flight).  Cardinalities
are handled by lemmas on adding and removing one run, so that each action changes `current` and the set
of holders by the same amount.

It also proves, for the in-memory store, that `RunService` implements `RunStatus`.  The invariant is `LocalInv`:
no write is ever pending, only a run past its last call has an outcome, and a run that was not created has no
record; each call is then one step of the record or a stutter.  `WorkerLostMeansOwnerGone` is proved for both
stores from `Ownership`: the record of a run in flight, and every write still on its way for it, carries the
worker id of the living process, so that no reader of that process can take its owner for gone, and a restart,
which changes the id, finds no run in flight.

`NavigationLoopProofs` proves, for every site, provider, number of pages, candidates and criteria and every
choice of limits:

- `ImplementsTaskRun`, which includes that a success is complete, and the two run limits from one invariant, `Accounted`: an outcome
  exists exactly at `pc = "ended"`, and every part of the step from the check of the limits to the dispatch
  stands strictly below `MaxSteps` and not above `MaxBacktracks`.  One lemma sorts the steps of the loop into
  those that gain evidence, act, end the run or stay quiet; each kind is one action of `TaskRun` or a stutter.
- `OnlyVerifiedPosition`, which is inductive as it stands.
- `SubmissionGuarded`, through `Guarded`: from the decision on, what is about to be dispatched is harmless,
  and a retreat is only pending while nothing was submitted.  The decision itself is harmless by a lemma on
  `obtainDecision`, and every place that decides anew cites it.
- `TypeOK`, one group of variables at a time.  It is not inductive: a branch must have a decision point that
  is a page, a pending anchor hop a page to go to, and the latest anchored milestone must exist (a largest
  element of a nonempty bounded set, from the library's well-foundedness of the naturals).
- `SurfacesNested`, with `Nested`: no surface is newer than the number of surfaces entered, and the main page
  is no dialog.  Hence a stack with the main page on top holds nothing else.
- `BudgetsRespected`: an open branch has not started its way back, and `restoreHops` exceeds its ceiling only
  on the way to the end of the run, after a retry at the anchor that was refused again.

`NoFalseStale` and `CompletionRecorded` are proved for the in-memory store, from `TimelyInv`: with timers that fit the
threshold, the record of a beating run is never older than the time since its heartbeat last fired, and is gone only
if records are kept for less than two heartbeats are apart.  With Redis neither holds of the code: a `SET` may wait in
the queue for any time while the record ages, so nothing bounds its age by the heartbeats.

`FormFillProofs` proves the six invariants of `FormFill` and its action property, for every form, set of
requests, statuses and lengths of the windows.  `FillInv` has three parts.  `ObserverInv`: the deadline of a watch only
grows from its base and an observation ends undecided only when it is spent.  `Counted`: every place before Submit has
no click behind it, every place that leads to Submit one click to spare, and the opt-in has no way back.  `Judged`: what
the capture says of an attempt never denies what the observer said (`Recorded`), which holds because the observer
decides first and requests and their answers only accumulate; an attempt that is corrected was not accepted when it
was judged.

`ClickActionProofs` proves `RequestsAccounted`, `ListenersMatchUse` and `NoTagMeansNothingArrived`, for any number of
popups, events and requests and any capacity of the array.  `RequestsAccounted` says that four sums are equal to four
counters, in a table whose rows are added, changed, reported and dropped by independent callbacks; `FiniteSums` supplies
the arithmetic.  The fold of the community modules is a recursive function over subsets; its existence and its
independence of the order are proved by taking a least counterexample, with the naturals well-founded, since an
induction theorem cannot be instantiated here.  `ListenersMatchUse` is strengthened by `Claims` (a popup that may
still be claimed has no function yet; the surface the engine is about to take over was adopted, and is let go with
its listeners), the no-tag verdict by `Bounded` (until the array overflows, a mark is the number of arrivals).

`DealerLookupProofs` proves `SelectionsAdvance`, `RepollsOnlyUntouched` and `PopulatedByThisCall`, for any results, scopes,
tiers and budgets.  `Marked` says that whatever an earlier click was offered carries the mark of its kind, and
that no discovery tier takes a result with such a mark; `Staged` and `Committed` say which parts of the record
of a call may be set at which place, and that its counts of identifiers were taken by this call, in their order.

`MilestoneEvaluationProofs` proves the four invariants and the action property of `MilestoneEvaluation`, for any
criteria, groups, pages, intents, repeats and rounds.  `PanelsAreCredited` says exactly which clicks may be credited with
a panel: a verified click of the same step, which opened it or opened a popup from inside it, or the verified click of the
step before its in-document surface was entered.  `Matched` relates the records to the criteria satisfied or found
by the evaluation in progress; `Credited` bounds the click a context may credit by the surface active when it is built, which in turn needs that
an in-document surface lies directly on the main page and was entered on a click of the step before (`SurfacesSound`),
and that a step observed inside a panel is still inside it when it acts, so that an adopted surface active after it was
opened by that very click (`Located`); `Fresh` says that
the cache files a verdict under the marker of its question.  `InOrder` is about satisfied criteria alone: adding
criteria that are eligible keeps it, since eligibility looks at the first missing group.

`JourneyMemoryProofs` proves all four properties of `JourneyMemory`, for any number of runs, domains, markets, journeys
and segments and any cap, scan limit and threshold.  Below all of them lies `Base`: types, what a run holds at each place,
and that an id that a run has yet to give is used by nobody.  `FlattenSeq`, which lays out the commands of a segment, is
recursive in the community modules; where each part lies in the whole is proved once, with the naturals well-founded, and
the rest of the proofs only use that every command belongs to a part and keeps its order there.

- `LookupComplete`, from `Sighted`: what was listed throughout is found already, copied, or still to be read by the
  `GET`s of the current tier; the market and global tiers add to what tier 1 found.
- `DecayJustified`, from `Shelved` and `Heard`: every sunk success that is stored, was read, or is about to be written is
  warranted by the failures written, those that the same run will have written before it included.  A copy may be stale,
  but the failures counted in it have all been written.
- `CapRestored`, from `AtHome` (a write-back stays within its domain) and `Overseen`: as long as a write-back has its domain
  to itself, whatever is listed is in its copy or about to be deleted, and after the choice of what to evict, what is not
  about to be deleted is no more than the cap.
- `EvidenceKept` takes the most.  `Alike`: all versions of an id, stored, copied or on their way, agree on journey and
  outcome; records change in confidence only.  `Intent`: outside eviction a run deletes records of its segment's journey
  only, and lists a success of its own for it afterwards, of a record that no other run can know before it is listed.
  `Known`: what is a success anywhere was written before.  Then every verified journey that is not excused is `Evident`:
  it has a listed success that no run is about to take out of the index without having deleted its record first, or one
  that is about to be listed.  The reason in short: whoever takes the evidence away is on the way to replace it.

The assumptions are those of the modules: the parameters are natural numbers, the submit controls are
candidates, the allowed actions are kinds of actions, "no page" is not a page.  Every inductive invariant was
first checked by TLC on the instances of section 3.

Left to TLC: liveness under fairness (`Terminates` of both modules, `SlotReturned`, `LostRunReported`, `ClicksReturn`,
`LookupReturns`), which is out of the prover's reach.  `OutcomeIsFinal` and `DeadEndNotReentered` are refuted.

## 5. Plan

Done so far: the service, the stores, the loop, journey memory, forms, clicks with their popups and evidence,
dealer lookup, milestones with verifier and provider, and proofs about all of them.  What is left, in order:

1. Refinement of the `Evaluate` and `DispatchForm` steps of `NavigationLoop` by the modules that detail them.
2. The building of journey segments from the steps of a run and their ranking (`segmentBuilder.ts`, `scoring.ts`).
3. The history conditions of the safety guards (`safety/*`), domain discovery with its budgets, the submit
   cancellation probes.

## 6. Disagreements between text and code

Two have a run that TLC refutes; `PROJECT.json` quotes the texts.

* `RunServiceOutcomeOverwritten`: the read-then-write of a heartbeat or of a reader can overwrite the stored outcome,
  written by `completeRun` or by `failRun`; the comment in `redisTaskStore.ts:30-32` says nothing races.
* `NavigationDeadEndReentered`: the result of a branch is recorded in the route memory of the surface that is active when
  the branch is closed (`routeMemory.ts:209`).  If the click that entered it was followed by a panel or an adopted popup,
  its candidate was noted in another memory, the result is lost, and the dead end is entered again from the same decision
  point on the same surface, against `routeMemory.ts:218` and `docs/architecture.md:1800-1801`.

The others were met while modelling.  They are in the models as the code has them, and have no run of their own.

Service and memory:

* The heartbeat's store call has no `catch` (`runner.ts:111`), though the comment at 135-136 counts it among the writes
  that "must never block or crash the run"; a rejected request is an unhandled rejection.  A rejected `createRun` keeps its slot (`server.ts:140`) for the life of
  the process; `SlotAccounting` counts such a slot as held and does not exclude the leak.
* A rejected Redis command of a lookup rejects the whole run (`store.ts:182` against `engine.ts:388-390`, "Never
  throws"); the `SREM` of one run after the `SADD` of another leaves a stored record in no index (`store.ts:43-52` speaks
  of a harmless repeat); a superseded success is deleted before its successor is written, and a fault in between loses
  both (`service.ts:183-189`); `deleteRecord` leaves the market index as it is (`store.ts:95-99`); the write-back, unlike
  the lookup, has no timeout.

Loop:

* The return sequence of a closed branch goes back through history after a verified submission (`loop.ts:941` against
  `docs/architecture.md:4588-4589`); with nothing missing it may run instead of stopping with success (`loop.ts:748`
  against `docs/architecture.md:4584`).
* The backtracks reserved for a branch's return can be spent inside the branch (`branchExploration.ts:141`).
* The re-decisions at `loop.ts:1480`, `1536` and `1705` are not checked against the exhausted candidates as the comment
  at 1384-1389 says; a new obstruction inherits the repeat count of the previous one (`loop.ts:2197` against
  `state.ts:492`); a click replaced by a wait still opens a branch (`loop.ts:2402` against `docs/architecture.md:1790`).

Forms and dealer lookup:

* A lead request answered with a status that no branch of `classifySubmissionResponses` names (410, for instance) is
  classed with the pending ones (`fillForm.ts:1158`), and the report then says that it was "still pending or failed in
  transport" (2453).
* The guard of the corrections (`fillForm.ts:2183-2189`) looks at what the observer saw; a lead request that the capture
  recorded in between does not stop the second Submit, though the comment above it speaks of any evidence of acceptance.
* The readiness gate (`fillForm.ts:1800-1817`) rests on the controls as they were read after the consent groups
  (1676), not on the form at Submit; a dealer field that is refilled just before a later Submit may run its lookup again,
  and the click does not look at the outcome.
* The ladder of activations goes on pressing while a lookup is in flight (`dealerLookup.ts:1694` against the doc at
  1333-1341); candidates are marked as baseline after the click on the confirm control (1882) where the comment at 1815
  says before it; commits between two looks are missed, and a late commit of the location can verify the dealer's click
  (1965).
* A re-poll takes its baseline anew, so that results rendered between the two calls are not new to it, and its own
  capture never saw the request it waits for, so that it gets no extension and is always the last
  (`dealerLookup.ts:1357`, `dealerLookupNetwork.ts:415` against `docs/dealer-postcode-failure-mode-review.md:90-92, 116`).

Clicks and evidence:

* The attempts of a rejected popup are counted only when it is scored in full (`popupCapture.ts:28`).  An adopted popup
  is not handed over when the click itself fails or navigates the main frame.
* Marks are lengths of an array that drops its head when full, so that a later window is shifted; the same record is
  appended without a bound at `popupCapture.ts:409`.
* An ambiguous popup that the resolver finds relevant is remembered as one not to adopt (`popupCapture.ts:524-528`).
* Later evidence of an adopted popup is recorded under the step that opened it (`popupCapture.ts:301-330` against
  `actionWindowSettle.ts:20-23`).

Navigation:

* A `navigate` that times out before anything happened leaves the old page, which is a usable document of the domain, and
  is reported as a success (`robustNavigation.ts:169-202`); the comment above it says that "no navigation happened at
  all" is not recoverable.  A `go_back` that returns without having moved is reported as committed (`goBack.ts:186-219`).

Milestones:

* "A single, unchanged page observation can never satisfy more than one required milestone"
  (`successEvaluator.ts:148-166`): one evaluation before the action and three after it may each satisfy one
  (`loop.ts:2526-2585`); the rounds read the live page anew, where 2536-2541 speaks of an identical snapshot.
* A panel that opened by itself in the step of a click, or a second panel inside the same surface, may be credited to
  the click (against `successEvaluator.ts:51-53`).  So is the panel a popup was opened from: after a click inside an
  in-document surface that adopts a popup, `loop.ts:206-213` gathers the panel of the opener, because that is the surface
  observed before the click, and takes the causing click of the popup, which `loop.ts:2116` has just recorded; a panel
  criterion that the click did not bring about is then satisfied on its credit.  `CreditFollowsAVerifiedClick` allows it
  (`via = "adopted"`), and bounds it to a verified click of the same step.
* After a `go_back` that closes an adopted popup the rest of the step still reads the closed page (`loop.ts:305`): a
  semantic criterion, or the reading for a recovery anchor (2603), throws and ends the run.  `pendingJustOpenedPanelVerified` (`state.ts:284-291`) set by a click on
  an adopted popup persists until a later, unrelated entry on the main page.
* `surfacesVerifiedAgainstMilestone` (`state.ts:302-307`) is set by any satisfied criterion, optional ones included;
  recovery anchors are created only for milestones reached after an action (`loop.ts:2587-2616`); an outage of the
  verifier is remembered as "not satisfied" and reused by the later rounds of its step
  (`semanticCriterionVerifier.ts:335`), which `VerdictsAreFresh` allows.

## 7. What is not modelled

* Text and page understanding (observation, form and consent vocabularies, relevance scores, prompts) is stateless and
  enters the models as a choice of its outcome.
* In forms: values, locators and scores; a browser call that throws out of `fill_form`; what typing does in the page.
  In the dealer lookup: which button belongs to which field, and the diagnostics.
* In clicks: the evidence of a covered target, consent events and reporting rows; requests and data-layer pushes are one
  array.  In milestones: URL patterns and vocabularies (verdicts of the page), the completion estimate; branches and replanning,
  so that there a failed action ends the run unless its target was stale.
* Narrowings of single definitions: no page of `NavigationLoop` is `about:blank`, on which the code does not replan
  (`loop.ts:1587`); the snapshot
  entries of a popup (`popupCapture.ts:402-416`, `649-654`) are not arrivals of `EvidenceWindow`; results inside
  same-origin frames (`dealerLookup.ts:701-707`) are not a tier of `DealerLookup`.
* Safety guards beyond limits and `validateDecision`, domain discovery and the submit probes are in the plan.
  Diagnostics and simple captures are written and never read by a decision.  Configuration, schemas, the n8n nodes and
  CI are outside.  `PROJECT.json` says so component by component.

## 8. Running

    tlc -workers 2 -config NavigationGoals.cfg MCNavigationLoop.tla
    tlc -workers 2 -config NavigationDeadEndReentered.cfg MCNavigationLoop.tla
    tlc -workers 2 -config FormSubmission.cfg MCFormFill.tla
    tlc -workers 2 -config ClickPopups.cfg MCClickAction.tla
    tlc -workers 2 -config Milestones.cfg MCMilestoneEvaluation.tla
    tlapm RunServiceProofs.tla
    tlapm NavigationLoopProofs.tla
    tlapm FormFillProofs.tla
    tlapm ClickActionProofs.tla
    tlapm DealerLookupProofs.tla
    tlapm MilestoneEvaluationProofs.tla
    tlapm JourneyMemoryProofs.tla

The module that a run is checked with is the "module" of its entry in `PROJECT.json`.
