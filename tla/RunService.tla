----------------------------- MODULE RunService -----------------------------
(***************************************************************************)
(* The life of a run in the HTTP service: admission through the            *)
(* concurrency limiter (server.ts), execution with its heartbeat timer and *)
(* its memory sampler (runner.ts), the run record in the in-memory or the  *)
(* Redis task store, lazy stale detection, record expiry, process death    *)
(* and restart.                                                            *)
(*                                                                         *)
(* The Redis store is a GET followed by a SET on one FIFO connection.  A   *)
(* call is split where the code awaits: "Begin" is the GET and the         *)
(* continuation that computes the record to write, "Commit" the SET.       *)
(* Replies arrive in the order of the requests, so the SETs take effect in *)
(* the order of their GETs, and a queue of pending writes is enough.       *)
(***************************************************************************)
EXTENDS Naturals, Sequences, FiniteSets

CONSTANTS
  Runs,               \* run identifiers (run_<uuid>, never reused)
  MaxConcurrent,      \* MAX_CONCURRENT_TASKS
  Backend,            \* TASK_STORE: "memory" or "redis"
  BreakerEnabled,     \* MEMORY_CIRCUIT_BREAKER_ENABLED
  StaleThreshold,     \* RUN_STALE_THRESHOLD_MS, in clock ticks
  Ttl,                \* TASK_RECORD_TTL_SECONDS, in clock ticks
  HeartbeatInterval,  \* HEARTBEAT_INTERVAL_MS, in clock ticks
  MaxLate,            \* how late, in ticks, the event loop may fire a timer
  AgeCap,             \* bound: record ages are not told apart beyond it
  MaxPending,         \* bound: pending store writes when a timer or a reader adds one
  MaxFaults,          \* bound: store requests that Redis rejects
  MaxProcesses        \* bound: processes started one after the other

ASSUME RunsFinite == IsFiniteSet(Runs)
ASSUME MaxConcurrentPositive == MaxConcurrent \in Nat \ {0}
ASSUME BackendKnown == Backend \in {"memory", "redis"}
ASSUME BreakerBoolean == BreakerEnabled \in BOOLEAN
ASSUME TimesAreNaturals ==
  StaleThreshold \in Nat /\ Ttl \in Nat /\ HeartbeatInterval \in Nat \ {0} /\ MaxLate \in Nat
ASSUME AgeCapSuffices == AgeCap \in Nat /\ AgeCap > StaleThreshold
ASSUME BoundsAreNaturals == MaxPending \in Nat /\ MaxFaults \in Nat /\ MaxProcesses \in Nat

VARIABLES
  process,    \* "up", "draining" (a shutdown signal was received) or "down"
  worker,     \* WORKER_ID of the current process, a fresh number per start
  current,    \* the limiter's counter
  phase,      \* what the process is doing for each run
  sampling,   \* runs whose memory sampler interval is set
  sinceBeat,  \* ticks since the run's heartbeat interval last fired
  store,      \* the run records
  pending,    \* Redis: SETs still to take effect, oldest first
  faults      \* store requests rejected so far

vars == <<process, worker, current, phase, sampling, sinceBeat, store, pending, faults>>

Statuses == {"none", "running", "completed", "failed", "stale"}
Phases == {"unused", "creating", "orphaned", "launching", "executing", "toComplete", "completing",
           "toFail", "failing", "cleanup", "rejected", "done", "lost"}

Record == [status : Statuses, worker : Nat, reason : {"none", "run_stale", "worker_lost"}, age : 0..AgeCap]
NoRecord == [status |-> "none", worker |-> 0, reason |-> "none", age |-> 0]

\* The store calls that write, and the memory sampler's own heartbeat call.
Calls == {"createRun", "getRun", "completeRun", "failRun", "heartbeat", "sampleHeartbeat"}
Write == [call : Calls, run : Runs, record : Record]
\* Calls of timers and readers, as against the one call at a time of the run itself.
Background == {"getRun", "heartbeat", "sampleHeartbeat"}

\* Runs that hold a slot of the limiter, among them those an executeTaskAsync call works for,
\* and those whose heartbeat interval is set.
Holding == {"creating", "orphaned", "launching", "executing", "toComplete", "completing",
            "toFail", "failing", "cleanup", "rejected"}
InFlight == Holding \ {"orphaned"}
Beating == {"launching", "executing", "toComplete", "completing", "toFail", "failing"}
Of(phases) == {r \in Runs : phase[r] \in phases}

Init ==
  /\ process = "up" /\ worker = 1 /\ current = 0 /\ faults = 0
  /\ phase = [r \in Runs |-> "unused"]
  /\ sampling = {} /\ pending = <<>>
  /\ sinceBeat = [r \in Runs |-> 0]
  /\ store = [r \in Runs |-> NoRecord]

-----------------------------------------------------------------------------
(* What each store call writes, given the record it read.                  *)

\* A record as it is written: every write sets updatedAt to the present time.
Stamped(status, owner, reason) == [status |-> status, worker |-> owner, reason |-> reason, age |-> 0]

NewRecord == Stamped("running", worker, "none")

\* Mutants of IsStale: off by one; any status.
IsStaleEarly(rec) == rec.status = "running" /\ rec.age >= StaleThreshold
IsStaleAnyStatus(rec) == rec.status # "none" /\ rec.age > StaleThreshold
IsStale(rec) == rec.status = "running" /\ rec.age > StaleThreshold

\* Mutants of applyStaleDetection: the two reasons are swapped; the record stays running.
applyStaleDetectionSwapped(rec) ==
  Stamped("stale", rec.worker, IF rec.worker = worker THEN "worker_lost" ELSE "run_stale")
applyStaleDetectionStillRunning(rec) == Stamped("running", rec.worker, "run_stale")
applyStaleDetection(rec) ==
  Stamped("stale", rec.worker, IF rec.worker = worker THEN "run_stale" ELSE "worker_lost")

\* Mutant of Written: a heartbeat does not refresh updatedAt.
WrittenNoRefresh(call, rec) ==
  CASE call = "createRun" -> NewRecord
    [] call = "getRun" /\ IsStale(rec) -> applyStaleDetection(rec)
    [] call = "completeRun" /\ rec.status # "none" -> Stamped("completed", rec.worker, rec.reason)
    [] call = "failRun" /\ rec.status # "none" -> Stamped("failed", rec.worker, rec.reason)
    [] OTHER -> rec

\* The record a call writes; equal to what it read when the call writes nothing.
Written(call, rec) ==
  CASE call = "createRun" -> NewRecord
    [] call = "getRun" -> IF IsStale(rec) THEN applyStaleDetection(rec) ELSE rec
    [] call = "completeRun" /\ rec.status # "none" -> Stamped("completed", rec.worker, rec.reason)
    [] call = "failRun" /\ rec.status # "none" -> Stamped("failed", rec.worker, rec.reason)
    [] call \in {"heartbeat", "sampleHeartbeat"} /\ rec.status = "running" ->
         Stamped("running", worker, rec.reason)
    [] OTHER -> rec

Writes(call, rec) ==
  \/ call = "createRun"
  \/ call = "getRun" /\ IsStale(rec)
  \/ call \in {"completeRun", "failRun"} /\ rec.status # "none"
  \/ call \in {"heartbeat", "sampleHeartbeat"} /\ rec.status = "running"

Waits(call, r) == Backend = "redis" /\ Writes(call, store[r])

\* A store call from its invocation to the point where its write is sent (or, in memory, to
\* its end); Waits says whether a write is then still to take effect.
Call(call, r) ==
  \/ /\ Backend = "memory"
     /\ store' = [store EXCEPT ![r] = Written(call, store[r])]
     /\ UNCHANGED pending
  \/ /\ Waits(call, r)
     /\ call \in Background => Len(pending) < MaxPending
     /\ pending' = Append(pending, [call |-> call, run |-> r, record |-> Written(call, store[r])])
     /\ UNCHANGED store
  \/ /\ Backend = "redis" /\ ~ Writes(call, store[r])
     /\ UNCHANGED <<store, pending>>

\* The outer finally of executeTaskAsync clears the heartbeat and the sampler.
ClearTimers(r) == sampling' = sampling \ {r} /\ sinceBeat' = [sinceBeat EXCEPT ![r] = 0]

\* Process death: every run the process worked for is lost, with its timers, the limiter and
\* the writes not yet sent.
Die(phases) ==
  /\ process' = "down"
  /\ phase' = [r \in Runs |-> IF phases[r] \in Holding THEN "lost" ELSE phases[r]]
  /\ current' = 0 /\ sampling' = {} /\ pending' = <<>>
  /\ sinceBeat' = [r \in Runs |-> 0]
  /\ UNCHANGED worker

-----------------------------------------------------------------------------
(* server.ts                                                               *)

\* Mutant of HasCapacity: one run too many.
HasCapacityOffByOne == current <= MaxConcurrent
HasCapacity == current < MaxConcurrent

\* The in-memory createRun resolves at once; executeTaskAsync then starts, and with the
\* breaker enabled its first sample and sampler interval are set in the same turn.
CreateTask(r) ==
  /\ process = "up" /\ phase[r] = "unused"
  /\ HasCapacity
  /\ current' = current + 1
  /\ Call("createRun", r)
  /\ IF Backend = "memory"
     THEN /\ phase' = [phase EXCEPT ![r] = "launching"]
          /\ sampling' = IF BreakerEnabled THEN sampling \cup {r} ELSE sampling
          /\ sinceBeat' = [sinceBeat EXCEPT ![r] = 0]
     ELSE /\ phase' = [phase EXCEPT ![r] = "creating"]
          /\ UNCHANGED <<sampling, sinceBeat>>
  /\ UNCHANGED <<process, worker, faults>>

\* GET /v1/tasks/:runId.  The in-memory store first drops a record older than its TTL.
GetTask(r) ==
  /\ process = "up" /\ phase[r] # "unused"
  /\ IF Backend = "memory" /\ store[r].age > Ttl
     THEN /\ store' = [store EXCEPT ![r] = NoRecord]
          /\ UNCHANGED pending
     ELSE Call("getRun", r)
  /\ UNCHANGED <<process, worker, current, phase, sampling, sinceBeat, faults>>

-----------------------------------------------------------------------------
(* runner.ts: executeTaskAsync                                             *)

BrowserLaunched(r) ==
  /\ process # "down" /\ phase[r] = "launching"
  /\ phase' = [phase EXCEPT ![r] = "executing"]
  /\ UNCHANGED <<process, worker, current, sampling, sinceBeat, store, pending, faults>>

\* Mutant of LaunchFails: the failed launch gives the slot back, as Release will again.
LaunchFailsReleasing(r) ==
  /\ process # "down" /\ phase[r] = "launching"
  /\ phase' = [phase EXCEPT ![r] = "toFail"]
  /\ current' = current - 1
  /\ UNCHANGED <<process, worker, sampling, sinceBeat, store, pending, faults>>

\* launchBrowser or newPage throws: the sampler is not cleared before the outer finally.
LaunchFails(r) ==
  /\ process # "down" /\ phase[r] = "launching"
  /\ phase' = [phase EXCEPT ![r] = "toFail"]
  /\ UNCHANGED <<process, worker, current, sampling, sinceBeat, store, pending, faults>>

\* runTask returns or throws; the inner finally clears the sampler either way.
RunTaskEnds(r) ==
  /\ process # "down" /\ phase[r] = "executing"
  /\ \E next \in {"toComplete", "toFail"} : phase' = [phase EXCEPT ![r] = next]
  /\ sampling' = sampling \ {r}
  /\ UNCHANGED <<process, worker, current, sinceBeat, store, pending, faults>>

\* completeRun (or failRun) is called; in memory, and when the record is gone, it resolves
\* at once, and the finally block clears the timers.
Conclude(r, from, call, waiting) ==
  /\ process # "down" /\ phase[r] = from
  /\ Call(call, r)
  /\ IF Waits(call, r)
     THEN phase' = [phase EXCEPT ![r] = waiting] /\ UNCHANGED <<sampling, sinceBeat>>
     ELSE phase' = [phase EXCEPT ![r] = "cleanup"] /\ ClearTimers(r)
  /\ UNCHANGED <<process, worker, current, faults>>

CompleteRun(r) == Conclude(r, "toComplete", "completeRun", "completing")
FailRun(r) == Conclude(r, "toFail", "failRun", "failing")

\* The browser is closed and the promise settles: its finally releases the slot.
Release(r) ==
  /\ process # "down" /\ phase[r] = "cleanup"
  /\ current' = IF current = 0 THEN 0 ELSE current - 1
  /\ phase' = [phase EXCEPT ![r] = "done"]
  /\ UNCHANGED <<process, worker, sampling, sinceBeat, store, pending, faults>>

\* failRun itself was rejected: nobody handles executeTaskAsync's promise.
RejectUnhandled(r) ==
  /\ process # "down" /\ phase[r] = "rejected"
  /\ Die([phase EXCEPT ![r] = "lost"])
  /\ UNCHANGED <<store, faults>>

Heartbeat(r) ==
  /\ process # "down" /\ phase[r] \in Beating
  /\ sinceBeat[r] >= HeartbeatInterval
  /\ sinceBeat' = [sinceBeat EXCEPT ![r] = 0]
  /\ Call("heartbeat", r)
  /\ UNCHANGED <<process, worker, current, phase, sampling, faults>>

SampleMemory(r) ==
  /\ process # "down" /\ r \in sampling
  /\ Call("sampleHeartbeat", r)
  /\ UNCHANGED <<process, worker, current, phase, sampling, sinceBeat, faults>>

-----------------------------------------------------------------------------
(* Redis                                                                   *)

\* What the caller of a store call does once the call resolves.
Resumed(call, r) ==
  \/ /\ call = "createRun"
     /\ phase' = [phase EXCEPT ![r] = "launching"]
     /\ sampling' = IF BreakerEnabled THEN sampling \cup {r} ELSE sampling
     /\ sinceBeat' = [sinceBeat EXCEPT ![r] = 0]
     /\ UNCHANGED <<process, worker, current>>
  \/ /\ call \in {"completeRun", "failRun"}
     /\ phase' = [phase EXCEPT ![r] = "cleanup"]
     /\ ClearTimers(r)
     /\ UNCHANGED <<process, worker, current>>
  \/ /\ call \in Background
     /\ UNCHANGED <<process, worker, current, phase, sampling, sinceBeat>>

\* Mutant of Rejected: no catch around completeRun.
RejectedUncaught(call, r) ==
  /\ call \in {"createRun", "completeRun"}
  /\ phase' = [phase EXCEPT ![r] = "orphaned"]
  /\ UNCHANGED <<process, worker, current, sampling, sinceBeat>>

\* What it does once the call is rejected.  Only the sampler's call has a catch of its own;
\* createRun's caller answers 500 and keeps the slot, getRun's answers 500.
Rejected(call, r) ==
  \/ /\ call = "createRun"
     /\ phase' = [phase EXCEPT ![r] = "orphaned"]
     /\ UNCHANGED <<process, worker, current, sampling, sinceBeat>>
  \/ /\ call = "completeRun"
     /\ phase' = [phase EXCEPT ![r] = "toFail"]
     /\ UNCHANGED <<process, worker, current, sampling, sinceBeat>>
  \/ /\ call = "failRun"
     /\ phase' = [phase EXCEPT ![r] = "rejected"]
     /\ ClearTimers(r)
     /\ UNCHANGED <<process, worker, current>>
  \/ /\ call \in Background
     /\ UNCHANGED <<process, worker, current, phase, sampling, sinceBeat>>

Commit ==
  /\ process # "down" /\ pending # <<>>
  /\ LET w == Head(pending) IN
       /\ store' = [store EXCEPT ![w.run] = w.record]
       /\ pending' = Tail(pending)
       /\ Resumed(w.call, w.run)
  /\ UNCHANGED faults

\* A rejected SET may or may not have reached the server.
CommitRejected ==
  /\ process # "down" /\ pending # <<>> /\ faults < MaxFaults
  /\ faults' = faults + 1
  /\ LET w == Head(pending) IN
       /\ \E reached \in BOOLEAN :
            store' = IF reached THEN [store EXCEPT ![w.run] = w.record] ELSE store
       /\ IF w.call = "heartbeat"
          THEN Die(phase)
          ELSE pending' = Tail(pending) /\ Rejected(w.call, w.run)

\* The GET of a call is rejected before anything is written.
GetRejected(call, r) ==
  /\ Backend = "redis" /\ process # "down" /\ faults < MaxFaults
  /\ \/ call = "completeRun" /\ phase[r] = "toComplete"
     \/ call = "failRun" /\ phase[r] = "toFail"
     \/ call = "heartbeat" /\ phase[r] \in Beating /\ sinceBeat[r] >= HeartbeatInterval
  /\ faults' = faults + 1
  /\ IF call = "heartbeat" THEN Die(phase) ELSE Rejected(call, r) /\ UNCHANGED pending
  /\ UNCHANGED store

-----------------------------------------------------------------------------
(* Time, signals and process death                                         *)

Older(rec) ==
  [status |-> rec.status, worker |-> rec.worker, reason |-> rec.reason,
   age |-> IF rec.status = "none" \/ rec.age = AgeCap THEN rec.age ELSE rec.age + 1]

\* A Redis key disappears once its TTL has passed since the last write.
Expired(rec) == IF Backend = "redis" /\ rec.age > Ttl THEN NoRecord ELSE rec

\* The event loop fires a due timer before it is MaxLate ticks late.
Tick ==
  /\ \A r \in Of(Beating) : sinceBeat[r] < HeartbeatInterval + MaxLate
  /\ store' = [r \in Runs |-> Expired(Older(store[r]))]
  /\ pending' = [i \in DOMAIN pending |->
                   [call |-> pending[i].call, run |-> pending[i].run, record |-> Older(pending[i].record)]]
  /\ sinceBeat' = [r \in Runs |-> IF phase[r] \in Beating THEN sinceBeat[r] + 1 ELSE sinceBeat[r]]
  /\ UNCHANGED <<process, worker, current, phase, sampling, faults>>

\* SIGINT or SIGTERM: no further request is accepted; running tasks are not waited for.
Shutdown ==
  /\ process = "up" /\ worker < MaxProcesses
  /\ process' = "draining"
  /\ UNCHANGED <<worker, current, phase, sampling, sinceBeat, store, pending, faults>>

\* The shutdown's exit, or an out-of-memory kill.
Exit ==
  /\ process # "down" /\ worker < MaxProcesses
  /\ Die(phase)
  /\ UNCHANGED <<store, faults>>

Restart ==
  /\ process = "down"
  /\ process' = "up" /\ worker' = worker + 1
  /\ store' = IF Backend = "memory" THEN [r \in Runs |-> NoRecord] ELSE store
  /\ UNCHANGED <<current, phase, sampling, sinceBeat, pending, faults>>

Next ==
  \/ \E r \in Runs :
       \/ CreateTask(r) \/ GetTask(r) \/ BrowserLaunched(r) \/ LaunchFails(r) \/ RunTaskEnds(r)
       \/ CompleteRun(r) \/ FailRun(r) \/ Release(r) \/ RejectUnhandled(r)
       \/ Heartbeat(r) \/ SampleMemory(r)
       \/ \E call \in {"completeRun", "failRun", "heartbeat"} : GetRejected(call, r)
  \/ Commit \/ CommitRejected
  \/ Tick \/ Shutdown \/ Exit \/ Restart

\* runTask returns because its loop is bounded; timers fire and Redis answers; the platform
\* restarts a dead process; the caller polls its run.
Fairness ==
  /\ \A r \in Runs :
       /\ WF_vars(BrowserLaunched(r) \/ LaunchFails(r)) /\ WF_vars(RunTaskEnds(r))
       /\ WF_vars(CompleteRun(r)) /\ WF_vars(FailRun(r))
       /\ WF_vars(Release(r)) /\ WF_vars(RejectUnhandled(r))
       /\ WF_vars(Heartbeat(r)) /\ WF_vars(GetTask(r))
  /\ WF_vars(Commit) /\ WF_vars(Tick) /\ WF_vars(Restart)

Spec == Init /\ [][Next]_vars
FairSpec == Spec /\ Fairness

-----------------------------------------------------------------------------
(* Properties                                                              *)

\* Every variable keeps its type (the state the service and its store are in).
TypeOK ==
  /\ process \in {"up", "draining", "down"} /\ worker \in Nat
  /\ current \in Nat /\ faults \in Nat
  /\ phase \in [Runs -> Phases] /\ sampling \in SUBSET Runs
  /\ sinceBeat \in [Runs -> Nat]
  /\ store \in [Runs -> Record] /\ pending \in Seq(Write)

\* The limiter's counter is exactly the number of runs that still have to give their slot
\* back: no path through executeTaskAsync, its store failures and process death releases a
\* slot twice or forgets the counter of a new process (server.ts, concurrencyLimiter.ts).
SlotAccounting == current = Cardinality(Of(Holding))

\* A run has at most one store call of its own in progress, the one executeTaskAsync (or
\* handleCreateTask) awaits: only timers and readers are concurrent with it (runner.ts).
Awaits(call) ==
  CASE call = "createRun" -> "creating" [] call = "completeRun" -> "completing" [] call = "failRun" -> "failing"
OneOwnCall ==
  \A i \in DOMAIN pending : pending[i].call \notin Background =>
    /\ phase[pending[i].run] = Awaits(pending[i].call)
    /\ \A j \in DOMAIN pending :
         pending[j].call \notin Background /\ pending[j].run = pending[i].run => i = j

\* Never more browsers in flight than MAX_CONCURRENT_TASKS (concurrencyLimiter.ts).
ConcurrencyBounded == Cardinality(Of(InFlight)) <= MaxConcurrent

\* A record says worker_lost only when the process that ran it is gone: a run that is still
\* executing is never written off as lost with its worker (staleDetection.ts).
WorkerLostMeansOwnerGone ==
  \A r \in Of(InFlight) : store[r].reason # "worker_lost"

\* With heartbeats frequent enough, no reader ever marks a live run stale (staleDetection.ts
\* against the interval of runner.ts).
TimersFitThreshold == HeartbeatInterval + MaxLate <= StaleThreshold
NoFalseStale ==
  TimersFitThreshold => \A r \in Of(Beating) : store[r].status # "stale"

\* A run whose completeRun call returned has its result in the store, when heartbeats are
\* frequent enough to keep the record from going stale and then expiring under the run.
TimersFitTtl == HeartbeatInterval + MaxLate <= Ttl
CompletionRecorded ==
  [][TimersFitThreshold /\ TimersFitTtl =>
       \A r \in Runs : phase[r] = "toComplete" /\ phase'[r] = "cleanup" => store'[r].status = "completed"]_vars

\* A slot taken for a run comes back, or its process dies: no store answer, exception or
\* signal leaves the service at capacity for ever (server.ts 133-144).  A createRun failure is
\* the one exception, and a run of its own shows it.
SlotReturned ==
  \A r \in Runs : phase[r] \in {"launching", "executing", "toComplete", "toFail"} ~> phase[r] \in {"done", "lost"}

\* A run whose process died is not reported as running for ever (docs/architecture.md,
\* "Heartbeat and stale detection"): readers find it stale, or its record expired.
LostRunReported ==
  \A r \in Runs : phase[r] = "lost" /\ store[r].status = "running" ~> store[r].status # "running"

\* The in-memory store implements the abstract run record.
Status == [r \in Runs |-> store[r].status]
Abstract == INSTANCE RunStatus WITH status <- Status
ImplementsRunStatus == Abstract!Spec

-----------------------------------------------------------------------------
(* What the documentation says and the code does not do                    *)

\* redisTaskStore.ts 30-32: the read-then-write updates need not be atomic, as nothing races
\* with the run that owns the record.  Then an outcome, once stored, stays until it expires.
OutcomeIsFinal ==
  [][\A r \in Runs : store[r].status \in {"completed", "failed"} => store'[r].status \in {store[r].status, "none"}]_vars

=============================================================================
