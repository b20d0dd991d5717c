---------------------------- MODULE JourneyMemory ----------------------------
(***************************************************************************)
(* The memory of journeys that runs share through Redis                    *)
(* (src/core/journeyMemory, called by src/core/engine.ts).  A run first    *)
(* looks for records of earlier runs, tier by tier under one deadline; at  *)
(* its end it writes the segments it built back, each with the precedence  *)
(* rules of retention.ts, and evicts what exceeds the cap of its domain.   *)
(* Nothing locks a domain: every Redis command of a run may fall between   *)
(* any two commands of another.                                            *)
(*                                                                         *)
(* A journey is one equivalence key (retention.ts:19): a forward step from *)
(* a page to a page, or the recovery at one anchor.  A record is the       *)
(* segment kept under its id; confidences are counted in fortieths.        *)
(* The keys of the three indexes get a new expiry with every write, after  *)
(* the record itself, so that an index outlives what it names; the expiry  *)
(* of a record is Lapse.                                                   *)
(***************************************************************************)
EXTENDS Integers, FiniteSets, FiniteSetsExt, SequencesExt

CONSTANTS
  Runs,            \* the runs that share the memory
  DomainOf,        \* the registrable domain each of them starts on
  MarketOf,        \* its market, or NoMarket
  NoMarket,
  Readers,         \* runs of a service with JOURNEY_MEMORY_READ_ENABLED
  Writers,         \* runs of a service with JOURNEY_MEMORY_WRITE_ENABLED
  Forward,         \* journeys forward; a run sees each with success or in part
  Recovery,        \* journeys of recovery; recovered or not
  MaxSegments,     \* bound: segments one run builds
  MaxRecords,      \* maxRecordsPerDomain
  Sufficient,      \* SUFFICIENT_STRONG_CANDIDATES
  ScanLimit,       \* GLOBAL_INDEX_SCAN_LIMIT
  FailureThreshold,\* MULTI_FAILURE_DECAY_THRESHOLD
  MaxBuilt,        \* bound: segments all runs build
  MaxMishaps       \* bound: rejected commands, processes that die, records that expire

ASSUME RunsFinite == IsFiniteSet(Runs) /\ Readers \subseteq Runs /\ Writers \subseteq Runs
ASSUME KindsDisjoint == Forward \cap Recovery = {}
ASSUME LimitsAreNaturals ==
  /\ {MaxSegments, MaxRecords, ScanLimit, MaxBuilt, MaxMishaps} \subseteq Nat
  /\ {Sufficient, FailureThreshold} \subseteq Nat \ {0}

Ids == Runs \X (1..MaxSegments)
Domain(id) == DomainOf[id[1]]

\* Confidences, in fortieths.
Fresh         == 28     \* 0.7, below which a record counts as decayed
Strong        == 24     \* 0.6
MinConfidence == 2      \* 0.05
Decay         == 6      \* 0.15
Restore       == 12     \* 0.3

Journeys == Forward \cup Recovery
Segment  == [journey : Forward, outcome : {"success", "partial"}] \cup
            [journey : Recovery, outcome : {"success", "failure"}]
Initial(segment) ==
  CASE segment.outcome = "partial" -> 20
    [] segment.outcome = "failure" -> 12
    [] segment.outcome = "success" /\ segment.journey \in Forward -> 36
    [] OTHER -> Fresh

Record   == [journey : Journeys, outcome : {"success", "partial", "failure"}, confidence : MinConfidence..40]
NoRecord == [journey |-> "none", outcome |-> "none", confidence |-> 0]
NewRecord(segment) == [journey |-> segment.journey, outcome |-> segment.outcome, confidence |-> Initial(segment)]

VARIABLES
  store,      \* the record under each id
  members,    \* the domain indexes (together), the market indexes and the global index
  pc,         \* where the run stands
  asked,      \* SMEMBERS has been answered
  unread,     \* ids it still has to GET
  copy,       \* what it has read: the records of the tier or of its domain
  found,      \* candidates of the lookup so far
  trail,      \* the segments it built
  next,       \* the next of them to apply
  work,       \* the commands of the current one still to be sent
  built, mishaps,
  stable,     \* history: records of the domain that were there during the whole lookup
  failures,   \* history: the failures ever written, by id and journey
  proved,     \* history: journeys whose success was written
  excused,    \* history: journeys that lost a success to expiry, eviction or a fault
  alone       \* history: no other run wrote back to the domain meanwhile

local == <<pc, asked, unread, copy, found, trail, next, work>>
redis == <<store, members>>
ghost == <<stable, failures, proved, excused, alone>>
vars  == <<redis, local, built, mishaps, ghost>>

Tiers     == {"tier1", "tier3", "tier4"}
Writeback == {"list", "apply", "evict"}
Nothing   == [id \in Ids |-> NoRecord]

Live(records)  == {id \in Ids : records[id] # NoRecord}
Listed(domain) == {id \in members["domain"] : Domain(id) = domain /\ store[id] # NoRecord}

Init ==
  /\ store = Nothing
  /\ members = [k \in {"domain", "market", "global"} |-> {}]
  /\ pc = [r \in Runs |-> "start"]
  /\ asked = [r \in Runs |-> FALSE] /\ unread = [r \in Runs |-> {}]
  /\ copy = [r \in Runs |-> Nothing]
  /\ found = [r \in Runs |-> {}]
  /\ trail = [r \in Runs |-> <<>>]
  /\ next = [r \in Runs |-> 1]
  /\ work = [r \in Runs |-> <<>>]
  /\ built = 0 /\ mishaps = 0
  /\ stable = [r \in Runs |-> {}]
  /\ alone = [r \in Runs |-> FALSE]
  /\ failures = {} /\ proved = {} /\ excused = {}

\* The first ScanLimit members of a set, in an order of Redis's own.
Scans(ids) == {scan \in SUBSET ids : Cardinality(scan) = IF Cardinality(ids) < ScanLimit THEN Cardinality(ids) ELSE ScanLimit}

\* History: the records that have been there since the lookup began.
StaysThrough == [q \in Runs |-> stable[q] \cap Listed(DomainOf[q])']

\* The run is done with the memory.
Leave(r, p) ==
  /\ pc' = [pc EXCEPT ![r] = p]
  /\ asked' = [asked EXCEPT ![r] = FALSE]
  /\ unread' = [unread EXCEPT ![r] = {}]
  /\ copy' = [copy EXCEPT ![r] = Nothing]
  /\ found' = [found EXCEPT ![r] = {}]
  /\ trail' = [trail EXCEPT ![r] = <<>>]
  /\ next' = [next EXCEPT ![r] = 1]
  /\ work' = [work EXCEPT ![r] = <<>>]
  /\ stable' = [StaysThrough EXCEPT ![r] = {}]
  /\ alone' = [alone EXCEPT ![r] = FALSE]

------------------------------------------------------------------------------
(* The lookup before the first step of a run.                              *)

\* What SMEMBERS of the index of a tier may answer; the market and global scans take the first
\* ScanLimit members, and the order of a set is Redis's own.
Members(r) ==
  CASE pc[r] \in {"tier1", "list"} -> {{id \in members["domain"] : Domain(id) = DomainOf[r]}}
    [] pc[r] = "tier3" -> Scans({id \in members["market"] : MarketOf[id[1]] = MarketOf[r]})
    [] pc[r] = "tier4" -> Scans(members["global"])

\* Tier 2 is part of the domain read as tier 1; without a market tier 3 reads nothing.
BeginLookup(r) ==
  /\ pc[r] = "start"
  /\ pc' = [pc EXCEPT ![r] = IF r \in Readers THEN "tier1" ELSE "navigate"]
  /\ stable' = [stable EXCEPT ![r] = IF r \in Readers THEN Listed(DomainOf[r]) ELSE {}]
  /\ UNCHANGED <<redis, asked, unread, copy, found, trail, next, work, built, mishaps, failures, proved, excused, alone>>

Smembers(r) ==
  /\ pc[r] \in Tiers \cup {"list"} /\ ~asked[r]
  /\ asked' = [asked EXCEPT ![r] = TRUE]
  /\ \E ids \in Members(r) : unread' = [unread EXCEPT ![r] = ids]
  /\ UNCHANGED <<redis, pc, copy, found, trail, next, work, built, mishaps, ghost>>

Get(r) ==
  /\ \E id \in unread[r] :
       /\ unread' = [unread EXCEPT ![r] = @ \ {id}]
       /\ copy' = [copy EXCEPT ![r][id] = store[id]]
  /\ UNCHANGED <<redis, pc, asked, found, trail, next, work, built, mishaps, ghost>>

IsStrong(r) == Cardinality({id \in Live(copy[r]) : copy[r][id].confidence >= Strong}) >= Sufficient

TierRead(r) ==
  /\ pc[r] \in Tiers /\ asked[r] /\ unread[r] = {}
  /\ found' = [found EXCEPT ![r] = @ \cup Live(copy[r])]
  /\ copy' = [copy EXCEPT ![r] = Nothing]
  /\ asked' = [asked EXCEPT ![r] = FALSE]
  /\ unread' = [unread EXCEPT ![r] = {}]
  /\ pc' = [pc EXCEPT ![r] = CASE pc[r] = "tier1" /\ ~IsStrong(r) /\ MarketOf[r] # NoMarket -> "tier3"
                               [] pc[r] = "tier1" /\ ~IsStrong(r) /\ MarketOf[r] = NoMarket -> "tier4"
                               [] pc[r] = "tier3" -> "tier4"
                               [] OTHER -> "found"]
  /\ UNCHANGED <<redis, trail, next, work, built, mishaps, ghost>>

\* Mutant of LookupTimeout: the break forgets to note the timeout.
LookupTimeoutUnnoted(r) ==
  /\ pc[r] \in Tiers
  /\ pc' = [pc EXCEPT ![r] = "found"]
  /\ asked' = [asked EXCEPT ![r] = FALSE]
  /\ unread' = [unread EXCEPT ![r] = {}]
  /\ copy' = [copy EXCEPT ![r] = Nothing]
  /\ UNCHANGED <<redis, found, trail, next, work, built, mishaps, ghost>>

\* The timer of withTimeout, or no time left at the top of the loop: what the current tier has
\* read is dropped, what the earlier ones found is kept.
LookupTimeout(r) ==
  /\ pc[r] \in Tiers
  /\ pc' = [pc EXCEPT ![r] = "timeout"]
  /\ asked' = [asked EXCEPT ![r] = FALSE]
  /\ unread' = [unread EXCEPT ![r] = {}]
  /\ copy' = [copy EXCEPT ![r] = Nothing]
  /\ UNCHANGED <<redis, found, trail, next, work, built, mishaps, ghost>>

\* withTimeout only guards against time: a rejected command rejects the lookup, and runTask with it.
LookupRejected(r) ==
  /\ pc[r] \in Tiers /\ mishaps < MaxMishaps
  /\ mishaps' = mishaps + 1
  /\ UNCHANGED <<redis, built, failures, proved, excused>>
  /\ Leave(r, "failed")

------------------------------------------------------------------------------
(* The write-back after the last step.                                     *)

\* Forward segments come before recovery segments (combineSegments).
Trails == {t \in BoundedSeq(Segment, MaxSegments) :
             \A i, j \in DOMAIN t : i < j /\ t[j].journey \in Forward => t[i].journey \in Forward}

Navigated(r) ==
  /\ pc[r] \in {"navigate", "found", "timeout"}
  /\ UNCHANGED <<redis, mishaps, failures, proved, excused>>
  /\ \/ Leave(r, "ended") /\ UNCHANGED built
        \* nothing to write, or a service that does not write
     \/ /\ r \in Writers
        /\ \E t \in Trails \ {<<>>} : 
             /\ built + Len(t) <= MaxBuilt
             /\ built' = built + Len(t)
             /\ trail' = [trail EXCEPT ![r] = t]
        /\ pc' = [pc EXCEPT ![r] = "list"]
        /\ found' = [found EXCEPT ![r] = {}]
        /\ stable' = [stable EXCEPT ![r] = {}]
        /\ LET others == {q \in Runs \ {r} : DomainOf[q] = DomainOf[r] /\ pc[q] \in Writeback}
           IN  alone' = [q \in Runs |-> IF q = r THEN others = {} ELSE alone[q] /\ q \notin others]
        /\ UNCHANGED <<asked, unread, copy, next, work>>

\* The commands of deleteRecord and writeRecord.  The market index is not cleaned.
DeleteRecord(id) ==
  <<[cmd |-> "DEL", key |-> "record", id |-> id, record |-> NoRecord],
    [cmd |-> "SREM", key |-> "domain", id |-> id, record |-> NoRecord],
    [cmd |-> "SREM", key |-> "global", id |-> id, record |-> NoRecord]>>
WriteRecord(id, record) ==
  <<[cmd |-> "SET", key |-> "record", id |-> id, record |-> record],
    [cmd |-> "SADD", key |-> "domain", id |-> id, record |-> record]>> \o
  (IF MarketOf[id[1]] = NoMarket THEN <<>> ELSE <<[cmd |-> "SADD", key |-> "market", id |-> id, record |-> record]>>) \o
  <<[cmd |-> "SADD", key |-> "global", id |-> id, record |-> record]>>

\* applyOutcomePrecedence: what an incoming segment does to the records of the same journey.
\* Doubles: 0.7 lowered, raised and lowered again comes to just below 0.7, and stays below where integers
\* would come back to it; lowered twice and raised it is exactly 0.7 again.  No other comparison is near.
Rounded(c) == IF c = Fresh THEN c - 1 ELSE c
IsDecayed(record) == record.confidence < Fresh
Equivalent(records, segment) == {id \in Live(records) : records[id].journey = segment.journey}

\* Mutant of Superseded: any newer record replaces an older success.
SupersededByAny(records, segment) ==
  {id \in Equivalent(records, segment) : records[id].outcome = "success" /\ ~IsDecayed(records[id])}

\* Successes that a newer success replaces.
Superseded(records, segment) ==
  {id \in Equivalent(records, segment) :
     segment.outcome = "success" /\ records[id].outcome = "success" /\ ~IsDecayed(records[id])}

\* Records of whatever outcome that a newer success raises.
Restored(records, segment) ==
  {id \in Equivalent(records, segment) : segment.outcome = "success" /\ IsDecayed(records[id])}

\* Mutant of Failing: off by one.
FailingEarly(records, segment) ==
  /\ segment.outcome = "failure"
  /\ Cardinality({id \in Equivalent(records, segment) : records[id].outcome = "failure"}) + 2 >= FailureThreshold

\* The incoming failure completes a group.
Failing(records, segment) ==
  /\ segment.outcome = "failure"
  /\ Cardinality({id \in Equivalent(records, segment) : records[id].outcome = "failure"}) + 1 >= FailureThreshold

\* Successes that such a group lowers.
Decayed(records, segment) ==
  {id \in Equivalent(records, segment) : Failing(records, segment) /\ records[id].outcome = "success"}

\* A record with the confidence the segment leaves it.
Rated(record, segment) ==
  [record EXCEPT !.confidence = IF segment.outcome = "success" THEN Min({40, @ + Restore})
                                                               ELSE Rounded(Max({MinConfidence, @ - Decay}))]

\* The id of the next segment of r: no other segment has it.
NextId(r) == <<r, next[r]>>

\* The next segment: its deletions, then itself, then the records whose confidence it changes,
\* one awaited command after another.
ApplySegment(r) ==
  /\ \/ pc[r] = "list" /\ asked[r] /\ unread[r] = {}
     \/ pc[r] = "apply" /\ work[r] = <<>> /\ next[r] <= Len(trail[r])
  /\ pc' = [pc EXCEPT ![r] = "apply"]
  /\ LET segment  == trail[r][next[r]]
         toDelete == Superseded(copy[r], segment)
         changed  == Restored(copy[r], segment) \cup Decayed(copy[r], segment)
         after    == [id \in Ids |-> CASE id = NextId(r)   -> NewRecord(segment)
                                        [] id \in toDelete -> NoRecord
                                        [] id \in changed  -> Rated(copy[r][id], segment)
                                        [] OTHER           -> copy[r][id]]
     IN  /\ \E d \in SetToSeqs(toDelete), w \in SetToSeqs(changed) :
              work' = [work EXCEPT ![r] =
                FlattenSeq([i \in DOMAIN d |-> DeleteRecord(d[i])]) \o
                WriteRecord(NextId(r), NewRecord(segment)) \o
                FlattenSeq([i \in DOMAIN w |-> WriteRecord(w[i], after[w[i]])])]
         /\ copy' = [copy EXCEPT ![r] = after]
  /\ next' = [next EXCEPT ![r] = @ + 1]
  /\ UNCHANGED <<redis, asked, unread, found, trail, built, mishaps, ghost>>

\* Mutant of Evictions: one too few.
EvictionsOneFewer(records) ==
  {out \in SUBSET Live(records) :
     /\ Cardinality(out) = Max({0, Cardinality(Live(records)) - MaxRecords - 1})
     /\ \A e \in out, k \in Live(records) \ out : records[e].confidence <= records[k].confidence}

\* selectRecordsToEvict: the least confident; among equals the oldest, which times are left open here.
Evictions(records) ==
  {out \in SUBSET Live(records) :
     /\ Cardinality(out) = Max({0, Cardinality(Live(records)) - MaxRecords})
     /\ \A e \in out, k \in Live(records) \ out : records[e].confidence <= records[k].confidence}

Evict(r) ==
  /\ pc[r] = "apply" /\ work[r] = <<>> /\ next[r] > Len(trail[r])
  /\ pc' = [pc EXCEPT ![r] = "evict"]
  /\ \E out \in Evictions(copy[r]) : \E o \in SetToSeqs(out) :
       work' = [work EXCEPT ![r] = FlattenSeq([i \in DOMAIN o |-> DeleteRecord(o[i])])]
  /\ UNCHANGED <<redis, asked, unread, copy, found, trail, next, built, mishaps, ghost>>

\* The effect of one command in Redis.
Effect(c) ==
  /\ store' = IF c.cmd \in {"DEL", "SET"} THEN [store EXCEPT ![c.id] = c.record] ELSE store
  /\ members' = CASE c.cmd = "SADD" -> [members EXCEPT ![c.key] = @ \cup {c.id}]
                  [] c.cmd = "SREM" -> [members EXCEPT ![c.key] = @ \ {c.id}]
                  [] OTHER -> members
  /\ failures' = failures \cup {<<c.id, j>> : j \in {k \in Recovery : c.cmd = "SET" /\ c.record.outcome = "failure" /\ c.record.journey = k}}
  /\ proved' = proved \cup {j \in Journeys : c.cmd = "SET" /\ c.record.outcome = "success" /\ c.record.journey = j}

\* History: the journey that loses a success to the eviction of r.
Evicted(r) ==
  {j \in Journeys : /\ pc[r] = "evict" /\ work[r] # <<>> /\ Head(work[r]).cmd = "DEL"
                    /\ store[Head(work[r]).id].journey = j /\ store[Head(work[r]).id].outcome = "success"}

Command(r) ==
  /\ work[r] # <<>>
  /\ Effect(Head(work[r]))
  /\ work' = [work EXCEPT ![r] = Tail(@)]
  /\ stable' = StaysThrough
  /\ excused' = excused \cup Evicted(r)
  /\ UNCHANGED <<pc, asked, unread, copy, found, trail, next, built, mishaps, alone>>

Finish(r) ==
  /\ pc[r] = "evict" /\ work[r] = <<>>
  /\ UNCHANGED <<redis, built, mishaps, failures, proved, excused>>
  /\ Leave(r, "ended")

\* A rejected command ends the write-back and is swallowed; a process that dies takes the run along.
\* The command that was sent may still have its effect.
WriteBackStops(r) ==
  /\ pc[r] \in Writeback /\ mishaps < MaxMishaps
  /\ mishaps' = mishaps + 1
  /\ \/ UNCHANGED <<redis, failures, proved>>
     \/ work[r] # <<>> /\ Effect(Head(work[r]))
  /\ \E p \in {"ended", "failed"} : Leave(r, p)
  /\ excused' = excused \cup Evicted(r) \cup
       {j \in Journeys : pc[r] = "apply" /\ work[r] # <<>> /\ j = trail[r][next[r] - 1].journey}
  /\ UNCHANGED built

\* The record of a run that has ended outlives its retention.
Lapse(id) ==
  /\ store[id] # NoRecord /\ pc[id[1]] = "ended" /\ mishaps < MaxMishaps
  /\ mishaps' = mishaps + 1
  /\ store' = [store EXCEPT ![id] = NoRecord]
  /\ excused' = excused \cup {j \in Journeys : store[id].journey = j /\ store[id].outcome = "success"}
  /\ UNCHANGED <<members, local, built, failures, proved, alone>>
  /\ stable' = StaysThrough

AllOver == (\A r \in Runs : pc[r] \in {"ended", "failed"}) /\ UNCHANGED vars

Next ==
  \/ \E r \in Runs :
       \/ BeginLookup(r) \/ Smembers(r) \/ Get(r) \/ TierRead(r) \/ LookupTimeout(r) \/ LookupRejected(r)
       \/ Navigated(r) \/ ApplySegment(r) \/ Evict(r) \/ Command(r) \/ Finish(r)
       \/ WriteBackStops(r)
  \/ \E id \in Ids : Lapse(id)
  \/ AllOver

Spec == Init /\ [][Next]_vars

------------------------------------------------------------------------------

\* Once a run has recorded that a journey was verified, however the write-backs of other runs
\* interleave, there is a listed record of a success for that journey, or a run is about to list
\* one; unless expiry, eviction or a broken-off write-back took one (retention.ts:58-65).
EvidenceKept ==
  \A j \in proved \ excused :
    \/ \E id \in members["domain"] : store[id].journey = j /\ store[id].outcome = "success"
    \/ \E r \in Runs : \E i \in DOMAIN work[r] :
         /\ work[r][i].cmd = "SADD" /\ work[r][i].key = "domain"
         /\ work[r][i].record.journey = j /\ work[r][i].record.outcome = "success"

\* A success only loses confidence once FailureThreshold comparable failures were recorded, also
\* when stale copies are written back (retention.ts:4-8).
DecayJustified ==
  \A id \in Live(store) :
    store[id].outcome = "success" /\ store[id].confidence < Initial(store[id]) =>
      Cardinality({f \in failures : Domain(f[1]) = Domain(id) /\ f[2] = store[id].journey}) >= FailureThreshold

\* A write-back that had its domain to itself leaves no more listed records than the cap, whatever
\* earlier write-backs left behind (service.ts:196-199).
CapRestored ==
  [][\A r \in Runs : pc[r] = "evict" /\ pc'[r] = "ended" /\ alone[r] /\ work[r] = <<>> =>
       Cardinality(Listed(DomainOf[r])') <= MaxRecords]_vars

\* A lookup that reports lookupCompleted has found every record of its own domain that was listed from its
\* beginning to its end, whatever tier it stopped at (service.ts:78-133).
LookupComplete == \A r \in Runs : pc[r] = "found" => stable[r] \subseteq found[r]
=============================================================================
