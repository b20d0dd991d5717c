------------------------- MODULE JourneyMemoryProofs -------------------------
(***************************************************************************)
(* Proofs about the journey memory that runs share: what a lookup finds,   *)
(* what the precedence rules keep, what eviction leaves, however the Redis *)
(* commands of any number of runs interleave.                              *)
(***************************************************************************)
EXTENDS JourneyMemory, FiniteSetTheorems, SequenceTheorems, WellFoundedInduction, TLAPS

-----------------------------------------------------------------------------
(* Sequences laid end to end.                                              *)

\* A set of naturals closed under successor holds them all.
LEMMA NaturalsByInduction ==
  ASSUME NEW S, 0 \in S, \A n \in Nat : n \in S => n + 1 \in S
  PROVE  Nat \subseteq S
<1> SUFFICES ASSUME Nat \ S # {} PROVE FALSE
  OBVIOUS
<1>1. PICK n \in Nat \ S : \A m \in Nat \ S : ~(<<m, n>> \in OpToRel(<, Nat))
  BY NatLessThanWellFounded, WFMin, Zenon
<1>2. \A m \in Nat \ S : ~(m < n)
  BY <1>1, Zenon DEF OpToRel
<1>3. n \in Nat /\ n \notin S /\ n # 0
  BY <1>1
<1> DEFINE m == n - 1
<1>4. m \in Nat /\ m < n /\ m + 1 = n
  BY <1>3
<1> HIDE DEF m
<1>5. m \in S
  BY <1>2, <1>4
<1>6. m + 1 \in S
  BY <1>4, <1>5
<1> QED
  BY <1>3, <1>4, <1>6

\* f lays the first n of the sequences ss end to end, up to each of them.
LaysOut(f, ss, n) ==
  /\ DOMAIN f = 1..n
  /\ \A i \in 1..n : f[i] = IF i = 1 THEN ss[i] ELSE f[i - 1] \o ss[i]

\* Every sequence of sequences has a layout of its first n parts.
LEMMA LayoutExists ==
  ASSUME NEW ss, NEW n \in Nat
  PROVE  \E f : LaysOut(f, ss, n)
<1> DEFINE N == {k \in Nat : \E f : LaysOut(f, ss, k)}
<1>1. 0 \in N
  <2> DEFINE f == [i \in 1..0 |-> ss[i]]
  <2>1. LaysOut(f, ss, 0)
    BY DEF LaysOut
  <2> HIDE DEF f
  <2> QED
    BY <2>1
<1>2. ASSUME NEW k \in Nat, k \in N
      PROVE  k + 1 \in N
  <2>1. PICK f : LaysOut(f, ss, k)
    BY <1>2
  <2> DEFINE g == [i \in 1..k + 1 |-> IF i <= k THEN f[i] ELSE IF i = 1 THEN ss[i] ELSE f[i - 1] \o ss[i]]
  <2>2. \A i \in 1..k : g[i] = f[i]
    OBVIOUS
  <2>3. ASSUME NEW i \in 1..k + 1
        PROVE  g[i] = IF i = 1 THEN ss[i] ELSE g[i - 1] \o ss[i]
    <3>1. CASE i <= k
      <4>1. i \in 1..k /\ (i # 1 => i - 1 \in 1..k)
        BY <3>1
      <4>2. f[i] = IF i = 1 THEN ss[i] ELSE f[i - 1] \o ss[i]
        BY <2>1, <4>1 DEF LaysOut
      <4> HIDE DEF g
      <4> QED
        BY <2>2, <4>1, <4>2
    <3>2. CASE ~(i <= k)
      <4>1. i # 1 => g[i - 1] = f[i - 1]
        BY <2>2, <2>3, <3>2
      <4>2. g[i] = IF i = 1 THEN ss[i] ELSE f[i - 1] \o ss[i]
        BY <3>2
      <4> QED
        BY <4>1, <4>2
    <3> QED
      BY <3>1, <3>2
  <2>4. LaysOut(g, ss, k + 1)
    <3>1. DOMAIN g = 1..k + 1
      OBVIOUS
    <3> HIDE DEF g
    <3> QED
      BY <2>3, <3>1, Zenon DEF LaysOut
  <2> HIDE DEF g
  <2> QED
    BY <2>4
<1> HIDE DEF N
<1>3. n \in N
  BY <1>1, <1>2, NaturalsByInduction
<1> QED
  BY <1>3 DEF N

\* The flattening of the community modules is the last of such a layout.
LEMMA FlattenLaysOut ==
  ASSUME NEW ss, NEW n \in Nat, Len(ss) = n, n # 0
  PROVE  \E f : LaysOut(f, ss, n) /\ FlattenSeq(ss) = f[n]
<1> DEFINE body(f) == [i \in 1..n |-> IF i = 1 THEN ss[i] ELSE f[i - 1] \o ss[i]]
           flat == CHOOSE f : f = body(f)
<1>1. FlattenSeq(ss) = flat[n]
  BY Zenon DEF FlattenSeq
<1>2. PICK f : LaysOut(f, ss, n)
  BY LayoutExists
<1> DEFINE g == [i \in 1..n |-> f[i]]
<1>3. \A i \in 1..n : g[i] = IF i = 1 THEN ss[i] ELSE g[i - 1] \o ss[i]
  BY <1>2 DEF LaysOut
<1>4. g = body(g)
  <2>1. DOMAIN g = 1..n /\ g = [i \in DOMAIN g |-> g[i]]
    OBVIOUS
  <2> HIDE DEF g
  <2> QED
    BY <1>3, <2>1
<1> HIDE DEF g
<1>5. flat = body(flat)
  BY <1>4, Zenon
<1> HIDE DEF flat
<1>6. LaysOut(flat, ss, n)
  BY <1>5 DEF LaysOut
<1> QED
  BY <1>1, <1>6

\* What concatenation preserves, flattening preserves.
LEMMA FlattenStays ==
  ASSUME NEW S, << >> \in S, \A s, t \in S : s \o t \in S, NEW n \in Nat, NEW ss \in [1..n -> S]
  PROVE  FlattenSeq(ss) \in S
<1>1. Len(ss) = n
  OBVIOUS
<1>2. CASE n = 0
  <2>1. ss = << >>
    BY <1>2
  <2> QED
    BY <1>1, <1>2, <2>1 DEF FlattenSeq
<1>3. CASE n # 0
  <2>1. PICK f : LaysOut(f, ss, n) /\ FlattenSeq(ss) = f[n]
    BY <1>1, <1>3, FlattenLaysOut
  <2> DEFINE N == {k \in Nat : k \in 1..n => f[k] \in S}
  <2>2. 0 \in N
    OBVIOUS
  <2>3. ASSUME NEW k \in Nat, k \in N
        PROVE  k + 1 \in N
    <3> SUFFICES ASSUME k + 1 \in 1..n PROVE f[k + 1] \in S
      OBVIOUS
    <3>1. f[k + 1] = IF k + 1 = 1 THEN ss[k + 1] ELSE f[(k + 1) - 1] \o ss[k + 1]
      BY <1>1, <2>1 DEF LaysOut
    <3>2. ss[k + 1] \in S /\ (k + 1) - 1 = k
      OBVIOUS
    <3>3. CASE k = 0
      BY <3>1, <3>2, <3>3
    <3>4. CASE k # 0
      <4>1. f[k] \in S
        BY <2>3, <3>4
      <4> QED
        BY <3>1, <3>2, <3>4, <4>1
    <3> QED
      BY <3>3, <3>4
  <2>4. n \in N
    <3> HIDE DEF N
    <3>1. Nat \subseteq N
      BY <2>2, <2>3, NaturalsByInduction
    <3> QED
      BY <3>1
  <2> QED
    BY <1>3, <2>1, <2>4
<1> QED
  BY <1>2, <1>3

-----------------------------------------------------------------------------
(* Types, and where a run stands.                                          *)

Places  == {"start", "navigate", "found", "timeout", "ended", "failed"} \cup Tiers \cup Writeback
Entry   == {record \in Record : record.outcome = "failure" => record.journey \in Recovery} \cup {NoRecord}
Keys    == {"domain", "market", "global"}
CommandType == [cmd : {"DEL", "SREM"}, key : {"record"} \cup Keys, id : Ids, record : {NoRecord}] \cup
               [cmd : {"SET", "SADD"}, key : {"record"} \cup Keys, id : Ids, record : Entry \ {NoRecord}]

RedisTyped == store \in [Ids -> Entry] /\ members \in [Keys -> SUBSET Ids]
LocalTyped ==
  /\ pc \in [Runs -> Places] /\ asked \in [Runs -> BOOLEAN] /\ unread \in [Runs -> SUBSET Ids]
  /\ copy \in [Runs -> [Ids -> Entry]] /\ found \in [Runs -> SUBSET Ids]
  /\ trail \in [Runs -> Seq(Segment)] /\ next \in [Runs -> Nat] /\ work \in [Runs -> Seq(CommandType)]
GhostTyped ==
  /\ stable \in [Runs -> SUBSET Ids] /\ alone \in [Runs -> BOOLEAN]
  /\ failures \subseteq Ids \X Recovery /\ proved \subseteq Journeys
Typed == RedisTyped /\ LocalTyped /\ GhostTyped

\* A run reads only in a tier or a list, and has commands to send only in the two parts of the write-back.
Placed(r) ==
  /\ ~asked[r] => unread[r] = {} /\ copy[r] = Nothing
  /\ pc[r] \notin Tiers \cup Writeback => ~asked[r]
  /\ pc[r] \in {"apply", "evict"} => asked[r] /\ unread[r] = {}
  /\ pc[r] \notin {"apply", "evict"} => work[r] = << >>
  /\ pc[r] \notin {"apply", "evict"} => next[r] = 1
  /\ pc[r] \in Writeback => Len(trail[r]) \in 1..MaxSegments
  /\ pc[r] \in {"apply", "evict"} => next[r] \in 2..Len(trail[r]) + 1
AllPlaced == \A r \in Runs : Placed(r)

\* What the assumptions on the parameters say, in the form the proofs use.
LEMMA Parameters ==
  /\ IsFiniteSet(Runs) /\ MaxSegments \in Nat /\ MaxRecords \in Nat /\ FailureThreshold \in Nat
  /\ FailureThreshold # 0 /\ NoRecord \notin Record /\ NoRecord \in Entry
  BY RunsFinite, LimitsAreNaturals DEF NoRecord, Record, MinConfidence, Entry

\* The ids, and every set of them, are finite.
LEMMA IdsAreFinite ==
  /\ IsFiniteSet(Ids)
  /\ \A S \in SUBSET Ids : IsFiniteSet(S) /\ Cardinality(S) \in Nat
<1>1. IsFiniteSet(1..MaxSegments)
  BY Parameters, FS_Interval
<1>2. IsFiniteSet(Ids)
  BY <1>1, Parameters, FS_Product DEF Ids
<1> QED
  BY <1>2, FS_Subset, FS_CardinalityType

\* What is live in a copy or in the store is an id.
LEMMA LiveIds == \A records : Live(records) \subseteq Ids
  BY DEF Live

\* A run that leaves keeps nothing.
LEMMA LeavingIsTyped ==
  ASSUME Typed, NEW r \in Runs, NEW p \in {"ended", "failed"}, Leave(r, p),
         failures' \subseteq Ids \X Recovery, proved' \subseteq Journeys
  PROVE  LocalTyped' /\ GhostTyped'
<1>1. LocalTyped'
  <2>1. Nothing \in [Ids -> Entry] /\ << >> \in Seq(Segment) /\ << >> \in Seq(CommandType) /\ p \in Places
    BY Parameters DEF Nothing, Places
  <2> QED
    BY <2>1 DEF Leave, Typed, LocalTyped
<1>2. StaysThrough \in [Runs -> SUBSET Ids]
  BY DEF StaysThrough, Typed, GhostTyped
<1>3. stable' \in [Runs -> SUBSET Ids]
  BY <1>2 DEF Leave
<1> QED
  BY <1>1, <1>3 DEF Leave, Typed, GhostTyped

\* A run that leaves is where a run that is done should be.
LEMMA LeavingIsPlaced ==
  ASSUME Typed, AllPlaced, NEW r \in Runs, NEW p \in {"ended", "failed"}, Leave(r, p)
  PROVE  AllPlaced'
<1>1. ASSUME NEW q \in Runs PROVE Placed(q)'
  <2>1. CASE q = r
    BY <2>1 DEF Leave, Placed, Typed, LocalTyped, Tiers, Writeback, Nothing
  <2>2. CASE q # r
    BY <2>2 DEF Leave, Placed, AllPlaced, Typed, LocalTyped, Nothing
  <2> QED
    BY <2>1, <2>2
<1> QED
  BY <1>1 DEF AllPlaced

\* The history of a lookup.
LEMMA StaysIsTyped ==
  ASSUME Typed PROVE StaysThrough \in [Runs -> SUBSET Ids]
  BY DEF StaysThrough, Typed, GhostTyped

\* What SMEMBERS answers are ids.
LEMMA MembersAreIds ==
  ASSUME Typed, NEW r \in Runs, pc[r] \in Tiers \cup {"list"}, NEW ids \in Members(r)
  PROVE  ids \subseteq Ids
  BY DEF Members, Scans, Typed, RedisTyped, Keys, Tiers

\* The steps of a lookup.
LEMMA LookupIsTyped ==
  ASSUME Typed, AllPlaced, NEW r \in Runs,
         BeginLookup(r) \/ Smembers(r) \/ Get(r) \/ TierRead(r) \/ LookupTimeout(r) \/ LookupRejected(r)
  PROVE  Typed' /\ AllPlaced'
<1>1. CASE BeginLookup(r)
  <2>1. Typed'
    BY <1>1 DEF BeginLookup, redis, Typed, RedisTyped, LocalTyped, GhostTyped, Places, Tiers, Listed, Keys
  <2>2. AllPlaced'
    BY <1>1 DEF BeginLookup, AllPlaced, Placed, Typed, LocalTyped, Tiers, Writeback, Nothing
  <2> QED
    BY <2>1, <2>2
<1>2. CASE Smembers(r)
  <2>1. PICK ids \in Members(r) : unread' = [unread EXCEPT ![r] = ids]
    BY <1>2 DEF Smembers
  <2>2. ids \subseteq Ids
    BY <1>2, <2>1, MembersAreIds DEF Smembers
  <2>3. Typed'
    BY <1>2, <2>1, <2>2 DEF Smembers, redis, ghost, Typed, RedisTyped, LocalTyped, GhostTyped
  <2>4. AllPlaced'
    BY <1>2, <2>1 DEF Smembers, AllPlaced, Placed, Typed, LocalTyped, Tiers, Writeback, Nothing
  <2> QED
    BY <2>3, <2>4
<1>3. CASE Get(r)
  <2>1. PICK id \in unread[r] : /\ unread' = [unread EXCEPT ![r] = @ \ {id}]
                                /\ copy' = [copy EXCEPT ![r][id] = store[id]]
    BY <1>3 DEF Get
  <2>2. id \in Ids /\ store[id] \in Entry
    BY <2>1 DEF Typed, RedisTyped, LocalTyped
  <2>3. Typed'
    BY <1>3, <2>1, <2>2 DEF Get, redis, ghost, Typed, RedisTyped, LocalTyped, GhostTyped
  <2>4. AllPlaced'
    BY <1>3, <2>1 DEF Get, AllPlaced, Placed, Typed, LocalTyped, Nothing
  <2> QED
    BY <2>3, <2>4
<1>4. CASE TierRead(r) \/ LookupTimeout(r)
  <2>1. Nothing \in [Ids -> Entry]
    BY Parameters DEF Nothing
  <2>2. PICK p \in {"tier3", "tier4", "found", "timeout"} : pc' = [pc EXCEPT ![r] = p]
    BY <1>4 DEF TierRead, LookupTimeout
  <2>3. found' \in [Runs -> SUBSET Ids]
    <3>1. Live(copy[r]) \in SUBSET Ids
      BY LiveIds
    <3>2. found' \in {found, [found EXCEPT ![r] = @ \cup Live(copy[r])]}
      BY <1>4 DEF TierRead, LookupTimeout
    <3> DEFINE more == Live(copy[r])
    <3>3. more \in SUBSET Ids /\ found' \in {found, [found EXCEPT ![r] = @ \cup more]} /\ found \in [Runs -> SUBSET Ids]
      BY <3>1, <3>2 DEF Typed, LocalTyped
    <3> HIDE DEF more
    <3> QED
      BY <3>3
  <2>4. Typed'
    <3>1. /\ UNCHANGED <<store, members, trail, next, work, stable, failures, proved, alone>>
          /\ copy' = [copy EXCEPT ![r] = Nothing] /\ asked' = [asked EXCEPT ![r] = FALSE]
          /\ unread' = [unread EXCEPT ![r] = {}]
      BY <1>4 DEF TierRead, LookupTimeout, redis, ghost
    <3> QED
      BY <2>1, <2>2, <2>3, <3>1 DEF Typed, RedisTyped, LocalTyped, GhostTyped, Places, Tiers
  <2>5. AllPlaced'
    BY <1>4, <2>2 DEF TierRead, LookupTimeout, AllPlaced, Placed, Typed, LocalTyped, Tiers, Writeback, Nothing
  <2> QED
    BY <2>4, <2>5
<1>5. CASE LookupRejected(r)
  <2>1. UNCHANGED <<store, members, failures, proved>> /\ Leave(r, "failed")
    BY <1>5 DEF LookupRejected, redis
  <2>2. failures' \subseteq Ids \X Recovery /\ proved' \subseteq Journeys
    BY <2>1 DEF Typed, GhostTyped
  <2> QED
    BY <2>1, <2>2, LeavingIsTyped, LeavingIsPlaced DEF Typed, RedisTyped
<1> QED
  BY <1>1, <1>2, <1>3, <1>4, <1>5

-----------------------------------------------------------------------------
(* The commands of a write-back.                                           *)

\* Deletions of D: a record goes before its entries in the indexes.
Deletes(D) ==
  {s \in Seq(CommandType) : \A i \in DOMAIN s :
     /\ s[i].cmd \in {"DEL", "SREM"} /\ s[i].id \in D /\ s[i].record = NoRecord
     /\ s[i].cmd = "SREM" => \E j \in 1..i - 1 : s[j].cmd = "DEL" /\ s[j].id = s[i].id}

\* Writes of C, each id with what f gives it.
Writes(C, f) ==
  {s \in Seq(CommandType) : \A i \in DOMAIN s :
     s[i].cmd \in {"SET", "SADD"} /\ s[i].id \in C /\ s[i].record = f[s[i].id]}

Erases(s, id) == \E i \in DOMAIN s : s[i].cmd = "DEL" /\ s[i].id = id

\* Commands that delete records of D, one after the other, are such commands.
LEMMA DeletesJoin ==
  ASSUME NEW D, NEW s \in Deletes(D), NEW t \in Deletes(D)
  PROVE  s \o t \in Deletes(D)
<1>1. s \in Seq(CommandType) /\ t \in Seq(CommandType) /\ s \o t \in Seq(CommandType)
  BY DEF Deletes
<1> DEFINE u == s \o t
<1>2. /\ \A i \in DOMAIN s : i \in DOMAIN u /\ u[i] = s[i]
      /\ \A i \in DOMAIN t : Len(s) + i \in DOMAIN u /\ u[Len(s) + i] = t[i]
      /\ \A i \in DOMAIN u : \/ (i \in DOMAIN s /\ u[i] = s[i])
                          \/ (i > Len(s) /\ i - Len(s) \in DOMAIN t /\ u[i] = t[i - Len(s)])
  BY ONLY <1>1
<1>3. ASSUME NEW i \in DOMAIN u
      PROVE  /\ u[i].cmd \in {"DEL", "SREM"} /\ u[i].id \in D /\ u[i].record = NoRecord
             /\ u[i].cmd = "SREM" => \E j \in 1..i - 1 : u[j].cmd = "DEL" /\ u[j].id = u[i].id
  <2>1. CASE i \in DOMAIN s /\ u[i] = s[i]
    <3> HIDE DEF u
    <3>1. \A j \in 1..i - 1 : j \in DOMAIN s /\ u[j] = s[j]
      BY <1>1, <1>2, <2>1
    <3> QED
      BY <2>1, <3>1 DEF Deletes
  <2>2. CASE i > Len(s) /\ i - Len(s) \in DOMAIN t /\ u[i] = t[i - Len(s)]
    <3> HIDE DEF u
    <3> DEFINE k == i - Len(s)
    <3>1. k \in DOMAIN t /\ u[i] = t[k] /\ i \in Nat /\ Len(s) \in Nat /\ i = Len(s) + k
      BY <1>1, <2>2
    <3>2. /\ t[k].cmd \in {"DEL", "SREM"} /\ t[k].id \in D /\ t[k].record = NoRecord
          /\ t[k].cmd = "SREM" => \E j \in 1..k - 1 : t[j].cmd = "DEL" /\ t[j].id = t[k].id
      BY <3>1 DEF Deletes
    <3>3. \A j \in 1..k - 1 : Len(s) + j \in 1..i - 1 /\ u[Len(s) + j] = t[j]
      BY <1>1, <1>2, <3>1
    <3> HIDE DEF k
    <3> QED
      BY <3>1, <3>2, <3>3
  <2> QED
    BY <1>2, <2>1, <2>2
<1> QED
  BY <1>1, <1>3 DEF Deletes

\* Commands that write records of C, one after the other, are such commands.
LEMMA WritesJoin ==
  ASSUME NEW C, NEW f, NEW s \in Writes(C, f), NEW t \in Writes(C, f)
  PROVE  s \o t \in Writes(C, f)
<1>1. s \in Seq(CommandType) /\ t \in Seq(CommandType) /\ s \o t \in Seq(CommandType)
  BY DEF Writes
<1> DEFINE u == s \o t
<1>2. \A i \in DOMAIN u : (i \in DOMAIN s /\ u[i] = s[i]) \/ (i - Len(s) \in DOMAIN t /\ u[i] = t[i - Len(s)])
  BY ONLY <1>1
<1>3. u \in Seq(CommandType)
  BY <1>1
<1> HIDE DEF u
<1>4. u \in Writes(C, f)
  BY <1>2, <1>3 DEF Writes
<1> QED
  BY <1>4 DEF u

\* deleteRecord sends commands that delete, the DEL of the record first.
LEMMA DeletionSent ==
  ASSUME NEW D, D \subseteq Ids, NEW id \in D
  PROVE  DeleteRecord(id) \in Deletes(D) /\ DeleteRecord(id)[1].cmd = "DEL" /\ DeleteRecord(id)[1].id = id
         /\ 1 \in DOMAIN DeleteRecord(id)
<1>1. DeleteRecord(id) \in Seq(CommandType)
  BY Parameters DEF DeleteRecord, CommandType, Keys
<1> QED
  BY <1>1 DEF DeleteRecord, Deletes

\* writeRecord sends commands that write the record it is given.
LEMMA WriteSent ==
  ASSUME NEW C, C \subseteq Ids, NEW f \in [Ids -> Entry], NEW id \in C, f[id] # NoRecord
  PROVE  WriteRecord(id, f[id]) \in Writes(C, f)
<1> DEFINE k == f[id]
           a == <<[cmd |-> "SET", key |-> "record", id |-> id, record |-> k],
                  [cmd |-> "SADD", key |-> "domain", id |-> id, record |-> k]>>
           b == IF MarketOf[id[1]] = NoMarket THEN <<>> ELSE <<[cmd |-> "SADD", key |-> "market", id |-> id, record |-> k]>>
           c == <<[cmd |-> "SADD", key |-> "global", id |-> id, record |-> k]>>
<1>1. k \in Entry \ {NoRecord} /\ k = f[id]
  OBVIOUS
<1> HIDE DEF k
<1>2. a \in Writes(C, f) /\ b \in Writes(C, f) /\ c \in Writes(C, f)
  BY <1>1 DEF Writes, CommandType, Keys
<1>3. WriteRecord(id, k) = (a \o b) \o c
  BY Zenon DEF WriteRecord
<1> HIDE DEF a, b, c
<1>4. WriteRecord(id, k) \in Writes(C, f)
  BY <1>2, <1>3, WritesJoin
<1> QED
  BY <1>1, <1>4

\* An order of a set of ids goes through each of them.
LEMMA Ordered ==
  ASSUME NEW D, D \subseteq Ids, NEW o \in SetToSeqs(D)
  PROVE  /\ o \in [1..Cardinality(D) -> D] /\ Cardinality(D) \in Nat
         /\ \A id \in D : \E i \in 1..Cardinality(D) : o[i] = id
<1> DEFINE n == Cardinality(D)
<1>1. IsFiniteSet(D) /\ n \in Nat
  BY IdsAreFinite
<1>2. o \in [1..n -> D] /\ \A i, j \in 1..n : i # j => o[i] # o[j]
  BY DEF SetToSeqs
<1>3. IsFiniteSet(1..n) /\ Cardinality(1..n) = n
  BY <1>1, FS_Interval
<1> HIDE DEF n
<1>4. o \in Injection(1..n, D)
  BY <1>2 DEF Injection, IsInjective
<1>5. o \in Surjection(1..n, D)
  BY <1>1, <1>3, <1>4, FS_Injection DEF n
<1> QED
  BY <1>1, <1>2, <1>5 DEF Surjection, n

\* Everything the parts hold is in the whole.
LEMMA FlattenCovers ==
  ASSUME NEW n \in Nat, NEW ss \in [1..n -> Seq(CommandType)], NEW k \in 1..n, NEW j \in DOMAIN ss[k]
  PROVE  \E i \in DOMAIN FlattenSeq(ss) : FlattenSeq(ss)[i] = ss[k][j]
<1>1. Len(ss) = n /\ n # 0
  OBVIOUS
<1>2. PICK f : LaysOut(f, ss, n) /\ FlattenSeq(ss) = f[n]
  BY <1>1, FlattenLaysOut
<1> DEFINE x == ss[k][j]
           Holds(m) == f[m] \in Seq(CommandType) /\ (k <= m => \E i \in DOMAIN f[m] : f[m][i] = x)
           N == {m \in Nat : m \in 1..n => Holds(m)}
<1>3. 0 \in N
  OBVIOUS
<1>4. ASSUME NEW m \in Nat, m \in N
      PROVE  m + 1 \in N
  <2> SUFFICES ASSUME m + 1 \in 1..n PROVE Holds(m + 1)
    OBVIOUS
  <2>1. f[m + 1] = IF m + 1 = 1 THEN ss[m + 1] ELSE f[(m + 1) - 1] \o ss[m + 1]
    BY <1>2 DEF LaysOut
  <2>2. ss[m + 1] \in Seq(CommandType) /\ (m + 1) - 1 = m
    OBVIOUS
  <2>3. CASE m = 0
    <3>1. f[m + 1] = ss[m + 1]
      BY <2>1, <2>3
    <3>2. k <= m + 1 => k = m + 1
      BY <2>3
    <3> QED
      BY <2>2, <3>1, <3>2
  <2>4. CASE m # 0
    <3>1. m \in 1..n /\ Holds(m)
      BY <1>4, <2>4
    <3>2. f[m + 1] = f[m] \o ss[m + 1]
      <4>1. m + 1 # 1 /\ f[(m + 1) - 1] = f[m]
        BY <2>2, <2>4
      <4> QED
        BY <2>1, <4>1
    <3> DEFINE a == f[m]
               b == ss[m + 1]
    <3>3. a \in Seq(CommandType) /\ b \in Seq(CommandType) /\ f[m + 1] = a \o b /\ (k = m + 1 => j \in DOMAIN b /\ b[j] = x)
      BY <2>2, <3>1, <3>2
    <3>4. k <= m => \E i \in DOMAIN a : a[i] = x
      BY <3>1
    <3>5. k <= m + 1 => k <= m \/ k = m + 1
      BY <2>2
    <3> HIDE DEF a, b, x
    <3>6. /\ a \o b \in Seq(CommandType)
          /\ \A i \in DOMAIN a : i \in DOMAIN (a \o b) /\ (a \o b)[i] = a[i]
          /\ \A i \in DOMAIN b : Len(a) + i \in DOMAIN (a \o b) /\ (a \o b)[Len(a) + i] = b[i]
      BY ONLY <3>3
    <3> QED
      BY <3>3, <3>4, <3>5, <3>6
  <2> QED
    BY <2>3, <2>4
<1> HIDE DEF N
<1>5. n \in N
  BY <1>3, <1>4, NaturalsByInduction
<1> QED
  BY <1>1, <1>2, <1>5 DEF N

\* deleteRecord of each of D deletes records of D only, and erases them all.
LEMMA Deleting ==
  ASSUME NEW D, D \subseteq Ids, NEW o \in SetToSeqs(D)
  PROVE  /\ FlattenSeq([i \in DOMAIN o |-> DeleteRecord(o[i])]) \in Deletes(D)
         /\ \A id \in D : Erases(FlattenSeq([i \in DOMAIN o |-> DeleteRecord(o[i])]), id)
<1> DEFINE n == Cardinality(D)
           ss == [i \in DOMAIN o |-> DeleteRecord(o[i])]
<1>1. n \in Nat /\ o \in [1..n -> D] /\ \A id \in D : \E i \in 1..n : o[i] = id
  BY Ordered
<1>2. << >> \in Deletes(D) /\ Deletes(D) \subseteq Seq(CommandType)
  BY DEF Deletes
<1>3. ss \in [1..n -> Deletes(D)] /\ \A i \in 1..n : ss[i] = DeleteRecord(o[i])
  BY <1>1, DeletionSent
<1> HIDE DEF ss, n
<1>4. FlattenSeq(ss) \in Deletes(D)
  BY <1>1, <1>2, <1>3, DeletesJoin, FlattenStays
<1>5. ASSUME NEW id \in D
      PROVE  Erases(FlattenSeq(ss), id)
  <2>1. PICK k \in 1..n : o[k] = id
    BY <1>1
  <2>2. ss[k][1].cmd = "DEL" /\ ss[k][1].id = id /\ 1 \in DOMAIN ss[k]
    BY <1>3, <2>1, DeletionSent
  <2>3. ss \in [1..n -> Seq(CommandType)]
    BY <1>2, <1>3
  <2>4. \E i \in DOMAIN FlattenSeq(ss) : FlattenSeq(ss)[i] = ss[k][1]
    <3>1. \A m \in DOMAIN ss[k] : \E i \in DOMAIN FlattenSeq(ss) : FlattenSeq(ss)[i] = ss[k][m]
      BY <1>1, <2>1, <2>3, FlattenCovers
    <3> QED
      BY <2>2, <3>1
  <2> QED
    BY <2>2, <2>4 DEF Erases
<1> QED
  BY <1>4, <1>5 DEF ss

\* writeRecord of each of C writes records of C only.
LEMMA Writing ==
  ASSUME NEW C, C \subseteq Ids, NEW f \in [Ids -> Entry], NEW w \in SetToSeqs(C),
         \A id \in C : f[id] # NoRecord
  PROVE  FlattenSeq([i \in DOMAIN w |-> WriteRecord(w[i], f[w[i]])]) \in Writes(C, f)
<1> DEFINE n == Cardinality(C)
           ss == [i \in DOMAIN w |-> WriteRecord(w[i], f[w[i]])]
<1>1. n \in Nat /\ w \in [1..n -> C]
  BY Ordered
<1>2. << >> \in Writes(C, f)
  BY DEF Writes
<1>3. ss \in [1..n -> Writes(C, f)]
  BY <1>1, WriteSent
<1> HIDE DEF ss, n
<1>4. FlattenSeq(ss) \in Writes(C, f)
  BY <1>1, <1>2, <1>3, WritesJoin, FlattenStays
<1> QED
  BY <1>4 DEF ss

-----------------------------------------------------------------------------
(* What a segment does to what its run has read.                           *)

Seg(r)     == trail[r][next[r]]
Gone(r)    == Superseded(copy[r], Seg(r))
Touched(r) == Restored(copy[r], Seg(r)) \cup Decayed(copy[r], Seg(r))
After(r)   == [id \in Ids |-> CASE id = NextId(r)    -> NewRecord(Seg(r))
                               [] id \in Gone(r)    -> NoRecord
                               [] id \in Touched(r) -> Rated(copy[r][id], Seg(r))
                               [] OTHER             -> copy[r][id]]

\* Min and Max of two integers.
LEMMA Extremes ==
  ASSUME NEW a \in Int, NEW b \in Int
  PROVE  Min({a, b}) = (IF a <= b THEN a ELSE b) /\ Max({a, b}) = (IF a >= b THEN a ELSE b)
<1>1. \A y \in {a, b} : (IF a <= b THEN a ELSE b) <= y
  OBVIOUS
<1>2. \A y \in {a, b} : (IF a >= b THEN a ELSE b) >= y
  OBVIOUS
<1> QED
  BY <1>1, <1>2 DEF Min, Max

\* A segment only changes the confidence of a record.
LEMMA RatedStays ==
  ASSUME NEW record \in Entry, record # NoRecord, NEW segment \in Segment
  PROVE  /\ Rated(record, segment) \in Entry /\ Rated(record, segment) # NoRecord
         /\ Rated(record, segment).journey = record.journey
         /\ Rated(record, segment).outcome = record.outcome
<1>1. record \in Record /\ record.confidence \in 2..40
  BY DEF Entry, Record, MinConfidence
<1> DEFINE c == record.confidence
           v == IF segment.outcome = "success" THEN Min({40, c + Restore}) ELSE Rounded(Max({MinConfidence, c - Decay}))
<1>2. v \in 2..40
  <2>1. Min({40, c + 12}) = (IF 40 <= c + 12 THEN 40 ELSE c + 12) /\ Max({2, c - 6}) = (IF 2 >= c - 6 THEN 2 ELSE c - 6)
    <3> DEFINE up == c + 12
               down == c - 6
    <3>1. up \in Int /\ down \in Int
      BY <1>1
    <3> HIDE DEF up, down
    <3>2. Min({40, up}) = (IF 40 <= up THEN 40 ELSE up)
      BY <3>1, Extremes
    <3>3. Max({2, down}) = (IF 2 >= down THEN 2 ELSE down)
      <4>1. 2 \in Int
        OBVIOUS
      <4> QED
        BY <3>1, <4>1, Extremes, Zenon
    <3> QED
      BY <3>2, <3>3 DEF up, down
  <2> QED
    BY <1>1, <2>1 DEF Restore, MinConfidence, Decay, Rounded, Fresh
<1>3. Rated(record, segment) = [record EXCEPT !.confidence = v]
  BY DEF Rated
<1> HIDE DEF v
<1>4. /\ Rated(record, segment) \in Record /\ Rated(record, segment).journey = record.journey
      /\ Rated(record, segment).outcome = record.outcome
  BY <1>1, <1>2, <1>3 DEF Record, MinConfidence
<1> QED
  BY <1>4, Parameters DEF Entry

\* The first record of a segment has its journey, its outcome and its initial confidence.
LEMMA NewRecordIsTyped ==
  ASSUME NEW segment \in Segment
  PROVE  /\ NewRecord(segment) \in Entry /\ NewRecord(segment) # NoRecord
         /\ NewRecord(segment).journey = segment.journey /\ NewRecord(segment).outcome = segment.outcome
         /\ NewRecord(segment).confidence = Initial(NewRecord(segment))
<1>1. NewRecord(segment) \in Record /\ (segment.outcome = "failure" => segment.journey \in Recovery)
  BY KindsDisjoint DEF NewRecord, Record, Segment, Journeys, Initial, Fresh, MinConfidence
<1> QED
  BY <1>1, Parameters DEF NewRecord, Entry, Initial

\* The run that applies a segment has one, with an id nobody has had.
LEMMA SegmentAtHand ==
  ASSUME Typed, AllPlaced, NEW r \in Runs, ApplySegment(r)
  PROVE  /\ Seg(r) \in Segment /\ NextId(r) \in Ids /\ next[r] \in 1..Len(trail[r]) /\ next[r] \in 1..MaxSegments
         /\ work[r] = << >> /\ unread[r] = {} /\ pc[r] \in {"list", "apply"} /\ asked[r]
<1>1. /\ pc[r] \in {"list", "apply"} /\ work[r] = << >> /\ unread[r] = {} /\ Len(trail[r]) \in 1..MaxSegments
      /\ asked[r] /\ (pc[r] = "list" => next[r] = 1) /\ (pc[r] = "apply" => next[r] \in 2..Len(trail[r]) + 1 /\ next[r] <= Len(trail[r]))
  BY DEF ApplySegment, AllPlaced, Placed, Writeback
<1>2. next[r] \in 1..Len(trail[r]) /\ next[r] \in 1..MaxSegments
  BY <1>1, Parameters
<1>3. trail[r] \in Seq(Segment)
  BY DEF Typed, LocalTyped
<1>4. Seg(r) \in Segment
  BY <1>2, <1>3 DEF Seg
<1> QED
  BY <1>1, <1>2, <1>4 DEF NextId, Ids

\* The records that a segment deletes or changes were read, and are of its journey.
LEMMA TouchedIsLive ==
  ASSUME NEW r \in Runs
  PROVE  Gone(r) \subseteq Live(copy[r]) /\ Touched(r) \subseteq Live(copy[r]) /\ Live(copy[r]) \subseteq Ids
         /\ \A id \in Gone(r) \cup Touched(r) : copy[r][id].journey = Seg(r).journey
  BY DEF Gone, Touched, Superseded, Restored, Decayed, Equivalent, Live

\* What the copy looks like after a segment is a copy.
LEMMA AfterIsTyped ==
  ASSUME Typed, NEW r \in Runs, Seg(r) \in Segment
  PROVE  After(r) \in [Ids -> Entry]
<1>1. ASSUME NEW id \in Ids PROVE After(r)[id] \in Entry
  <2>1. copy[r][id] \in Entry
    BY DEF Typed, LocalTyped
  <2>2. id \in Touched(r) => Rated(copy[r][id], Seg(r)) \in Entry
    BY <2>1, TouchedIsLive, RatedStays DEF Live
  <2>3. NewRecord(Seg(r)) \in Entry /\ NoRecord \in Entry
    BY NewRecordIsTyped, Parameters
  <2> QED
    BY <2>1, <2>2, <2>3 DEF After
<1> QED
  BY <1>1 DEF After

\* A record the segment changes is one the run has read, and stays one.
LEMMA ChangedStays ==
  ASSUME Typed, NEW r \in Runs, Seg(r) \in Segment, NextId(r) \notin Live(copy[r]), NEW id \in Touched(r)
  PROVE  /\ id \in Ids /\ id # NextId(r) /\ id \notin Gone(r) /\ copy[r][id] \in Entry /\ copy[r][id] # NoRecord
         /\ After(r)[id] = Rated(copy[r][id], Seg(r)) /\ After(r)[id] # NoRecord
         /\ After(r)[id].journey = copy[r][id].journey /\ After(r)[id].outcome = copy[r][id].outcome
<1>1. id \in Live(copy[r]) /\ id \in Ids /\ copy[r][id] # NoRecord
  BY TouchedIsLive DEF Live
<1>2. copy[r][id] \in Entry
  BY <1>1 DEF Typed, LocalTyped
<1>3. id \notin Gone(r)
  BY DEF Gone, Touched, Superseded, Restored, Decayed, Failing, Segment
<1>4. After(r)[id] = Rated(copy[r][id], Seg(r))
  BY <1>1, <1>3 DEF After
<1> QED
  BY <1>1, <1>2, <1>3, <1>4, RatedStays

\* The commands of a segment: deletions, the new record, the records it changes.
LEMMA SegmentSent ==
  ASSUME Typed, AllPlaced, NEW r \in Runs, ApplySegment(r), NextId(r) \notin Live(copy[r])
  PROVE  /\ copy' = [copy EXCEPT ![r] = After(r)]
         /\ \E a \in Deletes(Gone(r)), c \in Writes(Touched(r), After(r)) :
              /\ \A id \in Gone(r) : Erases(a, id)
              /\ work' = [work EXCEPT ![r] = a \o WriteRecord(NextId(r), NewRecord(Seg(r))) \o c]
<1>1. /\ copy' = [copy EXCEPT ![r] = After(r)]
      /\ \E d \in SetToSeqs(Gone(r)), w \in SetToSeqs(Touched(r)) :
           work' = [work EXCEPT ![r] =
             FlattenSeq([i \in DOMAIN d |-> DeleteRecord(d[i])]) \o
             WriteRecord(NextId(r), NewRecord(Seg(r))) \o
             FlattenSeq([i \in DOMAIN w |-> WriteRecord(w[i], After(r)[w[i]])])]
  BY Zenon DEF ApplySegment, After, Gone, Touched, Seg
<1>2. PICK d \in SetToSeqs(Gone(r)), w \in SetToSeqs(Touched(r)) :
           work' = [work EXCEPT ![r] =
             FlattenSeq([i \in DOMAIN d |-> DeleteRecord(d[i])]) \o
             WriteRecord(NextId(r), NewRecord(Seg(r))) \o
             FlattenSeq([i \in DOMAIN w |-> WriteRecord(w[i], After(r)[w[i]])])]
  BY <1>1
<1>3. Gone(r) \subseteq Ids /\ Touched(r) \subseteq Ids
  BY TouchedIsLive
<1>4. After(r) \in [Ids -> Entry]
  BY AfterIsTyped, SegmentAtHand
<1>7. \A id \in Touched(r) : After(r)[id] # NoRecord
  BY <1>3, ChangedStays, SegmentAtHand
<1>5. /\ FlattenSeq([i \in DOMAIN d |-> DeleteRecord(d[i])]) \in Deletes(Gone(r))
      /\ \A id \in Gone(r) : Erases(FlattenSeq([i \in DOMAIN d |-> DeleteRecord(d[i])]), id)
  BY <1>2, <1>3, Deleting
<1>6. FlattenSeq([i \in DOMAIN w |-> WriteRecord(w[i], After(r)[w[i]])]) \in Writes(Touched(r), After(r))
  BY <1>2, <1>3, <1>4, <1>7, Writing
<1> QED
  BY <1>1, <1>2, <1>5, <1>6, Zenon

\* Evict sends the deletions of the records it selects.
LEMMA EvictionSent ==
  ASSUME NEW r \in Runs, Evict(r)
  PROVE  \E out \in Evictions(copy[r]) : \E w \in Deletes(out) :
           /\ \A id \in out : Erases(w, id)
           /\ work' = [work EXCEPT ![r] = w]
<1>1. PICK out \in Evictions(copy[r]) : \E o \in SetToSeqs(out) :
           work' = [work EXCEPT ![r] = FlattenSeq([i \in DOMAIN o |-> DeleteRecord(o[i])])]
  BY DEF Evict
<1>2. PICK o \in SetToSeqs(out) : work' = [work EXCEPT ![r] = FlattenSeq([i \in DOMAIN o |-> DeleteRecord(o[i])])]
  BY <1>1
<1>3. out \subseteq Ids
  BY <1>1, LiveIds DEF Evictions
<1>4. /\ FlattenSeq([i \in DOMAIN o |-> DeleteRecord(o[i])]) \in Deletes(out)
      /\ \A id \in out : Erases(FlattenSeq([i \in DOMAIN o |-> DeleteRecord(o[i])]), id)
  BY <1>2, <1>3, Deleting
<1> QED
  BY <1>1, <1>2, <1>4, Zenon

-----------------------------------------------------------------------------
(* Every step keeps the types, and an id is used by one segment only.      *)

Unused(id) ==
  /\ store[id] = NoRecord
  /\ \A q \in Runs : copy[q][id] = NoRecord /\ \A i \in DOMAIN work[q] : work[q][i].id # id
Ahead(id) == pc[id[1]] \notin {"ended", "failed"} /\ id[2] >= next[id[1]]
IdsAreNew == \A id \in Ids : Ahead(id) => Unused(id)

Base == Typed /\ AllPlaced /\ IdsAreNew

\* The id that a segment is given was not in use.
LEMMA NextIdIsNew ==
  ASSUME Base, NEW r \in Runs, ApplySegment(r)
  PROVE  Unused(NextId(r)) /\ NextId(r) \notin Live(copy[r])
<1>1. NextId(r) \in Ids /\ pc[r] \in {"list", "apply"} /\ next[r] \in Nat
  BY SegmentAtHand DEF Base
<1>2. Ahead(NextId(r))
  BY <1>1 DEF Ahead, NextId
<1> QED
  BY <1>1, <1>2 DEF Base, IdsAreNew, Unused, Live

\* The commands of a segment, and only they, have the id of the segment or of a record it changes.
LEMMA SegmentCommands ==
  ASSUME Base, NEW r \in Runs, ApplySegment(r)
  PROVE  /\ WriteRecord(NextId(r), NewRecord(Seg(r))) \in Writes({NextId(r)}, After(r))
         /\ \E w \in Seq(CommandType) :
              /\ work' = [work EXCEPT ![r] = w]
              /\ \A i \in DOMAIN w : w[i].id = NextId(r) \/ w[i].id \in Live(copy[r])
<1>1. Typed /\ AllPlaced /\ NextId(r) \notin Live(copy[r]) /\ Seg(r) \in Segment /\ NextId(r) \in Ids
  BY NextIdIsNew, SegmentAtHand DEF Base
<1>2. After(r) \in [Ids -> Entry] /\ After(r)[NextId(r)] = NewRecord(Seg(r)) /\ NewRecord(Seg(r)) # NoRecord
  <2>1. After(r) \in [Ids -> Entry]
    BY <1>1, AfterIsTyped
  <2>2. After(r)[NextId(r)] = NewRecord(Seg(r))
    <3>1. NextId(r) \notin Gone(r) /\ NextId(r) \notin Touched(r)
      BY <1>1, TouchedIsLive
    <3> QED
      BY <1>1, <3>1 DEF After
  <2>3. NewRecord(Seg(r)) # NoRecord
    BY <1>1, NewRecordIsTyped
  <2> QED
    BY <2>1, <2>2, <2>3
<1>3. WriteRecord(NextId(r), NewRecord(Seg(r))) \in Writes({NextId(r)}, After(r))
  <2> DEFINE f == After(r)
             id == NextId(r)
  <2>1. f \in [Ids -> Entry] /\ f[id] = NewRecord(Seg(r)) /\ f[id] # NoRecord /\ {id} \subseteq Ids /\ id \in {id}
    BY <1>1, <1>2
  <2> HIDE DEF f, id
  <2>2. WriteRecord(id, f[id]) \in Writes({id}, f)
    BY <2>1, WriteSent
  <2> QED
    BY <2>1, <2>2 DEF f, id
<1>4. PICK a \in Deletes(Gone(r)), c \in Writes(Touched(r), After(r)) :
        work' = [work EXCEPT ![r] = a \o WriteRecord(NextId(r), NewRecord(Seg(r))) \o c]
  BY <1>1, SegmentSent
<1> DEFINE b == WriteRecord(NextId(r), NewRecord(Seg(r)))
           L == Live(copy[r]) \cup {NextId(r)}
<1>5. /\ a \in Seq(CommandType) /\ b \in Seq(CommandType) /\ c \in Seq(CommandType)
      /\ \A i \in DOMAIN a : a[i].id \in L
      /\ \A i \in DOMAIN b : b[i].id \in L
      /\ \A i \in DOMAIN c : c[i].id \in L
  BY <1>3, TouchedIsLive DEF Deletes, Writes
<1>6. work' = [work EXCEPT ![r] = a \o b \o c]
  BY <1>4
<1> HIDE DEF b, L
<1> DEFINE ab == a \o b
           w == ab \o c
<1>7. ab \in Seq(CommandType) /\ \A i \in DOMAIN ab : ab[i].id \in L
  <2>1. \A i \in DOMAIN (a \o b) : (i \in DOMAIN a /\ (a \o b)[i] = a[i]) \/ (i - Len(a) \in DOMAIN b /\ (a \o b)[i] = b[i - Len(a)])
    BY ONLY <1>5
  <2> QED
    BY <1>5, <2>1
<1> HIDE DEF ab
<1>8. w \in Seq(CommandType) /\ \A i \in DOMAIN w : w[i].id \in L
  <2>1. \A i \in DOMAIN (ab \o c) : (i \in DOMAIN ab /\ (ab \o c)[i] = ab[i]) \/ (i - Len(ab) \in DOMAIN c /\ (ab \o c)[i] = c[i - Len(ab)])
    BY ONLY <1>5, <1>7
  <2> QED
    BY <1>5, <1>7, <2>1
<1>9. work' = [work EXCEPT ![r] = w]
  BY <1>6 DEF ab
<1> HIDE DEF w
<1>10. \A i \in DOMAIN w : w[i].id = NextId(r) \/ w[i].id \in Live(copy[r])
  BY <1>8 DEF L
<1> QED
  BY <1>3, <1>8, <1>9, <1>10

\* What a command changes in Redis.
LEMMA EffectIsTyped ==
  ASSUME Typed, NEW c \in CommandType, Effect(c)
  PROVE  RedisTyped' /\ failures' \subseteq Ids \X Recovery /\ proved' \subseteq Journeys
<1>1. c.id \in Ids /\ c.record \in Entry
  BY Parameters DEF CommandType
<1>2. store' \in [Ids -> Entry]
  BY <1>1 DEF Effect, Typed, RedisTyped
<1>3. members' \in [Keys -> SUBSET Ids]
  BY <1>1 DEF Effect, Typed, RedisTyped
<1>4. failures' \subseteq Ids \X Recovery /\ proved' \subseteq Journeys
  BY <1>1 DEF Effect, Typed, GhostTyped
<1> QED
  BY <1>2, <1>3, <1>4 DEF RedisTyped

\* The next command, and those that remain after it.
LEMMA CommandAtHand ==
  ASSUME Typed, NEW r \in Runs, work[r] # << >>
  PROVE  /\ Head(work[r]) \in CommandType /\ Tail(work[r]) \in Seq(CommandType) /\ Head(work[r]) = work[r][1]
         /\ Len(work[r]) \in Nat /\ 1 \in DOMAIN work[r]
         /\ \A i \in DOMAIN Tail(work[r]) : i + 1 \in DOMAIN work[r] /\ Tail(work[r])[i] = work[r][i + 1]
<1>1. work[r] \in Seq(CommandType)
  BY DEF Typed, LocalTyped
<1> DEFINE w == work[r]
<1>2. w \in Seq(CommandType) /\ w # << >>
  BY <1>1
<1> HIDE DEF w
<1>3. /\ Head(w) \in CommandType /\ Tail(w) \in Seq(CommandType) /\ Head(w) = w[1] /\ Len(w) \in Nat /\ 1 \in DOMAIN w
      /\ \A i \in DOMAIN Tail(w) : i + 1 \in DOMAIN w /\ Tail(w)[i] = w[i + 1]
  BY <1>2
<1> QED
  BY <1>3 DEF w

\* The steps of the write-back keep the types and the places.
LEMMA WriteBackIsTyped ==
  ASSUME Base, NEW r \in Runs,
         Navigated(r) \/ ApplySegment(r) \/ Evict(r) \/ Command(r) \/ Finish(r) \/ WriteBackStops(r)
  PROVE  Typed' /\ AllPlaced'
<1> USE DEF Base
<1>1. CASE Navigated(r)
  <2>1. CASE Leave(r, "ended")
    <3>1. UNCHANGED <<store, members>> /\ failures' \subseteq Ids \X Recovery /\ proved' \subseteq Journeys
      BY <1>1 DEF Navigated, redis, Typed, GhostTyped
    <3> QED
      BY <2>1, <3>1, LeavingIsTyped, LeavingIsPlaced DEF Typed, RedisTyped
  <2>2. CASE pc' = [pc EXCEPT ![r] = "list"]
    <3>1. PICK t \in Trails \ {<< >>} : trail' = [trail EXCEPT ![r] = t]
      <4>1. ~Leave(r, "ended")
        <5>1. pc'[r] = "list"
          BY <2>2 DEF Typed, LocalTyped
        <5> QED
          BY <5>1 DEF Leave, Typed, LocalTyped
      <4> QED
        BY <1>1, <4>1 DEF Navigated
    <3>2. /\ UNCHANGED <<store, members, asked, unread, copy, next, work, failures, proved>>
          /\ found' = [found EXCEPT ![r] = {}] /\ stable' = [stable EXCEPT ![r] = {}]
          /\ \E others : alone' = [q \in Runs |-> IF q = r THEN others = {} ELSE alone[q] /\ q \notin others]
          /\ pc[r] \in {"navigate", "found", "timeout"}
      BY <1>1, <2>2 DEF Navigated, Leave, Typed, LocalTyped, redis
    <3>3. t \in Seq(Segment) /\ Len(t) \in 1..MaxSegments
      <4>1. t \in BoundedSeq(Segment, MaxSegments) /\ t # << >>
        BY <3>1 DEF Trails
      <4>2. PICK m \in 0..MaxSegments : t \in [1..m -> Segment]
        BY <4>1 DEF BoundedSeq, SeqOf
      <4> QED
        BY <4>1, <4>2, Parameters
    <3>4. alone' \in [Runs -> BOOLEAN]
      BY <3>2 DEF Typed, GhostTyped
    <3>5. Typed'
      BY <2>2, <3>1, <3>2, <3>3, <3>4 DEF Typed, RedisTyped, LocalTyped, GhostTyped, Places, Writeback
    <3>6. AllPlaced'
      BY <2>2, <3>1, <3>2, <3>3 DEF AllPlaced, Placed, Typed, LocalTyped, Tiers, Writeback, Nothing
    <3> QED
      BY <3>5, <3>6
  <2> QED
    BY <1>1, <2>1, <2>2 DEF Navigated
<1>2. CASE ApplySegment(r)
  <2>1. PICK w \in Seq(CommandType) : work' = [work EXCEPT ![r] = w]
    BY <1>2, SegmentCommands
  <2>2. copy' = [copy EXCEPT ![r] = After(r)] /\ After(r) \in [Ids -> Entry]
    BY <1>2, NextIdIsNew, SegmentSent, SegmentAtHand, AfterIsTyped
  <2>3. /\ UNCHANGED <<store, members, asked, unread, found, trail, stable, failures, proved, alone>>
        /\ pc' = [pc EXCEPT ![r] = "apply"] /\ next' = [next EXCEPT ![r] = @ + 1]
    BY <1>2 DEF ApplySegment, redis, ghost
  <2>4. Typed'
    BY <2>1, <2>2, <2>3 DEF Typed, RedisTyped, LocalTyped, GhostTyped, Places, Writeback
  <2>5. /\ next[r] \in 1..Len(trail[r]) /\ unread[r] = {} /\ asked[r] /\ Len(trail[r]) \in 1..MaxSegments
    BY <1>2, SegmentAtHand DEF AllPlaced, Placed, Writeback
  <2>6. next[r] + 1 \in 2..Len(trail[r]) + 1
    BY <2>5 DEF Typed, LocalTyped
  <2>7. AllPlaced'
    BY <2>1, <2>2, <2>3, <2>5, <2>6 DEF AllPlaced, Placed, Typed, LocalTyped, Tiers, Writeback, Nothing
  <2> QED
    BY <2>4, <2>7
<1>3. CASE Evict(r)
  <2>0. PICK out \in Evictions(copy[r]) : \E w \in Deletes(out) : work' = [work EXCEPT ![r] = w]
    BY <1>3, EvictionSent
  <2>1. PICK w \in Deletes(out) : work' = [work EXCEPT ![r] = w]
    BY <2>0
  <2>2. w \in Seq(CommandType)
    BY <2>1 DEF Deletes
  <2>3. /\ UNCHANGED <<store, members, asked, unread, copy, found, trail, next, stable, failures, proved, alone>>
        /\ pc[r] = "apply" /\ pc' = [pc EXCEPT ![r] = "evict"]
    BY <1>3 DEF Evict, redis, ghost
  <2>4. Typed'
    BY <2>1, <2>2, <2>3 DEF Typed, RedisTyped, LocalTyped, GhostTyped, Places, Writeback
  <2>5. AllPlaced'
    BY <2>1, <2>3 DEF AllPlaced, Placed, Typed, LocalTyped, Tiers, Writeback, Nothing
  <2> QED
    BY <2>4, <2>5
<1>4. CASE Command(r)
  <2>1. /\ Head(work[r]) \in CommandType /\ Tail(work[r]) \in Seq(CommandType) /\ Effect(Head(work[r]))
        /\ work[r] # << >>
    BY <1>4, CommandAtHand DEF Command
  <2>2. RedisTyped' /\ failures' \subseteq Ids \X Recovery /\ proved' \subseteq Journeys
    BY <2>1, EffectIsTyped
  <2>3. /\ UNCHANGED <<pc, asked, unread, copy, found, trail, next, alone>>
        /\ work' = [work EXCEPT ![r] = Tail(@)] /\ stable' \in [Runs -> SUBSET Ids]
    BY <1>4, StaysIsTyped DEF Command
  <2>4. Typed'
    BY <2>1, <2>2, <2>3 DEF Typed, LocalTyped, GhostTyped
  <2>5. pc[r] \in {"apply", "evict"}
    BY <2>1 DEF AllPlaced, Placed
  <2>6. AllPlaced'
    BY <2>3, <2>5 DEF AllPlaced, Placed, Typed, LocalTyped, Nothing
  <2> QED
    BY <2>4, <2>6
<1>5. CASE Finish(r)
  <2>1. UNCHANGED <<store, members>> /\ failures' \subseteq Ids \X Recovery /\ proved' \subseteq Journeys /\ Leave(r, "ended")
    BY <1>5 DEF Finish, redis, Typed, GhostTyped
  <2> QED
    BY <2>1, LeavingIsTyped, LeavingIsPlaced DEF Typed, RedisTyped
<1>6. CASE WriteBackStops(r)
  <2>1. PICK p \in {"ended", "failed"} : Leave(r, p)
    BY <1>6 DEF WriteBackStops
  <2>2. RedisTyped' /\ failures' \subseteq Ids \X Recovery /\ proved' \subseteq Journeys
    <3>1. CASE UNCHANGED <<redis, failures, proved>>
      BY <3>1 DEF redis, Typed, RedisTyped, GhostTyped
    <3>2. CASE work[r] # <<>> /\ Effect(Head(work[r]))
      BY <3>2, CommandAtHand, EffectIsTyped
    <3> QED
      BY <1>6, <3>1, <3>2 DEF WriteBackStops
  <2> QED
    BY <2>1, <2>2, LeavingIsTyped, LeavingIsPlaced DEF Typed
<1> QED
  BY <1>1, <1>2, <1>3, <1>4, <1>5, <1>6

\* Expiry keeps the types and the places.
LEMMA LapseIsTyped ==
  ASSUME Typed, AllPlaced, NEW id \in Ids, Lapse(id)
  PROVE  Typed' /\ AllPlaced'
<1>1. /\ store' = [store EXCEPT ![id] = NoRecord]
      /\ UNCHANGED <<members, pc, asked, unread, copy, found, trail, next, work, failures, proved, alone>>
      /\ stable' \in [Runs -> SUBSET Ids]
  BY StaysIsTyped DEF Lapse, local
<1>2. Typed'
  BY <1>1, Parameters DEF Typed, RedisTyped, LocalTyped, GhostTyped
<1> QED
  BY <1>1, <1>2 DEF AllPlaced, Placed, Nothing

\* A run that leaves gives up the ids it has not used.
LEMMA LeavingKeepsIdsNew ==
  ASSUME Base, NEW r \in Runs, NEW p \in {"ended", "failed"}, Leave(r, p), NEW id \in Ids, Ahead(id)',
         Unused(id) => store'[id] = NoRecord
  PROVE  Unused(id)'
<1>1. id[1] \in Runs
  BY DEF Ids
<1>2. id[1] # r /\ Ahead(id)
  BY <1>1 DEF Leave, Ahead, Base, Typed, LocalTyped
<1>3. Unused(id)
  BY <1>2 DEF Base, IdsAreNew
<1>4. ASSUME NEW q \in Runs
      PROVE  copy'[q][id] = NoRecord /\ \A i \in DOMAIN work'[q] : work'[q][i].id # id
  <2>1. CASE q = r
    BY <2>1 DEF Leave, Nothing, Base, Typed, LocalTyped
  <2>2. CASE q # r
    BY <1>3, <2>2 DEF Leave, Unused, Base, Typed, LocalTyped
  <2> QED
    BY <2>1, <2>2
<1> QED
  BY <1>3, <1>4 DEF Unused

\* A command writes nothing under an id that is not in use.
LEMMA EffectKeepsIdsNew ==
  ASSUME Base, NEW r \in Runs, work[r] # << >>, Effect(Head(work[r])), NEW id \in Ids, Unused(id)
  PROVE  store'[id] = NoRecord
<1>1. Head(work[r]) = work[r][1] /\ 1 \in DOMAIN work[r]
  BY CommandAtHand DEF Base
<1>2. Head(work[r]).id # id
  BY <1>1 DEF Unused
<1> QED
  BY <1>2 DEF Effect, Unused, Base, Typed, RedisTyped

\* An id that is still ahead of its run was ahead of it before, and remains unused.
LEMMA IdsStayNew ==
  ASSUME Base, [Next]_vars, NEW id \in Ids, Ahead(id)'
  PROVE  Unused(id)'
<1> DEFINE own == id[1]
<1>1. own \in Runs
  BY DEF Ids
<1> USE DEF Base
<1>2. CASE UNCHANGED vars
  BY <1>2 DEF vars, redis, local, Ahead, Unused, IdsAreNew
<1>3. ASSUME NEW r \in Runs, BeginLookup(r) \/ Smembers(r) \/ Get(r) \/ TierRead(r) \/ LookupTimeout(r)
      PROVE  Unused(id)'
  <2>1. Ahead(id)
    BY <1>1, <1>3 DEF BeginLookup, Smembers, Get, TierRead, LookupTimeout, Ahead, Typed, LocalTyped, Tiers
  <2>2. Unused(id) /\ UNCHANGED <<store, work>>
    BY <1>3, <2>1 DEF BeginLookup, Smembers, Get, TierRead, LookupTimeout, IdsAreNew, redis
  <2>3. ASSUME NEW q \in Runs PROVE copy'[q][id] = NoRecord
    <3>1. CASE Get(r)
      BY <2>2, <3>1 DEF Get, Unused, Typed, LocalTyped
    <3>2. CASE ~Get(r)
      <4>1. copy' \in {copy, [copy EXCEPT ![r] = Nothing]}
        BY <1>3, <3>2 DEF BeginLookup, Smembers, TierRead, LookupTimeout
      <4>2. Nothing[id] = NoRecord
        BY DEF Nothing
      <4>3. CASE copy' = copy
        BY <2>2, <4>3 DEF Unused
      <4>4. CASE copy' = [copy EXCEPT ![r] = Nothing]
        BY <2>2, <4>2, <4>4 DEF Unused, Typed, LocalTyped
      <4> QED
        BY <4>1, <4>3, <4>4
    <3> QED
      BY <3>1, <3>2
  <2> QED
    BY <2>2, <2>3 DEF Unused
<1>4. ASSUME NEW r \in Runs, LookupRejected(r) \/ Finish(r) \/ WriteBackStops(r)
      PROVE  Unused(id)'
  <2>1. PICK p \in {"ended", "failed"} : Leave(r, p)
    BY <1>4 DEF LookupRejected, Finish, WriteBackStops
  <2>2. Unused(id) => store'[id] = NoRecord
    <3>1. store' = store \/ (work[r] # << >> /\ Effect(Head(work[r])))
      BY <1>4 DEF LookupRejected, Finish, WriteBackStops, redis
    <3> QED
      BY <3>1, EffectKeepsIdsNew DEF Unused
  <2> QED
    BY <2>1, <2>2, LeavingKeepsIdsNew
<1>5. ASSUME NEW r \in Runs, Navigated(r)
      PROVE  Unused(id)'
  <2>1. store' = store
    BY <1>5 DEF Navigated, redis
  <2>2. CASE Leave(r, "ended")
    BY <2>1, <2>2, LeavingKeepsIdsNew DEF Unused
  <2>3. CASE ~Leave(r, "ended")
    <3>1. UNCHANGED <<copy, work, next>> /\ pc' = [pc EXCEPT ![r] = "list"] /\ pc[r] \in {"navigate", "found", "timeout"}
      BY <1>5, <2>3 DEF Navigated
    <3> QED
      BY <1>1, <2>1, <3>1 DEF Ahead, Unused, IdsAreNew, Typed, LocalTyped
  <2> QED
    BY <2>2, <2>3
<1>6. ASSUME NEW r \in Runs, ApplySegment(r)
      PROVE  Unused(id)'
  <2>1. PICK w \in Seq(CommandType) : /\ work' = [work EXCEPT ![r] = w]
                                     /\ \A i \in DOMAIN w : w[i].id = NextId(r) \/ w[i].id \in Live(copy[r])
    BY <1>6, SegmentCommands
  <2>2. /\ copy' = [copy EXCEPT ![r] = After(r)] /\ UNCHANGED store
        /\ pc' = [pc EXCEPT ![r] = "apply"] /\ next' = [next EXCEPT ![r] = @ + 1] /\ pc[r] \in {"list", "apply"}
    BY <1>6, NextIdIsNew, SegmentSent, SegmentAtHand DEF ApplySegment, redis
  <2>3. Ahead(id) /\ id # NextId(r)
    BY <1>1, <2>2 DEF Ahead, NextId, Typed, LocalTyped, Ids
  <2>4. Unused(id)
    BY <2>3 DEF IdsAreNew
  <2>5. id \notin Live(copy[r]) /\ copy[r][id] = NoRecord
    BY <2>4 DEF Unused, Live
  <2>6. After(r)[id] = NoRecord
    <3>1. id \notin Touched(r) /\ id \notin Gone(r)
      BY <2>5, TouchedIsLive
    <3> QED
      BY <2>3, <2>5, <3>1 DEF After
  <2>7. ASSUME NEW q \in Runs
        PROVE  copy'[q][id] = NoRecord /\ \A i \in DOMAIN work'[q] : work'[q][i].id # id
    <3>1. CASE q = r
      BY <2>1, <2>2, <2>3, <2>5, <2>6, <3>1 DEF Typed, LocalTyped
    <3>2. CASE q # r
      BY <2>1, <2>2, <2>4, <3>2 DEF Unused, Typed, LocalTyped
    <3> QED
      BY <3>1, <3>2
  <2> QED
    BY <2>2, <2>4, <2>7 DEF Unused
<1>7. ASSUME NEW r \in Runs, Evict(r)
      PROVE  Unused(id)'
  <2>1. PICK out \in Evictions(copy[r]) : \E w \in Deletes(out) : work' = [work EXCEPT ![r] = w]
    BY <1>7, EvictionSent
  <2>2. PICK w \in Deletes(out) : work' = [work EXCEPT ![r] = w]
    BY <2>1
  <2>3. UNCHANGED <<store, copy, next>> /\ pc[r] = "apply" /\ pc' = [pc EXCEPT ![r] = "evict"]
    BY <1>7 DEF Evict, redis
  <2>4. Unused(id)
    BY <1>1, <2>3 DEF Ahead, IdsAreNew, Typed, LocalTyped
  <2>5. \A i \in DOMAIN w : w[i].id # id
    BY <2>1, <2>4 DEF Deletes, Evictions, Live, Unused
  <2> QED
    BY <2>2, <2>3, <2>4, <2>5 DEF Unused, Typed, LocalTyped
<1>8. ASSUME NEW r \in Runs, Command(r)
      PROVE  Unused(id)'
  <2>1. /\ UNCHANGED <<pc, copy, next>> /\ work' = [work EXCEPT ![r] = Tail(@)]
        /\ work[r] # << >> /\ Effect(Head(work[r]))
    BY <1>8 DEF Command
  <2>2. Unused(id)
    BY <2>1 DEF Ahead, IdsAreNew
  <2>3. store'[id] = NoRecord
    BY <2>1, <2>2, EffectKeepsIdsNew
  <2>4. \A i \in DOMAIN Tail(work[r]) : Tail(work[r])[i].id # id
    BY <2>1, <2>2, CommandAtHand DEF Unused
  <2>5. ASSUME NEW q \in Runs
        PROVE  \A i \in DOMAIN work'[q] : work'[q][i].id # id
    <3>1. work'[q] = IF q = r THEN Tail(work[r]) ELSE work[q]
      BY <2>1 DEF Typed, LocalTyped
    <3> QED
      BY <2>2, <2>4, <3>1 DEF Unused
  <2> QED
    BY <2>1, <2>2, <2>3, <2>5 DEF Unused
<1>9. ASSUME NEW e \in Ids, Lapse(e)
      PROVE  Unused(id)'
  <2>1. UNCHANGED <<pc, copy, next, work>> /\ store' = [store EXCEPT ![e] = NoRecord]
    BY <1>9 DEF Lapse, local
  <2> QED
    BY <2>1 DEF Ahead, Unused, IdsAreNew, Typed, RedisTyped
<1> QED
  BY <1>2, <1>3, <1>4, <1>5, <1>6, <1>7, <1>8, <1>9 DEF Next, AllOver

\* What every step keeps: the types, the places, and that an id is used by one segment only.
LEMMA BaseInvariant == Spec => []Base
<1>1. Init => Base
  <2> SUFFICES ASSUME Init PROVE Base
    OBVIOUS
  <2>1. Nothing \in [Ids -> Entry] /\ Nothing = [id \in Ids |-> NoRecord]
    BY Parameters DEF Nothing
  <2>2. Typed
    BY <2>1 DEF Init, Typed, RedisTyped, LocalTyped, GhostTyped, Places, Keys
  <2>3. AllPlaced
    BY DEF Init, AllPlaced, Placed, Tiers, Writeback
  <2>4. IdsAreNew
    BY <2>1 DEF Init, IdsAreNew, Unused
  <2> QED
    BY <2>2, <2>3, <2>4 DEF Base
<1>2. Base /\ [Next]_vars => Base'
  <2> SUFFICES ASSUME Base, [Next]_vars PROVE Base'
    OBVIOUS
  <2>1. Typed' /\ AllPlaced'
    <3>1. CASE UNCHANGED vars
      BY <3>1 DEF vars, redis, local, ghost, Base, Typed, RedisTyped, LocalTyped, GhostTyped, AllPlaced, Placed, Nothing
    <3>2. CASE Next
      BY <3>1, <3>2, LookupIsTyped, WriteBackIsTyped, LapseIsTyped DEF Base, Next, AllOver
    <3> QED
      BY <3>1, <3>2
  <2>2. IdsAreNew'
    BY IdsStayNew DEF IdsAreNew
  <2> QED
    BY <2>1, <2>2 DEF Base
<1> QED
  BY <1>1, <1>2, PTL DEF Spec

-----------------------------------------------------------------------------
(* What a lookup finds.                                                    *)

\* The records that stay listed are still to be read, read, or found.
Sighted(r) ==
  /\ stable[r] \subseteq Listed(DomainOf[r])
  /\ pc[r] = "tier1" /\ asked[r] => stable[r] \subseteq unread[r] \cup Live(copy[r])
  /\ pc[r] \in {"tier3", "tier4", "found"} => stable[r] \subseteq found[r]

\* Steps of other runs take records out of the sight of history, and nothing else.
LEMMA SightedFromAfar ==
  ASSUME Base, NEW r \in Runs, Sighted(r),
         pc'[r] = pc[r], asked'[r] = asked[r], unread'[r] = unread[r], copy'[r] = copy[r], found'[r] = found[r],
         \/ stable'[r] = stable[r] /\ UNCHANGED redis
         \/ stable'[r] = StaysThrough[r]
  PROVE  Sighted(r)'
<1>1. stable'[r] \subseteq stable[r] /\ stable'[r] \subseteq Listed(DomainOf[r])'
  BY DEF StaysThrough, Sighted, Listed, redis
<1> QED
  BY <1>1 DEF Sighted, Live

\* Every step keeps what a lookup has in sight.
LEMMA SightedStays ==
  ASSUME Base, [Next]_vars, NEW r \in Runs, Sighted(r)
  PROVE  Sighted(r)'
<1> USE DEF Base
<1>1. CASE UNCHANGED vars
  BY <1>1, SightedFromAfar DEF vars, local, redis, ghost
<1>2. ASSUME NEW q \in Runs, q # r,
             \/ BeginLookup(q) \/ Smembers(q) \/ Get(q) \/ TierRead(q) \/ LookupTimeout(q) \/ LookupRejected(q)
             \/ Navigated(q) \/ ApplySegment(q) \/ Evict(q) \/ Command(q) \/ Finish(q) \/ WriteBackStops(q)
      PROVE  Sighted(r)'
  <2>1. /\ pc'[r] = pc[r] /\ asked'[r] = asked[r] /\ unread'[r] = unread[r] /\ copy'[r] = copy[r] /\ found'[r] = found[r]
    BY <1>2 DEF BeginLookup, Smembers, Get, TierRead, LookupTimeout, LookupRejected, Navigated, ApplySegment, Evict,
                Command, Finish, WriteBackStops, Leave, Typed, LocalTyped
  <2>2. (stable'[r] = stable[r] /\ UNCHANGED redis) \/ stable'[r] = StaysThrough[r]
    <3>1. CASE BeginLookup(q) \/ Smembers(q) \/ Get(q) \/ TierRead(q) \/ LookupTimeout(q) \/ ApplySegment(q) \/ Evict(q)
      BY <1>2, <3>1 DEF BeginLookup, Smembers, Get, TierRead, LookupTimeout, ApplySegment, Evict, ghost, Typed, GhostTyped
    <3>2. CASE Navigated(q) /\ ~Leave(q, "ended")
      BY <1>2, <3>2 DEF Navigated, Typed, GhostTyped
    <3>3. CASE Command(q)
      BY <3>3 DEF Command
    <3>4. CASE \E p \in {"ended", "failed"} : Leave(q, p)
      BY <1>2, <3>4, StaysIsTyped DEF Leave
    <3>5. LookupRejected(q) \/ Finish(q) \/ WriteBackStops(q) => \E p \in {"ended", "failed"} : Leave(q, p)
      BY DEF LookupRejected, Finish, WriteBackStops
    <3> QED
      BY <1>2, <3>1, <3>2, <3>3, <3>4, <3>5
  <2> QED
    BY <2>1, <2>2, SightedFromAfar
<1>3. CASE BeginLookup(r)
  <2>1. /\ pc'[r] \in {"tier1", "navigate"} /\ asked'[r] = FALSE /\ stable'[r] \subseteq Listed(DomainOf[r])
        /\ UNCHANGED redis
    BY <1>3 DEF BeginLookup, AllPlaced, Placed, Tiers, Writeback, Typed, LocalTyped, GhostTyped
  <2> QED
    BY <2>1 DEF Sighted, Listed, redis
<1>4. CASE Smembers(r)
  <2>1. PICK ids \in Members(r) : unread' = [unread EXCEPT ![r] = ids]
    BY <1>4 DEF Smembers
  <2>2. UNCHANGED <<store, members, pc, copy, found, stable>>
    BY <1>4 DEF Smembers, redis, ghost
  <2>3. pc[r] = "tier1" => stable[r] \subseteq unread'[r]
    <3>1. pc[r] = "tier1" => Listed(DomainOf[r]) \subseteq ids
      BY <2>1 DEF Members, Listed
    <3> QED
      BY <2>1, <3>1 DEF Sighted, Typed, LocalTyped
  <2> QED
    BY <2>2, <2>3 DEF Sighted, Listed, Live
<1>5. CASE Get(r)
  <2>1. PICK id \in unread[r] : /\ unread' = [unread EXCEPT ![r] = @ \ {id}]
                                /\ copy' = [copy EXCEPT ![r][id] = store[id]]
    BY <1>5 DEF Get
  <2>2. UNCHANGED <<store, members, pc, asked, found, stable>>
    BY <1>5 DEF Get, redis, ghost
  <2>3. ASSUME stable[r] \subseteq unread[r] \cup Live(copy[r]), NEW e \in stable[r]
        PROVE  e \in unread'[r] \cup Live(copy'[r])
    <3>1. store[e] # NoRecord /\ e \in Ids /\ id \in Ids
      BY <2>1, <2>3 DEF Sighted, Listed, Typed, GhostTyped, LocalTyped
    <3>2. CASE e = id
      <4>1. copy'[r][e] = store[e]
        BY <2>1, <3>1, <3>2 DEF Typed, LocalTyped
      <4> QED
        BY <3>1, <4>1 DEF Live
    <3>3. CASE e # id
      <4>1. copy'[r][e] = copy[r][e] /\ unread'[r] = unread[r] \ {id}
        BY <2>1, <3>1, <3>3 DEF Typed, LocalTyped
      <4> QED
        BY <2>3, <3>1, <3>3, <4>1 DEF Live
    <3> QED
      BY <3>2, <3>3
  <2>4. pc'[r] = "tier1" /\ asked'[r] => stable'[r] \subseteq unread'[r] \cup Live(copy'[r])
    BY <2>2, <2>3 DEF Sighted
  <2>5. Live(copy'[r]) = Live(copy[r])'
    BY DEF Live
  <2> QED
    BY <2>2, <2>4, <2>5 DEF Sighted, Listed
<1>6. CASE TierRead(r)
  <2>1. /\ pc[r] \in Tiers /\ asked[r] /\ unread[r] = {} /\ UNCHANGED <<store, members, stable>> /\ asked'[r] = FALSE
    BY <1>6 DEF TierRead, redis, ghost, Typed, LocalTyped
  <2> DEFINE more == Live(copy[r])
  <2>2. found' = [found EXCEPT ![r] = @ \cup more]
    BY <1>6 DEF TierRead
  <2>3. stable[r] \subseteq found[r] \cup more
    BY <2>1 DEF Sighted, Tiers
  <2> HIDE DEF more
  <2>4. found'[r] = found[r] \cup more
    BY <2>2 DEF Typed, LocalTyped
  <2> QED
    BY <2>1, <2>3, <2>4 DEF Sighted, Listed
<1>7. CASE LookupTimeout(r)
  <2>1. pc'[r] = "timeout" /\ UNCHANGED <<store, members, stable>>
    BY <1>7 DEF LookupTimeout, redis, ghost, Typed, LocalTyped
  <2> QED
    BY <2>1 DEF Sighted, Listed
<1>8. CASE \E p \in {"ended", "failed"} : Leave(r, p)
  <2>1. pc'[r] \in {"ended", "failed"} /\ stable'[r] = {}
    BY <1>8, StaysIsTyped DEF Leave, Typed, LocalTyped
  <2> QED
    BY <2>1 DEF Sighted
<1>9. CASE Navigated(r) /\ ~Leave(r, "ended")
  <2>1. pc'[r] = "list" /\ stable'[r] = {}
    BY <1>9 DEF Navigated, Typed, LocalTyped, GhostTyped
  <2> QED
    BY <2>1 DEF Sighted
<1>10. CASE ApplySegment(r) \/ Evict(r)
  <2>1. pc'[r] \in {"apply", "evict"} /\ UNCHANGED <<store, members, stable>>
    BY <1>10 DEF ApplySegment, Evict, redis, ghost, Typed, LocalTyped
  <2> QED
    BY <2>1 DEF Sighted, Listed
<1>11. CASE Command(r)
  BY <1>11, SightedFromAfar DEF Command
<1>12. ASSUME NEW id \in Ids, Lapse(id)
       PROVE  Sighted(r)'
  BY <1>12, SightedFromAfar DEF Lapse, local
<1>13. LookupRejected(r) \/ Finish(r) \/ WriteBackStops(r) => \E p \in {"ended", "failed"} : Leave(r, p)
  BY DEF LookupRejected, Finish, WriteBackStops
<1> QED
  BY <1>1, <1>2, <1>3, <1>4, <1>5, <1>6, <1>7, <1>8, <1>9, <1>10, <1>11, <1>12, <1>13 DEF Next, AllOver

\* A lookup that reports it completed has found every record of its own domain that was listed from its beginning
\* to its end, however many runs write back and evict meanwhile, whatever tier it stopped at.
THEOREM CompletedLookupsMissNothing == Spec => []LookupComplete
<1> DEFINE AllSighted == \A r \in Runs : Sighted(r)
<1>1. Init => AllSighted
  BY DEF Init, Sighted
<1>2. Base /\ [Next]_vars /\ AllSighted => AllSighted'
  BY SightedStays
<1>3. AllSighted => LookupComplete
  BY DEF Sighted, LookupComplete
<1> HIDE DEF AllSighted
<1> QED
  BY <1>1, <1>2, <1>3, BaseInvariant, PTL DEF Spec

-----------------------------------------------------------------------------
(* A write-back stays within the domain of its run.                        *)

AtHome(r) ==
  pc[r] \in Writeback =>
    /\ \A id \in unread[r] \cup Live(copy[r]) : Domain(id) = DomainOf[r]
    /\ \A i \in DOMAIN work[r] : Domain(work[r][i].id) = DomainOf[r]

\* A step of one run does not touch what another keeps.
LEMMA OthersKeepTheirs ==
  ASSUME Base, NEW r \in Runs, NEW q \in Runs, q # r,
         \/ BeginLookup(q) \/ Smembers(q) \/ Get(q) \/ TierRead(q) \/ LookupTimeout(q) \/ LookupRejected(q)
         \/ Navigated(q) \/ ApplySegment(q) \/ Evict(q) \/ Command(q) \/ Finish(q) \/ WriteBackStops(q)
  PROVE  /\ pc'[r] = pc[r] /\ asked'[r] = asked[r] /\ unread'[r] = unread[r] /\ copy'[r] = copy[r] /\ found'[r] = found[r]
         /\ trail'[r] = trail[r] /\ next'[r] = next[r] /\ work'[r] = work[r]
  BY DEF BeginLookup, Smembers, Get, TierRead, LookupTimeout, LookupRejected, Navigated, ApplySegment, Evict,
         Command, Finish, WriteBackStops, Leave, Base, Typed, LocalTyped

\* Where a run is when it leaves, or is still looking up or under way.
LEMMA OutOfWriteback ==
  ASSUME Base, NEW r \in Runs,
         \/ BeginLookup(r) \/ TierRead(r) \/ LookupTimeout(r)
         \/ \E p \in {"ended", "failed"} : Leave(r, p)
  PROVE  pc'[r] \notin Writeback
  BY DEF BeginLookup, TierRead, LookupTimeout, Leave, Writeback, Base, Typed, LocalTyped

\* The ways for a run to be done with the memory by an action of its own.
LEMMA Leavers ==
  ASSUME NEW r, LookupRejected(r) \/ Finish(r) \/ WriteBackStops(r)
  PROVE  \E p \in {"ended", "failed"} : Leave(r, p)
  BY DEF LookupRejected, Finish, WriteBackStops

\* Every step keeps a write-back within its domain.
LEMMA AtHomeStays ==
  ASSUME Base, [Next]_vars, NEW r \in Runs, AtHome(r)
  PROVE  AtHome(r)'
<1> USE DEF Base
<1>1. CASE UNCHANGED vars
  BY <1>1 DEF vars, local, AtHome, Live
<1>2. ASSUME NEW q \in Runs, q # r,
             \/ BeginLookup(q) \/ Smembers(q) \/ Get(q) \/ TierRead(q) \/ LookupTimeout(q) \/ LookupRejected(q)
             \/ Navigated(q) \/ ApplySegment(q) \/ Evict(q) \/ Command(q) \/ Finish(q) \/ WriteBackStops(q)
      PROVE  AtHome(r)'
  BY <1>2, OthersKeepTheirs DEF AtHome, Live
<1>3. CASE \/ BeginLookup(r) \/ TierRead(r) \/ LookupTimeout(r)
           \/ \E p \in {"ended", "failed"} : Leave(r, p)
  BY <1>3, OutOfWriteback DEF AtHome
<1>4. CASE Smembers(r)
  <2>1. PICK ids \in Members(r) : unread' = [unread EXCEPT ![r] = ids]
    BY <1>4 DEF Smembers
  <2>2. UNCHANGED <<pc, copy, work>>
    BY <1>4 DEF Smembers
  <2>3. pc[r] \in Writeback => pc[r] = "list"
    BY <1>4 DEF Smembers, Tiers, Writeback
  <2>4. pc[r] = "list" => \A id \in ids : Domain(id) = DomainOf[r]
    BY <2>1 DEF Members
  <2>5. unread'[r] = ids
    BY <2>1 DEF Typed, LocalTyped
  <2> QED
    BY <2>2, <2>3, <2>4, <2>5 DEF AtHome, Live
<1>5. CASE Get(r)
  <2>1. PICK id \in unread[r] : /\ unread' = [unread EXCEPT ![r] = @ \ {id}]
                                /\ copy' = [copy EXCEPT ![r][id] = store[id]]
    BY <1>5 DEF Get
  <2>2. UNCHANGED <<pc, work>>
    BY <1>5 DEF Get
  <2>3. unread'[r] \subseteq unread[r] /\ Live(copy'[r]) \subseteq Live(copy[r]) \cup {id}
    BY <2>1 DEF Live, Typed, LocalTyped
  <2> QED
    BY <2>1, <2>2, <2>3 DEF AtHome, Live
<1>6. CASE Navigated(r) /\ ~Leave(r, "ended")
  <2>1. /\ UNCHANGED <<asked, copy, work>> /\ unread' = unread /\ pc[r] \in {"navigate", "found", "timeout"}
    BY <1>6 DEF Navigated
  <2>2. unread[r] = {} /\ copy[r] = Nothing /\ work[r] = << >>
    BY <2>1 DEF AllPlaced, Placed, Tiers, Writeback
  <2>3. Live(copy[r]) = {}
    BY <2>2 DEF Live, Nothing
  <2> QED
    BY <2>1, <2>2, <2>3 DEF AtHome, Live
<1>7. CASE ApplySegment(r)
  <2>1. PICK w \in Seq(CommandType) : /\ work' = [work EXCEPT ![r] = w]
                                     /\ \A i \in DOMAIN w : w[i].id = NextId(r) \/ w[i].id \in Live(copy[r])
    BY <1>7, SegmentCommands
  <2>2. copy' = [copy EXCEPT ![r] = After(r)] /\ unread' = unread /\ unread[r] = {} /\ pc[r] \in Writeback
    BY <1>7, NextIdIsNew, SegmentSent, SegmentAtHand DEF ApplySegment, Writeback
  <2>3. Domain(NextId(r)) = DomainOf[r]
    BY DEF Domain, NextId
  <2>4. Live(After(r)) \subseteq Live(copy[r]) \cup {NextId(r)}
    <3>1. ASSUME NEW id \in Ids, copy[r][id] = NoRecord, id # NextId(r)
          PROVE  After(r)[id] = NoRecord
      <4>1. id \notin Gone(r) /\ id \notin Touched(r)
        BY <3>1, TouchedIsLive DEF Live
      <4> QED
        BY <3>1, <4>1 DEF After
    <3> QED
      BY <3>1 DEF Live
  <2>5. work'[r] = w /\ copy'[r] = After(r)
    BY <2>1, <2>2 DEF Typed, LocalTyped
  <2> QED
    BY <2>1, <2>2, <2>3, <2>4, <2>5 DEF AtHome, Live
<1>8. CASE Evict(r)
  <2>1. PICK out \in Evictions(copy[r]) : \E w \in Deletes(out) : work' = [work EXCEPT ![r] = w]
    BY <1>8, EvictionSent
  <2>2. PICK w \in Deletes(out) : work' = [work EXCEPT ![r] = w]
    BY <2>1
  <2>3. UNCHANGED <<unread, copy>> /\ pc[r] \in Writeback
    BY <1>8 DEF Evict, Writeback
  <2>4. \A i \in DOMAIN w : w[i].id \in Live(copy[r])
    BY <2>1 DEF Deletes, Evictions
  <2>5. work'[r] = w
    BY <2>2 DEF Typed, LocalTyped
  <2> QED
    BY <2>3, <2>4, <2>5 DEF AtHome, Live
<1>9. CASE Command(r)
  <2>1. UNCHANGED <<pc, unread, copy>> /\ work'[r] = Tail(work[r]) /\ work[r] # << >>
    BY <1>9 DEF Command, Typed, LocalTyped
  <2>2. \A i \in DOMAIN Tail(work[r]) : i + 1 \in DOMAIN work[r] /\ Tail(work[r])[i] = work[r][i + 1]
    BY <2>1, CommandAtHand
  <2> QED
    BY <2>1, <2>2 DEF AtHome, Live
<1>10. ASSUME NEW id \in Ids, Lapse(id)
       PROVE  AtHome(r)'
  BY <1>10 DEF Lapse, local, AtHome, Live
<1> QED
  BY <1>1, <1>2, <1>3, <1>4, <1>5, <1>6, <1>7, <1>8, <1>9, <1>10, Leavers DEF Next, AllOver

AllAtHome == \A r \in Runs : AtHome(r)

\* Every write-back stays within its domain.
LEMMA AtHomeInvariant == Spec => []AllAtHome
<1>1. Init => AllAtHome
  BY DEF Init, AllAtHome, AtHome, Writeback
<1>2. Base /\ [Next]_vars /\ AllAtHome => AllAtHome'
  BY AtHomeStays DEF AllAtHome
<1> QED
  BY <1>1, <1>2, BaseInvariant, PTL DEF Spec

-----------------------------------------------------------------------------
(* A success sinks only after enough failures.                             *)

Sunk(record) == record.outcome = "success" /\ record.confidence < Initial(record)
Counted(domain, journey, known) == {f \in known : Domain(f[1]) = domain /\ f[2] = journey}
Enough(domain, journey, known)  == Cardinality(Counted(domain, journey, known)) >= FailureThreshold

\* The failures among the first n - 1 commands of w.
Told(w, n) ==
  {f \in Ids \X Recovery : \E i \in DOMAIN w :
     /\ i < n /\ w[i].cmd = "SET" /\ w[i].record.outcome = "failure"
     /\ f = <<w[i].id, w[i].record.journey>>}
ToldIn(w) == Told(w, Len(w) + 1)

Warranted(id, record, known) == Sunk(record) => Enough(Domain(id), record.journey, known)
Noted(id, record, known)     == record.outcome = "failure" => <<id, record.journey>> \in known

\* What the store keeps; what a run has read, and what it is about to write, counting what it writes before.
Shelved == \A id \in Ids : Warranted(id, store[id], failures) /\ Noted(id, store[id], failures)
Heard(r) ==
  /\ \A id \in Ids : /\ Warranted(id, copy[r][id], failures \cup ToldIn(work[r]))
                     /\ Noted(id, copy[r][id], failures \cup ToldIn(work[r]))
  /\ \A i \in DOMAIN work[r] :
       work[r][i].cmd = "SET" => Warranted(work[r][i].id, work[r][i].record, failures \cup Told(work[r], i))

\* The failures counted for a journey are finitely many.
LEMMA CountedIsFinite ==
  ASSUME NEW known \in SUBSET (Ids \X Recovery), NEW domain, NEW journey
  PROVE  IsFiniteSet(Counted(domain, journey, known)) /\ Cardinality(Counted(domain, journey, known)) \in Nat
<1>1. IsFiniteSet({journey})
  BY FS_Singleton
<1>2. IsFiniteSet(Ids \X {journey})
  BY <1>1, IdsAreFinite, FS_Product
<1>3. Counted(domain, journey, known) \subseteq Ids \X {journey}
  BY DEF Counted
<1> QED
  BY <1>2, <1>3, FS_Subset, FS_CardinalityType

\* Enough failures remain enough when more are written.
LEMMA EnoughGrows ==
  ASSUME NEW more \in SUBSET (Ids \X Recovery), NEW known \in SUBSET more, NEW domain, NEW journey,
         Enough(domain, journey, known)
  PROVE  Enough(domain, journey, more)
<1>1. IsFiniteSet(Counted(domain, journey, more)) /\ Cardinality(Counted(domain, journey, more)) \in Nat
  BY CountedIsFinite
<1>2. Counted(domain, journey, known) \in SUBSET Counted(domain, journey, more)
  BY DEF Counted
<1>3. Cardinality(Counted(domain, journey, known)) <= Cardinality(Counted(domain, journey, more))
  BY <1>1, <1>2, FS_Subset
<1>4. Cardinality(Counted(domain, journey, known)) \in Nat
  BY CountedIsFinite
<1> QED
  BY <1>1, <1>3, <1>4, Parameters DEF Enough

\* What the failures warrant, more failures warrant.
LEMMA WarrantedGrows ==
  ASSUME NEW more \in SUBSET (Ids \X Recovery), NEW known \in SUBSET more, NEW id, NEW record
  PROVE  /\ Warranted(id, record, known) => Warranted(id, record, more)
         /\ Noted(id, record, known) => Noted(id, record, more)
  BY EnoughGrows DEF Warranted, Noted

\* The failures a run is about to write are failures, and none without commands.
LEMMA ToldIsTyped == \A w, n : Told(w, n) \subseteq Ids \X Recovery /\ Told(<< >>, n) = {}
  BY DEF Told

\* A run without copy and commands has nothing to warrant.
LEMMA NothingIsHeard ==
  ASSUME NEW r \in Runs, copy'[r] = Nothing, work'[r] = << >>
  PROVE  Heard(r)'
  BY DEF Heard, Nothing, Warranted, Noted, Sunk, NoRecord

\* What a run has read stays warranted when others write.
LEMMA HeardStays ==
  ASSUME Base, NEW r \in Runs, Heard(r), copy'[r] = copy[r], work'[r] = work[r],
         failures \subseteq failures', failures' \subseteq Ids \X Recovery
  PROVE  Heard(r)'
<1> DEFINE t == ToldIn(work[r])
           known == failures \cup t
           more == failures' \cup t
<1>1. known \in SUBSET more /\ more \in SUBSET (Ids \X Recovery)
  BY ToldIsTyped DEF ToldIn
<1>2. ASSUME NEW id \in Ids
      PROVE  Warranted(id, copy[r][id], more) /\ Noted(id, copy[r][id], more)
  <2>1. Warranted(id, copy[r][id], known) /\ Noted(id, copy[r][id], known)
    BY DEF Heard
  <2> HIDE DEF known, more
  <2> QED
    BY <1>1, <2>1, WarrantedGrows
<1>3. ASSUME NEW i \in DOMAIN work[r], work[r][i].cmd = "SET"
      PROVE  Warranted(work[r][i].id, work[r][i].record, failures' \cup Told(work[r], i))
  <2> DEFINE before == failures \cup Told(work[r], i)
             after == failures' \cup Told(work[r], i)
  <2>1. before \in SUBSET after /\ after \in SUBSET (Ids \X Recovery)
    BY ToldIsTyped
  <2>2. Warranted(work[r][i].id, work[r][i].record, before)
    BY <1>3 DEF Heard
  <2> HIDE DEF before, after
  <2>3. Warranted(work[r][i].id, work[r][i].record, after)
    BY <2>1, <2>2, WarrantedGrows
  <2> QED
    BY <2>3 DEF after
<1> QED
  BY <1>2, <1>3 DEF Heard

\* What a command does to the records and to the failures written.
LEMMA EffectTells ==
  ASSUME Typed, NEW c \in CommandType, Effect(c)
  PROVE  /\ failures \subseteq failures' /\ failures' \subseteq Ids \X Recovery
         /\ c.cmd = "SET" /\ c.record.outcome = "failure" => <<c.id, c.record.journey>> \in failures'
         /\ \A id \in Ids : store'[id] = IF c.cmd \in {"DEL", "SET"} /\ c.id = id THEN c.record ELSE store[id]
<1>1. c.record.outcome = "failure" => c.record.journey \in Recovery
  BY DEF CommandType, Entry, NoRecord
<1>2. failures' \subseteq Ids \X Recovery
  BY EffectIsTyped
<1>3. \A id \in Ids : store'[id] = IF c.cmd \in {"DEL", "SET"} /\ c.id = id THEN c.record ELSE store[id]
  BY DEF Effect, Typed, RedisTyped, CommandType
<1> QED
  BY <1>1, <1>2, <1>3 DEF Effect

\* A command leaves warranted records stored, as what it writes is warranted by what was written before it.
LEMMA EffectIsShelved ==
  ASSUME Base, Shelved, NEW r \in Runs, Heard(r), work[r] # << >>, Effect(Head(work[r]))
  PROVE  Shelved'
<1> DEFINE c == Head(work[r])
<1>1. c \in CommandType /\ c = work[r][1] /\ 1 \in DOMAIN work[r] /\ Effect(c)
  BY CommandAtHand DEF Base
<1> HIDE DEF c
<1>2. /\ failures \subseteq failures' /\ failures' \subseteq Ids \X Recovery
      /\ (c.cmd = "SET" /\ c.record.outcome = "failure" => <<c.id, c.record.journey>> \in failures')
      /\ \A id \in Ids : store'[id] = IF c.cmd \in {"DEL", "SET"} /\ c.id = id THEN c.record ELSE store[id]
  BY <1>1, EffectTells DEF Base
<1>3. c.cmd = "SET" => Warranted(c.id, c.record, failures)
  <2>1. c.cmd = "SET" => Warranted(c.id, c.record, failures \cup Told(work[r], 1))
    BY <1>1 DEF Heard
  <2>2. Told(work[r], 1) = {}
    <3>1. \A i \in DOMAIN work[r] : ~(i < 1)
      BY DEF Base, Typed, LocalTyped
    <3> QED
      BY <3>1 DEF Told
  <2> QED
    BY <2>1, <2>2
<1>4. ASSUME NEW id \in Ids
      PROVE  Warranted(id, store'[id], failures') /\ Noted(id, store'[id], failures')
  <2>1. CASE store'[id] = store[id]
    <3>1. Warranted(id, store[id], failures) /\ Noted(id, store[id], failures)
      BY DEF Shelved
    <3> QED
      BY <1>2, <2>1, <3>1, WarrantedGrows
  <2>2. CASE c.cmd = "SET" /\ c.id = id /\ store'[id] = c.record
    BY <1>2, <1>3, <2>2, WarrantedGrows DEF Noted
  <2>3. CASE c.cmd = "DEL" /\ store'[id] = c.record
    <3>1. c.record = NoRecord
      BY <1>1, <2>3 DEF CommandType
    <3> QED
      BY <2>3, <3>1 DEF Warranted, Noted, Sunk, NoRecord
  <2> QED
    BY <1>2, <2>1, <2>2, <2>3
<1> QED
  BY <1>4 DEF Shelved

\* A failure that was about to be written has been: nothing a run relies on is lost.
LEMMA SentIsTold ==
  ASSUME Base, NEW r \in Runs, Command(r), NEW n \in Nat
  PROVE  failures \cup Told(work[r], n + 1) \subseteq failures' \cup Told(Tail(work[r]), n)
<1> DEFINE w == work[r]
           t == Tail(w)
<1>1. w # << >> /\ Effect(Head(w))
  BY DEF Command
<1>2. /\ Head(w) \in CommandType /\ Head(w) = w[1] /\ w \in Seq(CommandType)
      /\ failures \subseteq failures'
      /\ Head(w).cmd = "SET" /\ Head(w).record.outcome = "failure" => <<Head(w).id, Head(w).record.journey>> \in failures'
  BY <1>1, CommandAtHand, EffectTells DEF Base, Typed, LocalTyped
<1>3. \A i \in DOMAIN w : i # 1 => i - 1 \in DOMAIN t /\ t[i - 1] = w[i] /\ i \in Nat
  <2> HIDE DEF w
  <2> QED
    BY <1>1, <1>2
<1> HIDE DEF w, t
<1>4. ASSUME NEW f \in Told(w, n + 1)
      PROVE  f \in failures' \cup Told(t, n)
  <2>1. PICK i \in DOMAIN w : /\ i < n + 1 /\ w[i].cmd = "SET" /\ w[i].record.outcome = "failure"
                             /\ f = <<w[i].id, w[i].record.journey>>
    BY DEF Told
  <2>2. CASE i = 1
    BY <1>2, <2>1, <2>2
  <2>3. CASE i # 1
    <3>1. i - 1 \in DOMAIN t /\ t[i - 1] = w[i] /\ i - 1 < n
      BY <1>3, <2>1, <2>3
    <3>2. f \in Ids \X Recovery
      BY DEF Told
    <3> QED
      BY <2>1, <3>1, <3>2 DEF Told
  <2> QED
    BY <2>2, <2>3
<1> QED
  BY <1>2, <1>4 DEF w, t

\* A failure that is sent passes from those about to be written to those written.
LEMMA CommandIsHeard ==
  ASSUME Base, NEW r \in Runs, Command(r), Heard(r)
  PROVE  Heard(r)'
<1> DEFINE w == work[r]
           t == Tail(w)
<1>1. /\ work'[r] = t /\ copy' = copy /\ w # << >> /\ Effect(Head(w)) /\ w \in Seq(CommandType) /\ t \in Seq(CommandType)
  BY CommandAtHand DEF Command, Base, Typed, LocalTyped
<1>2. Len(w) = Len(t) + 1 /\ Len(t) \in Nat
  <2> HIDE DEF w
  <2> QED
    BY <1>1
<1>3. \A i \in DOMAIN t : i \in Nat /\ i + 1 \in DOMAIN w /\ t[i] = w[i + 1]
  <2> HIDE DEF w
  <2> QED
    BY <1>1
<1>4. Head(w) \in CommandType
  BY <1>1, CommandAtHand DEF Base
<1>5. failures' \subseteq Ids \X Recovery
  BY <1>1, <1>4, EffectTells DEF Base
<1>6. \A n \in Nat : failures \cup Told(w, n + 1) \subseteq failures' \cup Told(t, n)
  BY SentIsTold
<1>7. Heard(r)
  OBVIOUS
<1>8. ASSUME NEW id \in Ids
      PROVE  /\ Warranted(id, copy[r][id], failures' \cup ToldIn(t))
             /\ Noted(id, copy[r][id], failures' \cup ToldIn(t))
  <2> DEFINE known == failures \cup ToldIn(w)
             more == failures' \cup ToldIn(t)
  <2>1. Warranted(id, copy[r][id], known) /\ Noted(id, copy[r][id], known)
    BY <1>7 DEF Heard
  <2>2. known \in SUBSET more /\ more \in SUBSET (Ids \X Recovery)
    <3>1. Len(w) + 1 = (Len(t) + 1) + 1 /\ Len(t) + 1 \in Nat
      BY <1>2
    <3> HIDE DEF w, t
    <3> QED
      BY <1>5, <1>6, <3>1, ToldIsTyped DEF ToldIn
  <2> HIDE DEF known, more
  <2>3. Warranted(id, copy[r][id], more) /\ Noted(id, copy[r][id], more)
    BY <2>1, <2>2, WarrantedGrows
  <2> QED
    BY <2>3 DEF more
<1>9. ASSUME NEW i \in DOMAIN t, t[i].cmd = "SET"
      PROVE  Warranted(t[i].id, t[i].record, failures' \cup Told(t, i))
  <2> DEFINE known == failures \cup Told(w, i + 1)
             more == failures' \cup Told(t, i)
  <2>1. Warranted(t[i].id, t[i].record, known)
    BY <1>3, <1>7, <1>9 DEF Heard
  <2>2. known \in SUBSET more /\ more \in SUBSET (Ids \X Recovery)
    BY <1>3, <1>5, <1>6, ToldIsTyped
  <2> HIDE DEF known, more
  <2>3. Warranted(t[i].id, t[i].record, more)
    BY <2>1, <2>2, WarrantedGrows
  <2> QED
    BY <2>3 DEF more
<1> HIDE DEF t
<1> QED
  BY <1>1, <1>8, <1>9 DEF Heard

\* Three parts of a write-back, one after the other.
LEMMA Layers ==
  ASSUME NEW a \in Seq(CommandType), NEW b \in Seq(CommandType), NEW c \in Seq(CommandType)
  PROVE  LET w == a \o b \o c
         IN  /\ w \in Seq(CommandType) /\ Len(a) \in Nat /\ Len(b) \in Nat
             /\ \A i \in DOMAIN a : i \in DOMAIN w /\ w[i] = a[i]
             /\ \A i \in DOMAIN b : Len(a) + i \in DOMAIN w /\ w[Len(a) + i] = b[i]
             /\ \A i \in DOMAIN c : Len(a) + Len(b) + i \in DOMAIN w /\ w[Len(a) + Len(b) + i] = c[i]
             /\ \A i \in DOMAIN w :
                  \/ i \in DOMAIN a /\ w[i] = a[i]
                  \/ i > Len(a) /\ i - Len(a) \in DOMAIN b /\ w[i] = b[i - Len(a)]
                  \/ i > Len(a) + Len(b) /\ i - (Len(a) + Len(b)) \in DOMAIN c /\ w[i] = c[i - (Len(a) + Len(b))]
<1> DEFINE ab == a \o b
           w == ab \o c
<1>1. ab \in Seq(CommandType) /\ Len(ab) = Len(a) + Len(b) /\ Len(a) \in Nat /\ Len(b) \in Nat
  OBVIOUS
<1>2. /\ \A i \in DOMAIN a : i \in DOMAIN ab /\ ab[i] = a[i]
      /\ \A i \in DOMAIN b : Len(a) + i \in DOMAIN ab /\ ab[Len(a) + i] = b[i]
      /\ \A i \in DOMAIN ab : (i \in DOMAIN a /\ ab[i] = a[i]) \/ (i > Len(a) /\ i - Len(a) \in DOMAIN b /\ ab[i] = b[i - Len(a)])
  OBVIOUS
<1> HIDE DEF ab
<1>3. /\ w \in Seq(CommandType)
      /\ \A i \in DOMAIN ab : i \in DOMAIN w /\ w[i] = ab[i]
      /\ \A i \in DOMAIN c : Len(ab) + i \in DOMAIN w /\ w[Len(ab) + i] = c[i]
      /\ \A i \in DOMAIN w : (i \in DOMAIN ab /\ w[i] = ab[i]) \/ (i > Len(ab) /\ i - Len(ab) \in DOMAIN c /\ w[i] = c[i - Len(ab)])
  <2>1. c \in Seq(CommandType)
    OBVIOUS
  <2>2. w \in Seq(CommandType) /\ \A i \in DOMAIN ab : i \in DOMAIN w /\ w[i] = ab[i]
    BY ONLY <1>1, <2>1
  <2>3. \A i \in DOMAIN c : Len(ab) + i \in DOMAIN w /\ w[Len(ab) + i] = c[i]
    BY ONLY <1>1, <2>1
  <2>4. \A i \in DOMAIN w : (i \in DOMAIN ab /\ w[i] = ab[i]) \/ (i > Len(ab) /\ i - Len(ab) \in DOMAIN c /\ w[i] = c[i - Len(ab)])
    BY ONLY <1>1, <2>1
  <2> HIDE DEF w
  <2> QED
    BY <2>2, <2>3, <2>4
<1> HIDE DEF w
<1>4. /\ w \in Seq(CommandType) /\ Len(a) \in Nat /\ Len(b) \in Nat
      /\ \A i \in DOMAIN a : i \in DOMAIN w /\ w[i] = a[i]
      /\ \A i \in DOMAIN b : Len(a) + i \in DOMAIN w /\ w[Len(a) + i] = b[i]
      /\ \A i \in DOMAIN c : Len(a) + Len(b) + i \in DOMAIN w /\ w[Len(a) + Len(b) + i] = c[i]
  BY <1>1, <1>2, <1>3
<1>5. ASSUME NEW i \in DOMAIN w
      PROVE  \/ (i \in DOMAIN a /\ w[i] = a[i])
             \/ (i > Len(a) /\ i - Len(a) \in DOMAIN b /\ w[i] = b[i - Len(a)])
             \/ (i > Len(a) + Len(b) /\ i - (Len(a) + Len(b)) \in DOMAIN c /\ w[i] = c[i - (Len(a) + Len(b))])
  BY <1>1, <1>2, <1>3, Zenon
<1>6. w = a \o b \o c
  BY DEF w, ab
<1> QED
  BY <1>4, <1>5, <1>6

\* The record of a segment is written first, and only then listed.
LEMMA RecordSent ==
  ASSUME NEW id \in Ids, NEW record \in Entry, record # NoRecord
  PROVE  LET b == WriteRecord(id, record)
         IN  /\ b \in Seq(CommandType) /\ 1 \in DOMAIN b /\ 2 \in DOMAIN b
             /\ b[1].cmd = "SET" /\ b[2].cmd = "SADD" /\ b[2].key = "domain"
             /\ \A i \in DOMAIN b : b[i].id = id /\ b[i].record = record /\ b[i].cmd \in {"SET", "SADD"}
             /\ \A i \in DOMAIN b : (b[i].cmd = "SET" => i = 1) /\ (b[i].key = "domain" => i = 2)
<1> DEFINE f == [e \in Ids |-> record]
           s == <<[cmd |-> "SET", key |-> "record", id |-> id, record |-> record],
                  [cmd |-> "SADD", key |-> "domain", id |-> id, record |-> record]>>
           m == IF MarketOf[id[1]] = NoMarket THEN <<>> ELSE <<[cmd |-> "SADD", key |-> "market", id |-> id, record |-> record]>>
           g == <<[cmd |-> "SADD", key |-> "global", id |-> id, record |-> record]>>
<1>1. f \in [Ids -> Entry] /\ f[id] = record /\ f[id] # NoRecord /\ id \in {id} /\ {id} \subseteq Ids
  OBVIOUS
<1> HIDE DEF f
<1>2. WriteRecord(id, f[id]) \in Writes({id}, f)
  BY <1>1, WriteSent
<1>3. s \in Seq(CommandType) /\ m \in Seq(CommandType) /\ g \in Seq(CommandType) /\ DOMAIN s = {1, 2}
      /\ s[1].cmd = "SET" /\ s[1].key = "record" /\ s[2].cmd = "SADD" /\ s[2].key = "domain"
  <2> DEFINE k == record
  <2>1. k \in Entry \ {NoRecord} /\ k = record
    OBVIOUS
  <2> HIDE DEF k
  <2>2. s \in Seq(CommandType)
    BY <2>1 DEF CommandType, Keys
  <2>3. m \in Seq(CommandType)
    <3>1. <<[cmd |-> "SADD", key |-> "market", id |-> id, record |-> k]>> \in Seq(CommandType)
      BY <2>1 DEF CommandType, Keys
    <3>2. << >> \in Seq(CommandType)
      OBVIOUS
    <3> QED
      BY <2>1, <3>1, <3>2, Zenon
  <2>4. g \in Seq(CommandType)
    BY <2>1 DEF CommandType, Keys
  <2>5. DOMAIN s = {1, 2} /\ s[1].cmd = "SET" /\ s[1].key = "record" /\ s[2].cmd = "SADD" /\ s[2].key = "domain"
    OBVIOUS
  <2> QED
    BY <2>2, <2>3, <2>4, <2>5
<1>4. WriteRecord(id, record) = s \o m \o g
  BY Zenon DEF WriteRecord
<1>6. /\ \A i \in DOMAIN m : m[i].cmd = "SADD" /\ m[i].key = "market"
      /\ \A i \in DOMAIN g : g[i].cmd = "SADD" /\ g[i].key = "global"
  OBVIOUS
<1> HIDE DEF s, m, g
<1> DEFINE b == s \o m \o g
<1>5. /\ b \in Seq(CommandType) /\ Len(s) \in Nat /\ Len(m) \in Nat
      /\ \A i \in DOMAIN s : i \in DOMAIN b /\ b[i] = s[i]
      /\ \A i \in DOMAIN m : Len(s) + i \in DOMAIN b /\ b[Len(s) + i] = m[i]
      /\ \A i \in DOMAIN g : Len(s) + Len(m) + i \in DOMAIN b /\ b[Len(s) + Len(m) + i] = g[i]
      /\ \A i \in DOMAIN b :
           \/ i \in DOMAIN s /\ b[i] = s[i]
           \/ i > Len(s) /\ i - Len(s) \in DOMAIN m /\ b[i] = m[i - Len(s)]
           \/ i > Len(s) + Len(m) /\ i - (Len(s) + Len(m)) \in DOMAIN g /\ b[i] = g[i - (Len(s) + Len(m))]
  <2>1. s \in Seq(CommandType) /\ m \in Seq(CommandType) /\ g \in Seq(CommandType)
    BY <1>3
  <2> QED
    BY ONLY <2>1, Layers
<1>7. WriteRecord(id, record) = b
  BY <1>4
<1> HIDE DEF b
<1>8. \A i \in DOMAIN b : (b[i].cmd = "SET" => i = 1) /\ (b[i].key = "domain" => i = 2)
  <2> SUFFICES ASSUME NEW i \in DOMAIN b
               PROVE  (b[i].cmd = "SET" => i = 1) /\ (b[i].key = "domain" => i = 2)
    OBVIOUS
  <2>1. CASE i \in DOMAIN s /\ b[i] = s[i]
    BY <1>3, <2>1
  <2>2. CASE i - Len(s) \in DOMAIN m /\ b[i] = m[i - Len(s)]
    BY <1>6, <2>2
  <2>3. CASE i - (Len(s) + Len(m)) \in DOMAIN g /\ b[i] = g[i - (Len(s) + Len(m))]
    BY <1>6, <2>3
  <2> QED
    BY <1>5, <2>1, <2>2, <2>3
<1> QED
  BY <1>1, <1>2, <1>3, <1>5, <1>7, <1>8 DEF Writes

\* Failures the run has read, and the one it brings, are different failures.
LEMMA FailingIsEnough ==
  ASSUME Base, NEW r \in Runs, ApplySegment(r), AtHome(r), Failing(copy[r], Seg(r)),
         \A id \in Ids : Noted(id, copy[r][id], failures)
  PROVE  Enough(DomainOf[r], Seg(r).journey, failures \cup {<<NextId(r), Seg(r).journey>>})
<1> DEFINE j == Seg(r).journey
           n == NextId(r)
           E == {id \in Equivalent(copy[r], Seg(r)) : copy[r][id].outcome = "failure"}
           S == E \cup {n}
           known == failures \cup {<<n, j>>}
           K == Counted(DomainOf[r], j, known)
           f == [id \in S |-> <<id, j>>]
<1>1. /\ n \in Ids /\ n \notin E /\ j \in Recovery /\ E \in SUBSET Ids /\ Domain(n) = DomainOf[r]
      /\ pc[r] \in Writeback
  <2>1. n \in Ids /\ n \notin Live(copy[r]) /\ Seg(r) \in Segment /\ pc[r] \in {"list", "apply"}
    BY NextIdIsNew, SegmentAtHand DEF Base
  <2>2. E \subseteq Live(copy[r]) /\ Live(copy[r]) \subseteq Ids
    BY LiveIds DEF Equivalent
  <2>3. Seg(r).outcome = "failure"
    BY DEF Failing
  <2>4. j \in Recovery
    BY <2>1, <2>3 DEF Segment
  <2> QED
    BY <2>1, <2>2, <2>4 DEF Writeback, NextId, Domain
<1>2. Cardinality(E) \in Nat /\ IsFiniteSet(E) /\ Cardinality(E) + 1 >= FailureThreshold
  BY <1>1, IdsAreFinite DEF Failing
<1>3. \A id \in E : <<id, j>> \in failures /\ Domain(id) = DomainOf[r]
  BY <1>1 DEF Noted, Equivalent, AtHome
<1>4. known \in SUBSET (Ids \X Recovery)
  BY <1>1 DEF Base, Typed, GhostTyped
<1>5. IsFiniteSet(K) /\ Cardinality(K) \in Nat
  BY <1>4, CountedIsFinite
<1>6. \A id \in S : <<id, j>> \in K
  BY <1>1, <1>3 DEF Counted
<1>7. Cardinality(S) = Cardinality(E) + 1
  BY <1>1, <1>2, FS_AddElement
<1> HIDE DEF E, K, S, known, n, j
<1>8. f \in [S -> K] /\ \A a, b \in S : f[a] = f[b] => a = b
  BY <1>6
<1> HIDE DEF f
<1>9. f \in Injection(S, K)
  BY <1>8 DEF Injection, IsInjective
<1>10. Cardinality(S) <= Cardinality(K)
  BY <1>5, <1>9, FS_Injection
<1> QED
  BY <1>2, <1>5, <1>7, <1>10, Parameters DEF Enough, K, known, n, j

\* What a segment makes of a success sinks it only with enough failures, counting the one the segment brings.
LEMMA ChangedIsWarranted ==
  ASSUME Base, NEW r \in Runs, ApplySegment(r), AtHome(r), Heard(r), NEW id \in Touched(r),
         NEW more \in SUBSET (Ids \X Recovery), failures \subseteq more,
         Seg(r).outcome = "failure" => <<NextId(r), Seg(r).journey>> \in more
  PROVE  Warranted(id, After(r)[id], more)
<1>1. /\ Seg(r) \in Segment /\ NextId(r) \in Ids /\ work[r] = << >> /\ NextId(r) \notin Live(copy[r]) /\ Typed
      /\ pc[r] \in Writeback
  BY SegmentAtHand, NextIdIsNew DEF Base, Writeback
<1>2. /\ id \in Ids /\ copy[r][id] \in Entry /\ copy[r][id] # NoRecord
      /\ After(r)[id].journey = copy[r][id].journey /\ After(r)[id].outcome = copy[r][id].outcome
  BY <1>1, ChangedStays
<1>3. \A e \in Ids : Warranted(e, copy[r][e], failures) /\ Noted(e, copy[r][e], failures)
  <2>1. failures \cup ToldIn(work[r]) = failures
    BY <1>1, ToldIsTyped DEF ToldIn
  <2> QED
    BY <2>1 DEF Heard
<1>4. CASE copy[r][id].outcome # "success"
  BY <1>2, <1>4 DEF Warranted, Sunk
<1>5. CASE copy[r][id].outcome = "success" /\ id \in Restored(copy[r], Seg(r))
  <2>1. copy[r][id].confidence < Fresh /\ copy[r][id].confidence \in Int
    BY <1>2, <1>5 DEF Restored, IsDecayed, Entry, Record, MinConfidence
  <2>2. Sunk(copy[r][id])
    BY <1>5, <2>1 DEF Sunk, Initial, Fresh
  <2>3. Enough(Domain(id), copy[r][id].journey, failures)
    BY <1>2, <1>3, <2>2 DEF Warranted
  <2>4. Enough(Domain(id), copy[r][id].journey, more)
    BY <2>3, EnoughGrows
  <2> QED
    BY <1>2, <2>4 DEF Warranted
<1>6. CASE id \in Decayed(copy[r], Seg(r))
  <2>1. Failing(copy[r], Seg(r)) /\ id \in Live(copy[r]) /\ copy[r][id].journey = Seg(r).journey
    BY <1>6 DEF Decayed, Equivalent
  <2>2. Domain(id) = DomainOf[r]
    BY <1>1, <2>1 DEF AtHome
  <2> DEFINE known == failures \cup {<<NextId(r), Seg(r).journey>>}
  <2>3. Enough(DomainOf[r], Seg(r).journey, known)
    BY <1>3, <2>1, FailingIsEnough
  <2>4. known \in SUBSET more
    BY <2>1 DEF Failing
  <2> HIDE DEF known
  <2>5. Enough(DomainOf[r], Seg(r).journey, more)
    BY <2>3, <2>4, EnoughGrows
  <2> QED
    BY <1>2, <2>1, <2>2, <2>5 DEF Warranted
<1> QED
  BY <1>4, <1>5, <1>6 DEF Touched

\* A segment changes copied records only with warrant, its own failure counted, which it writes first.
LEMMA SegmentIsHeard ==
  ASSUME Base, NEW r \in Runs, ApplySegment(r), AtHome(r), Heard(r)
  PROVE  Heard(r)'
<1> DEFINE n == NextId(r)
           new == NewRecord(Seg(r))
           f == After(r)
           b == WriteRecord(n, new)
<1>1. /\ Seg(r) \in Segment /\ n \in Ids /\ work[r] = << >> /\ n \notin Live(copy[r]) /\ Typed /\ AllPlaced
      /\ failures \subseteq Ids \X Recovery
  BY SegmentAtHand, NextIdIsNew DEF Base, Typed, GhostTyped
<1>2. PICK a \in Deletes(Gone(r)), c \in Writes(Touched(r), f) : work' = [work EXCEPT ![r] = a \o b \o c]
  BY <1>1, SegmentSent
<1> DEFINE w == a \o b \o c
<1>3. copy'[r] = f /\ work'[r] = w /\ failures' = failures
  <2>1. copy' = [copy EXCEPT ![r] = f]
    BY <1>1, SegmentSent
  <2> HIDE DEF w, f
  <2> QED
    BY <1>1, <1>2, <2>1 DEF ApplySegment, ghost, Typed, LocalTyped, w
<1>4. new \in Entry /\ new # NoRecord /\ ~Sunk(new) /\ new.outcome = Seg(r).outcome /\ new.journey = Seg(r).journey
  <2>1. new \in Entry /\ new # NoRecord /\ new.outcome = Seg(r).outcome /\ new.journey = Seg(r).journey
        /\ new.confidence = Initial(new)
    BY <1>1, NewRecordIsTyped
  <2>2. new.confidence \in Int
    BY <2>1 DEF Entry, Record, MinConfidence
  <2> HIDE DEF new
  <2> QED
    BY <2>1, <2>2 DEF Sunk
<1> HIDE DEF new, n
<1>5. /\ b \in Seq(CommandType) /\ 1 \in DOMAIN b /\ b[1].cmd = "SET"
      /\ \A i \in DOMAIN b : b[i].id = n /\ b[i].record = new
  BY <1>1, <1>4, RecordSent
<1> HIDE DEF b, f
<1>6. /\ w \in Seq(CommandType) /\ Len(a) \in Nat /\ Len(b) \in Nat
      /\ \A i \in DOMAIN b : Len(a) + i \in DOMAIN w /\ w[Len(a) + i] = b[i]
      /\ \A i \in DOMAIN w :
           \/ i \in DOMAIN a /\ w[i] = a[i]
           \/ i > Len(a) /\ i - Len(a) \in DOMAIN b /\ w[i] = b[i - Len(a)]
           \/ i > Len(a) + Len(b) /\ i - (Len(a) + Len(b)) \in DOMAIN c /\ w[i] = c[i - (Len(a) + Len(b))]
  <2>1. a \in Seq(CommandType) /\ c \in Seq(CommandType)
    BY DEF Deletes, Writes
  <2> QED
    BY <1>5, <2>1, Layers
<1> HIDE DEF w
<1>7. Len(b) >= 1
  BY <1>5
\* A failure is told before anything the segment changes is written.
<1>8. ASSUME NEW i \in Nat, i > Len(a) + Len(b)
      PROVE  Seg(r).outcome = "failure" => <<n, Seg(r).journey>> \in Told(w, i)
  <2>1. Len(a) + 1 \in DOMAIN w /\ w[Len(a) + 1] = b[1] /\ Len(a) + 1 < i
    BY <1>5, <1>6, <1>7, <1>8
  <2>2. Seg(r).outcome = "failure" => Seg(r).journey \in Recovery
    BY <1>1 DEF Segment
  <2>3. b[1].id = n /\ b[1].record.outcome = Seg(r).outcome /\ b[1].record.journey = Seg(r).journey /\ b[1].cmd = "SET"
    BY <1>4, <1>5
  <2> QED
    BY <1>1, <2>1, <2>2, <2>3 DEF Told
<1>9. \A i : failures \subseteq failures \cup Told(w, i) /\ failures \cup Told(w, i) \in SUBSET (Ids \X Recovery)
  BY <1>1, ToldIsTyped
<1>10. ASSUME NEW i \in DOMAIN w, w[i].cmd = "SET"
       PROVE  Warranted(w[i].id, w[i].record, failures \cup Told(w, i))
  <2>1. CASE i \in DOMAIN a /\ w[i] = a[i]
    BY <1>10, <2>1 DEF Deletes
  <2>2. CASE i - Len(a) \in DOMAIN b /\ w[i] = b[i - Len(a)]
    BY <1>4, <1>5, <2>2 DEF Warranted
  <2>3. CASE i > Len(a) + Len(b) /\ i - (Len(a) + Len(b)) \in DOMAIN c /\ w[i] = c[i - (Len(a) + Len(b))]
    <3> DEFINE more == failures \cup Told(w, i)
    <3>1. w[i].id \in Touched(r) /\ w[i].record = f[w[i].id]
      BY <2>3 DEF Writes
    <3>2. i \in Nat
      BY <1>6
    <3>3. Seg(r).outcome = "failure" => <<n, Seg(r).journey>> \in more
      BY <1>8, <2>3, <3>2
    <3>4. failures \subseteq more /\ more \in SUBSET (Ids \X Recovery)
      BY <1>9
    <3> HIDE DEF more
    <3>5. Warranted(w[i].id, f[w[i].id], more)
      BY <3>1, <3>3, <3>4, ChangedIsWarranted DEF f, n
    <3> QED
      BY <3>1, <3>5 DEF more
  <2> QED
    BY <1>6, <2>1, <2>2, <2>3
<1>11. ASSUME NEW id \in Ids
       PROVE  Warranted(id, f[id], failures \cup ToldIn(w)) /\ Noted(id, f[id], failures \cup ToldIn(w))
  <2> DEFINE more == failures \cup ToldIn(w)
  <2>1. failures \subseteq more /\ more \in SUBSET (Ids \X Recovery)
    BY <1>9 DEF ToldIn
  <2>2. Seg(r).outcome = "failure" => <<n, Seg(r).journey>> \in more
    <3>1. Len(w) + 1 \in Nat /\ Len(w) \in Nat
      BY <1>6
    <3>2. Len(a) + Len(b) \in DOMAIN w
      BY <1>5, <1>6, <1>7
    <3>3. Len(w) + 1 > Len(a) + Len(b)
      BY <1>6, <3>1, <3>2
    <3> QED
      BY <1>8, <3>1, <3>3 DEF ToldIn
  <2> HIDE DEF more
  <2>3. Warranted(id, copy[r][id], failures) /\ Noted(id, copy[r][id], failures)
    <3>1. failures \cup ToldIn(work[r]) = failures
      BY <1>1, ToldIsTyped DEF ToldIn
    <3> QED
      BY <3>1 DEF Heard
  <2>4. CASE id = n
    <3>1. id \notin Gone(r) /\ id \notin Touched(r)
      BY <1>1, <2>4, TouchedIsLive
    <3>2. f[id] = new
      BY <2>4, <3>1 DEF f, After, n, new
    <3> QED
      BY <1>4, <2>2, <2>4, <3>2 DEF Warranted, Noted, more
  <2>5. CASE id \in Touched(r)
    <3>1. Warranted(id, f[id], more)
      BY <2>1, <2>2, <2>5, ChangedIsWarranted DEF f, n
    <3>2. f[id].journey = copy[r][id].journey /\ f[id].outcome = copy[r][id].outcome
      BY <1>1, <2>5, ChangedStays DEF f, n
    <3> QED
      BY <2>1, <2>3, <3>1, <3>2 DEF Noted, more
  <2>6. CASE id # n /\ id \in Gone(r)
    <3>1. id \notin Touched(r)
      BY <1>1, <2>6, ChangedStays DEF n
    <3>2. f[id] = NoRecord
      BY <2>6, <3>1 DEF f, After, n
    <3> QED
      BY <3>2 DEF Warranted, Noted, Sunk, NoRecord
  <2>7. CASE id # n /\ id \notin Gone(r) /\ id \notin Touched(r)
    <3>1. f[id] = copy[r][id]
      BY <2>7 DEF f, After, n
    <3> QED
      BY <2>1, <2>3, <3>1, WarrantedGrows DEF more
  <2> QED
    BY <2>4, <2>5, <2>6, <2>7
<1> QED
  BY <1>3, <1>10, <1>11 DEF Heard

\* Failures are never forgotten.
LEMMA FailuresStay ==
  ASSUME Base, [Next]_vars
  PROVE  failures \subseteq failures' /\ failures' \subseteq Ids \X Recovery
<1>1. ASSUME NEW r \in Runs, work[r] # << >>, Effect(Head(work[r]))
      PROVE  failures \subseteq failures' /\ failures' \subseteq Ids \X Recovery
  BY <1>1, CommandAtHand, EffectTells DEF Base
<1>2. failures' = failures \/ \E r \in Runs : work[r] # << >> /\ Effect(Head(work[r]))
  <2>1. CASE UNCHANGED vars
    BY <2>1 DEF vars, ghost
  <2>2. ASSUME NEW r \in Runs,
               \/ BeginLookup(r) \/ Smembers(r) \/ Get(r) \/ TierRead(r) \/ LookupTimeout(r) \/ LookupRejected(r)
               \/ Navigated(r) \/ ApplySegment(r) \/ Evict(r) \/ Finish(r)
        PROVE  failures' = failures
    BY <2>2 DEF BeginLookup, Smembers, Get, TierRead, LookupTimeout, LookupRejected, Navigated, ApplySegment, Evict, Finish, ghost
  <2>3. ASSUME NEW r \in Runs, Command(r) \/ WriteBackStops(r)
        PROVE  failures' = failures \/ (work[r] # << >> /\ Effect(Head(work[r])))
    BY <2>3 DEF Command, WriteBackStops
  <2>4. ASSUME NEW id \in Ids, Lapse(id)
        PROVE  failures' = failures
    BY <2>4 DEF Lapse
  <2> QED
    BY <2>1, <2>2, <2>3, <2>4 DEF Next, AllOver
<1> QED
  BY <1>1, <1>2 DEF Base, Typed, GhostTyped

\* Every step keeps what a run has read and is about to write warranted.
LEMMA HeardByAll ==
  ASSUME Base, [Next]_vars, NEW r \in Runs, AtHome(r), Shelved, Heard(r)
  PROVE  Heard(r)'
<1>1. failures \subseteq failures' /\ failures' \subseteq Ids \X Recovery
  BY FailuresStay
<1>2. CASE copy'[r] = copy[r] /\ work'[r] = work[r]
  BY <1>1, <1>2, HeardStays
<1>3. CASE copy'[r] = Nothing /\ work'[r] = << >>
  BY <1>3, NothingIsHeard
<1>4. ASSUME NEW q \in Runs, q # r,
             \/ BeginLookup(q) \/ Smembers(q) \/ Get(q) \/ TierRead(q) \/ LookupTimeout(q) \/ LookupRejected(q)
             \/ Navigated(q) \/ ApplySegment(q) \/ Evict(q) \/ Command(q) \/ Finish(q) \/ WriteBackStops(q)
      PROVE  Heard(r)'
  BY <1>2, <1>4, OthersKeepTheirs
<1>5. CASE \E p \in {"ended", "failed"} : Leave(r, p)
  <2>1. copy'[r] = Nothing /\ work'[r] = << >>
    BY <1>5 DEF Leave, Base, Typed, LocalTyped
  <2> QED
    BY <1>3, <2>1
<1>6. CASE TierRead(r) \/ LookupTimeout(r)
  <2>1. copy'[r] = Nothing /\ work'[r] = << >>
    BY <1>6 DEF TierRead, LookupTimeout, Base, Typed, LocalTyped, AllPlaced, Placed, Tiers
  <2> QED
    BY <1>3, <2>1
<1>7. CASE BeginLookup(r) \/ Smembers(r) \/ (Navigated(r) /\ ~Leave(r, "ended"))
  BY <1>2, <1>7 DEF BeginLookup, Smembers, Navigated
<1>8. CASE Get(r)
  <2>1. PICK id \in unread[r] : copy' = [copy EXCEPT ![r][id] = store[id]]
    BY <1>8 DEF Get
  <2>2. work' = work /\ failures' = failures
    BY <1>8 DEF Get, ghost
  <2>3. ASSUME NEW e \in Ids
        PROVE  /\ Warranted(e, copy'[r][e], failures \cup ToldIn(work[r]))
               /\ Noted(e, copy'[r][e], failures \cup ToldIn(work[r]))
    <3> DEFINE more == failures \cup ToldIn(work[r])
    <3>1. more \in SUBSET (Ids \X Recovery) /\ failures \in SUBSET more
      BY ToldIsTyped DEF ToldIn, Base, Typed, GhostTyped
    <3>2. Warranted(e, copy[r][e], more) /\ Noted(e, copy[r][e], more)
      BY DEF Heard
    <3>3. Warranted(e, store[e], failures) /\ Noted(e, store[e], failures)
      BY DEF Shelved
    <3> HIDE DEF more
    <3>4. copy'[r][e] = copy[r][e] \/ copy'[r][e] = store[e]
      BY <2>1 DEF Base, Typed, LocalTyped
    <3>5. Warranted(e, copy'[r][e], more) /\ Noted(e, copy'[r][e], more)
      BY <3>1, <3>2, <3>3, <3>4, WarrantedGrows
    <3> QED
      BY <3>5 DEF more
  <2> QED
    BY <2>2, <2>3 DEF Heard
<1>9. CASE Evict(r)
  <2>1. PICK out \in Evictions(copy[r]) : \E w \in Deletes(out) : work' = [work EXCEPT ![r] = w]
    BY <1>9, EvictionSent
  <2>2. PICK w \in Deletes(out) : work' = [work EXCEPT ![r] = w]
    BY <2>1
  <2>3. work'[r] = w /\ copy' = copy /\ failures' = failures /\ work[r] = << >>
    BY <1>9, <2>2 DEF Evict, ghost, Base, Typed, LocalTyped
  <2>4. ASSUME NEW id \in Ids
        PROVE  /\ Warranted(id, copy[r][id], failures \cup ToldIn(w))
               /\ Noted(id, copy[r][id], failures \cup ToldIn(w))
    <3> DEFINE more == failures \cup ToldIn(w)
    <3>1. more \in SUBSET (Ids \X Recovery) /\ failures \in SUBSET more
      BY ToldIsTyped DEF ToldIn, Base, Typed, GhostTyped
    <3>2. failures \cup ToldIn(work[r]) = failures
      BY <2>3, ToldIsTyped DEF ToldIn
    <3>3. Warranted(id, copy[r][id], failures) /\ Noted(id, copy[r][id], failures)
      BY <3>2 DEF Heard
    <3> HIDE DEF more
    <3>4. Warranted(id, copy[r][id], more) /\ Noted(id, copy[r][id], more)
      BY <3>1, <3>3, WarrantedGrows
    <3> QED
      BY <3>4 DEF more
  <2>5. \A i \in DOMAIN w : w[i].cmd # "SET"
    BY DEF Deletes
  <2> QED
    BY <2>3, <2>4, <2>5 DEF Heard
<1>10. CASE ApplySegment(r)
  BY <1>10, SegmentIsHeard
<1>11. CASE Command(r)
  BY <1>11, CommandIsHeard
<1>12. CASE UNCHANGED vars \/ \E id \in Ids : Lapse(id)
  BY <1>2, <1>12 DEF vars, Lapse, local
<1> QED
  BY <1>4, <1>5, <1>6, <1>7, <1>8, <1>9, <1>10, <1>11, <1>12, Leavers DEF Next, AllOver

\* Every step keeps what is stored warranted.
LEMMA ShelvedStays ==
  ASSUME Base, [Next]_vars, Shelved, \A r \in Runs : Heard(r)
  PROVE  Shelved'
<1>1. failures \in SUBSET failures' /\ failures' \in SUBSET (Ids \X Recovery)
  BY FailuresStay
<1>2. ASSUME NEW r \in Runs, work[r] # << >>, Effect(Head(work[r]))
      PROVE  Shelved'
  BY <1>2, EffectIsShelved
<1>3. CASE \A id \in Ids : store'[id] \in {store[id], NoRecord}
  <2>1. ASSUME NEW id \in Ids
        PROVE  Warranted(id, store'[id], failures') /\ Noted(id, store'[id], failures')
    <3>1. CASE store'[id] = store[id]
      BY <1>1, <3>1, WarrantedGrows DEF Shelved
    <3>2. CASE store'[id] = NoRecord
      BY <3>2 DEF Warranted, Noted, Sunk, NoRecord
    <3> QED
      BY <1>3, <3>1, <3>2
  <2> QED
    BY <2>1 DEF Shelved
<1>4. \/ \A id \in Ids : store'[id] \in {store[id], NoRecord}
      \/ \E r \in Runs : work[r] # << >> /\ Effect(Head(work[r]))
  <2>1. CASE UNCHANGED vars
    BY <2>1 DEF vars, redis
  <2>2. ASSUME NEW r \in Runs,
               \/ BeginLookup(r) \/ Smembers(r) \/ Get(r) \/ TierRead(r) \/ LookupTimeout(r) \/ LookupRejected(r)
               \/ Navigated(r) \/ ApplySegment(r) \/ Evict(r) \/ Finish(r)
        PROVE  store' = store
    BY <2>2 DEF BeginLookup, Smembers, Get, TierRead, LookupTimeout, LookupRejected, Navigated, ApplySegment, Evict, Finish, redis
  <2>3. ASSUME NEW r \in Runs, Command(r) \/ WriteBackStops(r)
        PROVE  store' = store \/ (work[r] # << >> /\ Effect(Head(work[r])))
    BY <2>3 DEF Command, WriteBackStops, redis
  <2>4. ASSUME NEW id \in Ids, Lapse(id)
        PROVE  \A e \in Ids : store'[e] \in {store[e], NoRecord}
    BY <2>4 DEF Lapse, Base, Typed, RedisTyped
  <2> QED
    BY <2>1, <2>2, <2>3, <2>4 DEF Next, AllOver
<1> QED
  BY <1>2, <1>3, <1>4

\* A success in the store has lost confidence only after FailureThreshold failures of its journey were written in its
\* domain, also when two runs read before either writes and stale copies are written back, crash or are evicted.
THEOREM SuccessesSinkWithCause == Spec => []DecayJustified
<1> DEFINE Told0 == Shelved /\ \A r \in Runs : Heard(r)
<1>1. Init => Told0
  <2>1. Init => Shelved
    BY DEF Init, Shelved, Nothing, Warranted, Noted, Sunk, NoRecord
  <2>2. Init => \A r \in Runs : Heard(r)
    BY DEF Init, Heard, Nothing, Warranted, Noted, Sunk, NoRecord
  <2> QED
    BY <2>1, <2>2
<1>2. Base /\ AllAtHome /\ [Next]_vars /\ Told0 => Told0'
  BY HeardByAll, ShelvedStays DEF AllAtHome
<1>3. Told0 => DecayJustified
  <2> SUFFICES ASSUME Told0, NEW id \in Live(store), store[id].outcome = "success",
                      store[id].confidence < Initial(store[id])
               PROVE  Cardinality({f \in failures : Domain(f[1]) = Domain(id) /\ f[2] = store[id].journey}) >= FailureThreshold
    BY DEF DecayJustified
  <2>1. id \in Ids /\ Sunk(store[id])
    BY LiveIds DEF Sunk
  <2>2. Warranted(id, store[id], failures)
    BY <2>1 DEF Shelved
  <2> QED
    BY <2>1, <2>2 DEF Warranted, Enough, Counted
<1> HIDE DEF Told0
<1> QED
  BY <1>1, <1>2, <1>3, BaseInvariant, AtHomeInvariant, PTL DEF Spec

-----------------------------------------------------------------------------
(* What an eviction leaves.                                                *)

Adds(w, id) == \E i \in DOMAIN w : w[i].cmd \in {"SET", "SADD"} /\ w[i].id = id

\* No other run writes back to the domain of r.
Undisturbed(r) == pc[r] \in Writeback /\ \A q \in Runs \ {r} : DomainOf[q] = DomainOf[r] => pc[q] \notin Writeback

\* What r sees of its domain, from its list to its eviction: nothing is listed that it does not know or is about to
\* delete, and in the end no more is left than the cap allows.
Overseen(r) ==
  /\ pc[r] = "list" /\ asked[r] => Listed(DomainOf[r]) \subseteq unread[r] \cup Live(copy[r])
  /\ pc[r] = "apply" =>
       /\ \A id \in Listed(DomainOf[r]) : id \in Live(copy[r]) \/ Erases(work[r], id)
       /\ \A id \in Ids : Adds(work[r], id) => id \in Live(copy[r])
  /\ pc[r] = "evict" =>
       /\ \E kept \in SUBSET Ids : /\ Cardinality(kept) <= MaxRecords
                                  /\ \A id \in Listed(DomainOf[r]) : id \in kept \/ Erases(work[r], id)
       /\ \A id \in Ids : ~Adds(work[r], id)

Guarded(r) == alone[r] => Undisturbed(r) /\ Overseen(r)

\* What a command lists: nothing but its own id, which it does not delete.
LEMMA EffectLists ==
  ASSUME Typed, NEW c \in CommandType, Effect(c), NEW domain, NEW id \in Listed(domain)'
  PROVE  /\ id \in Ids /\ Domain(id) = domain /\ (id = c.id => c.cmd # "DEL")
         /\ id \in Listed(domain) \/ (id = c.id /\ c.cmd \in {"SET", "SADD"})
<1>1. id \in members'["domain"] /\ Domain(id) = domain /\ store'[id] # NoRecord
  BY DEF Listed
<1>2. RedisTyped'
  BY EffectIsTyped
<1>3. id \in Ids
  BY <1>1, <1>2 DEF RedisTyped, Keys
<1>4. c.cmd \in {"DEL", "SREM"} => c.record = NoRecord
  BY DEF CommandType
<1>5. store'[id] = IF c.cmd \in {"DEL", "SET"} /\ c.id = id THEN c.record ELSE store[id]
  BY <1>3, EffectTells
<1>6. id \in members["domain"] \/ (id = c.id /\ c.cmd = "SADD")
  BY <1>1 DEF Effect, Typed, RedisTyped, Keys
<1>7. c.cmd \in {"DEL", "SET", "SREM", "SADD"}
  BY DEF CommandType
<1> QED
  BY <1>1, <1>3, <1>4, <1>5, <1>6, <1>7 DEF Listed

\* Steps outside the domain, or that only take away, leave the view of r as it is.
LEMMA OverseenFromAfar ==
  ASSUME NEW r \in Runs, Overseen(r), Listed(DomainOf[r])' \subseteq Listed(DomainOf[r]),
         pc'[r] = pc[r], asked'[r] = asked[r], unread'[r] = unread[r], copy'[r] = copy[r], work'[r] = work[r]
  PROVE  Overseen(r)'
  BY DEF Overseen, Erases, Adds, Live

\* A command of the run itself keeps its domain overseen.
LEMMA CommandIsOverseen ==
  ASSUME Base, NEW r \in Runs, Command(r), Overseen(r)
  PROVE  Overseen(r)'
<1> DEFINE w == work[r]
           t == Tail(w)
           c == Head(w)
           L == Listed(DomainOf[r])
<1>1. /\ UNCHANGED <<pc, asked, unread, copy>> /\ work'[r] = t /\ w # << >> /\ Effect(c) /\ Typed
  BY DEF Command, Base, Typed, LocalTyped
<1>2. /\ c \in CommandType /\ t \in Seq(CommandType) /\ c = w[1] /\ 1 \in DOMAIN w /\ w \in Seq(CommandType)
      /\ \A i \in DOMAIN t : i + 1 \in DOMAIN w /\ t[i] = w[i + 1]
  BY <1>1, CommandAtHand DEF Typed, LocalTyped
<1>3. pc[r] \in {"apply", "evict"}
  BY <1>1 DEF Base, AllPlaced, Placed
<1>4. \A id \in L' : /\ id \in Ids /\ (id = c.id => c.cmd # "DEL")
                     /\ id \in L \/ (id = c.id /\ c.cmd \in {"SET", "SADD"})
  BY <1>1, <1>2, EffectLists
<1>5. \A id : Adds(t, id) => Adds(w, id)
  BY <1>2 DEF Adds
<1>6. ASSUME NEW id, Erases(w, id)
      PROVE  Erases(t, id) \/ (c.cmd = "DEL" /\ c.id = id)
  <2>1. PICK i \in DOMAIN w : w[i].cmd = "DEL" /\ w[i].id = id
    BY <1>6 DEF Erases
  <2>2. i # 1 => i - 1 \in DOMAIN t /\ t[i - 1] = w[i]
    <3> HIDE DEF w
    <3> QED
      BY <1>1, <1>2
  <2> HIDE DEF w, t, c
  <2> QED
    BY <1>2, <2>1, <2>2 DEF Erases
<1>7. c.cmd \in {"SET", "SADD"} => Adds(w, c.id)
  BY <1>2 DEF Adds
<1>8. CASE pc[r] = "apply"
  <2>1. \A id \in L' : id \in Live(copy[r]) \/ Erases(t, id)
    <3> HIDE DEF w, t, c
    <3>1. /\ \A id \in L : id \in Live(copy[r]) \/ Erases(w, id)
          /\ \A id \in Ids : Adds(w, id) => id \in Live(copy[r])
      BY <1>8 DEF Overseen, w
    <3> HIDE DEF L
    <3> QED
      BY <1>4, <1>6, <1>7, <3>1
  <2>2. \A id \in Ids : Adds(t, id) => id \in Live(copy[r])
    BY <1>5, <1>8 DEF Overseen
  <2>3. pc'[r] = "apply" /\ Live(copy[r])' = Live(copy[r])
    BY <1>1, <1>8 DEF Live
  <2> HIDE DEF t
  <2> QED
    BY <1>1, <2>1, <2>2, <2>3 DEF Overseen
<1>9. CASE pc[r] = "evict"
  <2>1. PICK kept \in SUBSET Ids : /\ Cardinality(kept) <= MaxRecords
                                   /\ \A id \in L : id \in kept \/ Erases(w, id)
    BY <1>9 DEF Overseen
  <2>2. \A id \in Ids : ~Adds(w, id)
    BY <1>9 DEF Overseen
  <2>3. \A id \in L' : id \in kept \/ Erases(t, id)
    <3> HIDE DEF w, t, c, L
    <3> QED
      BY <1>4, <1>6, <1>7, <2>1, <2>2
  <2>4. \A id \in Ids : ~Adds(t, id)
    BY <1>5, <2>2
  <2>5. pc'[r] = "evict"
    BY <1>1, <1>9
  <2> HIDE DEF t
  <2> QED
    BY <1>1, <2>1, <2>3, <2>4, <2>5 DEF Overseen
<1> QED
  BY <1>3, <1>8, <1>9

\* A segment writes what the copy holds after it and erases what it drops from it.
LEMMA SegmentIsOverseen ==
  ASSUME Base, NEW r \in Runs, ApplySegment(r), Overseen(r)
  PROVE  Overseen(r)'
<1> DEFINE n == NextId(r)
           new == NewRecord(Seg(r))
           b == WriteRecord(n, new)
<1>1. /\ Seg(r) \in Segment /\ n \in Ids /\ work[r] = << >> /\ n \notin Live(copy[r]) /\ Typed /\ AllPlaced
      /\ unread[r] = {} /\ pc[r] \in {"list", "apply"} /\ asked[r]
  BY SegmentAtHand, NextIdIsNew DEF Base
<1>2. PICK a \in Deletes(Gone(r)), c \in Writes(Touched(r), After(r)) :
        /\ \A id \in Gone(r) : Erases(a, id)
        /\ work' = [work EXCEPT ![r] = a \o b \o c]
  BY <1>1, SegmentSent
<1> DEFINE w == a \o b \o c
<1>3. copy'[r] = After(r) /\ work'[r] = w /\ UNCHANGED <<store, members>> /\ pc'[r] = "apply"
  <2>1. copy' = [copy EXCEPT ![r] = After(r)]
    BY <1>1, SegmentSent
  <2> HIDE DEF w
  <2> QED
    BY <1>1, <1>2, <2>1 DEF ApplySegment, redis, Typed, LocalTyped, w
<1>4. new \in Entry /\ new # NoRecord
  BY <1>1, NewRecordIsTyped
<1>5. b \in Seq(CommandType) /\ \A i \in DOMAIN b : b[i].id = n
  BY <1>1, <1>4, RecordSent
<1>6. After(r)[n] # NoRecord /\ \A id \in Touched(r) : After(r)[id] # NoRecord
  <2>1. n \notin Gone(r) /\ n \notin Touched(r)
    BY <1>1, TouchedIsLive
  <2>2. After(r)[n] = new
    BY <1>1, <2>1 DEF After
  <2> QED
    BY <1>1, <1>4, <2>2, ChangedStays
<1>7. \A id \in Live(copy[r]) : id \in Gone(r) \/ After(r)[id] # NoRecord
  <2> SUFFICES ASSUME NEW id \in Live(copy[r]), id \notin Gone(r), id \notin Touched(r)
               PROVE  After(r)[id] # NoRecord
    BY <1>6
  <2>1. id \in Ids /\ id # n /\ copy[r][id] # NoRecord
    BY <1>1 DEF Live
  <2> QED
    BY <2>1 DEF After
<1> HIDE DEF b, new, n
<1>8. /\ \A i \in DOMAIN a : i \in DOMAIN w /\ w[i] = a[i]
      /\ \A i \in DOMAIN w :
           \/ i \in DOMAIN a /\ w[i] = a[i]
           \/ i - Len(a) \in DOMAIN b /\ w[i] = b[i - Len(a)]
           \/ i - (Len(a) + Len(b)) \in DOMAIN c /\ w[i] = c[i - (Len(a) + Len(b))]
  <2>1. a \in Seq(CommandType) /\ c \in Seq(CommandType)
    BY DEF Deletes, Writes
  <2>2. /\ \A i \in DOMAIN a : i \in DOMAIN w /\ w[i] = a[i]
        /\ \A i \in DOMAIN w :
             \/ i \in DOMAIN a /\ w[i] = a[i]
             \/ i > Len(a) /\ i - Len(a) \in DOMAIN b /\ w[i] = b[i - Len(a)]
             \/ i > Len(a) + Len(b) /\ i - (Len(a) + Len(b)) \in DOMAIN c /\ w[i] = c[i - (Len(a) + Len(b))]
    BY <1>5, <2>1, Layers
  <2> HIDE DEF w
  <2> QED
    BY <2>2
<1> HIDE DEF w
<1>9. \A id \in Listed(DomainOf[r]) : id \in Live(copy[r])
  <2>1. \A id : ~Erases(work[r], id)
    BY <1>1 DEF Erases
  <2> QED
    BY <1>1, <2>1 DEF Overseen
<1>10. \A id \in Listed(DomainOf[r]) : id \in Live(After(r)) \/ Erases(w, id)
  <2>1. \A id \in Gone(r) : Erases(w, id)
    BY <1>2, <1>8 DEF Erases
  <2> QED
    BY <1>7, <1>9, <2>1, LiveIds DEF Live
<1>11. ASSUME NEW id \in Ids, Adds(w, id)
       PROVE  id \in Live(After(r))
  <2>1. PICK i \in DOMAIN w : w[i].cmd \in {"SET", "SADD"} /\ w[i].id = id
    BY <1>11 DEF Adds
  <2>2. ~(i \in DOMAIN a /\ w[i] = a[i])
    BY <2>1 DEF Deletes
  <2>3. id = n \/ id \in Touched(r)
    BY <1>5, <1>8, <2>1, <2>2 DEF Writes
  <2> QED
    BY <1>6, <2>3 DEF Live
<1> QED
  BY <1>3, <1>10, <1>11 DEF Overseen, Listed, Live

\* Eviction erases all of the copy but as many as the cap.
LEMMA EvictionIsOverseen ==
  ASSUME Base, NEW r \in Runs, Evict(r), Overseen(r)
  PROVE  Overseen(r)'
<1>1. PICK out \in Evictions(copy[r]) : \E w \in Deletes(out) :
        (\A id \in out : Erases(w, id)) /\ work' = [work EXCEPT ![r] = w]
  BY EvictionSent
<1>2. PICK w \in Deletes(out) : (\A id \in out : Erases(w, id)) /\ work' = [work EXCEPT ![r] = w]
  BY <1>1
<1>3. /\ pc[r] = "apply" /\ work[r] = << >> /\ pc'[r] = "evict" /\ work'[r] = w /\ UNCHANGED <<store, members>>
  BY <1>2 DEF Evict, redis, Base, Typed, LocalTyped
<1> DEFINE S == Live(copy[r])
           kept == S \ out
           over == Cardinality(S) - MaxRecords
<1>4. S \subseteq Ids /\ out \subseteq S /\ Cardinality(out) = Max({0, over})
  BY <1>1, LiveIds DEF Evictions
<1>5. IsFiniteSet(S) /\ IsFiniteSet(out) /\ Cardinality(S) \in Nat /\ Cardinality(out) \in Nat
  BY <1>4, IdsAreFinite
<1>6. over \in Int /\ MaxRecords \in Nat
  BY <1>5, Parameters
<1>7. Cardinality(kept) = Cardinality(S) - Cardinality(out)
  <2>1. S \cap out = out
    BY <1>4
  <2> HIDE DEF S
  <2> QED
    BY <1>5, <2>1, FS_Difference
<1>8. Cardinality(kept) <= MaxRecords
  <2>1. Cardinality(out) >= over
    <3>1. 0 \in Int
      OBVIOUS
    <3> HIDE DEF over
    <3>2. Max({0, over}) = (IF 0 >= over THEN 0 ELSE over)
      BY <1>6, <3>1, Extremes, Zenon
    <3> QED
      BY <1>4, <1>6, <3>2
  <2> HIDE DEF S
  <2> QED
    BY <1>5, <1>6, <1>7, <2>1
<1>9. \A id \in Listed(DomainOf[r]) : id \in kept \/ Erases(w, id)
  <2>1. \A id : ~Erases(work[r], id)
    BY <1>3 DEF Erases
  <2>2. \A id \in Listed(DomainOf[r]) : id \in S
    BY <1>3, <2>1 DEF Overseen
  <2> QED
    BY <1>2, <2>2
<1>10. \A id \in Ids : ~Adds(w, id)
  BY DEF Adds, Deletes
<1>11. kept \in SUBSET Ids
  BY <1>4
<1>12. Listed(DomainOf[r])' = Listed(DomainOf[r])
  BY <1>3 DEF Listed
<1> HIDE DEF kept
<1> QED
  BY <1>3, <1>8, <1>9, <1>10, <1>11, <1>12 DEF Overseen

\* Only its own write-back changes what is listed in an undisturbed domain; what expires is listed no more.
LEMMA ListedFromAfar ==
  ASSUME Base, AllAtHome, NEW r \in Runs, NEW q \in Runs, q # r, Undisturbed(r), work[q] # << >>, Effect(Head(work[q]))
  PROVE  Listed(DomainOf[r])' \subseteq Listed(DomainOf[r])
<1> DEFINE c == Head(work[q])
<1>1. c \in CommandType /\ c = work[q][1] /\ 1 \in DOMAIN work[q] /\ Typed
  BY CommandAtHand DEF Base
<1>2. pc[q] \in Writeback
  BY DEF Base, AllPlaced, Placed, Writeback
<1>3. Domain(c.id) # DomainOf[r]
  BY <1>1, <1>2 DEF Undisturbed, AllAtHome, AtHome
<1> HIDE DEF c
<1>4. Effect(c)
  BY DEF c
<1> QED
  BY <1>1, <1>3, <1>4, EffectLists

\* Steps of other runs leave the domain as it is, or the run no longer has it to itself.
LEMMA GuardedFromAfar ==
  ASSUME Base, AllAtHome, NEW r \in Runs, NEW q \in Runs, q # r, Guarded(r),
         \/ BeginLookup(q) \/ Smembers(q) \/ Get(q) \/ TierRead(q) \/ LookupTimeout(q) \/ LookupRejected(q)
         \/ Navigated(q) \/ ApplySegment(q) \/ Evict(q) \/ Command(q) \/ Finish(q) \/ WriteBackStops(q)
  PROVE  Guarded(r)'
<1> SUFFICES ASSUME alone'[r] PROVE Undisturbed(r)' /\ Overseen(r)'
  BY DEF Guarded
<1> USE DEF Base
<1>1. /\ pc'[r] = pc[r] /\ asked'[r] = asked[r] /\ unread'[r] = unread[r] /\ copy'[r] = copy[r] /\ work'[r] = work[r]
  BY OthersKeepTheirs
<1>2. \A p \in Runs : p # q => pc'[p] = pc[p]
  BY DEF BeginLookup, Smembers, Get, TierRead, LookupTimeout, LookupRejected, Navigated, ApplySegment, Evict,
         Command, Finish, WriteBackStops, Leave, Typed, LocalTyped
<1>3. CASE Navigated(q) /\ ~Leave(q, "ended")
  <2>1. /\ UNCHANGED <<store, members>>
        /\ alone' = [p \in Runs |-> IF p = q THEN {s \in Runs \ {q} : DomainOf[s] = DomainOf[q] /\ pc[s] \in Writeback} = {}
                                    ELSE alone[p] /\ p \notin {s \in Runs \ {q} : DomainOf[s] = DomainOf[q] /\ pc[s] \in Writeback}]
    BY <1>3 DEF Navigated, redis
  <2>2. alone[r] /\ ~(DomainOf[r] = DomainOf[q] /\ pc[r] \in Writeback)
    BY <2>1
  <2>3. Undisturbed(r) /\ Overseen(r)
    BY <2>2 DEF Guarded
  <2>4. DomainOf[q] # DomainOf[r]
    BY <2>2, <2>3 DEF Undisturbed
  <2>5. Undisturbed(r)'
    BY <1>1, <1>2, <2>3, <2>4 DEF Undisturbed
  <2>6. Overseen(r)'
    BY <1>1, <2>1, <2>3, OverseenFromAfar DEF Listed
  <2> QED
    BY <2>5, <2>6
<1>4. CASE ~(Navigated(q) /\ ~Leave(q, "ended"))
  <2>1. alone[r]
    <3>1. CASE \E p \in {"ended", "failed"} : Leave(q, p)
      BY <3>1 DEF Leave, Typed, GhostTyped
    <3>2. CASE ~\E p \in {"ended", "failed"} : Leave(q, p)
      <4>1. ~Leave(q, "ended") /\ ~LookupRejected(q) /\ ~Finish(q) /\ ~WriteBackStops(q) /\ ~Navigated(q)
        BY <1>4, <3>2, Leavers
      <4> QED
        BY <4>1 DEF BeginLookup, Smembers, Get, TierRead, LookupTimeout, ApplySegment, Evict, Command, ghost
    <3> QED
      BY <3>1, <3>2
  <2>2. Undisturbed(r) /\ Overseen(r)
    BY <2>1 DEF Guarded
  <2>3. pc'[q] \in Writeback => pc[q] \in Writeback
    <3>1. CASE \E p \in {"ended", "failed"} : Leave(q, p)
      BY <3>1, OutOfWriteback
    <3>2. CASE BeginLookup(q) \/ TierRead(q) \/ LookupTimeout(q)
      BY <3>2, OutOfWriteback
    <3>3. CASE Smembers(q) \/ Get(q) \/ Command(q)
      BY <3>3 DEF Smembers, Get, Command
    <3>4. CASE ApplySegment(q) \/ Evict(q)
      BY <3>4 DEF ApplySegment, Evict, Writeback
    <3> QED
      BY <1>4, <3>1, <3>2, <3>3, <3>4, Leavers
  <2>4. Undisturbed(r)'
    BY <1>1, <1>2, <2>2, <2>3 DEF Undisturbed
  <2>5. UNCHANGED redis \/ (work[q] # << >> /\ Effect(Head(work[q])))
    BY DEF BeginLookup, Smembers, Get, TierRead, LookupTimeout, LookupRejected, Navigated, ApplySegment, Evict,
           Command, Finish, WriteBackStops
  <2>6. Listed(DomainOf[r])' \subseteq Listed(DomainOf[r])
    <3>1. CASE UNCHANGED redis
      BY <3>1 DEF redis, Listed
    <3> QED
      BY <2>2, <2>5, <3>1, ListedFromAfar
  <2>7. Overseen(r)'
    BY <1>1, <2>2, <2>6, OverseenFromAfar
  <2> QED
    BY <2>4, <2>7
<1> QED
  BY <1>3, <1>4

\* The steps of the run itself.
LEMMA GuardedAtWork ==
  ASSUME Base, NEW r \in Runs, Guarded(r),
         \/ BeginLookup(r) \/ Smembers(r) \/ Get(r) \/ TierRead(r) \/ LookupTimeout(r) \/ LookupRejected(r)
         \/ Navigated(r) \/ ApplySegment(r) \/ Evict(r) \/ Command(r) \/ Finish(r) \/ WriteBackStops(r)
  PROVE  Guarded(r)'
<1> SUFFICES ASSUME alone'[r] PROVE Undisturbed(r)' /\ Overseen(r)'
  BY DEF Guarded
<1> USE DEF Base
<1>1. ~\E p \in {"ended", "failed"} : Leave(r, p)
  BY StaysIsTyped DEF Leave, Typed, GhostTyped
<1>2. ~LookupRejected(r) /\ ~Finish(r) /\ ~WriteBackStops(r) /\ ~Leave(r, "ended")
  BY <1>1, Leavers
<1>3. CASE Navigated(r)
  <2>1. /\ pc' = [pc EXCEPT ![r] = "list"] /\ UNCHANGED asked /\ pc[r] \in {"navigate", "found", "timeout"}
        /\ alone' = [p \in Runs |-> IF p = r THEN {s \in Runs \ {r} : DomainOf[s] = DomainOf[r] /\ pc[s] \in Writeback} = {}
                                    ELSE alone[p] /\ p \notin {s \in Runs \ {r} : DomainOf[s] = DomainOf[r] /\ pc[s] \in Writeback}]
    BY <1>2, <1>3 DEF Navigated
  <2>2. \A s \in Runs \ {r} : DomainOf[s] = DomainOf[r] => pc[s] \notin Writeback
    BY <2>1
  <2>3. pc'[r] = "list" /\ ~asked'[r] /\ \A s \in Runs \ {r} : pc'[s] = pc[s]
    BY <2>1 DEF Typed, LocalTyped, AllPlaced, Placed, Tiers, Writeback
  <2>4. Undisturbed(r)'
    BY <2>2, <2>3 DEF Undisturbed, Writeback
  <2> QED
    BY <2>3, <2>4 DEF Overseen
<1>4. CASE ~Navigated(r)
  <2>1. alone[r]
    BY <1>2, <1>4 DEF BeginLookup, Smembers, Get, TierRead, LookupTimeout, ApplySegment, Evict, Command, ghost
  <2>2. Undisturbed(r) /\ Overseen(r)
    BY <2>1 DEF Guarded
  <2>3. ~BeginLookup(r) /\ ~TierRead(r) /\ ~LookupTimeout(r)
    BY <2>2 DEF BeginLookup, TierRead, LookupTimeout, Undisturbed, Tiers, Writeback
  <2>4. Undisturbed(r)'
    <3>1. CASE Smembers(r) \/ Get(r) \/ Command(r)
      BY <2>2, <3>1 DEF Smembers, Get, Command, Undisturbed
    <3>2. CASE ApplySegment(r) \/ Evict(r)
      BY <2>2, <3>2 DEF ApplySegment, Evict, Undisturbed, Typed, LocalTyped, Writeback
    <3> QED
      BY <1>2, <1>4, <2>3, <3>1, <3>2
  <2>5. CASE Smembers(r)
    <3>1. PICK ids \in Members(r) : unread' = [unread EXCEPT ![r] = ids]
      BY <2>5 DEF Smembers
    <3>2. UNCHANGED <<store, members, pc, copy, work>> /\ pc[r] = "list"
      BY <2>2, <2>5 DEF Smembers, redis, Undisturbed, Tiers, Writeback
    <3>3. Listed(DomainOf[r]) \subseteq ids
      BY <3>1, <3>2 DEF Members, Listed
    <3>4. unread'[r] = ids
      BY <3>1 DEF Typed, LocalTyped
    <3> QED
      BY <2>4, <3>2, <3>3, <3>4 DEF Overseen, Listed
  <2>6. CASE Get(r)
    <3>1. PICK id \in unread[r] : /\ unread' = [unread EXCEPT ![r] = @ \ {id}]
                                  /\ copy' = [copy EXCEPT ![r][id] = store[id]]
      BY <2>6 DEF Get
    <3>2. UNCHANGED <<store, members, pc, asked, work>> /\ pc[r] = "list" /\ asked[r]
      BY <2>2, <2>6, <3>1 DEF Get, redis, Undisturbed, Writeback, AllPlaced, Placed
    <3>3. ASSUME NEW e \in Listed(DomainOf[r])
          PROVE  e \in unread'[r] \cup Live(copy'[r])
      <4>1. store[e] # NoRecord /\ e \in Ids /\ id \in Ids
        BY <3>1 DEF Listed, Typed, RedisTyped, LocalTyped, Keys
      <4>2. e \in unread[r] \cup Live(copy[r])
        BY <2>2, <3>2 DEF Overseen
      <4>3. CASE e = id
        <5>1. copy'[r][e] = store[e]
          BY <3>1, <4>1, <4>3 DEF Typed, LocalTyped
        <5> QED
          BY <4>1, <5>1 DEF Live
      <4>4. CASE e # id
        <5>1. copy'[r][e] = copy[r][e] /\ unread'[r] = unread[r] \ {id}
          BY <3>1, <4>1, <4>4 DEF Typed, LocalTyped
        <5> QED
          BY <4>1, <4>2, <4>4, <5>1 DEF Live
      <4> QED
        BY <4>3, <4>4
    <3>4. Live(copy'[r]) = Live(copy[r])' /\ Listed(DomainOf[r])' = Listed(DomainOf[r])
      BY <3>2 DEF Live, Listed
    <3> QED
      BY <2>4, <3>2, <3>3, <3>4 DEF Overseen
  <2>7. CASE ApplySegment(r)
    BY <2>2, <2>4, <2>7, SegmentIsOverseen
  <2>8. CASE Evict(r)
    BY <2>2, <2>4, <2>8, EvictionIsOverseen
  <2>9. CASE Command(r)
    BY <2>2, <2>4, <2>9, CommandIsOverseen
  <2> QED
    BY <1>2, <1>4, <2>3, <2>5, <2>6, <2>7, <2>8, <2>9
<1> QED
  BY <1>3, <1>4

AllGuarded == \A r \in Runs : Guarded(r)

\* A run that has its domain to itself oversees it.
LEMMA GuardedInvariant == Spec => []AllGuarded
<1>1. Init => AllGuarded
  BY DEF Init, AllGuarded, Guarded
<1>2. ASSUME Base, AllAtHome, [Next]_vars, AllGuarded
      PROVE  AllGuarded'
  <2> SUFFICES ASSUME NEW r \in Runs PROVE Guarded(r)'
    BY DEF AllGuarded
  <2>1. Guarded(r)
    BY <1>2 DEF AllGuarded
  <2>2. CASE UNCHANGED vars
    BY <2>1, <2>2 DEF vars, redis, local, ghost, Guarded, Undisturbed, Overseen, Listed, Live, Adds, Erases
  <2>3. ASSUME NEW id \in Ids, Lapse(id)
        PROVE  Guarded(r)'
    <3>1. UNCHANGED <<members, pc, asked, unread, copy, work, alone>> /\ store' = [store EXCEPT ![id] = NoRecord]
      BY <2>3 DEF Lapse, local
    <3>2. Listed(DomainOf[r])' \subseteq Listed(DomainOf[r])
      BY <1>2, <3>1 DEF Listed, Base, Typed, RedisTyped, Keys
    <3>3. Undisturbed(r) => Undisturbed(r)'
      BY <3>1 DEF Undisturbed
    <3>4. Overseen(r) => Overseen(r)'
      BY <3>1, <3>2, OverseenFromAfar
    <3> QED
      BY <2>1, <3>1, <3>3, <3>4 DEF Guarded
  <2> QED
    BY <1>2, <2>1, <2>2, <2>3, GuardedFromAfar, GuardedAtWork DEF Next, AllOver
<1> QED
  BY <1>1, <1>2, BaseInvariant, AtHomeInvariant, PTL DEF Spec

\* A write-back that had its domain to itself and reached its end leaves no more listed records than the cap,
\* whatever earlier write-backs left behind, and whatever other domains do meanwhile.
THEOREM EvictionRestoresTheCap == Spec => CapRestored
<1> DEFINE Ends(r) == pc[r] = "evict" /\ pc'[r] = "ended" /\ alone[r] /\ work[r] = <<>>
           Bounded == \A r \in Runs : Ends(r) => Cardinality(Listed(DomainOf[r])') <= MaxRecords
<1>1. ASSUME Base, AllGuarded, Base', [Next]_vars
      PROVE  [Bounded]_vars
  <2> SUFFICES ASSUME NEW r \in Runs, Ends(r), Next
               PROVE  Cardinality(Listed(DomainOf[r])') <= MaxRecords
    BY <1>1, Zenon
  <2> USE DEF Base
  <2>1. Listed(DomainOf[r])' \subseteq Listed(DomainOf[r])
    <3>1. UNCHANGED redis
      <4>1. ASSUME NEW q \in Runs, q # r,
                   \/ BeginLookup(q) \/ Smembers(q) \/ Get(q) \/ TierRead(q) \/ LookupTimeout(q) \/ LookupRejected(q)
                   \/ Navigated(q) \/ ApplySegment(q) \/ Evict(q) \/ Command(q) \/ Finish(q) \/ WriteBackStops(q)
            PROVE  FALSE
        <5>1. pc'[r] = pc[r]
          BY <1>1, <4>1, OthersKeepTheirs
        <5> QED
          BY <5>1
      <4>2. \/ BeginLookup(r) \/ Smembers(r) \/ Get(r) \/ TierRead(r) \/ LookupTimeout(r) \/ LookupRejected(r)
            \/ Navigated(r) \/ ApplySegment(r) \/ Evict(r) \/ Finish(r)
            => UNCHANGED redis
        BY DEF BeginLookup, Smembers, Get, TierRead, LookupTimeout, LookupRejected, Navigated, ApplySegment, Evict, Finish
      <4>3. ~Command(r)
        BY DEF Command
      <4>4. WriteBackStops(r) => UNCHANGED redis
        BY DEF WriteBackStops
      <4>5. \A id \in Ids : ~Lapse(id)
        BY DEF Lapse, local
      <4>6. ~AllOver
        BY DEF AllOver, vars, local
      <4> QED
        BY <4>1, <4>2, <4>3, <4>4, <4>5, <4>6 DEF Next
    <3> QED
      BY <3>1 DEF redis, Listed
  <2>2. PICK kept \in SUBSET Ids : /\ Cardinality(kept) <= MaxRecords
                                   /\ \A id \in Listed(DomainOf[r]) : id \in kept \/ Erases(work[r], id)
    BY <1>1 DEF AllGuarded, Guarded, Overseen
  <2>3. Listed(DomainOf[r])' \subseteq kept
    BY <2>1, <2>2 DEF Erases
  <2> DEFINE left == Listed(DomainOf[r])'
  <2>4. left \in SUBSET kept
    BY <2>3
  <2> HIDE DEF left
  <2>5. IsFiniteSet(kept) /\ Cardinality(kept) \in Nat /\ Cardinality(left) <= Cardinality(kept) /\ Cardinality(left) \in Nat
    BY <2>4, IdsAreFinite, FS_Subset
  <2>6. Cardinality(left) <= MaxRecords
    BY <2>2, <2>5, Parameters
  <2> QED
    BY <2>6 DEF left
<1>2. CapRestored <=> [][Bounded]_vars
  BY DEF CapRestored
<1> HIDE DEF Bounded
<1> QED
  BY <1>1, <1>2, BaseInvariant, GuardedInvariant, PTL DEF Spec

-----------------------------------------------------------------------------
(* One id, one journey: what is stored, read or about to be written.       *)

Version(id, v) ==
  /\ v # NoRecord
  /\ \/ v = store[id]
     \/ \E q \in Runs : v = copy[q][id]
     \/ \E q \in Runs : \E i \in DOMAIN work[q] : work[q][i].id = id /\ v = work[q][i].record

Same(u, v) == u.journey = v.journey /\ u.outcome = v.outcome
Alike == \A id \in Ids : \A u, v \in Entry : Version(id, u) /\ Version(id, v) => Same(u, v)

\* A version of an id is an old one with another confidence; only the next id of a run gets its first.
Follows(id, v) ==
  \/ \E u \in Entry : Version(id, u) /\ Same(u, v)
  \/ \E r \in Runs : ApplySegment(r) /\ id = NextId(r) /\ v = NewRecord(Seg(r))

\* Where the versions come from when no run applies a segment.
LEMMA VersionsMove ==
  ASSUME Typed, NEW id \in Ids, NEW v \in Entry, Version(id, v)',
         \/ store'[id] \in {store[id], NoRecord}
         \/ \E q \in Runs : work[q] # << >> /\ Head(work[q]).id = id /\ store'[id] = Head(work[q]).record,
         \A q \in Runs : copy'[q][id] \in {copy[q][id], store[id], NoRecord},
         \A q \in Runs :
           \/ work'[q] \in {work[q], << >>}
           \/ work[q] # << >> /\ work'[q] = Tail(work[q])
           \/ \A i \in DOMAIN work'[q] : work'[q][i].record = NoRecord
  PROVE  Version(id, v)
<1>1. \A q \in Runs : work[q] # << >> =>
        /\ Head(work[q]) = work[q][1] /\ 1 \in DOMAIN work[q]
        /\ \A i \in DOMAIN Tail(work[q]) : i + 1 \in DOMAIN work[q] /\ Tail(work[q])[i] = work[q][i + 1]
  BY CommandAtHand
<1>2. CASE v = store'[id]
  BY <1>1, <1>2 DEF Version
<1>3. ASSUME NEW q \in Runs, v = copy'[q][id]
      PROVE  Version(id, v)
  BY <1>3 DEF Version
<1>4. ASSUME NEW q \in Runs, NEW i \in DOMAIN work'[q], work'[q][i].id = id, v = work'[q][i].record
      PROVE  Version(id, v)
  <2>1. v # NoRecord
    BY DEF Version
  <2>2. CASE work'[q] = work[q]
    BY <1>4, <2>1, <2>2 DEF Version
  <2>3. CASE work[q] # << >> /\ work'[q] = Tail(work[q])
    <3>1. i + 1 \in DOMAIN work[q] /\ work[q][i + 1] = work'[q][i]
      BY <1>1, <2>3
    <3> QED
      BY <1>4, <2>1, <3>1 DEF Version
  <2> QED
    BY <1>4, <2>1, <2>2, <2>3
<1> QED
  BY <1>2, <1>3, <1>4 DEF Version

\* The versions there are after a segment: older ones rated anew, and that of the new id.
LEMMA AppliedVersions ==
  ASSUME Base, NEW r \in Runs, ApplySegment(r), NEW id \in Ids, NEW v \in Entry, Version(id, v)'
  PROVE  Follows(id, v)
<1> DEFINE n == NextId(r)
           new == NewRecord(Seg(r))
           b == WriteRecord(n, new)
<1>1. /\ Seg(r) \in Segment /\ n \in Ids /\ n \notin Live(copy[r]) /\ Typed /\ AllPlaced
  BY SegmentAtHand, NextIdIsNew DEF Base
<1>2. PICK a \in Deletes(Gone(r)), c \in Writes(Touched(r), After(r)) : work' = [work EXCEPT ![r] = a \o b \o c]
  BY <1>1, SegmentSent
<1> DEFINE w == a \o b \o c
<1>3. copy' = [copy EXCEPT ![r] = After(r)] /\ work'[r] = w /\ store' = store /\ v # NoRecord
      /\ \A q \in Runs \ {r} : copy'[q] = copy[q] /\ work'[q] = work[q]
  <2>1. copy' = [copy EXCEPT ![r] = After(r)]
    BY <1>1, SegmentSent
  <2>2. v # NoRecord
    BY DEF Version
  <2> HIDE DEF w
  <2> QED
    BY <1>1, <1>2, <2>1, <2>2 DEF ApplySegment, redis, Typed, LocalTyped, w
<1>4. new \in Entry /\ new # NoRecord
  BY <1>1, NewRecordIsTyped
<1>5. b \in Seq(CommandType) /\ \A i \in DOMAIN b : b[i].id = n /\ b[i].record = new
  BY <1>1, <1>4, RecordSent
<1>6. ASSUME NEW u, u # NoRecord, u \in Entry, u = copy[r][id]
      PROVE  Version(id, u)
  BY <1>6 DEF Version
<1>7. ASSUME id \in Touched(r), v = After(r)[id]
      PROVE  Follows(id, v)
  <2>1. copy[r][id] \in Entry /\ copy[r][id] # NoRecord /\ Same(copy[r][id], After(r)[id])
    BY <1>1, <1>7, ChangedStays DEF Same
  <2> QED
    BY <1>6, <1>7, <2>1 DEF Follows
<1>8. ASSUME id = n, v = new
      PROVE  Follows(id, v)
  BY <1>8 DEF Follows
<1>9. ASSUME v = After(r)[id]
      PROVE  Follows(id, v)
  <2>1. CASE id = n
    <3>1. n \notin Gone(r) /\ n \notin Touched(r)
      BY <1>1, TouchedIsLive
    <3>2. After(r)[id] = new
      BY <2>1, <3>1 DEF After
    <3> QED
      BY <1>8, <1>9, <2>1, <3>2
  <2>2. CASE id # n /\ id \notin Touched(r) /\ id \in Gone(r)
    <3>1. After(r)[id] = NoRecord
      BY <2>2 DEF After
    <3> QED
      BY <1>3, <1>9, <3>1
  <2>3. CASE id # n /\ id \notin Touched(r) /\ id \notin Gone(r)
    <3>1. After(r)[id] = copy[r][id]
      BY <2>3 DEF After
    <3> QED
      BY <1>3, <1>6, <1>9, <3>1 DEF Follows, Same
  <2> QED
    BY <1>7, <1>9, <2>1, <2>2, <2>3
<1> HIDE DEF b, new, n
<1>10. \A i \in DOMAIN w :
         \/ i \in DOMAIN a /\ w[i] = a[i]
         \/ i - Len(a) \in DOMAIN b /\ w[i] = b[i - Len(a)]
         \/ i - (Len(a) + Len(b)) \in DOMAIN c /\ w[i] = c[i - (Len(a) + Len(b))]
  <2>1. a \in Seq(CommandType) /\ c \in Seq(CommandType)
    BY DEF Deletes, Writes
  <2>2. \A i \in DOMAIN w :
             \/ i \in DOMAIN a /\ w[i] = a[i]
             \/ i > Len(a) /\ i - Len(a) \in DOMAIN b /\ w[i] = b[i - Len(a)]
             \/ i > Len(a) + Len(b) /\ i - (Len(a) + Len(b)) \in DOMAIN c /\ w[i] = c[i - (Len(a) + Len(b))]
    BY <1>5, <2>1, Layers
  <2> HIDE DEF w
  <2> QED
    BY <2>2
<1> HIDE DEF w
<1>11. ASSUME NEW i \in DOMAIN w, w[i].id = id, v = w[i].record
       PROVE  Follows(id, v)
  <2>1. CASE i \in DOMAIN a /\ w[i] = a[i]
    BY <1>3, <1>11, <2>1 DEF Deletes
  <2>2. CASE i - Len(a) \in DOMAIN b /\ w[i] = b[i - Len(a)]
    BY <1>5, <1>8, <1>11, <2>2
  <2>3. CASE i - (Len(a) + Len(b)) \in DOMAIN c /\ w[i] = c[i - (Len(a) + Len(b))]
    BY <1>7, <1>11, <2>3 DEF Writes
  <2> QED
    BY <1>10, <2>1, <2>2, <2>3
<1>12. ASSUME Version(id, v)
       PROVE  Follows(id, v)
  BY <1>12 DEF Follows, Same
<1>13. copy'[r] = After(r)
  <2> DEFINE f == After(r)
  <2> HIDE DEF f
  <2>1. copy' = [copy EXCEPT ![r] = f]
    BY <1>3 DEF f
  <2> QED
    BY <1>1, <2>1 DEF Typed, LocalTyped, f
<1> QED
  BY <1>3, <1>9, <1>11, <1>12, <1>13 DEF Version

\* After every step, a version follows from an older one or is the first of its id.
LEMMA VersionsFollow ==
  ASSUME Base, [Next]_vars, NEW id \in Ids, NEW v \in Entry, Version(id, v)'
  PROVE  Follows(id, v)
<1> USE DEF Base
<1>1. ASSUME Version(id, v)
      PROVE  Follows(id, v)
  BY <1>1 DEF Follows, Same
<1>2. ASSUME NEW r \in Runs,
             \/ BeginLookup(r) \/ Smembers(r) \/ Get(r) \/ TierRead(r) \/ LookupTimeout(r) \/ LookupRejected(r)
             \/ Navigated(r) \/ Finish(r) \/ WriteBackStops(r) \/ Command(r)
      PROVE  Version(id, v)
  <2>1. work[r] # << >> /\ Effect(Head(work[r])) =>
          \/ store'[id] \in {store[id], NoRecord}
          \/ Head(work[r]).id = id /\ store'[id] = Head(work[r]).record
    BY CommandAtHand, EffectTells
  <2>2. UNCHANGED redis \/ (work[r] # << >> /\ Effect(Head(work[r])))
    BY <1>2 DEF BeginLookup, Smembers, Get, TierRead, LookupTimeout, LookupRejected, Navigated, Command, Finish, WriteBackStops
  <2>3. \/ store'[id] \in {store[id], NoRecord}
        \/ \E q \in Runs : work[q] # << >> /\ Head(work[q]).id = id /\ store'[id] = Head(work[q]).record
    BY <2>1, <2>2 DEF redis
  <2>4. ASSUME NEW q \in Runs
        PROVE  copy'[q][id] \in {copy[q][id], store[id], NoRecord}
    <3>1. Nothing[id] = NoRecord
      BY DEF Nothing
    <3> DEFINE none == Nothing
    <3>2. none[id] = NoRecord
      BY <3>1
    <3> HIDE DEF none
    <3>3. \/ copy' = copy
          \/ \E e \in Ids : copy' = [copy EXCEPT ![r][e] = store[e]]
          \/ copy' = [copy EXCEPT ![r] = none]
      <4>1. CASE Get(r)
        BY <4>1 DEF Get, Typed, LocalTyped
      <4>2. CASE ~Get(r)
        BY <1>2, <4>2, Leavers DEF BeginLookup, Smembers, TierRead, LookupTimeout, Navigated, Command, Leave, none
      <4> QED
        BY <4>1, <4>2
    <3> QED
      BY <3>2, <3>3 DEF Typed, LocalTyped
  <2>5. ASSUME NEW q \in Runs
        PROVE  work'[q] \in {work[q], << >>} \/ (work[q] # << >> /\ work'[q] = Tail(work[q]))
    <3>1. work' \in {work, [work EXCEPT ![r] = << >>]} \/ (work[r] # << >> /\ work' = [work EXCEPT ![r] = Tail(@)])
      BY <1>2, Leavers DEF BeginLookup, Smembers, Get, TierRead, LookupTimeout, Navigated, Command, Leave
    <3> QED
      BY <3>1 DEF Typed, LocalTyped
  <2> QED
    BY <2>3, <2>4, <2>5, VersionsMove
<1>3. ASSUME NEW r \in Runs, Evict(r)
      PROVE  Version(id, v)
  <2>1. PICK out \in Evictions(copy[r]) : \E w \in Deletes(out) : work' = [work EXCEPT ![r] = w]
    BY <1>3, EvictionSent
  <2>2. PICK w \in Deletes(out) : work' = [work EXCEPT ![r] = w]
    BY <2>1
  <2>3. UNCHANGED <<store, copy>>
    BY <1>3 DEF Evict, redis
  <2>4. \A i \in DOMAIN w : w[i].record = NoRecord
    BY DEF Deletes
  <2>5. \A q \in Runs : work'[q] = work[q] \/ \A i \in DOMAIN work'[q] : work'[q][i].record = NoRecord
    BY <2>2, <2>4 DEF Typed, LocalTyped
  <2> QED
    BY <2>3, <2>5, VersionsMove
<1>4. ASSUME NEW r \in Runs, ApplySegment(r)
      PROVE  Follows(id, v)
  BY <1>4, AppliedVersions
<1>5. ASSUME NEW e \in Ids, Lapse(e)
      PROVE  Version(id, v)
  <2>1. UNCHANGED <<copy, work>> /\ store'[id] \in {store[id], NoRecord}
    BY <1>5 DEF Lapse, local, Typed, RedisTyped
  <2> QED
    BY <2>1, VersionsMove
<1>6. CASE UNCHANGED vars
  <2>1. UNCHANGED <<store, copy, work>>
    BY <1>6 DEF vars, redis, local
  <2> QED
    BY <2>1, VersionsMove, <1>1
<1> QED
  BY <1>1, <1>2, <1>3, <1>4, <1>5, <1>6 DEF Next, AllOver

\* An id that a segment is given has no version yet.
LEMMA NewIdsHaveNoVersion ==
  ASSUME Base, NEW r \in Runs, ApplySegment(r), NEW v
  PROVE  ~Version(NextId(r), v)
  BY NextIdIsNew DEF Version, Unused

\* All versions of an id agree on journey and outcome.
LEMMA AlikeInvariant == Spec => []Alike
<1>1. Init => Alike
  BY DEF Init, Alike, Version, Nothing
<1>2. ASSUME Base, [Next]_vars, Alike
      PROVE  Alike'
  <2> SUFFICES ASSUME NEW id \in Ids, NEW u \in Entry, NEW v \in Entry, Version(id, u)', Version(id, v)'
               PROVE  Same(u, v)
    BY DEF Alike, Same
  <2>1. Follows(id, u) /\ Follows(id, v)
    BY <1>2, VersionsFollow
  <2>2. ASSUME NEW r \in Runs, ApplySegment(r), id = NextId(r), NEW q \in Runs, ApplySegment(q), id = NextId(q)
        PROVE  r = q
    BY <2>2 DEF NextId
  <2>3. CASE \E r \in Runs : ApplySegment(r) /\ id = NextId(r)
    <3>1. \A x : ~Version(id, x)
      BY <1>2, <2>3, NewIdsHaveNoVersion
    <3> QED
      BY <2>1, <2>2, <3>1 DEF Follows, Same
  <2>4. CASE ~\E r \in Runs : ApplySegment(r) /\ id = NextId(r)
    <3>1. PICK a \in Entry : Version(id, a) /\ Same(a, u)
      BY <2>1, <2>4 DEF Follows
    <3>2. PICK b \in Entry : Version(id, b) /\ Same(b, v)
      BY <2>1, <2>4 DEF Follows
    <3> QED
      BY <1>2, <3>1, <3>2 DEF Alike, Same
  <2> QED
    BY <2>3, <2>4
<1> QED
  BY <1>1, <1>2, BaseInvariant, PTL DEF Spec

-----------------------------------------------------------------------------
(* A verified journey keeps its evidence.                                  *)

\* What a command leaves of the indexes.
LEMMA EffectIndexes ==
  ASSUME Typed, NEW c \in CommandType, Effect(c), NEW k \in Keys, NEW id \in Ids
  PROVE  /\ id # c.id => (id \in members'[k] <=> id \in members[k])
         /\ c.cmd # "SREM" /\ id \in members[k] => id \in members'[k]
         /\ c.cmd = "SADD" /\ c.key = k => c.id \in members'[k]
         /\ c.cmd \in {"DEL", "SET"} => members' = members
<1>1. members \in [Keys -> SUBSET Ids] /\ c.cmd \in {"DEL", "SET", "SADD", "SREM"}
  BY DEF Typed, RedisTyped, CommandType
<1>2. CASE c.cmd \in {"DEL", "SET"}
  <2>1. members' = members
    BY <1>2 DEF Effect
  <2> QED
    BY <1>2, <2>1
<1>3. CASE c.cmd = "SADD"
  <2>1. members' = [members EXCEPT ![c.key] = @ \cup {c.id}]
    BY <1>3 DEF Effect
  <2> QED
    BY <1>1, <1>3, <2>1
<1>4. CASE c.cmd = "SREM"
  <2>1. members' = [members EXCEPT ![c.key] = @ \ {c.id}]
    BY <1>4 DEF Effect
  <2> QED
    BY <1>1, <1>4, <2>1
<1> QED
  BY <1>1, <1>2, <1>3, <1>4

\* What SMEMBERS answers is in an index.
LEMMA MembersAreListed ==
  ASSUME NEW r \in Runs, pc[r] \in Tiers \cup {"list"}, NEW ids \in Members(r), NEW id \in ids
  PROVE  \E k \in Keys : id \in members[k]
  BY DEF Members, Tiers, Keys, Scans

\* An id that is still to come was still to come before.
LEMMA AheadStays ==
  ASSUME Base, [Next]_vars, NEW id \in Ids, Ahead(id)'
  PROVE  Ahead(id)
<1> USE DEF Base, Typed, LocalTyped
<1>1. id[1] \in Runs /\ id[2] \in Nat
  BY Parameters DEF Ids
<1>2. CASE UNCHANGED vars
  BY <1>2 DEF vars, local, Ahead
<1>3. ASSUME NEW r \in Runs, \E p \in {"ended", "failed"} : Leave(r, p)
      PROVE  Ahead(id)
  BY <1>1, <1>3 DEF Leave, Ahead
<1>4. ASSUME NEW r \in Runs, BeginLookup(r) \/ Smembers(r) \/ Get(r) \/ TierRead(r) \/ LookupTimeout(r)
      PROVE  Ahead(id)
  BY <1>1, <1>4 DEF BeginLookup, Smembers, Get, TierRead, LookupTimeout, Ahead, Tiers
<1>5. ASSUME NEW r \in Runs, Navigated(r), ~Leave(r, "ended")
      PROVE  Ahead(id)
  <2>1. UNCHANGED next /\ pc' = [pc EXCEPT ![r] = "list"] /\ pc[r] \in {"navigate", "found", "timeout"}
    BY <1>5 DEF Navigated
  <2> QED
    BY <1>1, <2>1 DEF Ahead
<1>6. ASSUME NEW r \in Runs, ApplySegment(r) \/ Evict(r)
      PROVE  Ahead(id)
  <2>1. CASE ApplySegment(r)
    <3>1. /\ next' = [next EXCEPT ![r] = @ + 1] /\ pc[r] \in {"list", "apply"}
          /\ pc' = [pc EXCEPT ![r] = "apply"]
      BY <2>1 DEF ApplySegment
    <3> QED
      BY <1>1, <3>1 DEF Ahead
  <2>2. CASE Evict(r)
    <3>1. UNCHANGED next /\ pc[r] = "apply" /\ pc' = [pc EXCEPT ![r] = "evict"]
      BY <2>2 DEF Evict
    <3> QED
      BY <1>1, <3>1 DEF Ahead
  <2> QED
    BY <1>6, <2>1, <2>2
<1>7. ASSUME NEW r \in Runs, Command(r)
      PROVE  Ahead(id)
  BY <1>7 DEF Command, Ahead
<1>8. ASSUME NEW e \in Ids, Lapse(e)
      PROVE  Ahead(id)
  BY <1>8 DEF Lapse, local, Ahead
<1> QED
  BY <1>2, <1>3, <1>4, <1>5, <1>6, <1>7, <1>8, Leavers DEF Next, AllOver

\* No index has heard of an id that is still to come.
Unseen == \A id \in Ids : Ahead(id) =>
  (\A k \in Keys : id \notin members[k]) /\ (\A q \in Runs : id \notin unread[q])

\* An id that is still ahead of its run is in no index, and no run has been told of it.
LEMMA UnseenInvariant == Spec => []Unseen
<1>1. Init => Unseen
  BY DEF Init, Unseen, Keys
<1>2. ASSUME Base, [Next]_vars, Unseen
      PROVE  Unseen'
  <2> SUFFICES ASSUME NEW id \in Ids, Ahead(id)'
               PROVE  (\A k \in Keys : id \notin members'[k]) /\ (\A q \in Runs : id \notin unread'[q])
    BY DEF Unseen
  <2>1. /\ \A k \in Keys : id \notin members[k]
        /\ \A q \in Runs : id \notin unread[q] /\ \A i \in DOMAIN work[q] : work[q][i].id # id
    BY <1>2, AheadStays DEF Unseen, Base, IdsAreNew, Unused
  <2> HIDE DEF Ahead
  <2> USE <1>2 DEF Base
  <2>2. ASSUME NEW r \in Runs, work[r] # << >>, Effect(Head(work[r]))
        PROVE  \A k \in Keys : id \notin members'[k]
    <3>1. Head(work[r]) \in CommandType /\ Head(work[r]).id # id
      BY <2>1, <2>2, CommandAtHand
    <3> QED
      BY <2>1, <2>2, <3>1, EffectIndexes
  <2>3. ASSUME members' = members
        PROVE  \A k \in Keys : id \notin members'[k]
    BY <2>1, <2>3
  <2>4. ASSUME unread' = unread
        PROVE  \A q \in Runs : id \notin unread'[q]
    BY <2>1, <2>4
  <2>5. ASSUME NEW r \in Runs, \E p \in {"ended", "failed"} : Leave(r, p)
        PROVE  \A q \in Runs : id \notin unread'[q]
    BY <2>1, <2>5 DEF Leave, Typed, LocalTyped
  <2>6. ASSUME NEW r \in Runs, LookupRejected(r) \/ Finish(r) \/ WriteBackStops(r) \/ Command(r)
        PROVE  \A k \in Keys : id \notin members'[k]
    BY <2>2, <2>3, <2>6 DEF LookupRejected, Finish, WriteBackStops, Command, redis
  <2>7. ASSUME NEW r \in Runs, Smembers(r)
        PROVE  \A q \in Runs : id \notin unread'[q]
    <3>1. PICK ids \in Members(r) : unread' = [unread EXCEPT ![r] = ids]
      BY <2>7 DEF Smembers
    <3>2. id \notin ids
      BY <2>1, <2>7, <3>1, MembersAreListed DEF Smembers
    <3> QED
      BY <2>1, <3>1, <3>2 DEF Typed, LocalTyped
  <2>8. ASSUME NEW r \in Runs, Get(r) \/ TierRead(r) \/ LookupTimeout(r)
        PROVE  \A q \in Runs : id \notin unread'[q]
    <3>1. CASE Get(r)
      <4>1. PICK e \in unread[r] : unread' = [unread EXCEPT ![r] = @ \ {e}]
        BY <3>1 DEF Get
      <4> QED
        BY <2>1, <4>1 DEF Typed, LocalTyped
    <3>2. CASE TierRead(r) \/ LookupTimeout(r)
      <4>1. unread' = [unread EXCEPT ![r] = {}]
        BY <3>2 DEF TierRead, LookupTimeout
      <4> QED
        BY <2>1, <4>1 DEF Typed, LocalTyped
    <3> QED
      BY <2>8, <3>1, <3>2
  <2>9. ASSUME NEW r \in Runs, BeginLookup(r) \/ Smembers(r) \/ Get(r) \/ TierRead(r) \/ LookupTimeout(r) \/ Navigated(r)
                                \/ ApplySegment(r) \/ Evict(r)
        PROVE  members' = members
    BY <2>9 DEF BeginLookup, Smembers, Get, TierRead, LookupTimeout, Navigated, ApplySegment, Evict, redis
  <2>10. ASSUME NEW r \in Runs, BeginLookup(r) \/ Command(r) \/ ApplySegment(r) \/ Evict(r) \/ (Navigated(r) /\ ~Leave(r, "ended"))
         PROVE  unread' = unread
    BY <2>10 DEF BeginLookup, Command, Navigated, ApplySegment, Evict
  <2>11. ASSUME NEW e \in Ids, Lapse(e)
         PROVE  members' = members /\ unread' = unread
    BY <2>11 DEF Lapse, local
  <2>12. UNCHANGED vars => members' = members /\ unread' = unread
    BY DEF vars, redis, local
  <2> QED
    BY <2>3, <2>4, <2>5, <2>6, <2>7, <2>8, <2>9, <2>10, <2>11, <2>12, Leavers DEF Next, AllOver
<1> QED
  BY <1>1, <1>2, BaseInvariant, PTL DEF Spec

\* The commands w of a segment: n of them delete, then come the new record and its listing, then the rest.
Layered(r, w, n) ==
  /\ \A i \in DOMAIN w : w[i].cmd = "DEL" => i <= n /\ w[i].id \in Gone(r)
  /\ \A i \in DOMAIN w : w[i].cmd = "SREM" => \E k \in 1..i - 1 : w[k].cmd = "DEL" /\ w[k].id = w[i].id
  /\ n + 1 \in DOMAIN w /\ w[n + 1].cmd = "SET" /\ w[n + 1].id = NextId(r)
  /\ n + 2 \in DOMAIN w /\ w[n + 2].cmd = "SADD" /\ w[n + 2].key = "domain" /\ w[n + 2].id = NextId(r)
  /\ \A i \in DOMAIN w : w[i].id = NextId(r) =>
       /\ w[i].cmd \in {"SET", "SADD"} /\ w[i].record = NewRecord(Seg(r)) /\ i > n
       /\ w[i].cmd = "SET" => i = n + 1
       /\ w[i].key = "domain" => i = n + 2
  /\ \A i \in DOMAIN w : w[i].id # NextId(r) /\ w[i].record # NoRecord =>
       w[i].id \in Touched(r) /\ w[i].record = After(r)[w[i].id]

\* How the commands of a segment are laid out: deletions, the new record, the changed ones.
LEMMA SegmentLayers ==
  ASSUME Base, NEW r \in Runs, ApplySegment(r)
  PROVE  \E w \in Seq(CommandType) : \E n \in Nat : work' = [work EXCEPT ![r] = w] /\ Layered(r, w, n)
<1> DEFINE e == NextId(r)
           new == NewRecord(Seg(r))
           b == WriteRecord(e, new)
<1>1. /\ Seg(r) \in Segment /\ e \in Ids /\ e \notin Live(copy[r]) /\ Typed /\ AllPlaced
  BY SegmentAtHand, NextIdIsNew DEF Base
<1>2. PICK a \in Deletes(Gone(r)), c \in Writes(Touched(r), After(r)) : work' = [work EXCEPT ![r] = a \o b \o c]
  BY <1>1, SegmentSent
<1> DEFINE w == a \o b \o c
           n == Len(a)
<1>3. work' = [work EXCEPT ![r] = w]
  BY <1>2
<1>4. new \in Entry /\ new # NoRecord
  BY <1>1, NewRecordIsTyped
<1>5. /\ b \in Seq(CommandType) /\ 1 \in DOMAIN b /\ 2 \in DOMAIN b
      /\ b[1].cmd = "SET" /\ b[2].cmd = "SADD" /\ b[2].key = "domain"
      /\ \A i \in DOMAIN b : b[i].id = e /\ b[i].record = new /\ b[i].cmd \in {"SET", "SADD"}
      /\ \A i \in DOMAIN b : (b[i].cmd = "SET" => i = 1) /\ (b[i].key = "domain" => i = 2)
  BY <1>1, <1>4, RecordSent
<1>6. e \notin Gone(r) /\ e \notin Touched(r) /\ Touched(r) \subseteq Ids
  BY <1>1, TouchedIsLive
<1> HIDE DEF b, new, e
<1>7. /\ a \in Seq(CommandType) /\ c \in Seq(CommandType)
      /\ \A i \in DOMAIN a : /\ a[i].cmd \in {"DEL", "SREM"} /\ a[i].id \in Gone(r) /\ a[i].record = NoRecord
                             /\ a[i].cmd = "SREM" => \E k \in 1..i - 1 : a[k].cmd = "DEL" /\ a[k].id = a[i].id
      /\ \A i \in DOMAIN c : c[i].cmd \in {"SET", "SADD"} /\ c[i].id \in Touched(r) /\ c[i].record = After(r)[c[i].id]
  BY DEF Deletes, Writes
<1>8. /\ w \in Seq(CommandType) /\ Len(a) \in Nat /\ Len(b) \in Nat
      /\ \A i \in DOMAIN a : i \in DOMAIN w /\ w[i] = a[i]
      /\ \A i \in DOMAIN b : Len(a) + i \in DOMAIN w /\ w[Len(a) + i] = b[i]
      /\ \A i \in DOMAIN c : Len(a) + Len(b) + i \in DOMAIN w /\ w[Len(a) + Len(b) + i] = c[i]
      /\ \A i \in DOMAIN w :
           \/ i \in DOMAIN a /\ w[i] = a[i]
           \/ i > Len(a) /\ i - Len(a) \in DOMAIN b /\ w[i] = b[i - Len(a)]
           \/ i > Len(a) + Len(b) /\ i - (Len(a) + Len(b)) \in DOMAIN c /\ w[i] = c[i - (Len(a) + Len(b))]
  <2>1. a \in Seq(CommandType) /\ b \in Seq(CommandType) /\ c \in Seq(CommandType)
    BY <1>5, <1>7
  <2> QED
    BY ONLY <2>1, Layers
<1>9. DOMAIN a = 1..n /\ DOMAIN w = 1..Len(w)
  <2> HIDE DEF w
  <2> QED
    BY <1>7, <1>8
<1> HIDE DEF w
<1>10. ASSUME NEW i \in DOMAIN w
       PROVE  /\ w[i].cmd = "DEL" => i <= n /\ w[i].id \in Gone(r)
              /\ w[i].cmd = "SREM" => \E k \in 1..i - 1 : w[k].cmd = "DEL" /\ w[k].id = w[i].id
              /\ w[i].id = e =>
                  /\ w[i].cmd \in {"SET", "SADD"} /\ w[i].record = new /\ i > n
                  /\ w[i].cmd = "SET" => i = n + 1
                  /\ w[i].key = "domain" => i = n + 2
              /\ w[i].id # e /\ w[i].record # NoRecord => w[i].id \in Touched(r) /\ w[i].record = After(r)[w[i].id]
  <2>0. i \in Nat
    BY <1>9, <1>8
  <2>1. CASE i \in DOMAIN a /\ w[i] = a[i]
    <3>1. w[i].cmd = "SREM" => \E k \in 1..i - 1 : w[k].cmd = "DEL" /\ w[k].id = w[i].id
      <4> SUFFICES ASSUME w[i].cmd = "SREM" PROVE \E k \in 1..i - 1 : w[k].cmd = "DEL" /\ w[k].id = w[i].id
        OBVIOUS
      <4>1. PICK k \in 1..i - 1 : a[k].cmd = "DEL" /\ a[k].id = a[i].id
        BY <1>7, <2>1
      <4>2. k \in DOMAIN a
        BY <1>8, <1>9, <2>0, <2>1, <4>1
      <4> QED
        BY <1>8, <2>1, <4>1, <4>2
    <3>2. i <= n
      BY <1>8, <1>9, <2>1
    <3> QED
      BY <1>6, <1>7, <2>1, <3>1, <3>2
  <2>2. CASE i > Len(a) /\ i - Len(a) \in DOMAIN b /\ w[i] = b[i - Len(a)]
    <3> DEFINE j == i - Len(a)
    <3>1. j \in DOMAIN b /\ w[i] = b[j] /\ i = n + j /\ i > n
      BY <1>8, <2>0, <2>2
    <3> HIDE DEF j, n
    <3> QED
      BY <1>4, <1>5, <3>1
  <2>3. CASE i > Len(a) + Len(b) /\ i - (Len(a) + Len(b)) \in DOMAIN c /\ w[i] = c[i - (Len(a) + Len(b))]
    BY <1>6, <1>7, <2>3
  <2> QED
    BY <1>8, <2>1, <2>2, <2>3
<1>11. /\ n + 1 \in DOMAIN w /\ w[n + 1].cmd = "SET" /\ w[n + 1].id = e
       /\ n + 2 \in DOMAIN w /\ w[n + 2].cmd = "SADD" /\ w[n + 2].key = "domain" /\ w[n + 2].id = e
  BY <1>5, <1>8
<1>12. n \in Nat
  BY <1>8
<1> HIDE DEF n
<1> USE DEF e, new
<1> QED
  <2>1. /\ work' = [work EXCEPT ![r] = w]
        /\ \A i \in DOMAIN w : w[i].cmd = "DEL" => i <= n /\ w[i].id \in Gone(r)
        /\ \A i \in DOMAIN w : w[i].cmd = "SREM" => \E k \in 1..i - 1 : w[k].cmd = "DEL" /\ w[k].id = w[i].id
        /\ n + 1 \in DOMAIN w /\ w[n + 1].cmd = "SET" /\ w[n + 1].id = NextId(r)
        /\ n + 2 \in DOMAIN w /\ w[n + 2].cmd = "SADD" /\ w[n + 2].key = "domain" /\ w[n + 2].id = NextId(r)
    BY <1>3, <1>10, <1>11, Zenon
  <2>2. /\ \A i \in DOMAIN w : w[i].id = NextId(r) =>
             /\ w[i].cmd \in {"SET", "SADD"} /\ w[i].record = NewRecord(Seg(r)) /\ i > n
             /\ w[i].cmd = "SET" => i = n + 1
             /\ w[i].key = "domain" => i = n + 2
        /\ \A i \in DOMAIN w : w[i].id # NextId(r) /\ w[i].record # NoRecord =>
             w[i].id \in Touched(r) /\ w[i].record = After(r)[w[i].id]
    BY <1>10, Zenon
  <2>3. Layered(r, w, n)
    BY <2>1, <2>2, Zenon DEF Layered
  <2> QED
    BY <1>8, <1>12, <2>1, <2>3, Zenon

\* What a run is up to with the segment it applies.
Latest(r) == trail[r][next[r] - 1]
Own(r)    == <<r, next[r] - 1>>
Lists(r, k) ==
  k \in DOMAIN work[r] /\ work[r][k].cmd = "SADD" /\ work[r][k].key = "domain" /\ work[r][k].id = Own(r)

\* It deletes records of the journey of its segment only, and lists a success of its own afterwards.
Doomed(r) ==
  \A id \in Ids : \A i \in DOMAIN work[r] : work[r][i].cmd = "DEL" /\ work[r][i].id = id =>
    /\ Latest(r).outcome = "success" /\ \E k \in DOMAIN work[r] : k > i /\ Lists(r, k)
    /\ \A v \in Entry : Version(id, v) => v.journey = Latest(r).journey

\* Its own record is written before it is listed, and never deleted.
Steady(r) ==
  \A i \in DOMAIN work[r] : work[r][i].id = Own(r) =>
    /\ work[r][i].cmd \in {"SET", "SADD"} /\ work[r][i].record = NewRecord(Latest(r))
    /\ work[r][i].cmd = "SET" => \E k \in DOMAIN work[r] : k > i /\ Lists(r, k)

\* Run q knows nothing of id.
Apart(q, id) == id \notin unread[q] /\ copy[q][id] = NoRecord /\ \A i \in DOMAIN work[q] : work[q][i].id # id

\* Until it is listed, nobody else knows of the record.
Private(r) ==
  \A k \in DOMAIN work[r] : Lists(r, k) =>
    /\ \A x \in Keys : Own(r) \notin members[x]
    /\ \A q \in Runs \ {r} : Apart(q, Own(r))
    /\ store[Own(r)] = NewRecord(Latest(r)) \/ \E i \in DOMAIN work[r] : i < k /\ work[r][i].cmd = "SET" /\ work[r][i].id = Own(r)
    /\ \A i \in DOMAIN work[r] : i < k /\ work[r][i].id = Own(r) => work[r][i].cmd = "SET"

Intent(r) == pc[r] = "apply" => Doomed(r) /\ Steady(r) /\ Private(r)

\* The id and the segment a run is applying.
LEMMA OwnIsTyped ==
  ASSUME Base, NEW r \in Runs, pc[r] = "apply"
  PROVE  Own(r) \in Ids /\ Latest(r) \in Segment /\ unread[r] = {} /\ next[r] - 1 \in 1..Len(trail[r])
<1>1. next[r] \in 2..Len(trail[r]) + 1 /\ Len(trail[r]) \in 1..MaxSegments /\ trail[r] \in Seq(Segment) /\ unread[r] = {}
      /\ next[r] \in Nat
  BY DEF Base, AllPlaced, Placed, Writeback, Typed, LocalTyped
<1>2. next[r] - 1 \in 1..MaxSegments /\ next[r] - 1 \in 1..Len(trail[r])
  BY <1>1, Parameters
<1> QED
  BY <1>1, <1>2 DEF Own, Latest, Ids

\* What a run does not know of, and what is in no index, it does not come to know.
LEMMA ApartStays ==
  ASSUME Base, NEW q \in Runs, NEW id \in Ids, id[1] # q, Apart(q, id), \A k \in Keys : id \notin members[k],
         \/ BeginLookup(q) \/ Smembers(q) \/ Get(q) \/ TierRead(q) \/ LookupTimeout(q) \/ LookupRejected(q)
         \/ Navigated(q) \/ ApplySegment(q) \/ Evict(q) \/ Command(q) \/ Finish(q) \/ WriteBackStops(q)
  PROVE  Apart(q, id)'
<1> USE DEF Base, Typed, LocalTyped
<1>1. Nothing[id] = NoRecord
  BY DEF Nothing
<1> DEFINE none == Nothing
<1>2. none[id] = NoRecord
  BY <1>1
<1>3. CASE \E p \in {"ended", "failed"} : Leave(q, p)
  <2>1. unread' = [unread EXCEPT ![q] = {}] /\ copy' = [copy EXCEPT ![q] = none] /\ work' = [work EXCEPT ![q] = << >>]
    BY <1>3 DEF Leave
  <2> HIDE DEF none
  <2> QED
    BY <1>2, <2>1 DEF Apart
<1>4. CASE BeginLookup(q) \/ (Navigated(q) /\ ~Leave(q, "ended"))
  BY <1>4 DEF BeginLookup, Navigated, Apart
<1>5. CASE Smembers(q)
  <2>1. PICK ids \in Members(q) : unread' = [unread EXCEPT ![q] = ids]
    BY <1>5 DEF Smembers
  <2>2. id \notin ids
    BY <1>5, <2>1, MembersAreListed DEF Smembers
  <2>3. UNCHANGED <<copy, work>>
    BY <1>5 DEF Smembers
  <2> QED
    BY <2>1, <2>2, <2>3 DEF Apart
<1>6. CASE Get(q)
  <2>1. PICK e \in unread[q] : unread' = [unread EXCEPT ![q] = @ \ {e}] /\ copy' = [copy EXCEPT ![q][e] = store[e]]
    BY <1>6 DEF Get
  <2>2. e # id /\ UNCHANGED work
    BY <1>6 DEF Get, Apart
  <2> QED
    BY <2>1, <2>2 DEF Apart
<1>7. CASE TierRead(q) \/ LookupTimeout(q)
  <2>1. unread' = [unread EXCEPT ![q] = {}] /\ copy' = [copy EXCEPT ![q] = none] /\ UNCHANGED work
    BY <1>7 DEF TierRead, LookupTimeout
  <2> HIDE DEF none
  <2> QED
    BY <1>2, <2>1 DEF Apart
<1>8. CASE ApplySegment(q)
  <2>1. PICK w \in Seq(CommandType) : /\ work' = [work EXCEPT ![q] = w]
                                     /\ \A i \in DOMAIN w : w[i].id = NextId(q) \/ w[i].id \in Live(copy[q])
    BY <1>8, SegmentCommands
  <2>2. copy' = [copy EXCEPT ![q] = After(q)] /\ UNCHANGED unread /\ id # NextId(q) /\ id \notin Live(copy[q])
    <3>1. copy' = [copy EXCEPT ![q] = After(q)]
      BY <1>8, NextIdIsNew, SegmentSent
    <3>2. UNCHANGED unread
      BY <1>8 DEF ApplySegment
    <3>3. id # NextId(q) /\ id \notin Live(copy[q])
      BY DEF NextId, Apart, Live
    <3> QED
      BY <3>1, <3>2, <3>3
  <2>3. After(q)[id] = NoRecord
    <3>1. id \notin Touched(q) /\ id \notin Gone(q) /\ copy[q][id] = NoRecord
      BY <2>2, TouchedIsLive DEF Apart
    <3> QED
      BY <2>2, <3>1 DEF After
  <2> DEFINE f == After(q)
  <2>4. copy' = [copy EXCEPT ![q] = f] /\ f[id] = NoRecord
    BY <2>2, <2>3
  <2> HIDE DEF f
  <2> QED
    BY <2>1, <2>2, <2>4 DEF Apart
<1>9. CASE Evict(q)
  <2>1. PICK out \in Evictions(copy[q]) : \E w \in Deletes(out) : work' = [work EXCEPT ![q] = w]
    BY <1>9, EvictionSent
  <2>2. PICK w \in Deletes(out) : work' = [work EXCEPT ![q] = w]
    BY <2>1
  <2>3. UNCHANGED <<unread, copy>>
    BY <1>9 DEF Evict
  <2>4. \A i \in DOMAIN w : w[i].id # id
    BY <2>1 DEF Deletes, Evictions, Live, Apart
  <2> QED
    BY <2>2, <2>3, <2>4 DEF Apart
<1>10. CASE Command(q)
  <2>1. UNCHANGED <<unread, copy>> /\ work' = [work EXCEPT ![q] = Tail(@)] /\ work[q] # << >>
    BY <1>10 DEF Command
  <2>2. \A i \in DOMAIN Tail(work[q]) : Tail(work[q])[i].id # id
    BY <2>1, CommandAtHand DEF Apart
  <2> QED
    BY <2>1, <2>2 DEF Apart
<1> QED
  BY <1>3, <1>4, <1>5, <1>6, <1>7, <1>8, <1>9, <1>10, Leavers

\* The versions of an id in use are old ones with another confidence.
LEMMA VersionsOfUsed ==
  ASSUME Base, [Next]_vars, NEW id \in Ids, ~Unused(id), NEW v \in Entry, Version(id, v)'
  PROVE  \E u \in Entry : Version(id, u) /\ Same(u, v)
<1>1. Follows(id, v)
  BY VersionsFollow
<1>2. ~\E r \in Runs : ApplySegment(r) /\ id = NextId(r)
  BY NextIdIsNew
<1> QED
  BY <1>1, <1>2 DEF Follows

\* The ids of commands are in use.
LEMMA CommandsAreUsed ==
  ASSUME Typed, NEW r \in Runs, NEW i \in DOMAIN work[r]
  PROVE  work[r][i] \in CommandType /\ work[r][i].id \in Ids /\ ~Unused(work[r][i].id)
<1>1. work[r][i] \in CommandType
  BY DEF Typed, LocalTyped
<1> QED
  BY <1>1 DEF CommandType, Unused

\* Commands of other runs, and what expires, leave the record alone.
LEMMA EffectFromAfar ==
  ASSUME Base, NEW r \in Runs, NEW q \in Runs, Intent(r), pc[r] = "apply", NEW k \in DOMAIN work[r], Lists(r, k), q # r,
         work[q] # << >>, Effect(Head(work[q]))
  PROVE  store'[Own(r)] = store[Own(r)] /\ \A x \in Keys : Own(r) \notin members'[x]
<1>1. Own(r) \in Ids /\ Typed
  BY OwnIsTyped DEF Base
<1>2. Head(work[q]) \in CommandType /\ Head(work[q]).id # Own(r)
  BY <1>1, CommandAtHand DEF Intent, Private, Apart
<1>3. store'[Own(r)] = store[Own(r)]
  BY <1>1, <1>2, EffectTells
<1>4. \A x \in Keys : Own(r) \notin members'[x]
  BY <1>1, <1>2, EffectIndexes DEF Intent, Private
<1> QED
  BY <1>3, <1>4

\* As long as the commands stay, what they are to delete stays of the same journey.
LEMMA DoomedStays ==
  ASSUME Base, [Next]_vars, NEW r \in Runs, Doomed(r), work'[r] = work[r], trail'[r] = trail[r], next'[r] = next[r]
  PROVE  Doomed(r)'
<1>1. Latest(r)' = Latest(r) /\ \A k : Lists(r, k)' <=> Lists(r, k)
  BY DEF Latest, Lists, Own
<1>2. ASSUME NEW id \in Ids, NEW i \in DOMAIN work[r], work[r][i].cmd = "DEL", work[r][i].id = id
      PROVE  /\ Latest(r).outcome = "success" /\ \E k \in DOMAIN work[r] : k > i /\ Lists(r, k)
             /\ \A v \in Entry : Version(id, v)' => v.journey = Latest(r).journey
  <2>1. /\ Latest(r).outcome = "success" /\ \E k \in DOMAIN work[r] : k > i /\ Lists(r, k)
        /\ \A v \in Entry : Version(id, v) => v.journey = Latest(r).journey
    BY <1>2 DEF Doomed
  <2>2. ~Unused(id)
    BY <1>2, CommandsAreUsed DEF Base
  <2>3. \A v \in Entry : Version(id, v)' => v.journey = Latest(r).journey
    BY <2>1, <2>2, VersionsOfUsed DEF Same
  <2> QED
    BY <2>1, <2>3
<1> QED
  BY <1>1, <1>2 DEF Doomed

\* Steps of other runs do not disturb what a run is up to.
LEMMA IntentFromAfar ==
  ASSUME Base, [Next]_vars, NEW r \in Runs, NEW q \in Runs, q # r, Intent(r),
         \/ BeginLookup(q) \/ Smembers(q) \/ Get(q) \/ TierRead(q) \/ LookupTimeout(q) \/ LookupRejected(q)
         \/ Navigated(q) \/ ApplySegment(q) \/ Evict(q) \/ Command(q) \/ Finish(q) \/ WriteBackStops(q)
  PROVE  Intent(r)'
<1>1. pc'[r] = pc[r] /\ trail'[r] = trail[r] /\ next'[r] = next[r] /\ work'[r] = work[r]
  BY OthersKeepTheirs
<1> SUFFICES ASSUME pc[r] = "apply" PROVE Doomed(r)' /\ Steady(r)' /\ Private(r)'
  BY <1>1 DEF Intent
<1>2. Latest(r)' = Latest(r) /\ Own(r)' = Own(r) /\ \A k : Lists(r, k)' <=> Lists(r, k)
  BY <1>1 DEF Latest, Lists, Own
<1>3. Doomed(r)'
  BY <1>1, DoomedStays DEF Intent
<1>4. Steady(r)'
  BY <1>1, <1>2 DEF Intent, Steady, NewRecord, Initial
<1>5. Private(r)'
  <2> SUFFICES ASSUME NEW k \in DOMAIN work[r], Lists(r, k)
               PROVE  /\ \A x \in Keys : Own(r) \notin members'[x]
                      /\ \A p \in Runs \ {r} : Apart(p, Own(r))'
                      /\ store'[Own(r)] = store[Own(r)]
    BY <1>1, <1>2 DEF Intent, Private, Apart
  <2>1. Own(r) \in Ids /\ Own(r)[1] = r
    BY OwnIsTyped DEF Own
  <2>2. /\ \A x \in Keys : Own(r) \notin members[x]
        /\ \A p \in Runs \ {r} : Apart(p, Own(r))
    BY DEF Intent, Private
  <2>3. UNCHANGED redis \/ (work[q] # << >> /\ Effect(Head(work[q])))
    BY DEF BeginLookup, Smembers, Get, TierRead, LookupTimeout, LookupRejected, Navigated, ApplySegment, Evict,
           Command, Finish, WriteBackStops
  <2>4. (\A x \in Keys : Own(r) \notin members'[x]) /\ store'[Own(r)] = store[Own(r)]
    BY <2>2, <2>3, EffectFromAfar DEF redis
  <2>5. Apart(q, Own(r))'
    <3> DEFINE id == Own(r)
    <3>1. id \in Ids /\ id[1] # q /\ Apart(q, id) /\ \A x \in Keys : id \notin members[x]
      BY <2>1, <2>2
    <3>2. id' = id
      BY <1>2
    <3> HIDE DEF id
    <3>3. Apart(q, id)'
      BY <3>1, <3>2, ApartStays DEF Apart
    <3> QED
      BY <3>3 DEF id
  <2>6. ASSUME NEW p \in Runs \ {r}, p # q
        PROVE  Apart(p, Own(r))'
    <3>1. unread'[p] = unread[p] /\ copy'[p] = copy[p] /\ work'[p] = work[p]
      BY <2>6, OthersKeepTheirs
    <3> QED
      BY <1>2, <2>2, <2>6, <3>1 DEF Apart
  <2> QED
    BY <2>4, <2>5, <2>6
<1> QED
  BY <1>3, <1>4, <1>5

\* A command that is sent leaves the rest of the intent as it was.
LEMMA IntentOfCommand ==
  ASSUME Base, [Next]_vars, NEW r \in Runs, Command(r), Intent(r)
  PROVE  Intent(r)'
<1> DEFINE w == work[r]
           t == Tail(w)
           c == Head(w)
<1>1. /\ UNCHANGED <<pc, unread, copy, trail, next>> /\ work' = [work EXCEPT ![r] = t] /\ w # << >> /\ Effect(c) /\ Typed
  BY DEF Command, Base
<1>2. /\ work'[r] = t /\ \A q \in Runs \ {r} : work'[q] = work[q]
  <2> HIDE DEF t
  <2> QED
    BY <1>1 DEF Typed, LocalTyped
<1>3. /\ c \in CommandType /\ c = w[1] /\ 1 \in DOMAIN w /\ DOMAIN w \subseteq Nat
      /\ \A i \in DOMAIN t : i \in Nat /\ i >= 1 /\ i + 1 \in DOMAIN w /\ t[i] = w[i + 1]
      /\ \A i \in DOMAIN w : i > 1 => i - 1 \in DOMAIN t /\ t[i - 1] = w[i]
  <2>1. /\ c \in CommandType /\ c = w[1] /\ 1 \in DOMAIN w /\ t \in Seq(CommandType) /\ w \in Seq(CommandType)
        /\ \A i \in DOMAIN t : i + 1 \in DOMAIN w /\ t[i] = w[i + 1]
    BY <1>1, CommandAtHand DEF Typed, LocalTyped
  <2>2. \A i \in DOMAIN w : i > 1 => i - 1 \in DOMAIN t /\ t[i - 1] = w[i]
    <3> HIDE DEF w
    <3> QED
      BY <1>1, <2>1
  <2>3. DOMAIN t \subseteq Nat /\ DOMAIN w \subseteq Nat /\ \A i \in DOMAIN t : i >= 1
    <3> HIDE DEF t, w
    <3> QED
      BY <2>1
  <2> QED
    BY <2>1, <2>2, <2>3
<1> SUFFICES ASSUME pc[r] = "apply" PROVE Doomed(r)' /\ Steady(r)' /\ Private(r)'
  BY <1>1 DEF Intent
<1>4. Latest(r)' = Latest(r) /\ Own(r)' = Own(r) /\ Own(r) \in Ids /\ Doomed(r) /\ Steady(r) /\ Private(r)
  BY <1>1, OwnIsTyped DEF Latest, Own, Intent
<1> HIDE DEF t, c
<1>5. \A k \in DOMAIN t : Lists(r, k)' => Lists(r, k + 1)
  BY <1>2, <1>3, <1>4 DEF Lists
<1>6. \A k \in DOMAIN w : k > 1 /\ Lists(r, k) => k - 1 \in DOMAIN t /\ Lists(r, k - 1)'
  BY <1>2, <1>3, <1>4 DEF Lists
<1>7. \A i \in DOMAIN t : (\E k \in DOMAIN w : k > i + 1 /\ Lists(r, k)) => \E k \in DOMAIN t : k > i /\ Lists(r, k)'
  <2> SUFFICES ASSUME NEW i \in DOMAIN t, NEW k \in DOMAIN w, k > i + 1, Lists(r, k)
               PROVE  \E j \in DOMAIN t : j > i /\ Lists(r, j)'
    OBVIOUS
  <2>1. i \in Nat /\ k \in Nat /\ k > 1 /\ k - 1 > i
    BY <1>3
  <2> QED
    BY <1>6, <2>1
<1>8. Doomed(r)'
  <2>1. ASSUME NEW id \in Ids, NEW i \in DOMAIN t, t[i].cmd = "DEL", t[i].id = id
        PROVE  /\ Latest(r).outcome = "success" /\ \E k \in DOMAIN t : k > i /\ Lists(r, k)'
               /\ \A v \in Entry : Version(id, v)' => v.journey = Latest(r).journey
    <3>1. i + 1 \in DOMAIN w /\ w[i + 1].cmd = "DEL" /\ w[i + 1].id = id
      BY <1>3, <2>1
    <3>2. /\ Latest(r).outcome = "success" /\ \E k \in DOMAIN w : k > i + 1 /\ Lists(r, k)
          /\ \A v \in Entry : Version(id, v) => v.journey = Latest(r).journey
      BY <1>4, <3>1 DEF Doomed
    <3>3. ~Unused(id)
      BY <1>1, <3>1, CommandsAreUsed
    <3>4. \A v \in Entry : Version(id, v)' => v.journey = Latest(r).journey
      BY <3>2, <3>3, VersionsOfUsed DEF Same
    <3> QED
      BY <1>7, <3>2, <3>4
  <2> QED
    BY <1>2, <1>4, <2>1 DEF Doomed
<1>9. Steady(r)'
  <2>1. ASSUME NEW i \in DOMAIN t, t[i].id = Own(r)
        PROVE  /\ t[i].cmd \in {"SET", "SADD"} /\ t[i].record = NewRecord(Latest(r))
               /\ t[i].cmd = "SET" => \E k \in DOMAIN t : k > i /\ Lists(r, k)'
    <3>1. i + 1 \in DOMAIN w /\ w[i + 1] = t[i]
      BY <1>3
    <3> QED
      BY <1>4, <1>7, <2>1, <3>1 DEF Steady
  <2>2. NewRecord(Latest(r))' = NewRecord(Latest(r))
    BY <1>4 DEF NewRecord, Initial
  <2> QED
    BY <1>2, <1>4, <2>1, <2>2 DEF Steady
<1>10. ASSUME NEW k \in DOMAIN t, Lists(r, k)'
       PROVE  /\ \A x \in Keys : Own(r) \notin members'[x]
              /\ \A q \in Runs \ {r} : Apart(q, Own(r))'
              /\ store'[Own(r)] = NewRecord(Latest(r)) \/ \E i \in DOMAIN t : i < k /\ t[i].cmd = "SET" /\ t[i].id = Own(r)
              /\ \A i \in DOMAIN t : i < k /\ t[i].id = Own(r) => t[i].cmd = "SET"
  <2>1. k \in Nat /\ k + 1 \in DOMAIN w /\ Lists(r, k + 1) /\ 1 < k + 1
    BY <1>3, <1>5, <1>10
  <2>2. /\ \A x \in Keys : Own(r) \notin members[x]
        /\ \A q \in Runs \ {r} : Apart(q, Own(r))
        /\ store[Own(r)] = NewRecord(Latest(r)) \/ \E i \in DOMAIN w : i < k + 1 /\ w[i].cmd = "SET" /\ w[i].id = Own(r)
        /\ \A i \in DOMAIN w : i < k + 1 /\ w[i].id = Own(r) => w[i].cmd = "SET"
    BY <1>4, <2>1 DEF Private
  <2>3. c.id = Own(r) => c.cmd = "SET" /\ c.record = NewRecord(Latest(r))
    BY <1>3, <1>4, <2>1, <2>2 DEF Steady
  <2>4. \A x \in Keys : Own(r) \notin members'[x]
    BY <1>1, <1>3, <1>4, <2>2, <2>3, EffectIndexes
  <2>5. store'[Own(r)] = IF c.id = Own(r) THEN NewRecord(Latest(r)) ELSE store[Own(r)]
    BY <1>1, <1>3, <1>4, <2>3, EffectTells
  <2>6. \A q \in Runs \ {r} : Apart(q, Own(r))'
    BY <1>1, <1>2, <1>4, <2>2 DEF Apart
  <2>7. \A i \in DOMAIN t : i < k /\ t[i].id = Own(r) => t[i].cmd = "SET"
    BY <1>3, <2>1, <2>2
  <2>8. (\E i \in DOMAIN w : i < k + 1 /\ w[i].cmd = "SET" /\ w[i].id = Own(r)) =>
          c.id = Own(r) \/ \E i \in DOMAIN t : i < k /\ t[i].cmd = "SET" /\ t[i].id = Own(r)
    <3> SUFFICES ASSUME NEW i \in DOMAIN w, i < k + 1, w[i].cmd = "SET", w[i].id = Own(r), c.id # Own(r)
                 PROVE  \E j \in DOMAIN t : j < k /\ t[j].cmd = "SET" /\ t[j].id = Own(r)
      OBVIOUS
    <3>1. DOMAIN w = 1..Len(w)
      BY <1>1 DEF Typed, LocalTyped
    <3>2. i # 1 /\ i \in Nat /\ i > 1
      BY <1>3, <3>1
    <3>3. i - 1 \in DOMAIN t /\ t[i - 1] = w[i] /\ i - 1 < k
      BY <1>3, <2>1, <3>2
    <3> QED
      BY <3>3
  <2> QED
    BY <2>2, <2>4, <2>5, <2>6, <2>7, <2>8
<1>11. Private(r)'
  <2>1. NewRecord(Latest(r))' = NewRecord(Latest(r))
    BY <1>4 DEF NewRecord, Initial
  <2> QED
    BY <1>2, <1>4, <1>10, <2>1 DEF Private, Apart
<1> QED
  BY <1>8, <1>9, <1>11

\* A segment starts with deletions of its own journey, then writes and lists its own record.
LEMMA IntentOfSegment ==
  ASSUME Base, [Next]_vars, Unseen, Alike, NEW r \in Runs, ApplySegment(r)
  PROVE  Intent(r)'
<1> DEFINE e == NextId(r)
           new == NewRecord(Seg(r))
<1>1. /\ Seg(r) \in Segment /\ e \in Ids /\ Typed /\ next[r] \in Nat /\ pc[r] \in {"list", "apply"}
  BY SegmentAtHand DEF Base
<1>2. PICK w \in Seq(CommandType) : \E n \in Nat : work' = [work EXCEPT ![r] = w] /\ Layered(r, w, n)
  BY SegmentLayers
<1>3. PICK n \in Nat :
        /\ work' = [work EXCEPT ![r] = w]
        /\ \A i \in DOMAIN w : w[i].cmd = "DEL" => i <= n /\ w[i].id \in Gone(r)
        /\ n + 1 \in DOMAIN w /\ w[n + 1].cmd = "SET" /\ w[n + 1].id = e
        /\ n + 2 \in DOMAIN w /\ w[n + 2].cmd = "SADD" /\ w[n + 2].key = "domain" /\ w[n + 2].id = e
        /\ \A i \in DOMAIN w : w[i].id = e =>
             /\ w[i].cmd \in {"SET", "SADD"} /\ w[i].record = new /\ i > n
             /\ w[i].cmd = "SET" => i = n + 1
             /\ w[i].key = "domain" => i = n + 2
  BY <1>2 DEF Layered
<1>4. work'[r] = w /\ \A q \in Runs \ {r} : work'[q] = work[q]
  BY <1>1, <1>3 DEF Typed, LocalTyped
<1>5. Own(r)' = e /\ Latest(r)' = Seg(r)
  <2>1. UNCHANGED trail /\ next' = [next EXCEPT ![r] = @ + 1]
    BY DEF ApplySegment
  <2>2. next'[r] = next[r] + 1 /\ next'[r] - 1 = next[r]
    BY <1>1, <2>1 DEF Typed, LocalTyped
  <2> QED
    BY <2>1, <2>2 DEF Own, Latest, NextId, Seg
<1>6. DOMAIN w \subseteq Nat
  BY <1>2
<1> HIDE DEF e, new
<1>7. \A k \in DOMAIN w : Lists(r, k)' <=> k = n + 2
  BY <1>3, <1>4, <1>5 DEF Lists
<1>8. Doomed(r)'
  <2>1. ASSUME NEW id \in Ids, NEW i \in DOMAIN w, w[i].cmd = "DEL", w[i].id = id
        PROVE  /\ Seg(r).outcome = "success" /\ \E k \in DOMAIN w : k > i /\ Lists(r, k)'
               /\ \A v \in Entry : Version(id, v)' => v.journey = Seg(r).journey
    <3>1. i <= n /\ id \in Gone(r)
      BY <1>3, <2>1
    <3>2. Seg(r).outcome = "success" /\ copy[r][id].journey = Seg(r).journey
      BY <3>1 DEF Gone, Superseded, Equivalent
    <3>3. n + 2 > i /\ n + 2 \in DOMAIN w
      BY <1>3, <1>6, <3>1
    <3>4. copy[r][id] # NoRecord /\ copy[r][id] \in Entry
      BY <1>1, <3>1, TouchedIsLive DEF Live, Typed, LocalTyped
    <3>5. ~Unused(id) /\ Version(id, copy[r][id])
      BY <3>4 DEF Unused, Version
    <3>6. \A v \in Entry : Version(id, v)' => v.journey = Seg(r).journey
      <4> SUFFICES ASSUME NEW v \in Entry, Version(id, v)' PROVE v.journey = Seg(r).journey
        OBVIOUS
      <4>1. PICK u \in Entry : Version(id, u) /\ Same(u, v)
        BY <3>5, VersionsOfUsed
      <4>2. Same(u, copy[r][id])
        BY <3>4, <3>5, <4>1 DEF Alike
      <4> QED
        BY <3>2, <4>1, <4>2 DEF Same
    <3> QED
      BY <1>7, <3>2, <3>3, <3>6
  <2> QED
    BY <1>4, <1>5, <2>1 DEF Doomed
<1>9. new = NewRecord(Latest(r))'
  BY <1>5 DEF new, NewRecord, Initial
<1>10. Steady(r)'
  <2>1. ASSUME NEW i \in DOMAIN w, w[i].id = e
        PROVE  /\ w[i].cmd \in {"SET", "SADD"} /\ w[i].record = new
               /\ w[i].cmd = "SET" => \E k \in DOMAIN w : k > i /\ Lists(r, k)'
    <3>1. w[i].cmd = "SET" => n + 2 > i
      BY <1>3, <1>6, <2>1
    <3> QED
      BY <1>3, <1>7, <2>1, <3>1
  <2> QED
    BY <1>4, <1>5, <1>9, <2>1 DEF Steady
<1>11. Private(r)'
  <2>1. /\ \A x \in Keys : e \notin members[x]
        /\ \A q \in Runs : e \notin unread[q]
    BY <1>1 DEF Unseen, Ahead, NextId, e
  <2>2. \A q \in Runs : copy[q][e] = NoRecord /\ \A i \in DOMAIN work[q] : work[q][i].id # e
    BY NextIdIsNew DEF Unused, e
  <2>3. UNCHANGED <<members, unread>> /\ \A q \in Runs \ {r} : copy'[q] = copy[q]
    <3>1. UNCHANGED <<members, unread>>
      BY DEF ApplySegment, redis
    <3>2. copy' = [copy EXCEPT ![r] = After(r)]
      BY NextIdIsNew, SegmentSent DEF Base
    <3> QED
      BY <1>1, <3>1, <3>2 DEF Typed, LocalTyped
  <2>4. \A x \in Keys : e \notin members'[x]
    BY <2>1, <2>3
  <2>5. \A q \in Runs \ {r} : e \notin unread'[q] /\ copy'[q][e] = NoRecord /\ \A i \in DOMAIN work'[q] : work'[q][i].id # e
    BY <1>4, <2>1, <2>2, <2>3
  <2>6. \E i \in DOMAIN w : i < n + 2 /\ w[i].cmd = "SET" /\ w[i].id = e
    BY <1>3
  <2>7. \A i \in DOMAIN w : i < n + 2 /\ w[i].id = e => w[i].cmd = "SET"
    <3> SUFFICES ASSUME NEW i \in DOMAIN w, i < n + 2, w[i].id = e PROVE w[i].cmd = "SET"
      OBVIOUS
    <3>1. i = n + 1
      BY <1>3, <1>6
    <3> QED
      BY <1>3, <3>1
  <2> QED
    BY <1>4, <1>5, <1>7, <2>4, <2>5, <2>6, <2>7 DEF Private, Apart
<1> QED
  BY <1>8, <1>10, <1>11 DEF Intent

\* The other steps of a run either leave what it is up to, or are not taken while it applies segments.
LEMMA IntentAtWork ==
  ASSUME Base, [Next]_vars, Unseen, Alike, NEW r \in Runs, Intent(r),
         \/ BeginLookup(r) \/ Smembers(r) \/ Get(r) \/ TierRead(r) \/ LookupTimeout(r) \/ LookupRejected(r)
         \/ Navigated(r) \/ ApplySegment(r) \/ Evict(r) \/ Command(r) \/ Finish(r) \/ WriteBackStops(r)
  PROVE  Intent(r)'
<1> USE DEF Base, Typed, LocalTyped
<1>1. CASE BeginLookup(r) \/ TierRead(r) \/ LookupTimeout(r) \/ \E p \in {"ended", "failed"} : Leave(r, p)
  BY <1>1, OutOfWriteback DEF Intent, Writeback
<1>2. CASE Smembers(r)
  BY <1>2 DEF Smembers, Intent, Tiers
<1>3. CASE Get(r)
  <2>1. pc'[r] = pc[r] /\ unread[r] # {}
    BY <1>3 DEF Get
  <2> QED
    BY <2>1, OwnIsTyped DEF Intent
<1>4. CASE Navigated(r) /\ ~Leave(r, "ended")
  BY <1>4 DEF Navigated, Intent
<1>5. CASE Evict(r)
  BY <1>5 DEF Evict, Intent
<1> QED
  BY <1>1, <1>2, <1>3, <1>4, <1>5, Leavers, IntentOfSegment, IntentOfCommand

\* Expiry takes no record of a run that is still at work, so it leaves what the run is up to.
LEMMA IntentOfLapse ==
  ASSUME Base, [Next]_vars, NEW r \in Runs, Intent(r), NEW e \in Ids, Lapse(e)
  PROVE  Intent(r)'
<1>1. /\ UNCHANGED <<members, pc, unread, copy, trail, next, work>> /\ store' = [store EXCEPT ![e] = NoRecord]
      /\ pc[e[1]] = "ended"
  BY DEF Lapse, local
<1> SUFFICES ASSUME pc[r] = "apply" PROVE Doomed(r)' /\ Steady(r)' /\ Private(r)'
  BY <1>1 DEF Intent
<1>2. Doomed(r)'
  BY <1>1, DoomedStays DEF Intent
<1>3. Own(r)[1] = r /\ Own(r) \in Ids
  BY OwnIsTyped DEF Own
<1>4. store'[Own(r)] = store[Own(r)]
  BY <1>1, <1>3 DEF Base, Typed, RedisTyped
<1>5. Latest(r)' = Latest(r) /\ Own(r)' = Own(r) /\ \A k : Lists(r, k)' <=> Lists(r, k)
  BY <1>1 DEF Latest, Lists, Own
<1>6. Steady(r)'
  BY <1>1, <1>5 DEF Intent, Steady, NewRecord, Initial
<1>7. Private(r)'
  BY <1>1, <1>4, <1>5 DEF Intent, Private, Apart, NewRecord, Initial
<1> QED
  BY <1>2, <1>6, <1>7

AllIntent == \A r \in Runs : Intent(r)

\* Every run that applies segments is up to what its latest segment calls for.
LEMMA IntentInvariant == Spec => []AllIntent
<1>1. Init => AllIntent
  BY DEF Init, AllIntent, Intent
<1>2. ASSUME Base, Unseen, Alike, [Next]_vars, AllIntent
      PROVE  AllIntent'
  <2> SUFFICES ASSUME NEW r \in Runs PROVE Intent(r)'
    BY DEF AllIntent
  <2>1. Intent(r)
    BY <1>2 DEF AllIntent
  <2>2. CASE UNCHANGED vars
    <3>1. UNCHANGED <<store, members, pc, unread, copy, trail, next, work>>
      BY <2>2 DEF vars, redis, local
    <3>2. pc[r] = "apply" => Doomed(r)'
      BY <1>2, <2>1, <3>1, DoomedStays DEF Intent
    <3>3. Latest(r)' = Latest(r) /\ Own(r)' = Own(r) /\ \A k : Lists(r, k)' <=> Lists(r, k)
      BY <3>1 DEF Latest, Lists, Own
    <3>4. Steady(r) => Steady(r)'
      BY <3>1, <3>3 DEF Steady, NewRecord, Initial
    <3>5. Private(r) => Private(r)'
      BY <3>1, <3>3 DEF Private, Apart, NewRecord, Initial
    <3> QED
      BY <2>1, <3>1, <3>2, <3>4, <3>5 DEF Intent
  <2> QED
    BY <1>2, <2>1, <2>2, IntentFromAfar, IntentAtWork, IntentOfLapse DEF Next, AllOver
<1> QED
  BY <1>1, <1>2, BaseInvariant, UnseenInvariant, AlikeInvariant, PTL DEF Spec

\* The journeys of the successes that are stored, read or written again have been verified; those of a first record
\* are about to be.
KnownStored == \A id \in Ids : store[id].outcome = "success" => store[id].journey \in proved
KnownTo(r) ==
  /\ \A id \in Ids : copy[r][id].outcome = "success" =>
       copy[r][id].journey \in proved \/ \E i \in DOMAIN work[r] : work[r][i].cmd = "SET" /\ work[r][i].id = id
  /\ \A i \in DOMAIN work[r] : work[r][i].record.outcome = "success" =>
       work[r][i].record.journey \in proved \/ (pc[r] = "apply" /\ work[r][i].id = Own(r))
Known == KnownStored /\ \A r \in Runs : KnownTo(r)

\* What a command does to the journeys verified.
LEMMA EffectProves ==
  ASSUME Typed, NEW c \in CommandType, Effect(c)
  PROVE  /\ proved \subseteq proved'
         /\ c.cmd = "SET" /\ c.record.outcome = "success" => c.record.journey \in proved'
<1>1. proved' = proved \cup {j \in Journeys : c.cmd = "SET" /\ c.record.outcome = "success" /\ c.record.journey = j}
  BY DEF Effect
<1>2. c.cmd = "SET" => c.record.journey \in Journeys
  BY DEF CommandType, Entry, Record
<1> QED
  BY <1>1, <1>2

\* What has been verified stays so; the store changes by a command, or loses a record.
LEMMA StoreMoves ==
  ASSUME Base, [Next]_vars
  PROVE  /\ proved \subseteq proved'
         /\ \/ \E r \in Runs : work[r] # << >> /\ Effect(Head(work[r]))
            \/ proved' = proved /\ \A id \in Ids : store'[id] \in {store[id], NoRecord}
<1>1. ASSUME NEW r \in Runs, work[r] # << >>, Effect(Head(work[r]))
      PROVE  proved \subseteq proved'
  BY <1>1, CommandAtHand, EffectProves DEF Base
<1>2. CASE UNCHANGED vars
  BY <1>2 DEF vars, redis, ghost
<1>3. ASSUME NEW r \in Runs,
             \/ BeginLookup(r) \/ Smembers(r) \/ Get(r) \/ TierRead(r) \/ LookupTimeout(r) \/ LookupRejected(r)
             \/ Navigated(r) \/ ApplySegment(r) \/ Evict(r) \/ Command(r) \/ Finish(r) \/ WriteBackStops(r)
      PROVE  (proved' = proved /\ UNCHANGED store) \/ (work[r] # << >> /\ Effect(Head(work[r])))
  BY <1>3 DEF BeginLookup, Smembers, Get, TierRead, LookupTimeout, LookupRejected, Navigated, ApplySegment, Evict,
           Command, Finish, WriteBackStops, redis, ghost
<1>4. ASSUME NEW e \in Ids, Lapse(e)
      PROVE  proved' = proved /\ \A id \in Ids : store'[id] \in {store[id], NoRecord}
  BY <1>4 DEF Lapse, Base, Typed, RedisTyped
<1> QED
  BY <1>1, <1>2, <1>3, <1>4 DEF Next, AllOver

\* Every step keeps the successes stored among the verified journeys.
LEMMA KnownStaysStored ==
  ASSUME Base, [Next]_vars, KnownStored
  PROVE  KnownStored'
<1>1. NoRecord.outcome # "success"
  BY DEF NoRecord
<1>2. proved \subseteq proved'
  BY StoreMoves
<1>3. ASSUME NEW r \in Runs, work[r] # << >>, Effect(Head(work[r]))
      PROVE  KnownStored'
  <2> DEFINE c == Head(work[r])
  <2>1. c \in CommandType /\ Effect(c) /\ Typed
    BY <1>3, CommandAtHand DEF Base
  <2> HIDE DEF c
  <2>2. \A id \in Ids : store'[id] = IF c.cmd \in {"DEL", "SET"} /\ c.id = id THEN c.record ELSE store[id]
    BY <2>1, EffectTells
  <2>3. c.cmd = "DEL" => c.record = NoRecord
    BY <2>1 DEF CommandType
  <2>4. c.cmd = "SET" /\ c.record.outcome = "success" => c.record.journey \in proved'
    BY <2>1, EffectProves
  <2> QED
    BY <1>1, <1>2, <2>2, <2>3, <2>4 DEF KnownStored
<1> QED
  BY <1>1, <1>2, <1>3, StoreMoves DEF KnownStored

\* A segment writes successes that were verified, and its own.
LEMMA KnownOfSegment ==
  ASSUME Base, [Next]_vars, NEW r \in Runs, ApplySegment(r), KnownTo(r)
  PROVE  KnownTo(r)'
<1> DEFINE e == NextId(r)
           f == After(r)
<1>1. /\ Seg(r) \in Segment /\ e \in Ids /\ Typed /\ next[r] \in Nat /\ work[r] = << >> /\ e \notin Live(copy[r]) /\ Base
  BY SegmentAtHand, NextIdIsNew DEF Base
<1>2. PICK w \in Seq(CommandType) : \E n \in Nat : work' = [work EXCEPT ![r] = w] /\ Layered(r, w, n)
  BY SegmentLayers
<1>3. /\ \E i \in DOMAIN w : w[i].cmd = "SET" /\ w[i].id = e
      /\ \A i \in DOMAIN w : w[i].id # e /\ w[i].record # NoRecord => w[i].id \in Touched(r) /\ w[i].record = f[w[i].id]
  BY <1>2 DEF Layered
<1>4. work'[r] = w /\ copy'[r] = f /\ pc'[r] = "apply"
  <2>1. copy' = [copy EXCEPT ![r] = f] /\ pc' = [pc EXCEPT ![r] = "apply"]
    BY <1>1, SegmentSent DEF Base, ApplySegment
  <2> HIDE DEF f
  <2> QED
    BY <1>1, <1>2, <2>1 DEF Typed, LocalTyped
<1>5. Own(r)' = e
  <2>1. next' = [next EXCEPT ![r] = @ + 1]
    BY DEF ApplySegment
  <2>2. next'[r] = next[r] + 1 /\ next'[r] - 1 = next[r]
    BY <1>1, <2>1 DEF Typed, LocalTyped
  <2> QED
    BY <2>2 DEF Own, NextId
<1>6. proved \subseteq proved' /\ NoRecord.outcome # "success"
  BY StoreMoves DEF NoRecord
<1>7. \A id \in Ids : copy[r][id].outcome = "success" => copy[r][id].journey \in proved
  BY <1>1 DEF KnownTo
<1>8. \A id \in Touched(r) : f[id].journey = copy[r][id].journey /\ f[id].outcome = copy[r][id].outcome /\ id \in Ids
  BY <1>1, ChangedStays
<1>9. \A id \in Ids : id # e => f[id] = NoRecord \/ f[id] = copy[r][id] \/ id \in Touched(r)
  <2> SUFFICES ASSUME NEW id \in Ids, id # e, id \notin Touched(r)
               PROVE  f[id] = NoRecord \/ f[id] = copy[r][id]
    OBVIOUS
  <2>1. CASE id \in Gone(r)
    BY <2>1 DEF After
  <2>2. CASE id \notin Gone(r)
    BY <2>2 DEF After
  <2> QED
    BY <2>1, <2>2
<1> HIDE DEF e, f
<1>10. \A id \in Ids : id # e /\ f[id].outcome = "success" => f[id].journey \in proved
  BY <1>6, <1>7, <1>8, <1>9
<1>11. \A id \in Ids : f[id].outcome = "success" =>
         f[id].journey \in proved' \/ \E i \in DOMAIN w : w[i].cmd = "SET" /\ w[i].id = id
  BY <1>3, <1>6, <1>10
<1>12. \A i \in DOMAIN w : w[i].record.outcome = "success" => w[i].record.journey \in proved' \/ w[i].id = e
  BY <1>3, <1>6, <1>8, <1>10
<1> QED
  BY <1>4, <1>5, <1>11, <1>12 DEF KnownTo

\* A success that is sent is verified from then on.
LEMMA KnownOfCommand ==
  ASSUME Base, [Next]_vars, Alike, NEW r \in Runs, Command(r), KnownTo(r)
  PROVE  KnownTo(r)'
<1> DEFINE w == work[r]
           t == Tail(w)
           c == Head(w)
<1>1. /\ UNCHANGED <<pc, copy, next>> /\ work' = [work EXCEPT ![r] = t] /\ w # << >> /\ Effect(c) /\ Typed
  BY DEF Command, Base
<1>2. work'[r] = t
  <2> HIDE DEF t
  <2> QED
    BY <1>1 DEF Typed, LocalTyped
<1>3. /\ c \in CommandType /\ c = w[1] /\ 1 \in DOMAIN w
      /\ \A i \in DOMAIN t : i + 1 \in DOMAIN w /\ t[i] = w[i + 1]
      /\ \A i \in DOMAIN w : i = 1 \/ (i - 1 \in DOMAIN t /\ t[i - 1] = w[i])
  <2>1. /\ c \in CommandType /\ c = w[1] /\ 1 \in DOMAIN w /\ t \in Seq(CommandType) /\ w \in Seq(CommandType)
        /\ \A i \in DOMAIN t : i + 1 \in DOMAIN w /\ t[i] = w[i + 1]
    BY <1>1, CommandAtHand DEF Typed, LocalTyped
  <2>2. \A i \in DOMAIN w : i = 1 \/ (i - 1 \in DOMAIN t /\ t[i - 1] = w[i])
    <3> HIDE DEF w
    <3> QED
      BY <1>1, <2>1
  <2> QED
    BY <2>1, <2>2
<1>4. Own(r)' = Own(r)
  BY <1>1 DEF Own
<1>5. /\ proved \subseteq proved'
      /\ c.cmd = "SET" /\ c.record.outcome = "success" => c.record.journey \in proved'
  BY <1>1, <1>3, EffectProves
<1> HIDE DEF t, c
<1>6. ASSUME NEW id \in Ids, copy[r][id].outcome = "success"
      PROVE  copy[r][id].journey \in proved' \/ \E i \in DOMAIN t : t[i].cmd = "SET" /\ t[i].id = id
  <2>1. CASE copy[r][id].journey \in proved
    BY <1>5, <2>1
  <2>2. CASE \E i \in DOMAIN w : w[i].cmd = "SET" /\ w[i].id = id
    <3>1. PICK i \in DOMAIN w : w[i].cmd = "SET" /\ w[i].id = id
      BY <2>2
    <3>2. CASE i = 1
      <4>1. copy[r][id] \in Entry /\ copy[r][id] # NoRecord /\ c.record \in Entry /\ c.record # NoRecord
        BY <1>1, <1>3, <1>6, <3>1, <3>2 DEF Typed, LocalTyped, CommandType, NoRecord
      <4>2. Version(id, copy[r][id]) /\ Version(id, c.record)
        BY <1>3, <3>1, <3>2, <4>1 DEF Version
      <4>3. Same(copy[r][id], c.record)
        BY <4>1, <4>2 DEF Alike
      <4> QED
        BY <1>3, <1>5, <1>6, <3>1, <3>2, <4>3 DEF Same
    <3>3. CASE i # 1
      BY <1>3, <3>1, <3>3
    <3> QED
      BY <3>2, <3>3
  <2> QED
    BY <1>6, <2>1, <2>2 DEF KnownTo
<1>7. \A i \in DOMAIN t : t[i].record.outcome = "success" =>
        t[i].record.journey \in proved' \/ (pc[r] = "apply" /\ t[i].id = Own(r))
  BY <1>3, <1>5 DEF KnownTo
<1> QED
  BY <1>1, <1>2, <1>4, <1>6, <1>7 DEF KnownTo

\* A success that is stored, read or written again was verified.
LEMMA KnownInvariant == Spec => []Known
<1>1. Init => Known
  BY DEF Init, Known, KnownStored, KnownTo, Nothing, NoRecord
<1>2. ASSUME Base, Alike, [Next]_vars, Known
      PROVE  Known'
  <2>1. KnownStored'
    BY <1>2, KnownStaysStored DEF Known
  <2> SUFFICES ASSUME NEW r \in Runs PROVE KnownTo(r)'
    BY <2>1 DEF Known
  <2>2. KnownTo(r) /\ proved \subseteq proved' /\ NoRecord.outcome # "success"
    BY <1>2, StoreMoves DEF Known, NoRecord
  <2>3. CASE /\ copy'[r] = copy[r] /\ work'[r] = work[r]
             /\ (pc'[r] = pc[r] /\ next'[r] = next[r]) \/ work[r] = << >>
    BY <2>2, <2>3 DEF KnownTo, Own
  <2>4. CASE copy'[r] = Nothing /\ work'[r] = << >>
    BY <2>2, <2>4 DEF KnownTo, Nothing
  <2>5. CASE UNCHANGED vars
    BY <2>3, <2>5 DEF vars, local
  <2>6. ASSUME NEW e \in Ids, Lapse(e)
        PROVE  KnownTo(r)'
    BY <2>3, <2>6 DEF Lapse, local
  <2>7. ASSUME NEW q \in Runs, q # r,
               \/ BeginLookup(q) \/ Smembers(q) \/ Get(q) \/ TierRead(q) \/ LookupTimeout(q) \/ LookupRejected(q)
               \/ Navigated(q) \/ ApplySegment(q) \/ Evict(q) \/ Command(q) \/ Finish(q) \/ WriteBackStops(q)
        PROVE  KnownTo(r)'
    BY <1>2, <2>3, <2>7, OthersKeepTheirs
  <2>8. CASE \E p \in {"ended", "failed"} : Leave(r, p)
    <3>1. copy'[r] = Nothing /\ work'[r] = << >>
      BY <1>2, <2>8 DEF Leave, Base, Typed, LocalTyped
    <3> QED
      BY <2>4, <3>1
  <2>9. CASE TierRead(r) \/ LookupTimeout(r)
    <3>1. work'[r] = work[r] /\ work[r] = << >> /\ copy'[r] = Nothing
      BY <1>2, <2>9 DEF TierRead, LookupTimeout, Tiers, Base, AllPlaced, Placed, Typed, LocalTyped
    <3> QED
      BY <2>4, <3>1
  <2>10. CASE BeginLookup(r) \/ Smembers(r) \/ (Navigated(r) /\ ~Leave(r, "ended"))
    <3>1. work' = work /\ work[r] = << >> /\ copy' = copy
      BY <1>2, <2>10 DEF BeginLookup, Smembers, Navigated, Tiers, Base, AllPlaced, Placed
    <3> QED
      BY <2>3, <3>1
  <2>11. CASE Get(r)
    <3>1. PICK e \in unread[r] : copy' = [copy EXCEPT ![r][e] = store[e]]
      BY <2>11 DEF Get
    <3>2. UNCHANGED <<work, pc, next>>
      BY <2>11 DEF Get
    <3>3. \A id \in Ids : copy'[r][id] = IF id = e THEN store[e] ELSE copy[r][id]
      BY <1>2, <3>1 DEF Base, Typed, LocalTyped
    <3> QED
      BY <1>2, <2>2, <3>2, <3>3 DEF KnownTo, Known, KnownStored, Own
  <2>12. CASE Evict(r)
    <3>1. PICK out \in Evictions(copy[r]) : \E w \in Deletes(out) : work' = [work EXCEPT ![r] = w]
      BY <2>12, EvictionSent
    <3>2. PICK w \in Deletes(out) : work' = [work EXCEPT ![r] = w]
      BY <3>1
    <3>3. UNCHANGED copy /\ work[r] = << >> /\ work'[r] = w
      BY <1>2, <2>12, <3>2 DEF Evict, Base, Typed, LocalTyped
    <3>4. \A i \in DOMAIN w : w[i].record = NoRecord
      BY DEF Deletes
    <3>5. \A id \in Ids : copy[r][id].outcome = "success" => copy[r][id].journey \in proved
      BY <2>2, <3>3 DEF KnownTo
    <3> QED
      BY <2>2, <3>3, <3>4, <3>5 DEF KnownTo
  <2> QED
    BY <1>2, <2>2, <2>5, <2>6, <2>7, <2>8, <2>9, <2>10, <2>11, <2>12, Leavers, KnownOfSegment, KnownOfCommand DEF Next, AllOver
<1> QED
  BY <1>1, <1>2, BaseInvariant, AlikeInvariant, PTL DEF Spec

\* Run r takes id out of an index only after it has deleted its record.
Covered(r, id) ==
  \A i \in DOMAIN work[r] : work[r][i].cmd = "SREM" /\ work[r][i].id = id =>
    \E k \in 1..i - 1 : work[r][k].cmd = "DEL" /\ work[r][k].id = id

\* The evidence for journey j: a listed success that no run is about to take from the index alone, or the success that
\* a run is about to list.
Shown(j, id) ==
  /\ id \in members["domain"] /\ store[id].journey = j /\ store[id].outcome = "success"
  /\ \A r \in Runs : Covered(r, id)
Coming(j, r) ==
  /\ pc[r] = "apply" /\ Latest(r).journey = j /\ Latest(r).outcome = "success"
  /\ \E k \in DOMAIN work[r] : Lists(r, k)
Evident(j) == (\E id \in Ids : Shown(j, id)) \/ (\E r \in Runs : Coming(j, r))

\* A command that has been sent moves those that follow it up.
LEMMA CommandsMoveUp ==
  ASSUME Base, NEW r \in Runs, Command(r)
  PROVE  /\ work[r] # << >> /\ Effect(Head(work[r])) /\ Head(work[r]) = work[r][1] /\ Head(work[r]) \in CommandType
         /\ \A i \in DOMAIN work'[r] : i \in Nat /\ i >= 1 /\ i + 1 \in DOMAIN work[r] /\ work'[r][i] = work[r][i + 1]
         /\ \A i \in DOMAIN work[r] : i \in Nat /\ (i = 1 \/ (i > 1 /\ i - 1 \in DOMAIN work'[r] /\ work'[r][i - 1] = work[r][i]))
<1> DEFINE w == work[r]
           t == Tail(w)
<1>1. w # << >> /\ w \in Seq(CommandType) /\ work' = [work EXCEPT ![r] = t] /\ Effect(Head(w))
  BY DEF Command, Base, Typed, LocalTyped
<1>2. work'[r] = t
  <2> HIDE DEF t
  <2> QED
    BY <1>1 DEF Base, Typed, LocalTyped
<1>3. Head(w) = w[1] /\ Head(w) \in CommandType /\ t \in Seq(CommandType) /\ DOMAIN w = 1..Len(w)
      /\ \A i \in DOMAIN t : i + 1 \in DOMAIN w /\ t[i] = w[i + 1]
  BY <1>1, CommandAtHand DEF Base
<1> HIDE DEF w
<1>4. /\ DOMAIN w \subseteq Nat /\ \A i \in DOMAIN t : i \in Nat /\ i >= 1
      /\ \A i \in DOMAIN w : i = 1 \/ (i > 1 /\ i - 1 \in DOMAIN t /\ t[i - 1] = w[i])
  BY <1>1, <1>3
<1> HIDE DEF t
<1> QED
  BY <1>1, <1>2, <1>3, <1>4 DEF w

\* A run that does not send the deletion of a record keeps covered what it takes out of the index.
LEMMA CoveredStays ==
  ASSUME Base, NEW q \in Runs, NEW id \in Ids, Covered(q, id),
         Command(q) => ~(Head(work[q]).cmd = "DEL" /\ Head(work[q]).id = id),
         \/ BeginLookup(q) \/ Smembers(q) \/ Get(q) \/ TierRead(q) \/ LookupTimeout(q) \/ LookupRejected(q)
         \/ Navigated(q) \/ ApplySegment(q) \/ Evict(q) \/ Command(q) \/ Finish(q) \/ WriteBackStops(q)
  PROVE  Covered(q, id)'
<1> USE DEF Base, Typed, LocalTyped
<1>1. CASE \E p \in {"ended", "failed"} : Leave(q, p)
  BY <1>1 DEF Leave, Covered
<1>2. CASE BeginLookup(q) \/ Smembers(q) \/ Get(q) \/ TierRead(q) \/ LookupTimeout(q) \/ (Navigated(q) /\ ~Leave(q, "ended"))
  <2>1. work' = work
    BY <1>2 DEF BeginLookup, Smembers, Get, TierRead, LookupTimeout, Navigated
  <2> QED
    BY <2>1 DEF Covered
<1>3. CASE ApplySegment(q)
  <2>1. PICK w \in Seq(CommandType) : \E n \in Nat : work' = [work EXCEPT ![q] = w] /\ Layered(q, w, n)
    BY <1>3, SegmentLayers
  <2>2. work'[q] = w
    BY <2>1
  <2>3. \A i \in DOMAIN w : w[i].cmd = "SREM" => \E k \in 1..i - 1 : w[k].cmd = "DEL" /\ w[k].id = w[i].id
    BY <2>1 DEF Layered
  <2> QED
    BY ONLY <2>2, <2>3 DEF Covered
<1>4. CASE Evict(q)
  <2>1. PICK out \in Evictions(copy[q]) : \E w \in Deletes(out) : work' = [work EXCEPT ![q] = w]
    BY <1>4, EvictionSent
  <2>2. PICK w \in Deletes(out) : work' = [work EXCEPT ![q] = w]
    BY <2>1
  <2>3. work'[q] = w
    BY <2>2
  <2>4. \A i \in DOMAIN w : w[i].cmd = "SREM" => \E k \in 1..i - 1 : w[k].cmd = "DEL" /\ w[k].id = w[i].id
    BY DEF Deletes
  <2> QED
    BY ONLY <2>3, <2>4 DEF Covered
<1>5. CASE Command(q)
  <2>1. /\ Head(work[q]) = work[q][1]
        /\ \A i \in DOMAIN work'[q] : i \in Nat /\ i >= 1 /\ i + 1 \in DOMAIN work[q] /\ work'[q][i] = work[q][i + 1]
        /\ \A i \in DOMAIN work[q] : i \in Nat /\ (i = 1 \/ (i > 1 /\ i - 1 \in DOMAIN work'[q] /\ work'[q][i - 1] = work[q][i]))
    BY <1>5, CommandsMoveUp
  <2> SUFFICES ASSUME NEW i \in DOMAIN work'[q], work'[q][i].cmd = "SREM", work'[q][i].id = id
               PROVE  \E k \in 1..i - 1 : work'[q][k].cmd = "DEL" /\ work'[q][k].id = id
    BY DEF Covered
  <2>2. i \in Nat /\ i + 1 \in DOMAIN work[q] /\ work'[q][i] = work[q][i + 1]
    BY <2>1
  <2>3. PICK k \in 1..(i + 1) - 1 : work[q][k].cmd = "DEL" /\ work[q][k].id = id
    BY <2>2 DEF Covered
  <2>4. k # 1 /\ k \in Nat /\ k > 1 /\ k < i + 1
    BY <1>5, <2>1, <2>2, <2>3
  <2>5. k \in DOMAIN work[q]
    <3>1. DOMAIN work[q] = 1..Len(work[q]) /\ Len(work[q]) \in Nat
      OBVIOUS
    <3> HIDE DEF Typed, LocalTyped, Base
    <3> QED
      BY <2>2, <2>4, <3>1
  <2>6. k - 1 \in 1..i - 1 /\ work'[q][k - 1] = work[q][k]
    <3>1. k - 1 \in 1..i - 1
      BY ONLY <2>2, <2>4
    <3>2. work'[q][k - 1] = work[q][k]
      BY ONLY <2>1, <2>4, <2>5
    <3> QED
      BY <3>1, <3>2
  <2> QED
    BY <2>3, <2>6
<1> QED
  BY <1>1, <1>2, <1>3, <1>4, <1>5, Leavers

\* Only the deletion of its record ends the evidence of a listed success.
LEMMA ShownOfEffect ==
  ASSUME Base, Alike, NEW j, NEW id \in Ids, Shown(j, id), NEW q \in Runs, work[q] # << >>, Effect(Head(work[q])),
         ~(Head(work[q]).cmd = "DEL" /\ Head(work[q]).id = id)
  PROVE  id \in members'["domain"] /\ store'[id].journey = j /\ store'[id].outcome = "success"
<1> DEFINE c == Head(work[q])
<1>1. c \in CommandType /\ c = work[q][1] /\ 1 \in DOMAIN work[q] /\ Effect(c) /\ Typed /\ ~(c.cmd = "DEL" /\ c.id = id)
  BY CommandAtHand DEF Base
<1> HIDE DEF c
<1>2. ~(c.cmd = "SREM" /\ c.id = id)
  BY <1>1 DEF Shown, Covered
<1>3. id \in members'["domain"]
  BY <1>1, <1>2, EffectIndexes DEF Shown, Keys
<1>4. store'[id] = IF c.cmd \in {"DEL", "SET"} /\ c.id = id THEN c.record ELSE store[id]
  BY <1>1, EffectTells
<1>5. CASE c.cmd = "SET" /\ c.id = id
  <2>1. c.record \in Entry /\ c.record # NoRecord /\ store[id] \in Entry /\ store[id] # NoRecord
    BY <1>1, <1>5 DEF CommandType, Typed, RedisTyped, Shown, NoRecord
  <2>2. Version(id, c.record) /\ Version(id, store[id])
    BY <1>1, <1>5, <2>1 DEF Version
  <2>3. Same(c.record, store[id])
    BY <2>1, <2>2 DEF Alike
  <2> QED
    BY <1>3, <1>4, <1>5, <2>3 DEF Same, Shown
<1>6. CASE ~(c.cmd = "SET" /\ c.id = id)
  BY <1>1, <1>3, <1>4, <1>6 DEF Shown
<1> QED
  BY <1>5, <1>6

\* A run that deletes the record of a listed success is about to list a success of the journey itself, or evicts it.
LEMMA DeletionOfShown ==
  ASSUME Base, NEW j \in Journeys, NEW id \in Ids, Shown(j, id), NEW q \in Runs, Intent(q), work[q] # << >>,
         Head(work[q]).cmd = "DEL", Head(work[q]).id = id
  PROVE  \/ pc[q] = "evict" /\ j \in Evicted(q)
         \/ pc[q] = "apply" /\ Latest(q).journey = j /\ Latest(q).outcome = "success" /\ \E k \in DOMAIN work[q] : k > 1 /\ Lists(q, k)
<1>1. pc[q] \in {"apply", "evict"} /\ Head(work[q]) = work[q][1] /\ 1 \in DOMAIN work[q]
  BY CommandAtHand DEF Base, AllPlaced, Placed
<1>2. CASE pc[q] = "evict"
  BY <1>2 DEF Evicted, Shown
<1>3. CASE pc[q] = "apply"
  <2>1. /\ Latest(q).outcome = "success" /\ \E k \in DOMAIN work[q] : k > 1 /\ Lists(q, k)
        /\ \A v \in Entry : Version(id, v) => v.journey = Latest(q).journey
    BY <1>1, <1>3 DEF Intent, Doomed
  <2>2. store[id] \in Entry /\ Version(id, store[id])
    BY DEF Base, Typed, RedisTyped, Version, Shown, NoRecord
  <2> QED
    BY <1>3, <2>1, <2>2 DEF Shown
<1> QED
  BY <1>1, <1>2, <1>3

\* What a run lists later it still lists after its next command.
LEMMA ComingOfCommand ==
  ASSUME Base, NEW j, NEW r \in Runs, Command(r), pc[r] = "apply", Latest(r).journey = j, Latest(r).outcome = "success",
         NEW k \in DOMAIN work[r], k > 1, Lists(r, k)
  PROVE  Coming(j, r)'
<1>1. UNCHANGED <<pc, trail, next>>
  BY DEF Command
<1>2. k - 1 \in DOMAIN work'[r] /\ work'[r][k - 1] = work[r][k]
  BY CommandsMoveUp
<1>3. Lists(r, k - 1)'
  BY <1>1, <1>2 DEF Lists, Own
<1> QED
  BY <1>1, <1>2, <1>3 DEF Coming, Latest

\* Whatever a run does, the evidence is still shown, or coming from that run, or the journey is excused.
LEMMA ShownMoves ==
  ASSUME Base, Alike, NEW j \in Journeys, NEW id \in Ids, Shown(j, id), NEW q \in Runs, Intent(q),
         \/ BeginLookup(q) \/ Smembers(q) \/ Get(q) \/ TierRead(q) \/ LookupTimeout(q) \/ LookupRejected(q)
         \/ Navigated(q) \/ ApplySegment(q) \/ Evict(q) \/ Command(q) \/ Finish(q) \/ WriteBackStops(q)
  PROVE  Shown(j, id)' \/ Coming(j, q)' \/ j \in excused'
<1> DEFINE c == Head(work[q])
           doomed == work[q] # << >> /\ c.cmd = "DEL" /\ c.id = id
<1>1. ASSUME Command(q), doomed
      PROVE  Coming(j, q)' \/ j \in excused'
  <2>1. excused' = excused \cup Evicted(q)
    BY <1>1 DEF Command
  <2> QED
    BY <1>1, <2>1, DeletionOfShown, ComingOfCommand
<1>2. ASSUME WriteBackStops(q), doomed
      PROVE  j \in excused'
  <2>1. excused' = excused \cup Evicted(q) \cup
          {i \in Journeys : pc[q] = "apply" /\ work[q] # << >> /\ i = trail[q][next[q] - 1].journey}
    BY <1>2 DEF WriteBackStops
  <2> QED
    BY <1>2, <2>1, DeletionOfShown DEF Latest
<1>3. ASSUME ~(Command(q) /\ doomed), ~(WriteBackStops(q) /\ doomed)
      PROVE  Shown(j, id)'
  <2>1. UNCHANGED redis \/ (work[q] # << >> /\ Effect(c) /\ (Command(q) \/ WriteBackStops(q)))
    BY DEF BeginLookup, Smembers, Get, TierRead, LookupTimeout, LookupRejected, Navigated, ApplySegment, Evict,
           Command, Finish, WriteBackStops
  <2>2. id \in members'["domain"] /\ store'[id].journey = j /\ store'[id].outcome = "success"
    <3>1. CASE UNCHANGED redis
      BY <3>1 DEF redis, Shown
    <3>2. CASE work[q] # << >> /\ Effect(c) /\ (Command(q) \/ WriteBackStops(q))
      BY <1>3, <3>2, ShownOfEffect
    <3> QED
      BY <2>1, <3>1, <3>2
  <2>3. Covered(q, id)'
    <3>1. Covered(q, id)
      BY DEF Shown
    <3>2. Command(q) => ~(c.cmd = "DEL" /\ c.id = id)
      BY <1>3 DEF Command
    <3> QED
      BY <3>1, <3>2, CoveredStays
  <2>4. ASSUME NEW p \in Runs, p # q
        PROVE  Covered(p, id)'
    <3>1. work'[p] = work[p] /\ Covered(p, id)
      BY <2>4, OthersKeepTheirs DEF Shown
    <3> QED
      BY <3>1 DEF Covered
  <2> QED
    BY <2>2, <2>3, <2>4 DEF Shown
<1> QED
  BY <1>1, <1>2, <1>3

\* Whatever a run does, evidence that was coming is still coming or shown, or the journey is excused.
LEMMA ComingMoves ==
  ASSUME Base, NEW j \in Journeys, NEW r \in Runs, Coming(j, r), Intent(r), NEW q \in Runs,
         \/ BeginLookup(q) \/ Smembers(q) \/ Get(q) \/ TierRead(q) \/ LookupTimeout(q) \/ LookupRejected(q)
         \/ Navigated(q) \/ ApplySegment(q) \/ Evict(q) \/ Command(q) \/ Finish(q) \/ WriteBackStops(q)
  PROVE  Evident(j)' \/ j \in excused'
<1>1. PICK k \in DOMAIN work[r] : Lists(r, k)
  BY DEF Coming
<1>2. pc[r] = "apply" /\ work[r] # << >> /\ Own(r) \in Ids /\ unread[r] = {} /\ Latest(r) \in Segment
  BY <1>1, OwnIsTyped DEF Coming
<1>3. CASE q # r
  <2>1. pc'[r] = pc[r] /\ trail'[r] = trail[r] /\ next'[r] = next[r] /\ work'[r] = work[r]
    BY <1>3, OthersKeepTheirs
  <2>2. Coming(j, r)'
    BY <2>1 DEF Coming, Latest, Lists, Own
  <2> QED
    BY <2>2 DEF Evident
<1>4. CASE q = r /\ WriteBackStops(r)
  <2>1. excused' = excused \cup Evicted(r) \cup
          {i \in Journeys : pc[r] = "apply" /\ work[r] # << >> /\ i = trail[r][next[r] - 1].journey}
    BY <1>4 DEF WriteBackStops
  <2> QED
    BY <1>2, <2>1 DEF Coming, Latest
<1>5. CASE q = r /\ Command(r) /\ k # 1
  <2>1. k > 1
    BY <1>5, CommandsMoveUp
  <2>2. Coming(j, r)'
    BY <1>1, <1>2, <1>5, <2>1, ComingOfCommand DEF Coming
  <2> QED
    BY <2>2 DEF Evident
<1>6. CASE q = r /\ Command(r) /\ k = 1
  <2> DEFINE c == Head(work[r])
  <2>1. /\ Effect(c) /\ c = work[r][1] /\ c \in CommandType /\ Typed
        /\ \A i \in DOMAIN work'[r] : i + 1 \in DOMAIN work[r] /\ work'[r][i] = work[r][i + 1]
    BY <1>6, CommandsMoveUp DEF Base
  <2> HIDE DEF c
  <2>2. c.cmd = "SADD" /\ c.key = "domain" /\ c.id = Own(r)
    BY <1>1, <1>6, <2>1 DEF Lists
  <2>3. \A i \in DOMAIN work[r] : i \in Nat /\ i >= 1
    BY <1>6, CommandsMoveUp
  <2>4. store[Own(r)] = NewRecord(Latest(r)) /\ \A p \in Runs \ {r} : Apart(p, Own(r))
    BY <1>1, <1>2, <1>6, <2>3 DEF Intent, Private
  <2>5. store'[Own(r)] = NewRecord(Latest(r)) /\ Own(r) \in members'["domain"]
    BY <1>2, <2>1, <2>2, <2>4, EffectTells, EffectIndexes DEF Keys
  <2>6. store'[Own(r)].journey = j /\ store'[Own(r)].outcome = "success"
    BY <1>2, <2>5, NewRecordIsTyped DEF Coming
  <2>7. ASSUME NEW p \in Runs
        PROVE  \A i \in DOMAIN work'[p] : ~(work'[p][i].cmd = "SREM" /\ work'[p][i].id = Own(r))
    <3>1. CASE p = r
      <4>1. \A i \in DOMAIN work[r] : work[r][i].id = Own(r) => work[r][i].cmd \in {"SET", "SADD"}
        BY <1>2 DEF Intent, Steady
      <4> QED
        BY <2>1, <3>1, <4>1
    <3>2. CASE p # r
      <4>1. work'[p] = work[p]
        BY <1>6, <3>2, OthersKeepTheirs
      <4> QED
        BY <2>4, <3>2, <4>1 DEF Apart
    <3> QED
      BY <3>1, <3>2
  <2> DEFINE id == Own(r)
  <2>8. /\ id \in Ids /\ id \in members'["domain"] /\ store'[id].journey = j /\ store'[id].outcome = "success"
        /\ \A p \in Runs : \A i \in DOMAIN work'[p] : ~(work'[p][i].cmd = "SREM" /\ work'[p][i].id = id)
    BY <1>2, <2>5, <2>6, <2>7
  <2>9. id' = id
    BY <1>6 DEF Command, Own
  <2> HIDE DEF id
  <2>10. Shown(j, id)'
    BY <2>8, <2>9 DEF Shown, Covered
  <2> QED
    BY <2>8, <2>9, <2>10 DEF Evident
<1>7. CASE q = r /\ ~Command(r) /\ ~WriteBackStops(r)
  <2>1. ~BeginLookup(r) /\ ~Smembers(r) /\ ~Get(r) /\ ~TierRead(r) /\ ~LookupTimeout(r) /\ ~LookupRejected(r)
        /\ ~Navigated(r) /\ ~ApplySegment(r) /\ ~Evict(r) /\ ~Finish(r)
    BY <1>2 DEF BeginLookup, Smembers, Get, TierRead, LookupTimeout, LookupRejected, Navigated, ApplySegment, Evict, Finish, Tiers
  <2> QED
    BY <1>7, <2>1
<1> QED
  BY <1>3, <1>4, <1>5, <1>6, <1>7

\* A journey is verified by the first record of a success, which its run is about to list.
LEMMA ProvedIsComing ==
  ASSUME Base, NEW q \in Runs, Intent(q), KnownTo(q), NEW j \in proved', j \notin proved,
         \/ BeginLookup(q) \/ Smembers(q) \/ Get(q) \/ TierRead(q) \/ LookupTimeout(q) \/ LookupRejected(q)
         \/ Navigated(q) \/ ApplySegment(q) \/ Evict(q) \/ Command(q) \/ Finish(q) \/ WriteBackStops(q)
  PROVE  Coming(j, q)' \/ j \in excused'
<1> DEFINE c == Head(work[q])
<1>1. work[q] # << >> /\ Effect(c) /\ (Command(q) \/ WriteBackStops(q))
  BY DEF BeginLookup, Smembers, Get, TierRead, LookupTimeout, LookupRejected, Navigated, ApplySegment, Evict,
         Command, Finish, WriteBackStops, ghost
<1>2. c = work[q][1] /\ 1 \in DOMAIN work[q]
  BY <1>1, CommandAtHand DEF Base
<1>3. c.cmd = "SET" /\ c.record.outcome = "success" /\ c.record.journey = j /\ j \in Journeys
  BY <1>1 DEF Effect
<1> HIDE DEF c
<1>4. pc[q] = "apply" /\ c.id = Own(q)
  BY <1>2, <1>3 DEF KnownTo
<1>5. c.record = NewRecord(Latest(q)) /\ \E k \in DOMAIN work[q] : k > 1 /\ Lists(q, k)
  BY <1>2, <1>3, <1>4 DEF Intent, Steady
<1>6. Latest(q).journey = j /\ Latest(q).outcome = "success"
  BY <1>3, <1>4, <1>5, OwnIsTyped, NewRecordIsTyped
<1>7. CASE Command(q)
  BY <1>4, <1>5, <1>6, <1>7, ComingOfCommand
<1>8. CASE WriteBackStops(q)
  <2>1. excused' = excused \cup Evicted(q) \cup
          {i \in Journeys : pc[q] = "apply" /\ work[q] # << >> /\ i = trail[q][next[q] - 1].journey}
    BY <1>8 DEF WriteBackStops
  <2> QED
    BY <1>1, <1>3, <1>4, <1>6, <2>1 DEF Latest
<1> QED
  BY <1>1, <1>7, <1>8

AllEvident == \A j \in proved \ excused : Evident(j)

\* Every verified journey that is not excused has its evidence.
LEMMA EvidentInvariant == Spec => []AllEvident
<1>1. Init => AllEvident
  BY DEF Init, AllEvident
<1>2. ASSUME Base, Alike, Known, AllIntent, [Next]_vars, AllEvident
      PROVE  AllEvident'
  <2> SUFFICES ASSUME NEW j \in proved', j \notin excused' PROVE Evident(j)'
    BY DEF AllEvident, Evident, Shown, Coming
  <2>1. CASE UNCHANGED vars
    <3>1. Evident(j)
      BY <1>2, <2>1 DEF vars, redis, ghost, AllEvident
    <3> QED
      BY <2>1, <3>1 DEF vars, redis, local, Evident, Shown, Coming, Covered, Latest, Lists, Own
  <2>2. ASSUME NEW q \in Runs,
               \/ BeginLookup(q) \/ Smembers(q) \/ Get(q) \/ TierRead(q) \/ LookupTimeout(q) \/ LookupRejected(q)
               \/ Navigated(q) \/ ApplySegment(q) \/ Evict(q) \/ Command(q) \/ Finish(q) \/ WriteBackStops(q)
        PROVE  Evident(j)'
    <3>1. Intent(q) /\ KnownTo(q)
      BY <1>2 DEF AllIntent, Known
    <3>2. CASE j \notin proved
      BY <1>2, <2>2, <3>1, <3>2, ProvedIsComing DEF Evident
    <3>3. CASE j \in proved
      <4>1. j \in Journeys /\ Evident(j)
        <5>1. excused \subseteq excused'
          BY <2>2 DEF BeginLookup, Smembers, Get, TierRead, LookupTimeout, LookupRejected, Navigated, ApplySegment, Evict,
                      Command, Finish, WriteBackStops, ghost
        <5> QED
          BY <1>2, <3>3, <5>1 DEF AllEvident, Base, Typed, GhostTyped
      <4>2. ASSUME NEW id \in Ids, Shown(j, id)
            PROVE  Evident(j)'
        <5>1. Shown(j, id)' \/ Coming(j, q)'
          BY <1>2, <2>2, <3>1, <4>1, <4>2, ShownMoves
        <5> QED
          BY <5>1 DEF Evident
      <4>3. ASSUME NEW r \in Runs, Coming(j, r)
            PROVE  Evident(j)'
        BY <1>2, <2>2, <4>1, <4>3, ComingMoves DEF AllIntent
      <4> QED
        BY <4>1, <4>2, <4>3 DEF Evident
    <3> QED
      BY <3>2, <3>3
  <2>3. ASSUME NEW e \in Ids, Lapse(e)
        PROVE  Evident(j)'
    <3>1. /\ UNCHANGED <<members, pc, trail, next, work, proved>> /\ store' = [store EXCEPT ![e] = NoRecord]
          /\ excused' = excused \cup {i \in Journeys : store[e].journey = i /\ store[e].outcome = "success"}
      BY <2>3 DEF Lapse, local
    <3>2. j \in Journeys /\ Evident(j)
      BY <1>2, <3>1 DEF AllEvident, Base, Typed, GhostTyped
    <3>3. ASSUME NEW r \in Runs, Coming(j, r)
          PROVE  Evident(j)'
      BY <3>1, <3>3 DEF Evident, Coming, Latest, Lists, Own
    <3>4. ASSUME NEW id \in Ids, Shown(j, id)
          PROVE  Evident(j)'
      <4>1. id # e
        BY <3>1, <3>2, <3>4 DEF Shown
      <4>2. store'[id] = store[id]
        BY <1>2, <3>1, <4>1 DEF Base, Typed, RedisTyped
      <4>3. Shown(j, id)'
        BY <3>1, <3>4, <4>2 DEF Shown, Covered
      <4> QED
        BY <4>3 DEF Evident
    <3> QED
      BY <3>2, <3>3, <3>4 DEF Evident
  <2> QED
    BY <1>2, <2>1, <2>2, <2>3 DEF Next, AllOver
<1> QED
  BY <1>1, <1>2, BaseInvariant, AlikeInvariant, KnownInvariant, IntentInvariant, PTL DEF Spec

\* A journey whose success was ever recorded keeps a listed success, or one about to be listed, however the
\* supersessions of any number of runs interleave, unless expiry, an eviction or a broken-off write-back took it.
THEOREM VerifiedJourneysKeepEvidence == Spec => []EvidenceKept
<1>1. ASSUME Base, AllIntent, AllEvident
      PROVE  EvidenceKept
  <2> SUFFICES ASSUME NEW j \in proved \ excused
               PROVE  \/ \E id \in members["domain"] : store[id].journey = j /\ store[id].outcome = "success"
                      \/ \E r \in Runs : \E i \in DOMAIN work[r] :
                           /\ work[r][i].cmd = "SADD" /\ work[r][i].key = "domain"
                           /\ work[r][i].record.journey = j /\ work[r][i].record.outcome = "success"
    BY DEF EvidenceKept
  <2>1. CASE \E id \in Ids : Shown(j, id)
    BY <2>1 DEF Shown
  <2>2. ASSUME NEW r \in Runs, Coming(j, r)
        PROVE  \E i \in DOMAIN work[r] :
                 /\ work[r][i].cmd = "SADD" /\ work[r][i].key = "domain"
                 /\ work[r][i].record.journey = j /\ work[r][i].record.outcome = "success"
    <3>1. PICK k \in DOMAIN work[r] : Lists(r, k)
      BY <2>2 DEF Coming
    <3>2. work[r][k].record = NewRecord(Latest(r)) /\ Latest(r) \in Segment
      BY <1>1, <2>2, <3>1, OwnIsTyped DEF Coming, AllIntent, Intent, Steady, Lists
    <3>3. work[r][k].record.journey = j /\ work[r][k].record.outcome = "success"
      BY <2>2, <3>2, NewRecordIsTyped DEF Coming
    <3> QED
      BY <3>1, <3>3 DEF Lists
  <2> QED
    BY <1>1, <2>1, <2>2 DEF AllEvident, Evident
<1> QED
  BY <1>1, BaseInvariant, IntentInvariant, EvidentInvariant, PTL
=============================================================================
