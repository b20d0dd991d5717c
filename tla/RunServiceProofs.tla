-------------------------- MODULE RunServiceProofs --------------------------
(***************************************************************************)
(* Type correctness of RunService, and the proof that its limiter never    *)
(* lets more than MaxConcurrent runs be in flight: for every set of runs,  *)
(* every backend, every timing and any number of store faults and process  *)
(* deaths.                                                                 *)
(***************************************************************************)
EXTENDS RunService, FiniteSetTheorems, SequenceTheorems, TLAPS

USE RunsFinite, MaxConcurrentPositive, BackendKnown, BreakerBoolean, TimesAreNaturals,
    AgeCapSuffices, BoundsAreNaturals

\* What the store reads and writes are records.
LEMMA NoRecordType == NoRecord \in Record
  BY DEF NoRecord, Record, Statuses

\* What a call writes is a record.
LEMMA WrittenType ==
  ASSUME worker \in Nat, NEW call \in Calls, NEW rec \in Record
  PROVE  Written(call, rec) \in Record
<1>1. NewRecord \in Record
  BY DEF NewRecord, Stamped, Record, Statuses
<1>2. applyStaleDetection(rec) \in Record
  BY DEF applyStaleDetection, Stamped, Record, Statuses
<1>3. /\ Stamped("completed", rec.worker, rec.reason) \in Record
      /\ Stamped("failed", rec.worker, rec.reason) \in Record
      /\ Stamped("running", worker, rec.reason) \in Record
  BY DEF Stamped, Record, Statuses
<1> QED
  BY <1>1, <1>2, <1>3 DEF Written, Calls

\* A record that ages or expires is a record.
LEMMA AgedType ==
  ASSUME NEW rec \in Record
  PROVE  Older(rec) \in Record /\ Expired(rec) \in Record
<1>1. Older(rec) \in Record
  BY DEF Older, Record, Statuses
<1> QED
  BY <1>1, NoRecordType DEF Expired

\* A store call keeps the types of the records and of the queue of writes.
LEMMA CallType ==
  ASSUME TypeOK, NEW call \in Calls, NEW r \in Runs, Call(call, r)
  PROVE  store' \in [Runs -> Record] /\ pending' \in Seq(Write)
<1>1. store[r] \in Record /\ Written(call, store[r]) \in Record
  BY WrittenType DEF TypeOK
<1>2. [call |-> call, run |-> r, record |-> Written(call, store[r])] \in Write
  BY <1>1 DEF Write
<1>3. Append(pending, [call |-> call, run |-> r, record |-> Written(call, store[r])]) \in Seq(Write)
  BY <1>2, AppendProperties DEF TypeOK
<1> QED
  BY <1>1, <1>3 DEF Call, TypeOK

\* Process death keeps the types of what it resets.
LEMMA DieType ==
  ASSUME TypeOK, NEW phases \in [Runs -> Phases], Die(phases)
  PROVE  /\ process' \in {"up", "draining", "down"} /\ worker' \in Nat /\ current' \in Nat
         /\ phase' \in [Runs -> Phases] /\ sampling' \in SUBSET Runs
         /\ sinceBeat' \in [Runs -> Nat] /\ pending' \in Seq(Write)
  BY DEF Die, TypeOK, Phases, Holding

\* The first pending write, and the rest.
LEMMA HeadType ==
  ASSUME TypeOK, pending # <<>>
  PROVE  /\ Head(pending) \in Write /\ Tail(pending) \in Seq(Write)
         /\ Head(pending).call \in Calls /\ Head(pending).run \in Runs
         /\ Head(pending).record \in Record
<1>1. Head(pending) \in Write /\ Tail(pending) \in Seq(Write)
  BY HeadTailProperties DEF TypeOK
<1> QED
  BY <1>1 DEF Write

\* Any pending write.
LEMMA PendingType ==
  ASSUME TypeOK
  PROVE  /\ Len(pending) \in Nat /\ DOMAIN pending = 1..Len(pending)
         /\ \A i \in DOMAIN pending : pending[i].call \in Calls /\ pending[i].run \in Runs
<1>1. Len(pending) \in Nat /\ DOMAIN pending = 1..Len(pending)
  BY LenProperties DEF TypeOK
<1>2. \A i \in 1..Len(pending) : pending[i] \in Write
  BY ElementOfSeq DEF TypeOK
<1> QED
  BY <1>1, <1>2 DEF Write

\* What a run does when its call returns, or is rejected, keeps the types of the process.
LEMMA ResumedType ==
  ASSUME TypeOK, NEW call \in Calls, NEW r \in Runs, Resumed(call, r) \/ Rejected(call, r)
  PROVE  /\ process' \in {"up", "draining", "down"} /\ worker' \in Nat /\ current' \in Nat
         /\ phase' \in [Runs -> Phases] /\ sampling' \in SUBSET Runs
         /\ sinceBeat' \in [Runs -> Nat]
  BY DEF Resumed, Rejected, ClearTimers, TypeOK, Phases, Calls

\* Every variable keeps its type, whatever the parameters.
THEOREM TypeCorrect == Spec => []TypeOK
<1>1. Init => TypeOK
  BY NoRecordType DEF Init, TypeOK, Phases, Write
<1>2. TypeOK /\ [Next]_vars => TypeOK'
  <2> SUFFICES ASSUME TypeOK, [Next]_vars PROVE TypeOK'
    OBVIOUS
  <2>1. ASSUME NEW r \in Runs, CreateTask(r) PROVE TypeOK'
    <3>1. store' \in [Runs -> Record] /\ pending' \in Seq(Write)
      BY <2>1, CallType DEF CreateTask, Calls
    <3>2. phase' \in [Runs -> Phases] /\ sinceBeat' \in [Runs -> Nat]
      BY <2>1 DEF CreateTask, TypeOK, Phases
    <3>3. sampling' \in SUBSET Runs
      BY <2>1 DEF CreateTask, TypeOK
    <3> QED
      BY <2>1, <3>1, <3>2, <3>3 DEF CreateTask, TypeOK
  <2>2. ASSUME NEW r \in Runs, GetTask(r) PROVE TypeOK'
    BY <2>2, CallType, NoRecordType DEF GetTask, TypeOK, Calls
  <2>3. ASSUME NEW r \in Runs, BrowserLaunched(r) \/ LaunchFails(r) \/ RunTaskEnds(r) \/ Release(r)
        PROVE  TypeOK'
    <3>1. phase' \in [Runs -> Phases]
      BY <2>3 DEF BrowserLaunched, LaunchFails, RunTaskEnds, Release, TypeOK, Phases
    <3>2. current' \in Nat
      BY <2>3 DEF BrowserLaunched, LaunchFails, RunTaskEnds, Release, TypeOK
    <3>3. sampling' \in SUBSET Runs
      BY <2>3 DEF BrowserLaunched, LaunchFails, RunTaskEnds, Release, TypeOK
    <3> QED
      BY <2>3, <3>1, <3>2, <3>3 DEF BrowserLaunched, LaunchFails, RunTaskEnds, Release, TypeOK
  <2>4. ASSUME NEW r \in Runs, CompleteRun(r) \/ FailRun(r) PROVE TypeOK'
    <3>1. store' \in [Runs -> Record] /\ pending' \in Seq(Write)
      BY <2>4, CallType DEF CompleteRun, FailRun, Conclude, Calls
    <3>2. phase' \in [Runs -> Phases]
      BY <2>4 DEF CompleteRun, FailRun, Conclude, TypeOK, Phases
    <3>3. sampling' \in SUBSET Runs /\ sinceBeat' \in [Runs -> Nat]
      BY <2>4 DEF CompleteRun, FailRun, Conclude, ClearTimers, TypeOK
    <3> QED
      BY <2>4, <3>1, <3>2, <3>3 DEF CompleteRun, FailRun, Conclude, TypeOK
  <2>5. ASSUME NEW r \in Runs, RejectUnhandled(r) PROVE TypeOK'
    <3>1. [phase EXCEPT ![r] = "lost"] \in [Runs -> Phases]
      BY DEF TypeOK, Phases
    <3> QED
      BY <2>5, <3>1, DieType DEF RejectUnhandled, TypeOK
  <2>6. ASSUME NEW r \in Runs, Heartbeat(r) \/ SampleMemory(r) PROVE TypeOK'
    <3>1. store' \in [Runs -> Record] /\ pending' \in Seq(Write)
      BY <2>6, CallType DEF Heartbeat, SampleMemory, Calls
    <3>2. sinceBeat' \in [Runs -> Nat]
      BY <2>6 DEF Heartbeat, SampleMemory, TypeOK
    <3> QED
      BY <2>6, <3>1, <3>2 DEF Heartbeat, SampleMemory, TypeOK
  <2>7. ASSUME NEW r \in Runs, NEW call \in {"completeRun", "failRun", "heartbeat"}, GetRejected(call, r)
        PROVE  TypeOK'
    <3>1. CASE call = "heartbeat"
      BY <2>7, <3>1, DieType DEF GetRejected, TypeOK
    <3>2. CASE call # "heartbeat"
      BY <2>7, <3>2, ResumedType DEF GetRejected, TypeOK, Calls
    <3> QED
      BY <3>1, <3>2
  <2>8. ASSUME Commit PROVE TypeOK'
    BY <2>8, HeadType, ResumedType DEF Commit, TypeOK
  <2>9. ASSUME CommitRejected PROVE TypeOK'
    <3>1. store' \in [Runs -> Record] /\ faults' \in Nat
      BY <2>9, HeadType DEF CommitRejected, TypeOK
    <3>2. CASE Head(pending).call = "heartbeat"
      BY <2>9, <3>1, <3>2, DieType DEF CommitRejected, TypeOK
    <3>3. CASE Head(pending).call # "heartbeat"
      BY <2>9, <3>1, <3>3, HeadType, ResumedType DEF CommitRejected, TypeOK
    <3> QED
      BY <3>2, <3>3
  <2>10. ASSUME Tick PROVE TypeOK'
    <3>1. store' \in [Runs -> Record]
      BY <2>10, AgedType DEF Tick, TypeOK
    <3>2. pending' \in Seq(Write)
      <4> DEFINE aged(i) == [call |-> pending[i].call, run |-> pending[i].run, record |-> Older(pending[i].record)]
      <4>1. Len(pending) \in Nat /\ DOMAIN pending = 1..Len(pending)
        BY LenProperties DEF TypeOK
      <4>2. \A i \in 1..Len(pending) : pending[i] \in Write
        BY ElementOfSeq DEF TypeOK
      <4>3. \A i \in 1..Len(pending) : aged(i) \in Write
        BY <4>2, AgedType DEF Write
      <4>4. [i \in 1..Len(pending) |-> aged(i)] \in Seq(Write)
        BY <4>1, <4>3, IsASeq
      <4> QED
        BY <2>10, <4>1, <4>4 DEF Tick
    <3> QED
      BY <2>10, <3>1, <3>2 DEF Tick, TypeOK
  <2>11. ASSUME Shutdown \/ Exit \/ Restart PROVE TypeOK'
    BY <2>11, DieType, NoRecordType DEF Shutdown, Exit, Restart, TypeOK
  <2>12. CASE UNCHANGED vars
    BY <2>12 DEF vars, TypeOK
  <2> QED
    BY <2>1, <2>2, <2>3, <2>4, <2>5, <2>6, <2>7, <2>8, <2>9, <2>10, <2>11, <2>12 DEF Next
<1> QED
  BY <1>1, <1>2, PTL DEF Spec

-----------------------------------------------------------------------------
(* The limiter.  SlotAccounting is inductive only with OneOwnCall: a SET   *)
(* that resumes a run must find it in the phase that awaits it.            *)

SlotInv == TypeOK /\ SlotAccounting /\ OneOwnCall /\ current <= MaxConcurrent

\* Phases in which executeTaskAsync awaits its own store call.
Waiting == {"creating", "completing", "failing"}

\* The runs that hold a slot are finitely many, and those in flight are no more.
LEMMA HoldingFinite ==
  /\ IsFiniteSet(Of(Holding)) /\ Cardinality(Of(Holding)) \in Nat
  /\ IsFiniteSet(Of(InFlight)) /\ Cardinality(Of(InFlight)) <= Cardinality(Of(Holding))
<1>1. Of(Holding) \in SUBSET Runs /\ Of(InFlight) \in SUBSET Of(Holding)
  BY DEF Of, InFlight
<1> QED
  BY <1>1, FS_Subset, FS_CardinalityType

\* What one run's change of phase does to the number of slots held.
LEMMA SlotCount ==
  ASSUME TypeOK, NEW r \in Runs, NEW p \in Phases, phase' = [phase EXCEPT ![r] = p]
  PROVE  /\ phase[r] \notin Holding /\ p \in Holding =>
              Cardinality(Of(Holding)') = Cardinality(Of(Holding)) + 1
         /\ phase[r] \in Holding /\ p \in Holding =>
              Cardinality(Of(Holding)') = Cardinality(Of(Holding))
         /\ phase[r] \in Holding /\ p \notin Holding =>
              /\ Cardinality(Of(Holding)') = Cardinality(Of(Holding)) - 1
              /\ Cardinality(Of(Holding)) # 0
<1>1. CASE phase[r] \notin Holding /\ p \in Holding
  <2>1. Of(Holding)' = Of(Holding) \cup {r} /\ r \notin Of(Holding)
    BY <1>1 DEF Of, TypeOK
  <2> QED
    BY <1>1, <2>1, HoldingFinite, FS_AddElement
<1>2. CASE phase[r] \in Holding /\ p \in Holding
  <2>1. Of(Holding)' = Of(Holding)
    BY <1>2 DEF Of, TypeOK
  <2> QED
    BY <1>2, <2>1
<1>3. CASE phase[r] \in Holding /\ p \notin Holding
  <2>1. Of(Holding)' = Of(Holding) \ {r} /\ r \in Of(Holding)
    BY <1>3 DEF Of, TypeOK
  <2>2. Cardinality(Of(Holding)) # 0
    BY <2>1, HoldingFinite, FS_EmptySet
  <2> QED
    <3>1. Cardinality(Of(Holding)') = Cardinality(Of(Holding)) - 1
      BY <2>1, HoldingFinite, FS_RemoveElement
    <3> QED
      BY <1>3, <2>2, <3>1
<1> QED
  BY <1>1, <1>2, <1>3

\* Process death gives every slot back and forgets every pending write.
LEMMA DieSlots ==
  ASSUME NEW phases \in [Runs -> Phases], Die(phases)
  PROVE  SlotAccounting' /\ OneOwnCall' /\ current' = 0
<1>1. Of(Holding)' = {}
  BY DEF Die, Of, Holding
<1> QED
  BY <1>1, FS_EmptySet DEF Die, SlotAccounting, OneOwnCall

\* A run that awaits nothing has no call of its own in the queue, so that its phase may
\* change while the queue does not.
LEMMA FreePhaseChange ==
  ASSUME TypeOK, OneOwnCall, NEW r \in Runs, phase[r] \notin Waiting,
         NEW p \in Phases, phase' = [phase EXCEPT ![r] = p], UNCHANGED pending
  PROVE  OneOwnCall'
<1>1. \A i \in DOMAIN pending : pending[i].call \in Calls /\ pending[i].run \in Runs
  BY PendingType
<1>2. \A i \in DOMAIN pending : pending[i].call \notin Background => pending[i].run # r
  BY <1>1 DEF OneOwnCall, Awaits, Waiting, Calls, Background
<1>3. \A i \in DOMAIN pending : pending[i].call \notin Background =>
        phase'[pending[i].run] = phase[pending[i].run]
  BY <1>1, <1>2 DEF TypeOK
<1>4. pending' = pending
  OBVIOUS
<1> QED
  BY <1>3, <1>4, ZenonT(30) DEF OneOwnCall

\* What a store call adds to the queue: nothing, or one write.
LEMMA CallQueue ==
  ASSUME TypeOK, NEW call \in Calls, NEW r \in Runs, Call(call, r)
  PROVE  \/ UNCHANGED pending /\ ~ Waits(call, r)
         \/ \E w \in Write : /\ w.call = call /\ w.run = r /\ Waits(call, r)
                            /\ pending' = Append(pending, w)
<1>1. [call |-> call, run |-> r, record |-> Written(call, store[r])] \in Write
  BY WrittenType DEF TypeOK, Write
<1> QED
  BY <1>1 DEF Call, Waits

\* A timer's or a reader's call leaves the runs' own calls alone.
LEMMA BackgroundCall ==
  ASSUME TypeOK, OneOwnCall, NEW call \in Background, NEW r \in Runs, Call(call, r), UNCHANGED phase
  PROVE  OneOwnCall'
<1>1. CASE UNCHANGED pending
  BY <1>1 DEF OneOwnCall, Awaits
<1>2. ASSUME NEW w \in Write, w.call = call, pending' = Append(pending, w)
      PROVE  OneOwnCall'
  <2>1. /\ Len(pending) \in Nat /\ DOMAIN pending = 1..Len(pending)
        /\ DOMAIN pending' = 1..(Len(pending) + 1)
        /\ \A i \in 1..Len(pending) : pending'[i] = pending[i]
        /\ pending'[Len(pending) + 1] = w
    BY <1>2, LenProperties, AppendProperties DEF TypeOK
  <2>2. \A i \in DOMAIN pending' : pending'[i].call \notin Background =>
          i \in DOMAIN pending /\ pending'[i] = pending[i]
    BY <1>2, <2>1
  <2> QED
    BY <2>1, <2>2 DEF OneOwnCall
<1> QED
  BY <1>1, <1>2, CallQueue DEF Background, Calls

\* A run that awaits nothing starts a call of its own and awaits it.
LEMMA OwnCall ==
  ASSUME TypeOK, OneOwnCall, NEW call \in Calls \ Background, NEW r \in Runs,
         phase[r] \notin Waiting, NEW w \in Write, w.call = call, w.run = r,
         pending' = Append(pending, w), phase' = [phase EXCEPT ![r] = Awaits(call)]
  PROVE  OneOwnCall'
<1>1. /\ Len(pending) \in Nat /\ DOMAIN pending = 1..Len(pending)
      /\ DOMAIN pending' = 1..(Len(pending) + 1)
      /\ \A i \in 1..Len(pending) : pending'[i] = pending[i]
      /\ pending'[Len(pending) + 1] = w
  BY LenProperties, AppendProperties DEF TypeOK
<1>2. \A i \in DOMAIN pending : pending[i].call \in Calls /\ pending[i].run \in Runs
  BY PendingType
<1>3. \A i \in DOMAIN pending : pending[i].call \notin Background => pending[i].run # r
  BY <1>2 DEF OneOwnCall, Awaits, Waiting, Calls, Background
<1>4. /\ phase'[r] = Awaits(call)
      /\ \A q \in Runs : q # r => phase'[q] = phase[q]
  BY DEF TypeOK
<1>5. ASSUME NEW i \in DOMAIN pending', pending'[i].call \notin Background
      PROVE  /\ phase'[pending'[i].run] = Awaits(pending'[i].call)
             /\ \A j \in DOMAIN pending' :
                  pending'[j].call \notin Background /\ pending'[j].run = pending'[i].run => i = j
  <2>1. CASE i = Len(pending) + 1
    BY <1>1, <1>3, <1>4, <2>1
  <2>2. CASE i # Len(pending) + 1
    <3>1. i \in DOMAIN pending /\ pending'[i] = pending[i]
      BY <1>1, <1>5, <2>2
    <3>2. phase'[pending[i].run] = Awaits(pending[i].call)
      BY <1>2, <1>3, <1>4, <1>5, <3>1 DEF OneOwnCall
    <3>3. ASSUME NEW j \in DOMAIN pending', pending'[j].call \notin Background,
                 pending'[j].run = pending'[i].run
          PROVE  i = j
      <4>1. j # Len(pending) + 1
        BY <1>1, <1>3, <1>5, <3>1, <3>3
      <4> QED
        BY <1>1, <1>5, <3>1, <3>3, <4>1 DEF OneOwnCall
    <3> QED
      BY <3>1, <3>2, <3>3
  <2> QED
    BY <2>1, <2>2
<1> QED
  BY <1>5 DEF OneOwnCall, Awaits

\* The oldest write leaves the queue; its run, if the call was its own, changes phase.
LEMMA OldestLeaves ==
  ASSUME TypeOK, OneOwnCall, pending # <<>>, pending' = Tail(pending),
         \/ UNCHANGED phase
         \/ /\ Head(pending).call \notin Background
            /\ \E p \in Phases : phase' = [phase EXCEPT ![Head(pending).run] = p]
  PROVE  OneOwnCall'
<1>1. /\ Len(pending) \in Nat \ {0} /\ DOMAIN pending = 1..Len(pending)
      /\ DOMAIN pending' = 1..(Len(pending) - 1) /\ Head(pending) = pending[1]
      /\ \A i \in DOMAIN pending' : i + 1 \in DOMAIN pending /\ pending'[i] = pending[i + 1]
  BY EmptySeq, LenProperties, HeadTailProperties DEF TypeOK
<1>2. \A i \in DOMAIN pending' : pending'[i].call \notin Background =>
        phase'[pending'[i].run] = phase[pending'[i].run]
  <2> SUFFICES ASSUME NEW i \in DOMAIN pending', pending'[i].call \notin Background
               PROVE  phase'[pending'[i].run] = phase[pending'[i].run]
    OBVIOUS
  <2>1. CASE UNCHANGED phase
    BY <2>1
  <2>2. ASSUME Head(pending).call \notin Background,
               NEW p \in Phases, phase' = [phase EXCEPT ![Head(pending).run] = p]
        PROVE  phase'[pending'[i].run] = phase[pending'[i].run]
    <3>1. pending[i + 1].run # pending[1].run
      BY <1>1, <2>2 DEF OneOwnCall
    <3> QED
      BY <1>1, <2>2, <3>1, PendingType DEF TypeOK
  <2> QED
    BY <2>1, <2>2
<1>3. ASSUME NEW i \in DOMAIN pending', pending'[i].call \notin Background
      PROVE  /\ phase'[pending'[i].run] = Awaits(pending'[i].call)
             /\ \A j \in DOMAIN pending' :
                  pending'[j].call \notin Background /\ pending'[j].run = pending'[i].run => i = j
  <2>1. phase'[pending'[i].run] = Awaits(pending'[i].call)
    BY <1>1, <1>2, <1>3 DEF OneOwnCall
  <2>2. ASSUME NEW j \in DOMAIN pending', pending'[j].call \notin Background,
               pending'[j].run = pending'[i].run
        PROVE  i = j
    <3>1. i + 1 = j + 1
      BY <1>1, <1>3, <2>2 DEF OneOwnCall
    <3> QED
      BY <1>1, <3>1
  <2> QED
    BY <2>1, <2>2
<1> QED
  BY <1>3 DEF OneOwnCall, Awaits

\* The first write of the queue, if it is a run's own call, finds its run awaiting it.
LEMMA HeadAwaited ==
  ASSUME TypeOK, OneOwnCall, pending # <<>>, Head(pending).call \notin Background
  PROVE  phase[Head(pending).run] = Awaits(Head(pending).call)
<1>1. 1 \in DOMAIN pending /\ Head(pending) = pending[1]
  BY EmptySeq, LenProperties, HeadTailProperties DEF TypeOK
<1> QED
  BY <1>1 DEF OneOwnCall

\* A resumed or rejected caller keeps its slot, and so do all the others.
LEMMA CallerKeepsSlot ==
  ASSUME SlotInv, pending # <<>>, pending' = Tail(pending),
         \/ Resumed(Head(pending).call, Head(pending).run)
         \/ Rejected(Head(pending).call, Head(pending).run)
  PROVE  SlotAccounting' /\ OneOwnCall' /\ current' <= MaxConcurrent
<1> DEFINE call == Head(pending).call  r == Head(pending).run
<1>1. call \in Calls /\ r \in Runs
  BY HeadType DEF SlotInv
<1>2. current' = current
  BY DEF Resumed, Rejected
<1>3. CASE call \in Background
  <2>1. UNCHANGED phase
    BY <1>3 DEF Resumed, Rejected, Background
  <2> QED
    BY <1>2, <2>1, OldestLeaves DEF SlotInv, SlotAccounting, Of
<1>4. CASE call \notin Background
  <2>1. phase[r] \in Holding
    BY <1>1, <1>4, HeadAwaited DEF SlotInv, Awaits, Holding, Calls, Background
  <2>2. PICK p \in Phases \cap Holding : phase' = [phase EXCEPT ![r] = p]
    BY <1>4 DEF Resumed, Rejected, Phases, Holding
  <2>3. Cardinality(Of(Holding)') = Cardinality(Of(Holding))
    BY <1>1, <2>1, <2>2, SlotCount DEF SlotInv
  <2>4. OneOwnCall'
    BY <1>4, <2>2, OldestLeaves DEF SlotInv
  <2> QED
    BY <1>2, <2>3, <2>4 DEF SlotInv, SlotAccounting
<1> QED
  BY <1>3, <1>4

\* Every step keeps slots accounted for.
LEMMA SlotInvInductive == SlotInv /\ [Next]_vars /\ TypeOK' => SlotInv'
<1> SUFFICES ASSUME SlotInv, [Next]_vars, TypeOK'
             PROVE  SlotAccounting' /\ OneOwnCall' /\ current' <= MaxConcurrent
  BY DEF SlotInv
<1> USE DEF SlotInv
<1>1. ASSUME NEW r \in Runs, CreateTask(r) PROVE SlotAccounting' /\ OneOwnCall' /\ current' <= MaxConcurrent
  <2>1. current' = current + 1 /\ current' <= MaxConcurrent /\ phase[r] = "unused"
    BY <1>1 DEF CreateTask, HasCapacity, TypeOK
  <2>2. CASE Backend = "memory"
    <3>1. phase' = [phase EXCEPT ![r] = "launching"] /\ UNCHANGED pending
      BY <1>1, <2>2 DEF CreateTask, Call, Waits
    <3>2. OneOwnCall'
      BY <2>1, <3>1, FreePhaseChange DEF Waiting, Phases
    <3>3. Cardinality(Of(Holding)') = Cardinality(Of(Holding)) + 1
      BY <2>1, <3>1, SlotCount DEF Holding, Phases
    <3> QED
      BY <2>1, <3>2, <3>3 DEF SlotAccounting
  <2>3. CASE Backend = "redis"
    <3>1. phase' = [phase EXCEPT ![r] = "creating"]
      BY <1>1, <2>3 DEF CreateTask
    <3>2. PICK w \in Write : w.call = "createRun" /\ w.run = r /\ pending' = Append(pending, w)
      BY <1>1, <2>3, CallQueue DEF CreateTask, Waits, Writes, Calls
    <3>3. OneOwnCall'
      BY <2>1, <3>1, <3>2, OwnCall DEF Waiting, Awaits, Calls, Background
    <3>4. Cardinality(Of(Holding)') = Cardinality(Of(Holding)) + 1
      BY <2>1, <3>1, SlotCount DEF Holding, Phases
    <3> QED
      BY <2>1, <3>3, <3>4 DEF SlotAccounting
  <2> QED
    BY <2>2, <2>3
<1>2. ASSUME NEW r \in Runs, BrowserLaunched(r) \/ LaunchFails(r) \/ RunTaskEnds(r)
      PROVE  SlotAccounting' /\ OneOwnCall' /\ current' <= MaxConcurrent
  <2>1. /\ phase[r] \in Holding \ Waiting /\ UNCHANGED <<current, pending>>
        /\ \E p \in Phases \cap Holding : phase' = [phase EXCEPT ![r] = p]
    BY <1>2 DEF BrowserLaunched, LaunchFails, RunTaskEnds, Phases, Holding, Waiting
  <2>2. OneOwnCall'
    BY <2>1, FreePhaseChange
  <2>3. Cardinality(Of(Holding)') = Cardinality(Of(Holding))
    BY <2>1, SlotCount
  <2> QED
    BY <2>1, <2>2, <2>3 DEF SlotAccounting
<1>3. ASSUME NEW r \in Runs, NEW call \in {"completeRun", "failRun"}, NEW from \in {"toComplete", "toFail"},
             Conclude(r, from, call, Awaits(call))
      PROVE  SlotAccounting' /\ OneOwnCall' /\ current' <= MaxConcurrent
  <2>1. /\ phase[r] \in Holding \ Waiting /\ UNCHANGED current /\ Call(call, r)
        /\ call \in Calls \ Background /\ Awaits(call) \in Phases \cap Holding
    BY <1>3 DEF Conclude, Holding, Waiting, Calls, Background, Awaits, Phases
  <2>2. CASE Waits(call, r)
    <3>1. phase' = [phase EXCEPT ![r] = Awaits(call)]
      BY <1>3, <2>2 DEF Conclude
    <3>2. PICK w \in Write : w.call = call /\ w.run = r /\ pending' = Append(pending, w)
      BY <2>1, <2>2, CallQueue
    <3>3. OneOwnCall'
      BY <2>1, <3>1, <3>2, OwnCall
    <3>4. Cardinality(Of(Holding)') = Cardinality(Of(Holding))
      BY <2>1, <3>1, SlotCount
    <3> QED
      BY <2>1, <3>3, <3>4 DEF SlotAccounting
  <2>3. CASE ~ Waits(call, r)
    <3>1. phase' = [phase EXCEPT ![r] = "cleanup"]
      BY <1>3, <2>3 DEF Conclude
    <3>2. UNCHANGED pending
      BY <2>1, <2>3, CallQueue
    <3>3. OneOwnCall'
      BY <2>1, <3>1, <3>2, FreePhaseChange DEF Phases
    <3>4. Cardinality(Of(Holding)') = Cardinality(Of(Holding))
      BY <2>1, <3>1, SlotCount DEF Phases, Holding
    <3> QED
      BY <2>1, <3>3, <3>4 DEF SlotAccounting
  <2> QED
    BY <2>2, <2>3
<1>4. ASSUME NEW r \in Runs, Release(r) PROVE SlotAccounting' /\ OneOwnCall' /\ current' <= MaxConcurrent
  <2>1. phase[r] = "cleanup" /\ phase' = [phase EXCEPT ![r] = "done"] /\ UNCHANGED pending
    BY <1>4 DEF Release
  <2>2. OneOwnCall'
    BY <2>1, FreePhaseChange DEF Phases, Waiting
  <2>3. Cardinality(Of(Holding)') = Cardinality(Of(Holding)) - 1 /\ current # 0
    BY <2>1, SlotCount DEF Phases, Holding, SlotAccounting
  <2>4. current' = current - 1 /\ current' <= MaxConcurrent
    BY <1>4, <2>3 DEF Release, TypeOK
  <2> QED
    BY <2>2, <2>3, <2>4 DEF SlotAccounting
<1>5. ASSUME NEW r \in Runs, RejectUnhandled(r) PROVE SlotAccounting' /\ OneOwnCall' /\ current' <= MaxConcurrent
  <2> DEFINE phases == [phase EXCEPT ![r] = "lost"]
  <2>1. phases \in [Runs -> Phases]
    BY DEF TypeOK, Phases
  <2>2. Die(phases)
    BY <1>5 DEF RejectUnhandled
  <2> HIDE DEF phases
  <2> QED
    BY <2>1, <2>2, DieSlots
<1>6. ASSUME NEW r \in Runs, NEW call \in Background, Call(call, r), UNCHANGED <<phase, current>>
      PROVE  SlotAccounting' /\ OneOwnCall' /\ current' <= MaxConcurrent
  BY <1>6, BackgroundCall DEF SlotAccounting, Of
<1>7. ASSUME UNCHANGED <<phase, current, pending>>
      PROVE  SlotAccounting' /\ OneOwnCall' /\ current' <= MaxConcurrent
  BY <1>7 DEF SlotAccounting, OneOwnCall, Awaits, Of
<1>8. ASSUME NEW r \in Runs, NEW call \in {"completeRun", "failRun", "heartbeat"}, GetRejected(call, r)
      PROVE  SlotAccounting' /\ OneOwnCall' /\ current' <= MaxConcurrent
  <2>1. CASE call = "heartbeat"
    BY <1>8, <2>1, DieSlots DEF GetRejected, TypeOK
  <2>2. CASE call # "heartbeat"
    <3>1. /\ phase[r] \in Holding \ Waiting /\ UNCHANGED <<current, pending>>
          /\ \E p \in Phases \cap Holding : phase' = [phase EXCEPT ![r] = p]
      BY <1>8, <2>2 DEF GetRejected, Rejected, Holding, Waiting, Phases, Background
    <3>2. OneOwnCall'
      BY <3>1, FreePhaseChange
    <3>3. Cardinality(Of(Holding)') = Cardinality(Of(Holding))
      BY <3>1, SlotCount
    <3> QED
      BY <3>1, <3>2, <3>3 DEF SlotAccounting
  <2> QED
    BY <2>1, <2>2
<1>9. ASSUME Commit \/ CommitRejected PROVE SlotAccounting' /\ OneOwnCall' /\ current' <= MaxConcurrent
  <2>1. CASE Die(phase)
    BY <2>1, DieSlots DEF TypeOK
  <2>2. CASE ~ Die(phase)
    <3>1. /\ pending # <<>> /\ pending' = Tail(pending)
          /\ \/ Resumed(Head(pending).call, Head(pending).run)
             \/ Rejected(Head(pending).call, Head(pending).run)
      BY <1>9, <2>2 DEF Commit, CommitRejected
    <3> QED
      BY <3>1, CallerKeepsSlot
  <2> QED
    BY <2>1, <2>2
<1>10. ASSUME Tick PROVE SlotAccounting' /\ OneOwnCall' /\ current' <= MaxConcurrent
  <2>1. /\ UNCHANGED <<phase, current>> /\ DOMAIN pending' = DOMAIN pending
        /\ \A i \in DOMAIN pending : pending'[i].call = pending[i].call /\ pending'[i].run = pending[i].run
    BY <1>10 DEF Tick
  <2> QED
    BY <2>1 DEF SlotAccounting, OneOwnCall, Awaits, Of
<1>11. ASSUME Shutdown \/ Exit \/ Restart PROVE SlotAccounting' /\ OneOwnCall' /\ current' <= MaxConcurrent
  <2>1. CASE Exit
    BY <2>1, DieSlots DEF Exit, TypeOK
  <2>2. CASE Shutdown \/ Restart
    BY <1>7, <2>2 DEF Shutdown, Restart
  <2> QED
    BY <1>11, <2>1, <2>2
<1>12. ASSUME NEW r \in Runs, GetTask(r) PROVE SlotAccounting' /\ OneOwnCall' /\ current' <= MaxConcurrent
  <2>1. CASE Call("getRun", r)
    BY <1>6, <1>12, <2>1 DEF GetTask, Background
  <2>2. CASE ~ Call("getRun", r)
    BY <1>7, <1>12, <2>2 DEF GetTask
  <2> QED
    BY <2>1, <2>2
<1>13. ASSUME NEW r \in Runs, Heartbeat(r) \/ SampleMemory(r)
       PROVE  SlotAccounting' /\ OneOwnCall' /\ current' <= MaxConcurrent
  BY <1>6, <1>13 DEF Heartbeat, SampleMemory, Background
<1>14. ASSUME NEW r \in Runs, CompleteRun(r) \/ FailRun(r)
       PROVE  SlotAccounting' /\ OneOwnCall' /\ current' <= MaxConcurrent
  <2>1. Awaits("completeRun") = "completing" /\ Awaits("failRun") = "failing"
    BY DEF Awaits
  <2> QED
    BY <1>3, <1>14, <2>1 DEF CompleteRun, FailRun
<1>15. CASE UNCHANGED vars
  BY <1>7, <1>15 DEF vars
<1> QED
  BY <1>1, <1>2, <1>4, <1>5, <1>8, <1>9, <1>10, <1>11, <1>12, <1>13, <1>14, <1>15 DEF Next

\* The types, the one own call of each run and the slots it holds, in every reachable state.
THEOREM SlotInvariant == Spec => []SlotInv
<1>1. Init => SlotInv
  <2>1. Init => TypeOK
    BY NoRecordType DEF Init, TypeOK, Phases, Write
  <2>2. ASSUME Init PROVE Of(Holding) = {}
    BY <2>2 DEF Init, Of, Holding
  <2> QED
    BY <2>1, <2>2, FS_EmptySet DEF Init, SlotInv, SlotAccounting, OneOwnCall
<1> QED
  BY <1>1, TypeCorrect, SlotInvInductive, PTL DEF Spec

\* The limiter's counter is the number of slots held, always.
THEOREM SlotsAccounted == Spec => []SlotAccounting
<1>1. SlotInv => SlotAccounting
  BY DEF SlotInv
<1> QED
  BY <1>1, SlotInvariant, PTL

\* A run never has two store calls of its own in progress.
THEOREM OwnCallsSequential == Spec => []OneOwnCall
<1>1. SlotInv => OneOwnCall
  BY DEF SlotInv
<1> QED
  BY <1>1, SlotInvariant, PTL

\* There are never more than MaxConcurrent runs in flight.
THEOREM ConcurrencySafe == Spec => []ConcurrencyBounded
<1>1. SlotInv => ConcurrencyBounded
  <2> SUFFICES ASSUME SlotInv PROVE ConcurrencyBounded
    OBVIOUS
  <2>1. Cardinality(Of(InFlight)) <= Cardinality(Of(Holding)) /\ Cardinality(Of(Holding)) \in Nat
    BY HoldingFinite
  <2>2. Cardinality(Of(InFlight)) \in Nat
    <3>1. Of(InFlight) \in SUBSET Runs
      BY DEF Of
    <3> QED
      BY <3>1, FS_Subset, FS_CardinalityType
  <2> QED
    BY <2>1, <2>2 DEF SlotInv, SlotAccounting, ConcurrencyBounded
<1> QED
  BY <1>1, SlotInvariant, PTL

-----------------------------------------------------------------------------
(* The in-memory store keeps the promises of a run record.                 *)

\* A store call in memory ends where it began: no run is created twice, and an outcome is stored by the last
\* call of its run.
LocalInv ==
  /\ pending = <<>>
  /\ \A r \in Runs : phase[r] = "unused" => store[r].status = "none"
  /\ \A r \in Runs : store[r].status \in {"completed", "failed"} => phase[r] \in {"cleanup", "done", "lost"}

\* The in-memory store begins with no write pending and no record.
LEMMA LocalInit == Init => LocalInv
  BY DEF Init, LocalInv, NoRecord

\* A write of one record changes the status of that run only.
LEMMA StatusOfOne ==
  ASSUME TypeOK, NEW r \in Runs, NEW rec \in Record, store' = [store EXCEPT ![r] = rec]
  PROVE  Status' = [Status EXCEPT ![r] = rec.status] /\ \A q \in Runs : Status[q] = store[q].status
BY DEF Status, TypeOK

\* What a call in memory does to the status of its run, and to no other.
LEMMA LocalCall ==
  ASSUME Backend = "memory", TypeOK, NEW call \in Calls, NEW r \in Runs, Call(call, r)
  PROVE  /\ ~Waits(call, r) /\ UNCHANGED pending /\ store' \in [Runs -> Record]
         /\ \A q \in Runs : q # r => store'[q] = store[q]
         /\ store'[r].status = Written(call, store[r]).status
         /\ Status' = [Status EXCEPT ![r] = store'[r].status] /\ Status[r] = store[r].status
<1>1. store' = [store EXCEPT ![r] = Written(call, store[r])] /\ UNCHANGED pending
  BY DEF Call, Waits
<1>2. Written(call, store[r]) \in Record
  BY WrittenType DEF TypeOK
<1>3. Status' = [Status EXCEPT ![r] = Written(call, store[r]).status] /\ Status[r] = store[r].status
  BY <1>1, <1>2, StatusOfOne
<1> QED
  BY <1>1, <1>2, <1>3 DEF TypeOK, Waits

\* What each call does to the status of the record it finds.
LEMMA WrittenStatus ==
  ASSUME NEW call \in Calls, NEW rec \in Record
  PROVE  /\ call = "createRun" => Written(call, rec).status = "running"
         /\ call = "getRun" => \/ Written(call, rec).status = rec.status
                               \/ rec.status = "running" /\ Written(call, rec).status = "stale"
         /\ call = "completeRun" => Written(call, rec).status = IF rec.status = "none" THEN "none" ELSE "completed"
         /\ call = "failRun" => Written(call, rec).status = IF rec.status = "none" THEN "none" ELSE "failed"
         /\ call \in {"heartbeat", "sampleHeartbeat"} => Written(call, rec).status = rec.status
BY DEF Written, NewRecord, applyStaleDetection, IsStale, Stamped, Record

\* In memory, every step keeps LocalInv and is a step of the status, or none.
LEMMA LocalStep ==
  ASSUME Backend = "memory", TypeOK, LocalInv, [Next]_vars
  PROVE  LocalInv' /\ (Status' = Status \/ Abstract!Next)
<1>a. \A r \in Runs : store[r] \in Record /\ phase[r] \in Phases
  BY DEF TypeOK
<1>b. Status \in [Runs -> Statuses]
  BY <1>a DEF Status, Record
<1>1. ASSUME NEW r \in Runs, CreateTask(r) PROVE LocalInv' /\ Abstract!Next
  <2>1. phase[r] = "unused" /\ Call("createRun", r) /\ phase' = [phase EXCEPT ![r] = "launching"]
    BY <1>1 DEF CreateTask
  <2>2. store'[r].status = "running" /\ Status[r] = "none" /\ UNCHANGED pending
        /\ Status' = [Status EXCEPT ![r] = "running"] /\ \A q \in Runs : q # r => store'[q] = store[q]
    BY <1>a, <2>1, LocalCall, WrittenStatus DEF Calls, LocalInv
  <2>3. Abstract!Create(r)
    BY <2>2 DEF Abstract!Create
  <2> QED
    BY <2>1, <2>2, <2>3 DEF LocalInv, Abstract!Next, TypeOK
<1>2. ASSUME NEW r \in Runs, GetTask(r) PROVE LocalInv' /\ (Status' = Status \/ Abstract!Next)
  <2>0. UNCHANGED phase /\ phase[r] # "unused"
    BY <1>2 DEF GetTask
  <2>1. CASE store[r].age > Ttl
    <3>1. store' = [store EXCEPT ![r] = NoRecord] /\ UNCHANGED pending
      BY <1>2, <2>1 DEF GetTask
    <3>2. Status' = [q \in Runs |-> IF q \in {r} THEN "none" ELSE Status[q]]
      BY <3>1 DEF Status, TypeOK, NoRecord
    <3>3. Abstract!Forget({r})
      BY <3>2 DEF Abstract!Forget
    <3> QED
      BY <2>0, <3>1, <3>3 DEF LocalInv, Abstract!Next, TypeOK, NoRecord
  <2>2. CASE ~(store[r].age > Ttl)
    <3>1. Call("getRun", r)
      BY <1>2, <2>2 DEF GetTask
    <3>2. /\ UNCHANGED pending /\ \A q \in Runs : q # r => store'[q] = store[q]
          /\ Status[r] = store[r].status /\ Status' = [Status EXCEPT ![r] = store'[r].status]
          /\ store'[r].status = store[r].status \/ (store[r].status = "running" /\ store'[r].status = "stale")
      BY <1>a, <3>1, LocalCall, WrittenStatus DEF Calls
    <3>3. Status' = Status \/ Abstract!MarkStale(r)
      BY <1>b, <3>2 DEF Abstract!MarkStale
    <3> QED
      BY <2>0, <3>2, <3>3 DEF LocalInv, Abstract!Next
  <2> QED
    BY <2>1, <2>2
<1>3. ASSUME NEW r \in Runs, BrowserLaunched(r) \/ LaunchFails(r) \/ RunTaskEnds(r) \/ Release(r)
      PROVE  LocalInv' /\ Status' = Status
  <2>1. UNCHANGED <<store, pending>>
    BY <1>3 DEF BrowserLaunched, LaunchFails, RunTaskEnds, Release
  <2>2. /\ \A q \in Runs : q # r => phase'[q] = phase[q]
        /\ \/ phase[r] \in {"launching", "executing"} /\ phase'[r] # "unused"
           \/ phase[r] = "cleanup" /\ phase'[r] = "done"
    BY <1>3 DEF BrowserLaunched, LaunchFails, RunTaskEnds, Release, TypeOK
  <2> QED
    BY <2>1, <2>2 DEF LocalInv, Status
<1>4. ASSUME NEW r \in Runs, CompleteRun(r) \/ FailRun(r) PROVE LocalInv' /\ (Status' = Status \/ Abstract!Next)
  <2>1. PICK call \in {"completeRun", "failRun"} :
          Call(call, r) /\ phase[r] \in {"toComplete", "toFail"} /\ ~Waits(call, r) /\ phase' = [phase EXCEPT ![r] = "cleanup"]
    BY <1>4 DEF CompleteRun, FailRun, Conclude, Waits
  <2>2. /\ UNCHANGED pending /\ \A q \in Runs : q # r => store'[q] = store[q]
        /\ Status[r] = store[r].status /\ Status' = [Status EXCEPT ![r] = store'[r].status]
        /\ store[r].status = "none" => store'[r].status = "none"
        /\ store[r].status # "none" => store'[r].status \in {"completed", "failed"}
    BY <1>a, <2>1, LocalCall, WrittenStatus DEF Calls
  <2>3. store[r].status \in {"none", "running", "stale"}
    BY <1>a, <2>1 DEF LocalInv, Record, Statuses
  <2>4. Status' = Status \/ \E outcome \in {"completed", "failed"} : Abstract!Conclude(r, outcome)
    BY <1>b, <2>2, <2>3 DEF Abstract!Conclude
  <2> QED
    BY <2>1, <2>2, <2>4 DEF LocalInv, Abstract!Next, TypeOK
<1>5. ASSUME NEW r \in Runs, Heartbeat(r) \/ SampleMemory(r) PROVE LocalInv' /\ Status' = Status
  <2>1. PICK call \in {"heartbeat", "sampleHeartbeat"} : Call(call, r) /\ UNCHANGED phase
    BY <1>5 DEF Heartbeat, SampleMemory
  <2>2. /\ UNCHANGED pending /\ \A q \in Runs : q # r => store'[q] = store[q]
        /\ Status' = [Status EXCEPT ![r] = store'[r].status] /\ store'[r].status = store[r].status /\ Status[r] = store[r].status
    BY <1>a, <2>1, LocalCall, WrittenStatus DEF Calls
  <2> QED
    BY <1>b, <2>1, <2>2 DEF LocalInv
<1>6. ASSUME NEW r \in Runs, RejectUnhandled(r) PROVE LocalInv' /\ Status' = Status
  BY <1>6 DEF RejectUnhandled, Die, LocalInv, Status, Holding
<1>7. ASSUME Commit \/ CommitRejected \/ (\E r \in Runs, call \in {"completeRun", "failRun", "heartbeat"} : GetRejected(call, r))
      PROVE  FALSE
  BY <1>7 DEF Commit, CommitRejected, GetRejected, LocalInv
<1>8. ASSUME Tick PROVE LocalInv' /\ Status' = Status
  <2>1. \A r \in Runs : store'[r].status = store[r].status
    BY <1>8 DEF Tick, Expired, Older
  <2>2. pending' = <<>>
    BY <1>8 DEF Tick, LocalInv
  <2> QED
    BY <1>8, <2>1, <2>2 DEF Tick, LocalInv, Status
<1>9. ASSUME Shutdown \/ UNCHANGED vars PROVE LocalInv' /\ Status' = Status
  BY <1>9 DEF Shutdown, vars, LocalInv, Status
<1>10. ASSUME Exit PROVE LocalInv' /\ Status' = Status
  BY <1>10, <1>a DEF Exit, Die, LocalInv, Status, Holding, Phases
<1>11. ASSUME Restart PROVE LocalInv' /\ Abstract!Next
  <2>1. Status' = [r \in Runs |-> IF r \in Runs THEN "none" ELSE Status[r]]
    BY <1>11 DEF Restart, Status, NoRecord
  <2>2. Abstract!Forget(Runs)
    BY <2>1 DEF Abstract!Forget
  <2> QED
    BY <1>11, <2>2 DEF Restart, LocalInv, NoRecord, Abstract!Next
<1> QED
  BY <1>1, <1>2, <1>3, <1>4, <1>5, <1>6, <1>7, <1>8, <1>9, <1>10, <1>11 DEF Next

\* With the in-memory store the service implements the abstract run record: an outcome is given once, by the
\* run, and is not replaced while the record is kept.
THEOREM LocalStoreImplementsRunStatus ==
  ASSUME Backend = "memory"
  PROVE  Spec => ImplementsRunStatus
<1>1. Init => LocalInv /\ Abstract!Init
  BY LocalInit DEF Init, Abstract!Init, Status, NoRecord
<1>2. TypeOK /\ LocalInv /\ [Next]_vars => LocalInv' /\ [Abstract!Next]_Status
  BY LocalStep
<1> QED
  BY <1>1, <1>2, TypeCorrect, PTL DEF Spec, ImplementsRunStatus, Abstract!Spec

-----------------------------------------------------------------------------
(* A live run is never written off as lost with its worker.                *)

OwnedBy(rec, w) == rec.reason # "worker_lost" /\ (rec.status # "none" => rec.worker = w)

\* Records and pending writes of the runs in flight carry the present worker; a process that is down works
\* for no run.
Mine == InFlight \cup {"unused"}
WriteOwned(w) == phase[w.run] # "unused" /\ (phase[w.run] \in InFlight => OwnedBy(w.record, worker))
Ownership ==
  /\ process = "down" => \A r \in Runs : phase[r] \notin Holding
  /\ \A r \in Runs : phase[r] = "unused" => store[r].status = "none"
  /\ \A r \in Runs : phase[r] \in Mine => OwnedBy(store[r], worker)
  /\ \A i \in DOMAIN pending : WriteOwned(pending[i])

\* A call leaves a record with the worker that owned it.
LEMMA WrittenOwned ==
  ASSUME NEW call \in Calls, NEW rec \in Record, OwnedBy(rec, worker)
  PROVE  OwnedBy(Written(call, rec), worker)
BY DEF OwnedBy, Written, NewRecord, applyStaleDetection, IsStale, Stamped, Record

\* Age does not change the owner of a record.
LEMMA AgedOwned ==
  ASSUME NEW rec \in Record, NEW w, OwnedBy(rec, w)
  PROVE  OwnedBy(Older(rec), w) /\ OwnedBy(Expired(rec), w)
BY DEF OwnedBy, Older, Expired, NoRecord

\* A store call for a run leaves an owned record and queues an owned write.
LEMMA CallOwned ==
  ASSUME TypeOK, Ownership, NEW call \in Calls, NEW r \in Runs, Call(call, r)
  PROVE  /\ \A q \in Runs : phase[q] \in Mine => OwnedBy(store'[q], worker)
         /\ \A q \in Runs : q # r => store'[q] = store[q]
         /\ \A i \in DOMAIN pending' :
              \/ i \in DOMAIN pending /\ pending'[i] = pending[i]
              \/ pending'[i].run = r /\ (phase[r] \in Mine => OwnedBy(pending'[i].record, worker))
<1>1. store[r] \in Record /\ (phase[r] \in Mine => OwnedBy(Written(call, store[r]), worker))
  BY WrittenOwned DEF TypeOK, Ownership
<1>2. store' = store \/ store' = [store EXCEPT ![r] = Written(call, store[r])]
  BY DEF Call
<1>3. CASE UNCHANGED pending
  BY <1>1, <1>2, <1>3 DEF TypeOK, Ownership
<1>4. CASE pending' = Append(pending, [call |-> call, run |-> r, record |-> Written(call, store[r])])
  <2> DEFINE w == [call |-> call, run |-> r, record |-> Written(call, store[r])]
  <2>1. w \in Write /\ w.run = r /\ w.record = Written(call, store[r])
    BY <1>1, WrittenType DEF Write, TypeOK
  <2> HIDE DEF w
  <2>2. pending' = Append(pending, w)
    BY <1>4 DEF w
  <2>3. /\ Len(pending) \in Nat /\ DOMAIN pending = 1..Len(pending) /\ DOMAIN pending' = 1..(Len(pending) + 1)
        /\ \A i \in 1..Len(pending) : pending'[i] = pending[i]
        /\ pending'[Len(pending) + 1] = w
    BY <2>1, <2>2, LenProperties, AppendProperties DEF TypeOK
  <2>4. \A i \in DOMAIN pending' : (i \in DOMAIN pending /\ pending'[i] = pending[i]) \/ pending'[i] = w
    BY <2>3
  <2> QED
    BY <1>1, <1>2, <2>1, <2>4 DEF TypeOK, Ownership
<1> QED
  BY <1>3, <1>4 DEF Call

\* The rest of the queue, when its oldest write is done.
LEMMA TailOwned ==
  ASSUME TypeOK, Ownership, pending # <<>>
  PROVE  /\ WriteOwned(Head(pending))
         /\ \A i \in DOMAIN Tail(pending) : WriteOwned(Tail(pending)[i])
<1>1. /\ Head(pending) = pending[1] /\ 1 \in DOMAIN pending
      /\ \A i \in DOMAIN Tail(pending) : \E j \in DOMAIN pending : Tail(pending)[i] = pending[j]
  BY EmptySeq, LenProperties, HeadTailProperties DEF TypeOK
<1> QED
  BY <1>1 DEF Ownership

\* Nothing is in flight after the process died.
LEMMA DieOwned ==
  ASSUME TypeOK, Ownership, NEW phases \in [Runs -> Phases], Die(phases),
         \A r \in Runs : phases[r] = phase[r] \/ (phases[r] = "lost" /\ phase[r] \in Holding),
         \A r \in Runs : phase[r] = "unused" => store'[r] = store[r]
  PROVE  Ownership'
<1>1. \A r \in Runs : /\ phase'[r] \notin Holding
                      /\ phase'[r] = "unused" => phase[r] = "unused"
  BY DEF Die, Holding
<1>2. pending' = <<>> /\ UNCHANGED worker
  BY DEF Die
<1> QED
  BY <1>1, <1>2 DEF Ownership, Mine, InFlight

\* The caller of the oldest call goes on, whatever the answer.
LEMMA CallerOwned ==
  ASSUME SlotInv, Ownership, pending # <<>>, process # "down", pending' = Tail(pending),
         \/ Resumed(Head(pending).call, Head(pending).run)
         \/ Rejected(Head(pending).call, Head(pending).run),
         store' = store \/ store' = [store EXCEPT ![Head(pending).run] = Head(pending).record]
  PROVE  Ownership'
<1> DEFINE w == Head(pending)
<1>1. w.call \in Calls /\ w.run \in Runs /\ w.record \in Record
  BY HeadType DEF SlotInv
<1>2. UNCHANGED <<process, worker>>
  BY DEF Resumed, Rejected
<1>3. \A q \in Runs : /\ phase'[q] \in Mine => phase[q] \in Mine
                      /\ phase'[q] = "unused" <=> phase[q] = "unused"
                      /\ phase'[q] \in InFlight => phase[q] \in InFlight
  <2>1. CASE w.call \in Background
    BY <2>1 DEF Resumed, Rejected, Background
  <2>2. CASE w.call \notin Background
    <3>1. phase[w.run] \in {"creating", "completing", "failing"}
      BY <1>1, <2>2, HeadAwaited DEF SlotInv, Awaits, Calls, Background
    <3>2. \E p \in {"launching", "cleanup", "orphaned", "toFail", "rejected"} : phase' = [phase EXCEPT ![w.run] = p]
      BY <2>2 DEF Resumed, Rejected
    <3> QED
      BY <1>1, <3>1, <3>2 DEF SlotInv, TypeOK, Mine, InFlight, Holding
  <2> QED
    BY <2>1, <2>2
<1>4. WriteOwned(w) /\ \A i \in DOMAIN pending' : WriteOwned(pending'[i])
  BY TailOwned DEF SlotInv
<1>5. \A i \in DOMAIN pending' : pending'[i].run \in Runs
  <2>1. \A i \in DOMAIN Tail(pending) : \E j \in DOMAIN pending : Tail(pending)[i] = pending[j]
    BY EmptySeq, LenProperties, HeadTailProperties DEF SlotInv, TypeOK
  <2> QED
    BY <2>1, PendingType DEF SlotInv
<1> HIDE DEF w
<1>6. \A q \in Runs : phase[q] \in Mine => OwnedBy(store'[q], worker)
  BY <1>1, <1>4 DEF Ownership, WriteOwned, Mine, SlotInv, TypeOK, w
<1>7. \A q \in Runs : phase[q] = "unused" => store'[q] = store[q]
  BY <1>1, <1>4 DEF WriteOwned, SlotInv, TypeOK, w
<1> QED
  BY <1>2, <1>3, <1>4, <1>5, <1>6, <1>7 DEF Ownership, WriteOwned

\* A step that only moves runs out of flight, or calls the store for a run that stays where it is.
LEMMA MovedOwned ==
  ASSUME TypeOK, Ownership, UNCHANGED <<worker, pending>>, process # "down", process' # "down",
         \A q \in Runs : phase'[q] = "unused" <=> phase[q] = "unused",
         \A q \in Runs : phase'[q] \in InFlight => phase[q] \in InFlight,
         \A q \in Runs : OwnedBy(store[q], worker) => OwnedBy(store'[q], worker),
         \A q \in Runs : phase[q] = "unused" => store'[q].status = store[q].status
  PROVE  Ownership'
BY PendingType DEF Ownership, Mine, WriteOwned

\* A call on behalf of a run in flight keeps its record with the living process.
LEMMA CalledOwned ==
  ASSUME TypeOK, Ownership, NEW call \in Calls, NEW r \in Runs, Call(call, r), UNCHANGED worker,
         process # "down", process' # "down", phase'[r] # "unused",
         phase'[r] \in InFlight => phase[r] \in Mine,
         \A q \in Runs : q # r => phase'[q] = phase[q]
  PROVE  Ownership'
<1>1. \A q \in Runs : phase[q] \in Mine => OwnedBy(store'[q], worker)
  BY CallOwned
<1>2. \A q \in Runs : phase'[q] \in Mine => phase[q] \in Mine
  BY DEF Mine
<1>3. \A q \in Runs : phase'[q] = "unused" => store'[q].status = "none"
  BY CallOwned DEF Ownership
<1>4. \A i \in DOMAIN pending' : /\ phase'[pending'[i].run] # "unused"
                                 /\ phase'[pending'[i].run] \in InFlight => OwnedBy(pending'[i].record, worker')
  <2> TAKE i \in DOMAIN pending'
  <2>1. CASE i \in DOMAIN pending /\ pending'[i] = pending[i]
    <3>1. WriteOwned(pending[i]) /\ pending[i].run \in Runs
      BY <2>1, PendingType DEF Ownership
    <3>2. CASE pending[i].run = r
      BY <2>1, <3>1, <3>2 DEF WriteOwned, Mine
    <3>3. CASE pending[i].run # r
      BY <2>1, <3>1, <3>3 DEF WriteOwned
    <3> QED
      BY <3>2, <3>3
  <2>2. CASE pending'[i].run = r /\ (phase[r] \in Mine => OwnedBy(pending'[i].record, worker))
    BY <2>2 DEF WriteOwned
  <2> QED
    BY <2>1, <2>2, CallOwned
<1> QED
  BY <1>1, <1>2, <1>3, <1>4 DEF Ownership, WriteOwned

\* Every step keeps the records of runs in flight with the living process.
LEMMA OwnershipInductive ==
  ASSUME SlotInv, Ownership, [Next]_vars
  PROVE  Ownership'
<1>a. TypeOK /\ \A r \in Runs : store[r] \in Record /\ phase[r] \in Phases
  BY DEF SlotInv, TypeOK
<1> USE DEF Holding, InFlight
<1>1. ASSUME NEW r \in Runs, CreateTask(r) PROVE Ownership'
  <2>1. /\ phase[r] = "unused" /\ Call("createRun", r) /\ process = "up" /\ UNCHANGED <<process, worker>>
        /\ phase' \in {[phase EXCEPT ![r] = "launching"], [phase EXCEPT ![r] = "creating"]}
    BY <1>1 DEF CreateTask
  <2>2. phase'[r] \in {"launching", "creating"} /\ \A q \in Runs : q # r => phase'[q] = phase[q]
    BY <1>a, <2>1 DEF TypeOK
  <2> QED
    BY <1>a, <2>1, <2>2, CalledOwned DEF Calls, Mine
<1>2. ASSUME NEW r \in Runs, GetTask(r) PROVE Ownership'
  <2>1. phase[r] # "unused" /\ process = "up" /\ UNCHANGED <<process, worker, phase>>
    BY <1>2 DEF GetTask
  <2>2. CASE store' = [store EXCEPT ![r] = NoRecord] /\ UNCHANGED pending
    <3>1. \A q \in Runs : OwnedBy(store[q], worker) => OwnedBy(store'[q], worker)
      BY <1>a, <2>2 DEF OwnedBy, NoRecord, TypeOK
    <3>2. \A q \in Runs : phase[q] = "unused" => store'[q].status = store[q].status
      BY <1>a, <2>1, <2>2 DEF TypeOK
    <3> QED
      BY <1>a, <2>1, <2>2, <3>1, <3>2, MovedOwned
  <2>3. CASE Call("getRun", r)
    BY <1>a, <2>1, <2>3, CalledOwned DEF Calls, Mine
  <2> QED
    BY <1>2, <2>2, <2>3 DEF GetTask
<1>3. ASSUME NEW r \in Runs, BrowserLaunched(r) \/ LaunchFails(r) \/ RunTaskEnds(r) \/ Release(r) PROVE Ownership'
  <2>1. UNCHANGED <<process, worker, store, pending>> /\ process # "down"
    BY <1>3 DEF BrowserLaunched, LaunchFails, RunTaskEnds, Release
  <2>2. \E p \in {"executing", "toFail", "toComplete", "done"} :
          /\ phase' = [phase EXCEPT ![r] = p]
          /\ phase[r] \in {"launching", "executing", "cleanup"}
    BY <1>3 DEF BrowserLaunched, LaunchFails, RunTaskEnds, Release
  <2> QED
    BY <1>a, <2>1, <2>2, MovedOwned DEF TypeOK
<1>4. ASSUME NEW r \in Runs, CompleteRun(r) \/ FailRun(r) PROVE Ownership'
  <2>1. PICK call \in {"completeRun", "failRun"} : Call(call, r)
    BY <1>4 DEF CompleteRun, FailRun, Conclude
  <2>2. /\ UNCHANGED <<process, worker>> /\ process # "down" /\ phase[r] \in {"toComplete", "toFail"}
        /\ \E p \in {"completing", "failing", "cleanup"} : phase' = [phase EXCEPT ![r] = p]
    BY <1>4 DEF CompleteRun, FailRun, Conclude
  <2>3. phase'[r] \in {"completing", "failing", "cleanup"} /\ \A q \in Runs : q # r => phase'[q] = phase[q]
    BY <1>a, <2>2 DEF TypeOK
  <2> QED
    BY <1>a, <2>1, <2>2, <2>3, CalledOwned DEF Calls, Mine
<1>5. ASSUME NEW r \in Runs, Heartbeat(r) \/ SampleMemory(r) PROVE Ownership'
  <2>1. PICK call \in {"heartbeat", "sampleHeartbeat"} : Call(call, r) /\ UNCHANGED <<phase, process, worker>> /\ process # "down"
    BY <1>5 DEF Heartbeat, SampleMemory
  <2>2. CASE phase[r] # "unused"
    BY <1>a, <2>1, <2>2, CalledOwned DEF Calls, Mine
  <2>3. CASE phase[r] = "unused"
    <3>1. ~Writes(call, store[r]) /\ Written(call, store[r]) = store[r]
      BY <2>1, <2>3 DEF Writes, Written, Ownership
    <3>2. store' = store /\ UNCHANGED pending
      BY <1>a, <2>1, <3>1 DEF Call, Waits, TypeOK
    <3> QED
      BY <1>a, <2>1, <3>2, MovedOwned
  <2> QED
    BY <2>2, <2>3
<1>6. ASSUME NEW r \in Runs, RejectUnhandled(r) PROVE Ownership'
  <2>1. /\ Die([phase EXCEPT ![r] = "lost"]) /\ UNCHANGED store /\ phase[r] = "rejected"
        /\ [phase EXCEPT ![r] = "lost"] \in [Runs -> Phases]
    BY <1>6, <1>a DEF RejectUnhandled, TypeOK, Phases
  <2>2. \A q \in Runs : [phase EXCEPT ![r] = "lost"][q] = phase[q] \/
                        ([phase EXCEPT ![r] = "lost"][q] = "lost" /\ phase[q] \in Holding)
    BY <1>a, <2>1 DEF TypeOK
  <2> QED
    BY <1>a, <2>1, <2>2, DieOwned
<1>7. ASSUME NEW r \in Runs, NEW call \in {"completeRun", "failRun", "heartbeat"}, GetRejected(call, r) PROVE Ownership'
  <2>1. CASE call = "heartbeat"
    BY <1>a, <1>7, <2>1, DieOwned DEF GetRejected, TypeOK
  <2>2. CASE call # "heartbeat"
    <3>1. /\ UNCHANGED <<process, worker, store, pending>> /\ process # "down"
          /\ phase[r] \in {"toComplete", "toFail"} /\ \E p \in {"toFail", "rejected"} : phase' = [phase EXCEPT ![r] = p]
      BY <1>7, <2>2 DEF GetRejected, Rejected, Background
    <3> QED
      BY <1>a, <3>1, MovedOwned DEF TypeOK
  <2> QED
    BY <2>1, <2>2
<1>8. ASSUME Commit PROVE Ownership'
  BY <1>8, CallerOwned DEF Commit
<1>9. ASSUME CommitRejected PROVE Ownership'
  <2>1. CASE Head(pending).call = "heartbeat"
    <3>1. Die(phase) /\ pending # <<>> /\ store' \in {store, [store EXCEPT ![Head(pending).run] = Head(pending).record]}
      BY <1>9, <2>1 DEF CommitRejected
    <3>2. \A q \in Runs : phase[q] = "unused" => store'[q] = store[q]
      BY <1>a, <3>1, TailOwned DEF TypeOK, WriteOwned
    <3> QED
      BY <1>a, <3>1, <3>2, DieOwned DEF TypeOK
  <2>2. CASE Head(pending).call # "heartbeat"
    BY <1>9, <2>2, CallerOwned DEF CommitRejected
  <2> QED
    BY <2>1, <2>2
<1>10. ASSUME Tick PROVE Ownership'
  <2>1. UNCHANGED <<process, worker, phase>>
    BY <1>10 DEF Tick
  <2>2. \A r \in Runs : OwnedBy(store[r], worker) => OwnedBy(store'[r], worker)
    <3>1. \A r \in Runs : store'[r] = Expired(Older(store[r])) /\ Older(store[r]) \in Record
      BY <1>a, <1>10, AgedType DEF Tick
    <3> QED
      BY <1>a, <3>1, AgedOwned
  <2>3. \A r \in Runs : store[r].status = "none" => store'[r].status = "none"
    BY <1>10 DEF Tick, Expired, Older, NoRecord
  <2>4. \A i \in DOMAIN pending' : i \in DOMAIN pending /\ pending'[i].run = pending[i].run
                                   /\ pending'[i].record = Older(pending[i].record)
    BY <1>10 DEF Tick
  <2>5. \A i \in DOMAIN pending : pending[i].record \in Record /\ WriteOwned(pending[i])
    <3>1. \A i \in DOMAIN pending : pending[i] \in Write
      BY <1>a, LenProperties, ElementOfSeq DEF TypeOK
    <3> QED
      BY <3>1 DEF Write, Ownership
  <2>6. \A i \in DOMAIN pending' : /\ phase'[pending'[i].run] # "unused"
                                   /\ phase'[pending'[i].run] \in InFlight => OwnedBy(pending'[i].record, worker')
    BY <2>1, <2>4, <2>5, AgedOwned DEF WriteOwned
  <2> QED
    BY <2>1, <2>2, <2>3, <2>6 DEF Ownership, WriteOwned
<1>11. ASSUME Shutdown \/ UNCHANGED vars PROVE Ownership'
  BY <1>11 DEF Shutdown, vars, Ownership, WriteOwned
<1>12. ASSUME Exit PROVE Ownership'
  BY <1>a, <1>12, DieOwned DEF Exit, TypeOK
<1>13. ASSUME Restart PROVE Ownership'
  <2>1. UNCHANGED <<phase, pending>> /\ (store' = store \/ store' = [r \in Runs |-> NoRecord]) /\ process' # "down"
    BY <1>13 DEF Restart
  <2>2. \A r \in Runs : phase[r] \notin Holding
    BY <1>13 DEF Restart, Ownership
  <2>3. \A r \in Runs : phase[r] = "unused" => store'[r].status = "none" /\ store'[r].reason # "worker_lost"
    BY <2>1 DEF Ownership, OwnedBy, Mine, NoRecord
  <2>4. \A i \in DOMAIN pending : phase[pending[i].run] \notin InFlight
    BY <1>a, <2>2, PendingType
  <2> QED
    BY <2>1, <2>2, <2>3, <2>4 DEF Ownership, WriteOwned, OwnedBy, Mine
<1> QED
  BY <1>1, <1>2, <1>3, <1>4, <1>5, <1>6, <1>7, <1>8, <1>9, <1>10, <1>11, <1>12, <1>13 DEF Next

\* A run that is in flight is never written off as lost with its worker, by any reader at any time, whichever
\* store is used and whatever becomes of its requests.
THEOREM WorkerLostSound == Spec => []WorkerLostMeansOwnerGone
<1>1. Init => Ownership
  BY DEF Init, Ownership, OwnedBy, NoRecord, Mine, InFlight, Holding
<1>2. Ownership => WorkerLostMeansOwnerGone
  BY DEF Ownership, OwnedBy, Mine, WorkerLostMeansOwnerGone, Of
<1> QED
  BY <1>1, <1>2, OwnershipInductive, SlotInvariant, PTL DEF Spec

-----------------------------------------------------------------------------
(* Heartbeats that come in time keep the record of a live run fresh.       *)

\* The record of a run whose heartbeat last fired so long ago; it may be gone only when records
\* are kept for less than two heartbeats are apart.
Timely(rec, since) ==
  \/ rec.status = "running" /\ rec.age <= since
  \/ rec.status = "none" /\ ~TimersFitTtl
TimelyInv ==
  TimersFitThreshold =>
    \A r \in Runs : phase[r] \in Beating =>
      sinceBeat[r] <= HeartbeatInterval + MaxLate /\ Timely(store[r], sinceBeat[r])

\* A background call leaves a timely record timely, and a heartbeat makes it fresh.
LEMMA TimelyWritten ==
  ASSUME NEW rec \in Record, NEW since \in Nat, Timely(rec, since), since <= HeartbeatInterval + MaxLate,
         TimersFitThreshold, NEW call \in Background
  PROVE  /\ Timely(Written(call, rec), since)
         /\ call # "getRun" => Timely(Written(call, rec), 0)
<1>1. ~IsStale(rec)
  BY DEF IsStale, Timely, TimersFitThreshold, Record
<1>2. rec.status = "running" => Stamped("running", worker, rec.reason).age = 0
                                /\ Stamped("running", worker, rec.reason).status = "running"
  BY DEF Stamped
<1> QED
  BY <1>1, <1>2 DEF Written, Timely, Background, Record

\* A record and the time since its heartbeat age together.
LEMMA TimelyAged ==
  ASSUME Backend = "memory", NEW rec \in Record, NEW since \in Nat, Timely(rec, since)
  PROVE  Timely(Expired(Older(rec)), since + 1)
  BY DEF Expired, Older, Timely, Record

\* In memory, with timers that fit the threshold, every step keeps records timely.
LEMMA TimelyStep ==
  ASSUME Backend = "memory", TimersFitThreshold, TypeOK, LocalInv, Ownership, TimelyInv, Next
  PROVE  TimelyInv'
<1>a. \A r \in Runs : store[r] \in Record /\ phase[r] \in Phases /\ sinceBeat[r] \in Nat
  BY DEF TypeOK
<1>1. ASSUME NEW r \in Runs, CreateTask(r) PROVE TimelyInv'
  <2>1. /\ Call("createRun", r) /\ phase' = [phase EXCEPT ![r] = "launching"]
        /\ sinceBeat' = [sinceBeat EXCEPT ![r] = 0]
    BY <1>1 DEF CreateTask
  <2>2. store' = [store EXCEPT ![r] = Written("createRun", store[r])]
    BY <2>1 DEF Call, Waits
  <2>3. Written("createRun", store[r]).status = "running" /\ Written("createRun", store[r]).age = 0
    BY DEF Written, NewRecord, Stamped
  <2>4. \A q \in Runs : q # r => phase'[q] = phase[q] /\ sinceBeat'[q] = sinceBeat[q] /\ store'[q] = store[q]
    BY <2>1, <2>2 DEF TypeOK
  <2>5. sinceBeat'[r] = 0 /\ store'[r].status = "running" /\ store'[r].age = 0
    BY <2>1, <2>2, <2>3 DEF TypeOK
  <2> QED
    BY <2>4, <2>5 DEF TimelyInv, Timely
<1>2. ASSUME NEW r \in Runs, GetTask(r) PROVE TimelyInv'
  <2>1. UNCHANGED <<phase, sinceBeat>>
    BY <1>2 DEF GetTask
  <2>2. CASE store[r].age > Ttl
    <3>1. store' = [store EXCEPT ![r] = NoRecord]
      BY <1>2, <2>2 DEF GetTask
    <3>2. phase[r] \in Beating => ~TimersFitTtl
      BY <1>a, <2>2 DEF TimelyInv, Timely, TimersFitTtl, Record
    <3> QED
      BY <2>1, <3>1, <3>2 DEF TimelyInv, Timely, NoRecord, TypeOK
  <2>3. CASE ~(store[r].age > Ttl)
    <3>1. store' = [store EXCEPT ![r] = Written("getRun", store[r])]
      BY <1>2, <2>3 DEF GetTask, Call, Waits
    <3>2. phase[r] \in Beating => Timely(Written("getRun", store[r]), sinceBeat[r])
      BY <1>a, TimelyWritten DEF TimelyInv, Background
    <3> QED
      BY <2>1, <3>1, <3>2 DEF TimelyInv, TypeOK
  <2> QED
    BY <2>2, <2>3
<1>3. ASSUME NEW r \in Runs, BrowserLaunched(r) \/ LaunchFails(r) \/ RunTaskEnds(r) \/ Release(r)
      PROVE  TimelyInv'
  <2>1. UNCHANGED <<store, sinceBeat>>
    BY <1>3 DEF BrowserLaunched, LaunchFails, RunTaskEnds, Release
  <2>2. /\ \A q \in Runs : q # r => phase'[q] = phase[q]
        /\ phase[r] \in Beating \/ phase'[r] \notin Beating
    BY <1>3 DEF BrowserLaunched, LaunchFails, RunTaskEnds, Release, TypeOK, Beating
  <2> QED
    BY <2>1, <2>2 DEF TimelyInv
<1>4. ASSUME NEW r \in Runs, CompleteRun(r) \/ FailRun(r) PROVE TimelyInv'
  <2>1. PICK call \in {"completeRun", "failRun"} :
          Call(call, r) /\ phase' = [phase EXCEPT ![r] = "cleanup"] /\ sinceBeat' = [sinceBeat EXCEPT ![r] = 0]
    BY <1>4 DEF CompleteRun, FailRun, Conclude, Waits, ClearTimers
  <2>2. store' = [store EXCEPT ![r] = Written(call, store[r])]
    BY <2>1 DEF Call, Waits
  <2> QED
    BY <2>1, <2>2 DEF TimelyInv, TypeOK, Beating
<1>5. ASSUME NEW r \in Runs, Heartbeat(r) \/ SampleMemory(r) PROVE TimelyInv'
  <2>1. PICK call \in {"heartbeat", "sampleHeartbeat"} :
          /\ Call(call, r) /\ UNCHANGED phase
          /\ sinceBeat' = [sinceBeat EXCEPT ![r] = 0] \/ UNCHANGED sinceBeat
    BY <1>5 DEF Heartbeat, SampleMemory
  <2>2. store' = [store EXCEPT ![r] = Written(call, store[r])]
    BY <2>1 DEF Call, Waits
  <2>3. phase[r] \in Beating => /\ Timely(Written(call, store[r]), sinceBeat[r])
                                /\ Timely(Written(call, store[r]), 0)
    BY <1>a, TimelyWritten DEF TimelyInv, Background
  <2>4. \A q \in Runs : q # r => sinceBeat'[q] = sinceBeat[q] /\ store'[q] = store[q]
    BY <2>1, <2>2 DEF TypeOK
  <2>5. store'[r] = Written(call, store[r]) /\ sinceBeat'[r] \in {sinceBeat[r], 0}
    BY <2>1, <2>2 DEF TypeOK
  <2> QED
    BY <2>1, <2>3, <2>4, <2>5 DEF TimelyInv
<1>6. ASSUME (\E r \in Runs : RejectUnhandled(r)) \/ Exit PROVE TimelyInv'
  <2>1. \A q \in Runs : phase'[q] \notin Beating
    <3>1. PICK phases : /\ \A q \in Runs : phases[q] \in Phases
                        /\ phase' = [r \in Runs |-> IF phases[r] \in Holding THEN "lost" ELSE phases[r]]
      <4>1. CASE Exit
        BY <1>a, <4>1 DEF Exit, Die
      <4>2. CASE \E r \in Runs : RejectUnhandled(r)
        <5>1. PICK r \in Runs : RejectUnhandled(r)
          BY <4>2
        <5> DEFINE phases == [phase EXCEPT ![r] = "lost"]
        <5>2. \A q \in Runs : phases[q] \in Phases
          BY <1>a DEF TypeOK, Phases
        <5>3. phase' = [q \in Runs |-> IF phases[q] \in Holding THEN "lost" ELSE phases[q]]
          BY <5>1 DEF RejectUnhandled, Die
        <5> HIDE DEF phases
        <5> QED
          BY <5>2, <5>3
      <4> QED
        BY <1>6, <4>1, <4>2
    <3>2. Beating \subseteq Holding /\ "lost" \notin Beating
      BY DEF Beating, Holding
    <3> QED
      BY <3>1, <3>2
  <2> QED
    BY <2>1 DEF TimelyInv
<1>7. ASSUME Commit \/ CommitRejected \/ (\E r \in Runs, call \in {"completeRun", "failRun", "heartbeat"} : GetRejected(call, r))
      PROVE  FALSE
  BY <1>7 DEF Commit, CommitRejected, GetRejected, LocalInv
<1>8. ASSUME Tick PROVE TimelyInv'
  <2>1. \A r \in Runs : phase[r] \in Beating =>
          /\ sinceBeat[r] < HeartbeatInterval + MaxLate /\ sinceBeat'[r] = sinceBeat[r] + 1
          /\ store'[r] = Expired(Older(store[r])) /\ phase'[r] = phase[r]
    BY <1>8 DEF Tick, Of
  <2>2. UNCHANGED phase
    BY <1>8 DEF Tick
  <2>3. \A r \in Runs : phase[r] \in Beating => Timely(Expired(Older(store[r])), sinceBeat[r] + 1)
    BY <1>a, TimelyAged DEF TimelyInv
  <2> QED
    BY <1>a, <2>1, <2>2, <2>3 DEF TimelyInv
<1>9. ASSUME Shutdown PROVE TimelyInv'
  BY <1>9 DEF Shutdown, TimelyInv
<1>10. ASSUME Restart PROVE TimelyInv'
  BY <1>10 DEF Restart, Ownership, TimelyInv, Beating, Holding
<1> QED
  BY <1>1, <1>2, <1>3, <1>4, <1>5, <1>6, <1>7, <1>8, <1>9, <1>10 DEF Next

\* In memory, with timers that fit the threshold, the record of a beating run is timely.
LEMMA TimelyInvariant ==
  ASSUME Backend = "memory"
  PROVE  Spec => [](TypeOK /\ LocalInv /\ TimelyInv)
<1>1. Init => Ownership
  BY DEF Init, Ownership, OwnedBy, NoRecord, Mine, InFlight, Holding
<1>2. Init => TimelyInv
  BY DEF Init, TimelyInv, Beating
<1>3. TypeOK /\ LocalInv /\ [Next]_vars => LocalInv'
  BY LocalStep
<1>4. TypeOK /\ LocalInv /\ Ownership /\ TimelyInv /\ [Next]_vars => TimelyInv'
  <2> SUFFICES ASSUME TypeOK, LocalInv, Ownership, TimelyInv, [Next]_vars PROVE TimelyInv'
    OBVIOUS
  <2>1. CASE ~TimersFitThreshold
    BY <2>1 DEF TimelyInv, TimersFitThreshold
  <2>2. CASE TimersFitThreshold /\ Next
    BY <2>2, TimelyStep
  <2>3. CASE UNCHANGED vars
    BY <2>3 DEF TimelyInv, vars
  <2> QED
    BY <2>1, <2>2, <2>3
<1> QED
  BY LocalInit, <1>1, <1>2, <1>3, <1>4, TypeCorrect, SlotInvariant, OwnershipInductive, PTL DEF Spec

\* With the in-memory store and timers that fit the threshold, no reader finds a live run stale (runner.ts's
\* interval against staleDetection.ts).
THEOREM LiveRunsStayFresh ==
  ASSUME Backend = "memory"
  PROVE  Spec => []NoFalseStale
<1>1. TimelyInv => NoFalseStale
  BY DEF TimelyInv, NoFalseStale, Timely, Of
<1> QED
  BY <1>1, TimelyInvariant, PTL

\* With the in-memory store and timers that fit both limits, a run whose completeRun returned has its result
\* in the store: the record neither went stale nor expired while the run was working.
THEOREM CompletionsAreRecorded ==
  ASSUME Backend = "memory"
  PROVE  Spec => CompletionRecorded
<1>1. ASSUME TypeOK, LocalInv, TimelyInv, Next, TimersFitThreshold, TimersFitTtl, NEW r \in Runs,
             phase[r] = "toComplete", phase'[r] = "cleanup"
      PROVE  store'[r].status = "completed"
  <2>a. phase \in [Runs -> Phases]
    BY <1>1 DEF TypeOK
  <2>1. CompleteRun(r)
    <3>1. ASSUME NEW q \in Runs, \/ CreateTask(q) \/ GetTask(q) \/ BrowserLaunched(q) \/ LaunchFails(q)
                                 \/ RunTaskEnds(q) \/ FailRun(q) \/ Release(q) \/ Heartbeat(q) \/ SampleMemory(q)
          PROVE  FALSE
      BY <1>1, <2>a, <3>1 DEF CreateTask, GetTask, BrowserLaunched, LaunchFails, RunTaskEnds, FailRun, Conclude,
                              Release, Heartbeat, SampleMemory
    <3>2. ASSUME NEW q \in Runs, CompleteRun(q) PROVE q = r
      BY <1>1, <2>a, <3>2 DEF CompleteRun, Conclude
    <3>3. ASSUME (\E q \in Runs : RejectUnhandled(q)) \/ Exit PROVE FALSE
      BY <1>1, <2>a, <3>3 DEF RejectUnhandled, Exit, Die, Holding
    <3>4. ASSUME \/ Commit \/ CommitRejected
                 \/ \E q \in Runs, call \in {"completeRun", "failRun", "heartbeat"} : GetRejected(call, q)
          PROVE  FALSE
      BY <1>1, <3>4 DEF Commit, CommitRejected, GetRejected, LocalInv
    <3>5. ASSUME Tick \/ Shutdown \/ Restart PROVE FALSE
      BY <1>1, <3>5 DEF Tick, Shutdown, Restart
    <3> QED
      BY <1>1, <3>1, <3>2, <3>3, <3>4, <3>5 DEF Next
  <2>2. store' = [store EXCEPT ![r] = Written("completeRun", store[r])]
    BY <2>1 DEF CompleteRun, Conclude, Call, Waits
  <2>3. store[r].status = "running"
    BY <1>1 DEF TimelyInv, Timely, Beating
  <2> QED
    BY <1>1, <2>2, <2>3 DEF Written, Stamped, TypeOK
<1>2. TypeOK /\ LocalInv /\ TimelyInv /\ [Next]_vars =>
        [TimersFitThreshold /\ TimersFitTtl =>
           \A r \in Runs : phase[r] = "toComplete" /\ phase'[r] = "cleanup" => store'[r].status = "completed"]_vars
  BY <1>1
<1> QED
  BY <1>2, TimelyInvariant, PTL DEF Spec, CompletionRecorded
=============================================================================
