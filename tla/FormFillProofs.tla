--------------------------- MODULE FormFillProofs ---------------------------
(***************************************************************************)
(* The safety of fill_form, for every form, every page, every bound and    *)
(* every site: an observation given up is spent, no more Submit clicks are *)
(* made than allowed and none after a lead was accepted, the test-only     *)
(* opt-in is justified, consent is given only where it may be, and the     *)
(* reported outcome agrees with the evidence.                              *)
(*                                                                         *)
(* One inductive invariant per layer: the types of the records, what the   *)
(* observation under way knows, where the action may stand with what it    *)
(* has counted, and what the last attempt recorded.                        *)
(***************************************************************************)
EXTENDS FormFill, FiniteSetTheorems, SequenceTheorems, WellFoundedInduction, TLAPS

-----------------------------------------------------------------------------
(* The records of the observer.                                            *)

BusinessType ==
  [outcome : {"none", "pending", "completed", "failed"}, status : Statuses \cup {NoStatus}]
WatchType ==
  [phase : {"off", "network", "page"}, clock : 0..HardCap, base : 0..HardCap, deadline : 0..HardCap,
   challengeAt : Int, business : BusinessType]
ObservationType ==
  [terminal : Terminals \cup {"none"}, minimum : 0..HardCap, total : 0..HardCap, detected : BOOLEAN,
   business : BusinessType, confirmed : BOOLEAN, urlChanged : BOOLEAN, formPresent : BOOLEAN,
   disabled : BOOLEAN, progress : BOOLEAN]

ObserverType == reqs \in Seq(RequestType) /\ watch \in WatchType /\ obs \in ObservationType
AnsweredOnce == \A i \in DOMAIN reqs : reqs[i].outcome = "pending" => reqs[i].status = NoStatus
Spent ==
  /\ watch.phase # "off" => watch.base <= watch.deadline
  /\ UndecidedOnlyWhenSpent
ObserverInv == ObserverType /\ AnsweredOnce /\ Spent

\* A set of positions that is not empty has a first one.
LEMMA FirstOfPositions ==
  ASSUME NEW I, I \subseteq Nat, I # {}
  PROVE  First(I) \in I /\ \A j \in I : First(I) <= j
<1>1. PICK i \in I : \A j \in I : ~(<<j, i>> \in OpToRel(<, Nat))
  BY NatLessThanWellFounded, WFMin, Zenon
<1>2. \A j \in I : ~(j < i)
  BY <1>1, Zenon DEF OpToRel
<1>3. \A j \in I : i <= j
  BY <1>2
<1> QED
  BY <1>3 DEF First

\* The lead requests are requests on record.
LEMMA BusinessArePositions ==
  ASSUME NEW rs \in Seq(RequestType)
  PROVE  /\ BusinessRequests(rs) \subseteq DOMAIN rs
         /\ DOMAIN rs = 1..Len(rs) /\ Len(rs) \in Nat
         /\ \A i \in DOMAIN rs : rs[i] \in RequestType
<1>1. DOMAIN rs = 1..Len(rs) /\ Len(rs) \in Nat /\ \A i \in 1..Len(rs) : rs[i] \in RequestType
  BY LenProperties, ElementOfSeq
<1> QED
  BY <1>1 DEF BusinessRequests

\* The decisive request is one of the lead requests, when there is any.
LEMMA DecisiveIsBusiness ==
  ASSUME NEW rs \in Seq(RequestType)
  PROVE  /\ DecisiveRequest(rs) \in BusinessType
         /\ BusinessRequests(rs) = {} => DecisiveRequest(rs) = NoRequest
         /\ BusinessRequests(rs) # {} =>
              \E i \in BusinessRequests(rs) : DecisiveRequest(rs).status = rs[i].status
<1> DEFINE business == BusinessRequests(rs)
           declined == {i \in business : Refused(rs[i])}
           among == IF declined # {} THEN declined ELSE business
<1>1. business \subseteq Nat /\ among \subseteq business
  BY BusinessArePositions
<1>2. CASE business = {}
  BY <1>2 DEF DecisiveRequest, NoRequest, BusinessType, NoStatus
<1>3. CASE business # {}
  <2>1. First(among) \in business
    BY <1>1, <1>3, FirstOfPositions
  <2>2. DecisiveRequest(rs) = [outcome |-> rs[First(among)].outcome, status |-> rs[First(among)].status]
    BY <1>3 DEF DecisiveRequest
  <2>3. /\ rs[First(among)].outcome \in {"pending", "completed", "failed"}
        /\ rs[First(among)].status \in Statuses \cup {NoStatus}
    BY <2>1, BusinessArePositions DEF RequestType
  <2>4. DecisiveRequest(rs) \in BusinessType
    BY <2>2, <2>3 DEF BusinessType
  <2>5. DecisiveRequest(rs).status = rs[First(among)].status
    BY <2>2
  <2> QED
    BY <1>3, <2>1, <2>4, <2>5
<1> QED
  BY <1>2, <1>3

\* A decisive verdict names a terminal state of its own.
LEMMA VerdictIsTerminal ==
  ASSUME NEW S, NEW business, NEW due
  PROVE  Verdict(S, business, due) \in (Terminals \ {"unknown_outcome"}) \cup {"none"}
  BY DEF Verdict, ResponseState, Terminals

\* What an observation is before it begins, and what nothing observed is.
LEMMA IdleObserver == Off \in WatchType /\ NoObservation \in ObservationType
<1>1. NoRequest \in BusinessType
  BY DEF NoRequest, BusinessType, NoStatus
<1>2. 0 \in 0..HardCap
  BY WindowAssumption
<1> QED
  BY <1>1, <1>2 DEF Off, NoObservation, WatchType, ObservationType

\* The observation ends: its record is read off the watch and the requests.
LEMMA EndedObservation ==
  ASSUME ObserverType, NEW terminal \in Terminals, NEW urlChanged \in BOOLEAN, NEW S,
         EndObservation(terminal, urlChanged, S)
  PROVE  /\ watch' = Off /\ obs' \in ObservationType
         /\ obs'.terminal = terminal /\ obs'.minimum = watch.base /\ obs'.total = watch.clock
         /\ obs'.progress => InProgress(S)
         /\ obs'.detected = (BusinessRequests(reqs) # {})
         /\ obs'.business = DecisiveRequest(reqs)
<1>1. watch.base \in 0..HardCap /\ watch.clock \in 0..HardCap
  BY DEF ObserverType, WatchType
<1>2. DecisiveRequest(reqs) \in BusinessType
  BY DecisiveIsBusiness DEF ObserverType
<1>3. /\ ("confirmation" \in S /\ "duplicate_notice" \notin S) \in BOOLEAN
      /\ (BusinessRequests(reqs) # {}) \in BOOLEAN
      /\ (S \cap {"form_gone", "form_hidden"} = {}) \in BOOLEAN
      /\ ("submit_disabled" \in S) \in BOOLEAN
      /\ (terminal # "succeeded" /\ InProgress(S)) \in BOOLEAN
  BY DEF InProgress
<1>4. obs' = [terminal    |-> terminal,
              minimum     |-> watch.base,
              total       |-> watch.clock,
              detected    |-> BusinessRequests(reqs) # {},
              business    |-> DecisiveRequest(reqs),
              confirmed   |-> "confirmation" \in S /\ "duplicate_notice" \notin S,
              urlChanged  |-> urlChanged,
              formPresent |-> S \cap {"form_gone", "form_hidden"} = {},
              disabled    |-> "submit_disabled" \in S,
              progress    |-> terminal # "succeeded" /\ InProgress(S)]
  BY DEF EndObservation
<1>5. watch' = Off
  BY DEF EndObservation
<1>6. obs' \in ObservationType
  BY <1>1, <1>2, <1>3, <1>4 DEF ObservationType
<1> QED
  BY <1>4, <1>5, <1>6

\* A reading of the network keeps the observer invariant.
LEMMA ReadNetworkKeeps ==
  ASSUME ObserverInv, ReadNetwork
  PROVE  ObserverInv'
<1> USE DEF ObserverInv
<1>1. CASE EndObservation("succeeded", TRUE, {})
  <2>1. watch' = Off /\ obs' \in ObservationType /\ obs'.terminal = "succeeded"
    BY <1>1, EndedObservation DEF Terminals
  <2>2. ObserverType' /\ AnsweredOnce'
    BY <2>1, IdleObserver DEF ReadNetwork, ObserverType, AnsweredOnce
  <2>3. Spent'
    BY <2>1, WindowAssumption DEF Spent, UndecidedOnlyWhenSpent, Off
  <2> QED
    BY <2>2, <2>3
<1>2. CASE watch' = [watch EXCEPT !.phase = "page", !.business = DecisiveRequest(reqs)] /\ UNCHANGED obs
  <2>1. watch' \in WatchType
    BY <1>2, DecisiveIsBusiness DEF ObserverType, WatchType
  <2>2. watch'.base = watch.base /\ watch'.deadline = watch.deadline /\ watch'.clock = watch.clock
    BY <1>2 DEF ObserverType, WatchType
  <2> QED
    BY <1>2, <2>1, <2>2 DEF ReadNetwork, ObserverType, AnsweredOnce, Spent, UndecidedOnlyWhenSpent
<1> QED
  BY <1>1, <1>2 DEF ReadNetwork

\* A reading of the page keeps the observer invariant.
LEMMA ReadPageKeeps ==
  ASSUME ObserverInv, NEW S, ReadPage(S)
  PROVE  ObserverInv'
<1> USE DEF ObserverInv
<1> DEFINE due     == watch.clock - watch.challengeAt > ChallengeGap
           verdict == Verdict(S, watch.business, due)
           looked  == IF due THEN watch.clock ELSE watch.challengeAt
           waiting == [watch EXCEPT !.phase = "network", !.clock = @ + 1, !.challengeAt = looked]
           later   == IF watch.clock + Extension < HardCap THEN watch.clock + Extension ELSE HardCap
<1>1. /\ watch.phase = "page" /\ watch.base <= watch.deadline /\ watch.clock <= HardCap
      /\ watch.clock \in 0..HardCap /\ watch.deadline \in 0..HardCap /\ watch.base \in 0..HardCap
      /\ watch.challengeAt \in Int /\ watch \in WatchType
  BY DEF ReadPage, Spent, UndecidedOnlyWhenSpent, ObserverType, WatchType
<1>2. UNCHANGED reqs
  BY DEF ReadPage
<1>. looked \in Int
  BY <1>1
<1>3. CASE verdict # "none" /\ EndObservation(verdict, FALSE, S)
  <2>1. verdict \in Terminals /\ verdict # "unknown_outcome"
    BY <1>3, VerdictIsTerminal
  <2>2. watch' = Off /\ obs' \in ObservationType /\ obs'.terminal # "unknown_outcome"
    BY <1>3, <2>1, EndedObservation
  <2> QED
    BY <1>2, <2>2, IdleObserver, WindowAssumption DEF ObserverType, AnsweredOnce, Spent, UndecidedOnlyWhenSpent, Off
<1>4. CASE watch.clock < watch.deadline /\ watch' = waiting /\ UNCHANGED obs
  <2>1. watch.clock + 1 \in 0..HardCap
    BY <1>1, <1>4, WindowAssumption
  <2>2. /\ watch' \in WatchType /\ watch'.clock = watch.clock + 1
        /\ watch'.base = watch.base /\ watch'.deadline = watch.deadline
    <3> HIDE DEF looked
    <3> QED
      BY <1>1, <1>4, <2>1 DEF WatchType
  <2> QED
    BY <1>1, <1>2, <1>4, <2>1, <2>2 DEF ObserverType, AnsweredOnce, Spent, UndecidedOnlyWhenSpent
<1>5. CASE /\ watch.clock >= watch.deadline /\ KeepWaiting(S)
           /\ watch' = [waiting EXCEPT !.deadline = later] /\ UNCHANGED obs
  <2>1. watch.clock < HardCap
    BY <1>5 DEF KeepWaiting
  <2>2. watch.clock + 1 \in 0..HardCap /\ later \in 0..HardCap /\ watch.base <= later
    BY <1>1, <1>5, <2>1, WindowAssumption
  <2> HIDE DEF later
  <2>3. /\ watch' \in WatchType /\ watch'.clock = watch.clock + 1
        /\ watch'.base = watch.base /\ watch'.deadline = later
    <3> HIDE DEF looked
    <3> QED
      BY <1>1, <1>5, <2>2 DEF WatchType
  <2> QED
    BY <1>1, <1>2, <1>5, <2>2, <2>3 DEF ObserverType, AnsweredOnce, Spent, UndecidedOnlyWhenSpent
<1>6. CASE /\ watch.clock >= watch.deadline /\ ~KeepWaiting(S)
           /\ EndObservation("unknown_outcome", FALSE, S)
  <2>1. /\ watch' = Off /\ obs' \in ObservationType
        /\ obs'.minimum = watch.base /\ obs'.total = watch.clock /\ (obs'.progress => InProgress(S))
    <3>1. "unknown_outcome" \in Terminals /\ FALSE \in BOOLEAN
      BY DEF Terminals
    <3> QED
      BY <1>6, <3>1, EndedObservation
  <2>2. obs'.minimum <= obs'.total /\ obs'.total <= HardCap
    BY <1>1, <1>6, <2>1
  <2>3. obs'.total < HardCap => ~obs'.progress
    BY <1>1, <1>6, <2>1 DEF KeepWaiting
  <2> QED
    BY <1>2, <2>1, <2>2, <2>3, IdleObserver, WindowAssumption
    DEF ObserverType, AnsweredOnce, Spent, UndecidedOnlyWhenSpent, Off
<1> QED
  BY <1>3, <1>4, <1>5, <1>6 DEF ReadPage

-----------------------------------------------------------------------------
(* What the observation saw stays on the record while the capture runs on. *)

OnlyWrites == \A kind \in RequestKinds : Tier(kind) # "secondary"
SeenOnRecord ==
  /\ obs.detected => BusinessRequests(reqs) # {}
  /\ OnlyWrites /\ ResponseState(obs.business.status) # "none" =>
       \E i \in BusinessRequests(reqs) : reqs[i].status = obs.business.status

\* There are business requests as soon as one is primary or secondary.
LEMMA BusinessExists ==
  ASSUME NEW rs
  PROVE  BusinessRequests(rs) # {} <=> \E i \in DOMAIN rs : Tier(rs[i].kind) \in {"primary", "secondary"}
  BY DEF BusinessRequests

\* When no kind of request is secondary, the business requests are the primary ones.
LEMMA OnlyPrimaries ==
  ASSUME NEW rs \in Seq(RequestType), OnlyWrites
  PROVE  BusinessRequests(rs) = {i \in DOMAIN rs : Tier(rs[i].kind) = "primary"}
<1>1. \A i \in DOMAIN rs : rs[i].kind \in RequestKinds
  BY BusinessArePositions DEF RequestType
<1> QED
  BY <1>1 DEF OnlyWrites, BusinessRequests

\* A lead request on record stays one, whatever else is sent and answered.
LEMMA BusinessPersists ==
  ASSUME reqs \in Seq(RequestType), reqs' \in Seq(RequestType), DOMAIN reqs \subseteq DOMAIN reqs',
         \A i \in DOMAIN reqs : reqs'[i].kind = reqs[i].kind
  PROVE  /\ BusinessRequests(reqs) # {} => BusinessRequests(reqs') # {}
         /\ OnlyWrites => BusinessRequests(reqs) \subseteq BusinessRequests(reqs')
<1>1. BusinessRequests(reqs) # {} => BusinessRequests(reqs') # {}
  BY BusinessExists
<1>2. OnlyWrites => BusinessRequests(reqs) \subseteq BusinessRequests(reqs')
  BY OnlyPrimaries
<1> QED
  BY <1>1, <1>2

\* A request that starts keeps the observer invariant and what was seen on record.
LEMMA StartRequestKeeps ==
  ASSUME ObserverInv, NEW kind \in RequestKinds, StartRequest(kind)
  PROVE  ObserverInv' /\ (SeenOnRecord => SeenOnRecord')
<1> DEFINE new == [kind |-> kind, outcome |-> "pending", status |-> NoStatus]
<1>1. reqs \in Seq(RequestType) /\ UNCHANGED <<watch, obs>> /\ reqs' = Append(reqs, new)
  BY DEF StartRequest, ObserverInv, ObserverType
<1>2. new \in RequestType
  BY DEF RequestType
<1>3. /\ reqs' \in Seq(RequestType) /\ DOMAIN reqs = 1..Len(reqs) /\ Len(reqs) \in Nat
      /\ DOMAIN reqs' = 1..(Len(reqs) + 1)
      /\ \A i \in 1..Len(reqs) : reqs'[i] = reqs[i]
      /\ reqs'[Len(reqs) + 1] = new
  BY <1>1, <1>2, AppendProperties, LenProperties
<1> HIDE DEF new
<1>4. DOMAIN reqs \subseteq DOMAIN reqs' /\ \A i \in DOMAIN reqs : reqs'[i] = reqs[i]
  BY <1>3
<1>5. AnsweredOnce'
  <2> SUFFICES ASSUME NEW i \in DOMAIN reqs', reqs'[i].outcome = "pending"
               PROVE  reqs'[i].status = NoStatus
    BY DEF AnsweredOnce
  <2>1. CASE i \in DOMAIN reqs
    BY <1>4, <2>1 DEF ObserverInv, AnsweredOnce
  <2>2. CASE i = Len(reqs) + 1
    BY <1>3, <2>2 DEF new
  <2> QED
    BY <1>3, <2>1, <2>2
<1>6. SeenOnRecord => SeenOnRecord'
  BY <1>1, <1>3, <1>4, BusinessPersists, BusinessArePositions DEF SeenOnRecord
<1> QED
  BY <1>1, <1>3, <1>5, <1>6 DEF ObserverInv, ObserverType, Spent, UndecidedOnlyWhenSpent

\* A request that ends keeps the observer invariant and what was seen on record.
LEMMA EndRequestKeeps ==
  ASSUME ObserverInv, NEW i \in DOMAIN reqs, NEW status \in Statuses \cup {NoStatus}, EndRequest(i, status)
  PROVE  ObserverInv' /\ (SeenOnRecord => SeenOnRecord')
<1> DEFINE how == IF status = NoStatus THEN "failed" ELSE "completed"
           ended == [[reqs[i] EXCEPT !.outcome = how] EXCEPT !.status = status]
<1>1. reqs \in Seq(RequestType) /\ UNCHANGED <<watch, obs>> /\ reqs[i].outcome = "pending"
  BY DEF EndRequest, ObserverInv, ObserverType
<1>2. /\ DOMAIN reqs = 1..Len(reqs) /\ Len(reqs) \in Nat
      /\ \A j \in DOMAIN reqs : reqs[j] \in RequestType
  BY <1>1, BusinessArePositions
<1>3. /\ DOMAIN reqs' = DOMAIN reqs /\ reqs'[i] = ended
      /\ \A j \in DOMAIN reqs \ {i} : reqs'[j] = reqs[j]
      /\ reqs' = [reqs EXCEPT ![i] = ended]
  BY <1>1, <1>2 DEF EndRequest
<1>4. ended \in RequestType /\ ended.kind = reqs[i].kind /\ ended.outcome # "pending"
  <2> HIDE DEF how
  <2>1. how \in {"failed", "completed"}
    BY DEF how
  <2> QED
    BY <1>2, <2>1 DEF RequestType
<1> HIDE DEF ended
<1>5. reqs' \in Seq(RequestType)
  BY <1>1, <1>3, <1>4, ExceptSeq
<1>6. AnsweredOnce'
  BY <1>3, <1>4 DEF ObserverInv, AnsweredOnce
<1>7. \A j \in DOMAIN reqs : reqs'[j].kind = reqs[j].kind
  BY <1>3, <1>4
<1>8. ResponseState(NoStatus) = "none"
  BY DEF ResponseState, NoStatus
<1>9. ASSUME SeenOnRecord, OnlyWrites, ResponseState(obs.business.status) # "none"
      PROVE  \E j \in BusinessRequests(reqs') : reqs'[j].status = obs.business.status
  <2>1. PICK j \in BusinessRequests(reqs) : reqs[j].status = obs.business.status
    BY <1>9 DEF SeenOnRecord
  <2>2. j \in DOMAIN reqs /\ reqs[j].outcome # "pending"
    BY <1>1, <1>8, <1>9, <2>1, BusinessArePositions DEF ObserverInv, AnsweredOnce
  <2>3. reqs'[j] = reqs[j]
    BY <1>1, <1>3, <2>2
  <2> QED
    BY <1>1, <1>3, <1>5, <1>7, <1>9, <2>1, <2>3, BusinessPersists
<1>10. SeenOnRecord => SeenOnRecord'
  BY <1>1, <1>3, <1>5, <1>7, <1>9, BusinessPersists DEF SeenOnRecord
<1> QED
  BY <1>1, <1>5, <1>6, <1>10 DEF ObserverInv, ObserverType, Spent, UndecidedOnlyWhenSpent

\* Traffic keeps the observer invariant, and leaves watch and observation alone.
LEMMA NetworkKeeps ==
  ASSUME ObserverInv, Network
  PROVE  ObserverInv' /\ (SeenOnRecord => SeenOnRecord') /\ UNCHANGED <<watch, obs>>
<1>1. UNCHANGED <<watch, obs>>
  BY DEF Network, StartRequest, EndRequest
<1> QED
  BY <1>1, StartRequestKeeps, EndRequestKeeps DEF Network

\* When an observation ends, what it returns is what is on record.
LEMMA EndIsOnRecord ==
  ASSUME ObserverType, NEW terminal \in Terminals, NEW urlChanged \in BOOLEAN, NEW S,
         EndObservation(terminal, urlChanged, S), UNCHANGED reqs
  PROVE  SeenOnRecord'
<1>1. obs'.detected = (BusinessRequests(reqs) # {}) /\ obs'.business = DecisiveRequest(reqs)
  BY EndedObservation
<1>2. ResponseState(NoRequest.status) = "none"
  BY DEF ResponseState, NoRequest, NoStatus
<1> QED
  BY <1>1, <1>2, DecisiveIsBusiness DEF SeenOnRecord, ObserverType

\* A step of the observer keeps its invariant and its base; the last one reports what is on record.
LEMMA ObserverStepKeeps ==
  ASSUME ObserverInv, ObserverStep
  PROVE  /\ ObserverInv'
         /\ watch.phase # "off"
         /\ watch'.phase # "off" => watch'.base = watch.base
         /\ watch'.phase = "off" => obs'.terminal \in Terminals /\ obs'.minimum = watch.base /\ SeenOnRecord'
<1>1. ObserverInv' /\ watch.phase # "off" /\ UNCHANGED reqs
  BY ReadNetworkKeeps, ReadPageKeeps DEF ObserverStep, ReadNetwork, ReadPage
<1>2. ObserverType
  BY DEF ObserverInv
<1>3. ASSUME NEW terminal \in Terminals, NEW urlChanged \in BOOLEAN, NEW S,
             EndObservation(terminal, urlChanged, S)
      PROVE  /\ watch'.phase = "off" /\ obs'.terminal \in Terminals /\ obs'.minimum = watch.base
             /\ SeenOnRecord'
  BY <1>1, <1>2, <1>3, EndedObservation, EndIsOnRecord DEF Off
<1>4. CASE ReadNetwork
  <2>1. CASE EndObservation("succeeded", TRUE, {})
    <3>1. "succeeded" \in Terminals
      BY DEF Terminals
    <3> QED
      BY <1>1, <1>3, <2>1, <3>1
  <2>2. CASE watch' = [watch EXCEPT !.phase = "page", !.business = DecisiveRequest(reqs)]
    <3>1. watch'.phase = "page" /\ watch'.base = watch.base
      BY <1>2, <2>2 DEF ObserverType, WatchType
    <3> QED
      BY <1>1, <3>1
  <2> QED
    BY <1>4, <2>1, <2>2 DEF ReadNetwork
<1>5. ASSUME NEW S, ReadPage(S)
      PROVE  \/ watch'.phase = "network" /\ watch'.base = watch.base
             \/ \E terminal \in Terminals : EndObservation(terminal, FALSE, S)
  <2> DEFINE due     == watch.clock - watch.challengeAt > ChallengeGap
             verdict == Verdict(S, watch.business, due)
             looked  == IF due THEN watch.clock ELSE watch.challengeAt
             waiting == [watch EXCEPT !.phase = "network", !.clock = @ + 1, !.challengeAt = looked]
             later   == IF watch.clock + Extension < HardCap THEN watch.clock + Extension ELSE HardCap
  <2>1. \/ verdict # "none" /\ EndObservation(verdict, FALSE, S)
        \/ watch' = waiting
        \/ watch' = [waiting EXCEPT !.deadline = later]
        \/ EndObservation("unknown_outcome", FALSE, S)
    BY <1>5 DEF ReadPage
  <2>2. verdict # "none" => verdict \in Terminals
    BY VerdictIsTerminal
  <2>3. "unknown_outcome" \in Terminals
    BY DEF Terminals
  <2> HIDE DEF later, looked, verdict
  <2>4. ASSUME watch' = waiting \/ watch' = [waiting EXCEPT !.deadline = later]
        PROVE  watch'.phase = "network" /\ watch'.base = watch.base
    BY <1>2, <2>4 DEF ObserverType, WatchType
  <2> QED
    BY <2>1, <2>2, <2>3, <2>4
<1> QED
  BY <1>1, <1>3, <1>4, <1>5 DEF ObserverStep

\* An observation begins in the network phase, with the base it is given.
LEMMA BeginKeeps ==
  ASSUME NEW base \in 0..HardCap, NEW kinds, kinds = <<>> \/ \E k \in RequestKinds : kinds = <<k>>,
         BeginObservation(base, kinds)
  PROVE  ObserverInv' /\ watch'.phase = "network" /\ watch'.base = base
<1>1. /\ watch' = [Off EXCEPT !.phase = "network", !.base = base, !.deadline = base,
                              !.challengeAt = -ChallengeGap - 1]
      /\ obs' = NoObservation
      /\ reqs' = [i \in DOMAIN kinds |-> [kind |-> kinds[i], outcome |-> "pending", status |-> NoStatus]]
  BY DEF BeginObservation
<1>2. -ChallengeGap - 1 \in Int
  BY WindowAssumption
<1>3. /\ watch' \in WatchType /\ watch'.clock = 0 /\ watch'.base = base /\ watch'.deadline = base
      /\ watch'.phase = "network"
  BY <1>1, <1>2, IdleObserver DEF WatchType, Off
<1>4. reqs' \in Seq(RequestType) /\ AnsweredOnce'
  <2>1. CASE kinds = <<>>
    BY <1>1, <2>1 DEF AnsweredOnce
  <2>2. ASSUME NEW k \in RequestKinds, kinds = <<k>>
        PROVE  reqs' \in Seq(RequestType) /\ AnsweredOnce'
    <3>1. DOMAIN kinds = 1..1 /\ kinds[1] = k
      BY <2>2
    <3>2. reqs' = [i \in 1..1 |-> [kind |-> k, outcome |-> "pending", status |-> NoStatus]]
      BY <1>1, <3>1
    <3>3. [kind |-> k, outcome |-> "pending", status |-> NoStatus] \in RequestType
      BY DEF RequestType
    <3>4. reqs' \in Seq(RequestType)
      BY <3>2, <3>3, IsASeq
    <3> QED
      BY <3>2, <3>4 DEF AnsweredOnce
  <2> QED
    BY <2>1, <2>2
<1>5. Spent'
  BY <1>1, <1>3, WindowAssumption DEF Spent, UndecidedOnlyWhenSpent, NoObservation
<1> QED
  BY <1>1, <1>3, <1>4, <1>5, IdleObserver DEF ObserverInv, ObserverType

\* Clearing the requests and the observation keeps the observer invariant.
LEMMA ClearKeeps ==
  ASSUME ObserverInv, reqs' = <<>>, obs' = NoObservation, UNCHANGED watch
  PROVE  ObserverInv'
<1>1. reqs' \in Seq(RequestType) /\ AnsweredOnce'
  BY DEF AnsweredOnce
<1> QED
  BY <1>1, IdleObserver DEF ObserverInv, ObserverType, Spent, UndecidedOnlyWhenSpent, NoObservation
-----------------------------------------------------------------------------
(* Where the action may stand with what it has counted and recorded.       *)

TriesType ==
  [retries : Nat, clicks : Nat, corrective : Nat, recovered : BOOLEAN, fallback : BOOLEAN,
   next : {"judge", "fallback", "report"}]
Answers ==
  {"no_request", "server_error", "blocked_or_rate_limited", "server_validation_rejected", "not_found",
   "accepted", "failed_or_pending"}
Refusals == {"server_error", "blocked_or_rate_limited", "server_validation_rejected"}
AttemptType ==
  [made : BOOLEAN, clicked : BOOLEAN, succeeded : BOOLEAN, cause : BOOLEAN, rejection : BOOLEAN,
   invalid : SUBSET (Fields \cup Groups), committed : SUBSET Fields, answer : Answers,
   seen : ObservationType]

Early == {"start", "gate", "select", "fill", "dependent", "consent", "catch_up", "ready"}
FirstAttempt == tries.corrective = 0 /\ ~tries.fallback

Counted ==
  /\ tries \in TriesType /\ pc \in Places
  /\ pc \in Early => tries.clicks = 0 /\ FirstAttempt /\ tries.next = "judge"
  /\ pc \in {"correct", "submit"} => tries.clicks < MaxSubmitAttempts
  /\ pc = "submit" /\ tries.clicks > 0 => ~FirstAttempt
  /\ tries.fallback => tries.next = "report" /\ pc \in {"submit", "observe", "report", "done"}
  /\ ClickBudget

(* What the capture says of a clicked attempt never denies what the        *)
(* observer said of it.                                                    *)
Recorded ==
  /\ attempt.seen.terminal \in Terminals
  /\ attempt.answer = "no_request" => ~attempt.seen.detected
  /\ OnlyWrites /\ ResponseState(attempt.seen.business.status) # "none" => attempt.answer \in Refusals

Judged ==
  /\ attempt \in AttemptType
  /\ pc \in Early => attempt = NoAttempt
  /\ pc = "correct" \/ (pc = "submit" /\ tries.clicks > 0) => ~LandedByEvidence
  /\ pc = "submit" /\ FirstAttempt => ~attempt.made
  /\ pc = "observe" /\ FallbackFlag /\ FirstAttempt =>
       IF watch.phase = "off" THEN obs.minimum = HardCap ELSE watch.base = HardCap
  /\ pc = "observe" /\ watch.phase = "off" => obs.terminal \in Terminals /\ SeenOnRecord
  /\ pc \notin Early \cup {"observe"} /\ attempt.clicked => Recorded
  /\ pc \in {"judge", "correct", "fallback", "eligible"} /\ attempt.clicked /\ FallbackFlag /\ FirstAttempt =>
       attempt.seen.minimum = HardCap
  /\ pc = "submit" /\ tries.fallback => ~attempt.seen.detected /\ ~attempt.seen.progress /\ attempt.seen.total >= HardCap
  /\ FallbackJustified
  /\ pc = "done" /\ attempt.clicked => result.submission = SubmissionOutcome(attempt)

FillInv == ObserverInv /\ Counted /\ Judged

\* No attempt and no tries have the types of attempts and tries.
LEMMA NoAttemptType == NoAttempt \in AttemptType /\ NoTries \in TriesType
<1>1. NoObservation \in ObservationType
  BY IdleObserver
<1> QED
  BY <1>1 DEF NoAttempt, NoTries, AttemptType, TriesType, Answers

\* The invariant holds before fill_form begins.
LEMMA InitHolds ==
  ASSUME Init
  PROVE  FillInv
<1>1. ObserverInv
  BY IdleObserver, WindowAssumption
  DEF Init, ObserverInit, ObserverInv, ObserverType, AnsweredOnce, Spent, UndecidedOnlyWhenSpent, Off, NoObservation
<1>2. Counted
  BY NoAttemptType, FieldAssumption
  DEF Init, Counted, Early, Places, FirstAttempt, NoTries, ClickBudget
<1>3. Judged
  BY NoAttemptType DEF Init, Judged, Early, FirstAttempt, NoTries, NoAttempt, FallbackJustified
<1> QED
  BY <1>1, <1>2, <1>3 DEF FillInv

\* Until Submit is clicked nothing is counted but retries, nothing recorded.
LEMMA BeforeSubmitKeeps ==
  ASSUME FillInv, pc \in Early, pc' \in Early \cup {"done", "submit"},
         UNCHANGED <<attempt, observerVars>>,
         UNCHANGED tries \/ tries' = [tries EXCEPT !.retries = @ + 1]
  PROVE  FillInv'
<1>1. /\ tries \in TriesType /\ tries.clicks = 0 /\ FirstAttempt /\ tries.next = "judge"
      /\ attempt = NoAttempt /\ attempt \in AttemptType
  BY DEF FillInv, Counted, Judged
<1>2. /\ tries' \in TriesType /\ tries'.clicks = 0 /\ tries'.corrective = 0 /\ ~tries'.fallback
      /\ tries'.next = "judge"
  BY <1>1 DEF TriesType, FirstAttempt
<1>3. ObserverInv'
  BY DEF FillInv, ObserverInv, ObserverType, AnsweredOnce, Spent, UndecidedOnlyWhenSpent, observerVars
<1>4. Counted'
  BY <1>2, FieldAssumption DEF Counted, FirstAttempt, ClickBudget, Early, Places
<1>5. Judged'
  BY <1>1, <1>2 DEF Judged, FirstAttempt, NoAttempt, FallbackJustified, Early
<1> QED
  BY <1>3, <1>4, <1>5 DEF FillInv

\* The steps before Submit keep the invariant.
LEMMA BeforeSubmitSteps ==
  ASSUME FillInv,
         \/ CheckCaptcha \/ PassLocationGate \/ SelectForm \/ FillInitial \/ PollDependentSelects
         \/ AnswerConsents \/ CatchUp \/ RetryDealer \/ PassReadinessGate
  PROVE  FillInv'
<1>1. pc \in Early /\ UNCHANGED <<attempt, observerVars>>
  BY DEF CheckCaptcha, PassLocationGate, SelectForm, FillInitial, PollDependentSelects, AnswerConsents,
         CatchUp, RetryDealer, PassReadinessGate, Early
<1>2. pc' \in Early \cup {"done", "submit"}
  BY <1>1 DEF CheckCaptcha, PassLocationGate, SelectForm, FillInitial, PollDependentSelects, AnswerConsents,
         CatchUp, RetryDealer, PassReadinessGate, Early, Finish
<1>3. UNCHANGED tries \/ tries' = [tries EXCEPT !.retries = @ + 1]
  BY DEF CheckCaptcha, PassLocationGate, SelectForm, FillInitial, PollDependentSelects, AnswerConsents,
         CatchUp, RetryDealer, PassReadinessGate
<1> QED
  BY <1>1, <1>2, <1>3, BeforeSubmitKeeps

\* A click opens a window of the length the attempt calls for; a control that
\* stays disabled is never clicked, and leaves an attempt with no evidence.
LEMMA ClickSubmitKeeps ==
  ASSUME FillInv, ClickSubmit
  PROVE  FillInv'
<1> USE DEF FillInv
<1>1. /\ pc = "submit" /\ tries \in TriesType /\ tries.clicks < MaxSubmitAttempts
      /\ tries.clicks > 0 => ~FirstAttempt
      /\ tries.fallback => tries.next = "report" /\ tries.corrective = 0
      /\ tries.next \in {"judge", "fallback", "report"}
      /\ FirstAttempt => ~attempt.made
  BY DEF ClickSubmit, Counted, Judged, TriesType, ClickBudget
<1>2. PICK r \in FillResults(RefreshTargets) :
        LET this == [NoAttempt EXCEPT !.made = TRUE, !.committed = Required \cap shown \cap r.held] IN
        \/ \E cause \in BOOLEAN :
             LET missing == (Required \cap shown) \ r.held
                 blocked == [this EXCEPT !.invalid = missing, !.cause = cause \/ missing # {}]
             IN  attempt' = blocked /\ pc' = tries.next /\ UNCHANGED <<tries, observerVars>>
        \/ /\ attempt' = [this EXCEPT !.clicked = TRUE]
           /\ tries' = [tries EXCEPT !.clicks = @ + 1]
           /\ \E kinds \in {<<>>} \cup {<<k>> : k \in RequestKinds} :
                Len(kinds) <= MaxRequests /\ BeginObservation(Window, kinds)
           /\ pc' = "observe"
  BY DEF ClickSubmit
<1> DEFINE committed == Required \cap shown \cap r.held
           this == [NoAttempt EXCEPT !.made = TRUE, !.committed = committed]
<1>3. this \in AttemptType /\ this.clicked = FALSE
  <2>1. committed \in SUBSET Fields
    BY FieldAssumption
  <2> HIDE DEF committed
  <2> QED
    BY <2>1, NoAttemptType DEF AttemptType, NoAttempt
<1>4. ASSUME NEW cause \in BOOLEAN, NEW missing \in SUBSET Fields,
             attempt' = [this EXCEPT !.invalid = missing, !.cause = cause \/ missing # {}],
             pc' = tries.next, UNCHANGED <<tries, observerVars>>
      PROVE  FillInv'
  <2> HIDE DEF this
  <2>1. (cause \/ missing # {}) \in BOOLEAN
    OBVIOUS
  <2>2. attempt' \in AttemptType /\ attempt'.clicked = FALSE
    BY <1>3, <1>4, <2>1 DEF AttemptType
  <2>3. ObserverInv'
    BY <1>4 DEF ObserverInv, ObserverType, AnsweredOnce, Spent, UndecidedOnlyWhenSpent, observerVars
  <2>4. pc' \in {"judge", "fallback", "report"} /\ (tries.fallback => pc' = "report")
    BY <1>1, <1>4
  <2>5. Counted'
    BY <1>1, <1>4, <2>4 DEF Counted, Early, Places, FirstAttempt, ClickBudget
  <2>6. Judged'
    BY <2>2, <2>4 DEF Judged, Early, FallbackJustified
  <2> QED
    BY <2>3, <2>5, <2>6
<1>5. ASSUME attempt' = [this EXCEPT !.clicked = TRUE], tries' = [tries EXCEPT !.clicks = @ + 1],
             NEW kinds \in {<<>>} \cup {<<k>> : k \in RequestKinds},
             BeginObservation(Window, kinds), pc' = "observe"
      PROVE  FillInv'
  <2> HIDE DEF this
  <2>1. attempt' \in AttemptType /\ attempt'.clicked
    BY <1>3, <1>5 DEF AttemptType
  <2>2. /\ tries' \in TriesType /\ tries'.clicks = tries.clicks + 1 /\ tries'.corrective = tries.corrective
        /\ tries'.fallback = tries.fallback /\ tries'.next = tries.next
    BY <1>1, <1>5 DEF TriesType
  <2>3. Window \in 0..HardCap /\ (FallbackFlag /\ FirstAttempt => Window = HardCap)
    BY <1>1, WindowAssumption DEF Window
  <2>4. ObserverInv' /\ watch'.phase = "network" /\ watch'.base = Window
    BY <1>5, <2>3, BeginKeeps
  <2>5. Counted'
    <3>1. tries.clicks \in Nat /\ tries.corrective \in Nat /\ tries.fallback \in BOOLEAN
          /\ MaxSubmitAttempts \in Nat
      BY <1>1, FieldAssumption DEF TriesType
    <3>2. ClickBudget'
      BY <1>1, <2>2, <3>1 DEF ClickBudget, FirstAttempt
    <3> QED
      BY <1>1, <1>5, <2>2, <3>2 DEF Counted, Early, Places
  <2>6. Judged'
    BY <1>5, <2>1, <2>2, <2>3, <2>4 DEF Judged, Early, FallbackJustified, FirstAttempt
  <2> QED
    BY <2>4, <2>5, <2>6
<1>6. (Required \cap shown) \ r.held \in SUBSET Fields
  BY FieldAssumption
<1> QED
  BY <1>2, <1>4, <1>5, <1>6

\* Observing keeps the invariant.
LEMMA ObserveKeeps ==
  ASSUME FillInv, Observe
  PROVE  FillInv'
<1>1. /\ ObserverInv' /\ pc = "observe" /\ UNCHANGED <<pc, tries, attempt, result>>
      /\ watch.phase # "off"
      /\ watch'.phase # "off" => watch'.base = watch.base
      /\ watch'.phase = "off" => obs'.terminal \in Terminals /\ obs'.minimum = watch.base /\ SeenOnRecord'
  BY ObserverStepKeeps DEF Observe, FillInv, fillVars
<1>2. Counted'
  BY <1>1 DEF FillInv, Counted, FirstAttempt, ClickBudget
<1>3. Judged'
  BY <1>1 DEF FillInv, Judged, FirstAttempt, FallbackJustified, Early
<1> QED
  BY <1>1, <1>2, <1>3 DEF FillInv

\* Traffic keeps the invariant.
LEMMA TrafficKeeps ==
  ASSUME FillInv, Traffic
  PROVE  FillInv'
<1>1. /\ ObserverInv' /\ (SeenOnRecord => SeenOnRecord') /\ UNCHANGED <<watch, obs>>
      /\ pc = "observe" /\ UNCHANGED <<pc, tries, attempt, result>>
  BY NetworkKeeps DEF Traffic, FillInv, fillVars
<1>2. Counted'
  BY <1>1 DEF FillInv, Counted, FirstAttempt, ClickBudget
<1>3. Judged'
  BY <1>1 DEF FillInv, Judged, FirstAttempt, FallbackJustified, Early
<1> QED
  BY <1>1, <1>2, <1>3 DEF FillInv

\* The category of the capture's answers, against any one of them.
LEMMA CategoryAgrees ==
  ASSUME NEW rs, \A r \in rs : r.status \in Statuses \cup {NoStatus}
  PROVE  /\ ResponseCategory(rs) \in Answers
         /\ rs # {} => ResponseCategory(rs) # "no_request"
         /\ \A r \in rs : ResponseState(r.status) # "none" => ResponseCategory(rs) \in Refusals
<1>1. /\ ResponseCategory(rs) \in Answers
      /\ rs # {} => ResponseCategory(rs) # "no_request"
  BY DEF ResponseCategory, Answers
<1>2. ASSUME NEW r \in rs, ResponseState(r.status) # "none"
      PROVE  ResponseCategory(rs) \in Refusals
  <2>1. r.status # NoStatus
    BY <1>2 DEF ResponseState, NoStatus
  <2>2. r.status \in {s.status : s \in rs} \ {NoStatus}
    BY <2>1
  <2>3. r.status \in {401, 403, 429} \/ r.status \in {400, 409, 422} \/ r.status >= 500
    BY <1>2 DEF ResponseState
  <2> QED
    BY <2>2, <2>3 DEF ResponseCategory, Refusals
<1> QED
  BY <1>1, <1>2

\* The capture is read after the observer: what it says agrees with what was seen.
LEMMA CollectKeeps ==
  ASSUME FillInv, CollectAttempt
  PROVE  FillInv'
<1> USE DEF FillInv
<1> DEFINE answers == {reqs[i] : i \in BusinessRequests(reqs)}
<1>1. /\ pc = "observe" /\ watch.phase = "off" /\ pc' = tries.next /\ UNCHANGED <<tries, result>>
      /\ reqs' = <<>> /\ obs' = NoObservation /\ UNCHANGED watch
      /\ tries \in TriesType /\ attempt \in AttemptType /\ obs \in ObservationType
      /\ obs.terminal \in Terminals /\ SeenOnRecord
      /\ FallbackFlag /\ FirstAttempt => obs.minimum = HardCap
  BY DEF CollectAttempt, Counted, Judged, ObserverInv, ObserverType
<1>2. PICK gone \in BOOLEAN, cause \in BOOLEAN, rejection \in BOOLEAN,
           groups \in SUBSET (Actionable \cap MarkedRequired) :
        LET unread  == obs.urlChanged \/ gone
            invalid == IF unread THEN {}
                       ELSE (Required \cap shown \cap ((Fields \ held) \cup refused)) \cup groups
            done    == [attempt EXCEPT
                          !.succeeded = obs.terminal = "succeeded" /\ invalid = {},
                          !.invalid   = invalid,
                          !.cause     = IF obs.urlChanged THEN TRUE
                                        ELSE ~unread /\ (cause \/ invalid # {}),
                          !.rejection = ~unread /\ (rejection \/ invalid # {}),
                          !.answer    = ResponseCategory({reqs[i] : i \in BusinessRequests(reqs)}),
                          !.seen      = obs]
        IN  /\ gone => obs.terminal = "succeeded"
            /\ groups # {} => \A g \in groups : checked[g] = "none"
            /\ attempt' = done
  BY Zenon DEF CollectAttempt
<1> DEFINE unread    == obs.urlChanged \/ gone
           invalid   == IF unread THEN {}
                        ELSE (Required \cap shown \cap ((Fields \ held) \cup refused)) \cup groups
           succeeded == obs.terminal = "succeeded" /\ invalid = {}
           causeNow  == IF obs.urlChanged THEN TRUE ELSE ~unread /\ (cause \/ invalid # {})
           rejected  == ~unread /\ (rejection \/ invalid # {})
           category  == ResponseCategory(answers)
<1>3. /\ \A i \in BusinessRequests(reqs) : reqs[i].status \in Statuses \cup {NoStatus}
      /\ \A i \in BusinessRequests(reqs) : reqs[i] \in answers
  BY BusinessArePositions DEF ObserverInv, ObserverType, RequestType
<1>4. /\ category \in Answers
      /\ answers # {} => category # "no_request"
      /\ \A r \in answers : ResponseState(r.status) # "none" => category \in Refusals
  <2>1. \A r \in answers : r.status \in Statuses \cup {NoStatus}
    BY <1>3
  <2> HIDE DEF answers
  <2> QED
    BY <2>1, CategoryAgrees
<1>5. invalid \in SUBSET (Fields \cup Groups)
  BY FieldAssumption, GroupAssumption
<1>6. succeeded \in BOOLEAN /\ causeNow \in BOOLEAN /\ rejected \in BOOLEAN
  OBVIOUS
<1>7. attempt' = [attempt EXCEPT !.succeeded = succeeded, !.invalid = invalid, !.cause = causeNow,
                                 !.rejection = rejected, !.answer = category, !.seen = obs]
  BY <1>2
<1> HIDE DEF succeeded, invalid, causeNow, rejected, category
<1>8. /\ attempt' \in AttemptType /\ attempt'.clicked = attempt.clicked
      /\ attempt'.answer = category /\ attempt'.seen = obs
  BY <1>1, <1>4, <1>5, <1>6, <1>7 DEF AttemptType
<1>9. Recorded'
  <2>1. category = "no_request" => ~obs.detected
    BY <1>1, <1>3, <1>4 DEF SeenOnRecord
  <2>2. OnlyWrites /\ ResponseState(obs.business.status) # "none" => category \in Refusals
    <3> SUFFICES ASSUME OnlyWrites, ResponseState(obs.business.status) # "none"
                 PROVE  category \in Refusals
      OBVIOUS
    <3>1. PICK i \in BusinessRequests(reqs) : reqs[i].status = obs.business.status
      BY <1>1 DEF SeenOnRecord
    <3> QED
      BY <1>3, <1>4, <3>1
  <2> QED
    BY <1>1, <1>8, <2>1, <2>2 DEF Recorded
<1>10. ObserverInv'
  BY <1>1, ClearKeeps
<1>11. pc' \in {"judge", "fallback", "report"} /\ (tries.fallback => pc' = "report")
  BY <1>1 DEF TriesType, Counted
<1>12. Counted'
  BY <1>1, <1>11 DEF Counted, Early, Places, FirstAttempt, ClickBudget
<1>13. Judged'
  BY <1>1, <1>8, <1>9, <1>11 DEF Judged, Early, FirstAttempt, FallbackJustified
<1> QED
  BY <1>10, <1>12, <1>13

\* After the click the record of the attempt is only read: a step that neither
\* clicks nor observes keeps it, and must answer for the place it goes to.
LEMMA AfterClickKeeps ==
  ASSUME FillInv, UNCHANGED <<attempt, observerVars>>,
         pc \in {"judge", "correct", "fallback", "eligible"},
         pc' \in {"correct", "fallback", "eligible", "report"},
         pc' = "correct" => MayRetry,
         UNCHANGED tries \/ tries' = [tries EXCEPT !.recovered = TRUE]
  PROVE  FillInv'
<1> USE DEF FillInv
<1>1. /\ tries \in TriesType /\ tries' \in TriesType /\ tries'.clicks = tries.clicks
      /\ tries'.corrective = tries.corrective /\ tries'.fallback = tries.fallback
      /\ tries'.next = tries.next /\ ~tries.fallback
  BY DEF Counted, TriesType
<1>2. ObserverInv'
  BY DEF ObserverInv, ObserverType, AnsweredOnce, Spent, UndecidedOnlyWhenSpent, observerVars
<1>3. Counted'
  BY <1>1 DEF Counted, Early, Places, FirstAttempt, ClickBudget, MayRetry
<1>4. Judged'
  BY <1>1 DEF Judged, Early, FirstAttempt, FallbackJustified, MayRetry, LandedByEvidence, Recorded
<1> QED
  BY <1>2, <1>3, <1>4

\* A correction is counted, and submitted only over an attempt that did not land.
LEMMA ResubmitKeeps ==
  ASSUME FillInv, UNCHANGED <<attempt, observerVars>>,
         pc = "correct" \/ (pc = "judge" /\ MayRetry), pc' = "submit",
         NEW next \in {"judge", "fallback"},
         tries' = Corrected(next) \/ tries' = [Corrected(next) EXCEPT !.recovered = TRUE]
  PROVE  FillInv'
<1> USE DEF FillInv
<1>1. /\ tries \in TriesType /\ ~tries.fallback /\ tries.clicks < MaxSubmitAttempts /\ ~LandedByEvidence
  BY DEF Counted, Judged, MayRetry
<1>2. /\ tries' \in TriesType /\ tries'.clicks = tries.clicks /\ tries'.corrective = tries.corrective + 1
      /\ tries'.fallback = tries.fallback /\ tries'.next = next
  <2>1. /\ Corrected(next) \in TriesType /\ Corrected(next).clicks = tries.clicks
        /\ Corrected(next).corrective = tries.corrective + 1
        /\ Corrected(next).fallback = tries.fallback /\ Corrected(next).next = next
    <3> DEFINE retries == tries.retries + 1
               corrective == tries.corrective + 1
    <3>1. retries \in Nat /\ corrective \in Nat
      BY <1>1 DEF TriesType
    <3>2. Corrected(next) = [tries EXCEPT !.retries = retries, !.corrective = corrective, !.next = next]
      BY DEF Corrected
    <3> HIDE DEF retries
    <3> QED
      BY <1>1, <3>1, <3>2 DEF TriesType
  <2> QED
    BY <2>1 DEF TriesType
<1>3. tries.clicks \in Nat /\ tries.corrective \in Nat /\ tries.fallback \in BOOLEAN /\ MaxSubmitAttempts \in Nat
  BY <1>1, FieldAssumption DEF TriesType
<1>4. ~FirstAttempt' /\ ~tries'.fallback
  BY <1>1, <1>2, <1>3 DEF FirstAttempt
<1>5. ObserverInv'
  BY DEF ObserverInv, ObserverType, AnsweredOnce, Spent, UndecidedOnlyWhenSpent, observerVars
<1>6. Counted'
  <2>1. ClickBudget'
    BY <1>1, <1>2, <1>3 DEF ClickBudget
  <2> QED
    BY <1>1, <1>2, <1>4, <2>1 DEF Counted, Early, Places
<1>7. Judged'
  BY <1>1, <1>4 DEF Judged, Early, FallbackJustified, LandedByEvidence, Recorded
<1> QED
  BY <1>5, <1>6, <1>7

\* An eligible opt-in follows one click, watched to the cap, that left no trace.
LEMMA EligibleIsSilent ==
  ASSUME FillInv, pc = "eligible",
         NEW challengeNow, NEW usableNow, NEW duplicateStatus,
         Eligible(challengeNow, usableNow, duplicateStatus)
  PROVE  /\ ~attempt.seen.detected /\ ~attempt.seen.progress /\ attempt.seen.total >= HardCap
         /\ ~LandedByEvidence
         /\ tries.clicks = 1 /\ tries.clicks < MaxSubmitAttempts /\ FirstAttempt /\ FallbackFlag
<1>1. /\ FallbackFlag /\ attempt.clicked /\ attempt.seen.total >= attempt.seen.minimum
      /\ ~attempt.seen.detected /\ ~attempt.seen.progress
      /\ tries.clicks = 1 /\ tries.corrective = 0 /\ tries.clicks < MaxSubmitAttempts
  BY DEF Eligible
<1>2. FirstAttempt /\ attempt.seen.minimum = HardCap
  BY <1>1 DEF FillInv, Counted, Judged, FirstAttempt
<1> QED
  BY <1>1, <1>2 DEF LandedByEvidence

\* The decision on the opt-in keeps the invariant.
LEMMA DecideFallbackKeeps ==
  ASSUME FillInv, DecideFallback
  PROVE  FillInv'
<1>1. /\ pc = "eligible" /\ UNCHANGED <<attempt, observerVars, result>>
      /\ \E challengeNow, usableNow, duplicateStatus \in BOOLEAN :
           IF ~Eligible(challengeNow, usableNow, duplicateStatus)
             THEN pc' = "report" /\ UNCHANGED <<tries, consentVars>>
             ELSE \E verified \in SUBSET Groups :
                    /\ OptIn(verified)
                    /\ IF OptInVerified(verified)
                         THEN /\ pc' = "submit"
                              /\ tries' = [tries EXCEPT !.fallback = TRUE, !.next = "report"]
                         ELSE pc' = "report" /\ UNCHANGED tries
  BY Zenon DEF DecideFallback
<1>2. CASE pc' = "report" /\ UNCHANGED tries
  BY <1>1, <1>2, AfterClickKeeps
<1>3. ASSUME NEW challengeNow \in BOOLEAN, NEW usableNow \in BOOLEAN, NEW duplicateStatus \in BOOLEAN,
             Eligible(challengeNow, usableNow, duplicateStatus),
             NEW verified \in SUBSET Groups, OptIn(verified), OptInVerified(verified), pc' = "submit",
             tries' = [tries EXCEPT !.fallback = TRUE, !.next = "report"]
      PROVE  FillInv'
  <2>1. /\ ~attempt.seen.detected /\ ~attempt.seen.progress /\ attempt.seen.total >= HardCap
        /\ ~LandedByEvidence
        /\ tries.clicks = 1 /\ tries.clicks < MaxSubmitAttempts /\ FirstAttempt /\ FallbackFlag
    BY <1>1, <1>3, EligibleIsSilent
  <2>2. tries \in TriesType
    BY DEF FillInv, Counted
  <2>3. /\ tries' \in TriesType /\ tries'.clicks = 1 /\ tries'.corrective = 0 /\ tries'.fallback
        /\ tries'.next = "report"
    BY <1>3, <2>1, <2>2 DEF TriesType, FirstAttempt
  <2>4. Optional(Actionable)' # {} /\ \A g \in Optional(Actionable)' : checked'[g] = "positive"
    <3>1. UNCHANGED reach /\ Optional(Actionable) # {} /\ verified = Optional(Actionable)
          /\ verified \subseteq OptInTargets
      BY <1>3 DEF OptIn, OptInVerified
    <3>2. Optional(Actionable)' = Optional(Actionable) /\ Optional(Actionable) \subseteq Groups
      BY <3>1 DEF Optional, Actionable
    <3>3. PICK page \in [OptInTargets -> Polarities] :
            /\ \A g \in OptInTargets : (g \in verified) => (page[g] = "positive")
            /\ checked' = [g \in Groups |-> IF g \in OptInTargets THEN page[g] ELSE checked[g]]
      BY <1>3 DEF OptIn
    <3>4. \A g \in Optional(Actionable) : g \in Groups /\ g \in verified /\ g \in OptInTargets
      BY <3>1, <3>2
    <3>5. \A g \in Optional(Actionable) : checked'[g] = "positive"
      BY <3>3, <3>4
    <3> QED
      BY <3>1, <3>2, <3>5
  <2>5. FallbackJustified'
    BY <1>1, <2>1, <2>4 DEF FallbackJustified
  <2>6. ObserverInv'
    BY <1>1 DEF FillInv, ObserverInv, ObserverType, AnsweredOnce, Spent, UndecidedOnlyWhenSpent, observerVars
  <2>7. Counted'
    <3>1. ClickBudget'
      BY <2>1, <2>3, FieldAssumption DEF ClickBudget
    <3>2. ~FirstAttempt'
      BY <2>3 DEF FirstAttempt
    <3> QED
      BY <1>3, <2>1, <2>3, <3>1, <3>2 DEF Counted, Early, Places
  <2>8. Judged'
    BY <1>1, <1>3, <2>1, <2>3, <2>5 DEF FillInv, Judged, FirstAttempt, Early, LandedByEvidence, Recorded
  <2> QED
    BY <2>6, <2>7, <2>8 DEF FillInv
<1> QED
  BY <1>1, <1>2, <1>3

\* The report keeps the invariant.
LEMMA ReportKeeps ==
  ASSUME FillInv, Report
  PROVE  FillInv'
<1>1. /\ pc = "report" /\ pc' = "done" /\ result'.submission = SubmissionOutcome(attempt)
      /\ UNCHANGED <<attempt, tries, observerVars>>
  BY DEF Report, Finish
<1>2. ObserverInv'
  BY <1>1 DEF FillInv, ObserverInv, ObserverType, AnsweredOnce, Spent, UndecidedOnlyWhenSpent, observerVars
<1>3. Counted'
  BY <1>1 DEF FillInv, Counted, Early, Places, FirstAttempt, ClickBudget
<1>4. SubmissionOutcome(attempt)' = SubmissionOutcome(attempt)
  BY <1>1 DEF SubmissionOutcome
<1>5. Judged'
  BY <1>1, <1>4 DEF FillInv, Judged, Early, FirstAttempt, FallbackJustified, Recorded
<1> QED
  BY <1>2, <1>3, <1>5 DEF FillInv

\* The steps after a click keep the invariant.
LEMMA AfterClickSteps ==
  ASSUME FillInv,
         \/ StopRetrying \/ RecoverConsents \/ CorrectAndResubmit
         \/ RereadOptionalConsents \/ SkipFallback \/ DecideFallback \/ Report
  PROVE  FillInv'
<1>1. CASE StopRetrying
  BY <1>1, AfterClickKeeps DEF StopRetrying
<1>2. CASE RecoverConsents
  <2>1. /\ pc = "judge" /\ MayRetry /\ UNCHANGED <<attempt, observerVars>>
        /\ \/ tries' = [Corrected("fallback") EXCEPT !.recovered = TRUE] /\ pc' = "submit"
           \/ tries' = [tries EXCEPT !.recovered = TRUE] /\ pc' \in {"fallback", "correct"}
    BY <1>2 DEF RecoverConsents
  <2> QED
    BY <2>1, ResubmitKeeps, AfterClickKeeps
<1>3. CASE CorrectAndResubmit
  BY <1>3, ResubmitKeeps DEF CorrectAndResubmit
<1>4. CASE RereadOptionalConsents
  <2>1. pc = "fallback" /\ pc' \in {"eligible", "fallback"} /\ UNCHANGED <<attempt, tries, observerVars>>
    BY <1>4 DEF RereadOptionalConsents
  <2> QED
    BY <2>1, AfterClickKeeps
<1>5. CASE SkipFallback
  BY <1>5, AfterClickKeeps DEF SkipFallback
<1>6. CASE DecideFallback
  BY <1>6, DecideFallbackKeeps
<1>7. CASE Report
  BY <1>7, ReportKeeps
<1> QED
  BY <1>1, <1>2, <1>3, <1>4, <1>5, <1>6, <1>7

\* What the page does on its own is not read between the opt-in and its click.
LEMMA PageKeeps ==
  ASSUME FillInv, UNCHANGED <<pc, tries, attempt, result, observerVars>>,
         UNCHANGED <<reach, checked>> \/ pc # "submit"
  PROVE  FillInv'
<1>1. ObserverInv' /\ UNCHANGED <<watch, obs, reqs>>
  BY DEF FillInv, ObserverInv, ObserverType, AnsweredOnce, Spent, UndecidedOnlyWhenSpent, observerVars
<1>2. Counted'
  BY DEF FillInv, Counted, FirstAttempt, ClickBudget
<1>3. FallbackJustified'
  BY DEF FillInv, Judged, FallbackJustified, Optional, Actionable
<1>4. LandedByEvidence' = LandedByEvidence /\ SeenOnRecord' = SeenOnRecord /\ Recorded' = Recorded
  BY <1>1 DEF LandedByEvidence, SeenOnRecord, Recorded
<1>5. SubmissionOutcome(attempt)' = SubmissionOutcome(attempt)
  BY DEF SubmissionOutcome
<1>6. Judged'
  BY <1>1, <1>3, <1>4, <1>5 DEF FillInv, Judged, FirstAttempt
<1> QED
  BY <1>1, <1>2, <1>6 DEF FillInv

\* Every step keeps the invariant.
LEMMA StepsKeep ==
  ASSUME FillInv, [Next]_vars
  PROVE  FillInv'
<1>1. CASE Step
  BY <1>1, BeforeSubmitSteps, ClickSubmitKeeps, CollectKeeps, AfterClickSteps DEF Step
<1>2. CASE Observe
  BY <1>2, ObserveKeeps
<1>3. CASE Traffic
  BY <1>3, TrafficKeeps
<1>4. ASSUME NEW f, PageMovesField(f)
      PROVE  FillInv'
  BY <1>4, PageKeeps DEF PageMovesField, consentVars
<1>5. ASSUME NEW g, PageMovesConsent(g)
      PROVE  FillInv'
  BY <1>5, PageKeeps DEF PageMovesConsent, GroupsRead, fillVars
<1>6. CASE UNCHANGED vars
  BY <1>6, PageKeeps DEF vars, fillVars, consentVars
<1> QED
  BY <1>1, <1>2, <1>3, <1>4, <1>5, <1>6 DEF Next, Page, Done

\* The inductive invariant of fill_form.
THEOREM Invariance == Spec => []FillInv
<1> QED
  BY InitHolds, StepsKeep, PTL DEF Spec

-----------------------------------------------------------------------------
(* What follows from it.                                                   *)

\* An observation that ends undecided was kept for its whole window, never past
\* the hard cap, and given up before it only with nothing in progress
\* (submissionObserver.ts:479-503), whatever the lengths of the windows.
THEOREM ObservationsAreSpent == Spec => []UndecidedOnlyWhenSpent
<1>1. FillInv => UndecidedOnlyWhenSpent
  BY DEF FillInv, ObserverInv, Spent
<1> QED
  BY <1>1, Invariance, PTL

\* Submit is clicked at most as often as allowed, and again after a correction
\* or the opt-in, never both (submitAttemptPlan.ts:6, fillForm.ts:2163-2311).
THEOREM ClicksAreBudgeted == Spec => []ClickBudget
<1>1. FillInv => ClickBudget
  BY DEF FillInv, Counted
<1> QED
  BY <1>1, Invariance, PTL

\* The opt-in Submit follows an attempt watched to the hard cap that left no
\* trace, with every optional group in reach answered (submitAttemptPlan.ts:80-133).
THEOREM OptInIsJustified == Spec => []FallbackJustified
<1>1. FillInv => FallbackJustified
  BY DEF FillInv, Judged
<1> QED
  BY <1>1, Invariance, PTL

\* The outcome reported for a failed fill_form contradicts neither the observer
\* nor the capture (fillForm.ts:2416-2432), whatever is sent and answered between them.
THEOREM OutcomeAgrees == Spec => []OutcomeAgreesWithEvidence
<1>1. ASSUME FillInv, pc = "done", attempt.clicked, ~attempt.succeeded
      PROVE  /\ result.submission = "cancelled_before_request" =>
                  ~attempt.seen.detected /\ attempt.answer = "no_request"
             /\ OnlyWrites /\ result.submission = "unconfirmed" =>
                  ResponseState(attempt.seen.business.status) = "none"
             /\ attempt.seen.terminal \notin {"unknown_outcome", "succeeded"} =>
                  result.submission \in {"validation_failed", "server_rejected", "server_error",
                                         "blocked_or_rate_limited"}
  <2>1. Recorded /\ result.submission = SubmissionOutcome(attempt) /\ attempt.answer \in Answers
    BY <1>1 DEF FillInv, Judged, Early, AttemptType
  <2>2. result.submission = "cancelled_before_request" => attempt.answer = "no_request"
    BY <1>1, <2>1 DEF SubmissionOutcome
  <2>3. result.submission = "unconfirmed" => attempt.answer \notin Refusals
    BY <1>1, <2>1 DEF SubmissionOutcome, Refusals
  <2>4. attempt.seen.terminal \notin {"unknown_outcome", "succeeded"} =>
          result.submission \in {"validation_failed", "server_rejected", "server_error",
                                 "blocked_or_rate_limited"}
    BY <1>1, <2>1 DEF SubmissionOutcome, Recorded, Terminals
  <2> QED
    BY <2>1, <2>2, <2>3, <2>4 DEF Recorded
<1>2. FillInv => OutcomeAgreesWithEvidence
  BY <1>1 DEF OutcomeAgreesWithEvidence, OnlyWrites
<1> QED
  BY <1>2, Invariance, PTL

\* Submit is never clicked again over a lead request the site accepted or still
\* owes an answer to (fillForm.ts:2182 and the eligibility of the opt-in).
THEOREM SecondClicksFollowRefusals == Spec => SecondClickAfterRefusal
<1>1. ASSUME FillInv, [Next]_vars, tries.clicks > 0, tries'.clicks > tries.clicks
      PROVE  ~LandedByEvidence
  <2>1. tries \in TriesType /\ tries.clicks \in Nat
    BY <1>1 DEF FillInv, Counted, TriesType
  <2>2. ASSUME UNCHANGED tries
        PROVE  FALSE
    BY <1>1, <2>1, <2>2
  <2>3. ASSUME NEW next, \/ tries' = [tries EXCEPT !.retries = @ + 1]
                         \/ tries' = [tries EXCEPT !.recovered = TRUE]
                         \/ tries' = [tries EXCEPT !.fallback = TRUE, !.next = "report"]
                         \/ tries' = Corrected(next)
                         \/ tries' = [Corrected(next) EXCEPT !.recovered = TRUE]
        PROVE  FALSE
    <3>1. tries'.clicks = tries.clicks
      BY <2>1, <2>3 DEF TriesType, Corrected
    <3> QED
      BY <1>1, <2>1, <3>1
  <2>4. ClickSubmit
    <3>1. CASE Step
      BY <2>2, <2>3, <3>1
      DEF Step, CheckCaptcha, PassLocationGate, SelectForm, FillInitial, PollDependentSelects, AnswerConsents,
          CatchUp, RetryDealer, PassReadinessGate, CollectAttempt, StopRetrying, RecoverConsents,
          CorrectAndResubmit, RereadOptionalConsents, SkipFallback, DecideFallback, Report
    <3>2. CASE Observe \/ Traffic \/ Page \/ Done \/ UNCHANGED vars
      BY <2>2, <3>2 DEF Observe, Traffic, Page, PageMovesField, PageMovesConsent, Done, vars, fillVars
    <3> QED
      BY <1>1, <3>1, <3>2 DEF Next
  <2> QED
    BY <1>1, <2>4 DEF ClickSubmit, FillInv, Judged
<1>2. FillInv /\ [Next]_vars =>
        [tries.clicks > 0 /\ tries'.clicks > tries.clicks => ~LandedByEvidence]_vars
  BY <1>1
<1> QED
  BY <1>2, Invariance, PTL DEF Spec, SecondClickAfterRefusal

-----------------------------------------------------------------------------
(* Consent.                                                                *)

Given(c) ==
  /\ Purpose[c[1]] = "optional_commercial" /\ c[2] = "positive" => c[3] = "opt_in" /\ FallbackFlag
  /\ Purpose[c[1]] = "required_processing" => c[3] = "resolution" /\ c[1] \in MarkedRequired
  /\ Purpose[c[1]] = "ambiguous" => FALSE

\* What the scan plans for a group it may answer.
LEMMA PlansAreGuarded ==
  ASSUME NEW g \in Groups, NEW state
  PROVE  /\ Plan(g, state) = "policy" => Given(<<g, "unknown", "resolution">>)
         /\ Plan(g, state) \in {"negative", "positive"} => Given(<<g, Plan(g, state), "resolution">>)
<1>1. Purpose[g] \in Purposes
  BY GroupAssumption
<1>2. CASE Purpose[g] = "optional_commercial"
  BY <1>2 DEF Plan, Given
<1>3. CASE Purpose[g] = "required_processing"
  BY <1>3 DEF Plan, Given
<1>4. CASE Purpose[g] = "policy_choice"
  BY <1>4 DEF Plan, Given
<1>5. CASE Purpose[g] = "ambiguous"
  <2>1. Plan(g, state) \in {"done", "leave"}
    BY <1>5 DEF Plan
  <2> QED
    BY <2>1
<1> QED
  BY <1>1, <1>2, <1>3, <1>4, <1>5 DEF Purposes

\* Every step keeps optional consent guarded.
LEMMA ConsentStepsGuarded ==
  ASSUME OptionalConsentGuarded, [Next]_vars
  PROVE  OptionalConsentGuarded'
<1>1. OptionalConsentGuarded <=> \A c \in chosen : Given(c)
  BY DEF OptionalConsentGuarded, Given
<1>2. SUFFICES \A c \in chosen' : Given(c)
  BY DEF OptionalConsentGuarded, Given
<1>3. ASSUME UNCHANGED chosen
      PROVE  \A c \in chosen' : Given(c)
  BY <1>1, <1>3
<1>4. ASSUME NEW g \in Groups, NEW verified \in BOOLEAN, ResolveGroup(g, verified)
      PROVE  \A c \in chosen' : Given(c)
  <2>1. \/ UNCHANGED chosen
        \/ Plan(g, scan.view[g]) = "policy" /\ chosen' = chosen \cup {<<g, "unknown", "resolution">>}
        \/ /\ Plan(g, scan.view[g]) \in {"negative", "positive"}
           /\ chosen' = chosen \cup {<<g, Plan(g, scan.view[g]), "resolution">>}
    BY <1>4 DEF ResolveGroup, Activate
  <2>2. ASSUME NEW answer, Given(<<g, answer, "resolution">>),
               chosen' = chosen \cup {<<g, answer, "resolution">>}
        PROVE  \A c \in chosen' : Given(c)
    BY <1>1, <2>2
  <2>3. /\ Plan(g, scan.view[g]) = "policy" => Given(<<g, "unknown", "resolution">>)
        /\ Plan(g, scan.view[g]) \in {"negative", "positive"} => Given(<<g, Plan(g, scan.view[g]), "resolution">>)
    BY PlansAreGuarded
  <2> QED
    BY <1>3, <2>1, <2>2, <2>3
<1>5. ASSUME NEW rejected, NEW verified, RecoverGroups(rejected, verified)
      PROVE  \A c \in chosen' : Given(c)
  <2>1. \A g \in Declinable(rejected) : Given(<<g, "negative", "recovery">>)
    BY DEF Declinable, Optional, Given
  <2>2. chosen' = chosen \cup {<<g, "negative", "recovery">> :
                                 g \in {h \in Declinable(rejected) : "negative" \in Recognised[h]}}
    BY <1>5 DEF RecoverGroups
  <2> QED
    BY <1>1, <2>1, <2>2
<1>6. ASSUME FallbackFlag, NEW verified, OptIn(verified)
      PROVE  \A c \in chosen' : Given(c)
  <2>1. \A g \in OptInTargets : Given(<<g, "positive", "opt_in">>)
    BY <1>6 DEF OptInTargets, Optional, Given
  <2>2. chosen' = chosen \cup {<<g, "positive", "opt_in">> : g \in OptInTargets}
    BY <1>6 DEF OptIn
  <2> QED
    BY <1>1, <2>1, <2>2
<1>7. CASE AnswerConsents
  BY <1>3, <1>4, <1>7 DEF AnswerConsents, ConsentStep, Discover, EndPass, EndScan
<1>8. CASE RecoverConsents
  BY <1>5, <1>8 DEF RecoverConsents
<1>9. CASE DecideFallback
  <2>1. \/ UNCHANGED chosen
        \/ FallbackFlag /\ \E verified \in SUBSET Groups : OptIn(verified)
    BY <1>9 DEF DecideFallback, Eligible, consentVars
  <2> QED
    BY <1>3, <1>6, <2>1
<1>10. CASE \/ CheckCaptcha \/ PassLocationGate \/ SelectForm \/ FillInitial \/ PollDependentSelects
            \/ CatchUp \/ RetryDealer \/ PassReadinessGate \/ ClickSubmit \/ CollectAttempt
            \/ StopRetrying \/ CorrectAndResubmit \/ RereadOptionalConsents \/ SkipFallback \/ Report
  <2>1. UNCHANGED chosen
    BY <1>10
    DEF CheckCaptcha, PassLocationGate, SelectForm, FillInitial, PollDependentSelects, StartScan,
        CatchUp, RetryDealer, PassReadinessGate, ClickSubmit, CollectAttempt, StopRetrying,
        CorrectAndResubmit, RereadOptionalConsents, Rediscover, SkipFallback, Report, consentVars
  <2> QED
    BY <1>3, <2>1
<1>11. CASE Observe \/ Traffic \/ Page \/ Done \/ UNCHANGED vars
  BY <1>3, <1>11
  DEF Observe, Traffic, Page, PageMovesField, PageMovesConsent, PageMovesGroup, Done, vars, fillVars, consentVars
<1> QED
  BY <1>7, <1>8, <1>9, <1>10, <1>11 DEF Next, Step

\* Optional commercial consent is given by the test-only opt-in alone, and a
\* processing consent only where the form requires it
\* (consentGroups.ts:954-987, 1121-1150 and 1199-1264).
THEOREM ConsentIsGuarded == Spec => []OptionalConsentGuarded
<1>1. Init => OptionalConsentGuarded
  BY DEF Init, ConsentInit, OptionalConsentGuarded
<1> QED
  BY <1>1, ConsentStepsGuarded, PTL DEF Spec
=============================================================================
