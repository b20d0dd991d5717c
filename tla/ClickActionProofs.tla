------------------------- MODULE ClickActionProofs -------------------------
(***************************************************************************)
(* Proofs about the click and its popups: whose capture listeners are on,  *)
(* what the marks of a click's evidence window bound, and that resource    *)
(* routing loses no request.                                               *)
(***************************************************************************)
EXTENDS ClickAction, FiniteSums

-----------------------------------------------------------------------------
(* Resource routing.  A handle is typed, and what it has counted of a fate *)
(* is what the diagnostics report of it.                                   *)

StateType == [role : Roles, duplicate : BOOLEAN, closes : BOOLEAN, tally : [Fates -> Nat]]
ReportType == [page : Pages, role : Roles, tally : [Fates -> Nat]]
LiveTables == UNION {[D -> StateType] : D \in SUBSET Pages}
RoutingType ==
  [phase : {"off", "on", "detaching"}, live : LiveTables, reports : Seq(ReportType), loose : [Fates -> Nat]]

LiveTallies(r, fate) == [p \in DOMAIN r.live |-> r.live[p].tally[fate]]
ReportTallies(r, fate) == [i \in DOMAIN r.reports |-> r.reports[i].tally[fate]]
Total(r, fate) == r.loose[fate] + SumFunction(LiveTallies(r, fate)) + SumFunction(ReportTallies(r, fate))

\* The pages of a live table are finitely many, and their tallies numbers.
LEMMA LiveTable ==
  ASSUME NEW r, r \in RoutingType, NEW fate, fate \in Fates
  PROVE  /\ r.live \in [DOMAIN r.live -> StateType] /\ DOMAIN r.live \in SUBSET Pages
         /\ IsFiniteSet(DOMAIN r.live)
         /\ LiveTallies(r, fate) \in [DOMAIN r.live -> Nat]
         /\ r.loose[fate] \in Nat
<1>1. PICK D \in SUBSET Pages : r.live \in [D -> StateType]
  BY DEF RoutingType, LiveTables
<1>2. IsFiniteSet(Pages)
  BY PageAssumption, FS_AddElement DEF Pages
<1>3. IsFiniteSet(DOMAIN r.live)
  BY <1>1, <1>2, FS_Subset
<1>4. LiveTallies(r, fate) \in [DOMAIN r.live -> Nat]
  BY <1>1 DEF LiveTallies, StateType
<1> QED
  BY <1>1, <1>3, <1>4 DEF RoutingType

\* Reports are a finite sequence whose tallies are naturals.
LEMMA Reports ==
  ASSUME NEW r, r \in RoutingType, NEW fate, fate \in Fates
  PROVE  /\ r.reports \in Seq(ReportType) /\ Len(r.reports) \in Nat
         /\ DOMAIN r.reports = 1..Len(r.reports) /\ IsFiniteSet(DOMAIN r.reports)
         /\ ReportTallies(r, fate) \in [DOMAIN r.reports -> Nat]
<1>1. r.reports \in Seq(ReportType) /\ Len(r.reports) \in Nat /\ DOMAIN r.reports = 1..Len(r.reports)
  BY DEF RoutingType
<1>2. IsFiniteSet(1..Len(r.reports))
  BY <1>1, FS_Interval
<1>3. ReportTallies(r, fate) \in [DOMAIN r.reports -> Nat]
  <2>1. \A i \in DOMAIN r.reports : r.reports[i] \in ReportType
    BY <1>1
  <2>2. \A i \in DOMAIN r.reports : r.reports[i].tally[fate] \in Nat
    BY <2>1 DEF ReportType
  <2> QED
    BY <2>2 DEF ReportTallies
<1> QED
  BY <1>1, <1>2, <1>3

\* The sums over rows and over reports are naturals.
LEMMA SumsAreNaturals ==
  ASSUME NEW r, r \in RoutingType, NEW fate, fate \in Fates
  PROVE  SumFunction(LiveTallies(r, fate)) \in Nat /\ SumFunction(ReportTallies(r, fate)) \in Nat
  BY LiveTable, Reports, SumSplit

\* A table over some pages is a live table.
LEMMA TablesAreLive ==
  ASSUME NEW D, D \in SUBSET Pages, NEW t, t \in [D -> StateType]
  PROVE  t \in LiveTables
  BY DEF LiveTables

\* Replacing the state of a live page changes the total by what the two
\* tallies differ in.
LEMMA StateReplaced ==
  ASSUME NEW r, r \in RoutingType, NEW p, p \in DOMAIN r.live, NEW s, s \in StateType,
         NEW r2, r2 = [r EXCEPT !.live = [r.live EXCEPT ![p] = s]], NEW fate, fate \in Fates
  PROVE  /\ r2 \in RoutingType
         /\ Total(r2, fate) + r.live[p].tally[fate] = Total(r, fate) + s.tally[fate]
<1>1. r.live \in [DOMAIN r.live -> StateType] /\ DOMAIN r.live \in SUBSET Pages
  BY LiveTable
<1>2. [r.live EXCEPT ![p] = s] \in [DOMAIN r.live -> StateType]
  BY <1>1
<1>3. r2 \in RoutingType
  <2>1. [r.live EXCEPT ![p] = s] \in LiveTables
    BY <1>1, <1>2, TablesAreLive
  <2> QED
    BY <2>1 DEF RoutingType
<1>4. LiveTallies(r2, fate) = [LiveTallies(r, fate) EXCEPT ![p] = s.tally[fate]]
  BY <1>1, <1>2 DEF LiveTallies, RoutingType
<1>5. r2.loose = r.loose /\ ReportTallies(r2, fate) = ReportTallies(r, fate)
  BY DEF ReportTallies, RoutingType
<1>6. s.tally[fate] \in Nat /\ LiveTallies(r, fate)[p] = r.live[p].tally[fate]
  BY DEF StateType, LiveTallies
<1>7. SumFunction(LiveTallies(r2, fate)) + LiveTallies(r, fate)[p]
        = SumFunction(LiveTallies(r, fate)) + s.tally[fate]
  BY <1>4, <1>6, LiveTable, SumChanged
<1>8. /\ r.loose[fate] \in Nat /\ r.live[p].tally[fate] \in Nat
      /\ SumFunction(LiveTallies(r, fate)) \in Nat /\ SumFunction(ReportTallies(r, fate)) \in Nat
      /\ SumFunction(LiveTallies(r2, fate)) \in Nat
  BY <1>1, <1>3, LiveTable, SumsAreNaturals DEF StateType
<1>9. Total(r2, fate) + r.live[p].tally[fate] = Total(r, fate) + s.tally[fate]
  BY <1>5, <1>6, <1>7, <1>8 DEF Total
<1> QED
  BY <1>3, <1>9

\* An unknown page is registered with nothing counted; a known one is noted.
LEMMA Registered ==
  ASSUME NEW r, r \in RoutingType, NEW p, p \in Pages, NEW role, role \in Roles,
         NEW closes, closes \in BOOLEAN, NEW fate, fate \in Fates
  PROVE  /\ registerPage(r, p, role, closes) \in RoutingType
         /\ p \in DOMAIN registerPage(r, p, role, closes).live
         /\ registerPage(r, p, role, closes).phase = r.phase
         /\ Total(registerPage(r, p, role, closes), fate) = Total(r, fate)
<1> DEFINE r2 == registerPage(r, p, role, closes)
<1>0. r.live \in [DOMAIN r.live -> StateType] /\ DOMAIN r.live \in SUBSET Pages /\ IsFiniteSet(DOMAIN r.live)
  BY LiveTable
<1>1. CASE p \in DOMAIN r.live
  <2> DEFINE s == [r.live[p] EXCEPT !.duplicate = TRUE]
  <2>1. s \in StateType /\ s.tally = r.live[p].tally
    BY <1>0, <1>1 DEF StateType
  <2>2. r2 = [r EXCEPT !.live = [r.live EXCEPT ![p] = s]]
    BY <1>1 DEF registerPage
  <2>3. r.live[p].tally[fate] \in Nat
    BY <1>0, <1>1 DEF StateType
  <2>4. r2.phase = r.phase /\ DOMAIN r2.live = DOMAIN r.live
    BY <2>2 DEF RoutingType
  <2> HIDE DEF s, r2
  <2>5. r2 \in RoutingType /\ Total(r2, fate) + r.live[p].tally[fate] = Total(r, fate) + s.tally[fate]
    BY <1>1, <2>1, <2>2, StateReplaced
  <2>6. Total(r, fate) \in Nat /\ Total(r2, fate) \in Nat
    BY <2>5, LiveTable, SumsAreNaturals DEF Total
  <2>7. Total(r2, fate) = Total(r, fate)
    BY <2>1, <2>3, <2>5, <2>6
  <2> QED
    BY <1>1, <2>4, <2>5, <2>7 DEF r2
<1>2. CASE p \notin DOMAIN r.live
  <2> DEFINE D == DOMAIN r.live
             new == [NewState(role) EXCEPT !.closes = closes]
             t == [q \in D \cup {p} |-> IF q = p THEN new ELSE r.live[q]]
  <2>1. new \in StateType /\ new.tally[fate] = 0
    BY DEF NewState, StateType, EmptyTally
  <2>2. r2 = [r EXCEPT !.live = t]
    BY <1>2 DEF registerPage
  <2>3. t \in [D \cup {p} -> StateType] /\ t[p] = new /\ \A q \in D : t[q] = r.live[q]
    BY <1>0, <1>2, <2>1
  <2> HIDE DEF new, t, r2
  <2>4. t \in LiveTables
    BY <1>0, <2>3, TablesAreLive
  <2>5. r2 \in RoutingType /\ r2.live = t /\ r2.phase = r.phase /\ r2.loose = r.loose /\ r2.reports = r.reports
    BY <2>2, <2>4 DEF RoutingType
  <2> DEFINE g == LiveTallies(r2, fate)
  <2>6. g \in [D \cup {p} -> Nat] /\ g[p] = 0 /\ [q \in D |-> g[q]] = LiveTallies(r, fate)
    <3>1. g \in [D \cup {p} -> Nat]
      BY <2>3, <2>5, LiveTable
    <3>2. g[p] = 0 /\ \A q \in D : g[q] = r.live[q].tally[fate]
      BY <2>1, <2>3, <2>5 DEF LiveTallies
    <3> QED
      BY <3>1, <3>2 DEF LiveTallies
  <2> HIDE DEF g, D
  <2>7. SumFunction(g) = g[p] + SumFunction([q \in D |-> g[q]])
    <3>1. IsFiniteSet(D) /\ p \notin D
      BY <1>0, <1>2 DEF D
    <3> QED
      BY ONLY <2>6, <3>1, SumExtended
  <2>8. SumFunction(g) = SumFunction(LiveTallies(r, fate))
    BY <2>6, <2>7, SumsAreNaturals
  <2>9. Total(r2, fate) = Total(r, fate)
    BY <2>5, <2>8 DEF Total, g, ReportTallies
  <2> QED
    BY <2>3, <2>5, <2>9 DEF r2, D
<1> QED
  BY <1>1, <1>2

\* Registering a page keeps the totals.
LEMMA RegisteredOpen ==
  ASSUME NEW r, r \in RoutingType, NEW p, p \in Pages, NEW role, role \in Roles, NEW fate, fate \in Fates
  PROVE  /\ registerPage(r, p, role, TRUE) \in RoutingType
         /\ Total(registerPage(r, p, role, TRUE), fate) = Total(r, fate)
<1> DEFINE closes == TRUE
<1>1. closes \in BOOLEAN
  OBVIOUS
<1> HIDE DEF closes
<1>2. /\ registerPage(r, p, role, closes) \in RoutingType
      /\ Total(registerPage(r, p, role, closes), fate) = Total(r, fate)
  BY <1>1, Registered
<1> QED
  BY <1>2 DEF closes

\* A closed page's tally moves from the live table to the reports.
LEMMA ReleasedIsReported ==
  ASSUME NEW r, r \in RoutingType, NEW p, p \in DOMAIN r.live, NEW fate, fate \in Fates
  PROVE  Released(r, p) \in RoutingType /\ Total(Released(r, p), fate) = Total(r, fate)
<1> DEFINE r2 == Released(r, p)
           D == DOMAIN r.live
           t == [q \in D \ {p} |-> r.live[q]]
           n == Len(r.reports)
           one == Report(r, p)
<1>0. r.live \in [D -> StateType] /\ D \in SUBSET Pages /\ IsFiniteSet(D)
  BY LiveTable
<1>1. t \in [D \ {p} -> StateType] /\ D \ {p} \in SUBSET Pages
  BY <1>0
<1>2. one \in ReportType /\ one.tally = r.live[p].tally
  <2>1. r.live[p] \in StateType /\ p \in Pages
    BY <1>0
  <2> QED
    BY <2>1 DEF Report, ReportType, StateType
<1>3. r2.live = t /\ r2.reports = Append(r.reports, one) /\ r2.loose = r.loose
  BY DEF Released, RoutingType
<1>4. r2 \in RoutingType
  <2>1. t \in LiveTables
    <3> HIDE DEF t
    <3> QED
      BY <1>1, TablesAreLive
  <2>2. Append(r.reports, one) \in Seq(ReportType)
    BY <1>2, Reports
  <2> HIDE DEF t, one
  <2>3. r2 = [r EXCEPT !.reports = Append(r.reports, one), !.live = t]
    BY DEF Released, t, one
  <2> QED
    BY <2>1, <2>2, <2>3 DEF RoutingType
<1> DEFINE f == LiveTallies(r, fate)
           g == ReportTallies(r2, fate)
<1>5. f \in [D -> Nat] /\ LiveTallies(r2, fate) = [q \in D \ {p} |-> f[q]]
  BY <1>3, LiveTable DEF LiveTallies
<1>6. /\ n \in Nat /\ g \in [1..(n + 1) -> Nat] /\ g[n + 1] = f[p]
      /\ [i \in 1..n |-> g[i]] = ReportTallies(r, fate)
  <2>1. n \in Nat /\ DOMAIN r.reports = 1..n /\ r.reports \in Seq(ReportType)
    BY Reports
  <2>2. /\ DOMAIN r2.reports = 1..(n + 1) /\ r2.reports[n + 1] = one
        /\ \A i \in 1..n : r2.reports[i] = r.reports[i]
    BY <1>2, <1>3, <2>1
  <2>3. g \in [DOMAIN r2.reports -> Nat]
    BY <1>4, Reports
  <2>4. g[n + 1] = one.tally[fate] /\ \A i \in 1..n : g[i] = r.reports[i].tally[fate]
    BY <2>1, <2>2 DEF ReportTallies
  <2>5. f[p] = one.tally[fate]
    BY <1>2 DEF LiveTallies
  <2> QED
    BY <2>1, <2>2, <2>3, <2>4, <2>5 DEF ReportTallies
<1> HIDE DEF f, g, n, D, r2
<1>7. SumFunction(f) = f[p] + SumFunction([q \in D \ {p} |-> f[q]])
  <2>1. p \in D
    BY DEF D
  <2> QED
    BY ONLY <1>0, <1>5, <2>1, SumTaken
<1>8. SumFunction(g) = g[n + 1] + SumFunction([i \in 1..n |-> g[i]])
  <2> DEFINE C == 1..(n + 1)
             x == n + 1
  <2>1. x \in C /\ C \ {x} = 1..n /\ g \in [C -> Nat]
    BY <1>6
  <2>2. IsFiniteSet(C)
    BY <1>6, FS_Interval
  <2> HIDE DEF C, x
  <2>3. SumFunction(g) = g[x] + SumFunction([i \in C \ {x} |-> g[i]])
    BY ONLY <2>1, <2>2, SumTaken
  <2> QED
    BY <2>1, <2>3 DEF x
<1>9. /\ SumFunction(LiveTallies(r2, fate)) \in Nat /\ SumFunction(ReportTallies(r, fate)) \in Nat
      /\ f[p] \in Nat /\ r.loose[fate] \in Nat
  BY <1>4, <1>5, SumsAreNaturals, LiveTable DEF D
<1>10. Total(r2, fate) = Total(r, fate)
  <2>1. SumFunction(f) = f[p] + SumFunction(LiveTallies(r2, fate))
    BY <1>5, <1>7
  <2>2. SumFunction(g) = f[p] + SumFunction(ReportTallies(r, fate))
    BY <1>6, <1>8
  <2>3. Total(r2, fate) = r.loose[fate] + SumFunction(LiveTallies(r2, fate)) + SumFunction(g)
    BY <1>3 DEF Total, g
  <2>4. Total(r, fate) = r.loose[fate] + SumFunction(f) + SumFunction(ReportTallies(r, fate))
    BY DEF Total, f
  <2> QED
    BY <1>9, <2>1, <2>2, <2>3, <2>4
<1> QED
  BY <1>4, <1>10 DEF r2

\* The page closes, its role is described, a request is counted for it or for
\* no page.
LEMMA ClosedKeepsTotal ==
  ASSUME NEW r, r \in RoutingType, NEW p, NEW fate, fate \in Fates
  PROVE  onClose(r, p) \in RoutingType /\ Total(onClose(r, p), fate) = Total(r, fate)
<1>1. CASE p \in DOMAIN r.live /\ r.live[p].closes
  BY <1>1, ReleasedIsReported DEF onClose
<1>2. CASE ~(p \in DOMAIN r.live /\ r.live[p].closes)
  BY <1>2 DEF onClose
<1> QED
  BY <1>1, <1>2

\* Describing a page keeps the totals.
LEMMA DescribedKeepsTotal ==
  ASSUME NEW r, r \in RoutingType, NEW p, NEW role, role \in Roles, NEW fate, fate \in Fates
  PROVE  describePage(r, p, role) \in RoutingType /\ Total(describePage(r, p, role), fate) = Total(r, fate)
<1>1. CASE p \in DOMAIN r.live
  <2> DEFINE s == [r.live[p] EXCEPT !.role = role]
             r2 == describePage(r, p, role)
  <2>1. r.live[p] \in StateType
    BY <1>1, LiveTable
  <2>2. s \in StateType /\ s.tally = r.live[p].tally /\ s.tally[fate] \in Nat
    BY <2>1 DEF StateType
  <2>3. r2 = [r EXCEPT !.live = [r.live EXCEPT ![p] = s]]
    BY <1>1 DEF describePage
  <2> HIDE DEF s, r2
  <2>4. r2 \in RoutingType /\ Total(r2, fate) + r.live[p].tally[fate] = Total(r, fate) + s.tally[fate]
    BY <1>1, <2>2, <2>3, StateReplaced
  <2>5. Total(r, fate) \in Nat /\ Total(r2, fate) \in Nat
    BY <2>4, LiveTable, SumsAreNaturals DEF Total
  <2>6. Total(r2, fate) = Total(r, fate)
    BY <2>2, <2>4, <2>5
  <2> QED
    BY <2>4, <2>6 DEF r2
<1>2. CASE p \notin DOMAIN r.live
  BY <1>2 DEF describePage
<1> QED
  BY <1>1, <1>2

\* A request counted for a page adds one to the total of its fate.
LEMMA CountedForPage ==
  ASSUME NEW r, r \in RoutingType, NEW p, p \in DOMAIN r.live, NEW counted, counted \in Fates,
         NEW fate, fate \in Fates
  PROVE  /\ [r EXCEPT !.live[p].tally[counted] = @ + 1] \in RoutingType
         /\ Total([r EXCEPT !.live[p].tally[counted] = @ + 1], fate)
              = Total(r, fate) + (IF fate = counted THEN 1 ELSE 0)
<1> DEFINE tally == [r.live[p].tally EXCEPT ![counted] = r.live[p].tally[counted] + 1]
           s == [r.live[p] EXCEPT !.tally = tally]
           r2 == [r EXCEPT !.live[p].tally[counted] = @ + 1]
<1>1. r.live[p] \in StateType
  BY LiveTable
<1>2. r.live[p].tally \in [Fates -> Nat] /\ r.live[p].tally[fate] \in Nat
  BY <1>1 DEF StateType
<1>3. /\ tally \in [Fates -> Nat]
      /\ tally[fate] = r.live[p].tally[fate] + (IF fate = counted THEN 1 ELSE 0)
  BY <1>2
<1> HIDE DEF tally
<1>4. s \in StateType /\ s.tally = tally
  BY <1>1, <1>3 DEF StateType
<1>5. r2 = [r EXCEPT !.live = [r.live EXCEPT ![p] = s]]
  BY DEF tally
<1> HIDE DEF s, r2
<1>6. r2 \in RoutingType /\ Total(r2, fate) + r.live[p].tally[fate] = Total(r, fate) + s.tally[fate]
  BY <1>4, <1>5, StateReplaced
<1>7. Total(r, fate) \in Nat /\ Total(r2, fate) \in Nat
  BY <1>6, LiveTable, SumsAreNaturals DEF Total
<1>8. Total(r2, fate) = Total(r, fate) + (IF fate = counted THEN 1 ELSE 0)
  BY <1>2, <1>3, <1>4, <1>6, <1>7
<1> QED
  BY <1>6, <1>8 DEF r2

\* A request counted for no page adds one to the total of its fate.
LEMMA CountedLoosely ==
  ASSUME NEW r, r \in RoutingType, NEW counted, counted \in Fates, NEW fate, fate \in Fates
  PROVE  /\ [r EXCEPT !.loose[counted] = @ + 1] \in RoutingType
         /\ Total([r EXCEPT !.loose[counted] = @ + 1], fate) = Total(r, fate) + (IF fate = counted THEN 1 ELSE 0)
<1> DEFINE loose == [r.loose EXCEPT ![counted] = r.loose[counted] + 1]
           r2 == [r EXCEPT !.loose[counted] = @ + 1]
<1>1. r.loose \in [Fates -> Nat] /\ r.loose[fate] \in Nat
  BY DEF RoutingType
<1>2. loose \in [Fates -> Nat] /\ loose[fate] = r.loose[fate] + (IF fate = counted THEN 1 ELSE 0)
  BY <1>1
<1>3. r2 = [r EXCEPT !.loose = loose]
  OBVIOUS
<1> HIDE DEF loose, r2
<1>4. r2 \in RoutingType /\ r2.loose = loose /\ r2.live = r.live /\ r2.reports = r.reports
  BY <1>2, <1>3 DEF RoutingType
<1>5. LiveTallies(r2, fate) = LiveTallies(r, fate) /\ ReportTallies(r2, fate) = ReportTallies(r, fate)
  BY <1>4 DEF LiveTallies, ReportTallies
<1>6. Total(r2, fate) = Total(r, fate) + (IF fate = counted THEN 1 ELSE 0)
  BY <1>1, <1>2, <1>4, <1>5, SumsAreNaturals DEF Total
<1> QED
  BY <1>4, <1>6 DEF r2

\* Detaching reports every page that is still live, each once.
Order(D) == CHOOSE s \in [1..Cardinality(D) -> D] : \A i, j \in DOMAIN s : i # j => s[i] # s[j]

\* The order of a set of pages lists each of them once.
LEMMA OrderListsEachOnce ==
  ASSUME NEW D, IsFiniteSet(D)
  PROVE  /\ Cardinality(D) \in Nat /\ Order(D) \in [1..Cardinality(D) -> D]
         /\ \A i, j \in 1..Cardinality(D) : Order(D)[i] = Order(D)[j] => i = j
         /\ \A x \in D : \E i \in 1..Cardinality(D) : Order(D)[i] = x
<1> DEFINE k == Cardinality(D)
           distinct(s) == \A i, j \in DOMAIN s : i # j => s[i] # s[j]
<1>1. k \in Nat /\ ExistsBijection(1..k, D)
  BY FS_CardinalityType
<1>2. PICK b : b \in Bijection(1..k, D)
  BY <1>1 DEF ExistsBijection
<1>3. b \in [1..k -> D] /\ distinct(b)
  BY <1>2 DEF Bijection, Injection, IsInjective
<1>4. Order(D) \in [1..k -> D] /\ distinct(Order(D))
  BY <1>3, Zenon DEF Order
<1> HIDE DEF k
<1>5. Order(D) \in Injection(1..k, D)
  BY <1>4 DEF Injection, IsInjective
<1>6. IsFiniteSet(1..k) /\ Cardinality(1..k) = k
  BY <1>1, FS_Interval
<1>7. Order(D) \in Surjection(1..k, D)
  BY <1>5, <1>6, FS_Injection DEF k
<1> QED
  BY <1>1, <1>4, <1>7 DEF Surjection, k

\* The end of a detachment, which reports every row, keeps the totals.
LEMMA DetachedKeepsTotal ==
  ASSUME NEW r, r \in RoutingType, NEW fate, fate \in Fates
  PROVE  DetachEnds(r) \in RoutingType /\ Total(DetachEnds(r), fate) = Total(r, fate)
<1> DEFINE D == DOMAIN r.live
           order == Order(D)
           k == Cardinality(D)
           n == Len(r.reports)
           more == [i \in 1..k |-> Report(r, order[i])]
           all == r.reports \o more
           r2 == DetachEnds(r)
<1>0. r.live \in [D -> StateType] /\ D \in SUBSET Pages /\ IsFiniteSet(D)
  BY LiveTable
<1>1. /\ k \in Nat /\ order \in [1..k -> D]
      /\ \A i, j \in 1..k : order[i] = order[j] => i = j
      /\ \A x \in D : \E i \in 1..k : order[i] = x
  BY <1>0, OrderListsEachOnce
<1>2. r2 = [r EXCEPT !.phase = "off", !.reports = all, !.live = <<>>]
  <2>1. ReportAll(r) = r.reports \o [i \in DOMAIN order |-> Report(r, order[i])]
    BY Zenon DEF ReportAll, Order
  <2>2. DOMAIN order = 1..k
    BY <1>1
  <2> HIDE DEF order, k
  <2>3. ReportAll(r) = all
    BY <2>1, <2>2
  <2> QED
    BY <2>3 DEF DetachEnds
<1> HIDE DEF order
<1>3. \A i \in 1..k : /\ Report(r, order[i]) \in ReportType
                      /\ Report(r, order[i]).tally = r.live[order[i]].tally
  <2> SUFFICES ASSUME NEW i \in 1..k
               PROVE  /\ Report(r, order[i]) \in ReportType
                      /\ Report(r, order[i]).tally = r.live[order[i]].tally
    OBVIOUS
  <2>1. order[i] \in D /\ order[i] \in Pages /\ r.live[order[i]] \in StateType
    BY <1>0, <1>1
  <2> QED
    BY <2>1 DEF Report, ReportType, StateType
<1>4. /\ r.reports \in Seq(ReportType) /\ n \in Nat /\ DOMAIN r.reports = 1..n
      /\ more \in Seq(ReportType) /\ Len(more) = k
  BY <1>1, <1>3, Reports
<1>5. /\ all \in Seq(ReportType) /\ DOMAIN all = 1..(n + k)
      /\ \A i \in 1..n : all[i] = r.reports[i]
      /\ \A i \in 1..k : all[n + i] = Report(r, order[i])
  <2> HIDE DEF more, k
  <2>1. /\ all \in Seq(ReportType) /\ DOMAIN all = 1..(n + k)
        /\ \A i \in 1..n : all[i] = r.reports[i]
        /\ \A i \in 1..k : all[n + i] = more[i]
    BY <1>1, <1>4
  <2> QED
    BY <2>1 DEF more
<1> HIDE DEF all, more, n
<1>6. /\ r2 \in RoutingType /\ r2.live = <<>> /\ r2.reports = all /\ r2.loose = r.loose
  <2>1. <<>> \in LiveTables
    <3>1. <<>> \in [{} -> StateType] /\ {} \in SUBSET Pages
      OBVIOUS
    <3> QED
      BY <3>1, TablesAreLive
  <2> HIDE DEF r2
  <2> QED
    BY <1>2, <1>5, <2>1 DEF RoutingType
<1> DEFINE f == LiveTallies(r, fate)
           g == ReportTallies(r2, fate)
<1>7. f \in [D -> Nat] /\ \A x \in D : f[x] = r.live[x].tally[fate]
  BY LiveTable DEF LiveTallies
<1>8. /\ g \in [1..(n + k) -> Nat] /\ \A i \in 1..k : g[n + i] = f[order[i]]
      /\ [i \in 1..n |-> g[i]] = ReportTallies(r, fate)
  <2>1. g \in [DOMAIN all -> Nat] /\ \A i \in DOMAIN all : g[i] = all[i].tally[fate]
    BY <1>6, Reports DEF ReportTallies
  <2>2. \A i \in 1..k : n + i \in DOMAIN all
    BY <1>1, <1>4, <1>5
  <2>3. \A i \in 1..k : g[n + i] = f[order[i]]
    <3> SUFFICES ASSUME NEW i \in 1..k
                 PROVE  g[n + i] = f[order[i]]
      OBVIOUS
    <3>1. g[n + i] = all[n + i].tally[fate]
      BY <2>1, <2>2
    <3>2. all[n + i].tally = r.live[order[i]].tally
      BY <1>3, <1>5
    <3>3. f[order[i]] = r.live[order[i]].tally[fate]
      BY <1>1, <1>7
    <3> QED
      BY <3>1, <3>2, <3>3
  <2>4. \A i \in 1..n : g[i] = r.reports[i].tally[fate]
    <3> SUFFICES ASSUME NEW i \in 1..n
                 PROVE  g[i] = r.reports[i].tally[fate]
      OBVIOUS
    <3>1. i \in DOMAIN all
      BY <1>1, <1>4, <1>5
    <3> QED
      BY <1>5, <2>1, <3>1
  <2>5. [i \in 1..n |-> g[i]] = ReportTallies(r, fate)
    BY <1>4, <2>4 DEF ReportTallies
  <2> QED
    BY <1>5, <2>1, <2>3, <2>5
<1> HIDE DEF f, g, D, k, r2
<1>9. SumFunction(g) = SumFunction([i \in 1..n |-> g[i]]) + SumFunction(f)
  <2>1. /\ IsFiniteSet(D) /\ f \in [D -> Nat] /\ n \in Nat /\ k \in Nat
        /\ ListsOnce(order, k, D) /\ HasAfter(g, n, k, order, f)
    BY <1>0, <1>1, <1>4, <1>7, <1>8 DEF ListsOnce, HasAfter
  <2> QED
    BY ONLY <2>1, SumListed
<1>10. SumFunction(LiveTallies(r2, fate)) = 0
  <2>1. LiveTallies(r2, fate) \in [{} -> Nat]
    BY <1>6 DEF LiveTallies
  <2> HIDE DEF LiveTallies
  <2> QED
    BY <2>1, FS_EmptySet, SumSplit
<1>11. Total(r2, fate) = Total(r, fate)
  <2>1. Total(r2, fate) = r.loose[fate] + 0 + SumFunction(g)
    BY <1>6, <1>10 DEF Total, g
  <2>2. SumFunction(g) = SumFunction(ReportTallies(r, fate)) + SumFunction(f)
    BY <1>8, <1>9
  <2>3. Total(r, fate) = r.loose[fate] + SumFunction(f) + SumFunction(ReportTallies(r, fate))
    BY DEF Total, f
  <2>4. r.loose[fate] \in Nat /\ SumFunction(f) \in Nat /\ SumFunction(ReportTallies(r, fate)) \in Nat
    BY LiveTable, SumsAreNaturals DEF f
  <2> QED
    BY <2>1, <2>2, <2>3, <2>4
<1> QED
  BY <1>6, <1>11 DEF r2

\* The beginning of a detachment keeps the totals.
LEMMA DetachingKeepsTotal ==
  ASSUME NEW r, r \in RoutingType, NEW fate, fate \in Fates
  PROVE  DetachBegins(r) \in RoutingType /\ Total(DetachBegins(r), fate) = Total(r, fate)
  BY DEF DetachBegins, RoutingType, Total, LiveTallies, ReportTallies

-----------------------------------------------------------------------------
(* Every request is counted: each step either leaves the handle alone, or  *)
(* moves its tallies about, or counts one request more.                    *)

Accounted ==
  /\ routing \in RoutingType /\ handled \in [Fates -> Nat]
  /\ RequestsAccounted

RoutingMoves ==
  \/ UNCHANGED routing
  \/ \E w \in Popups : routing' = onNewPage(routing, w)
  \/ \E p : routing' = onClose(routing, p)
  \/ \E p : \E role \in Roles : routing' = describePage(routing, p, role)
  \/ routing' = DetachBegins(routing)
  \/ routing' = DetachEnds(routing)
RequestHandled ==
  \E bound : \E p \in Pages \cup {NoPage}, fate \in Fates, isOpen \in BOOLEAN : routeHandler(p, fate, isOpen, bound)

\* A step handles one request, or none and moves rows at most.
LEMMA StepsOfRouting ==
  ASSUME Next \/ UNCHANGED vars
  PROVE  (RoutingMoves /\ UNCHANGED handled) \/ RequestHandled
<1>1. ASSUME Engine
      PROVE  RoutingMoves /\ UNCHANGED handled
  <2>1. CASE StepBegins \/ Presses \/ NotActionable \/ WindowEnds
             \/ \E d \in Deltas, a, c \in BOOLEAN : Records(d, a, c)
    BY <2>1 DEF StepBegins, Presses, NotActionable, WindowEnds, Records, routingVars, RoutingMoves
  <2>2. CASE \/ ClickReturns \/ ClickThrows \/ \E o \in FailureOutcomes : FailureAssessed(o)
             \/ Settles \/ \E ok \in BOOLEAN : Lands(ok)
             \/ PopupDecided \/ \E f \in Fallbacks : resolveUnactionableClick(f)
    BY <2>2 DEF ClickReturns, ClickThrows, FailureAssessed, Settles, Lands, PopupDecided, resolveUnactionableClick,
                engineRest, routingVars, RoutingMoves
  <2>3. CASE returnToParentSurface
    BY <2>3 DEF returnToParentSurface, Closes, RoutingMoves
  <2>4. CASE Answered
    <3>1. "adopted_popup" \in Roles /\ "nested_popup" \in Roles
      BY DEF Roles
    <3> QED
      BY <2>4, <3>1 DEF Answered, RoutingMoves
  <2>5. CASE RunEnds
    BY <2>5 DEF RunEnds, RoutingMoves
  <2>6. CASE Unrouted
    BY <2>6 DEF Unrouted, RoutingMoves
  <2>7. CASE BrowserCloses
    BY <2>7 DEF BrowserCloses, routingVars, RoutingMoves
  <2> QED
    BY <1>1, <2>1, <2>2, <2>3, <2>4, <2>5, <2>6, <2>7, Zenon DEF Engine
<1>2. ASSUME Browser
      PROVE  (RoutingMoves /\ UNCHANGED handled) \/ RequestHandled
  <2>1. CASE \E w \in Popups, p \in Pages : OpensPopup(w, p)
    BY <2>1 DEF OpensPopup, RoutingMoves
  <2>2. CASE \E w \in Popups : Polls(w) \/ SiteCloses(w)
    BY <2>2 DEF Polls, SiteCloses, Closes, routingVars, RoutingMoves
  <2>3. CASE Navigates
    BY <2>3 DEF Navigates, routingVars, RoutingMoves
  <2>4. CASE \E p \in Pages \cup {NoPage}, fate \in Fates : Requests(p, fate)
    <3>1. PICK p \in Pages \cup {NoPage}, fate \in Fates : Requests(p, fate)
      BY <2>4
    <3> DEFINE isOpen == p # NoPage /\ IsOpen(p)
    <3>2. isOpen \in BOOLEAN
      OBVIOUS
    <3>3. routeHandler(p, fate, isOpen, task.requests)
      BY <3>1, Zenon DEF Requests
    <3> HIDE DEF isOpen
    <3> QED
      BY <3>2, <3>3, Zenon DEF RequestHandled
  <2>5. CASE \E p \in Pages, shape \in task.shapes : Fires(p, shape)
    BY <2>5 DEF Fires, Observed, routingVars, RoutingMoves
  <2> QED
    BY <1>2, <2>1, <2>2, <2>3, <2>4, <2>5, Zenon DEF Browser
<1>3. ASSUME NEW w \in Popups, Adopts(w)
      PROVE  RoutingMoves /\ UNCHANGED handled
  BY <1>3 DEF Adopts, AdoptionStep, Loaded, Assessed, AssessmentThrows, Settled, Captured, ClosedAway, Closes,
              RoutingMoves
<1>4. ASSUME UNCHANGED vars
      PROVE  RoutingMoves /\ UNCHANGED handled
  BY <1>4 DEF vars, routingVars, RoutingMoves
<1> QED
  BY <1>1, <1>2, <1>3, <1>4 DEF Next

\* A step that handles no request keeps the totals.
LEMMA MovesKeepTotals ==
  ASSUME routing \in RoutingType, RoutingMoves, NEW fate, fate \in Fates
  PROVE  routing' \in RoutingType /\ Total(routing', fate) = Total(routing, fate)
<1>1. CASE routing' = routing
  BY <1>1
<1>2. CASE \E w \in Popups : routing' = onNewPage(routing, w)
  <2>1. PICK w \in Popups : routing' = onNewPage(routing, w)
    BY <1>2
  <2>2. w \in Pages /\ "popup" \in Roles
    BY DEF Pages, Roles
  <2> QED
    BY <2>1, <2>2, RegisteredOpen DEF onNewPage
<1>3. CASE \E p : routing' = onClose(routing, p)
  BY <1>3, ClosedKeepsTotal
<1>4. CASE \E p : \E role \in Roles : routing' = describePage(routing, p, role)
  BY <1>4, DescribedKeepsTotal
<1>5. CASE routing' = DetachBegins(routing) \/ routing' = DetachEnds(routing)
  BY <1>5, DetachingKeepsTotal, DetachedKeepsTotal
<1> QED
  <2>1. \/ routing' = routing \/ (\E w \in Popups : routing' = onNewPage(routing, w)) \/ (\E p : routing' = onClose(routing, p))
        \/ (\E p : \E role \in Roles : routing' = describePage(routing, p, role))
        \/ routing' = DetachBegins(routing) \/ routing' = DetachEnds(routing)
    BY Zenon DEF RoutingMoves
  <2> QED
    BY <1>1, <1>2, <1>3, <1>4, <1>5, <2>1

\* A request that is handled is counted once.
LEMMA HandledIsCounted ==
  ASSUME Accounted, RequestHandled
  PROVE  Accounted'
<1>0. PICK bound : \E p \in Pages \cup {NoPage}, fate \in Fates, isOpen \in BOOLEAN : routeHandler(p, fate, isOpen, bound)
  BY Zenon DEF RequestHandled
<1>1. PICK p \in Pages \cup {NoPage}, counted \in Fates, isOpen \in BOOLEAN : routeHandler(p, counted, isOpen, bound)
  BY <1>0
<1> DEFINE known == IF p = NoPage THEN routing
                    ELSE IF p \in DOMAIN routing.live THEN routing
                    ELSE registerPage(routing, p, "popup", isOpen)
           more(fate) == IF fate = counted THEN 1 ELSE 0
<1>2. /\ routing' = IF p = NoPage THEN [known EXCEPT !.loose[counted] = @ + 1]
                    ELSE [known EXCEPT !.live[p].tally[counted] = @ + 1]
      /\ handled' = [handled EXCEPT ![counted] = @ + 1]
  BY <1>1, Zenon DEF routeHandler
<1>3. /\ known \in RoutingType /\ (p # NoPage => p \in DOMAIN known.live)
      /\ \A fate \in Fates : Total(known, fate) = Total(routing, fate)
  <2>1. "popup" \in Roles /\ (p # NoPage => p \in Pages)
    BY DEF Roles
  <2> QED
    BY <2>1, Registered DEF Accounted
<1> HIDE DEF known
<1>4. \A fate \in Fates : routing' \in RoutingType /\ Total(routing', fate) = Total(known, fate) + more(fate)
  <2>1. CASE p = NoPage
    <3> DEFINE r2 == [known EXCEPT !.loose[counted] = @ + 1]
    <3>1. \A fate \in Fates : r2 \in RoutingType /\ Total(r2, fate) = Total(known, fate) + more(fate)
      BY <1>3, CountedLoosely
    <3>2. routing' = r2
      BY <1>2, <2>1
    <3> HIDE DEF r2
    <3> QED
      BY <3>1, <3>2
  <2>2. CASE p # NoPage
    <3> DEFINE r2 == [known EXCEPT !.live[p].tally[counted] = @ + 1]
    <3>1. \A fate \in Fates : r2 \in RoutingType /\ Total(r2, fate) = Total(known, fate) + more(fate)
      BY <1>3, <2>2, CountedForPage
    <3>2. routing' = r2
      BY <1>2, <2>2
    <3> HIDE DEF r2
    <3> QED
      BY <3>1, <3>2
  <2> QED
    BY <2>1, <2>2
<1>5. /\ handled' \in [Fates -> Nat]
      /\ \A fate \in Fates : handled'[fate] = handled[fate] + more(fate)
  BY <1>2 DEF Accounted
<1>6. \A fate \in Fates : Total(routing, fate) = handled[fate]
  BY DEF Accounted, RequestsAccounted, diagnostics, Total, LiveTallies, ReportTallies
<1>7. \A fate \in Fates : Total(routing', fate) = handled'[fate]
  BY <1>3, <1>4, <1>5, <1>6
<1>8. RequestsAccounted'
  BY <1>7 DEF RequestsAccounted, diagnostics, Total, LiveTallies, ReportTallies
<1> QED
  BY <1>4, <1>5, <1>8 DEF Accounted, Fates

\* Nothing is handled and nothing counted at first.
LEMMA AccountedInit == Init => Accounted
<1> SUFFICES ASSUME Init PROVE Accounted
  OBVIOUS
<1> DEFINE empty == [NoRouting EXCEPT !.phase = "on"]
<1>1. NoRouting \in RoutingType /\ empty \in RoutingType
  <2>1. NoRouting.live \in LiveTables
    <3>1. <<>> \in [{} -> StateType] /\ {} \in SUBSET Pages
      OBVIOUS
    <3>2. <<>> \in LiveTables
      BY <3>1, TablesAreLive
    <3> QED
      BY <3>2 DEF NoRouting
  <2>2. NoRouting.loose \in [Fates -> Nat] /\ NoRouting.reports \in Seq(ReportType)
    BY DEF NoRouting, EmptyTally
  <2> QED
    BY <2>1, <2>2 DEF RoutingType, NoRouting
<1>2. \A fate \in Fates : Total(NoRouting, fate) = 0 /\ Total(empty, fate) = 0
  <2> SUFFICES ASSUME NEW fate \in Fates
               PROVE  Total(NoRouting, fate) = 0 /\ Total(empty, fate) = 0
    OBVIOUS
  <2>1. \A g : g \in [{} -> Nat] => SumFunction(g) = 0
    BY FS_EmptySet, SumSplit
  <2>2. LiveTallies(NoRouting, fate) \in [{} -> Nat] /\ ReportTallies(NoRouting, fate) \in [{} -> Nat]
    BY DEF LiveTallies, ReportTallies, NoRouting
  <2>3. NoRouting.loose[fate] = 0
    BY DEF NoRouting, EmptyTally
  <2>4. SumFunction(LiveTallies(NoRouting, fate)) = 0 /\ SumFunction(ReportTallies(NoRouting, fate)) = 0
    <3> HIDE DEF LiveTallies, ReportTallies
    <3> QED
      BY <2>1, <2>2, Zenon
  <2>7. Total(NoRouting, fate) = 0
    BY <2>3, <2>4 DEF Total
  <2>5. empty.live = NoRouting.live /\ empty.reports = NoRouting.reports /\ empty.loose = NoRouting.loose
    BY DEF NoRouting
  <2>6. Total(empty, fate) = Total(NoRouting, fate)
    BY <2>5 DEF Total, LiveTallies, ReportTallies
  <2> QED
    BY <2>6, <2>7
<1>3. /\ attachLowMemoryResourceRouting \in RoutingType
      /\ \A fate \in Fates : Total(attachLowMemoryResourceRouting, fate) = 0
  <2>1. Main \in Pages /\ "original" \in Roles
    BY DEF Pages, Roles
  <2> HIDE DEF empty
  <2>2. /\ registerPage(empty, Main, "original", TRUE) \in RoutingType
        /\ \A fate \in Fates : Total(registerPage(empty, Main, "original", TRUE), fate) = 0
    <3>1. ASSUME NEW fate, fate \in Fates
          PROVE  /\ registerPage(empty, Main, "original", TRUE) \in RoutingType
                 /\ Total(registerPage(empty, Main, "original", TRUE), fate) = Total(empty, fate)
      BY <1>1, <2>1, <3>1, RegisteredOpen
    <3>2. "allowed" \in Fates
      BY DEF Fates
    <3> QED
      BY <1>2, <3>1, <3>2
  <2> QED
    BY <2>2 DEF attachLowMemoryResourceRouting, empty
<1>4. handled = EmptyTally /\ routing \in {NoRouting, attachLowMemoryResourceRouting}
  BY DEF Init
<1>5. routing \in RoutingType /\ \A fate \in Fates : Total(routing, fate) = 0
  BY <1>1, <1>2, <1>3, <1>4
<1>6. handled \in [Fates -> Nat] /\ \A fate \in Fates : handled[fate] = 0
  BY <1>4 DEF EmptyTally
<1>7. RequestsAccounted
  BY <1>5, <1>6 DEF RequestsAccounted, diagnostics, Total, LiveTallies, ReportTallies
<1> QED
  BY <1>5, <1>6, <1>7 DEF Accounted

\* Every step keeps requests accounted for.
LEMMA AccountedStep ==
  ASSUME Accounted, Next \/ UNCHANGED vars
  PROVE  Accounted'
<1>1. CASE RoutingMoves /\ UNCHANGED handled
  <2>1. \A fate \in Fates : routing' \in RoutingType /\ Total(routing', fate) = Total(routing, fate)
    BY <1>1, MovesKeepTotals DEF Accounted
  <2>2. \A fate \in Fates : Total(routing, fate) = handled[fate]
    BY DEF Accounted, RequestsAccounted, diagnostics, Total, LiveTallies, ReportTallies
  <2>3. \A fate \in Fates : Total(routing', fate) = handled'[fate]
    BY <1>1, <2>1, <2>2
  <2>4. RequestsAccounted'
    BY <2>3 DEF RequestsAccounted, diagnostics, Total, LiveTallies, ReportTallies
  <2> QED
    BY <1>1, <2>1, <2>4 DEF Accounted, Fates
<1>2. CASE RequestHandled
  BY <1>2, HandledIsCounted
<1> QED
  BY <1>1, <1>2, StepsOfRouting

\* Every request the route handler was called with is in exactly one tally of
\* the diagnostics, whichever way pages come and go, requests arrive late and
\* routing is detached: browserResourceRouting.ts:241-245, 308-332.
THEOREM RequestsAreAccounted == Spec => []RequestsAccounted
<1>1. Init => Accounted
  BY AccountedInit
<1>2. Accounted /\ [Next]_vars => Accounted'
  BY AccountedStep
<1>3. Accounted => RequestsAccounted
  BY DEF Accounted
<1> QED
  BY <1>1, <1>2, <1>3, PTL DEF Spec

-----------------------------------------------------------------------------
(* Whose listeners are on.  A popup that was not claimed yet is one this   *)
(* click may still claim; the popups a run keeps tracking were adopted.    *)

Phases == Waiting \cup {"none", "adopted", "turned_away"}
AdoptionType ==
  [phase : Phases, address : Addresses \cup {"none"}, cached : BOOLEAN, count : Nat, step : Nat]
Statuses ==
  {"none", "CAPTURED", "CORRELATION_UNRESOLVED", "WEBSITE_NO_OBSERVED_TAG", "WEBSITE_NO_OBSERVED_CLICK_TAG",
   "CAPTURE_UNCERTAIN_CONSENT_STATE", "ENGINE_CAPTURE_INCOMPLETE"}
Segments == {"none", "POPUP_OR_NEW_TAB", "PHYSICAL_CLICK", "FALLBACK_NAVIGATION", "DESTINATION_SETTLEMENT"}
ResultType ==
  [success : BOOLEAN, adopted : BOOLEAN, opened : BOOLEAN, fallback : Fallbacks,
   status : Statuses, primary : Statuses, segment : Segments, arrivals : Int]

PagesTyped ==
  /\ task \in Tasks
  /\ page \in [Pages -> {"unborn", "open", "closed"}]
  /\ adoption \in [Popups -> AdoptionType]
  /\ listeners \in [Pages -> Nat]
EngineTyped ==
  /\ pc \in Dispatching \cup Ended \cup {"observe", "ready", "answered", "window", "recording"}
  /\ step \in Nat /\ adoptedCount \in Nat
  /\ popupOpened \in Popups \cup {NoPage}
  /\ result \in ResultType
MarksType == [start : Nat, mid : Nat, end : Nat, from : Nat, to : Nat]
EventType ==
  [page : Pages, stepIndex : Nat, at : Nat, main : BOOLEAN, shape : ShapeFields]
EvidenceTyped == captured \in Seq(EventType) /\ arrived \in Nat /\ marks \in MarksType

Claims ==
  /\ \A w \in Popups : page[w] = "unborn" => adoption[w].phase = "none"
  /\ armed # NoPage => pc \in {"pressing", "settling"}
  /\ armed # NoPage /\ popupOpened = NoPage =>
       \A w \in Popups \ baseline : page[w] = "open" => adoption[w].phase = "none"
  /\ \A w \in tracked : w \in Popups /\ adoption[w].phase = "adopted"
  /\ pc \in {"ready", "falling"} => ~result.adopted
  /\ pc = "awaiting" => popupOpened # NoPage
  /\ pc = "answered" /\ result.adopted => popupOpened \in Popups /\ adoption[popupOpened].phase = "adopted"
  /\ ListenersMatchUse

\* What the assumptions on pages and tasks say, in the form the proofs use.
LEMMA PopupsArePages ==
  /\ Popups \subseteq Pages /\ NoPage \notin Popups /\ Main \notin Popups /\ Main \in Pages
  /\ \A t \in Tasks : t.capture \in BOOLEAN /\ t.adoption \in BOOLEAN
  BY PageAssumption, TaskAssumption DEF Pages

\* What a popup's function may be listening with, given how far it has come.
Wanted(phase) == IF phase \in (Waiting \ {"closing"}) \cup {"adopted"} THEN 1 ELSE 0

\* A claim instruments the popup at once, when anything is captured.
LEMMA ClaimInstruments ==
  ASSUME PagesTyped, EngineTyped, NEW w, w \in Popups, adoptOrCapturePopup(w, adoptedCount, step)
  PROVE  /\ adoption' \in [Popups -> AdoptionType] /\ listeners' \in [Pages -> Nat]
         /\ adoption'[w].phase \in {"loading", "capturing", "closing"}
         /\ task.capture => adoption'[w].phase # "closing" /\ listeners'[w] = listeners[w] + 1
         /\ ~task.capture => listeners'[w] = listeners[w]
         /\ \A v \in Popups : v # w => adoption'[v] = adoption[v] /\ listeners'[v] = listeners[v]
<1> DEFINE phase == IF task.adoption THEN "loading" ELSE IF task.capture THEN "capturing" ELSE "closing"
           claimed == [Unclaimed EXCEPT !.count = adoptedCount, !.step = step, !.phase = phase]
<1>1. /\ phase \in {"loading", "capturing", "closing"} /\ (task.capture => phase # "closing")
      /\ {"loading", "capturing", "closing"} \subseteq Phases
  BY DEF Phases, Waiting
<1> HIDE DEF phase
<1>2. claimed \in AdoptionType /\ claimed.phase = phase
  BY <1>1 DEF AdoptionType, Unclaimed, EngineTyped
<1>3. adoption' = [adoption EXCEPT ![w] = claimed]
  BY DEF adoptOrCapturePopup, phase
<1> HIDE DEF claimed
<1>4. /\ adoption' \in [Popups -> AdoptionType] /\ adoption'[w] = claimed
      /\ \A v \in Popups : v # w => adoption'[v] = adoption[v]
  BY <1>2, <1>3 DEF PagesTyped
<1>5. Attached \in Nat /\ (task.capture => Attached = 1) /\ (~task.capture => Attached = 0)
  BY DEF Attached
<1>6. listeners' = [listeners EXCEPT ![w] = listeners[w] + Attached]
  BY DEF adoptOrCapturePopup
<1>7. listeners[w] \in Nat /\ w \in Pages
  BY PopupsArePages DEF PagesTyped
<1> HIDE DEF Attached
<1>8. /\ listeners' \in [Pages -> Nat] /\ listeners'[w] = listeners[w] + Attached
      /\ \A v \in Popups : v # w => listeners'[v] = listeners[v]
  BY <1>5, <1>6, <1>7, PopupsArePages DEF PagesTyped
<1> QED
  BY <1>1, <1>2, <1>4, <1>5, <1>7, <1>8

\* A popup turned away or decided upon is on its way to capture, settling or closing.
LEMMA TurnsAreTyped ==
  ASSUME NEW a, a \in AdoptionType
  PROVE  /\ TurnedAway(a) \in AdoptionType /\ Decided(a) \in AdoptionType
         /\ TurnedAway(a).phase \in {"capturing", "closing"} /\ Decided(a).phase \in {"settling", "capturing", "closing"}
         /\ task.capture => TurnedAway(a).phase # "closing" /\ Decided(a).phase # "closing"
<1> DEFINE phase == IF task.capture THEN "capturing" ELSE "closing"
<1>1. /\ phase \in {"capturing", "closing"} /\ (task.capture => phase # "closing")
      /\ {"settling", "capturing", "closing"} \subseteq Phases
  BY DEF Phases, Waiting
<1>2. TurnedAway(a) = [a EXCEPT !.phase = phase]
  BY DEF TurnedAway
<1> HIDE DEF phase
<1>3. TurnedAway(a) \in AdoptionType /\ TurnedAway(a).phase = phase
  BY <1>1, <1>2 DEF AdoptionType
<1>4. Decided(a) = TurnedAway(a) \/ Decided(a) = [a EXCEPT !.phase = "settling"]
  BY DEF Decided
<1>5. [a EXCEPT !.phase = "settling"] \in AdoptionType /\ [a EXCEPT !.phase = "settling"].phase = "settling"
  BY <1>1 DEF AdoptionType
<1> QED
  BY <1>1, <1>3, <1>4, <1>5

\* A popup's function starts claimed, and keeps the listeners its phase wants.
FunctionStep(w) ==
  /\ task' = task /\ page' \in [Pages -> {"unborn", "open", "closed"}]
  /\ adoption' \in [Popups -> AdoptionType] /\ listeners' \in [Pages -> Nat]
  /\ adoption[w].phase \in Waiting /\ adoption'[w].phase # "none"
  /\ \A v \in Popups : v # w => adoption'[v] = adoption[v] /\ listeners'[v] = listeners[v]
  /\ \A v \in Popups : page'[v] = page[v] \/ (page'[v] = "closed" /\ page[v] # "unborn")
  /\ task.capture /\ listeners[w] = Wanted(adoption[w].phase) => listeners'[w] = Wanted(adoption'[w].phase)

\* The functions of an adoption keep listeners and their uses together.
LEMMA FunctionsKeepListeners ==
  ASSUME PagesTyped, NEW w, w \in Popups, AdoptionStep(w)
  PROVE  FunctionStep(w)
<1> DEFINE a == adoption[w]
<1>0. a \in AdoptionType /\ w \in Pages
  BY PopupsArePages DEF PagesTyped
<1>1. ASSUME NEW b, b \in AdoptionType, b.phase # "none", a.phase \in Waiting,
             task.capture => Wanted(b.phase) = Wanted(a.phase),
             adoption' = [adoption EXCEPT ![w] = b], UNCHANGED <<task, page, listeners>>
      PROVE  FunctionStep(w)
  <2>1. /\ adoption' \in [Popups -> AdoptionType] /\ adoption'[w] = b
        /\ \A v \in Popups : v # w => adoption'[v] = adoption[v]
    BY <1>1 DEF PagesTyped
  <2> QED
    BY <1>1, <2>1 DEF FunctionStep, PagesTyped
<1>2. CASE \E x \in Addresses : Loaded(w, x)
  <2>1. PICK x \in Addresses : Loaded(w, x)
    BY <1>2
  <2> DEFINE landed == [a EXCEPT !.address = x]
             cached == [TurnedAway(landed) EXCEPT !.cached = TRUE]
             assessed == [landed EXCEPT !.phase = "assessing"]
             b == IF reuseCachedRejection(x) THEN cached
                  ELSE IF landed.count >= MaxAdopted THEN Decided(landed) ELSE assessed
  <2>2. landed \in AdoptionType
    BY <1>0 DEF AdoptionType
  <2> HIDE DEF landed
  <2>3. cached \in AdoptionType /\ cached.phase = TurnedAway(landed).phase
    <3>1. TurnedAway(landed) \in AdoptionType
      BY <2>2, TurnsAreTyped
    <3> QED
      BY <3>1 DEF AdoptionType
  <2>4. assessed \in AdoptionType /\ assessed.phase = "assessing"
    BY <2>2 DEF AdoptionType, Phases, Waiting
  <2>5. adoption' = [adoption EXCEPT ![w] = b] /\ UNCHANGED <<task, page, listeners>> /\ a.phase = "loading"
    BY <2>1 DEF Loaded, landed
  <2> HIDE DEF cached, assessed
  <2>6. /\ b \in AdoptionType /\ b.phase \in {"settling", "capturing", "closing", "assessing"}
        /\ task.capture => b.phase # "closing"
    BY <2>2, <2>3, <2>4, TurnsAreTyped
  <2> HIDE DEF b
  <2> QED
    BY <1>1, <2>5, <2>6 DEF Wanted, Waiting
<1>3. CASE \/ \E first, v \in Verdicts : Assessed(w, first, v)
           \/ AssessmentThrows(w)
  <2>1. PICK b \in {TurnedAway(a), Decided(a)} : adoption' = [adoption EXCEPT ![w] = b]
    BY <1>3 DEF Assessed, AssessmentThrows
  <2>2. UNCHANGED <<task, page, listeners>> /\ a.phase = "assessing"
    BY <1>3 DEF Assessed, AssessmentThrows
  <2>3. /\ b \in AdoptionType /\ b.phase \in {"settling", "capturing", "closing"}
        /\ task.capture => b.phase # "closing"
    BY <1>0, <2>1, TurnsAreTyped
  <2> QED
    BY <1>1, <2>1, <2>2, <2>3 DEF Wanted, Waiting
<1>4. CASE Settled(w)
  <2> DEFINE b == Resolved(a, "adopted")
  <2>1. b \in AdoptionType /\ b.phase = "adopted"
    BY <1>0 DEF Resolved, AdoptionType, Unclaimed, Phases
  <2>2. adoption' = [adoption EXCEPT ![w] = b] /\ UNCHANGED <<task, page, listeners>> /\ a.phase = "settling"
    BY <1>4 DEF Settled
  <2> HIDE DEF b
  <2> QED
    BY <1>1, <2>1, <2>2 DEF Wanted, Waiting
<1>5. CASE Captured(w)
  <2> DEFINE b == [a EXCEPT !.phase = "closing"]
  <2>1. b \in AdoptionType /\ b.phase = "closing"
    BY <1>0 DEF AdoptionType, Phases, Waiting
  <2>2. /\ adoption' = [adoption EXCEPT ![w] = b] /\ listeners' = [listeners EXCEPT ![w] = 0]
        /\ UNCHANGED <<task, page>> /\ a.phase = "capturing"
    BY <1>5 DEF Captured
  <2> HIDE DEF b
  <2>3. /\ adoption' \in [Popups -> AdoptionType] /\ adoption'[w] = b
        /\ \A v \in Popups : v # w => adoption'[v] = adoption[v]
    BY <2>1, <2>2 DEF PagesTyped
  <2>4. /\ listeners' \in [Pages -> Nat] /\ listeners'[w] = 0
        /\ \A v \in Popups : v # w => listeners'[v] = listeners[v]
    BY <1>0, <2>2, PopupsArePages DEF PagesTyped
  <2>5. a.phase \in Waiting /\ Wanted(b.phase) = 0
    BY <2>1, <2>2 DEF Wanted, Waiting
  <2> QED
    BY <2>1, <2>2, <2>3, <2>4, <2>5 DEF FunctionStep, PagesTyped
<1>6. CASE ClosedAway(w)
  <2> DEFINE b == Resolved(a, "turned_away")
  <2>1. b \in AdoptionType /\ b.phase = "turned_away"
    BY <1>0 DEF Resolved, AdoptionType, Unclaimed, Phases
  <2>2. /\ adoption' = [adoption EXCEPT ![w] = b] /\ UNCHANGED <<task, listeners>> /\ a.phase = "closing"
        /\ page' = page \/ (page' = [page EXCEPT ![w] = "closed"] /\ page[w] = "open")
    BY <1>6 DEF ClosedAway, Closes, IsOpen
  <2> HIDE DEF b
  <2>3. /\ adoption' \in [Popups -> AdoptionType] /\ adoption'[w] = b
        /\ \A v \in Popups : v # w => adoption'[v] = adoption[v]
    BY <2>1, <2>2 DEF PagesTyped
  <2>4. /\ page' \in [Pages -> {"unborn", "open", "closed"}]
        /\ \A v \in Popups : page'[v] = page[v] \/ (page'[v] = "closed" /\ page[v] # "unborn")
    BY <2>2, PopupsArePages DEF PagesTyped
  <2>5. a.phase \in Waiting /\ Wanted(b.phase) = 0 /\ Wanted(a.phase) = 0
    BY <2>1, <2>2 DEF Wanted, Waiting
  <2> QED
    BY <2>1, <2>2, <2>3, <2>4, <2>5 DEF FunctionStep, PagesTyped
<1> QED
  BY <1>2, <1>3, <1>4, <1>5, <1>6 DEF AdoptionStep

\* What both statuses of a click and its segment may be.
LEMMA StatusesOfAWindow ==
  ASSUME NEW window, NEW before, NEW delta, NEW push, NEW verified, NEW opened, NEW fell
  PROVE  /\ Guarded(window, delta, push, verified, analyticsStatus(window, delta)) \in Statuses
         /\ Guarded(window, delta, push, verified, primaryClickEventStatus(window)) \in Statuses
         /\ triggerSegment(window, before, delta, opened, fell) \in Segments
<1>1. analyticsStatus(window, delta) \in Statuses /\ primaryClickEventStatus(window) \in Statuses
  BY DEF analyticsStatus, primaryClickEventStatus, Statuses
<1>2. \A s \in Statuses : Guarded(window, delta, push, verified, s) \in Statuses
  BY DEF Guarded, Statuses
<1>3. triggerSegment(window, before, delta, opened, fell) \in Segments
  BY DEF triggerSegment, Segments
<1> QED
  BY <1>1, <1>2, <1>3

\* The record of a click keeps what its executor answered.
LEMMA RecordsAreTyped ==
  ASSUME EngineTyped, EvidenceTyped, NEW delta, NEW push, NEW verified, Records(delta, push, verified)
  PROVE  result' \in ResultType /\ result'.adopted = result.adopted
<1> DEFINE window == Slice(marks.start, marks.end)
           before == Slice(marks.start, marks.mid)
           arrivals == marks.to - marks.from
           status == Guarded(window, delta, push, verified, analyticsStatus(window, delta))
           primary == Guarded(window, delta, push, verified, primaryClickEventStatus(window))
           segment == triggerSegment(window, before, delta, result.opened, result.fallback # "none")
<1>1. result' = IF ~task.capture THEN result
                ELSE [result EXCEPT !.arrivals = arrivals, !.status = status, !.primary = primary, !.segment = segment]
  BY Zenon DEF Records
<1>2. arrivals \in Int
  BY DEF EvidenceTyped, MarksType
<1>3. status \in Statuses /\ primary \in Statuses /\ segment \in Segments
  <2> DEFINE fell == result.fallback # "none"
  <2> HIDE DEF window, before, fell
  <2>1. /\ status \in Statuses /\ primary \in Statuses
        /\ triggerSegment(window, before, delta, result.opened, fell) \in Segments
    BY StatusesOfAWindow
  <2> QED
    BY <2>1 DEF fell
<1> HIDE DEF arrivals, status, primary, segment
<1> QED
  BY <1>1, <1>2, <1>3 DEF EngineTyped, ResultType

ClaimInv == PagesTyped /\ EngineTyped /\ EvidenceTyped /\ Claims

Taken == [NoResult EXCEPT !.success = TRUE, !.adopted = TRUE, !.opened = TRUE]
Left == [NoResult EXCEPT !.opened = TRUE]

\* The results of a click have their type, and only a popup taken over is adopted.
LEMMA ResultsAreTyped ==
  /\ NoResult \in ResultType /\ ~NoResult.adopted
  /\ \A ok \in BOOLEAN : [NoResult EXCEPT !.success = ok] \in ResultType /\ ~[NoResult EXCEPT !.success = ok].adopted
  /\ Taken \in ResultType /\ Left \in ResultType /\ ~Left.adopted
<1>1. NoResult \in ResultType /\ ~NoResult.adopted
  BY DEF ResultType, NoResult, Fallbacks, Statuses, Segments
<1>2. NoResult.adopted = FALSE
  BY DEF NoResult
<1> HIDE DEF NoResult
<1>3. \A ok \in BOOLEAN : [NoResult EXCEPT !.success = ok] \in ResultType /\ ~[NoResult EXCEPT !.success = ok].adopted
  BY <1>1 DEF ResultType
<1>4. Left \in ResultType /\ ~Left.adopted
  BY <1>1 DEF ResultType, Left
<1>5. Taken \in ResultType
  BY <1>1 DEF ResultType, Taken
<1> QED
  BY <1>1, <1>3, <1>4, <1>5

\* A fallback changes the success and the name of a result, not its adoption.
LEMMA FallbacksAreTyped ==
  ASSUME NEW r, r \in ResultType, NEW f, f \in Fallbacks
  PROVE  /\ [r EXCEPT !.success = TRUE, !.fallback = f] \in ResultType
         /\ [r EXCEPT !.success = TRUE, !.fallback = f].adopted = r.adopted
         /\ [r EXCEPT !.fallback = f] \in ResultType /\ [r EXCEPT !.fallback = f].adopted = r.adopted
  BY DEF ResultType

\* The result of a failure is one, and adopts nothing.
LEMMA FailuresAreTyped ==
  ASSUME NEW o, o \in FailureOutcomes, FailureAssessed(o)
  PROVE  result' \in ResultType /\ ~result'.adopted
<1> DEFINE opened == popupOpened # NoPage
           r == [NoResult EXCEPT !.opened = opened]
<1>1. opened \in BOOLEAN
  OBVIOUS
<1>2. result' = r \/ result' = [r EXCEPT !.success = TRUE]
  BY Zenon DEF FailureAssessed, FailureOutcomes
<1> HIDE DEF opened
<1>3. r \in ResultType /\ ~r.adopted
  BY <1>1, ResultsAreTyped DEF ResultType, NoResult
<1> HIDE DEF r
<1> QED
  BY <1>2, <1>3 DEF ResultType

\* The engine's steps up to the answer leave every popup's function and every
\* listener alone.
LEMMA DispatchKeepsClaims ==
  ASSUME ClaimInv, Engine, UNCHANGED <<task, page, adoption, listeners, tracked>>, pc \notin Ended, pc' \notin Ended,
         ~(returnToParentSurface \/ Answered \/ RunEnds \/ Unrouted \/ BrowserCloses)
  PROVE  PagesTyped' /\ EngineTyped' /\ Claims'
<1> USE DEF ClaimInv
<1>0. ListenersMatchUse'
  BY DEF ListenersMatchUse, Claims
<1>1. PagesTyped'
  BY DEF PagesTyped
<1>2. CASE StepBegins
  BY <1>0, <1>1, <1>2, ResultsAreTyped DEF StepBegins, Claims, EngineTyped
<1>3. CASE Presses
  BY <1>0, <1>1, <1>3 DEF Presses, Claims, EngineTyped, Dispatching, PagesTyped, IsOpen, Pages
<1>4. CASE NotActionable
  BY <1>0, <1>1, <1>4 DEF NotActionable, Claims, EngineTyped, Dispatching
<1>5. CASE ClickReturns
  BY <1>0, <1>1, <1>5 DEF ClickReturns, engineRest, Disarm, Claims, EngineTyped, Dispatching
<1>6. CASE ClickThrows
  BY <1>0, <1>1, <1>6 DEF ClickThrows, engineRest, Disarm, Claims, EngineTyped, Dispatching
<1>7. CASE \E o \in FailureOutcomes : FailureAssessed(o)
  <2>1. PICK o \in FailureOutcomes : FailureAssessed(o)
    BY <1>7
  <2>2. result' \in ResultType /\ ~result'.adopted
    BY <2>1, FailuresAreTyped
  <2>3. pc = "failing" /\ pc' \in {"answered", "falling"} /\ UNCHANGED <<engineRest, popupOpened, armed>>
    BY <2>1 DEF FailureAssessed, FailureOutcomes
  <2> QED
    BY <1>0, <1>1, <2>2, <2>3 DEF engineRest, Claims, EngineTyped, Dispatching
<1>8. CASE Settles
  <2>1. result' = result \/ (result' = [NoResult EXCEPT !.success = TRUE])
    BY <1>8 DEF Settles
  <2>2. result' \in ResultType /\ (pc' = "answered" => ~result'.adopted)
    <3>1. [NoResult EXCEPT !.success = TRUE] \in ResultType /\ ~[NoResult EXCEPT !.success = TRUE].adopted
      BY ResultsAreTyped
    <3>2. pc' = "answered" => result' = [NoResult EXCEPT !.success = TRUE]
      BY <1>8 DEF Settles
    <3> QED
      BY <2>1, <3>1, <3>2 DEF EngineTyped
  <2>3. /\ pc = "settling" /\ pc' \in {"landing", "awaiting", "answered"} /\ armed' = NoPage
        /\ UNCHANGED <<engineRest, popupOpened>> /\ (pc' = "awaiting" => popupOpened # NoPage)
    BY <1>8 DEF Settles, Disarm
  <2> QED
    BY <1>0, <1>1, <2>2, <2>3 DEF engineRest, Claims, EngineTyped, Dispatching
<1>9. CASE \E ok \in BOOLEAN : Lands(ok)
  <2>1. PICK ok \in BOOLEAN : Lands(ok)
    BY <1>9
  <2>2. result' \in ResultType /\ ~result'.adopted
    BY <2>1, ResultsAreTyped DEF Lands
  <2> QED
    BY <1>0, <1>1, <2>1, <2>2 DEF Lands, engineRest, Claims, EngineTyped
<1>10. CASE PopupDecided
  <2>2. IF adoption[popupOpened].phase = "adopted" THEN pc' = "answered" /\ result' = Taken
        ELSE pc' = "falling" /\ result' = Left
    BY <1>10 DEF PopupDecided, Taken, Left
  <2>3. pc = "awaiting" /\ UNCHANGED <<engineRest, popupOpened, armed>>
    BY <1>10 DEF PopupDecided
  <2> QED
    BY <1>0, <1>1, <2>2, <2>3, ResultsAreTyped DEF engineRest, Claims, EngineTyped, Dispatching
<1>11. CASE \E f \in Fallbacks : resolveUnactionableClick(f)
  <2>1. PICK f \in Fallbacks : resolveUnactionableClick(f)
    BY <1>11
  <2>2. result' = [result EXCEPT !.success = TRUE, !.fallback = f] \/ result' = [result EXCEPT !.fallback = f]
    BY <2>1 DEF resolveUnactionableClick
  <2>3. result' \in ResultType /\ result'.adopted = result.adopted
    <3>1. result \in ResultType
      BY DEF EngineTyped
    <3>2. /\ [result EXCEPT !.success = TRUE, !.fallback = f] \in ResultType
          /\ [result EXCEPT !.success = TRUE, !.fallback = f].adopted = result.adopted
          /\ [result EXCEPT !.fallback = f] \in ResultType /\ [result EXCEPT !.fallback = f].adopted = result.adopted
      BY <3>1, FallbacksAreTyped, Zenon
    <3> QED
      BY <2>2, <3>2, Zenon
  <2> QED
    BY <1>0, <1>1, <2>1, <2>3 DEF resolveUnactionableClick, engineRest, Claims, EngineTyped
<1>12. CASE WindowEnds
  BY <1>0, <1>1, <1>12 DEF WindowEnds, Claims, EngineTyped
<1>13. CASE \E delta \in Deltas, push, verified \in BOOLEAN : Records(delta, push, verified)
  BY <1>0, <1>1, <1>13, RecordsAreTyped DEF Records, Claims, EngineTyped
<1> QED
  BY <1>2, <1>3, <1>4, <1>5, <1>6, <1>7, <1>8, <1>9, <1>10, <1>11, <1>12, <1>13, Zenon DEF Engine

\* The steps of the engine keep the claims.
LEMMA EngineKeepsClaims ==
  ASSUME ClaimInv, Engine
  PROVE  PagesTyped' /\ EngineTyped' /\ Claims'
<1> USE DEF ClaimInv
<1>1. CASE returnToParentSurface
  <2>1. /\ UNCHANGED <<task, adoption, listeners, tracked, armed, baseline, popupOpened, result, adoptedCount>>
        /\ pc = "ready" /\ pc' = "observe" /\ step' = step + 1
        /\ page' = page \/ (page' = [page EXCEPT ![ActivePage] = "closed"] /\ page[ActivePage] = "open")
    BY <1>1 DEF returnToParentSurface, Closes, IsOpen
  <2>2. /\ page' \in [Pages -> {"unborn", "open", "closed"}]
        /\ \A w \in Popups : page'[w] = page[w] \/ (page'[w] = "closed" /\ page[w] # "unborn")
    BY <2>1, PopupsArePages DEF PagesTyped
  <2> QED
    BY <2>1, <2>2 DEF PagesTyped, EngineTyped, Claims, ListenersMatchUse, Ended
<1>2. CASE RunEnds
  <2>1. /\ UNCHANGED <<task, page, adoption, tracked, armed, baseline, popupOpened, step, adoptedCount>>
        /\ pc = "observe" /\ pc' = "unrouting" /\ result' = NoResult
        /\ listeners' = [p \in Pages |-> IF p = Main \/ p \in tracked THEN 0 ELSE listeners[p]]
    BY <1>2 DEF RunEnds
  <2>2. /\ listeners' \in [Pages -> Nat]
        /\ \A w \in Popups : listeners'[w] = IF w \in tracked THEN 0 ELSE listeners[w]
    BY <2>1, PopupsArePages DEF PagesTyped
  <2>3. ListenersMatchUse'
    BY <2>1, <2>2 DEF Claims, ListenersMatchUse, Ended
  <2> QED
    BY <2>1, <2>2, <2>3, ResultsAreTyped DEF PagesTyped, EngineTyped, Claims, Ended
<1>3. CASE Unrouted
  BY <1>3 DEF Unrouted, popupVars, PagesTyped, EngineTyped, Claims, ListenersMatchUse, Ended
<1>4. CASE BrowserCloses
  <2>1. /\ UNCHANGED <<task, adoption, listeners, tracked, armed, baseline, popupOpened, step, adoptedCount, result>>
        /\ pc = "closing" /\ pc' = "done"
        /\ page' = [p \in Pages |-> IF IsOpen(p) THEN "closed" ELSE page[p]]
    BY <1>4 DEF BrowserCloses
  <2>2. /\ page' \in [Pages -> {"unborn", "open", "closed"}]
        /\ \A w \in Popups : page'[w] = page[w] \/ (page'[w] = "closed" /\ page[w] # "unborn")
    BY <2>1, PopupsArePages DEF PagesTyped, IsOpen
  <2> QED
    BY <2>1, <2>2 DEF PagesTyped, EngineTyped, Claims, ListenersMatchUse, Ended
<1>5. CASE Answered
  <2>1. /\ UNCHANGED <<task, page, adoption, listeners, step, armed, baseline, popupOpened, result>>
        /\ pc = "answered" /\ pc' = "window"
        /\ adoptedCount' \in {adoptedCount, adoptedCount + 1}
        /\ tracked' = tracked \/ (result.adopted /\ tracked' = tracked \cup {popupOpened})
    BY <1>5 DEF Answered, popupVars
  <2> QED
    BY <2>1 DEF PagesTyped, EngineTyped, Claims, ListenersMatchUse, Ended
<1>6. CASE ~(returnToParentSurface \/ RunEnds \/ Unrouted \/ BrowserCloses \/ Answered)
  <2>1. UNCHANGED <<task, page, adoption, listeners, tracked>> /\ pc \notin Ended /\ pc' \notin Ended
    <3>1. CASE \/ StepBegins \/ Presses \/ NotActionable \/ WindowEnds
               \/ \E d \in Deltas, a, c \in BOOLEAN : Records(d, a, c)
      BY <3>1 DEF StepBegins, Presses, NotActionable, WindowEnds, Records, popupVars, Ended
    <3>2. CASE \/ ClickReturns \/ ClickThrows \/ \E o \in FailureOutcomes : FailureAssessed(o)
               \/ Settles \/ \E ok \in BOOLEAN : Lands(ok)
               \/ PopupDecided \/ \E f \in Fallbacks : resolveUnactionableClick(f)
      BY <3>2 DEF ClickReturns, ClickThrows, FailureAssessed, FailureOutcomes, Settles, Lands, PopupDecided,
                  resolveUnactionableClick, engineRest, popupVars, Ended
    <3> QED
      BY <1>6, <3>1, <3>2, Zenon DEF Engine
  <2> QED
    BY <1>6, <2>1, DispatchKeepsClaims
<1> QED
  BY <1>1, <1>2, <1>3, <1>4, <1>5, <1>6

\* The browser closes and opens pages; only the clicked page's popup event and
\* the poll claim one, once per click.
LEMMA BrowserKeepsClaims ==
  ASSUME ClaimInv, Browser
  PROVE  PagesTyped' /\ EngineTyped' /\ Claims'
<1> USE DEF ClaimInv
<1> DEFINE rest == <<task, tracked, armed, baseline, result, pc, step, adoptedCount>>
<1>1. ASSUME NEW w \in Popups, adoption[w].phase = "none", armed # NoPage, popupOpened = NoPage, popupOpened' = w,
             adoptOrCapturePopup(w, adoptedCount, step), UNCHANGED rest,
             page' \in [Pages -> {"unborn", "open", "closed"}], page'[w] # "unborn",
             \A v \in Popups : v # w => page'[v] = page[v]
      PROVE  PagesTyped' /\ EngineTyped' /\ Claims'
  <2>1. /\ adoption' \in [Popups -> AdoptionType] /\ listeners' \in [Pages -> Nat]
        /\ adoption'[w].phase \in {"loading", "capturing", "closing"}
        /\ task.capture => adoption'[w].phase # "closing" /\ listeners'[w] = listeners[w] + 1
        /\ \A v \in Popups : v # w => adoption'[v] = adoption[v] /\ listeners'[v] = listeners[v]
    BY <1>1, ClaimInstruments
  <2>2. w \notin tracked /\ pc \notin Ended /\ pc # "answered" /\ w # NoPage /\ pc # "awaiting"
    BY <1>1, PopupsArePages DEF Claims, Ended
  <2>3. ListenersMatchUse'
    <3>1. task.capture => listeners[w] = 0
      BY <1>1 DEF Claims, ListenersMatchUse, Waiting
    <3> QED
      BY <1>1, <2>1, <2>2, <3>1 DEF Claims, ListenersMatchUse, Waiting
  <2>4. PagesTyped' /\ EngineTyped'
    BY <1>1, <2>1 DEF PagesTyped, EngineTyped
  <2>5. Claims'
    BY <1>1, <2>1, <2>2, <2>3 DEF Claims
  <2> QED
    BY <2>4, <2>5
<1>2. ASSUME NEW w \in Popups, NEW p \in Pages, OpensPopup(w, p)
      PROVE  PagesTyped' /\ EngineTyped' /\ Claims'
  <2>1. /\ page[w] = "unborn" /\ page' = [page EXCEPT ![w] = "open"] /\ UNCHANGED rest
        /\ \/ armed # NoPage /\ popupOpened = NoPage /\ popupOpened' = w /\ adoptOrCapturePopup(w, adoptedCount, step)
           \/ UNCHANGED <<popupOpened, adoption, listeners>>
    BY <1>2, PageAssumption DEF OpensPopup, Pages
  <2>2. /\ page' \in [Pages -> {"unborn", "open", "closed"}] /\ page'[w] = "open"
        /\ \A v \in Popups : v # w => page'[v] = page[v]
    BY <2>1, PopupsArePages DEF PagesTyped
  <2>3. adoption[w].phase = "none"
    BY <2>1 DEF Claims
  <2>4. CASE armed # NoPage /\ popupOpened = NoPage /\ popupOpened' = w /\ adoptOrCapturePopup(w, adoptedCount, step)
    BY <1>1, <2>1, <2>2, <2>3, <2>4
  <2>5. CASE UNCHANGED <<popupOpened, adoption, listeners>>
    BY <2>1, <2>2, <2>3, <2>5 DEF PagesTyped, EngineTyped, Claims, ListenersMatchUse
  <2> QED
    BY <2>1, <2>4, <2>5
<1>3. ASSUME NEW w \in Popups, Polls(w)
      PROVE  PagesTyped' /\ EngineTyped' /\ Claims'
  <2>1. /\ armed # NoPage /\ popupOpened = NoPage /\ w \notin baseline /\ page[w] = "open" /\ popupOpened' = w
        /\ adoptOrCapturePopup(w, adoptedCount, step) /\ page' = page /\ UNCHANGED rest
    BY <1>3 DEF Polls, findNewPages, IsOpen
  <2>2. adoption[w].phase = "none" /\ page \in [Pages -> {"unborn", "open", "closed"}]
    BY <2>1 DEF Claims, PagesTyped
  <2> QED
    BY <1>1, <2>1, <2>2
<1>4. ASSUME NEW w \in Popups, SiteCloses(w)
      PROVE  PagesTyped' /\ EngineTyped' /\ Claims'
  <2>1. /\ page' = [page EXCEPT ![w] = "closed"] /\ page[w] = "open" /\ UNCHANGED <<rest, adoption, listeners, popupOpened>>
    BY <1>4 DEF SiteCloses, Closes, IsOpen, engineVars
  <2>2. /\ page' \in [Pages -> {"unborn", "open", "closed"}]
        /\ \A v \in Popups : page'[v] = page[v] \/ (page'[v] = "closed" /\ page[v] # "unborn")
    BY <2>1, PopupsArePages DEF PagesTyped
  <2> QED
    BY <2>1, <2>2 DEF PagesTyped, EngineTyped, Claims, ListenersMatchUse
<1>5. CASE Navigates \/ (\E p \in Pages \cup {NoPage}, fate \in Fates : Requests(p, fate))
           \/ (\E p \in Pages, shape \in task.shapes : Fires(p, shape))
  <2>1. UNCHANGED <<rest, popupOpened, page, adoption, listeners>>
    BY <1>5 DEF Navigates, Requests, Fires, Observed, popupVars, engineVars
  <2> QED
    BY <2>1 DEF PagesTyped, EngineTyped, Claims, ListenersMatchUse
<1> QED
  BY <1>2, <1>3, <1>4, <1>5, Zenon DEF Browser

\* The functions of an adoption keep the claims.
LEMMA FunctionsKeepClaims ==
  ASSUME ClaimInv, NEW w, w \in Popups, Adopts(w)
  PROVE  PagesTyped' /\ EngineTyped' /\ Claims'
<1> USE DEF ClaimInv
<1>1. FunctionStep(w)
  BY FunctionsKeepListeners DEF Adopts
<1>2. UNCHANGED <<tracked, armed, baseline, result, pc, step, adoptedCount, popupOpened>>
  BY DEF Adopts, engineVars
<1>3. adoption[w].phase \notin {"none", "adopted"} /\ w \notin tracked
  BY <1>1 DEF FunctionStep, Waiting, Claims
<1>4. ListenersMatchUse'
  <2>1. task.capture => listeners[w] = Wanted(adoption[w].phase)
    BY <1>3 DEF Claims, ListenersMatchUse, Wanted
  <2>2. task.capture => listeners'[w] = Wanted(adoption'[w].phase)
    BY <1>1, <2>1 DEF FunctionStep
  <2> QED
    BY <1>1, <1>2, <1>3, <2>2 DEF FunctionStep, Claims, ListenersMatchUse, Wanted
<1> QED
  BY <1>1, <1>2, <1>3, <1>4 DEF FunctionStep, PagesTyped, EngineTyped, Claims

-----------------------------------------------------------------------------
(* What the marks bound.  While nothing was dropped, a position in the     *)
(* array is the number of events written before it.                        *)

Bounded ==
  /\ Len(captured) <= Cap
  /\ arrived <= Cap => Len(captured) = arrived
  /\ pc \in Dispatching \cup {"answered", "window", "recording"} =>
       /\ marks.from <= arrived
       /\ arrived <= Cap => marks.start = marks.from
  /\ pc = "recording" =>
       /\ marks.from <= marks.to /\ marks.to <= arrived
       /\ arrived <= Cap => marks.end = marks.to
  /\ NoTagMeansNothingArrived

\* Entries pushed to the array: it keeps them all until it is full.
LEMMA Pushed ==
  ASSUME NEW S, NEW array, array \in Seq(S), NEW entries, entries \in Seq(S), Cap \in Nat
  PROVE  /\ appendBounded(array, entries) \in Seq(S)
         /\ Len(appendBounded(array, entries))
              = IF Len(array) + Len(entries) > Cap THEN Cap ELSE Len(array) + Len(entries)
<1> DEFINE next == array \o entries
           n == Len(next)
<1>1. next \in Seq(S) /\ n = Len(array) + Len(entries) /\ n \in Nat
  OBVIOUS
<1> HIDE DEF next
<1>2. CASE n > Cap
  <2>1. SubSeq(next, n - Cap + 1, n) \in Seq(S) /\ Len(SubSeq(next, n - Cap + 1, n)) = Cap
    BY <1>1, <1>2
  <2> QED
    BY <1>1, <1>2, <2>1 DEF appendBounded, next
<1>3. CASE ~(n > Cap)
  BY <1>1, <1>3 DEF appendBounded, next
<1> QED
  BY <1>2, <1>3

\* An event that arrives keeps marks and arrivals together.
LEMMA EvidencePushed ==
  ASSUME PagesTyped, EngineTyped, EvidenceTyped, Bounded,
         NEW p, p \in Pages, NEW shape, shape \in task.shapes, Fires(p, shape)
  PROVE  EvidenceTyped' /\ Bounded'
<1> DEFINE w == IF p = Main THEN Unclaimed ELSE adoption[p]
           entry == [page |-> p, stepIndex |-> IF p = Main THEN step ELSE w.step, at |-> step,
                     main |-> p = Main \/ w.phase = "adopted", shape |-> shape]
           n == listeners[p]
           entries == [i \in 1..n |-> entry]
<1>1. /\ captured' = appendBounded(captured, entries) /\ arrived' = arrived + n
      /\ UNCHANGED <<marks, pc, result>>
  BY DEF Fires, Observed, engineVars
<1>2. n \in Nat /\ Cap \in Nat
  BY EvidenceAssumption DEF PagesTyped
<1>3. entry \in EventType
  <2>1. shape \in ShapeFields /\ step \in Nat
    BY EvidenceAssumption DEF PagesTyped, EngineTyped
  <2>2. p # Main => adoption[p] \in AdoptionType
    BY DEF Pages, PagesTyped
  <2>3. (IF p = Main THEN step ELSE w.step) \in Nat
    BY <2>1, <2>2 DEF AdoptionType
  <2> QED
    BY <2>1, <2>3 DEF EventType
<1> HIDE DEF entry, n
<1>4. entries \in Seq(EventType) /\ Len(entries) = n
  BY <1>2, <1>3
<1> HIDE DEF entries
<1>5. /\ captured' \in Seq(EventType)
      /\ Len(captured') = IF Len(captured) + n > Cap THEN Cap ELSE Len(captured) + n
  BY <1>1, <1>2, <1>4, Pushed DEF EvidenceTyped
<1>6. Len(captured) \in Nat /\ arrived \in Nat /\ marks \in MarksType
  BY DEF EvidenceTyped
<1> HIDE DEF w
<1>7. EvidenceTyped'
  BY <1>1, <1>2, <1>5, <1>6 DEF EvidenceTyped
<1>8. Bounded'
  BY <1>1, <1>2, <1>5, <1>6 DEF Bounded, MarksType, NoTagMeansNothingArrived
<1> QED
  BY <1>7, <1>8

\* A window with nothing in it, none of its entries dropped, had no arrivals.
LEMMA EmptyWindow ==
  ASSUME EvidenceTyped, Bounded, pc = "recording", arrived <= Cap, Slice(marks.start, marks.end) = <<>>
  PROVE  marks.to - marks.from = 0
<1> DEFINE from == marks.from
           to == marks.to
<1>1. from \in Nat /\ to \in Nat /\ from <= to /\ to <= Len(captured) /\ Len(captured) \in Nat
  BY DEF EvidenceTyped, MarksType, Bounded
<1>2. Slice(marks.start, marks.end) = SubSeq(captured, from + 1, to)
  <2>1. marks.start = from /\ marks.end = to
    BY DEF Bounded
  <2> DEFINE last == IF to < Len(captured) THEN to ELSE Len(captured)
  <2>2. last = to
    BY <1>1
  <2> HIDE DEF last, from, to
  <2>3. Slice(from, to) = SubSeq(captured, from + 1, last)
    BY DEF Slice, last
  <2> QED
    BY <2>1, <2>2, <2>3
<1> HIDE DEF from, to
<1>3. Len(SubSeq(captured, from + 1, to)) = to - from
  BY <1>1 DEF EvidenceTyped
<1>4. SubSeq(captured, from + 1, to) = <<>>
  BY <1>2
<1> QED
  BY <1>1, <1>3, <1>4 DEF from, to

\* A verdict of no tag is given only when nothing arrived since the mark.
LEMMA RecordsAreBounded ==
  ASSUME EngineTyped, EvidenceTyped, Bounded, NEW delta, NEW push, NEW verified, Records(delta, push, verified)
  PROVE  NoTagMeansNothingArrived'
<1> DEFINE window == Slice(marks.start, marks.end)
           before == Slice(marks.start, marks.mid)
           arrivals == marks.to - marks.from
           status == Guarded(window, delta, push, verified, analyticsStatus(window, delta))
           primary == Guarded(window, delta, push, verified, primaryClickEventStatus(window))
           segment == triggerSegment(window, before, delta, result.opened, result.fallback # "none")
<1>1. /\ result' = IF ~task.capture THEN result
                   ELSE [result EXCEPT !.arrivals = arrivals, !.status = status, !.primary = primary,
                                       !.segment = segment]
      /\ UNCHANGED arrived /\ pc = "recording"
  BY Zenon DEF Records
<1>2. status = "WEBSITE_NO_OBSERVED_TAG" => window = <<>>
  BY DEF Guarded, analyticsStatus
<1>3. window = <<>> /\ arrived <= Cap => arrivals = 0
  BY <1>1, EmptyWindow
<1>4. arrivals \in Int /\ arrived \in Nat /\ Cap \in Nat
  BY EvidenceAssumption DEF EvidenceTyped, MarksType
<1> HIDE DEF window, before, arrivals, status, primary, segment
<1>5. CASE ~task.capture
  BY <1>1, <1>5 DEF Bounded, NoTagMeansNothingArrived
<1>6. CASE task.capture
  <2>1. result'.status = status /\ result'.arrivals = arrivals
    BY <1>1, <1>6 DEF EngineTyped, ResultType
  <2> QED
    BY <1>1, <1>2, <1>3, <1>4, <2>1 DEF NoTagMeansNothingArrived
<1> QED
  BY <1>5, <1>6

\* The steps of the engine keep marks and arrivals together.
LEMMA EngineIsBounded ==
  ASSUME ClaimInv, Bounded, Engine
  PROVE  EvidenceTyped' /\ Bounded'
<1> USE DEF ClaimInv
<1>0. Cap \in Nat /\ Cap > 0 /\ Len(captured) \in Nat /\ arrived \in Nat
  BY EvidenceAssumption DEF EvidenceTyped
<1>1. CASE Presses \/ NotActionable
  <2>1. /\ marks' = WindowOpens /\ pc' \in {"pressing", "falling"} /\ UNCHANGED <<captured, arrived, result>>
    BY <1>1 DEF Presses, NotActionable
  <2>2. marks' \in MarksType /\ marks'.start = Len(captured) /\ marks'.from = arrived
    BY <1>0, <2>1 DEF WindowOpens, NoMarks, MarksType
  <2> QED
    BY <1>0, <2>1, <2>2 DEF EvidenceTyped, Bounded, NoTagMeansNothingArrived, Dispatching
<1>2. CASE Answered
  <2>1. marks' = [marks EXCEPT !.mid = Len(captured)] /\ pc = "answered" /\ pc' = "window" /\ UNCHANGED <<captured, arrived, result>>
    BY <1>2 DEF Answered, WindowMid
  <2>2. marks' \in MarksType /\ marks'.start = marks.start /\ marks'.from = marks.from
    BY <1>0, <2>1 DEF EvidenceTyped, MarksType
  <2> QED
    BY <1>0, <2>1, <2>2 DEF EvidenceTyped, Bounded, NoTagMeansNothingArrived
<1>3. CASE WindowEnds
  <2>1. /\ marks' = [marks EXCEPT !.end = Len(captured), !.to = arrived]
        /\ pc = "window" /\ pc' = "recording" /\ UNCHANGED <<captured, arrived, result>>
    BY <1>3 DEF WindowEnds, WindowCloses
  <2>2. /\ marks' \in MarksType /\ marks'.start = marks.start /\ marks'.from = marks.from
        /\ marks'.end = Len(captured) /\ marks'.to = arrived
    BY <1>0, <2>1 DEF EvidenceTyped, MarksType
  <2> QED
    BY <1>0, <2>1, <2>2 DEF EvidenceTyped, Bounded, NoTagMeansNothingArrived
<1>4. CASE \E delta \in Deltas, push, verified \in BOOLEAN : Records(delta, push, verified)
  <2>1. NoTagMeansNothingArrived'
    BY <1>4, RecordsAreBounded
  <2>2. marks' = NoMarks /\ pc' = "observe" /\ UNCHANGED <<captured, arrived>>
    BY <1>4 DEF Records
  <2>3. NoMarks \in MarksType
    BY DEF NoMarks, MarksType
  <2> QED
    BY <2>1, <2>2, <2>3 DEF EvidenceTyped, Bounded, Dispatching
<1>5. CASE StepBegins \/ returnToParentSurface \/ RunEnds \/ Unrouted \/ BrowserCloses
  <2>1. /\ UNCHANGED evidenceVars /\ pc' \in {"ready", "observe"} \cup Ended
        /\ result' = result \/ result' = NoResult
    BY <1>5 DEF StepBegins, returnToParentSurface, RunEnds, Unrouted, BrowserCloses, Ended
  <2>2. NoResult.status # "WEBSITE_NO_OBSERVED_TAG"
    BY DEF NoResult
  <2> QED
    BY <2>1, <2>2 DEF evidenceVars, EvidenceTyped, Bounded, NoTagMeansNothingArrived, Dispatching, Ended
<1>6. CASE \/ ClickReturns \/ ClickThrows \/ \E o \in FailureOutcomes : FailureAssessed(o)
           \/ Settles \/ \E ok \in BOOLEAN : Lands(ok)
           \/ PopupDecided \/ \E f \in Fallbacks : resolveUnactionableClick(f)
  <2>1. UNCHANGED evidenceVars /\ pc \in Dispatching /\ pc' \in Dispatching \cup {"answered"}
    BY <1>6 DEF ClickReturns, ClickThrows, FailureAssessed, FailureOutcomes, Settles, Lands, PopupDecided,
                resolveUnactionableClick, engineRest, Dispatching
  <2>2. (result'.status = result.status /\ result'.arrivals = result.arrivals) \/ result'.status = "none"
    <3>1. CASE \E f \in Fallbacks : resolveUnactionableClick(f)
      <4>1. PICK f \in Fallbacks : result' = [result EXCEPT !.success = TRUE, !.fallback = f]
                                   \/ result' = [result EXCEPT !.fallback = f]
        BY <3>1 DEF resolveUnactionableClick
      <4> QED
        BY <4>1 DEF EngineTyped, ResultType
    <3>2. CASE ClickReturns \/ ClickThrows
      BY <3>2 DEF ClickReturns, ClickThrows
    <3>3. CASE \E o \in FailureOutcomes : FailureAssessed(o)
      BY <3>3 DEF FailureAssessed, FailureOutcomes, NoResult
    <3>4. CASE Settles \/ PopupDecided \/ \E ok \in BOOLEAN : Lands(ok)
      BY <3>4 DEF Settles, Lands, PopupDecided, NoResult
    <3> QED
      BY <1>6, <3>1, <3>2, <3>3, <3>4
  <2> QED
    BY <2>1, <2>2 DEF evidenceVars, EvidenceTyped, Bounded, NoTagMeansNothingArrived, Dispatching
<1> QED
  BY <1>1, <1>2, <1>3, <1>4, <1>5, <1>6, Zenon DEF Engine

\* The steps of the browser keep marks and arrivals together.
LEMMA BrowserIsBounded ==
  ASSUME ClaimInv, Bounded, Browser
  PROVE  EvidenceTyped' /\ Bounded'
<1> USE DEF ClaimInv
<1>1. CASE \E p \in Pages, shape \in task.shapes : Fires(p, shape)
  BY <1>1, EvidencePushed
<1>2. CASE \/ \E w \in Popups, p \in Pages : OpensPopup(w, p)
           \/ \E w \in Popups : Polls(w) \/ SiteCloses(w)
           \/ Navigates
           \/ \E p \in Pages \cup {NoPage}, fate \in Fates : Requests(p, fate)
  <2>1. UNCHANGED <<evidenceVars, pc, result>>
    BY <1>2 DEF OpensPopup, Polls, SiteCloses, Navigates, Requests, engineVars
  <2> QED
    BY <2>1 DEF evidenceVars, EvidenceTyped, Bounded, NoTagMeansNothingArrived
<1> QED
  BY <1>1, <1>2, Zenon DEF Browser

ClickInv == ClaimInv /\ Bounded

\* The invariant holds before the first click.
LEMMA ClickInit == Init => ClickInv
<1> SUFFICES ASSUME Init PROVE ClickInv
  OBVIOUS
<1>1. PagesTyped
  <2>1. Unclaimed \in AdoptionType
    BY DEF Unclaimed, AdoptionType, Phases
  <2>2. Attached \in Nat
    BY DEF Attached
  <2> HIDE DEF Unclaimed, Attached
  <2> QED
    BY <2>1, <2>2 DEF Init, PagesTyped
<1>2. EngineTyped
  BY ResultsAreTyped DEF Init, EngineTyped
<1>3. EvidenceTyped
  BY DEF Init, EvidenceTyped, NoMarks, MarksType
<1>4. ListenersMatchUse
  <2>1. /\ \A w \in Popups : w \in Pages /\ w # Main /\ listeners[w] = 0
        /\ \A w \in Popups : adoption[w].phase = "none"
    BY PopupsArePages DEF Init, Unclaimed
  <2> QED
    BY <2>1 DEF ListenersMatchUse, Waiting
<1>5. Claims
  BY <1>4 DEF Init, Claims, Unclaimed
<1>6. Bounded
  BY EvidenceAssumption DEF Init, Bounded, Dispatching, NoTagMeansNothingArrived, NoResult
<1> QED
  BY <1>1, <1>2, <1>3, <1>5, <1>6 DEF ClickInv, ClaimInv

\* Every step keeps the invariant.
LEMMA ClickStep ==
  ASSUME ClickInv, Next \/ UNCHANGED vars
  PROVE  ClickInv'
<1>1. CASE Engine
  BY <1>1, EngineKeepsClaims, EngineIsBounded DEF ClickInv, ClaimInv
<1>2. CASE Browser
  BY <1>2, BrowserKeepsClaims, BrowserIsBounded DEF ClickInv, ClaimInv
<1>3. CASE \E w \in Popups : Adopts(w)
  <2>1. PagesTyped' /\ EngineTyped' /\ Claims'
    BY <1>3, FunctionsKeepClaims DEF ClickInv
  <2>2. UNCHANGED <<captured, arrived, marks, pc, result>>
    BY <1>3 DEF Adopts, evidenceVars, engineVars
  <2> QED
    BY <2>1, <2>2 DEF ClickInv, ClaimInv, EvidenceTyped, Bounded, NoTagMeansNothingArrived
<1>4. CASE UNCHANGED vars
  BY <1>4 DEF vars, engineVars, evidenceVars, popupVars, ClickInv, ClaimInv, PagesTyped, EngineTyped, EvidenceTyped,
              Claims, ListenersMatchUse, Bounded, NoTagMeansNothingArrived
<1> QED
  BY <1>1, <1>2, <1>3, <1>4 DEF Next

\* Types, claims, and marks that agree with arrivals, in every reachable state.
THEOREM ClickInvariance == Spec => []ClickInv
<1>1. ClickInv /\ [Next]_vars => ClickInv'
  BY ClickStep
<1> QED
  BY ClickInit, <1>1, PTL DEF Spec

\* A popup has exactly one set of capture listeners while it is captured and
\* none once it was let go, whichever way it was claimed, judged and left:
\* popupCapture.ts:252-258, 397-400, 445-452; state.ts:251-273.
THEOREM ListenersMatch == Spec => []ListenersMatchUse
<1>1. ClickInv => ListenersMatchUse
  BY DEF ClickInv, ClaimInv, Claims
<1> QED
  BY ClickInvariance, <1>1, PTL

\* A click reported without a tag saw nothing written between its dispatch and
\* the end of its quiet period: loop.ts:1841-1853, 2259-2285, 2684-2694.
THEOREM NoTagIsSound == Spec => []NoTagMeansNothingArrived
<1>1. ClickInv => NoTagMeansNothingArrived
  BY DEF ClickInv, Bounded
<1> QED
  BY ClickInvariance, <1>1, PTL
=============================================================================
