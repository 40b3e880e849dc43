----------------------------- MODULE RosterProofs -----------------------------
(***************************************************************************)
(* Proofs about the twenty published strategies, for every calendar,       *)
(* listing, report, set of decisions and table of ticks that keep the      *)
(* assumptions of StrategyDesk and StrategyRules.                          *)
(***************************************************************************)
EXTENDS StrategyRules, FiniteSetTheorems, WellFoundedInduction, TLAPS

-----------------------------------------------------------------------------
(* The invariant.                                                          *)

\* what the plans of the strategies are
Plans == {None} \cup Int \cup {"inside", "breakout", "trailed_out"} \cup [report : Nat, exit : Nat]

Combo == [opened : Nat, at : 0..1439, expiry : Nat, plan : Plans, due : BOOLEAN, dark : BOOLEAN]

DeskType ==
  /\ strategy \in Strategies /\ listing \in {"daily", "weekly"} /\ report \in Reports \cup {None}
  /\ day \in 0..LastDay /\ TradingDay(day) /\ minute \in DayTicks(day) /\ starts \in Nat \ {0}
  /\ book \in SUBSET Combo

\* what an entry leaves true of its combo for good
Lasting(p) ==
  /\ p.opened <= day /\ day <= p.expiry /\ TradingDay(p.expiry)
  /\ strategy \in {"overnight_1dte_strangle", "earnings_iv_crush_strangle"} => p.opened < p.expiry
  /\ strategy = "pre_earnings_long_straddle" =>
       /\ p.plan \in [report : Nat, exit : Nat]
       /\ p.opened < p.plan.report /\ p.opened < p.plan.exit /\ p.plan.report < p.expiry
  /\ strategy = "pre_fomc_drift_call" =>
       /\ p.plan = DecisionAt(p.opened + 1) /\ p.opened \notin Decisions
       /\ p.opened + 2 <= p.expiry
  /\ strategy = "tsmom_long_options" => p.opened + 60 <= p.expiry

\* a combo on its last day, if none of its turns was missed, still has its
\* exit hours ahead
Railed(p) ==
  strategy \in Dated /\ ~p.dark =>
    \/ day < p.expiry
    \/ strategy = "rsi2_overbought_bear_call" /\ day \in HalfDays
    \/ /\ strategy # "tsmom_long_options"
       /\ \A t \in DayTicks(day) \cap ExitHours(strategy) :
            minute <= t /\ (~p.due => minute < t)

\* the monthly roll is not past in the month after the entry
Rolled(p) ==
  strategy = "tsmom_long_options" /\ ~p.dark =>
    \/ MonthFirst(day) <= p.opened
    \/ /\ MonthFirst(day) <= p.opened + 31
       /\ day <= MonthFirst(day) + 11
       /\ ~p.due => day = RebalanceDayOfMonth

\* a report the entry was screened for is still ahead
Screened(p) ==
  report # None /\ report.day \in p.opened..(p.opened + FileWindow) =>
    /\ strategy = "short_put_45d30d_managed" =>
         /\ p.expiry - 21 < report.day
         /\ ~p.dark => IF p.due THEN day <= report.day ELSE 21 < p.expiry - day
    /\ strategy \in {"gap_fade_bull_put", "rsi2_overbought_bear_call"} => p.expiry < report.day

\* the strategies whose entries belong to a roll, a report or a decision
Cyclic ==
  {"tsmom_long_options", "cndr_iron_condor_hold", "wput_weekly_putwrite",
   "overnight_1dte_strangle", "earnings_iv_crush_strangle", "pre_earnings_long_straddle",
   "pre_fomc_drift_call"}

\* the day on which a cycle is entered
EntryDay(cycle) ==
  CASE strategy = "tsmom_long_options" -> Soonest({d \in cycle..(cycle + 6) : TradingDay(d)})
    [] strategy = "cndr_iron_condor_hold" -> OnOrBefore(ThirdFriday(cycle))
    [] strategy = "wput_weekly_putwrite" -> OnOrBefore(cycle + 4)
    [] strategy = "overnight_1dte_strangle" -> cycle
    [] strategy = "earnings_iv_crush_strangle" -> CrushSession
    [] strategy = "pre_earnings_long_straddle" -> SessionsBefore(report.day, PrePrint.offset)
    [] OTHER -> cycle - 1

Fresh == \E p \in book : p.opened = day /\ day < p.expiry

\* on the day a cycle was entered its combo is still there
Occupied ==
  last # None =>
    /\ strategy \in Cyclic =>
         \E d \in 0..day : EntryDay(last) = d /\ (d = day => Fresh)
    /\ strategy = "zero_dte_morning_ic" =>
         \E d \in 0..day, s \in 1..starts :
           last = <<d, s>> /\ (d = day /\ s = starts => mem = day)

DeskInv ==
  /\ DeskType /\ Occupied
  /\ \A p \in book : Lasting(p) /\ Railed(p) /\ Rolled(p) /\ Screened(p)

-----------------------------------------------------------------------------
(* The calendar and the clock.                                             *)

LEMMA SoonestIs ==
  ASSUME NEW S \in SUBSET Nat, S # {}
  PROVE  Soonest(S) \in S /\ \A e \in S : Soonest(S) <= e
<1> DEFINE R == {ss \in Nat \X Nat : ss[1] < ss[2]}
<1>1. IsWellFoundedOn(R, Nat)
  BY NatLessThanWellFounded DEF OpToRel
<1>2. \A m, n \in Nat : n < m => <<n, m>> \in R
  OBVIOUS
<1> HIDE DEF R
<1>3. PICK m \in S : \A n \in S : ~(<<n, m>> \in R)
  BY <1>1, WFMin
<1>4. \A n \in S : ~(n < m)
  BY <1>2, <1>3
<1>5. \A n \in S : m <= n
  BY <1>4
<1> QED
  BY <1>5, Zenon DEF Soonest

LEMMA LatestIs ==
  ASSUME NEW N \in Nat, NEW S \in SUBSET (0..N), S # {}
  PROVE  Latest(S) \in S /\ \A e \in S : e <= Latest(S)
<1> DEFINE T == {N - e : e \in S}
<1>1. T \in SUBSET Nat /\ T # {}
  <2>1. \A e \in S : e \in Int /\ N - e \in Nat
    OBVIOUS
  <2> QED
    BY <2>1
<1>2. Soonest(T) \in T /\ \A e \in T : Soonest(T) <= e
  <2> HIDE DEF T
  <2> QED
    BY <1>1, SoonestIs
<1>3. PICK m \in S : Soonest(T) = N - m
  BY <1>2
<1>4. ASSUME NEW e \in S PROVE e <= m
  <2>1. e \in Int /\ m \in Int
    OBVIOUS
  <2>2. N - e \in T
    OBVIOUS
  <2>3. N - m <= N - e
    BY <1>2, <1>3, <2>2
  <2> QED
    BY <2>1, <2>3
<1> QED
  BY <1>4, Zenon DEF Latest

LEMMA HorizonIs == LastDay \in Nat /\ Far \in Nat /\ LastDay + 90 <= Far /\ FileWindow \in Nat
  BY CalendarAssumption DEF CalendarAssumption

\* No closure lasts five days.
LEMMA SessionNear ==
  ASSUME NEW d \in 0..LastDay
  PROVE  \E e \in d..(d + 4) : TradingDay(e)
<1>1. \A m \in 0..(Far - 4) : \E e \in m..(m + 4) : TradingDay(e)
  BY CalendarAssumption, Zenon DEF CalendarAssumption
<1>2. d \in 0..(Far - 4)
  BY HorizonIs
<1> QED
  BY <1>1, <1>2

LEMMA CloseIs ==
  ASSUME NEW d, NEW u
  PROVE  OptionsClose(d, u) \in {780, 795, 960, 975}
BY DEF OptionsClose, CloseMinute

\* A session of a strategy has ticks, and they are minutes.
LEMMA TicksAre ==
  ASSUME NEW s \in Strategies, NEW d
  PROVE  SessionTicks(s, d) # {} /\ SessionTicks(s, d) \in SUBSET (0..1439)
<1>1. Ticks[s] # {} /\ Ticks[s] \subseteq 0..1439
  BY TickAssumption, SMTT(30) DEF TickAssumption
<1>2. OptionsClose(d, Universe[s][1]) - 3 \in 0..1439
  BY CloseIs, SMTT(30)
<1> HIDE DEF Universe
<1>3. CASE d \in HalfDays
  BY <1>1, <1>2, <1>3, SMTT(30) DEF SessionTicks
<1>4. CASE d \notin HalfDays
  BY <1>1, <1>4 DEF SessionTicks
<1> QED
  BY <1>3, <1>4

LEMMA TicksAreNat ==
  ASSUME NEW s \in Strategies, NEW d
  PROVE  SessionTicks(s, d) # {} /\ SessionTicks(s, d) \in SUBSET Nat
<1>1. PICK ticks : ticks = SessionTicks(s, d)
  OBVIOUS
<1>2. ticks # {} /\ ticks \in SUBSET (0..1439)
  BY <1>1, TicksAre
<1>3. ticks \in SUBSET Nat
  BY <1>2
<1> QED
  BY <1>1, <1>2, <1>3

LEMMA MinuteIs ==
  ASSUME DeskType
  PROVE  minute \in Nat /\ minute <= 1439
<1>1. DayTicks(day) \in SUBSET (0..1439)
  BY TicksAre DEF DeskType, DayTicks
<1> QED
  BY <1>1, SMTT(30) DEF DeskType

LEMMA MonthIs ==
  ASSUME NEW d \in 0..LastDay
  PROVE  /\ MonthFirst(d) \in MonthFirsts /\ MonthFirst(d) \in 0..d
         /\ d <= MonthFirst(d) + 30
         /\ \A m \in MonthFirsts : m <= d => m <= MonthFirst(d)
<1> DEFINE S == {m \in MonthFirsts : m <= d}
<1>1. S \in SUBSET (0..d) /\ 0 \in S /\ d \in Nat
  <2>1. 0 \in MonthFirsts /\ MonthFirsts \subseteq 0..Far
    BY CalendarAssumption DEF CalendarAssumption
  <2>2. d \in Nat
    BY HorizonIs
  <2>3. 0 \in S
    BY <2>1, <2>2
  <2>4. ASSUME NEW m \in S PROVE m \in 0..d
    <3>1. m \in MonthFirsts /\ m <= d
      OBVIOUS
    <3>2. m \in 0..Far
      BY <2>1, <3>1
    <3> QED
      BY <2>2, <3>1, <3>2, HorizonIs
  <2> QED
    BY <2>2, <2>3, <2>4
<1>2. Latest(S) \in S /\ \A m \in S : m <= Latest(S)
  <2> HIDE DEF S
  <2> QED
    BY <1>1, LatestIs
<1>3. d <= Latest(S) + 30
  <2> SUFFICES ASSUME d > Latest(S) + 30 PROVE FALSE
    BY <1>1, <1>2
  <2>1. PICK m \in (Latest(S) + 1)..(Latest(S) + 31) : m \in MonthFirsts
    <3>1. Latest(S) \in 0..(Far - 31)
      BY <1>1, <1>2, HorizonIs
    <3> HIDE DEF S
    <3> QED
      BY <3>1, CalendarAssumption DEF CalendarAssumption
  <2>2. m \in S
    BY <1>1, <1>2, <2>1
  <2> QED
    BY <1>1, <1>2, <2>1, <2>2
<1> QED
  BY <1>1, <1>2, <1>3 DEF MonthFirst

LEMMA RollIs ==
  ASSUME DeskType
  PROVE  /\ RebalanceDayOfMonth \in MonthFirst(day)..(MonthFirst(day) + 6)
         /\ RebalanceDayOfMonth <= day
<1> DEFINE f == MonthFirst(day)
           S == {d \in f..(f + 6) : TradingDay(d)}
<1>1. f \in 0..LastDay /\ f <= day /\ day \in 0..LastDay /\ TradingDay(day)
  BY MonthIs, HorizonIs DEF DeskType
<1> HIDE DEF f
<1>2. PICK e \in f..(f + 4) : TradingDay(e)
  BY <1>1, SessionNear
<1>3. S \in SUBSET Nat /\ e \in S /\ (day <= f + 6 => day \in S)
  BY <1>1, <1>2, HorizonIs
<1>4. Soonest(S) \in S /\ \A d \in S : Soonest(S) <= d
  <2> HIDE DEF S
  <2> QED
    BY <1>3, SoonestIs
<1>5. Soonest(S) \in f..(f + 6) /\ Soonest(S) <= day
  BY <1>1, <1>3, <1>4, HorizonIs
<1> QED
  BY <1>5 DEF RebalanceDayOfMonth, f

LEMMA ListedIs ==
  ASSUME DeskType, NEW dtes, NEW e \in InBand(dtes)
  PROVE  e \in 0..Far /\ TradingDay(e) /\ e - day \in dtes
BY DEF InBand, Listed, DeskType

LEMMA NearestAreListed ==
  ASSUME NEW es, NEW target
  PROVE  Closest(es, target) \subseteq es /\ Earliest(es) \subseteq es
BY DEF Closest, Earliest

\* The last session before a report is after the third last.
LEMMA SessionsApart ==
  ASSUME report \in Reports, report # None
  PROVE  /\ SessionsBefore(report.day, 3) \in 0..(report.day - 1)
         /\ SessionsBefore(report.day, 1) \in 0..(report.day - 1)
         /\ SessionsBefore(report.day, 3) < SessionsBefore(report.day, 1)
<1> DEFINE r == report.day
           T(e) == {d \in e..(r - 1) : TradingDay(d)}
           S(n) == {e \in 0..(r - 1) : SessionsIn(e..(r - 1)) >= n}
<1>1. r \in Nat /\ SessionsIn(0..(r - 1)) >= 3
  BY ReportAssumption DEF ReportAssumption
<1> HIDE DEF r
<1>2. ASSUME NEW e \in 0..(r - 1)
      PROVE  /\ IsFiniteSet(T(e)) /\ Cardinality(T(e)) \in Nat
             /\ SessionsIn(e..(r - 1)) = Cardinality(T(e))
  <2>1. IsFiniteSet(e..(r - 1))
    BY <1>1, FS_Interval
  <2>2. T(e) \subseteq e..(r - 1)
    OBVIOUS
  <2> HIDE DEF T
  <2>3. IsFiniteSet(T(e)) /\ Cardinality(T(e)) \in Nat
    BY <2>1, <2>2, FS_Subset, FS_CardinalityType
  <2> QED
    BY <2>3, Zenon DEF SessionsIn, T
<1>3. 0 \in 0..(r - 1)
  <2> SUFFICES ASSUME r = 0 PROVE FALSE
    BY <1>1
  <2>1. {d \in 0..(0 - 1) : TradingDay(d)} = {}
    OBVIOUS
  <2>2. SessionsIn(0..(r - 1)) = 0
    BY <2>1, FS_EmptySet DEF SessionsIn
  <2> QED
    BY <1>1, <2>2
<1>4. /\ 0 \in S(3) /\ 0 \in S(1) /\ S(3) \subseteq S(1) /\ S(1) \in SUBSET (0..(r - 1))
      /\ S(3) \in SUBSET (0..(r - 1))
  <2>1. \A e \in 0..(r - 1) : SessionsIn(e..(r - 1)) \in Nat
    BY <1>2
  <2> HIDE DEF T
  <2> QED
    BY <1>1, <1>3, <2>1
<1> DEFINE a == Latest(S(3))
           b == Latest(S(1))
<1>5. a \in S(3) /\ b \in S(1) /\ \A e \in S(1) : e <= b
  <2> HIDE DEF S
  <2>1. r - 1 \in Nat
    BY <1>1, <1>3
  <2> QED
    BY <1>4, <2>1, LatestIs
<1>6. a \in 0..(r - 1) /\ b \in 0..(r - 1) /\ a <= b /\ SessionsIn(a..(r - 1)) >= 3
  BY <1>4, <1>5
<1> HIDE DEF a, b
<1>7. a # b
  <2> SUFFICES ASSUME a = b PROVE FALSE
    OBVIOUS
  <2>1. T(a) \subseteq {a}
    <3> SUFFICES ASSUME NEW d \in T(a), d # a PROVE FALSE
      OBVIOUS
    <3>1. d \in 0..(r - 1) /\ d \in T(d) /\ a < d
      BY <1>6
    <3>2. /\ IsFiniteSet(T(d)) /\ SessionsIn(d..(r - 1)) = Cardinality(T(d))
          /\ Cardinality(T(d)) \in Nat
      BY <1>2, <3>1
    <3>3. Cardinality(T(d)) # 0
      <4> HIDE DEF T
      <4> QED
        BY <3>1, <3>2, FS_EmptySet
    <3>4. d \in S(1)
      BY <3>1, <3>2, <3>3
    <3> QED
      BY <1>5, <1>6, <3>1, <3>4
  <2>2. Cardinality({a}) = 1 /\ IsFiniteSet({a})
    BY FS_Singleton
  <2>3. Cardinality(T(a)) <= 1
    <3> HIDE DEF T
    <3> QED
      BY <2>1, <2>2, FS_Subset
  <2>4. SessionsIn(a..(r - 1)) = Cardinality(T(a)) /\ Cardinality(T(a)) \in Nat
    BY <1>2, <1>6
  <2> HIDE DEF T
  <2> QED
    BY <1>6, <2>3, <2>4
<1>8. SessionsBefore(report.day, 3) = a /\ SessionsBefore(report.day, 1) = b
  BY Zenon DEF SessionsBefore, a, b, r
<1> QED
  BY <1>6, <1>7, <1>8 DEF r

-----------------------------------------------------------------------------
(* Entries.                                                                *)

\* what the scans ask of an entry
EntryOk(e, plan) ==
  /\ e \in 0..Far /\ TradingDay(e) /\ day <= e /\ plan \in Plans
  /\ strategy \in Dated \cup Cyclic => day < e
  /\ strategy = "short_put_45d30d_managed" => day + 30 <= e /\ ~ReportIn(day, e - 21)
  /\ strategy \in {"gap_fade_bull_put", "rsi2_overbought_bear_call"} => ~ReportIn(day, e)
  /\ strategy = "tsmom_long_options" => day + 60 <= e
  /\ strategy = "pre_earnings_long_straddle" =>
       /\ plan \in [report : Nat, exit : Nat]
       /\ day < plan.report /\ day < plan.exit /\ plan.report < e
  /\ strategy = "pre_fomc_drift_call" =>
       plan = DecisionAt(day + 1) /\ day \notin Decisions /\ day + 2 <= e
  /\ strategy \in Cyclic => EntryDay(CycleNow) = day /\ ~Fresh
  /\ strategy = "zero_dte_morning_ic" => mem # day /\ mem' = day

Entered == \E e, plan : EntryOk(e, plan) /\ Enter(e, plan)

\* a name is stamped without an entry
Stamped ==
  /\ strategy = "zero_dte_morning_ic" /\ mem' = day
  /\ UNCHANGED <<book, last>> /\ closed' = None /\ StillDesk

LEMMA ClosestIs ==
  ASSUME DeskType, NEW dtes, NEW es, es \subseteq InBand(dtes), NEW target,
         NEW e \in Closest(es, target)
  PROVE  e \in es /\ e \in 0..Far /\ TradingDay(e) /\ e - day \in dtes
BY ListedIs, NearestAreListed

LEMMA EarliestIs ==
  ASSUME DeskType, NEW dtes, NEW es, es \subseteq InBand(dtes), NEW e \in Earliest(es)
  PROVE  e \in es /\ e \in 0..Far /\ TradingDay(e) /\ e - day \in dtes
BY ListedIs, NearestAreListed

LEMMA EmptyNotFresh ==
  ASSUME DeskType, \A p \in book : p.expiry <= day
  PROVE  ~Fresh
BY HorizonIs DEF Fresh, DeskType, Combo

LEMMA PremiumEnters ==
  ASSUME DeskType,
         \/ ShortPutScan \/ StrangleScan \/ CondorScan \/ JadeScan \/ VrpScan
         \/ CndrScan \/ WputScan \/ ZeroDteScan \/ OvernightScan
  PROVE  Entered \/ Stamped
<1> day \in 0..LastDay /\ day \in Nat
  BY HorizonIs DEF DeskType
<1> None \in Plans
  BY DEF Plans
<1>1. CASE ShortPutScan
  <2>1. strategy = "short_put_45d30d_managed"
    BY <1>1 DEF ShortPutScan, Scans
  <2>2. PICK e \in ShortPutExpiry : ~ReportIn(day, e - 21) /\ Enter(e, None)
    BY <1>1 DEF ShortPutScan, ShortPut
  <2>3. e \in 0..Far /\ TradingDay(e) /\ e - day \in 30..60
    <3> DEFINE es == {x \in InBand(ShortPut.dtes) : x = StandardMonthlyExpiry(x)}
    <3>1. e \in Closest(es, ShortPut.target)
      BY DEF ShortPutExpiry
    <3>2. es \subseteq InBand(30..60)
      BY DEF ShortPut
    <3> HIDE DEF es
    <3> QED
      BY <3>1, <3>2, ClosestIs
  <2>4. EntryOk(e, None)
    BY <2>1, <2>2, <2>3, HorizonIs DEF EntryOk, Cyclic
  <2> QED
    BY <2>2, <2>4 DEF Entered
<1>2. CASE StrangleScan \/ JadeScan
  <2>1. strategy \in {"strangle_45d16d_managed", "jade_lizard"}
    BY <1>2 DEF StrangleScan, JadeScan, Scans
  <2>2. PICK e \in StrangleExpiry \cup JadeExpiry : Enter(e, None)
    BY <1>2 DEF StrangleScan, JadeScan
  <2>3. e \in 0..Far /\ TradingDay(e) /\ e - day \in 35..50
    <3>1. e \in Closest(InBand(35..50), 45)
      BY DEF StrangleExpiry, JadeExpiry, Strangle, Jade
    <3> QED
      BY <3>1, NearestAreListed, ListedIs
  <2>4. EntryOk(e, None)
    BY <2>1, <2>3, HorizonIs DEF EntryOk, Cyclic
  <2> QED
    BY <2>2, <2>4 DEF Entered
<1>3. CASE CondorScan
  <2>1. strategy = "ic_45d16d_managed"
    BY <1>3 DEF CondorScan, Scans
  <2>2. PICK e \in CondorExpiry : Enter(e, None)
    BY <1>3 DEF CondorScan
  <2> DEFINE band == InBand(Condor.dtes)
             near == {x \in band : \A f \in band :
                        Distance(x, Condor.target) <= Distance(f, Condor.target)}
             monthly == {x \in near : x = ThirdFriday(MonthFirst(x))}
  <2>3. e \in Earliest(monthly) \cup Earliest(near)
    BY <2>2 DEF CondorExpiry
  <2>4. monthly \subseteq InBand(35..55) /\ near \subseteq InBand(35..55)
    BY DEF Condor
  <2> HIDE DEF near, monthly
  <2>5. e \in 0..Far /\ TradingDay(e) /\ e - day \in 35..55
    BY <2>3, <2>4, EarliestIs
  <2>6. EntryOk(e, None)
    BY <2>1, <2>5, HorizonIs DEF EntryOk, Cyclic
  <2> QED
    BY <2>2, <2>6 DEF Entered
<1>4. CASE VrpScan
  <2>1. strategy = "vrp_short_straddle"
    BY <1>4 DEF VrpScan, Scans
  <2>2. PICK e \in VrpExpiry : Enter(e, None)
    BY <1>4 DEF VrpScan
  <2>3. e \in 0..Far /\ TradingDay(e) /\ e - day \in 25..35
    <3>1. e \in Closest(InBand(25..35), 30)
      BY DEF VrpExpiry, Vrp
    <3> QED
      BY <3>1, NearestAreListed, ListedIs
  <2>4. EntryOk(e, None)
    BY <2>1, <2>3, HorizonIs DEF EntryOk, Cyclic
  <2> QED
    BY <2>2, <2>4 DEF Entered
<1>5. CASE CndrScan
  <2>1. strategy = "cndr_iron_condor_hold"
    BY <1>5 DEF CndrScan, Scans
  <2>2. PICK e \in CndrExpiry : Enter(e, None)
    BY <1>5 DEF CndrScan
  <2>3. e \in InBand(21..40)
    BY DEF CndrExpiry, Cndr
  <2>4. e \in 0..Far /\ TradingDay(e) /\ e - day \in 21..40
    BY <2>3, ListedIs
  <2>5. ~Fresh
    BY <1>5, EmptyNotFresh DEF CndrScan
  <2>6. CycleNow = MonthFirst(day)
    BY <2>1 DEF CycleNow
  <2>7. EntryDay(CycleNow) = day
    BY <1>5, <2>1, <2>6 DEF EntryDay, CndrScan, RollDateOfMonth
  <2>8. EntryOk(e, None)
    BY <2>1, <2>4, <2>5, <2>7, HorizonIs DEF EntryOk
  <2> QED
    BY <2>2, <2>8 DEF Entered
<1>6. CASE WputScan
  <2>1. strategy = "wput_weekly_putwrite"
    BY <1>6 DEF WputScan, Scans
  <2>2. PICK e \in WputExpiry : Enter(e, None)
    BY <1>6 DEF WputScan
  <2>3. e \in 0..Far /\ TradingDay(e) /\ e - day \in 5..9
    BY EarliestIs DEF WputExpiry, Wput
  <2>4. ~Fresh
    BY <1>6, EmptyNotFresh DEF WputScan
  <2>5. CycleNow = day - Weekday(day)
    BY <2>1 DEF CycleNow
  <2>6. EntryDay(CycleNow) = day
    BY <1>6, <2>1, <2>5 DEF EntryDay, WputScan, RollDayOfWeek
  <2>7. EntryOk(e, None)
    BY <2>1, <2>3, <2>4, <2>6, HorizonIs DEF EntryOk
  <2> QED
    BY <2>2, <2>7 DEF Entered
<1>7. CASE ZeroDteScan
  <2>1. strategy = "zero_dte_morning_ic" /\ mem # day /\ mem' = day
    BY <1>7 DEF ZeroDteScan, Scans
  <2>2. CASE UNCHANGED <<book, last>> /\ closed' = None /\ StillDesk
    BY <2>1, <2>2 DEF Stamped
  <2>3. CASE day \in InBand({0}) /\ Enter(day, None)
    <3>1. day \in 0..Far /\ TradingDay(day)
      BY <2>3, ListedIs
    <3>2. EntryOk(day, None)
      BY <2>1, <3>1 DEF EntryOk, Dated, Cyclic
    <3> QED
      BY <2>3, <3>2 DEF Entered
  <2> QED
    BY <1>7, <2>2, <2>3 DEF ZeroDteScan
<1>8. CASE OvernightScan
  <2>1. strategy = "overnight_1dte_strangle" /\ book = {}
    BY <1>8 DEF OvernightScan, Scans
  <2>2. PICK e \in OvernightExpiry : Enter(e, None)
    BY <1>8 DEF OvernightScan
  <2>3. e \in 0..Far /\ TradingDay(e) /\ e - day \in 1..3
    BY EarliestIs DEF OvernightExpiry, Overnight
  <2>4. ~Fresh /\ EntryDay(CycleNow) = day
    BY <2>1 DEF Fresh, EntryDay, CycleNow
  <2>5. EntryOk(e, None)
    BY <2>1, <2>3, <2>4, HorizonIs DEF EntryOk
  <2> QED
    BY <2>2, <2>5 DEF Entered
<1> QED
  BY <1>1, <1>2, <1>3, <1>4, <1>5, <1>6, <1>7, <1>8

LEMMA TrendEnters ==
  ASSUME DeskType,
         \/ BackspreadScan \/ CalendarScan \/ DonchianScan \/ GapFadeScan
         \/ BearCallScan \/ OversoldPutScan \/ SqueezeScan \/ TsmomScan
  PROVE  Entered
<1> day \in 0..LastDay /\ day \in Nat
  BY HorizonIs DEF DeskType
<1> None \in Plans
  BY DEF Plans
<1>1. CASE BackspreadScan
  <2>1. strategy = "backspread_1x2"
    BY <1>1 DEF BackspreadScan, Scans
  <2>2. PICK e \in BackspreadExpiry : Enter(e, None)
    BY <1>1 DEF BackspreadScan
  <2>3. e \in Closest(InBand(45..75), 60)
    BY DEF BackspreadExpiry, Backspread
  <2>4. e \in 0..Far /\ TradingDay(e) /\ e - day \in 45..75
    BY <2>3, NearestAreListed, ListedIs
  <2>5. EntryOk(e, None)
    BY <2>1, <2>4, HorizonIs DEF EntryOk, Dated, Cyclic
  <2> QED
    BY <2>2, <2>5 DEF Entered
<1>2. CASE CalendarScan
  <2>1. strategy = "atm_calendar_low_iv"
    BY <1>2 DEF CalendarScan, Scans
  <2>2. PICK months \in CalendarExpiries : Enter(months[1], months[2])
    BY <1>2 DEF CalendarScan
  <2>3. months[1] \in Earliest(InBand(7..10)) /\ months[2] \in Earliest(InBand(30..40))
    BY <2>2 DEF CalendarExpiries, Calendar
  <2>4. /\ months[1] \in 0..Far /\ TradingDay(months[1]) /\ months[1] - day \in 7..10
        /\ months[2] \in 0..Far
    <3>1. months[1] \in InBand(7..10) /\ months[2] \in InBand(30..40)
      BY <2>3 DEF Earliest
    <3> QED
      BY <3>1, ListedIs
  <2>5. EntryOk(months[1], months[2])
    BY <2>1, <2>4, HorizonIs DEF EntryOk, Cyclic, Plans
  <2> QED
    BY <2>2, <2>5 DEF Entered
<1>3. CASE DonchianScan
  <2>1. strategy = "donchian_breakout_debit_vert"
    BY <1>3 DEF DonchianScan, Scans
  <2>2. PICK e \in DonchianExpiry : Enter(e, None)
    BY <1>3 DEF DonchianScan
  <2>3. e \in Closest(InBand(45..75), 60)
    BY DEF DonchianExpiry, Donchian
  <2>4. e \in 0..Far /\ TradingDay(e) /\ e - day \in 45..75
    BY <2>3, NearestAreListed, ListedIs
  <2>5. EntryOk(e, None)
    BY <2>1, <2>4, HorizonIs DEF EntryOk, Cyclic
  <2> QED
    BY <2>2, <2>5 DEF Entered
<1>4. CASE GapFadeScan
  <2>1. strategy = "gap_fade_bull_put"
    BY <1>4 DEF GapFadeScan, Scans
  <2>2. PICK e \in GapFadeExpiry : ~ReportIn(day, e) /\ Enter(e, None)
    BY <1>4 DEF GapFadeScan
  <2>3. e \in Earliest(InBand(0..5))
    BY DEF GapFadeExpiry, GapFade
  <2>4. e \in 0..Far /\ TradingDay(e) /\ e - day \in 0..5
    BY <2>3, NearestAreListed, ListedIs
  <2>5. EntryOk(e, None)
    BY <2>1, <2>2, <2>4, HorizonIs DEF EntryOk, Cyclic, Dated
  <2> QED
    BY <2>2, <2>5 DEF Entered
<1>5. CASE BearCallScan
  <2>1. strategy = "rsi2_overbought_bear_call"
    BY <1>5 DEF BearCallScan, Scans
  <2>2. PICK e \in BearCallExpiry : ~ReportIn(day, e) /\ Enter(e, None)
    BY <1>5 DEF BearCallScan
  <2>3. e \in Earliest(InBand(10..17))
    BY DEF BearCallExpiry, BearCall
  <2>4. e \in 0..Far /\ TradingDay(e) /\ e - day \in 10..17
    BY <2>3, NearestAreListed, ListedIs
  <2>5. EntryOk(e, None)
    BY <2>1, <2>2, <2>4, HorizonIs DEF EntryOk, Cyclic
  <2> QED
    BY <2>2, <2>5 DEF Entered
<1>6. CASE OversoldPutScan
  <2>1. strategy = "rsi2_oversold_short_put"
    BY <1>6 DEF OversoldPutScan, Scans
  <2>2. PICK e \in OversoldPutExpiry : Enter(e, None)
    BY <1>6 DEF OversoldPutScan
  <2>3. e \in Earliest(InBand(7..14))
    BY DEF OversoldPutExpiry, OversoldPut
  <2>4. e \in 0..Far /\ TradingDay(e) /\ e - day \in 7..14
    BY <2>3, NearestAreListed, ListedIs
  <2>5. EntryOk(e, None)
    BY <2>1, <2>4, HorizonIs DEF EntryOk, Cyclic, Dated
  <2> QED
    BY <2>2, <2>5 DEF Entered
<1>7. CASE SqueezeScan
  <2>1. strategy = "squeeze_long_straddle"
    BY <1>7 DEF SqueezeScan, Scans
  <2>2. PICK e \in SqueezeExpiry : Enter(e, "inside")
    BY <1>7 DEF SqueezeScan
  <2>3. e \in Closest(InBand(30..50), 45)
    BY DEF SqueezeExpiry, Squeeze
  <2>4. e \in 0..Far /\ TradingDay(e) /\ e - day \in 30..50
    BY <2>3, NearestAreListed, ListedIs
  <2>5. EntryOk(e, "inside")
    BY <2>1, <2>4, HorizonIs DEF EntryOk, Cyclic, Plans
  <2> QED
    BY <2>2, <2>5 DEF Entered
<1>8. CASE TsmomScan
  <2>1. strategy = "tsmom_long_options" /\ book = {} /\ day = RebalanceDayOfMonth
    BY <1>8 DEF TsmomScan, Scans
  <2>2. PICK sign \in Signs \ {0}, e \in TsmomExpiry : Enter(e, sign)
    BY <1>8 DEF TsmomScan
  <2>3. e \in Closest(InBand(60..90), 75)
    BY DEF TsmomExpiry, Tsmom
  <2>4. e \in 0..Far /\ TradingDay(e) /\ e - day \in 60..90
    BY <2>3, NearestAreListed, ListedIs
  <2>5. ~Fresh /\ EntryDay(CycleNow) = day
    BY <2>1 DEF Fresh, EntryDay, CycleNow, RebalanceDayOfMonth
  <2>6. EntryOk(e, sign)
    BY <2>1, <2>4, <2>5, HorizonIs DEF EntryOk, Signs, Plans
  <2> QED
    BY <2>2, <2>6 DEF Entered
<1> QED
  BY <1>1, <1>2, <1>3, <1>4, <1>5, <1>6, <1>7, <1>8

\* In the window of the drift the next decision is tomorrow's.
LEMMA DecisionIsTomorrow ==
  ASSUME DeskType, FomcScan
  PROVE  /\ Soonest(Ahead) = DecisionAt(day + 1) /\ day \notin Decisions /\ day + 1 \in Decisions
         /\ \E e \in FomcExpiry(DecisionAt(day + 1)) : Enter(e, DecisionAt(day + 1))
<1>1. day \in Nat /\ minute \in 0..1439
  BY HorizonIs, TicksAre DEF DeskType, DayTicks
<1>2. Decisions \subseteq Nat
  BY HorizonIs, CalendarAssumption DEF CalendarAssumption
<1>3. \A x \in Ahead : \E d \in Decisions :
        x = DecisionAt(d) /\ d - day \in 0..7 /\ DecisionAt(d) > Now
  BY DEF Ahead
<1>4. Ahead \in SUBSET Nat /\ Ahead # {}
  BY <1>2, <1>3 DEF DecisionAt, FomcScan
<1>5. Soonest(Ahead) \in Ahead /\ \A x \in Ahead : Soonest(Ahead) <= x
  BY <1>4, SoonestIs
<1>6. PICK d \in Decisions :
        Soonest(Ahead) = DecisionAt(d) /\ d - day \in 0..7 /\ DecisionAt(d) > Now
  BY <1>3, <1>5
<1>7. Within(Soonest(Ahead) - 1455 - day * 1440, Soonest(Ahead) - 1455 + 10 - day * 1440)
  BY DEF FomcScan, Fomc
<1>8. d = day + 1 /\ minute < 840
  BY <1>1, <1>2, <1>6, <1>7 DEF Within, DecisionAt
<1>9. day \notin Decisions
  <2> SUFFICES ASSUME day \in Decisions PROVE FALSE
    OBVIOUS
  <2>1. DecisionAt(day) \in Ahead
    BY <1>1, <1>8 DEF Ahead, DecisionAt, Now
  <2> QED
    BY <1>1, <1>5, <1>6, <1>8, <2>1 DEF DecisionAt
<1>10. \E e \in FomcExpiry(Soonest(Ahead)) : Enter(e, Soonest(Ahead))
  BY DEF FomcScan
<1> QED
  BY <1>6, <1>8, <1>9, <1>10

LEMMA EventEnters ==
  ASSUME DeskType, CrushScan \/ PrePrintScan \/ FomcScan
  PROVE  Entered
<1> day \in 0..LastDay /\ day \in Nat
  BY HorizonIs DEF DeskType
<1> None \in Plans
  BY DEF Plans
<1>1. CASE CrushScan
  <2>1. strategy = "earnings_iv_crush_strangle" /\ book = {} /\ day = CrushSession
    BY <1>1 DEF CrushScan, Scans
  <2>2. PICK e \in CrushExpiry : Enter(e, None)
    BY <1>1 DEF CrushScan
  <2>3. e \in InBand(1..12)
    BY DEF CrushExpiry, Crush, Earliest
  <2>4. e \in 0..Far /\ TradingDay(e) /\ e - day \in 1..12
    BY <2>3, ListedIs
  <2>5. ~Fresh /\ EntryDay(CycleNow) = day
    BY <2>1 DEF Fresh, EntryDay, CycleNow
  <2>6. EntryOk(e, None)
    BY <2>1, <2>4, <2>5, HorizonIs DEF EntryOk
  <2> QED
    BY <2>2, <2>6 DEF Entered
<1>2. CASE PrePrintScan
  <2>1. /\ strategy = "pre_earnings_long_straddle" /\ book = {}
        /\ day = SessionsBefore(report.day, 3) /\ report \in Reports /\ report # None
    BY <1>2 DEF PrePrintScan, PrePrint, Scans, ReportOnFile, DeskType
  <2> DEFINE plan == [report |-> report.day, exit |-> SessionsBefore(report.day, 1)]
  <2>2. PICK e \in PrePrintExpiry : Enter(e, plan)
    BY <1>2 DEF PrePrintScan
  <2>3. e \in InBand(10..60) /\ report.day < e
    BY DEF PrePrintExpiry, PrePrint, Earliest
  <2>4. e \in 0..Far /\ TradingDay(e) /\ e - day \in 10..60
    BY <2>3, ListedIs
  <2>5. ~Fresh /\ EntryDay(CycleNow) = day
    BY <2>1 DEF Fresh, EntryDay, CycleNow, PrePrint
  <2>6. report.day \in Nat /\ day < report.day /\ day < SessionsBefore(report.day, 1)
        /\ SessionsBefore(report.day, 1) \in Nat
    BY <2>1, SessionsApart, ReportAssumption DEF ReportAssumption
  <2>7. /\ plan \in Plans /\ plan \in [report : Nat, exit : Nat] /\ plan.report = report.day
        /\ plan.exit = SessionsBefore(report.day, 1)
    BY <2>6 DEF Plans
  <2> HIDE DEF plan
  <2>8. EntryOk(e, plan)
    BY <2>1, <2>3, <2>4, <2>5, <2>6, <2>7, HorizonIs DEF EntryOk
  <2> QED
    BY <2>2, <2>8 DEF Entered
<1>3. CASE FomcScan
  <2>1. strategy = "pre_fomc_drift_call" /\ book = {}
    BY <1>3 DEF FomcScan, Scans
  <2>2. /\ day \notin Decisions /\ day + 1 \in Decisions
        /\ \E e \in FomcExpiry(DecisionAt(day + 1)) : Enter(e, DecisionAt(day + 1))
    BY <1>3, DecisionIsTomorrow
  <2>3. PICK e \in FomcExpiry(DecisionAt(day + 1)) : Enter(e, DecisionAt(day + 1))
    BY <2>2
  <2>4. e \in InBand(1..10) /\ e > DecisionAt(day + 1) \div 1440
    BY DEF FomcExpiry, Fomc, Earliest
  <2>5. DecisionAt(day + 1) \div 1440 = day + 1 /\ DecisionAt(day + 1) \in Int
    BY DEF DecisionAt
  <2>6. e \in 0..Far /\ TradingDay(e) /\ e - day \in 1..10 /\ day + 2 <= e
    BY <2>4, <2>5, ListedIs
  <2>7. ~Fresh
    BY <2>1 DEF Fresh
  <2>8. EntryDay(CycleNow) = day
    <3> DEFINE later == {d \in Decisions : d > day}
    <3>1. CycleNow = Soonest(later)
      BY <2>1 DEF CycleNow
    <3>2. later \in SUBSET Nat /\ day + 1 \in later /\ \A d \in later : day + 1 <= d
      <4>1. Decisions \subseteq Nat
        BY HorizonIs, CalendarAssumption DEF CalendarAssumption
      <4>2. \A d \in later : d \in Nat /\ day + 1 <= d
        BY <4>1
      <4> QED
        BY <2>2, <4>2
    <3> HIDE DEF later
    <3>3. Soonest(later) = day + 1
      <4>1. Soonest(later) \in later /\ \A d \in later : Soonest(later) <= d
        BY <3>2, SoonestIs
      <4>2. Soonest(later) <= day + 1 /\ day + 1 <= Soonest(later) /\ Soonest(later) \in Nat
        BY <3>2, <4>1
      <4> QED
        BY <4>2
    <3> QED
      BY <2>1, <3>1, <3>3 DEF EntryDay
  <2>9. EntryOk(e, DecisionAt(day + 1))
    BY <2>1, <2>2, <2>5, <2>6, <2>7, <2>8, HorizonIs DEF EntryOk, Plans
  <2> QED
    BY <2>3, <2>9 DEF Entered
<1> QED
  BY <1>1, <1>2, <1>3

LEMMA ScanEnters ==
  ASSUME DeskType, Scan
  PROVE  Entered \/ Stamped
BY PremiumEnters, TrendEnters, EventEnters DEF Scan

-----------------------------------------------------------------------------
(* Turns of the open combos.                                               *)

Rails == {"expiry_backstop", "settled_at_expiry"}

\* what holding a combo says of it
Kept(p) ==
  /\ strategy = "short_put_45d30d_managed" => 21 < p.expiry - day
  /\ strategy = "tsmom_long_options" => ~TsmomDue(p)
  /\ strategy \in Dated \ {"tsmom_long_options"} /\ p.expiry <= day =>
       minute \notin ExitHours(strategy)

Sold(p) == strategy \in Cyclic => p.opened < day

Turned ==
  \E p \in book :
    /\ p.due
    /\ \/ Blind(p)
       \/ Hold(p) /\ Kept(p)
       \/ \E rule : /\ Close(p, rule) /\ rule \notin Rails /\ Sold(p)
                    /\ strategy # "squeeze_long_straddle" => UNCHANGED mem

LEMMA DecideIs ==
  ASSUME NEW p, NEW n \in Nat, NEW rules, DOMAIN rules = 1..n, Decide(p, rules)
  PROVE  \/ Hold(p) /\ \A i \in 1..n : ~rules[i][1]
         \/ \E i \in 1..n : rules[i][1] /\ Close(p, rules[i][2]) /\ UNCHANGED mem
<1> DEFINE on == {i \in DOMAIN rules : rules[i][1]}
<1>1. CASE on = {}
  BY <1>1 DEF Decide
<1>2. CASE on # {}
  <2>1. on \in SUBSET Nat
    OBVIOUS
  <2>2. Soonest(on) \in on
    <3> HIDE DEF on
    <3> QED
      BY <1>2, <2>1, SoonestIs
  <2>3. Close(p, rules[Soonest(on)][2]) /\ UNCHANGED mem
    BY <1>2 DEF Decide
  <2> QED
    BY <2>2, <2>3
<1> QED
  BY <1>1, <1>2

LEMMA OneRule ==
  ASSUME NEW p \in book, p.due, NEW a, NEW x,
         Decide(p, << <<a, x>> >>), x \notin Rails,
         ~a => Kept(p), a => Sold(p)
  PROVE  Turned
<1> DEFINE rules == << <<a, x>> >>
<1>1. DOMAIN rules = 1..1 /\ rules[1] = <<a, x>>
  OBVIOUS
<1>2. Decide(p, rules)
  OBVIOUS
<1> HIDE DEF rules
<1>3. \/ Hold(p) /\ \A i \in 1..1 : ~rules[i][1]
      \/ \E i \in 1..1 : rules[i][1] /\ Close(p, rules[i][2]) /\ UNCHANGED mem
  BY <1>1, <1>2, DecideIs
<1>4. \A i \in 1..1 : i = 1
  OBVIOUS
<1>5. 1 \in 1..1
  OBVIOUS
<1>6. CASE Hold(p) /\ ~a
  BY <1>6 DEF Turned
<1>7. CASE (a) /\ (\E rule \in {x} : Close(p, rule)) /\ UNCHANGED mem
  BY <1>7 DEF Turned
<1> QED
  BY <1>1, <1>3, <1>4, <1>5, <1>6, <1>7

LEMMA TwoRules ==
  ASSUME NEW p \in book, p.due, NEW a, NEW b, NEW x, NEW y,
         Decide(p, << <<a, x>>, <<b, y>> >>), x \notin Rails, y \notin Rails,
         ~a /\ ~b => Kept(p), a \/ b => Sold(p)
  PROVE  Turned
<1> DEFINE rules == << <<a, x>>, <<b, y>> >>
<1>1. DOMAIN rules = 1..2 /\ rules[1] = <<a, x>> /\ rules[2] = <<b, y>>
  OBVIOUS
<1>2. Decide(p, rules)
  OBVIOUS
<1> HIDE DEF rules
<1>3. \/ Hold(p) /\ \A i \in 1..2 : ~rules[i][1]
      \/ \E i \in 1..2 : rules[i][1] /\ Close(p, rules[i][2]) /\ UNCHANGED mem
  BY <1>1, <1>2, DecideIs
<1>4. \A i \in 1..2 : i = 1 \/ i = 2
  OBVIOUS
<1>5. 1 \in 1..2 /\ 2 \in 1..2
  OBVIOUS
<1>6. CASE Hold(p) /\ ~a /\ ~b
  BY <1>6 DEF Turned
<1>7. CASE (a \/ b) /\ (\E rule \in {x, y} : Close(p, rule)) /\ UNCHANGED mem
  BY <1>7 DEF Turned
<1> QED
  BY <1>1, <1>3, <1>4, <1>5, <1>6, <1>7

LEMMA ThreeRules ==
  ASSUME NEW p \in book, p.due, NEW a, NEW b, NEW c, NEW x, NEW y, NEW z,
         Decide(p, << <<a, x>>,
                      <<b, y>>,
                      <<c, z>> >>), x \notin Rails, y \notin Rails, z \notin Rails,
         ~a /\ ~b /\ ~c => Kept(p), a \/ b \/ c => Sold(p)
  PROVE  Turned
<1> DEFINE rules == << <<a, x>>, <<b, y>>, <<c, z>> >>
<1>1. DOMAIN rules = 1..3 /\ rules[1] = <<a, x>> /\ rules[2] = <<b, y>> /\ rules[3] = <<c, z>>
  OBVIOUS
<1>2. Decide(p, rules)
  OBVIOUS
<1> HIDE DEF rules
<1>3. \/ Hold(p) /\ \A i \in 1..3 : ~rules[i][1]
      \/ \E i \in 1..3 : rules[i][1] /\ Close(p, rules[i][2]) /\ UNCHANGED mem
  BY <1>1, <1>2, DecideIs
<1>4. \A i \in 1..3 : i = 1 \/ i = 2 \/ i = 3
  OBVIOUS
<1>5. 1 \in 1..3 /\ 2 \in 1..3 /\ 3 \in 1..3
  OBVIOUS
<1>6. CASE Hold(p) /\ ~a /\ ~b /\ ~c
  BY <1>6 DEF Turned
<1>7. CASE (a \/ b \/ c) /\ (\E rule \in {x, y, z} : Close(p, rule)) /\ UNCHANGED mem
  BY <1>7 DEF Turned
<1> QED
  BY <1>1, <1>3, <1>4, <1>5, <1>6, <1>7

LEMMA TurnIs ==
  ASSUME NEW s, NEW p \in Turn(s)
  PROVE  strategy = s /\ p \in book /\ p.due /\ ~BackstopDue(p)
BY DEF Turn

LEMMA PremiumTurns ==
  ASSUME DeskInv,
         \/ ShortPutManage \/ StrangleManage \/ CondorManage \/ JadeManage \/ VrpManage
         \/ CndrManage \/ WputManage \/ ZeroDteManage \/ OvernightManage
  PROVE  Turned
<1> day \in Nat /\ book \subseteq Combo
  BY HorizonIs DEF DeskInv, DeskType
<1> minute \in Nat
  BY MinuteIs DEF DeskInv
<1>1. CASE ShortPutManage
  <2>1. PICK p \in Turn("short_put_45d30d_managed") :
          \/ Blind(p)
          \/ \E cost \in Costs :
               Decide(p, << <<cost <= ShortPut.profit, "profit_50pct">>,
                            <<Dte(p) <= ShortPut.exit, "dte_21_management">> >>)
    BY <1>1 DEF ShortPutManage
  <2>2. /\ strategy = "short_put_45d30d_managed" /\ p \in book /\ p.due
        /\ p.expiry \in Nat /\ p.opened \in Nat /\ Lasting(p)
    BY TurnIs DEF Combo, DeskInv
  <2>3. ASSUME NEW cost \in Costs,
               Decide(p, << <<cost <= ShortPut.profit, "profit_50pct">>,
                            <<Dte(p) <= ShortPut.exit, "dte_21_management">> >>)
        PROVE  Turned
    <3> DEFINE a == cost <= ShortPut.profit
               b == Dte(p) <= ShortPut.exit
    <3>1. Decide(p, << <<a, "profit_50pct">>, <<b, "dte_21_management">> >>)
      BY <2>3
    <3>2. Dte(p) <= 21 => b
      BY DEF ShortPut
    <3> HIDE DEF a, b
    <3>3. ~a /\ ~b => Kept(p)
      BY <2>2, <3>2 DEF Kept, Dte
    <3>4. a \/ b => Sold(p)
      BY <2>2, <3>2 DEF Sold, Cyclic
    <3> QED
      BY <2>2, <3>1, <3>3, <3>4, TwoRules DEF Rails
  <2>4. CASE Blind(p)
    BY <2>2, <2>4 DEF Turned
  <2> QED
    BY <2>1, <2>3, <2>4
<1>2. CASE StrangleManage
  <2>1. PICK p \in Turn("strangle_45d16d_managed") :
          \E cost \in Costs \cup {None} :
            Decide(p, << <<cost # None /\ cost <= Strangle.profit, "profit_50pct">>,
                         <<Dte(p) <= Strangle.exit, "dte_21_management">>,
                         <<cost # None /\ cost >= Strangle.loss, "loss_2x_credit">> >>)
    BY <1>2 DEF StrangleManage
  <2>2. /\ strategy = "strangle_45d16d_managed" /\ p \in book /\ p.due
        /\ p.expiry \in Nat /\ p.opened \in Nat /\ Lasting(p)
    BY TurnIs DEF Combo, DeskInv
  <2>3. ASSUME NEW cost \in Costs \cup {None},
               Decide(p, << <<cost # None /\ cost <= Strangle.profit, "profit_50pct">>,
                            <<Dte(p) <= Strangle.exit, "dte_21_management">>,
                            <<cost # None /\ cost >= Strangle.loss, "loss_2x_credit">> >>)
        PROVE  Turned
    <3> DEFINE a == cost # None /\ cost <= Strangle.profit
               b == Dte(p) <= Strangle.exit
               c == cost # None /\ cost >= Strangle.loss
    <3>1. Decide(p, << <<a, "profit_50pct">>,
                       <<b, "dte_21_management">>,
                       <<c, "loss_2x_credit">> >>)
      BY <2>3
    <3>2. Dte(p) <= 21 => b
      BY DEF Strangle
    <3> HIDE DEF a, b, c
    <3>3. ~a /\ ~b /\ ~c => Kept(p)
      BY <2>2, <3>2 DEF Kept, Dte
    <3>4. a \/ b \/ c => Sold(p)
      BY <2>2, <3>2 DEF Sold, Cyclic
    <3> QED
      BY <2>2, <3>1, <3>3, <3>4, ThreeRules DEF Rails
  <2> QED
    BY <2>1, <2>3
<1>3. CASE CondorManage
  <2>1. PICK p \in Turn("ic_45d16d_managed") :
          \/ Blind(p)
          \/ \E cost \in Costs :
               Decide(p, << <<cost <= Condor.profit, "profit_50pct">>,
                            <<Dte(p) <= Condor.exit, "dte_21_management">> >>)
    BY <1>3 DEF CondorManage
  <2>2. /\ strategy = "ic_45d16d_managed" /\ p \in book /\ p.due
        /\ p.expiry \in Nat /\ p.opened \in Nat /\ Lasting(p)
    BY TurnIs DEF Combo, DeskInv
  <2>3. ASSUME NEW cost \in Costs,
               Decide(p, << <<cost <= Condor.profit, "profit_50pct">>,
                            <<Dte(p) <= Condor.exit, "dte_21_management">> >>)
        PROVE  Turned
    <3> DEFINE a == cost <= Condor.profit
               b == Dte(p) <= Condor.exit
    <3>1. Decide(p, << <<a, "profit_50pct">>, <<b, "dte_21_management">> >>)
      BY <2>3
    <3>2. Dte(p) <= 21 => b
      BY DEF Condor
    <3> HIDE DEF a, b
    <3>3. ~a /\ ~b => Kept(p)
      BY <2>2, <3>2 DEF Kept, Dte
    <3>4. a \/ b => Sold(p)
      BY <2>2, <3>2 DEF Sold, Cyclic
    <3> QED
      BY <2>2, <3>1, <3>3, <3>4, TwoRules DEF Rails
  <2>4. CASE Blind(p)
    BY <2>2, <2>4 DEF Turned
  <2> QED
    BY <2>1, <2>3, <2>4
<1>4. CASE JadeManage
  <2>1. PICK p \in Turn("jade_lizard") :
          \E cost \in Costs \cup {None} :
            Decide(p, << <<cost # None /\ cost <= Jade.profit, "profit_50pct">>,
                         <<Dte(p) <= Jade.exit, "time_21dte">> >>)
    BY <1>4 DEF JadeManage
  <2>2. /\ strategy = "jade_lizard" /\ p \in book /\ p.due
        /\ p.expiry \in Nat /\ p.opened \in Nat /\ Lasting(p)
    BY TurnIs DEF Combo, DeskInv
  <2>3. ASSUME NEW cost \in Costs \cup {None},
               Decide(p, << <<cost # None /\ cost <= Jade.profit, "profit_50pct">>,
                            <<Dte(p) <= Jade.exit, "time_21dte">> >>)
        PROVE  Turned
    <3> DEFINE a == cost # None /\ cost <= Jade.profit
               b == Dte(p) <= Jade.exit
    <3>1. Decide(p, << <<a, "profit_50pct">>, <<b, "time_21dte">> >>)
      BY <2>3
    <3>2. Dte(p) <= 21 => b
      BY DEF Jade
    <3> HIDE DEF a, b
    <3>3. ~a /\ ~b => Kept(p)
      BY <2>2, <3>2 DEF Kept, Dte
    <3>4. a \/ b => Sold(p)
      BY <2>2, <3>2 DEF Sold, Cyclic
    <3> QED
      BY <2>2, <3>1, <3>3, <3>4, TwoRules DEF Rails
  <2> QED
    BY <2>1, <2>3
<1>5. CASE VrpManage
  <2>1. PICK p \in Turn("vrp_short_straddle") :
          \/ Blind(p)
          \/ \E cost \in Costs :
               Decide(p, << <<cost <= Vrp.profit, "profit_25pct">>,
                            <<cost >= Vrp.stop, "stop_100pct">> >>)
    BY <1>5 DEF VrpManage
  <2>2. /\ strategy = "vrp_short_straddle" /\ p \in book /\ p.due
        /\ p.expiry \in Nat /\ p.opened \in Nat /\ Lasting(p)
    BY TurnIs DEF Combo, DeskInv
  <2>3. ASSUME NEW cost \in Costs,
               Decide(p, << <<cost <= Vrp.profit, "profit_25pct">>,
                            <<cost >= Vrp.stop, "stop_100pct">> >>)
        PROVE  Turned
    <3> DEFINE a == cost <= Vrp.profit
               b == cost >= Vrp.stop
    <3>1. Decide(p, << <<a, "profit_25pct">>, <<b, "stop_100pct">> >>)
      BY <2>3
    <3> HIDE DEF a, b
    <3>2. ~a /\ ~b => Kept(p)
      BY <2>2 DEF Kept, Dated
    <3>3. a \/ b => Sold(p)
      BY <2>2 DEF Sold, Cyclic
    <3> QED
      BY <2>2, <3>1, <3>2, <3>3, TwoRules DEF Rails
  <2>4. CASE Blind(p)
    BY <2>2, <2>4 DEF Turned
  <2> QED
    BY <2>1, <2>3, <2>4
<1>6. CASE CndrManage \/ WputManage
  <2>1. PICK p \in Turn("cndr_iron_condor_hold") \cup Turn("wput_weekly_putwrite") : Hold(p)
    BY <1>6 DEF CndrManage, WputManage
  <2>2. /\ strategy \in {"cndr_iron_condor_hold", "wput_weekly_putwrite"}
        /\ p \in book /\ p.due
    BY TurnIs
  <2> QED
    BY <2>1, <2>2 DEF Turned, Kept, Dated
<1>7. CASE ZeroDteManage
  <2>1. PICK p \in Turn("zero_dte_morning_ic") :
          \/ Blind(p)
          \/ \E side \in {99, 100} :
               Decide(p, << <<side >= ZeroDte.stop, "stop_side_debit_ge_credit">> >>)
    BY <1>7 DEF ZeroDteManage
  <2>2. /\ strategy = "zero_dte_morning_ic" /\ p \in book /\ p.due
        /\ p.expiry \in Nat /\ p.opened \in Nat /\ Lasting(p)
    BY TurnIs DEF Combo, DeskInv
  <2>3. ASSUME NEW side \in {99, 100},
               Decide(p, << <<side >= ZeroDte.stop, "stop_side_debit_ge_credit">> >>)
        PROVE  Turned
    <3> DEFINE a == side >= ZeroDte.stop
    <3>1. Decide(p, << <<a, "stop_side_debit_ge_credit">> >>)
      BY <2>3
    <3> HIDE DEF a
    <3>2. ~a => Kept(p)
      BY <2>2 DEF Kept, Dated
    <3>3. a => Sold(p)
      BY <2>2 DEF Sold, Cyclic
    <3> QED
      BY <2>2, <3>1, <3>2, <3>3, OneRule DEF Rails
  <2>4. CASE Blind(p)
    BY <2>2, <2>4 DEF Turned
  <2> QED
    BY <2>1, <2>3, <2>4
<1>8. CASE OvernightManage
  <2>1. PICK p \in Turn("overnight_1dte_strangle") :
          Decide(p, << <<day > p.opened /\ minute >= Overnight.from, "next_open_buyback">> >>)
    BY <1>8 DEF OvernightManage
  <2>2. /\ strategy = "overnight_1dte_strangle" /\ p \in book /\ p.due
        /\ p.expiry \in Nat /\ p.opened \in Nat /\ Lasting(p)
    BY TurnIs DEF Combo, DeskInv
  <2>3. ASSUME Decide(p, << <<day > p.opened /\ minute >= Overnight.from, "next_open_buyback">> >>)
        PROVE  Turned
    <3> DEFINE a == day > p.opened /\ minute >= Overnight.from
    <3>1. Decide(p, << <<a, "next_open_buyback">> >>)
      BY <2>3
    <3>2. day > p.opened /\ minute >= 570 => a
      BY DEF Overnight
    <3>3. a => day > p.opened
      OBVIOUS
    <3> HIDE DEF a
    <3>4. ~a => Kept(p)
      BY <2>2, <3>2, <3>3 DEF Kept, Lasting, ExitHours, Overnight
    <3>5. a => Sold(p)
      BY <2>2, <3>2, <3>3 DEF Sold
    <3> QED
      BY <2>2, <3>1, <3>4, <3>5, OneRule DEF Rails
  <2> QED
    BY <2>1, <2>3
<1> QED
  BY <1>1, <1>2, <1>3, <1>4, <1>5, <1>6, <1>7, <1>8

LEMMA TrendTurns ==
  ASSUME DeskInv,
         \/ BackspreadManage \/ CalendarManage \/ DonchianManage \/ GapFadeManage
         \/ BearCallManage \/ OversoldPutManage \/ SqueezeManage \/ TsmomManage
  PROVE  Turned
<1> day \in Nat /\ book \subseteq Combo
  BY HorizonIs DEF DeskInv, DeskType
<1> minute \in Nat
  BY MinuteIs DEF DeskInv
<1>1. CASE BackspreadManage
  <2>1. PICK p \in Turn("backspread_1x2") :
          \E doubled \in BOOLEAN, thin \in BOOLEAN :
            Decide(p, << <<doubled, "backspread_x2_profit">>,
                         <<Dte(p) <= Backspread.assign /\ thin, "backspread_x5_early_assign">> >>)
    BY <1>1 DEF BackspreadManage
  <2>2. /\ strategy = "backspread_1x2" /\ p \in book /\ p.due
        /\ p.expiry \in Nat /\ p.opened \in Nat /\ Lasting(p)
    BY TurnIs DEF Combo, DeskInv
  <2>3. ASSUME NEW doubled \in BOOLEAN, NEW thin \in BOOLEAN,
               Decide(p, << <<doubled, "backspread_x2_profit">>,
                            <<Dte(p) <= Backspread.assign /\ thin,
                              "backspread_x5_early_assign">> >>)
        PROVE  Turned
    <3> DEFINE a == doubled
               b == Dte(p) <= Backspread.assign /\ thin
    <3>1. Decide(p, << <<a, "backspread_x2_profit">>, <<b, "backspread_x5_early_assign">> >>)
      BY <2>3
    <3> HIDE DEF a, b
    <3>2. ~a /\ ~b => Kept(p)
      BY <2>2 DEF Kept, Dated
    <3>3. a \/ b => Sold(p)
      BY <2>2 DEF Sold, Cyclic
    <3> QED
      BY <2>2, <3>1, <3>2, <3>3, TwoRules DEF Rails
  <2> QED
    BY <2>1, <2>3
<1>2. CASE CalendarManage
  <2>1. PICK p \in Turn("atm_calendar_low_iv") :
          \E parity \in BOOLEAN :
            Decide(p, << <<parity, "short_parity_assignment_guard">>,
                         <<TradingDaysUntil(p.expiry) <= Calendar.exit,
                           "front_expiry_week_exit">> >>)
    BY <1>2 DEF CalendarManage
  <2>2. /\ strategy = "atm_calendar_low_iv" /\ p \in book /\ p.due
        /\ p.expiry \in Nat /\ p.opened \in Nat /\ Lasting(p)
    BY TurnIs DEF Combo, DeskInv
  <2>3. ASSUME NEW parity \in BOOLEAN,
               Decide(p, << <<parity, "short_parity_assignment_guard">>,
                            <<TradingDaysUntil(p.expiry) <= Calendar.exit,
                              "front_expiry_week_exit">> >>)
        PROVE  Turned
    <3> DEFINE a == parity
               b == TradingDaysUntil(p.expiry) <= Calendar.exit
    <3>1. Decide(p, << <<a, "short_parity_assignment_guard">>, <<b, "front_expiry_week_exit">> >>)
      BY <2>3
    <3>2. p.expiry <= day => b
      <4> SUFFICES ASSUME p.expiry <= day PROVE b
        OBVIOUS
      <4>1. {d \in (day + 1)..p.expiry : TradingDay(d)} = {}
        BY <2>2
      <4>2. TradingDaysUntil(p.expiry) = 0
        BY <4>1, FS_EmptySet DEF TradingDaysUntil, SessionsIn
      <4> QED
        BY <4>2 DEF Calendar
    <3> HIDE DEF a, b
    <3>3. ~a /\ ~b => Kept(p)
      BY <2>2, <3>2 DEF Kept
    <3>4. a \/ b => Sold(p)
      BY <2>2, <3>2 DEF Sold, Cyclic
    <3> QED
      BY <2>2, <3>1, <3>3, <3>4, TwoRules DEF Rails
  <2> QED
    BY <2>1, <2>3
<1>3. CASE DonchianManage
  <2>1. PICK p \in Turn("donchian_breakout_debit_vert") :
          \E stopped \in BOOLEAN, crossed \in BOOLEAN :
            Decide(p, << <<Dte(p) <= Donchian.roll, "turtle_x4_roll_dte">>,
                         <<stopped, "turtle_x2_stop_2n">>,
                         <<crossed, "turtle_x1_channel_exit">> >>)
    BY <1>3 DEF DonchianManage
  <2>2. /\ strategy = "donchian_breakout_debit_vert" /\ p \in book /\ p.due
        /\ p.expiry \in Nat /\ p.opened \in Nat /\ Lasting(p)
    BY TurnIs DEF Combo, DeskInv
  <2>3. ASSUME NEW stopped \in BOOLEAN, NEW crossed \in BOOLEAN,
               Decide(p, << <<Dte(p) <= Donchian.roll, "turtle_x4_roll_dte">>,
                            <<stopped, "turtle_x2_stop_2n">>,
                            <<crossed, "turtle_x1_channel_exit">> >>)
        PROVE  Turned
    <3> DEFINE a == Dte(p) <= Donchian.roll
               b == stopped
               c == crossed
    <3>1. Decide(p, << <<a, "turtle_x4_roll_dte">>,
                       <<b, "turtle_x2_stop_2n">>,
                       <<c, "turtle_x1_channel_exit">> >>)
      BY <2>3
    <3>2. Dte(p) <= 21 => a
      BY DEF Donchian
    <3> HIDE DEF a, b, c
    <3>3. ~a /\ ~b /\ ~c => Kept(p)
      BY <2>2, <3>2 DEF Kept, Dte
    <3>4. a \/ b \/ c => Sold(p)
      BY <2>2, <3>2 DEF Sold, Cyclic
    <3> QED
      BY <2>2, <3>1, <3>3, <3>4, ThreeRules DEF Rails
  <2> QED
    BY <2>1, <2>3
<1>4. CASE GapFadeManage
  <2>1. PICK p \in Turn("gap_fade_bull_put") :
          \/ Blind(p)
          \/ \E S \in {"filled", "below_shelf", "near_strike", "clear"} :
               Decide(p, << <<S = "filled", "gap_filled">>,
                            <<S = "below_shelf", "fade_thesis_dead">>,
                            <<p.expiry <= day /\ minute >= GapFade.force /\ S = "near_strike",
                              "expiry_itm_force_close">> >>)
    BY <1>4 DEF GapFadeManage
  <2>2. /\ strategy = "gap_fade_bull_put" /\ p \in book /\ p.due
        /\ p.expiry \in Nat /\ p.opened \in Nat /\ Lasting(p)
    BY TurnIs DEF Combo, DeskInv
  <2>3. ASSUME NEW S \in {"filled", "below_shelf", "near_strike", "clear"},
               Decide(p, << <<S = "filled", "gap_filled">>,
                            <<S = "below_shelf", "fade_thesis_dead">>,
                            <<p.expiry <= day /\ minute >= GapFade.force /\ S = "near_strike",
                              "expiry_itm_force_close">> >>)
        PROVE  Turned
    <3> DEFINE a == S = "filled"
               b == S = "below_shelf"
               c == p.expiry <= day /\ minute >= GapFade.force /\ S = "near_strike"
    <3>1. Decide(p, << <<a, "gap_filled">>,
                       <<b, "fade_thesis_dead">>,
                       <<c, "expiry_itm_force_close">> >>)
      BY <2>3
    <3> HIDE DEF a, b, c
    <3>2. ~a /\ ~b /\ ~c => Kept(p)
      BY <2>2 DEF Kept, Dated
    <3>3. a \/ b \/ c => Sold(p)
      BY <2>2 DEF Sold, Cyclic
    <3> QED
      BY <2>2, <3>1, <3>2, <3>3, ThreeRules DEF Rails
  <2>4. CASE Blind(p)
    BY <2>2, <2>4 DEF Turned
  <2> QED
    BY <2>1, <2>3, <2>4
<1>5. CASE BearCallManage
  <2>1. PICK p \in Turn("rsi2_overbought_bear_call") :
          \/ Hold(p) /\ ~Within(BearCall.from, BearCall.to)
          \/ Blind(p)
          \/ \E signal \in {"under5", "over200", "neither", None} :
               Decide(p, << <<signal = "under5", "exit_under_5sma">>,
                            <<signal = "over200", "exit_regime_flip_200sma">>,
                            <<Dte(p) <= BearCall.force, "force_close_1dte">> >>)
    BY <1>5 DEF BearCallManage
  <2>2. /\ strategy = "rsi2_overbought_bear_call" /\ p \in book /\ p.due
        /\ p.expiry \in Nat /\ p.opened \in Nat /\ Lasting(p)
    BY TurnIs DEF Combo, DeskInv
  <2>3. ASSUME NEW signal \in {"under5", "over200", "neither", None},
               Decide(p, << <<signal = "under5", "exit_under_5sma">>,
                            <<signal = "over200", "exit_regime_flip_200sma">>,
                            <<Dte(p) <= BearCall.force, "force_close_1dte">> >>)
        PROVE  Turned
    <3> DEFINE a == signal = "under5"
               b == signal = "over200"
               c == Dte(p) <= BearCall.force
    <3>1. Decide(p, << <<a, "exit_under_5sma">>,
                       <<b, "exit_regime_flip_200sma">>,
                       <<c, "force_close_1dte">> >>)
      BY <2>3
    <3>2. Dte(p) <= 1 => c
      BY DEF BearCall
    <3> HIDE DEF a, b, c
    <3>3. ~a /\ ~b /\ ~c => Kept(p)
      BY <2>2, <3>2 DEF Kept, Dte
    <3>4. a \/ b \/ c => Sold(p)
      BY <2>2, <3>2 DEF Sold, Cyclic
    <3> QED
      BY <2>2, <3>1, <3>3, <3>4, ThreeRules DEF Rails
  <2>4. CASE Blind(p)
    BY <2>2, <2>4 DEF Turned
  <2>5. CASE Hold(p) /\ ~Within(BearCall.from, BearCall.to)
    BY <2>2, <2>5 DEF Turned, Kept, ExitHours, Within, BearCall
  <2> QED
    BY <2>1, <2>3, <2>4, <2>5
<1>6. CASE OversoldPutManage
  <2>1. PICK p \in Turn("rsi2_oversold_short_put") :
          \/ Blind(p)
          \/ \E hot \in BOOLEAN :
               Decide(p, << <<SessionsIn(p.opened..(day - 1)) > 0 /\ hot,
                              "rsi2_close_above_65">> >>)
    BY <1>6 DEF OversoldPutManage
  <2>2. /\ strategy = "rsi2_oversold_short_put" /\ p \in book /\ p.due
        /\ p.expiry \in Nat /\ p.opened \in Nat /\ Lasting(p)
    BY TurnIs DEF Combo, DeskInv
  <2>3. ASSUME NEW hot \in BOOLEAN,
               Decide(p, << <<SessionsIn(p.opened..(day - 1)) > 0 /\ hot,
                              "rsi2_close_above_65">> >>)
        PROVE  Turned
    <3> DEFINE a == SessionsIn(p.opened..(day - 1)) > 0 /\ hot
    <3>1. Decide(p, << <<a, "rsi2_close_above_65">> >>)
      BY <2>3
    <3> HIDE DEF a
    <3>2. ~a => Kept(p)
      BY <2>2 DEF Kept, Dated
    <3>3. a => Sold(p)
      BY <2>2 DEF Sold, Cyclic
    <3> QED
      BY <2>2, <3>1, <3>2, <3>3, OneRule DEF Rails
  <2>4. CASE Blind(p)
    BY <2>2, <2>4 DEF Turned
  <2> QED
    BY <2>1, <2>3, <2>4
<1>7. CASE SqueezeManage
  <2>1. PICK p \in Turn("squeeze_long_straddle"), history \in BOOLEAN :
          LET rules == IF history THEN SqueezeDue(p) ELSE <<SqueezeDue(p)[3]>>
              due == {i \in DOMAIN rules : rules[i][1]}
          IN  IF due = {}
              THEN IF history THEN Hold(p) ELSE Blind(p)
              ELSE Close(p, rules[Soonest(due)][2]) /\ mem' = day
    BY <1>7 DEF SqueezeManage
  <2>2. strategy = "squeeze_long_straddle" /\ p \in book /\ p.due /\ p.expiry \in Nat
    BY TurnIs DEF Combo
  <2> DEFINE rules == IF history THEN SqueezeDue(p) ELSE <<SqueezeDue(p)[3]>>
             due == {i \in DOMAIN rules : rules[i][1]}
  <2>3. /\ DOMAIN rules \subseteq Nat
        /\ \A i \in DOMAIN rules : rules[i][2] \in {"x2_time_stop", "x1_trail_out", "x5_dte_floor"}
        /\ Dte(p) <= 7 => due # {}
    <3>1. CASE history
      <4>1. DOMAIN rules = 1..3 /\ rules = SqueezeDue(p)
        BY <3>1 DEF SqueezeDue
      <4>2. /\ rules[1][2] = "x2_time_stop" /\ rules[2][2] = "x1_trail_out"
            /\ rules[3][2] = "x5_dte_floor" /\ (rules[3][1] <=> Dte(p) <= 7)
        BY <4>1 DEF SqueezeDue, Squeeze
      <4> HIDE DEF rules
      <4> QED
        BY <4>1, <4>2
    <3>2. CASE ~history
      <4>1. DOMAIN rules = 1..1 /\ rules[1] = SqueezeDue(p)[3]
        BY <3>2
      <4> DEFINE floor == Dte(p) <= 7
      <4>2. SqueezeDue(p)[3] = <<floor, "x5_dte_floor">>
        <5> HIDE DEF rules, due
        <5> QED
          BY DEF SqueezeDue, Squeeze
      <4> HIDE DEF rules, floor
      <4>3. rules[1][2] = "x5_dte_floor" /\ (rules[1][1] <=> floor)
        BY <4>1, <4>2
      <4> QED
        BY <4>1, <4>3 DEF floor
    <3> QED
      BY <3>1, <3>2
  <2>4. \/ due = {} /\ (Hold(p) \/ Blind(p))
        \/ due # {} /\ Close(p, rules[Soonest(due)][2])
    BY <2>1
  <2> HIDE DEF rules
  <2>5. CASE due = {} /\ (Hold(p) \/ Blind(p))
    <3>1. ~(Dte(p) <= 7)
      BY <2>3, <2>5
    <3> QED
      BY <2>2, <2>5, <3>1 DEF Turned, Kept, Dte
  <2>6. CASE due # {} /\ Close(p, rules[Soonest(due)][2])
    <3>1. due \in SUBSET Nat
      BY <2>3
    <3>2. Soonest(due) \in DOMAIN rules
      <4>1. Soonest(due) \in due
        <5> HIDE DEF due
        <5> QED
          BY <2>6, <3>1, SoonestIs
      <4> QED
        BY <4>1
    <3>3. PICK rule \in {"x2_time_stop", "x1_trail_out", "x5_dte_floor"} : Close(p, rule)
      BY <2>3, <2>6, <3>2
    <3> QED
      BY <2>2, <3>3 DEF Turned, Sold, Cyclic, Rails
  <2> QED
    BY <2>4, <2>5, <2>6, SMTT(30)
<1>8. CASE TsmomManage
  <2>1. PICK p \in Turn("tsmom_long_options") :
          \/ Blind(p)
          \/ \E sign \in Signs :
               Decide(p, << <<TsmomDue(p) /\ sign # p.plan, "monthly_rebalance_flip">>,
                            <<TsmomDue(p), "monthly_rebalance_roll">> >>)
    BY <1>8 DEF TsmomManage
  <2>2. /\ strategy = "tsmom_long_options" /\ p \in book /\ p.due
        /\ p.expiry \in Nat /\ p.opened \in Nat /\ Lasting(p)
    BY TurnIs DEF Combo, DeskInv
  <2>3. ASSUME NEW sign \in Signs,
               Decide(p, << <<TsmomDue(p) /\ sign # p.plan, "monthly_rebalance_flip">>,
                            <<TsmomDue(p), "monthly_rebalance_roll">> >>)
        PROVE  Turned
    <3> DEFINE a == TsmomDue(p) /\ sign # p.plan
               b == TsmomDue(p)
    <3>1. Decide(p, << <<a, "monthly_rebalance_flip">>, <<b, "monthly_rebalance_roll">> >>)
      BY <2>3
    <3>2. (a \/ b) <=> TsmomDue(p)
      OBVIOUS
    <3>3. TsmomDue(p) => p.opened < day
      BY <2>2, RollIs, MonthIs, HorizonIs DEF TsmomDue, DeskInv, DeskType
    <3> HIDE DEF a, b
    <3>4. ~a /\ ~b => Kept(p)
      BY <2>2, <3>2, <3>3 DEF Kept
    <3>5. a \/ b => Sold(p)
      BY <2>2, <3>2, <3>3 DEF Sold
    <3> QED
      BY <2>2, <3>1, <3>4, <3>5, TwoRules DEF Rails
  <2>4. CASE Blind(p)
    BY <2>2, <2>4 DEF Turned
  <2> QED
    BY <2>1, <2>3, <2>4
<1> QED
  BY <1>1, <1>2, <1>3, <1>4, <1>5, <1>6, <1>7, <1>8

\* what an exit of the drift is reckoned from
Anchors(p, noted) == IF noted THEN {p.plan} ELSE Ahead

\* On the day of its entry all of it is tomorrow or later.
LEMMA AnchorsAhead ==
  ASSUME DeskInv, NEW p, Lasting(p), strategy = "pre_fomc_drift_call", p.opened = day,
         NEW noted, Anchors(p, noted) # {}
  PROVE  \E d \in Nat : Soonest(Anchors(p, noted)) = DecisionAt(d) /\ d >= day + 1
<1> DEFINE S == Anchors(p, noted)
<1>1. day \in Nat /\ Decisions \subseteq Nat
  BY HorizonIs, CalendarAssumption DEF CalendarAssumption, DeskInv, DeskType
<1>2. \A x \in S : \E d \in Nat : x = DecisionAt(d) /\ d >= day + 1
  <2>1. CASE noted
    BY <1>1, <2>1 DEF Lasting, Anchors
  <2>2. CASE ~noted
    <3> SUFFICES ASSUME NEW x \in Ahead PROVE \E d \in Nat : x = DecisionAt(d) /\ d >= day + 1
      BY <2>2 DEF Anchors
    <3>1. PICK d \in Decisions : x = DecisionAt(d) /\ d - day \in 0..7
      BY DEF Ahead
    <3>2. d # day /\ d \in Nat
      BY <1>1, <3>1 DEF Lasting
    <3> QED
      BY <1>1, <3>1, <3>2
  <2> QED
    BY <2>1, <2>2
<1>3. S \in SUBSET Nat
  BY <1>2 DEF DecisionAt
<1> HIDE DEF S
<1>4. Soonest(S) \in S
  BY <1>3, SoonestIs DEF S
<1> QED
  BY <1>2, <1>4 DEF S

LEMMA EventTurns ==
  ASSUME DeskInv, CrushManage \/ PrePrintManage \/ FomcManage
  PROVE  Turned
<1> day \in Nat /\ book \subseteq Combo
  BY HorizonIs DEF DeskInv, DeskType
<1> minute \in Nat
  BY MinuteIs DEF DeskInv
<1>1. CASE CrushManage
  <2>1. PICK p \in Turn("earnings_iv_crush_strangle") :
          Decide(p, << <<day > p.opened /\ minute >= Crush.exit, "post_earnings_open_exit">> >>)
    BY <1>1 DEF CrushManage
  <2>2. /\ strategy = "earnings_iv_crush_strangle" /\ p \in book /\ p.due
        /\ p.expiry \in Nat /\ p.opened \in Nat /\ Lasting(p)
    BY TurnIs DEF Combo, DeskInv
  <2>3. ASSUME Decide(p, << <<day > p.opened /\ minute >= Crush.exit,
                              "post_earnings_open_exit">> >>)
        PROVE  Turned
    <3> DEFINE a == day > p.opened /\ minute >= Crush.exit
    <3>1. Decide(p, << <<a, "post_earnings_open_exit">> >>)
      BY <2>3
    <3>2. day > p.opened /\ minute >= 570 => a
      BY DEF Crush
    <3>3. a => day > p.opened
      OBVIOUS
    <3> HIDE DEF a
    <3>4. ~a => Kept(p)
      BY <2>2, <3>2, <3>3 DEF Kept, Lasting, ExitHours, Overnight
    <3>5. a => Sold(p)
      BY <2>2, <3>2, <3>3 DEF Sold
    <3> QED
      BY <2>2, <3>1, <3>4, <3>5, OneRule DEF Rails
  <2> QED
    BY <2>1, <2>3
<1>2. CASE PrePrintManage
  <2>1. PICK p \in Turn("pre_earnings_long_straddle") :
          Decide(p, << <<day >= p.plan.report, "pre_print_failsafe">>,
                       <<day >= p.plan.exit /\ minute >= PrePrint.from, "pre_print_exit">> >>)
    BY <1>2 DEF PrePrintManage
  <2>2. /\ strategy = "pre_earnings_long_straddle" /\ p \in book /\ p.due
        /\ p.expiry \in Nat /\ p.opened \in Nat /\ Lasting(p)
    BY TurnIs DEF Combo, DeskInv
  <2>3. ASSUME Decide(p, << <<day >= p.plan.report, "pre_print_failsafe">>,
             <<day >= p.plan.exit /\ minute >= PrePrint.from, "pre_print_exit">> >>)
        PROVE  Turned
    <3> DEFINE a == day >= p.plan.report
               b == day >= p.plan.exit /\ minute >= PrePrint.from
    <3>1. Decide(p, << <<a, "pre_print_failsafe">>, <<b, "pre_print_exit">> >>)
      BY <2>3
    <3>2. p.expiry <= day => a
      BY <2>2 DEF Lasting
    <3>3. a \/ b => p.opened < day
      BY <2>2 DEF Lasting
    <3> HIDE DEF a, b
    <3>4. ~a /\ ~b => Kept(p)
      BY <2>2, <3>2, <3>3 DEF Kept
    <3>5. a \/ b => Sold(p)
      BY <2>2, <3>2, <3>3 DEF Sold
    <3> QED
      BY <2>2, <3>1, <3>4, <3>5, TwoRules DEF Rails
  <2> QED
    BY <2>1, <2>3
<1>3. CASE FomcManage
  <2>1. PICK p \in Turn("pre_fomc_drift_call") :
          \E noted \in BOOLEAN :
            Decide(p, << <<Anchors(p, noted) # {} /\ Now >= Soonest(Anchors(p, noted)) - Fomc.out,
                           "time_exit_pre_release">>,
                         <<Now - (p.opened * 1440 + p.at) >= Fomc.lead - Fomc.out,
                           "time_exit_failsafe">> >>)
    BY <1>3 DEF FomcManage, Anchors
  <2>2. /\ strategy = "pre_fomc_drift_call" /\ p \in book /\ p.due
        /\ p.expiry \in Nat /\ p.opened \in Nat /\ p.at \in 0..1439 /\ Lasting(p)
    BY TurnIs DEF Combo, DeskInv
  <2>3. p.expiry <= day => Now - (p.opened * 1440 + p.at) >= 1440
    <3> SUFFICES ASSUME p.expiry <= day PROVE Now - (p.opened * 1440 + p.at) >= 1440
      OBVIOUS
    <3>1. PICK o, at : o = p.opened /\ at = p.at
      OBVIOUS
    <3>2. o \in Nat /\ at \in 0..1439 /\ o + 2 <= day
      BY <2>2, <3>1 DEF Lasting
    <3>3. (day * 1440 + minute) - (o * 1440 + at) >= 1440
      BY <3>2, MinuteIs DEF DeskInv
    <3> QED
      BY <3>1, <3>3 DEF Now
  <2>4. ASSUME NEW noted \in BOOLEAN,
               Decide(p, << <<Anchors(p, noted) # {}
                                /\ Now >= Soonest(Anchors(p, noted)) - Fomc.out,
                              "time_exit_pre_release">>,
                            <<Now - (p.opened * 1440 + p.at) >= Fomc.lead - Fomc.out,
                              "time_exit_failsafe">> >>)
        PROVE  Turned
    <3> DEFINE a == Anchors(p, noted) # {} /\ Now >= Soonest(Anchors(p, noted)) - Fomc.out
               b == Now - (p.opened * 1440 + p.at) >= Fomc.lead - Fomc.out
    <3>1. Decide(p, << <<a, "time_exit_pre_release">>, <<b, "time_exit_failsafe">> >>)
      BY <2>4
    <3>2. p.expiry <= day => b
      BY <2>3 DEF Fomc
    <3>3. a \/ b => p.opened < day
      <4> SUFFICES ASSUME a \/ b, p.opened = day PROVE FALSE
        BY <2>2 DEF Lasting
      <4> minute <= 1439
        BY MinuteIs DEF DeskInv
      <4>1. ~b
        BY <2>2, SMTT(30) DEF Fomc, Now
      <4>2. PICK d \in Nat : Soonest(Anchors(p, noted)) = DecisionAt(d) /\ d >= day + 1
        BY <2>2, <4>1, AnchorsAhead
      <4> QED
        BY <4>1, <4>2 DEF DecisionAt, Fomc, Now
    <3> HIDE DEF a, b
    <3>4. ~a /\ ~b => Kept(p)
      BY <2>2, <3>2, <3>3 DEF Kept
    <3>5. a \/ b => Sold(p)
      BY <2>2, <3>2, <3>3 DEF Sold
    <3> QED
      BY <2>2, <3>1, <3>4, <3>5, TwoRules DEF Rails
  <2> QED
    BY <2>1, <2>4
<1> QED
  BY <1>1, <1>2, <1>3

LEMMA ManageTurns ==
  ASSUME DeskInv, Manage \/ Unquoted
  PROVE  Turned
<1>1. CASE Unquoted
  BY <1>1 DEF Unquoted, Turned
<1> QED
  BY <1>1, PremiumTurns, TrendTurns, EventTurns DEF Manage


-----------------------------------------------------------------------------
(* The invariant is inductive.                                             *)

\* a combo with the same terms
Same(q, p) ==
  q \in Combo /\ q.opened = p.opened /\ q.at = p.at /\ q.expiry = p.expiry /\ q.plan = p.plan

\* q is p after its turn, or after a tick without one
Marked(q, p, due, x) == q = [p EXCEPT !.due = due, !.dark = @ \/ x]

LEMMA ShapeIs ==
  ASSUME NEW p \in Combo, NEW due \in BOOLEAN, NEW y \in BOOLEAN, NEW q,
         q = [opened |-> p.opened, at |-> p.at, expiry |-> p.expiry, plan |-> p.plan,
              due |-> due, dark |-> y]
  PROVE  Same(q, p) /\ q.due = due /\ q.dark = y
<1>1. /\ p.opened \in Nat /\ p.at \in 0..1439 /\ p.expiry \in Nat /\ p.plan \in Plans
  BY DEF Combo
<1> QED
  BY <1>1 DEF Combo, Same

LEMMA MarkIs ==
  ASSUME NEW p \in Combo, NEW due \in BOOLEAN, NEW x \in BOOLEAN, NEW q,
         Marked(q, p, due, x)
  PROVE  Same(q, p) /\ q.due = due /\ (q.dark <=> p.dark \/ x)
<1>1. p = [opened |-> p.opened, at |-> p.at, expiry |-> p.expiry, plan |-> p.plan,
           due |-> p.due, dark |-> p.dark]
  BY DEF Combo
<1>2. PICK y \in BOOLEAN : y = (p.dark \/ x)
  OBVIOUS
<1>3. y <=> p.dark \/ x
  BY <1>2
<1> DEFINE due1 == [opened |-> p.opened, at |-> p.at, expiry |-> p.expiry, plan |-> p.plan,
                    due |-> due, dark |-> p.dark]
<1>4. [p EXCEPT !.due = due] = due1
  BY <1>1
<1>5. q = [[p EXCEPT !.due = due] EXCEPT !.dark = y]
  BY <1>2, Zenon DEF Marked
<1>6. q = [due1 EXCEPT !.dark = y]
  BY <1>4, <1>5, Zenon
<1>7. q = [opened |-> p.opened, at |-> p.at, expiry |-> p.expiry, plan |-> p.plan,
           due |-> due, dark |-> y]
  BY <1>6
<1>8. Same(q, p) /\ q.due = due /\ q.dark = y
  BY <1>7, ShapeIs
<1> QED
  BY <1>3, <1>8

LEMMA WaitingIs ==
  ASSUME NEW p \in Combo
  PROVE  Same(Waiting(p), p) /\ Waiting(p).due = TRUE /\ (Waiting(p).dark <=> p.dark \/ p.due)
<1>1. p.due \in BOOLEAN
  BY DEF Combo
<1>2. Marked(Waiting(p), p, TRUE, p.due)
  BY Zenon DEF Marked, Waiting
<1> QED
  BY <1>1, <1>2, MarkIs

LEMMA RollSame ==
  ASSUME day' = day
  PROVE  RebalanceDayOfMonth' = RebalanceDayOfMonth
BY DEF RebalanceDayOfMonth

LEMMA EntryDaySame ==
  ASSUME UNCHANGED <<strategy, report, last>>
  PROVE  EntryDay(last)' = EntryDay(last)
BY DEF EntryDay, CrushSession

\* A combo that was held, or whose turn was missed.
LEMMA TookKeeps ==
  ASSUME DeskInv, NEW p \in book, NEW q, Same(q, p), q.due = FALSE,
         q.dark \/ (Kept(p) /\ (p.dark <=> q.dark)),
         p.due, UNCHANGED <<strategy, report, day, minute>>
  PROVE  Lasting(q)' /\ Railed(q)' /\ Rolled(q)' /\ Screened(q)'
<1>1. /\ Lasting(p) /\ Railed(p) /\ Rolled(p) /\ Screened(p) /\ p \in Combo /\ q \in Combo
      /\ day \in Nat /\ DeskType
  BY HorizonIs DEF DeskInv, DeskType, Same
<1>2. Lasting(q)'
  BY <1>1 DEF Lasting, Same
<1>3. Screened(q)'
  BY <1>1 DEF Screened, Same, Kept
<1>4. Railed(q)'
  <2> SUFFICES ASSUME strategy \in Dated, ~q.dark, ~(day < p.expiry),
                      ~(strategy = "rsi2_overbought_bear_call" /\ day \in HalfDays)
               PROVE  /\ strategy # "tsmom_long_options"
                      /\ \A t \in SessionTicks(strategy, day) \cap ExitHours(strategy) : minute < t
    BY <1>1, TicksAre DEF Railed, Same, DayTicks, Combo
  <2>1. /\ strategy # "tsmom_long_options"
        /\ \A t \in SessionTicks(strategy, day) \cap ExitHours(strategy) : minute <= t
    BY <1>1 DEF Railed, DayTicks
  <2>2. minute \notin ExitHours(strategy)
    BY <1>1, <2>1 DEF Kept, Combo
  <2>3. minute \in Nat /\ \A t \in SessionTicks(strategy, day) : t \in Nat
    <3>1. SessionTicks(strategy, day) \in SUBSET Nat
      BY <1>1, TicksAreNat DEF DeskType
    <3> HIDE DEF Kept
    <3> QED
      BY <1>1, <3>1 DEF DeskType, DayTicks
  <2> QED
    BY <2>1, <2>2, <2>3
<1>5. Rolled(q)'
  <2>1. RebalanceDayOfMonth' = RebalanceDayOfMonth
    BY RollSame
  <2> SUFFICES ASSUME strategy = "tsmom_long_options", ~q.dark
               PROVE  \/ MonthFirst(day) <= p.opened
                      \/ /\ MonthFirst(day) <= p.opened + 31
                         /\ day <= MonthFirst(day) + 11
                         /\ day = RebalanceDayOfMonth
    BY <2>1 DEF Rolled, Same
  <2>2. ~TsmomDue(p)
    BY DEF Kept
  <2>3. /\ RebalanceDayOfMonth \in MonthFirst(day)..(MonthFirst(day) + 6)
        /\ RebalanceDayOfMonth <= day
        /\ MonthFirst(day) \in 0..day
    BY <1>1, RollIs, MonthIs DEF DeskType
  <2>4. CASE MonthFirst(day) <= p.opened
    BY <2>4
  <2>5. CASE ~(MonthFirst(day) <= p.opened)
    <3>1. p.opened < RebalanceDayOfMonth /\ RebalanceDayOfMonth \in Nat
      BY <1>1, <2>3, <2>5 DEF Combo
    <3>2. day = RebalanceDayOfMonth
      BY <1>1, <2>2, <2>3, <3>1 DEF TsmomDue
    <3> QED
      BY <1>1, <2>5, <3>2 DEF Rolled
  <2> QED
    BY <2>4, <2>5
<1> QED
  BY <1>2, <1>3, <1>4, <1>5

\* A combo nothing happened to.
LEMMA StayKeeps ==
  ASSUME DeskInv, NEW p \in book, UNCHANGED <<strategy, report, day, minute>>
  PROVE  Lasting(p)' /\ Railed(p)' /\ Rolled(p)' /\ Screened(p)'
<1>1. RebalanceDayOfMonth' = RebalanceDayOfMonth
  BY RollSame
<1> QED
  BY <1>1 DEF DeskInv, Lasting, Railed, Rolled, Screened, DayTicks

LEMMA StillType ==
  ASSUME DeskType, StillDesk, book' \in SUBSET Combo
  PROVE  DeskType'
BY DEF DeskType, StillDesk, DayTicks

LEMMA StillOccupied ==
  ASSUME Occupied, StillDesk, UNCHANGED last,
         strategy = "zero_dte_morning_ic" => UNCHANGED mem,
         strategy \in Cyclic /\ Fresh => Fresh'
  PROVE  Occupied'
<1>1. EntryDay(last)' = EntryDay(last)
  BY EntryDaySame DEF StillDesk
<1> QED
  BY <1>1 DEF Occupied, StillDesk, Cyclic

\* After a manage turn or the backstop: a combo was held, or is gone.
LEMMA InvTurned ==
  ASSUME DeskInv, Turned \/ Backstop
  PROVE  DeskInv'
<1>1. PICK p \in book :
        /\ p.due
        /\ \/ Blind(p)
           \/ Hold(p) /\ Kept(p)
           \/ /\ \E rule : Close(p, rule)
              /\ Sold(p) \/ p.expiry <= day
              /\ strategy # "squeeze_long_straddle" => UNCHANGED mem
  BY DEF Turned, Backstop, BackstopDue
<1>2. /\ StillDesk /\ UNCHANGED last
      /\ strategy # "squeeze_long_straddle" => UNCHANGED mem
  BY <1>1 DEF Blind, Hold, Close
<1>3. p \in Combo /\ day \in Nat
  BY HorizonIs DEF DeskInv, DeskType
<1>4. CASE Blind(p) \/ (Hold(p) /\ Kept(p))
  <2>1. PICK x \in BOOLEAN : book' = Took(p, x) /\ (x \/ Kept(p))
    BY <1>4 DEF Blind, Hold
  <2>2. PICK q : Marked(q, p, FALSE, x)
    BY DEF Marked
  <2>3. Same(q, p) /\ q.due = FALSE /\ (q.dark <=> p.dark \/ x)
    BY <1>3, <2>2, MarkIs
  <2>4. book' = (book \ {p}) \cup {q}
    <3>1. Took(p, x) = (book \ {p}) \cup {q}
      BY <2>2, Zenon DEF Took, Marked
    <3> QED
      BY <2>1, <3>1
  <2>5. Lasting(q)' /\ Railed(q)' /\ Rolled(q)' /\ Screened(q)'
    BY <1>1, <1>2, <2>1, <2>3, TookKeeps DEF StillDesk
  <2>6. \A o \in book : Lasting(o)' /\ Railed(o)' /\ Rolled(o)' /\ Screened(o)'
    BY <1>2, StayKeeps DEF StillDesk
  <2>7. DeskType'
    BY <1>2, <2>3, <2>4, StillType DEF DeskInv, DeskType, Same
  <2>8. Fresh => Fresh'
    BY <1>2, <2>3, <2>4 DEF Fresh, StillDesk, Same
  <2>9. Occupied'
    BY <1>2, <2>8, StillOccupied DEF DeskInv
  <2> QED
    BY <2>4, <2>5, <2>6, <2>7, <2>9 DEF DeskInv
<1>5. CASE (\E rule : Close(p, rule)) /\ (Sold(p) \/ p.expiry <= day)
  <2>1. book' = book \ {p}
    BY <1>5 DEF Close
  <2>2. \A o \in book : Lasting(o)' /\ Railed(o)' /\ Rolled(o)' /\ Screened(o)'
    BY <1>2, StayKeeps DEF StillDesk
  <2>3. DeskType'
    BY <1>2, <2>1, StillType DEF DeskInv, DeskType
  <2>4. strategy \in Cyclic /\ Fresh => Fresh'
    <3> SUFFICES ASSUME strategy \in Cyclic, Fresh PROVE Fresh'
      OBVIOUS
    <3>1. PICK o \in book : o.opened = day /\ day < o.expiry
      BY DEF Fresh
    <3>2. o # p
      BY <1>3, <1>5, <3>1 DEF Sold, Combo
    <3> QED
      BY <1>2, <2>1, <3>1, <3>2 DEF Fresh, StillDesk
  <2>5. Occupied'
    BY <1>2, <2>4, StillOccupied DEF DeskInv
  <2> QED
    BY <2>1, <2>2, <2>3, <2>5 DEF DeskInv
<1> QED
  BY <1>1, <1>4, <1>5

LEMMA TickIs ==
  ASSUME DeskType, NextTick
  PROVE  /\ minute \in Nat /\ minute' \in DayTicks(day)
         /\ \A t \in DayTicks(day) : t \in Nat /\ (minute < t => minute' <= t)
<1> DEFINE later == {t \in DayTicks(day) : t > minute}
<1>1. DayTicks(day) \in SUBSET (0..1439) /\ minute \in DayTicks(day)
  BY TicksAre DEF DeskType, DayTicks
<1>2. later # {} /\ minute' = Soonest(later)
  BY DEF NextTick
<1>3. later \in SUBSET Nat
  BY <1>1, SMTT(30)
<1>4. Soonest(later) \in later /\ \A t \in later : Soonest(later) <= t
  <2> HIDE DEF later
  <2> QED
    BY <1>2, <1>3, SoonestIs
<1>5. \A t \in DayTicks(day) : t \in Nat /\ (minute < t => t \in later)
  BY <1>1, SMTT(30)
<1>6. minute \in Nat /\ minute' \in later /\ minute' \in DayTicks(day)
  BY <1>1, <1>2, <1>4, SMTT(30)
<1> HIDE DEF later
<1> QED
  BY <1>2, <1>4, <1>5, <1>6

LEMMA InvTick ==
  ASSUME DeskInv, NextTick
  PROVE  DeskInv'
<1>1. /\ UNCHANGED <<strategy, name, listing, report, day, starts, mem, last>>
      /\ book' = {Waiting(p) : p \in book}
  BY DEF NextTick
<1>2. /\ minute \in Nat /\ minute' \in DayTicks(day)
      /\ \A t \in DayTicks(day) : t \in Nat /\ (minute < t => minute' <= t)
  BY TickIs DEF DeskInv
<1>3. book \subseteq Combo /\ day \in Nat
  BY HorizonIs DEF DeskInv, DeskType
<1>4. \A p \in book :
        Same(Waiting(p), p) /\ Waiting(p).due = TRUE /\ (Waiting(p).dark <=> p.dark \/ p.due)
  BY <1>3, WaitingIs
<1>5. ASSUME NEW p \in book, NEW q, q = Waiting(p)
      PROVE  Lasting(q)' /\ Railed(q)' /\ Rolled(q)' /\ Screened(q)'
  <2>1. /\ Lasting(p) /\ Railed(p) /\ Rolled(p) /\ Screened(p) /\ p \in Combo
        /\ Same(q, p) /\ q.due = TRUE /\ (q.dark <=> p.dark \/ p.due)
    BY <1>3, <1>4, <1>5 DEF DeskInv
  <2>2. Lasting(q)'
    BY <1>1, <2>1 DEF Lasting, Same
  <2>3. Railed(q)'
    BY <1>1, <1>2, <2>1 DEF Railed, Same, DayTicks
  <2>4. Rolled(q)'
    BY <1>1, <2>1 DEF Rolled, Same
  <2>5. Screened(q)'
    <3> SUFFICES ASSUME report # None, report.day \in p.opened..(p.opened + FileWindow),
                        strategy = "short_put_45d30d_managed", ~q.dark
                 PROVE  day <= report.day
      BY <1>1, <2>1 DEF Screened, Same
    <3>1. p.expiry - 21 < report.day /\ 21 < p.expiry - day
      BY <2>1 DEF Screened
    <3>2. p.expiry \in Nat /\ p.opened \in Nat /\ report.day \in Int
      BY <2>1, HorizonIs DEF Combo
    <3> QED
      BY <1>3, <3>1, <3>2
  <2> QED
    BY <2>2, <2>3, <2>4, <2>5
<1>6. DeskType'
  BY <1>1, <1>2, <1>4 DEF DeskInv, DeskType, DayTicks, Same
<1>7. Fresh => Fresh'
  BY <1>1, <1>4 DEF Fresh, Same
<1>8. EntryDay(last)' = EntryDay(last)
  BY <1>1, EntryDaySame
<1>9. Occupied'
  BY <1>1, <1>7, <1>8 DEF DeskInv, Occupied
<1> QED
  BY <1>1, <1>5, <1>6, <1>9 DEF DeskInv

LEMMA NextDayIs ==
  ASSUME DeskType, NextSession
  PROVE  /\ day' \in (day + 1)..LastDay /\ TradingDay(day') /\ day' <= day + 5
         /\ \A d \in Nat : TradingDay(d) /\ day < d => day' <= d
<1> DEFINE ahead == {d \in (day + 1)..LastDay : TradingDay(d)}
<1>1. ahead # {} /\ day' = Soonest(ahead)
  BY DEF NextSession
<1>2. day \in Nat /\ LastDay \in Nat
  BY HorizonIs DEF DeskType
<1>3. ahead \in SUBSET Nat
  BY <1>2
<1>4. Soonest(ahead) \in ahead /\ \A d \in ahead : Soonest(ahead) <= d
  <2> HIDE DEF ahead
  <2> QED
    BY <1>1, <1>3, SoonestIs
<1>5. day' \in (day + 1)..LastDay /\ TradingDay(day')
  BY <1>1, <1>4
<1>6. ASSUME NEW d \in Nat, TradingDay(d), day < d PROVE day' <= d
  <2>1. CASE d <= LastDay
    <3>1. d \in ahead
      BY <1>2, <1>6, <2>1
    <3> QED
      BY <1>1, <1>4, <3>1
  <2>2. CASE LastDay < d
    BY <1>2, <1>5, <2>2
  <2> QED
    BY <1>2, <2>1, <2>2
<1>7. day + 1 \in 0..LastDay
  BY <1>2, <1>5
<1>8. PICK e \in (day + 1)..(day + 1 + 4) : TradingDay(e)
  BY <1>7, SessionNear
<1>9. e \in Nat /\ day < e /\ e <= day + 5
  BY <1>2, <1>8
<1> HIDE DEF ahead
<1>10. day' <= day + 5
  BY <1>2, <1>5, <1>6, <1>8, <1>9
<1> QED
  BY <1>5, <1>6, <1>10

\* Another session's first tick; every tick of the one that ended has passed.
LEMMA NextTicksAre ==
  ASSUME DeskType, NextSession
  PROVE  /\ minute' \in SessionTicks(strategy, day')
         /\ \A t \in SessionTicks(strategy, day') : minute' <= t
         /\ \A t \in DayTicks(day) : t \in Nat /\ t <= minute
<1> DEFINE first == Soonest({d \in (day + 1)..LastDay : TradingDay(d)})
           next == SessionTicks(strategy, first)
           past == DayTicks(day)
<1>1. day' = first /\ minute' = Soonest(next) /\ minute = Latest(past)
  BY DEF NextSession, DayTicks
<1>2. next # {} /\ next \in SUBSET (0..1439) /\ past # {} /\ past \in SUBSET (0..1439)
  <2> HIDE DEF first
  <2>1. strategy \in Strategies /\ past = SessionTicks(strategy, day)
    BY DEF DeskType, DayTicks
  <2> HIDE DEF past
  <2> QED
    BY <2>1, TicksAre
<1> HIDE DEF next, past
<1>3. Soonest(next) \in next /\ \A t \in next : Soonest(next) <= t
  BY <1>2, SoonestIs
<1>4. \A t \in past : t \in Nat /\ t <= Latest(past)
  <2> DEFINE top == 1439
  <2>1. top \in Nat /\ past \in SUBSET (0..top) /\ past # {}
    BY <1>2
  <2> HIDE DEF top
  <2>2. Latest(past) \in past /\ \A e \in past : e <= Latest(past)
    BY <2>1, LatestIs
  <2> QED
    BY <1>2, <2>2
<1> QED
  BY <1>1, <1>3, <1>4 DEF next, past

\* The months of two sessions in a row.
LEMMA MonthMoves ==
  ASSUME NEW d \in 0..LastDay, NEW e \in (d + 1)..LastDay, e <= d + 5, NEW from \in 0..d,
         \/ MonthFirst(d) <= from
         \/ MonthFirst(d) <= from + 31 /\ d <= MonthFirst(d) + 6
  PROVE  \/ MonthFirst(e) <= from
         \/ MonthFirst(e) <= from + 31 /\ e <= MonthFirst(e) + 11
<1> DEFINE f == MonthFirst(d)
           g == MonthFirst(e)
<1>1. d \in Nat /\ e \in 0..LastDay /\ e \in Nat /\ from \in Nat
  BY HorizonIs
<1>2. /\ f \in MonthFirsts /\ f \in 0..d /\ d <= f + 30
      /\ \A m \in MonthFirsts : m <= d => m <= f
  BY MonthIs
<1>3. /\ g \in MonthFirsts /\ g \in 0..e /\ e <= g + 30
      /\ \A m \in MonthFirsts : m <= e => m <= g
  BY <1>1, MonthIs
<1>4. \A m, n \in MonthFirsts : m < n => m + 28 <= n
  BY CalendarAssumption DEF CalendarAssumption
<1>5. f <= from \/ (f <= from + 31 /\ d <= f + 6)
  OBVIOUS
<1> HIDE DEF f, g
<1>6. f <= g
  BY <1>1, <1>2, <1>3
<1>7. CASE f = g
  BY <1>1, <1>5, <1>7, <1>2 DEF f, g
<1>8. CASE f < g
  <2>1. d < g
    BY <1>1, <1>2, <1>3, <1>8
  <2>2. f + 28 <= g
    BY <1>2, <1>3, <1>4, <1>8
  <2>3. f <= from
    BY <1>1, <1>2, <1>3, <1>5, <2>2
  <2>4. PICK m \in (from + 1)..(from + 31) : m \in MonthFirsts
    <3>1. from \in 0..(Far - 31)
      BY <1>1, HorizonIs
    <3> QED
      BY <3>1, CalendarAssumption DEF CalendarAssumption
  <2>5. d < m /\ m \in Nat
    BY <1>1, <1>2, <2>3, <2>4
  <2>6. ~(m < g)
    <3>1. m < g => m + 28 <= g
      BY <1>3, <1>4, <2>4
    <3> QED
      BY <1>1, <1>3, <2>5, <3>1
  <2> QED
    BY <1>1, <1>3, <2>1, <2>4, <2>5, <2>6 DEF g
<1> QED
  BY <1>2, <1>3, <1>6, <1>7, <1>8

LEMMA SeenIs ==
  ASSUME NEW p \in Combo, NEW seen \in {"inside", "breakout", "trailed_out"}
  PROVE  LET q == [Waiting(p) EXCEPT !.plan = seen]
         IN  /\ q \in Combo /\ q.opened = p.opened /\ q.at = p.at /\ q.expiry = p.expiry
             /\ q.due = TRUE /\ (q.dark <=> p.dark \/ p.due)
<1>1. PICK w : w = Waiting(p)
  OBVIOUS
<1>2. Same(w, p) /\ w.due = TRUE /\ (w.dark <=> p.dark \/ p.due)
  BY <1>1, WaitingIs
<1>3. w \in Combo /\ seen \in Plans
  BY <1>2 DEF Same, Plans
<1> DEFINE q == [w EXCEPT !.plan = seen]
<1>4. q \in Combo
  BY <1>3 DEF Combo
<1>5. q.opened = w.opened /\ q.at = w.at /\ q.expiry = w.expiry /\ q.due = w.due /\ q.dark = w.dark
  BY <1>3 DEF Combo
<1> QED
  BY <1>1, <1>2, <1>4, <1>5 DEF Same

\* A combo that is still open in the next session.
LEMMA SessionKeeps ==
  ASSUME DeskInv, NextSession, NEW p \in book, day' <= p.expiry, NEW q \in Combo,
         q.opened = p.opened, q.expiry = p.expiry,
         strategy # "squeeze_long_straddle" => q.plan = p.plan,
         q.due = TRUE, q.dark <=> p.dark \/ p.due
  PROVE  Lasting(q)' /\ Railed(q)' /\ Rolled(q)' /\ Screened(q)'
<1>1. /\ Lasting(p) /\ Railed(p) /\ Rolled(p) /\ Screened(p)
      /\ p.opened \in Nat /\ p.expiry \in Nat /\ day \in Nat /\ day \in 0..LastDay /\ DeskType
  BY HorizonIs DEF DeskInv, DeskType, Combo
<1>2. /\ day' \in (day + 1)..LastDay /\ TradingDay(day') /\ day' <= day + 5
      /\ \A d \in Nat : TradingDay(d) /\ day < d => day' <= d
  BY <1>1, NextDayIs
<1>3. UNCHANGED <<strategy, name, listing, report, starts, mem, last>>
  BY DEF NextSession
<1>4. p.opened <= day /\ day' \in Nat /\ LastDay \in Nat
  BY <1>1, <1>2, HorizonIs DEF Lasting
<1>5. Lasting(q)'
  BY <1>1, <1>2, <1>3, <1>4 DEF Lasting
<1>6. Railed(q)'
  <2> SUFFICES ASSUME strategy \in Dated, ~p.dark, ~p.due, ~(day' < p.expiry)
               PROVE  /\ strategy # "tsmom_long_options"
                      /\ \A t \in SessionTicks(strategy, day') : minute' <= t
    BY <1>3 DEF Railed, DayTicks
  <2>1. \A t \in SessionTicks(strategy, day') : minute' <= t
    BY <1>1, NextTicksAre
  <2>2. strategy # "tsmom_long_options"
    <3> SUFFICES ASSUME strategy = "tsmom_long_options" PROVE FALSE
      OBVIOUS
    <3>1. p.opened + 60 <= p.expiry
      BY <1>1 DEF Lasting
    <3>2. MonthFirst(day) \in 0..day /\ day <= MonthFirst(day) + 30
      BY <1>1, MonthIs
    <3>3. \/ MonthFirst(day) <= p.opened
          \/ MonthFirst(day) <= p.opened + 31 /\ day <= MonthFirst(day) + 11
      BY <1>1 DEF Rolled
    <3> QED
      BY <1>1, <1>2, <1>4, <3>1, <3>2, <3>3
  <2> QED
    BY <2>1, <2>2
<1>7. Rolled(q)'
  <2>1. SUFFICES ASSUME strategy = "tsmom_long_options", ~p.dark, ~p.due
                 PROVE  \/ MonthFirst(day') <= p.opened
                        \/ MonthFirst(day') <= p.opened + 31 /\ day' <= MonthFirst(day') + 11
    <3>1. MonthFirst(day)' = MonthFirst(day')
      BY DEF MonthFirst
    <3> QED
      BY <1>3, <2>1, <3>1 DEF Rolled
  <2>2. \/ MonthFirst(day) <= p.opened
        \/ MonthFirst(day) <= p.opened + 31 /\ day = RebalanceDayOfMonth
    BY <1>1, <2>1 DEF Rolled
  <2>3. RebalanceDayOfMonth \in MonthFirst(day)..(MonthFirst(day) + 6)
    BY <1>1, RollIs
  <2>4. \/ MonthFirst(day) <= p.opened
        \/ MonthFirst(day) <= p.opened + 31 /\ day <= MonthFirst(day) + 6
    BY <2>2, <2>3
  <2>5. PICK e : e = day'
    OBVIOUS
  <2>6. e \in (day + 1)..LastDay /\ e <= day + 5 /\ p.opened \in 0..day
    BY <1>1, <1>2, <1>4, <2>5
  <2>7. \/ MonthFirst(e) <= p.opened
        \/ MonthFirst(e) <= p.opened + 31 /\ e <= MonthFirst(e) + 11
    BY <1>1, <2>4, <2>6, MonthMoves
  <2> QED
    BY <2>5, <2>7
<1>8. Screened(q)'
  <2> SUFFICES ASSUME report # None, report.day \in p.opened..(p.opened + FileWindow),
                      strategy = "short_put_45d30d_managed", ~p.dark, ~p.due
               PROVE  day' <= report.day
    BY <1>1, <1>3 DEF Screened
  <2>1. p.expiry - 21 < report.day /\ 21 < p.expiry - day
    BY <1>1 DEF Screened
  <2>2. report.day \in Nat /\ TradingDay(report.day)
    BY <1>1, ReportAssumption DEF ReportAssumption, DeskType
  <2> QED
    BY <1>1, <1>2, <2>1, <2>2
<1> QED
  BY <1>5, <1>6, <1>7, <1>8

LEMMA InvSession ==
  ASSUME DeskInv, NextSession
  PROVE  DeskInv'
<1>1. UNCHANGED <<strategy, name, listing, report, starts, mem, last>>
  BY DEF NextSession
<1>2. book \subseteq Combo /\ day \in Nat /\ DeskType
  BY HorizonIs DEF DeskInv, DeskType
<1>3. PICK seen \in {"inside", "breakout", "trailed_out"} :
        book' = {IF strategy = "squeeze_long_straddle"
                 THEN [Waiting(p) EXCEPT !.plan = seen] ELSE Waiting(p) :
                 p \in book \ {p \in book : p.expiry < day'}}
  BY DEF NextSession
<1>4. day' \in (day + 1)..LastDay /\ TradingDay(day') /\ LastDay \in Nat
  BY <1>2, NextDayIs, HorizonIs
<1>5. ASSUME NEW q \in book'
      PROVE  q \in Combo /\ Lasting(q)' /\ Railed(q)' /\ Rolled(q)' /\ Screened(q)'
  <2>1. PICK p \in book :
          /\ ~(p.expiry < day')
          /\ q = IF strategy = "squeeze_long_straddle"
                 THEN [Waiting(p) EXCEPT !.plan = seen] ELSE Waiting(p)
    BY <1>3
  <2>2. /\ p \in Combo /\ day' <= p.expiry
    BY <1>2, <1>4, <2>1 DEF Combo
  <2>3. CASE strategy = "squeeze_long_straddle"
    <3>1. /\ q \in Combo /\ q.opened = p.opened /\ q.at = p.at /\ q.expiry = p.expiry
          /\ q.due = TRUE /\ (q.dark <=> p.dark \/ p.due)
      BY <2>1, <2>2, <2>3, SeenIs
    <3> QED
      BY <2>2, <2>3, <3>1, SessionKeeps
  <2>4. CASE strategy # "squeeze_long_straddle"
    <3>1. Same(q, p) /\ q.due = TRUE /\ (q.dark <=> p.dark \/ p.due)
      BY <2>1, <2>2, <2>4, WaitingIs
    <3>2. q \in Combo /\ q.opened = p.opened /\ q.expiry = p.expiry /\ q.plan = p.plan
      BY <3>1 DEF Same
    <3> QED
      BY <2>2, <3>1, <3>2, SessionKeeps
  <2> QED
    BY <2>3, <2>4
<1>6. DeskType'
  <2>1. minute' \in SessionTicks(strategy, day')
    BY <1>2, NextTicksAre
  <2>2. day' \in 0..LastDay
    BY <1>2, <1>4
  <2> QED
    BY <1>1, <1>2, <1>4, <1>5, <2>1, <2>2 DEF DeskType, DayTicks
<1>7. Occupied'
  <2>1. EntryDay(last)' = EntryDay(last)
    BY <1>1, EntryDaySame
  <2> QED
    BY <1>1, <1>2, <1>4, <2>1 DEF DeskInv, Occupied
<1> QED
  BY <1>5, <1>6, <1>7 DEF DeskInv

LEMMA InvProcess ==
  ASSUME DeskInv, NewProcess
  PROVE  DeskInv'
<1>1. /\ UNCHANGED <<strategy, name, listing, report, day, minute, book, last>>
      /\ starts' = starts + 1
  BY DEF NewProcess
<1>2. starts \in Nat \ {0}
  BY DEF DeskInv, DeskType
<1>3. DeskType'
  BY <1>1 DEF DeskInv, DeskType, DayTicks
<1>4. EntryDay(last)' = EntryDay(last) /\ (Fresh => Fresh')
  BY <1>1, EntryDaySame DEF Fresh
<1>5. Occupied'
  BY <1>1, <1>2, <1>4 DEF DeskInv, Occupied
<1>6. \A p \in book : Lasting(p)' /\ Railed(p)' /\ Rolled(p)' /\ Screened(p)'
  BY <1>1, StayKeeps
<1> QED
  BY <1>1, <1>3, <1>5, <1>6 DEF DeskInv

\* The combo of an entry.
LEMMA NewKeeps ==
  ASSUME DeskInv, NEW e, NEW plan, EntryOk(e, plan), StillDesk, NEW q,
         q = [opened |-> day, at |-> minute, expiry |-> e, plan |-> plan,
              due |-> FALSE, dark |-> FALSE]
  PROVE  q \in Combo /\ Lasting(q)' /\ Railed(q)' /\ Rolled(q)' /\ Screened(q)'
<1>1. /\ day \in Nat /\ day \in 0..LastDay /\ e \in Nat /\ minute \in 0..1439
      /\ e \in 0..Far /\ TradingDay(e) /\ day <= e /\ plan \in Plans /\ DeskType
  <2>1. DayTicks(day) \in SUBSET (0..1439)
    BY TicksAre DEF DeskInv, DeskType, DayTicks
  <2> QED
    BY <2>1, HorizonIs DEF DeskInv, DeskType, EntryOk
<1>2. q.opened = day /\ q.expiry = e /\ q.plan = plan /\ q.due = FALSE /\ q.dark = FALSE
  OBVIOUS
<1>3. q \in Combo
  BY <1>1 DEF Combo
<1>4. UNCHANGED <<strategy, report, day, minute>>
  BY DEF StillDesk
<1>5. strategy \in Dated \cup Cyclic => day < e
  BY DEF EntryOk
<1>6. Lasting(q)'
  BY <1>1, <1>2, <1>4, <1>5 DEF Lasting, EntryOk, Cyclic
<1>7. Railed(q)'
  BY <1>1, <1>2, <1>4, <1>5 DEF Railed
<1>8. Rolled(q)'
  <2>1. MonthFirst(day) \in 0..day
    BY <1>1, MonthIs
  <2> QED
    BY <1>1, <1>2, <1>4, <2>1 DEF Rolled
<1>9. Screened(q)'
  <2> SUFFICES ASSUME report # None, report.day \in day..(day + FileWindow)
               PROVE  /\ strategy = "short_put_45d30d_managed" =>
                           e - 21 < report.day /\ 21 < e - day
                      /\ strategy \in {"gap_fade_bull_put", "rsi2_overbought_bear_call"} =>
                           e < report.day
    BY <1>2, <1>4 DEF Screened
  <2>1. ReportOnFile
    BY DEF ReportOnFile
  <2>2. report.day \in Nat
    BY <1>1, ReportAssumption DEF ReportAssumption, DeskType
  <2>3. strategy = "short_put_45d30d_managed" => day + 30 <= e /\ ~ReportIn(day, e - 21)
    BY DEF EntryOk
  <2>4. strategy \in {"gap_fade_bull_put", "rsi2_overbought_bear_call"} => ~ReportIn(day, e)
    BY DEF EntryOk
  <2> QED
    BY <1>1, <2>1, <2>2, <2>3, <2>4, HorizonIs DEF ReportIn
<1> QED
  BY <1>3, <1>6, <1>7, <1>8, <1>9

LEMMA InvEntered ==
  ASSUME DeskInv, Entered
  PROVE  DeskInv'
<1>1. PICK e, plan : EntryOk(e, plan) /\ Enter(e, plan)
  BY DEF Entered
<1>2. PICK q : q = [opened |-> day, at |-> minute, expiry |-> e, plan |-> plan,
                    due |-> FALSE, dark |-> FALSE]
  OBVIOUS
<1>3. book' = book \cup {q} /\ last' = CycleNow /\ StillDesk
  BY <1>1, <1>2 DEF Enter
<1>4. q \in Combo /\ Lasting(q)' /\ Railed(q)' /\ Rolled(q)' /\ Screened(q)'
  BY <1>1, <1>2, <1>3, NewKeeps
<1>5. \A p \in book : Lasting(p)' /\ Railed(p)' /\ Rolled(p)' /\ Screened(p)'
  BY <1>3, StayKeeps DEF StillDesk
<1>6. DeskType'
  BY <1>3, <1>4, StillType DEF DeskInv, DeskType
<1>7. /\ day \in Nat /\ starts \in Nat \ {0} /\ UNCHANGED <<strategy, report, day, starts>>
  BY <1>3, HorizonIs DEF DeskInv, DeskType, StillDesk
<1>8. CASE strategy \in Cyclic
  <2>1. EntryDay(CycleNow) = day /\ day < e
    BY <1>1, <1>8 DEF EntryOk
  <2>2. EntryDay(last)' = EntryDay(CycleNow)
    BY <1>3, <1>7 DEF EntryDay, CrushSession
  <2>3. Fresh'
    BY <1>2, <1>3, <1>7, <2>1 DEF Fresh
  <2>4. Occupied'
    BY <1>7, <1>8, <2>1, <2>2, <2>3 DEF Occupied, Cyclic
  <2> QED
    BY <1>3, <1>4, <1>5, <1>6, <2>4 DEF DeskInv
<1>9. CASE strategy = "zero_dte_morning_ic"
  <2>1. last' = <<day, starts>> /\ mem' = day
    BY <1>1, <1>3, <1>9 DEF CycleNow, EntryOk
  <2>2. starts \in 1..starts /\ day \in 0..day
    BY <1>7
  <2>3. Occupied'
    BY <1>7, <1>9, <2>1, <2>2 DEF Occupied, Cyclic
  <2> QED
    BY <1>3, <1>4, <1>5, <1>6, <2>3 DEF DeskInv
<1>10. CASE strategy \notin Cyclic \cup {"zero_dte_morning_ic"}
  <2>1. Occupied'
    BY <1>7, <1>10 DEF Occupied, Cyclic
  <2> QED
    BY <1>3, <1>4, <1>5, <1>6, <2>1 DEF DeskInv
<1> QED
  BY <1>8, <1>9, <1>10

LEMMA InvStamped ==
  ASSUME DeskInv, Stamped
  PROVE  DeskInv'
<1>1. StillDesk /\ UNCHANGED <<book, last>> /\ mem' = day /\ strategy = "zero_dte_morning_ic"
  BY DEF Stamped
<1>2. DeskType'
  BY <1>1, StillType DEF DeskInv, DeskType
<1>3. Occupied'
  BY <1>1 DEF DeskInv, Occupied, StillDesk, Cyclic
<1>4. \A p \in book : Lasting(p)' /\ Railed(p)' /\ Rolled(p)' /\ Screened(p)'
  BY <1>1, StayKeeps DEF StillDesk
<1> QED
  BY <1>1, <1>2, <1>3, <1>4 DEF DeskInv

LEMMA InvStutter ==
  ASSUME DeskInv, UNCHANGED deskVars
  PROVE  DeskInv'
<1>1. UNCHANGED <<strategy, name, listing, report, day, minute, starts, book, mem, closed, last>>
  BY DEF deskVars
<1>2. DeskType'
  BY <1>1 DEF DeskInv, DeskType, DayTicks
<1>3. EntryDay(last)' = EntryDay(last) /\ (Fresh => Fresh')
  BY <1>1, EntryDaySame DEF Fresh
<1>4. Occupied'
  BY <1>1, <1>3 DEF DeskInv, Occupied
<1>5. \A p \in book : Lasting(p)' /\ Railed(p)' /\ Rolled(p)' /\ Screened(p)'
  BY <1>1, StayKeeps
<1> QED
  BY <1>1, <1>2, <1>4, <1>5 DEF DeskInv

LEMMA InvInit ==
  ASSUME RosterInit
  PROVE  DeskInv
<1> DEFINE sessions == {d \in 0..LastDay : TradingDay(d)}
<1>1. sessions # {} /\ sessions \in SUBSET Nat /\ LastDay \in Nat
  BY HorizonIs, CalendarAssumption DEF CalendarAssumption
<1>2. day = Soonest(sessions) /\ minute = Soonest(DayTicks(day)) /\ strategy \in Strategies
  BY DEF RosterInit
<1>3. Soonest(sessions) \in sessions
  <2> HIDE DEF sessions
  <2> QED
    BY <1>1, SoonestIs
<1>4. day \in 0..LastDay /\ TradingDay(day)
  BY <1>2, <1>3
<1> HIDE DEF sessions
<1>5. DayTicks(day) # {} /\ DayTicks(day) \in SUBSET (0..1439)
  BY <1>2, TicksAre DEF DayTicks
<1>6. DayTicks(day) \in SUBSET Nat
  BY <1>5, SMTT(30)
<1>7. minute \in DayTicks(day)
  BY <1>2, <1>5, <1>6, SoonestIs
<1>8. /\ listing \in {"daily", "weekly"} /\ report \in Reports \cup {None}
      /\ starts = 1 /\ book = {} /\ last = None
  BY DEF RosterInit
<1>9. DeskType
  BY <1>2, <1>4, <1>7, <1>8 DEF DeskType
<1>10. Occupied
  BY <1>8 DEF Occupied
<1> QED
  BY <1>8, <1>9, <1>10 DEF DeskInv

\* Every step of the roster is an entry, a stamp, a turn, or one of the
\* runner's own.
LEMMA InvNext ==
  ASSUME DeskInv, [RosterNext]_deskVars
  PROVE  DeskInv'
<1>1. CASE Scan
  BY <1>1, ScanEnters, InvEntered, InvStamped DEF DeskInv
<1>2. CASE Manage \/ Unquoted
  BY <1>2, ManageTurns, InvTurned
<1>3. CASE Backstop
  BY <1>3, InvTurned
<1>4. CASE NextTick
  BY <1>4, InvTick
<1>5. CASE NextSession
  BY <1>5, InvSession
<1>6. CASE NewProcess
  BY <1>6, InvProcess
<1>7. CASE UNCHANGED deskVars
  BY <1>7, InvStutter
<1> QED
  BY <1>1, <1>2, <1>3, <1>4, <1>5, <1>6, <1>7 DEF RosterNext

LEMMA DeskInvariant == RosterSpec => []DeskInv
<1>1. RosterInit => DeskInv
  BY InvInit
<1>2. DeskInv /\ [RosterNext]_deskVars => DeskInv'
  BY InvNext
<1> QED
  BY <1>1, <1>2, PTL DEF RosterSpec

-----------------------------------------------------------------------------
(* What a report file is good for.                                         *)

\* Short puts, faded gaps and overbought calls are out before a report that
\* was on file when they were entered, unless a manage turn was missed.
THEOREM ReportsAreAvoided == RosterSpec => []FiledReportsAvoided
<1>1. ASSUME DeskInv PROVE FiledReportsAvoided
  <2> SUFFICES ASSUME NEW p \in book,
                      strategy \in {"short_put_45d30d_managed", "gap_fade_bull_put",
                                   "rsi2_overbought_bear_call"},
                      report # None, p.opened <= report.day, report.day < day,
                      ~p.dark, ~(report.day > p.opened + FileWindow)
               PROVE  FALSE
    BY DEF FiledReportsAvoided
  <2>1. /\ Lasting(p) /\ Screened(p) /\ day \in Nat
        /\ p.opened \in Nat /\ p.expiry \in Nat /\ p.due \in BOOLEAN
    BY <1>1, HorizonIs DEF DeskInv, DeskType, Combo
  <2>2. report.day \in Nat
    BY <1>1, ReportAssumption DEF ReportAssumption, DeskInv, DeskType
  <2>3. report.day \in p.opened..(p.opened + FileWindow)
    BY <2>1, <2>2, HorizonIs
  <2>4. CASE strategy = "short_put_45d30d_managed"
    BY <2>1, <2>2, <2>3, <2>4 DEF Screened
  <2>5. CASE strategy \in {"gap_fade_bull_put", "rsi2_overbought_bear_call"}
    BY <2>1, <2>2, <2>3, <2>5 DEF Screened, Lasting
  <2> QED
    BY <2>4, <2>5
<1> QED
  BY <1>1, DeskInvariant, PTL

-----------------------------------------------------------------------------
(* One entry per cycle.                                                    *)

\* Nothing but an entry adds a combo.
LEMMA NoneBorn ==
  ASSUME DeskInv, [RosterNext]_deskVars, ~Entered
  PROVE  Born = {}
<1>1. ASSUME \A q \in book' : \E p \in book : q.opened = p.opened /\ q.at = p.at
      PROVE  Born = {}
  BY <1>1 DEF Born
<1>2. book \subseteq Combo
  BY DEF DeskInv, DeskType
<1>3. CASE UNCHANGED book
  BY <1>1, <1>3
<1>4. CASE Turned \/ Backstop
  <2>1. PICK p \in book, x \in BOOLEAN : book' = Took(p, x) \/ book' = book \ {p}
    BY <1>4 DEF Turned, Backstop, Blind, Hold, Close
  <2>2. CASE book' = Took(p, x)
    <3>1. PICK q : Marked(q, p, FALSE, x)
      BY DEF Marked
    <3>2. Same(q, p)
      BY <1>2, <3>1, MarkIs
    <3>3. book' = (book \ {p}) \cup {q}
      BY <2>2, <3>1, Zenon DEF Took, Marked
    <3> QED
      BY <1>1, <3>2, <3>3 DEF Same
  <2>3. CASE book' = book \ {p}
    BY <1>1, <2>3
  <2> QED
    BY <2>1, <2>2, <2>3
<1>5. CASE NextTick
  <2>1. book' = {Waiting(p) : p \in book}
    BY <1>5 DEF NextTick
  <2>2. \A p \in book : Same(Waiting(p), p)
    BY <1>2, WaitingIs
  <2> QED
    BY <1>1, <2>1, <2>2 DEF Same
<1>6. CASE NextSession
  <2>1. PICK seen \in {"inside", "breakout", "trailed_out"} :
          book' = {IF strategy = "squeeze_long_straddle"
                   THEN [Waiting(p) EXCEPT !.plan = seen] ELSE Waiting(p) :
                   p \in book \ {p \in book : p.expiry < day'}}
    BY <1>6 DEF NextSession
  <2>2. ASSUME NEW q \in book'
        PROVE  \E p \in book : q.opened = p.opened /\ q.at = p.at
    <3>1. PICK p \in book :
            q = IF strategy = "squeeze_long_straddle"
                THEN [Waiting(p) EXCEPT !.plan = seen] ELSE Waiting(p)
      BY <2>1
    <3>2. CASE strategy = "squeeze_long_straddle"
      BY <1>2, <3>1, <3>2, SeenIs
    <3>3. CASE strategy # "squeeze_long_straddle"
      <4>1. Same(q, p)
        BY <1>2, <3>1, <3>3, WaitingIs
      <4> QED
        BY <4>1 DEF Same
    <3> QED
      BY <3>2, <3>3
  <2> QED
    BY <1>1, <2>2
<1>7. CASE Scan
  <2>1. Stamped
    BY <1>7, ScanEnters DEF DeskInv
  <2> QED
    BY <1>3, <2>1 DEF Stamped
<1>8. CASE NewProcess
  BY <1>3, <1>8 DEF NewProcess
<1>9. CASE UNCHANGED deskVars
  BY <1>3, <1>9 DEF deskVars
<1> QED
  BY <1>4, <1>5, <1>6, <1>7, <1>8, <1>9, ManageTurns DEF RosterNext

LEMMA EntersOnce ==
  ASSUME DeskInv, [RosterNext]_deskVars, strategy # "gap_fade_bull_put", Born # {}, last' # None
  PROVE  last' # last
<1>1. PICK e, plan : EntryOk(e, plan) /\ Enter(e, plan)
  BY NoneBorn DEF Entered
<1>2. last' = CycleNow
  BY <1>1 DEF Enter
<1> SUFFICES ASSUME last' = last PROVE FALSE
  OBVIOUS
<1>3. CASE strategy \in Cyclic
  <2>1. EntryDay(last) = day /\ ~Fresh
    BY <1>1, <1>2, <1>3 DEF EntryOk
  <2> QED
    BY <1>2, <1>3, <2>1 DEF DeskInv, Occupied
<1>4. CASE strategy = "zero_dte_morning_ic"
  <2>1. last = <<day, starts>> /\ mem # day
    BY <1>1, <1>2, <1>4 DEF EntryOk, CycleNow
  <2> QED
    BY <1>2, <1>4, <2>1 DEF DeskInv, Occupied
<1>5. CASE strategy \notin Cyclic \cup {"zero_dte_morning_ic"}
  <2>1. last' = None
    BY <1>2, <1>5 DEF CycleNow, Cyclic
  <2> QED
    BY <2>1
<1> QED
  BY <1>3, <1>4, <1>5

\* A strategy published as one entry per month, week, day, report or decision
\* enters a cycle once, whatever closed the first entry and across restarts.
THEOREM OneEntryPerCycle == RosterSpec => OncePerCycle
<1>1. ASSUME DeskInv, [RosterNext]_deskVars
      PROVE  [/\ strategy # "gap_fade_bull_put"
              /\ Born # {}
              /\ last' # None
              => last' # last]_deskVars
  BY <1>1, EntersOnce
<1> QED
  BY <1>1, DeskInvariant, PTL DEF RosterSpec, OncePerCycle

-----------------------------------------------------------------------------
(* A strategy's own exit comes before the rails.                           *)

\* The expiry backstop meets a dated combo only if a turn of it was missed.
LEMMA BackstopIsLast ==
  ASSUME DeskInv, NEW p \in book, BackstopDue(p), strategy \in Dated
  PROVE  p.dark \/ (strategy = "rsi2_overbought_bear_call" /\ p.expiry \in HalfDays)
<1> SUFFICES ASSUME ~p.dark, ~(strategy = "rsi2_overbought_bear_call" /\ p.expiry \in HalfDays)
             PROVE  FALSE
  OBVIOUS
<1>1. /\ Lasting(p) /\ Railed(p) /\ DeskType /\ day \in Nat /\ p.expiry \in Nat
  BY HorizonIs DEF DeskInv, DeskType, Combo
<1>2. p.expiry = day /\ minute >= SessionClose - 10
  BY <1>1 DEF BackstopDue, Lasting
<1>3. /\ strategy # "tsmom_long_options"
      /\ \A t \in DayTicks(day) \cap ExitHours(strategy) : minute <= t
  BY <1>1, <1>2 DEF Railed
<1>4. PICK t \in SessionTicks(strategy, day) \cap ExitHours(strategy) :
        t < OptionsClose(day, Universe[strategy][1]) - 10
  <2>1. strategy \in Strategies /\ day \in 0..LastDay /\ TradingDay(day)
    BY <1>1 DEF DeskType
  <2> QED
    BY <1>2, <1>3, <2>1, TickAssumption DEF TickAssumption
<1>5. minute <= t /\ t < SessionClose - 10
  BY <1>3, <1>4 DEF DayTicks, SessionClose
<1>6. minute \in Nat /\ t \in Nat /\ SessionClose \in Nat
  <2>1. SessionTicks(strategy, day) \in SUBSET Nat
    BY <1>1, TicksAreNat DEF DeskType
  <2>2. SessionClose \in {780, 795, 960, 975}
    BY CloseIs DEF SessionClose
  <2>3. SessionClose \in Nat
    BY <2>2
  <2>4. minute \in SessionTicks(strategy, day)
    BY <1>1 DEF DeskType, DayTicks
  <2> QED
    BY <1>4, <2>1, <2>3, <2>4
<1> QED
  BY <1>2, <1>5, <1>6

\* So does the settlement of what expired.
LEMMA SettledIsLast ==
  ASSUME DeskInv, NextSession, NEW p \in book, p.expiry < day', strategy \in Dated
  PROVE  p.dark \/ (strategy = "rsi2_overbought_bear_call" /\ p.expiry \in HalfDays)
<1> SUFFICES ASSUME ~p.dark, ~(strategy = "rsi2_overbought_bear_call" /\ p.expiry \in HalfDays)
             PROVE  FALSE
  OBVIOUS
<1>1. /\ Lasting(p) /\ Railed(p) /\ DeskType /\ day \in Nat /\ p.expiry \in Nat
  BY HorizonIs DEF DeskInv, DeskType, Combo
<1>2. /\ day' \in Nat /\ \A d \in Nat : TradingDay(d) /\ day < d => day' <= d
  BY <1>1, NextDayIs, HorizonIs
<1>3. p.expiry = day
  BY <1>1, <1>2 DEF Lasting
<1>4. /\ strategy # "tsmom_long_options"
      /\ \A t \in DayTicks(day) \cap ExitHours(strategy) : minute <= t
  BY <1>1, <1>3 DEF Railed
<1>5. PICK t \in SessionTicks(strategy, day) \cap ExitHours(strategy) :
        \E u \in SessionTicks(strategy, day) : t < u
  <2>1. strategy \in Strategies /\ day \in 0..LastDay /\ TradingDay(day)
    BY <1>1 DEF DeskType
  <2> QED
    BY <1>3, <1>4, <2>1, TickAssumption DEF TickAssumption
<1>6. \A u \in DayTicks(day) : u \in Nat /\ u <= minute
  BY <1>1, NextTicksAre
<1>7. minute \in DayTicks(day)
  BY <1>1 DEF DeskType
<1> QED
  BY <1>4, <1>5, <1>6, <1>7 DEF DayTicks

LEMMA ClosesByItsOwn ==
  ASSUME DeskInv, OwnExitFirst, [RosterNext]_deskVars
  PROVE  OwnExitFirst'
<1>1. CASE closed' = None
  BY <1>1 DEF OwnExitFirst
<1>2. CASE Scan
  <2>1. Entered \/ Stamped
    BY <1>2, ScanEnters DEF DeskInv
  <2> QED
    BY <1>1, <2>1 DEF Entered, Enter, Stamped
<1>3. CASE Manage \/ Unquoted
  <2>1. PICK p \in book :
          \/ closed' = None
          \/ \E rule : closed' = [pos |-> p, rule |-> rule] /\ rule \notin Rails
    BY <1>3, ManageTurns DEF Turned, Blind, Hold, Close
  <2> QED
    BY <1>1, <2>1 DEF OwnExitFirst, Rails
<1>4. CASE Backstop
  <2>1. PICK p \in book : BackstopDue(p) /\ Close(p, "expiry_backstop")
    BY <1>4 DEF Backstop
  <2>2. closed' = [pos |-> p, rule |-> "expiry_backstop"] /\ UNCHANGED strategy
    BY <2>1 DEF Close, StillDesk
  <2>3. closed'.pos = p
    BY <2>2
  <2> QED
    BY <2>1, <2>2, <2>3, BackstopIsLast DEF OwnExitFirst
<1>5. CASE NextSession
  <2> DEFINE expired == {p \in book : p.expiry < day'}
  <2>1. /\ closed' = IF expired = {} THEN None
                     ELSE [pos |-> CHOOSE p \in expired : TRUE, rule |-> "settled_at_expiry"]
        /\ UNCHANGED strategy
    BY <1>5 DEF NextSession
  <2>2. CASE expired = {}
    BY <1>1, <2>1, <2>2
  <2>3. CASE expired # {}
    <3>1. PICK p \in expired : p = CHOOSE o \in expired : TRUE
      BY <2>3, Zenon
    <3>2. closed' = [pos |-> p, rule |-> "settled_at_expiry"] /\ closed'.pos = p
      <4>1. closed' = [pos |-> p, rule |-> "settled_at_expiry"]
        BY <2>1, <2>3, <3>1, Zenon
      <4> QED
        BY <4>1
    <3>3. p \in book /\ p.expiry < day'
      BY <3>1
    <3>4. strategy \in Dated =>
            p.dark \/ (strategy = "rsi2_overbought_bear_call" /\ p.expiry \in HalfDays)
      BY <1>5, <3>3, SettledIsLast
    <3>5. UNCHANGED strategy
      BY <2>1
    <3> HIDE DEF expired
    <3> QED
      BY <3>2, <3>4, <3>5 DEF OwnExitFirst
  <2> QED
    BY <2>2, <2>3
<1>6. CASE NextTick \/ NewProcess
  BY <1>1, <1>6 DEF NextTick, NewProcess
<1>7. CASE UNCHANGED deskVars
  BY <1>7 DEF deskVars, OwnExitFirst
<1> QED
  BY <1>2, <1>3, <1>4, <1>5, <1>6, <1>7 DEF RosterNext

\* The strategies whose doctrine ends a trade on a date end it there: the
\* expiry backstop and the settlement are left with the combos of which a
\* turn was missed, and the bear calls of a half day.
THEOREM DatesComeFirst == RosterSpec => []OwnExitFirst
<1>1. RosterInit => OwnExitFirst
  BY DEF RosterInit, OwnExitFirst
<1>2. DeskInv /\ OwnExitFirst /\ [RosterNext]_deskVars => OwnExitFirst'
  BY ClosesByItsOwn
<1> QED
  BY <1>1, <1>2, DeskInvariant, PTL DEF RosterSpec
=============================================================================
