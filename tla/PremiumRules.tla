---------------------------- MODULE PremiumRules ----------------------------
(***************************************************************************)
(* The premium sellers of atlas/strategy_lab/strategies: what each needs   *)
(* to enter and what closes it.  A cost is the price of buying the combo   *)
(* back in percent of the credit taken in.                                 *)
(***************************************************************************)
EXTENDS StrategyDesk

Costs == {50, 51, 75, 76, 199, 200, 299, 300}

Percentiles == {None, 29, 30, 50, 51}
-----------------------------------------------------------------------------
\* short_put_45d30d_managed
ShortPut == [dtes |-> 30..60, target |-> 45, profit |-> 50, exit |-> 21, max |-> 9]

FirstTradingDayOfMonth ==
  Soonest({d \in MonthFirst(day)..(MonthFirst(day) + 9) : TradingDay(d)})

StandardMonthlyExpiry(e) == OnOrBefore(ThirdFriday(MonthFirst(e)))

ShortPutExpiry ==
  Closest({e \in InBand(ShortPut.dtes) : e = StandardMonthlyExpiry(e)},
          ShortPut.target)

ShortPutScan ==
  /\ Scans("short_put_45d30d_managed", ShortPut.max)
  /\ day = FirstTradingDayOfMonth
  /\ book = {}
  /\ \E e \in ShortPutExpiry :
       /\ ~ReportIn(day, e - ShortPut.exit)
       /\ Enter(e, None)
  /\ UNCHANGED mem

\* no live offer: held, the 21-day exit included
ShortPutManage ==
  \E p \in Turn("short_put_45d30d_managed") :
    \/ Blind(p)
    \/ \E cost \in Costs :
         Decide(p, << <<cost <= ShortPut.profit, "profit_50pct">>,
                      <<Dte(p) <= ShortPut.exit, "dte_21_management">> >>)
-----------------------------------------------------------------------------
\* strangle_45d16d_managed
Strangle == [dtes |-> 35..50, target |-> 45, pctile |-> 50, profit |-> 50,
             exit |-> 21, loss |-> 300, max |-> 3]

\* no percentile on file does not gate
StrangleGate(pctile) == pctile # None => pctile > Strangle.pctile

StrangleExpiry == Closest(InBand(Strangle.dtes), Strangle.target)

StrangleScan ==
  /\ Scans("strangle_45d16d_managed", Strangle.max)
  /\ book = {}
  /\ \E pctile \in Percentiles : StrangleGate(pctile)
  /\ \E e \in StrangleExpiry : Enter(e, None)
  /\ UNCHANGED mem

\* the 21-day exit needs no price
StrangleManage ==
  \E p \in Turn("strangle_45d16d_managed"), cost \in Costs \cup {None} :
    LET priced == cost # None
    IN Decide(p, << <<priced /\ cost <= Strangle.profit, "profit_50pct">>,
                    <<Dte(p) <= Strangle.exit, "dte_21_management">>,
                    <<priced /\ cost >= Strangle.loss, "loss_2x_credit">> >>)
-----------------------------------------------------------------------------
\* ic_45d16d_managed
Condor == [dtes |-> 35..55, target |-> 45, profit |-> 50, exit |-> 21,
           from |-> 600, to |-> 930, max |-> 3]

\* ties go to the monthly, then to the earlier
CondorExpiry ==
  LET band == InBand(Condor.dtes)
      near == {e \in band : \A f \in band :
                 Distance(e, Condor.target) <= Distance(f, Condor.target)}
      monthly == {e \in near : e = ThirdFriday(MonthFirst(e))}
  IN IF monthly # {} THEN Earliest(monthly) ELSE Earliest(near)

CondorScan ==
  /\ Scans("ic_45d16d_managed", Condor.max)
  /\ Within(Condor.from, Condor.to)
  /\ book = {}
  /\ \E e \in CondorExpiry : Enter(e, None)
  /\ UNCHANGED mem

CondorManage ==
  \E p \in Turn("ic_45d16d_managed") :
    \/ Blind(p)
    \/ \E cost \in Costs :
         Decide(p, << <<cost <= Condor.profit, "profit_50pct">>,
                      <<Dte(p) <= Condor.exit, "dte_21_management">> >>)
-----------------------------------------------------------------------------
\* jade_lizard
Jade == [dtes |-> 35..50, target |-> 45, pctile |-> 50, profit |-> 50,
         exit |-> 21, max |-> 3]

\* a missing, stale or unreadable percentile does not gate
JadeGate(pctile, stale) ==
  (pctile # None /\ ~stale) => pctile >= Jade.pctile

JadeExpiry == Closest(InBand(Jade.dtes), Jade.target)

JadeScan ==
  /\ Scans("jade_lizard", Jade.max)
  /\ book = {}
  /\ \E pctile \in Percentiles, stale \in BOOLEAN : JadeGate(pctile, stale)
  /\ \E e \in JadeExpiry : Enter(e, None)
  /\ UNCHANGED mem

\* fault: the 21-day rule looks for the day itself
JadeManageOnTheDay ==
  \E p \in Turn("jade_lizard"), cost \in Costs \cup {None} :
    Decide(p, << <<cost # None /\ cost <= Jade.profit, "profit_50pct">>,
                 <<Dte(p) = Jade.exit, "time_21dte">> >>)

JadeManage ==
  \E p \in Turn("jade_lizard"), cost \in Costs \cup {None} :
    Decide(p, << <<cost # None /\ cost <= Jade.profit, "profit_50pct">>,
                 <<Dte(p) <= Jade.exit, "time_21dte">> >>)
-----------------------------------------------------------------------------
\* vrp_short_straddle: no rule of its own closes it on a date
Vrp == [dtes |-> 25..35, target |-> 30, profit |-> 75, stop |-> 200, max |-> 3]

VrpExpiry == Closest(InBand(Vrp.dtes), Vrp.target)

VrpScan ==
  /\ Scans("vrp_short_straddle", Vrp.max)
  /\ book = {}
  /\ \E e \in VrpExpiry : Enter(e, None)
  /\ UNCHANGED mem

VrpManage ==
  \E p \in Turn("vrp_short_straddle") :
    \/ Blind(p)
    \/ \E cost \in Costs :
         Decide(p, << <<cost <= Vrp.profit, "profit_25pct">>,
                      <<cost >= Vrp.stop, "stop_100pct">> >>)
-----------------------------------------------------------------------------
\* cndr_iron_condor_hold: rides to settlement
Cndr == [dtes |-> 21..40, tolerance |-> 3, from |-> 645, to |-> 660, max |-> 2]

RollDateOfMonth == OnOrBefore(ThirdFriday(MonthFirst(day)))

CndrExpiry ==
  LET target == ThirdFriday(NextMonthFirst(day))
      off(e) == IF e >= target THEN e - target ELSE target - e
      monthly == {e \in InBand(Cndr.dtes) : off(e) <= Cndr.tolerance}
  IN {e \in monthly : \A f \in monthly : \/ off(e) < off(f)
                                         \/ off(e) = off(f) /\ e <= f}

CndrScan ==
  /\ Scans("cndr_iron_condor_hold", Cndr.max)
  /\ day = RollDateOfMonth
  /\ Within(Cndr.from, Cndr.to)
  /\ \A p \in book : p.expiry <= day
  /\ \E e \in CndrExpiry : Enter(e, None)
  /\ UNCHANGED mem

CndrManage == \E p \in Turn("cndr_iron_condor_hold") : Hold(p)
-----------------------------------------------------------------------------
\* wput_weekly_putwrite: rides to settlement
Wput == [dtes |-> 5..9, from |-> 955, to |-> 960, max |-> 18]

RollDayOfWeek == OnOrBefore(day - Weekday(day) + 4)

WputExpiry == Earliest(InBand(Wput.dtes))

WputScan ==
  /\ Scans("wput_weekly_putwrite", Wput.max)
  /\ day = RollDayOfWeek
  /\ Within(Wput.from, Wput.to)
  /\ \A p \in book : p.expiry <= day
  /\ \E e \in WputExpiry : Enter(e, None)
  /\ UNCHANGED mem

WputManage == \E p \in Turn("wput_weekly_putwrite") : Hold(p)
-----------------------------------------------------------------------------
\* zero_dte_morning_ic: the names proposed today are kept in memory only
ZeroDte == [from |-> 585, to |-> 595, stop |-> 100, max |-> 2]

\* fault: only the names the runner declined are stamped
ZeroDteScanUnstamped ==
  /\ Scans("zero_dte_morning_ic", ZeroDte.max)
  /\ Within(ZeroDte.from, ZeroDte.to)
  /\ mem # day
  /\ \A p \in book : p.opened # day
  /\ \/ day \in InBand({0}) /\ Enter(day, None) /\ UNCHANGED mem
     \/ mem' = day /\ UNCHANGED <<book, last>> /\ closed' = None /\ StillDesk

\* the name is stamped when it is proposed, whether or not it is then entered,
\* and when a scan in the window finds it open since this morning
ZeroDteScan ==
  /\ Scans("zero_dte_morning_ic", ZeroDte.max)
  /\ Within(ZeroDte.from, ZeroDte.to)
  /\ mem # day /\ mem' = day
  /\ \/ /\ \A p \in book : p.opened # day
        /\ day \in InBand({0})
        /\ Enter(day, None)
     \/ UNCHANGED <<book, last>> /\ closed' = None /\ StillDesk

ZeroDteManage ==
  \E p \in Turn("zero_dte_morning_ic") :
    \/ Blind(p)
    \/ \E side \in {99, 100} :
         Decide(p, << <<side >= ZeroDte.stop, "stop_side_debit_ge_credit">> >>)
-----------------------------------------------------------------------------
\* overnight_1dte_strangle
Overnight == [dtes |-> 1..3, lead |-> 15, from |-> 570, max |-> 3]

OvernightExpiry == Earliest(InBand(Overnight.dtes))

OvernightScan ==
  /\ Scans("overnight_1dte_strangle", Overnight.max)
  /\ Within(SessionClose - Overnight.lead, SessionClose)
  /\ book = {}
  /\ \E e \in OvernightExpiry : Enter(e, None)
  /\ UNCHANGED mem

\* blind to quotes: the runner fills from its own book
OvernightManage ==
  \E p \in Turn("overnight_1dte_strangle") :
    Decide(p, << <<day > p.opened /\ minute >= Overnight.from,
                   "next_open_buyback">> >>)
=============================================================================
