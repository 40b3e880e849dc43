----------------------------- MODULE TrendRules -----------------------------
(***************************************************************************)
(* The price-driven strategies of atlas/strategy_lab/strategies.  An       *)
(* indicator read from the daily history is a sign or a truth value.       *)
(***************************************************************************)
EXTENDS PremiumRules

Signs == {-1, 0, 1}
-----------------------------------------------------------------------------
\* backspread_1x2
Backspread == [dtes |-> 45..75, target |-> 60, from |-> 575, to |-> 955,
               pctile |-> 50, assign |-> 5, max |-> 6]

BackspreadExpiry ==
  Closest(InBand(Backspread.dtes), Backspread.target)

BackspreadScan ==
  /\ Scans("backspread_1x2", Backspread.max)
  /\ Within(Backspread.from, Backspread.to)
  /\ \E pctile \in Percentiles : pctile # None => pctile < Backspread.pctile
  /\ book = {}
  /\ \E e \in BackspreadExpiry : Enter(e, None)
  /\ UNCHANGED mem

\* doubled: the gain covers the worst case; thin: the short leg in the money
\* with next to no extrinsic value left
BackspreadManage ==
  \E p \in Turn("backspread_1x2"), doubled \in BOOLEAN, thin \in BOOLEAN :
    Decide(p, << <<doubled, "backspread_x2_profit">>,
                 <<Dte(p) <= Backspread.assign /\ thin,
                   "backspread_x5_early_assign">> >>)
-----------------------------------------------------------------------------
\* atm_calendar_low_iv: expiry is the front month, plan the back month
Calendar == [front |-> 7..10, back |-> 30..40, pctile |-> 30, exit |-> 5, max |-> 3]

CalendarExpiries ==
  Earliest(InBand(Calendar.front)) \X Earliest(InBand(Calendar.back))

CalendarScan ==
  /\ Scans("atm_calendar_low_iv", Calendar.max)
  /\ \E pctile \in Percentiles \ {None} : pctile < Calendar.pctile
  /\ book = {}
  /\ \E months \in CalendarExpiries : Enter(months[1], months[2])
  /\ UNCHANGED mem

TradingDaysUntil(e) == SessionsIn((day + 1)..e)

CalendarManage ==
  \E p \in Turn("atm_calendar_low_iv"), parity \in BOOLEAN :
    Decide(p, << <<parity, "short_parity_assignment_guard">>,
                 <<TradingDaysUntil(p.expiry) <= Calendar.exit,
                   "front_expiry_week_exit">> >>)
-----------------------------------------------------------------------------
\* donchian_breakout_debit_vert
Donchian == [dtes |-> 45..75, target |-> 60, from |-> 575, to |-> 955,
             roll |-> 21, max |-> 9]

\* a breakout after a winner counts only on the 55-day channel
Breakout(short, long, winner) == IF short # 0 /\ winner THEN long ELSE short

DonchianExpiry ==
  Closest(InBand(Donchian.dtes), Donchian.target)

DonchianScan ==
  /\ Scans("donchian_breakout_debit_vert", Donchian.max)
  /\ Within(Donchian.from, Donchian.to)
  /\ book = {}
  /\ \E short \in Signs, long \in Signs, winner \in BOOLEAN :
       Breakout(short, long, winner) # 0
  /\ \E e \in DonchianExpiry : Enter(e, None)
  /\ UNCHANGED mem

DonchianManage ==
  \E p \in Turn("donchian_breakout_debit_vert"),
     stopped \in BOOLEAN, crossed \in BOOLEAN :
    Decide(p, << <<Dte(p) <= Donchian.roll, "turtle_x4_roll_dte">>,
                 <<stopped, "turtle_x2_stop_2n">>,
                 <<crossed, "turtle_x1_channel_exit">> >>)
-----------------------------------------------------------------------------
\* gap_fade_bull_put: not scanned in a macro blackout
GapFade == [dtes |-> 0..5, from |-> 585, to |-> 690, force |-> 930, max |-> 3]

GapFadeExpiry == Earliest(InBand(GapFade.dtes))

\* occupied, or one per day: the second set is part of the first
GapFadeBlocked == book \cup {p \in book : p.opened = day}

\* fault: the report gate looks at the entry day only
GapFadeScanToday ==
  /\ Scans("gap_fade_bull_put", GapFade.max)
  /\ Within(GapFade.from, GapFade.to)
  /\ GapFadeBlocked = {}
  /\ \E e \in GapFadeExpiry : ~ReportIn(day, day) /\ Enter(e, None)
  /\ UNCHANGED mem

GapFadeScan ==
  /\ Scans("gap_fade_bull_put", GapFade.max)
  /\ Within(GapFade.from, GapFade.to)
  /\ GapFadeBlocked = {}
  /\ \E e \in GapFadeExpiry :
       /\ ~ReportIn(day, e)
       /\ Enter(e, None)
  /\ UNCHANGED mem

\* where the underlying trades: back at the prior close, below the shelf,
\* within the buffer of the short strike, or clear of all three
GapFadeManage ==
  \E p \in Turn("gap_fade_bull_put") :
    \/ Blind(p)
    \/ \E S \in {"filled", "below_shelf", "near_strike", "clear"} :
         Decide(p, << <<S = "filled", "gap_filled">>,
                      <<S = "below_shelf", "fade_thesis_dead">>,
                      <<p.expiry <= day /\ minute >= GapFade.force
                          /\ S = "near_strike", "expiry_itm_force_close">> >>)
-----------------------------------------------------------------------------
\* rsi2_overbought_bear_call: entries and exits at the closing evaluation only
BearCall == [dtes |-> 10..17, from |-> 945, to |-> 955, force |-> 1, max |-> 9]

BearCallExpiry == Earliest(InBand(BearCall.dtes))

BearCallScan ==
  /\ Scans("rsi2_overbought_bear_call", BearCall.max)
  /\ Within(BearCall.from, BearCall.to)
  /\ book = {}
  /\ \E e \in BearCallExpiry :
       /\ ~ReportIn(day, e)
       /\ Enter(e, None)
  /\ UNCHANGED mem

\* signal: the close below its 5-day mean, above its 200-day mean, neither,
\* or no history; the one-day rule needs no signal but quotes
BearCallManage ==
  \E p \in Turn("rsi2_overbought_bear_call") :
    IF ~Within(BearCall.from, BearCall.to)
    THEN Hold(p)
    ELSE \/ Blind(p)
         \/ \E signal \in {"under5", "over200", "neither", None} :
              Decide(p, << <<signal = "under5", "exit_under_5sma">>,
                           <<signal = "over200", "exit_regime_flip_200sma">>,
                           <<Dte(p) <= BearCall.force, "force_close_1dte">> >>)
-----------------------------------------------------------------------------
\* rsi2_oversold_short_put
OversoldPut == [dtes |-> 7..14, from |-> 930, to |-> 950, earnings |-> 7, max |-> 9]

OversoldPutExpiry == Earliest(InBand(OversoldPut.dtes))

OversoldPutScan ==
  /\ Scans("rsi2_oversold_short_put", OversoldPut.max)
  /\ Within(OversoldPut.from, OversoldPut.to)
  /\ book = {}
  /\ ~ReportIn(day, day + OversoldPut.earnings - 1)
  /\ \E e \in OversoldPutExpiry : Enter(e, None)
  /\ UNCHANGED mem

\* only a close printed on or after the entry day counts
OversoldPutManage ==
  \E p \in Turn("rsi2_oversold_short_put") :
    \/ Blind(p)
    \/ \E hot \in BOOLEAN :
         Decide(p, << <<SessionsIn(p.opened..(day - 1)) > 0 /\ hot,
                        "rsi2_close_above_65">> >>)
-----------------------------------------------------------------------------
\* squeeze_long_straddle: plan is what the daily bars since the entry show
Squeeze == [dtes |-> 30..50, target |-> 45, sessions |-> 15, floor |-> 7,
            earnings |-> 21, max |-> 9]

SqueezeExpiry == Closest(InBand(Squeeze.dtes), Squeeze.target)

\* after an exit the bandwidth must have left its lowest quartile on a later
\* session; the exit day is remembered in memory only
Rearmed(wide) ==
  mem # None => wide /\ SessionsIn((mem + 1)..(day - 1)) > 0

SignalDay == Latest({d \in (day - 9)..(day - 1) : TradingDay(d)})

SqueezeScan ==
  \E wide \in BOOLEAN :
    /\ Scans("squeeze_long_straddle", Squeeze.max)
    /\ book = {}
    /\ Rearmed(wide)
    /\ mem' = None
    /\ ~ReportIn(SignalDay, SignalDay + Squeeze.earnings)
    /\ \E e \in SqueezeExpiry : Enter(e, "inside")

\* another session's bar: the first close outside the bands is the breakout,
\* the trail ends on a later bar, and a bar already seen stays in the history
SqueezeBars(seen) ==
  CASE seen = "inside" -> {"inside", "breakout"}
    [] seen = "breakout" -> {"breakout", "trailed_out"}
    [] OTHER -> {seen}

SqueezeDue(p) ==
  << <<p.plan = "inside"
         /\ SessionsIn(p.opened..(day - 1)) >= Squeeze.sessions, "x2_time_stop">>,
     <<p.plan = "trailed_out", "x1_trail_out">>,
     <<Dte(p) <= Squeeze.floor, "x5_dte_floor">> >>

SqueezeManage ==
  \E p \in Turn("squeeze_long_straddle"), history \in BOOLEAN :
    LET rules == IF history THEN SqueezeDue(p) ELSE <<SqueezeDue(p)[3]>>
        due == {i \in DOMAIN rules : rules[i][1]}
    IN IF due = {}
       THEN IF history THEN Hold(p) ELSE Blind(p)
       ELSE Close(p, rules[Soonest(due)][2]) /\ mem' = day
-----------------------------------------------------------------------------
\* tsmom_long_options
Tsmom == [dtes |-> 60..90, target |-> 75, from |-> 930, to |-> 955, max |-> 9]

RebalanceDayOfMonth ==
  Soonest({d \in MonthFirst(day)..(MonthFirst(day) + 6) : TradingDay(d)})

TsmomExpiry == Closest(InBand(Tsmom.dtes), Tsmom.target)

\* plan: the sign the position was opened on
TsmomScan ==
  /\ Scans("tsmom_long_options", Tsmom.max)
  /\ day = RebalanceDayOfMonth
  /\ Within(Tsmom.from, Tsmom.to)
  /\ book = {}
  /\ \E sign \in Signs \ {0}, e \in TsmomExpiry : Enter(e, sign)
  /\ UNCHANGED mem

TsmomDue(p) ==
  /\ day >= RebalanceDayOfMonth
  /\ day = RebalanceDayOfMonth => Within(Tsmom.from, Tsmom.to)
  /\ p.opened < RebalanceDayOfMonth

TsmomManage ==
  \E p \in Turn("tsmom_long_options") :
    \/ TsmomDue(p) /\ Blind(p)
    \/ \E sign \in Signs :
         Decide(p, << <<TsmomDue(p) /\ sign # p.plan, "monthly_rebalance_flip">>,
                      <<TsmomDue(p), "monthly_rebalance_roll">> >>)
=============================================================================
