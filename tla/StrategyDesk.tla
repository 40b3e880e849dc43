---------------------------- MODULE StrategyDesk ----------------------------
(***************************************************************************)
(* One published strategy of atlas/strategy_lab/strategies on one          *)
(* underlying, over a calendar of trading days, with the lab runner around *)
(* it: every tick first offers each open combo its expiry backstop or its  *)
(* strategy's own manage turn, then scans for an entry.  The strategies    *)
(* themselves are in PremiumRules, TrendRules and EventRules.              *)
(*                                                                         *)
(* A day is an integer (0 is a Monday), a minute one of the strategy's     *)
(* ticks.  Prices, deltas and signals are read anew at each turn and are   *)
(* free; a scan that finds no legs is a scan that does not happen.         *)
(***************************************************************************)
EXTENDS Integers, FiniteSets, Sequences

CONSTANTS
  None,
  Strategies,   \* the ids under study
  Ticks,        \* strategy id -> the minutes of a session at which it ticks
  LastDay,      \* horizon
  Far,          \* last day an option can expire
  Holidays,
  HalfDays,     \* sessions that end at 13:00
  MonthFirsts,  \* the first day of each month
  Reports,      \* earnings reports the underlying may have: [day, hour]
  FileWindow,   \* days ahead covered by runtime/earnings_week.json
  Decisions,    \* days of scheduled FOMC decisions (14:00)
  MaxStarts

VARIABLES
  strategy,  \* the strategy on the desk
  name,      \* the underlying of its universe it trades
  listing,   \* how that name's expirations are listed
  report,    \* its next report, or None
  day, minute,
  starts,    \* process starts so far
  book,      \* open combos
  mem,       \* a strategy's in-memory day stamp: lost by a restart
  closed,    \* the combo the last step closed and its rule, or None
  last       \* cycle of the last entry, kept across closes and restarts

deskVars == <<strategy, name, listing, report, day, minute, starts, book, mem,
              closed, last>>
-----------------------------------------------------------------------------
\* atlas/options/session_calendar.py
Weekday(d) == d % 7

TradingDay(d) == Weekday(d) < 5 /\ d \notin Holidays

\* the longest closure is four days, options are listed a quarter ahead, and
\* a month has 28 to 31 days
ASSUME CalendarAssumption ==
  /\ LastDay \in Nat /\ Far \in Nat /\ LastDay + 90 <= Far
  /\ Holidays \subseteq 0..Far
  /\ HalfDays \subseteq (0..Far) \ Holidays
  /\ \E d \in 0..LastDay : TradingDay(d)
  /\ \A d \in 0..(Far - 4) : \E e \in d..(d + 4) : TradingDay(e)
  /\ 0 \in MonthFirsts /\ MonthFirsts \subseteq 0..Far
  /\ \A m, n \in MonthFirsts : m < n => m + 28 <= n
  /\ \A d \in 0..(Far - 31) : \E m \in (d + 1)..(d + 31) : m \in MonthFirsts
  /\ Decisions \subseteq 0..Far
  /\ FileWindow \in Nat /\ MaxStarts \in Nat \ {0}

Latest(days) == CHOOSE d \in days : \A e \in days : e <= d

Soonest(days) == CHOOSE d \in days : \A e \in days : d <= e

MonthFirst(d) == Latest({m \in MonthFirsts : m <= d})

NextMonthFirst(d) == Soonest({m \in MonthFirsts : m > d})

ThirdFriday(first) == first + 14 + ((11 - Weekday(first + 14)) % 7)

OnOrBefore(d) == Latest({e \in (d - 4)..d : TradingDay(e)})

SessionsIn(days) == Cardinality({d \in days : TradingDay(d)})

\* a company reports on a session, and the calendar reaches back before it
ASSUME ReportAssumption ==
  \A r \in Reports \ {None} :
    r.day \in Nat /\ TradingDay(r.day) /\ SessionsIn(0..(r.day - 1)) >= 3

CloseMinute(d) == IF d \in HalfDays THEN 780 ELSE 960

\* index ETF options trade a quarter of an hour longer
OptionsClose(d, underlying) ==
  IF underlying = "SPY" THEN CloseMinute(d) + 15 ELSE CloseMinute(d)

Now == day * 1440 + minute
-----------------------------------------------------------------------------
\* META.universe: SPY stands for the index ETFs, AAPL for the single names
Universe ==
  [s \in Strategies |->
     CASE s \in {"earnings_iv_crush_strangle", "pre_earnings_long_straddle"} ->
            <<"AAPL">>
       [] s \in {"short_put_45d30d_managed", "wput_weekly_putwrite",
                 "backspread_1x2", "donchian_breakout_debit_vert",
                 "gap_fade_bull_put", "rsi2_overbought_bear_call",
                 "rsi2_oversold_short_put", "squeeze_long_straddle",
                 "tsmom_long_options"} -> <<"SPY", "AAPL">>
       [] OTHER -> <<"SPY">>]

\* ctx.session_close_min: by the first name of the universe
SessionClose == OptionsClose(day, Universe[strategy][1])
-----------------------------------------------------------------------------
\* hub.expirations of the underlying: every session, or Fridays only
Listed ==
  [kind \in {"daily", "weekly"} |->
     {e \in 0..Far : /\ TradingDay(e)
                     /\ kind = "weekly" =>
                          e = OnOrBefore(e - Weekday(e) + 4)}]

InBand(dtes) == {e \in Listed[listing] : e - day \in dtes}

Distance(e, target) == IF e - day >= target THEN e - day - target
                                            ELSE target - (e - day)

\* the listed expiry nearest the target, the shorter on a tie: none or one
Closest(es, target) ==
  {e \in es : \A f \in es : \/ Distance(e, target) < Distance(f, target)
                            \/ /\ Distance(e, target) = Distance(f, target)
                               /\ e <= f}

Earliest(es) == {e \in es : \A f \in es : e <= f}

\* ctx.earnings: the week-ahead file, refreshed before the session
ReportOnFile ==
  report # None /\ report.day \in day..(day + FileWindow)

ReportIn(from, to) == ReportOnFile /\ report.day \in from..to
-----------------------------------------------------------------------------
Dte(p) == p.expiry - day

Rides == {"cndr_iron_condor_hold", "wput_weekly_putwrite",
          "zero_dte_morning_ic"}

BackstopDue(p) ==
  /\ strategy \notin Rides
  /\ p.expiry <= day
  /\ minute >= SessionClose - 10

\* the combos whose manage turn has come at this tick
Turn(s) == IF strategy = s THEN {p \in book : p.due /\ ~BackstopDue(p)}
                           ELSE {}

Took(p, dark) == (book \ {p}) \cup {[p EXCEPT !.due = FALSE, !.dark = @ \/ dark]}

StillDesk == UNCHANGED <<strategy, name, listing, report, day, minute, starts>>

Hold(p) ==
  /\ book' = Took(p, FALSE)
  /\ closed' = None
  /\ StillDesk /\ UNCHANGED <<mem, last>>

\* held because a quote or the history it decides on is missing
Blind(p) ==
  /\ book' = Took(p, TRUE)
  /\ closed' = None
  /\ StillDesk /\ UNCHANGED <<mem, last>>

Close(p, rule) ==
  /\ book' = book \ {p}
  /\ closed' = [pos |-> p, rule |-> rule]
  /\ StillDesk /\ UNCHANGED last

\* rules are tried in order: the first that is due closes the combo
Decide(p, rules) ==
  LET due == {i \in DOMAIN rules : rules[i][1]}
  IN IF due = {} THEN Hold(p)
     ELSE Close(p, rules[Soonest(due)][2]) /\ UNCHANGED mem

\* the runner's own steps: a book with a missing quote, and the backstop
Unquoted == \E p \in book : p.due /\ Blind(p)

Backstop ==
  \E p \in book :
    /\ p.due /\ BackstopDue(p)
    /\ Close(p, "expiry_backstop") /\ UNCHANGED mem
-----------------------------------------------------------------------------
\* scan follows the manage turns and needs room
Scans(s, max) ==
  /\ strategy = s
  /\ \A p \in book : ~p.due
  /\ Cardinality(book) < max

Within(from, to) == from <= minute /\ minute < to

\* the roll, report, decision or day an entry of the strategy belongs to
CycleNow ==
  CASE strategy \in {"tsmom_long_options", "cndr_iron_condor_hold"} -> MonthFirst(day)
    [] strategy = "wput_weekly_putwrite" -> day - Weekday(day)
    [] strategy \in {"overnight_1dte_strangle", "gap_fade_bull_put"} -> day
    [] strategy = "zero_dte_morning_ic" -> <<day, starts>>
    [] strategy \in {"earnings_iv_crush_strangle", "pre_earnings_long_straddle"} -> report
    [] strategy = "pre_fomc_drift_call" -> Soonest({d \in Decisions : d > day})
    [] OTHER -> None

\* plan is what the strategy's signal notes keep for its exit
Enter(e, plan) ==
  /\ book' = book \cup {[opened |-> day, at |-> minute, expiry |-> e,
                         plan |-> plan, due |-> FALSE, dark |-> FALSE]}
  /\ last' = CycleNow
  /\ closed' = None
  /\ StillDesk
=============================================================================
