--------------------------- MODULE StrategyRules ----------------------------
(***************************************************************************)
(* The roster of atlas/strategy_lab/strategies: any one of the twenty      *)
(* strategies, under every listing and report, over the calendar.          *)
(***************************************************************************)
EXTENDS EventRules, Functions

\* a session's ticks: on a half day those that are left, and one late enough
\* for the backstop
SessionTicks(s, d) ==
  IF d \in HalfDays
  THEN {t \in Ticks[s] : t < CloseMinute(d)} \cup {OptionsClose(d, Universe[s][1]) - 3}
  ELSE Ticks[s]

DayTicks(d) == SessionTicks(strategy, d)

ReadsReports ==
  {"short_put_45d30d_managed", "gap_fade_bull_put", "rsi2_overbought_bear_call",
   "rsi2_oversold_short_put", "squeeze_long_straddle",
   "earnings_iv_crush_strangle", "pre_earnings_long_straddle"}

RosterInit ==
  /\ strategy \in Strategies
  /\ name \in Range(Universe[strategy])
  /\ listing \in {"daily", "weekly"}
  /\ report \in IF name = "AAPL" /\ strategy \in ReadsReports
                THEN Reports ELSE {None}
  /\ day = Soonest({d \in 0..LastDay : TradingDay(d)})
  /\ minute = Soonest(DayTicks(day))
  /\ starts = 1
  /\ book = {}
  /\ mem = None
  /\ closed = None
  /\ last = None

\* a combo still waiting for its turn when the tick passes was not managed
Waiting(p) == [p EXCEPT !.due = TRUE, !.dark = @ \/ p.due]

NextTick ==
  LET later == {t \in DayTicks(day) : t > minute}
  IN /\ later # {}
     /\ minute' = Soonest(later)
     /\ book' = {Waiting(p) : p \in book}
     /\ closed' = None
     /\ UNCHANGED <<strategy, name, listing, report, day, starts, mem, last>>

\* the next session: what expired is settled at the day roll, and the bar of
\* the session that ended is in the daily history
NextSession ==
  LET ahead == {d \in (day + 1)..LastDay : TradingDay(d)}
      expired == {p \in book : p.expiry < Soonest(ahead)}
  IN /\ minute = Latest(DayTicks(day))
     /\ ahead # {}
     /\ day' = Soonest(ahead)
     /\ minute' = Soonest(DayTicks(Soonest(ahead)))
     /\ \E seen \in {"inside", "breakout", "trailed_out"} :
          /\ \A p \in book : /\ strategy = "squeeze_long_straddle"
                             /\ seen \in SqueezeBars(p.plan)
                             \/ strategy # "squeeze_long_straddle"
          /\ book' = {IF strategy = "squeeze_long_straddle"
                      THEN [Waiting(p) EXCEPT !.plan = seen] ELSE Waiting(p) :
                      p \in book \ expired}
     /\ closed' = IF expired = {} THEN None
                  ELSE [pos |-> CHOOSE p \in expired : TRUE,
                        rule |-> "settled_at_expiry"]
     /\ UNCHANGED <<strategy, name, listing, report, starts, mem, last>>

\* a new process: positions come back from the ledger, memory does not
NewProcess ==
  /\ starts < MaxStarts
  /\ mem # None
  /\ starts' = starts + 1
  /\ mem' = None
  /\ closed' = None
  /\ UNCHANGED <<strategy, name, listing, report, day, minute, book, last>>

Scan ==
  \/ ShortPutScan \/ StrangleScan \/ CondorScan \/ JadeScan \/ VrpScan
  \/ CndrScan \/ WputScan \/ ZeroDteScan \/ OvernightScan
  \/ BackspreadScan \/ CalendarScan \/ DonchianScan \/ GapFadeScan
  \/ BearCallScan \/ OversoldPutScan \/ SqueezeScan \/ TsmomScan
  \/ CrushScan \/ PrePrintScan \/ FomcScan

Manage ==
  \/ ShortPutManage \/ StrangleManage \/ CondorManage \/ JadeManage \/ VrpManage
  \/ CndrManage \/ WputManage \/ ZeroDteManage \/ OvernightManage
  \/ BackspreadManage \/ CalendarManage \/ DonchianManage \/ GapFadeManage
  \/ BearCallManage \/ OversoldPutManage \/ SqueezeManage \/ TsmomManage
  \/ CrushManage \/ PrePrintManage \/ FomcManage

RosterNext ==
  \/ Scan \/ Manage \/ Unquoted \/ Backstop
  \/ NextTick \/ NextSession \/ NewProcess

RosterSpec == RosterInit /\ [][RosterNext]_deskVars
-----------------------------------------------------------------------------
\* Strategies whose published doctrine ends every trade on a date.
Dated ==
  {"short_put_45d30d_managed", "strangle_45d16d_managed", "ic_45d16d_managed",
   "jade_lizard", "overnight_1dte_strangle", "atm_calendar_low_iv",
   "donchian_breakout_debit_vert", "rsi2_overbought_bear_call",
   "squeeze_long_straddle", "tsmom_long_options",
   "earnings_iv_crush_strangle", "pre_earnings_long_straddle",
   "pre_fomc_drift_call"}

\* the minutes at which such a strategy looks for its date
ExitHours(s) ==
  IF s = "rsi2_overbought_bear_call" THEN BearCall.from..(BearCall.to - 1)
                                     ELSE Overnight.from..1439

\* The lab ticks all session long: in the exit hours of a strategy before the
\* backstop's ten minutes, and once more. A half day has no evaluation of the
\* bear call; the monthly roll comes a month before its option expires and
\* needs none on the last day.
ASSUME TickAssumption ==
  \A s \in Strategies :
    /\ Ticks[s] # {} /\ Ticks[s] \subseteq 0..1439
    /\ s \in Dated \ {"tsmom_long_options"} =>
         \A d \in 0..LastDay :
           /\ TradingDay(d)
           /\ s = "rsi2_overbought_bear_call" => d \notin HalfDays
           => \E t \in SessionTicks(s, d) \cap ExitHours(s) :
                /\ t < OptionsClose(d, Universe[s][1]) - 10
                /\ \E u \in SessionTicks(s, d) : t < u

\* A dated strategy's combo never meets the expiry backstop or settlement
\* unless one of its ticks passed without a priced manage turn: the doctrine
\* exit lies before the rail in every listing, month and holiday week. Only the
\* bear call, evaluated at 15:45, is left to the rail when the one session in
\* which its expiry is a day off ends at 13:00.
OwnExitFirst ==
  /\ closed # None
  /\ closed.rule \in {"expiry_backstop", "settled_at_expiry"}
  /\ strategy \in Dated
  => \/ closed.pos.dark
     \/ strategy = "rsi2_overbought_bear_call" /\ closed.pos.expiry \in HalfDays

\* entered by this step
Born == {q \in book' : \A p \in book : p.opened # q.opened \/ p.at # q.at}

\* One entry per month, week, day, report or decision for the strategies
\* published that way, whatever closed the first one and across restarts
\* (zero_dte: within a process).
OncePerCycle ==
  [][/\ strategy # "gap_fade_bull_put"
     /\ Born # {}
     /\ last' # None
     => last' # last]_deskVars

\* A combo whose entry gate screens reports is not held past one that was on
\* file at its entry, unless a manage turn was missed.
FiledReportsAvoided ==
  \A p \in book :
    /\ strategy \in {"short_put_45d30d_managed", "gap_fade_bull_put",
                     "rsi2_overbought_bear_call"}
    /\ report # None
    /\ p.opened <= report.day /\ report.day < day
    => p.dark \/ report.day > p.opened + FileWindow
=============================================================================
