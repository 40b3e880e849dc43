----------------------------- MODULE MCLabDesk ------------------------------
(* What the strategy lab's runner is built on, for TLC: the market hub it   *)
(* asks for quotes and the strategies it asks for decisions.  They share no *)
(* state, so a behaviour is one of the two.  The calendar is two months: a  *)
(* Monday, the first of the second month and its third Friday are holidays. *)
EXTENDS MarketHub, StrategyRules, TLC

CONSTANTS k1, u1

OneKey == {k1}
OneUnderlying == {u1}

Roster ==
  {"short_put_45d30d_managed", "strangle_45d16d_managed", "ic_45d16d_managed",
   "jade_lizard", "vrp_short_straddle", "cndr_iron_condor_hold",
   "wput_weekly_putwrite", "zero_dte_morning_ic", "overnight_1dte_strangle",
   "backspread_1x2", "atm_calendar_low_iv", "donchian_breakout_debit_vert",
   "gap_fade_bull_put", "rsi2_overbought_bear_call", "rsi2_oversold_short_put",
   "squeeze_long_straddle", "tsmom_long_options", "earnings_iv_crush_strangle",
   "pre_earnings_long_straddle", "pre_fomc_drift_call"}

\* two ticks in every entry and exit window, and one under the backstop
TickTable ==
  [s \in Roster |->
     CASE s = "gap_fade_bull_put" -> {588, 650, 932, 957, 972}
       [] s = "wput_weekly_putwrite" -> {957, 959, 972}
       [] s = "zero_dte_morning_ic" -> {588, 593, 972}
       [] s = "overnight_1dte_strangle" -> {588, 963, 972}
       [] s \in {"earnings_iv_crush_strangle",
                 "pre_earnings_long_straddle"} -> {588, 948, 957}
       [] s = "rsi2_overbought_bear_call" -> {948, 953, 972}
       [] s \in {"rsi2_oversold_short_put", "tsmom_long_options"} -> {932, 948, 972}
       [] s = "cndr_iron_condor_hold" -> {648, 655, 972}
       [] s = "pre_fomc_drift_call" -> {588, 828, 833, 972}
       [] OTHER -> {650, 972}]

Closures == {21, 31, 46}
EarlyCloses == {18, 25, 49}
Months == {0, 31, 59, 90, 120, 151}
ReportDays == {None, [day |-> 10, hour |-> "amc"], [day |-> 22, hour |-> "bmo"],
               [day |-> 44, hour |-> "amc"]}
DecisionDays == {16, 22, 44}

VARIABLE part   \* which of the two this behaviour is about

\* while the hub works, one of the strategies' first states stands by
StandBy ==
  /\ strategy = "vrp_short_straddle" /\ name = Universe[strategy][1]
  /\ listing = "daily" /\ report = None

DeskInit == /\ Init /\ RosterInit
            /\ part = "strategies" \/ (part = "hub" /\ StandBy)

DeskNext == \/ part = "hub" /\ Next /\ UNCHANGED <<part, deskVars>>
            \/ part = "strategies" /\ RosterNext /\ UNCHANGED <<part, hubVars>>

DeskSpec == DeskInit /\ [][DeskNext]_<<part, hubVars, deskVars>>
=============================================================================
