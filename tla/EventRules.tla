----------------------------- MODULE EventRules -----------------------------
(***************************************************************************)
(* The strategies of atlas/strategy_lab/strategies that trade around an    *)
(* earnings report or an FOMC decision.  REQUIRES_EVENT is enforced by     *)
(* their own scans only.                                                   *)
(***************************************************************************)
EXTENDS TrendRules

\* the n-th trading day strictly before d
SessionsBefore(d, n) ==
  Latest({e \in 0..(d - 1) : SessionsIn(e..(d - 1)) >= n})
-----------------------------------------------------------------------------
\* earnings_iv_crush_strangle
Crush == [dtes |-> 1..12, from |-> 945, to |-> 960, exit |-> 570, max |-> 3]

\* the session whose close immediately precedes the announcement
CrushSession ==
  IF report.hour = "amc" THEN report.day ELSE SessionsBefore(report.day, 1)

CrushExpiry ==
  LET first == IF report.hour = "bmo" THEN report.day ELSE report.day + 1
  IN Earliest({e \in InBand(Crush.dtes) : e >= first})

CrushScan ==
  /\ Scans("earnings_iv_crush_strangle", Crush.max)
  /\ Within(Crush.from, Crush.to)
  /\ ReportOnFile /\ report.hour \in {"amc", "bmo"}
  /\ book = {}
  /\ day = CrushSession
  /\ \E e \in CrushExpiry : Enter(e, None)
  /\ UNCHANGED mem

CrushManage ==
  \E p \in Turn("earnings_iv_crush_strangle") :
    Decide(p, << <<day > p.opened /\ minute >= Crush.exit,
                   "post_earnings_open_exit">> >>)
-----------------------------------------------------------------------------
\* pre_earnings_long_straddle
PrePrint == [dtes |-> 10..60, offset |-> 3, from |-> 945, to |-> 960, max |-> 3]

PrePrintExpiry ==
  Earliest({e \in InBand(PrePrint.dtes) : e > report.day})

\* plan: the report day and the exit session, as known at the entry
PrePrintScan ==
  /\ Scans("pre_earnings_long_straddle", PrePrint.max)
  /\ Within(PrePrint.from, PrePrint.to)
  /\ ReportOnFile /\ report.hour \in {"amc", "bmo"}
  /\ book = {}
  /\ day = SessionsBefore(report.day, PrePrint.offset)
  /\ \E e \in PrePrintExpiry :
       Enter(e, [report |-> report.day, exit |-> SessionsBefore(report.day, 1)])
  /\ UNCHANGED mem

PrePrintManage ==
  \E p \in Turn("pre_earnings_long_straddle") :
    Decide(p, << <<day >= p.plan.report, "pre_print_failsafe">>,
                 <<day >= p.plan.exit /\ minute >= PrePrint.from,
                   "pre_print_exit">> >>)
-----------------------------------------------------------------------------
\* pre_fomc_drift_call: in from 24h15m before a decision, out 15 minutes before
Fomc == [dtes |-> 1..10, lead |-> 1455, window |-> 10, out |-> 15, max |-> 1]

DecisionAt(d) == d * 1440 + 840

Ahead == {DecisionAt(d) : d \in {e \in Decisions : e - day \in 0..7 /\ DecisionAt(e) > Now}}

FomcExpiry(decision) ==
  Earliest({e \in InBand(Fomc.dtes) : e > decision \div 1440})

FomcScan ==
  /\ Scans("pre_fomc_drift_call", Fomc.max)
  /\ book = {}
  /\ Ahead # {}
  /\ LET decision == Soonest(Ahead)
     IN /\ Within(decision - Fomc.lead - day * 1440,
                  decision - Fomc.lead + Fomc.window - day * 1440)
        /\ \E e \in FomcExpiry(decision) : Enter(e, decision)
  /\ UNCHANGED mem

\* without the noted decision the calendar's next one is the anchor, and the
\* length of the window bounds the hold in any case
FomcManage ==
  \E p \in Turn("pre_fomc_drift_call"), noted \in BOOLEAN :
    LET anchors == IF noted THEN {p.plan} ELSE Ahead
        held == Now - (p.opened * 1440 + p.at)
    IN Decide(p, << <<anchors # {} /\ Now >= Soonest(anchors) - Fomc.out,
                      "time_exit_pre_release">>,
                    <<held >= Fomc.lead - Fomc.out, "time_exit_failsafe">> >>)
=============================================================================
