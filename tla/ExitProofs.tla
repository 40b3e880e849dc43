----------------------------- MODULE ExitProofs -----------------------------
(***************************************************************************)
(* Proofs about ExitLadder.                                                *)
(***************************************************************************)
EXTENDS ExitLadder, WellFoundedInduction, TLAPS

LEMMA FirstExists ==
  ASSUME NEW S \in SUBSET Nat, S # {}
  PROVE  FirstOf(S) \in S /\ \A n \in S : FirstOf(S) <= n
<1> DEFINE R == {ss \in Nat \X Nat : ss[1] < ss[2]}
<1>1. IsWellFoundedOn(R, Nat)
  BY NatLessThanWellFounded DEF OpToRel
<1> HIDE DEF R
<1>2. PICK m \in S : \A n \in S : ~(<<n, m>> \in R)
  BY <1>1, WFMin
<1>3. \A n \in S : ~(n < m)
  BY <1>2 DEF R
<1>4. \A n \in S : m <= n
  BY <1>3
<1> QED
  BY <1>4, Zenon DEF FirstOf

\* What a ladder comes to.
LEMMA FirstRuleIs ==
  ASSUME NEW ladder, NEW default, DOMAIN ladder \subseteq Nat
  PROVE  \/ /\ \A k \in DOMAIN ladder : ~ladder[k][1]
            /\ FirstRule(ladder, default) = default
         \/ \E k \in DOMAIN ladder :
              /\ ladder[k][1] /\ FirstRule(ladder, default) = ladder[k][2]
              /\ \A j \in DOMAIN ladder : ladder[j][1] => k <= j
<1> DEFINE on == {k \in DOMAIN ladder : ladder[k][1]}
<1>1. CASE on = {}
  BY <1>1 DEF FirstRule
<1>2. CASE on # {}
  <2>1. FirstOf(on) \in on /\ \A n \in on : FirstOf(on) <= n
    BY <1>2, FirstExists
  <2>2. FirstRule(ladder, default) = ladder[FirstOf(on)][2]
    BY <1>2 DEF FirstRule
  <2> QED
    BY <2>1, <2>2
<1> QED
  BY <1>1, <1>2

USE LadderAssumption DEF LadderAssumption

\* What a decision of the session's ladder says of the mark.
LEMMA LadderSays ==
  ASSUME NEW e
  PROVE  /\ InSession(e) = "b_thesis_invalid" => Streak >= 2
         /\ InSession(e) = "h_ev_hold_below_sell" => "h" \in e.low /\ ~e.stale /\ Held("h", e)
         /\ InSession(e) = "i_regain_low" => "i" \in e.low /\ ~e.stale /\ Held("i", e)
         /\ InSession(e) = "j_hold" =>
              \A r \in Stat : ~(r \in e.low /\ ~e.stale /\ Held(r, e))
<1> DEFINE ladder == <<
  <<Dte = 0 /\ minute >= SellClock(e),                        "a_zero_dte_clock">>,
  <<Streak >= 2,                                              "b_thesis_invalid">>,
  <<GainGone(e) /\ "h" \in e.low,                             "d2_costbasis_backstop">>,
  <<PostPrintDue /\ "h" \in e.low,                            "f_post_print_no_edge">>,
  <<PrintNear,                                                "print_window_flat">>,
  <<Dte >= 1 /\ pos.planned /\ minute >= PlannedMinute,       "planned_exit_flat">>,
  <<Dte >= 1 /\ ~pos.planned /\ minute >= EodMinute /\ ~Granted(e),
                                                              "overnight_evidence_rule">>,
  <<OneMore(carried.breaches, e) >= Cycles /\ e.far,          "g_theta_dominates">>,
  <<"h" \in e.low /\ ~e.stale /\ Held("h", e),                "h_ev_hold_below_sell">>,
  <<"i" \in e.low /\ ~e.stale /\ Held("i", e),                "i_regain_low">>
  >>
<1>1. InSession(e) = FirstRule(ladder, "j_hold")
  BY DEF InSession
<1>2. DOMAIN ladder = 1 .. 10
  OBVIOUS
<1>3. \A k \in 1 .. 10 : /\ ladder[k][2] = "b_thesis_invalid" => k = 2
                         /\ ladder[k][2] = "h_ev_hold_below_sell" => k = 9
                         /\ ladder[k][2] = "i_regain_low" => k = 10
                         /\ ladder[k][2] # "j_hold"
  OBVIOUS
<1>4. /\ ladder[2][1] <=> Streak >= 2
      /\ ladder[9][1] <=> "h" \in e.low /\ ~e.stale /\ Held("h", e)
      /\ ladder[10][1] <=> "i" \in e.low /\ ~e.stale /\ Held("i", e)
  OBVIOUS
<1> HIDE DEF ladder
<1>5. \/ /\ \A k \in 1 .. 10 : ~ladder[k][1]
         /\ InSession(e) = "j_hold"
      \/ \E k \in 1 .. 10 : ladder[k][1] /\ InSession(e) = ladder[k][2]
  BY <1>1, <1>2, FirstRuleIs
<1> QED
  BY <1>3, <1>4, <1>5 DEF Stat
-----------------------------------------------------------------------------
(* Types.                                                                  *)

Minutes == Nat \cup {None}

Carried == [since : [Stat -> Minutes], breaches : Nat, armed : BOOLEAN,
            streak : Nat, judged : BOOLEAN]

TypeOK ==
  /\ day \in Nat /\ minute \in Nat /\ pos \in Positions
  /\ carried \in Carried /\ marks \in Carried
  /\ run \in [Stat -> [day : Nat, minute : Nat] \cup {None}]
  /\ badBars \in Nat

LEMMA NewIsCarried == NewCarried \in Carried
  BY DEF NewCarried, NoClocks, Carried, Minutes

LEMMA SinceIsClocks ==
  ASSUME TypeOK, NEW e \in Verdicts PROVE Since(e) \in [Stat -> Minutes]
  BY DEF Since, TypeOK, Carried, Minutes

LEMMA OneMoreIsNat ==
  ASSUME NEW e, NEW n \in Nat PROVE OneMore(n, e) \in Nat
  BY DEF OneMore

LEMMA StreakIsNat == ASSUME TypeOK PROVE Streak \in Nat
  BY DEF Streak, TypeOK, Carried

LEMMA JudgedIsBoolean == ASSUME TypeOK PROVE Judged \in BOOLEAN
  BY DEF Judged, TypeOK, Carried

LEMMA UpdatedIsCarried ==
  ASSUME TypeOK, NEW e \in Verdicts
  PROVE  /\ Updated(e) \in Carried /\ Stored(e) \in Carried
         /\ Updated(e).since = Since(e) /\ Stored(e).since = Since(e)
         /\ Updated(e).streak = Streak /\ Updated(e).judged = Judged
         /\ Stored(e).streak = marks.streak /\ Stored(e).judged = marks.judged
<1>1. e.over \in BOOLEAN
  BY DEF Verdicts
<1>2. Armed(e) \in BOOLEAN /\ (marks.armed \/ e.over) \in BOOLEAN
  BY <1>1, Zenon DEF Armed
<1>3. (IF AfterHours THEN carried.breaches ELSE OneMore(carried.breaches, e)) \in Nat
  BY OneMoreIsNat DEF TypeOK, Carried
<1>4. OneMore(marks.breaches, e) \in Nat
  BY OneMoreIsNat DEF TypeOK, Carried
<1>5. Updated(e) \in Carried
  BY <1>2, <1>3, SinceIsClocks, StreakIsNat, JudgedIsBoolean DEF Updated, Carried
<1>6. /\ Stored(e) \in Carried /\ Stored(e).since = Since(e)
      /\ Stored(e).streak = marks.streak /\ Stored(e).judged = marks.judged
  <2> DEFINE armed    == marks.armed \/ e.over
             breaches == OneMore(marks.breaches, e)
  <2>1. Stored(e) = [marks EXCEPT !.since = Since(e), !.armed = armed, !.breaches = breaches]
    BY DEF Stored
  <2>2. armed \in BOOLEAN /\ breaches \in Nat
    BY <1>2, <1>4
  <2> DEFINE since == Since(e)
  <2>3. since \in [Stat -> Minutes] /\ marks \in Carried
    BY SinceIsClocks DEF TypeOK
  <2>4. marks.streak \in Nat /\ marks.judged \in BOOLEAN
    BY <2>3 DEF Carried
  <2> DEFINE streak == marks.streak
             judged == marks.judged
  <2> HIDE DEF armed, breaches, since
  <2>5. Stored(e) = [since |-> since, breaches |-> breaches, armed |-> armed,
                     streak |-> streak, judged |-> judged]
    BY <2>1, <2>3, Zenon DEF since, Carried
  <2> HIDE DEF streak, judged
  <2>6. Stored(e) \in Carried
    BY <2>2, <2>3, <2>4, <2>5, SMT DEF streak, judged, Carried
  <2>7. Stored(e).since = since /\ Stored(e).streak = streak /\ Stored(e).judged = judged
    BY <2>5, SMT
  <2> QED
    BY <2>6, <2>7, Zenon DEF since, streak, judged
<1>7. Updated(e).since = Since(e) /\ Updated(e).streak = Streak /\ Updated(e).judged = Judged
  BY SMTT(30) DEF Updated
<1> QED
  BY <1>5, <1>6, <1>7

LEMMA TypeInitial == Init => TypeOK
<1> SUFFICES ASSUME Init PROVE TypeOK
  OBVIOUS
<1>1. minute \in Nat
  <2> DEFINE S == {m \in Grid : m > OpenMinute}
  <2>1. S \in SUBSET Nat /\ S # {}
    OBVIOUS
  <2>2. minute = FirstOf(S)
    BY DEF Init
  <2> QED
    BY <2>1, <2>2, FirstExists
<1>2. run \in [Stat -> [day : Nat, minute : Nat] \cup {None}]
  BY DEF Init, NoClocks
<1> QED
  BY <1>1, <1>2, NewIsCarried DEF Init, TypeOK

LEMMA TypeStep == TypeOK /\ [Next]_vars => TypeOK'
<1> SUFFICES ASSUME TypeOK, [Next]_vars PROVE TypeOK'
  OBVIOUS
<1>1. CASE ForcedFlat \/ NoQuote \/ NoPrice
  BY <1>1 DEF ForcedFlat, NoQuote, NoPrice, memory, history, TypeOK
<1>2. CASE EngineFails
  <2> PICK over \in BOOLEAN :
        carried' = [carried EXCEPT !.armed = @ \/ over, !.streak = Streak, !.judged = Judged]
    BY <1>2 DEF EngineFails
  <2>1. (carried.armed \/ over) \in BOOLEAN
    BY Zenon
  <2>2. carried' \in Carried
    BY <2>1, StreakIsNat, JudgedIsBoolean DEF TypeOK, Carried
  <2> QED
    BY <1>2, <2>2 DEF EngineFails, TypeOK
<1>3. ASSUME NEW e \in Verdicts, Mark(e) PROVE TypeOK'
  <2>1. carried' = Updated(e) /\ marks' \in {marks, Stored(e)}
    BY <1>3 DEF Mark
  <2>2. /\ day' = day /\ minute' = minute /\ pos' = pos /\ badBars' = badBars
        /\ run' = [r \in Stat |-> IF r \notin e.low \/ e.stale \/ unsaved' THEN None
                                  ELSE IF run[r] # None THEN run[r]
                                  ELSE [day |-> day, minute |-> minute]]
    BY <1>3 DEF Mark, Noted
  <2> QED
    BY <2>1, <2>2, UpdatedIsCarried DEF TypeOK
<1>4. CASE \E b \in {"good", "bad"} : BarCommits(b)
  <2>1. carried' = [carried EXCEPT !.judged = FALSE]
    BY <1>4 DEF BarCommits
  <2>2. carried' \in Carried
    BY <2>1 DEF TypeOK, Carried
  <2> QED
    BY <1>4, <2>2 DEF BarCommits, TypeOK
<1>5. CASE MinutePasses
  <2> DEFINE S == {m \in Grid : minute < m}
  <2>1. S \in SUBSET Nat /\ S # {} /\ minute' = FirstOf(S)
    BY <1>5 DEF MinutePasses
  <2>2. minute' \in Nat
    BY <2>1, FirstExists
  <2> QED
    BY <1>5, <2>2 DEF MinutePasses, memory, history, TypeOK
<1>6. CASE DayRolls
  <2>1. FirstOf(Grid) \in Nat
    BY FirstExists
  <2>2. carried' \in Carried
    BY <1>6, NewIsCarried DEF DayRolls, Rebuilt, TypeOK
  <2> QED
    BY <1>6, <2>1, <2>2 DEF DayRolls, TypeOK
<1>7. CASE Dies \/ Respawns
  BY <1>7, NewIsCarried DEF Dies, Respawns, Rebuilt, history, TypeOK
<1>8. CASE UNCHANGED vars
  BY <1>8 DEF vars, memory, history, TypeOK
<1> QED
  BY <1>1, <1>2, <1>3, <1>4, <1>5, <1>6, <1>7, <1>8 DEF Next, Sweep
-----------------------------------------------------------------------------
(* The thesis.  A streak of n is backed by n bad bars of the day, and a bad *)
(* bar that is still to be judged by one more.  The stored marks carry no  *)
(* streak: a rebuild starts over.                                          *)

ThesisInv ==
  /\ TypeOK
  /\ bar \in {"none", "good", "bad"}
  /\ marks.streak = 0
  /\ carried.streak >= 1 \/ bar = "bad" => badBars >= 1
  /\ carried.streak >= 2 => badBars >= 2
  /\ carried.streak >= 1 /\ bar = "bad" /\ ~carried.judged => badBars >= 2

LEMMA StreakIsBacked ==
  ASSUME ThesisInv
  PROVE  /\ Streak \in Nat
         /\ Streak >= 1 => badBars >= 1
         /\ Streak >= 2 => badBars >= 2
         /\ Streak >= 1 /\ bar = "bad" /\ ~Judged => badBars >= 2
<1> USE StreakIsNat DEF ThesisInv, TypeOK, Carried
<1>1. CASE AfterHours
  BY <1>1 DEF Streak, Judged
<1>2. CASE ~AfterHours /\ Reframing
  BY <1>2 DEF Streak
<1>3. CASE ~AfterHours /\ ~Reframing /\ bar = "none"
  BY <1>3 DEF Streak, Judged
<1>4. CASE ~AfterHours /\ ~Reframing /\ bar # "none" /\ carried.judged
  BY <1>4 DEF Streak, Judged
<1>5. CASE ~AfterHours /\ ~Reframing /\ bar # "none" /\ ~carried.judged /\ bar = "good"
  BY <1>5 DEF Streak
<1>6. CASE ~AfterHours /\ ~Reframing /\ bar # "none" /\ ~carried.judged /\ bar # "good"
  BY <1>6 DEF Streak, Judged
<1> QED
  BY <1>1, <1>2, <1>3, <1>4, <1>5, <1>6

LEMMA ThesisInitial == Init => ThesisInv
  BY TypeInitial DEF Init, ThesisInv, NewCarried

LEMMA ThesisStep == ThesisInv /\ [Next]_vars => ThesisInv'
<1> SUFFICES ASSUME ThesisInv, [Next]_vars PROVE ThesisInv'
  OBVIOUS
<1> TypeOK /\ TypeOK'
  BY TypeStep DEF ThesisInv
<1> USE DEF ThesisInv
<1>1. CASE ForcedFlat \/ NoQuote \/ NoPrice
  BY <1>1 DEF ForcedFlat, NoQuote, NoPrice, memory, history
<1>2. CASE EngineFails
  <2>1. carried'.streak = Streak /\ carried'.judged = Judged
    BY <1>2 DEF EngineFails, TypeOK, Carried
  <2> QED
    BY <1>2, <2>1, StreakIsBacked DEF EngineFails
<1>3. ASSUME NEW e \in Verdicts, Mark(e) PROVE ThesisInv'
  <2>1. carried'.streak = Streak /\ carried'.judged = Judged /\ marks'.streak = 0
    BY <1>3, UpdatedIsCarried DEF Mark
  <2>2. bar' = bar /\ badBars' = badBars
    BY <1>3 DEF Mark
  <2> QED
    BY <2>1, <2>2, StreakIsBacked
<1>4. ASSUME NEW b \in {"good", "bad"}, BarCommits(b) PROVE ThesisInv'
  <2>1. /\ bar' = b /\ marks' = marks
        /\ badBars' = IF b = "bad" /\ badBars < 2 THEN badBars + 1 ELSE badBars
    BY <1>4 DEF BarCommits
  <2>2. carried'.streak = carried.streak
    BY <1>4 DEF BarCommits, TypeOK, Carried
  <2> QED
    BY <2>1, <2>2 DEF TypeOK, Carried
<1>5. CASE MinutePasses
  BY <1>5 DEF MinutePasses, memory, history
<1>6. CASE DayRolls \/ Dies \/ Respawns
  <2>1. carried'.streak = 0 /\ marks' = marks
    BY <1>6 DEF DayRolls, Dies, Respawns, Rebuilt, NewCarried
  <2>2. bar' = "none" \/ (bar' = bar /\ badBars' = badBars)
    BY <1>6 DEF DayRolls, Dies, Respawns, history
  <2> QED
    BY <2>1, <2>2
<1>7. CASE UNCHANGED vars
  BY <1>7 DEF vars, memory, history
<1> QED
  BY <1>1, <1>2, <1>3, <1>4, <1>5, <1>6, <1>7 DEF Next, Sweep

LEMMA PastTheCloseGives ==
  ASSUME NEW e
  PROVE  PastTheClose(e) \in {"overnight_grant_hold", "late_close_flat",
           "planned_exit_flat", "d2_costbasis_backstop", "ah_hold"}
<1> DEFINE ladder == <<
  <<Granted(e),                     "overnight_grant_hold">>,
  <<minute >= FlatMinute,           "late_close_flat">>,
  <<pos.planned,                    "planned_exit_flat">>,
  <<GainGone(e),                    "d2_costbasis_backstop">>
  >>
<1>1. PastTheClose(e) = FirstRule(ladder, "ah_hold")
  BY DEF PastTheClose
<1>2. DOMAIN ladder = 1 .. 4
  OBVIOUS
<1>3. \A k \in 1 .. 4 : ladder[k][2] \in {"overnight_grant_hold", "late_close_flat",
           "planned_exit_flat", "d2_costbasis_backstop"}
  OBVIOUS
<1> HIDE DEF ladder
<1> QED
  BY <1>1, <1>2, <1>3, FirstRuleIs

\* The rule a step ends on is that of a mark, whenever no other step has it.
LEMMA DecidedByMark ==
  ASSUME Next,
         decision' \in {"b_thesis_invalid", "h_ev_hold_below_sell", "i_regain_low", "j_hold"}
  PROVE  \/ UNCHANGED decision
         \/ \E e \in Verdicts :
              Mark(e) /\ ~AfterHours /\ decision' = InSession(e)
<1>1. CASE ForcedFlat \/ NoQuote \/ NoPrice \/ EngineFails
  BY <1>1 DEF ForcedFlat, NoQuote, NoPrice, EngineFails, Exits, Swept
<1>2. ASSUME NEW e \in Verdicts, Mark(e)
      PROVE  ~AfterHours /\ decision' = InSession(e)
  <2>1. decision' \in {IF AfterHours THEN PastTheClose(e) ELSE InSession(e), "unwritten"}
    BY <1>2 DEF Mark, Exits, Swept
  <2> QED
    BY <2>1, PastTheCloseGives
<1>3. CASE MinutePasses \/ DayRolls
  BY <1>3 DEF MinutePasses, DayRolls
<1>4. CASE Dies \/ Respawns \/ \E b \in {"good", "bad"} : BarCommits(b)
  BY <1>4 DEF Dies, Respawns, BarCommits
<1> QED
  BY <1>1, <1>2, <1>3, <1>4 DEF Next, Sweep

\* An exit rule is decided together with the exit.
Decided ==
  status = "open" =>
    decision \notin {"b_thesis_invalid", "h_ev_hold_below_sell", "i_regain_low"}

LEMMA DecidedInitial == Init => Decided
  BY DEF Init, Decided

LEMMA DecidedStep == Decided /\ [Next]_vars => Decided'
<1> SUFFICES ASSUME Decided, [Next]_vars PROVE Decided'
  OBVIOUS
<1>1. CASE UNCHANGED <<status, decision>>
  BY <1>1 DEF Decided
<1>2. CASE ForcedFlat \/ NoQuote \/ NoPrice \/ EngineFails
  BY <1>2 DEF ForcedFlat, NoQuote, NoPrice, EngineFails, Exits, Swept, Decided
<1>3. ASSUME NEW e \in Verdicts, Mark(e) PROVE Decided'
  <2> DEFINE rule == IF AfterHours THEN PastTheClose(e) ELSE InSession(e)
  <2>1. \/ rule \notin Holds /\ Exits(rule)
        \/ rule \in Holds /\ decision' = rule
    BY <1>3 DEF Mark, Swept
  <2>2. CASE rule \notin Holds /\ Exits(rule)
    BY <2>2 DEF Exits, Swept, Decided
  <2>3. CASE rule \in Holds /\ decision' = rule
    BY <2>3 DEF Holds, Decided
  <2> QED
    BY <2>1, <2>2, <2>3
<1>4. CASE MinutePasses \/ DayRolls
  BY <1>4 DEF MinutePasses, DayRolls, Decided
<1>5. CASE Dies \/ Respawns \/ \E b \in {"good", "bad"} : BarCommits(b)
  BY <1>1, <1>5 DEF Dies, Respawns, BarCommits
<1> QED
  BY <1>1, <1>2, <1>3, <1>4, <1>5 DEF Next, Sweep, vars

(* A thesis is dropped on two bad bars of one day, never on one judged      *)
(* twice.                                                                   *)
THEOREM ThesisNeedsTwoBars == Spec => TwoBadBars
<1>1. ThesisInv /\ Decided /\ [Next]_vars
        => [decision' = "b_thesis_invalid" => badBars >= 2]_vars
  <2> SUFFICES ASSUME ThesisInv, Decided, Next, decision' = "b_thesis_invalid"
               PROVE  badBars >= 2
    OBVIOUS
  <2>1. decision # "b_thesis_invalid"
    BY DEF Next, Decided
  <2> PICK e \in Verdicts : Mark(e) /\ decision' = InSession(e)
    BY <2>1, DecidedByMark
  <2> QED
    BY LadderSays, StreakIsBacked
<1>2. ThesisInv /\ Decided /\ [Next]_vars => (ThesisInv /\ Decided)'
  BY ThesisStep, DecidedStep
<1>3. Init => ThesisInv /\ Decided
  BY ThesisInitial, DecidedInitial
<1> QED
  BY <1>1, <1>2, <1>3, PTL DEF Spec, TwoBadBars

-----------------------------------------------------------------------------
(* The clocks of the statistical exits.  As long as no mark row was lost,  *)
(* the clock of an open position's breach is the minute of the first mark  *)
(* that saw it, in memory and on file alike.                               *)

Stamp(r) == IF run[r] = None THEN None ELSE run[r].minute

ClockInv ==
  /\ TypeOK
  /\ status = "open" /\ ~unsaved =>
       \A r \in Stat : /\ marks.since[r] = Stamp(r)
                       /\ up => carried.since[r] = Stamp(r)

\* what a mark makes of a condition
LEMMA MarkStamps ==
  ASSUME ClockInv, TypeOK', NEW e \in Verdicts, Mark(e), status = "open", up, ~unsaved',
         ~unsaved, NEW r \in Stat
  PROVE  /\ Since(e)[r] = Stamp(r)'
         /\ run'[r] # None <=> Since(e)[r] # None
         /\ run'[r] # None =>
              run'[r] = [day |-> day, minute |-> minute] \/ run'[r] = run[r]
<1>1. run'[r] = IF r \notin e.low \/ e.stale THEN None
                ELSE IF run[r] # None THEN run[r] ELSE [day |-> day, minute |-> minute]
  BY DEF Mark, Noted
<1>2. Since(e)[r] = IF r \notin e.low \/ e.stale THEN None
                    ELSE IF carried.since[r] # None THEN carried.since[r] ELSE minute
  BY DEF Since
<1>3. carried.since[r] = Stamp(r)
  BY DEF ClockInv
<1>4. run[r] # None => run[r] \in [day : Nat, minute : Nat]
  BY DEF ClockInv, TypeOK
<1>5. [day |-> day, minute |-> minute] \in [day : Nat, minute : Nat]
  BY DEF ClockInv, TypeOK
<1>6. None \notin Nat /\ None \notin [day : Nat, minute : Nat]
  BY Zenon
<1>7. minute # None /\ (run[r] # None => run[r].minute # None)
  BY <1>4, <1>6 DEF ClockInv, TypeOK
<1>8. CASE r \notin e.low \/ e.stale
  BY <1>1, <1>2, <1>8 DEF Stamp
<1>9. CASE ~(r \notin e.low \/ e.stale) /\ run[r] # None
  BY <1>1, <1>2, <1>3, <1>7, <1>9 DEF Stamp
<1>10. CASE ~(r \notin e.low \/ e.stale) /\ run[r] = None
  <2>1. run'[r] = [day |-> day, minute |-> minute] /\ Since(e)[r] = minute
    BY <1>1, <1>2, <1>3, <1>10 DEF Stamp
  <2>2. run'[r] # None
    BY <1>5, <1>6, <2>1
  <2> QED
    BY <1>7, <2>1, <2>2 DEF Stamp
<1> QED
  BY <1>8, <1>9, <1>10

LEMMA ClockInitial == Init => ClockInv
<1> SUFFICES ASSUME Init PROVE ClockInv
  OBVIOUS
<1>1. \A r \in Stat : Stamp(r) = None /\ marks.since[r] = None /\ carried.since[r] = None
  BY DEF Init, NewCarried, NoClocks, Stamp
<1> QED
  BY <1>1, TypeInitial DEF ClockInv

LEMMA ClockStep == ClockInv /\ [Next]_vars => ClockInv'
<1> SUFFICES ASSUME ClockInv, [Next]_vars PROVE ClockInv'
  OBVIOUS
<1> TypeOK /\ TypeOK'
  BY TypeStep DEF ClockInv
<1> SUFFICES ASSUME status' = "open", ~unsaved'
             PROVE  \A r \in Stat : /\ marks'.since[r] = Stamp(r)'
                                    /\ up' => carried'.since[r] = Stamp(r)'
  BY DEF ClockInv
<1>1. ASSUME UNCHANGED <<run, unsaved, marks>>, status = "open",
             up' => \A r \in Stat : carried'.since[r] = marks.since[r]
                                    \/ (up /\ carried'.since[r] = carried.since[r])
      PROVE  \A r \in Stat : /\ marks'.since[r] = Stamp(r)'
                             /\ up' => carried'.since[r] = Stamp(r)'
  BY <1>1 DEF ClockInv, Stamp
<1>2. CASE ForcedFlat \/ NoQuote \/ NoPrice
  <2>1. UNCHANGED <<run, unsaved, marks, carried, up>> /\ status = "open"
    BY <1>2 DEF ForcedFlat, NoQuote, NoPrice, Exits, memory, history, Next
  <2> QED
    BY <1>1, <2>1
<1>3. CASE EngineFails
  BY <1>3 DEF EngineFails
<1>4. ASSUME NEW e \in Verdicts, Mark(e), Next, up
      PROVE  \A r \in Stat : /\ marks'.since[r] = Stamp(r)'
                             /\ up' => carried'.since[r] = Stamp(r)'
  <2>1. status = "open" /\ ~unsaved
    BY <1>4 DEF Next, Mark, Exits
  <2>2. carried' = Updated(e) /\ marks' = Stored(e)
    BY <1>4 DEF Mark, Exits, Swept
  <2>3. \A r \in Stat : Since(e)[r] = Stamp(r)'
    BY <1>4, <2>1, MarkStamps
  <2> QED
    BY <2>2, <2>3, UpdatedIsCarried
<1>5. CASE \E b \in {"good", "bad"} : BarCommits(b)
  <2>1. UNCHANGED <<run, unsaved, marks, up, status>> /\ carried'.since = carried.since
    BY <1>5 DEF BarCommits, TypeOK, Carried
  <2> QED
    BY <1>1, <2>1
<1>6. CASE MinutePasses
  <2>1. UNCHANGED <<run, unsaved, marks, carried, up, status>>
    BY <1>6 DEF MinutePasses, memory, history
  <2> QED
    BY <1>1, <2>1
<1>7. CASE DayRolls /\ Next
  <2>1. UNCHANGED <<run, unsaved, marks, up>> /\ status = "open" /\ (up => carried' = marks)
    BY <1>7 DEF DayRolls, Rebuilt, Next
  <2> QED
    BY <1>1, <2>1
<1>8. CASE Dies \/ Respawns
  <2>1. UNCHANGED <<run, unsaved, marks, status>> /\ (up' => carried' = marks)
    BY <1>8 DEF Dies, Respawns, Rebuilt, history
  <2> QED
    BY <1>1, <2>1
<1>9. CASE UNCHANGED vars
  <2>1. UNCHANGED <<run, unsaved, marks, status, carried, up>>
    BY <1>9 DEF vars, memory, history
  <2> QED
    BY <1>1, <2>1
<1> QED
  BY <1>2, <1>3, <1>4, <1>5, <1>6, <1>7, <1>8, <1>9 DEF Next, Sweep

\* A statistical exit is decided, or not decided, by the history of the marks.
LEMMA MarkDecides ==
  ASSUME ClockInv, ClockInv', NEW e \in Verdicts, Mark(e), status = "open", up,
         ~unsaved', ~unsaved, NEW r \in Stat
  PROVE  /\ Held(r, e) => run'[r] # None /\ minute - run'[r].minute >= Persist
         /\ run'[r] # None /\ ~Held(r, e) => minute - run'[r].minute < Persist
         /\ run'[r] # None => r \in e.low /\ ~e.stale
<1>1. /\ Since(e)[r] = Stamp(r)'
      /\ run'[r] # None <=> Since(e)[r] # None
  BY MarkStamps DEF ClockInv
<1>2. run'[r] # None => run'[r].minute \in Nat /\ Since(e)[r] = run'[r].minute
  BY <1>1 DEF Stamp, ClockInv, TypeOK
<1>3. run'[r] # None => r \in e.low /\ ~e.stale
  BY DEF Mark, Noted
<1>4. minute \in Nat /\ Persist \in Nat
  BY DEF ClockInv, TypeOK
<1> QED
  BY <1>1, <1>2, <1>3, <1>4 DEF Held

(* A statistical exit has been due at every mark of the last Persist        *)
(* minutes, whatever restarts, halts and unquoted sweeps lie between.       *)
THEOREM ExitsArePatient == Spec => Patience
<1>1. ClockInv /\ ClockInv' /\ Decided /\ [Next]_vars =>
        [\A r \in Stat :
           /\ decision' = (IF r = "h" THEN "h_ev_hold_below_sell" ELSE "i_regain_low")
           /\ ~unsaved'
           => /\ run'[r] # None
              /\ run'[r].day < day \/ minute - run'[r].minute >= Persist]_vars
  <2> SUFFICES ASSUME ClockInv, ClockInv', Decided, Next, NEW r \in Stat, ~unsaved',
                      decision' = (IF r = "h" THEN "h_ev_hold_below_sell" ELSE "i_regain_low")
               PROVE  run'[r] # None /\ minute - run'[r].minute >= Persist
    OBVIOUS
  <2>1. status = "open" /\ decision' # decision
    BY DEF Next, Decided
  <2> PICK e \in Verdicts : Mark(e) /\ decision' = InSession(e)
    BY <2>1, DecidedByMark
  <2>2. up
    BY <2>1 DEF Next, Sweep, MinutePasses, DayRolls, Dies, Respawns, BarCommits
  <2>3. ~unsaved
    BY DEF Mark, Exits
  <2>4. Held(r, e)
    BY LadderSays DEF Stat
  <2> QED
    BY <2>1, <2>2, <2>3, <2>4, MarkDecides
<1>2. ClockInv /\ Decided /\ [Next]_vars => (ClockInv /\ Decided)'
  BY ClockStep, DecidedStep
<1>3. Init => ClockInv /\ Decided
  BY ClockInitial, DecidedInitial
<1> QED
  BY <1>1, <1>2, <1>3, PTL DEF Spec, Patience

\* A position held by the ladder's default has no breach that is overdue.
Young(r) == run[r].day < day \/ minute - run[r].minute < Persist

HeldInv ==
  status = "open" /\ ~unsaved /\ decision = "j_hold" =>
    \A r \in Stat : run[r] # None => Young(r)

LEMMA LossStays == Next /\ ~unsaved' => ~unsaved
  BY DEF Next, Sweep, ForcedFlat, NoQuote, NoPrice, EngineFails, Mark, Exits,
     MinutePasses, DayRolls, Dies, Respawns, BarCommits, history

LEMMA HoldStep ==
  ASSUME ClockInv, ClockInv', HeldInv, Next, decision' = "j_hold", ~unsaved,
         NEW r \in Stat, run'[r] # None
  PROVE  run'[r].day < day \/ minute - run'[r].minute < Persist
<1>0. status = "open"
  BY DEF Next
<1>1. ASSUME NEW e \in Verdicts, Mark(e), up, decision' = InSession(e)
      PROVE  minute - run'[r].minute < Persist
  <2>1. ~unsaved'
    BY <1>1 DEF Mark, Noted
  <2>2. ~Held(r, e)
    BY <1>0, <1>1, <2>1, LadderSays, MarkDecides
  <2> QED
    BY <1>0, <1>1, <2>1, <2>2, MarkDecides
<1>2. CASE UNCHANGED <<decision, run>>
  BY <1>0, <1>2 DEF HeldInv, Young
<1>3. CASE ~UNCHANGED <<decision, run>>
  <2>1. Sweep
    BY <1>3 DEF Next, MinutePasses, DayRolls, Dies, Respawns, BarCommits, history
  <2>2. ~(ForcedFlat \/ NoQuote \/ NoPrice \/ EngineFails)
    BY DEF ForcedFlat, NoQuote, NoPrice, EngineFails, Exits, Swept
  <2> PICK e \in Verdicts : Mark(e)
    BY <2>1, <2>2 DEF Sweep
  <2>3. decision' \in {IF AfterHours THEN PastTheClose(e) ELSE InSession(e), "unwritten"}
    BY DEF Mark, Exits, Swept
  <2>4. decision' = InSession(e)
    BY <2>3, PastTheCloseGives
  <2> QED
    BY <1>1, <2>1, <2>4 DEF Sweep
<1> QED
  BY <1>2, <1>3

LEMMA HeldStep ==
  ClockInv /\ ClockInv' /\ HeldInv /\ [Next]_vars => HeldInv'
<1> SUFFICES ASSUME ClockInv, ClockInv', HeldInv, [Next]_vars,
                    status' = "open", ~unsaved', decision' = "j_hold",
                    NEW r \in Stat, run'[r] # None
             PROVE  Young(r)'
  BY DEF HeldInv
<1>1. CASE Next
  <2>1. ~unsaved
    BY <1>1, LossStays
  <2>2. UNCHANGED <<day, minute>>
    BY <1>1 DEF Next, Sweep, ForcedFlat, NoQuote, NoPrice, EngineFails, Mark,
       MinutePasses, DayRolls, Dies, Respawns, BarCommits
  <2> QED
    BY <1>1, <2>1, <2>2, HoldStep DEF Young
<1>2. CASE UNCHANGED vars
  BY <1>2 DEF vars, history, HeldInv, Young
<1> QED
  BY <1>1, <1>2

(* A breach of today that every mark has seen is not held past its minutes. *)
THEOREM EdgeIsNotHeld == Spec => EdgeOrSold
<1>1. ClockInv /\ ClockInv' /\ HeldInv /\ [Next]_vars =>
        [\A r \in Stat :
           decision' = "j_hold" /\ run'[r] # None /\ ~unsaved'
           => run'[r].day < day \/ minute - run'[r].minute < Persist]_vars
  BY HoldStep, LossStays
<1>2. ClockInv /\ [Next]_vars => ClockInv'
  BY ClockStep
<1>3. Init => HeldInv
  BY DEF Init, HeldInv
<1> QED
  BY <1>1, <1>2, <1>3, ClockInitial, HeldStep, PTL DEF Spec, EdgeOrSold

-----------------------------------------------------------------------------
(* The hard flat.  A position that a sweep at or past it left open, and did *)
(* not fail to close, is one that the overnight grant may keep.            *)

MayKeep == Dte >= OvernightDte /\ day \in GrantDays

FlatInv ==
  status = "open" /\ swept /\ FlatMinute <= minute =>
    decision \in {"engine_error", "unwritten"} \/ MayKeep

\* At the hard flat the ladder keeps a granted contract and no other.
LEMMA FlatLadder ==
  ASSUME NEW e, FlatMinute <= minute, ~Granted(e), minute \in Nat
  PROVE  PastTheClose(e) = "late_close_flat"
<1> DEFINE ladder == <<
  <<Granted(e),                     "overnight_grant_hold">>,
  <<minute >= FlatMinute,           "late_close_flat">>,
  <<pos.planned,                    "planned_exit_flat">>,
  <<GainGone(e),                    "d2_costbasis_backstop">>
  >>
<1>1. PastTheClose(e) = FirstRule(ladder, "ah_hold")
  BY DEF PastTheClose
<1>2. DOMAIN ladder = 1 .. 4
  OBVIOUS
<1>3. ~ladder[1][1] /\ ladder[2][1] /\ ladder[2][2] = "late_close_flat"
  OBVIOUS
<1> HIDE DEF ladder
<1> QED
  BY <1>1, <1>2, <1>3, FirstRuleIs

LEMMA FlatStep == TypeOK /\ FlatInv /\ [Next]_vars => FlatInv'
<1> SUFFICES ASSUME TypeOK, FlatInv, [Next]_vars, status' = "open", swept',
                    FlatMinute <= minute'
             PROVE  decision' \in {"engine_error", "unwritten"} \/ MayKeep'
  BY DEF FlatInv
<1>1. CASE UNCHANGED <<day, minute, pos, status, swept, decision>>
  BY <1>1 DEF FlatInv, MayKeep, Dte
<1>2. CASE Sweep
  <2>1. UNCHANGED <<day, minute, pos>>
    BY <1>2 DEF Sweep, ForcedFlat, NoQuote, NoPrice, EngineFails, Mark
  <2>2. AfterHours
    BY <2>1 DEF AfterHours, TypeOK, Clocks
  <2>3. CASE ForcedFlat \/ NoQuote \/ NoPrice \/ EngineFails
    BY <2>1, <2>2, <2>3 DEF ForcedFlat, NoQuote, NoPrice, EngineFails, Exits, Swept
  <2>4. ASSUME NEW e \in Verdicts, Mark(e)
        PROVE  decision' \in {"engine_error", "unwritten"} \/ MayKeep'
    <3>1. CASE Granted(e)
      BY <2>1, <3>1 DEF Granted, MayKeep, Dte
    <3>2. CASE ~Granted(e)
      <4>1. PastTheClose(e) = "late_close_flat"
        BY <2>1, <3>2, FlatLadder DEF TypeOK
      <4> QED
        BY <2>2, <2>4, <4>1 DEF Mark, Holds, Exits, Swept
    <3> QED
      BY <3>1, <3>2
  <2> QED
    BY <1>2, <2>3, <2>4 DEF Sweep
<1>3. CASE MinutePasses \/ DayRolls
  BY <1>3 DEF MinutePasses, DayRolls
<1>4. CASE Dies \/ Respawns \/ \E b \in {"good", "bad"} : BarCommits(b)
  BY <1>1, <1>4 DEF Dies, Respawns, BarCommits
<1>5. CASE UNCHANGED vars
  BY <1>1, <1>5 DEF vars
<1> QED
  BY <1>2, <1>3, <1>4, <1>5 DEF Next

LEMMA FlatInitial == Init => FlatInv
<1> SUFFICES ASSUME Init PROVE ~(FlatMinute <= minute)
  BY DEF FlatInv
<1>0. FlatMinute \in Nat /\ OpenMinute \in Nat /\ Grid \subseteq Nat
  BY DEF Clocks
<1> DEFINE S == {m \in Grid : m > OpenMinute}
<1>1. S \in SUBSET Nat /\ \E m \in S : m < FlatMinute
  BY <1>0
<1>2. minute = FirstOf(S)
  BY DEF Init
<1>3. minute \in S /\ \A m \in S : minute <= m
  BY <1>1, <1>2, FirstExists
<1>4. PICK m \in S : m < FlatMinute
  BY <1>1
<1>5. m \in Nat /\ minute \in Nat /\ minute <= m
  BY <1>1, <1>3
<1> HIDE DEF S
<1> QED
  BY <1>0, <1>4, <1>5

(* Past a sweep at the hard flat that did its work, only a contract the     *)
(* overnight grant may keep is carried into the next day.                   *)
THEOREM OnlyGrantedIsCarried == Spec => CarriesGranted
<1>1. TypeOK /\ FlatInv /\ [Next]_vars =>
        [day' # day /\ status = "open" /\ up /\ swept
           /\ decision \notin {"engine_error", "unwritten"}
         => Dte >= OvernightDte /\ day \in GrantDays]_vars
  <2> SUFFICES ASSUME TypeOK, FlatInv, Next, day' # day, status = "open", swept,
                      decision \notin {"engine_error", "unwritten"}
               PROVE  MayKeep
    BY DEF MayKeep
  <2>1. DayRolls
    BY DEF Next, Sweep, ForcedFlat, NoQuote, NoPrice, EngineFails, Mark, MinutePasses,
       Dies, Respawns, BarCommits
  <2>2. FlatMinute <= minute
    <3> PICK m \in Grid : FlatMinute <= m
      OBVIOUS
    <3>1. m <= minute
      BY <2>1 DEF DayRolls
    <3> QED
      BY <3>1 DEF TypeOK, Clocks
  <2> QED
    BY <2>2 DEF FlatInv
<1>2. TypeOK /\ FlatInv /\ [Next]_vars => (TypeOK /\ FlatInv)'
  BY TypeStep, FlatStep
<1>3. Init => TypeOK /\ FlatInv
  BY TypeInitial, FlatInitial
<1> QED
  BY <1>1, <1>2, <1>3, PTL DEF Spec, CarriesGranted
=============================================================================
