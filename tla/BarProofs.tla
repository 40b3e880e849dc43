------------------------------ MODULE BarProofs ------------------------------
(***************************************************************************)
(* Proofs about SessionBars and SignalLanes: the types of the bars, that   *)
(* only past minutes leave the builder, and that a lane neither speaks     *)
(* twice for one move nor is silenced by a refusal.                        *)
(***************************************************************************)
EXTENDS SignalLanes, FiniteSetTheorems, TLAPS

USE BarsAssumption DEF BarsAssumption

\* a symbol that is still to be filled has attempts left
AttemptsLeft == filled \/ attempts < MaxAttempts

TypeInv == TypeOK /\ AttemptsLeft

LEMMA TypeInitial == Init => TypeInv
<1> SUFFICES ASSUME Init PROVE TypeInv
  OBVIOUS
<1>1. filled \in BOOLEAN
  BY Zenon DEF Init
<1>2. <<>> \in Seq(Bar)
  OBVIOUS
<1> QED
  BY <1>1, <1>2 DEF Init, TypeInv, TypeOK, AttemptsLeft, None

LEMMA TypeStep == TypeInv /\ [Next]_vars => TypeInv'
<1> SUFFICES ASSUME TypeInv, [Next]_vars PROVE TypeInv'
  OBVIOUS
<1> USE DEF TypeInv, AttemptsLeft
<1>1. CASE ClockTicks
  BY <1>1 DEF ClockTicks, TypeOK
<1>2. CASE BeginTick
  BY <1>2 DEF BeginTick, TypeOK
<1>3. CASE BackfillSkip
  BY <1>3 DEF BackfillSkip, TypeOK
<1>4. CASE BackfillFails
  <2>1. filled' \in BOOLEAN
    <3>1. (attempts + 1 >= MaxAttempts) \in BOOLEAN
      OBVIOUS
    <3> QED
      BY <1>4, <3>1, Zenon DEF BackfillFails
  <2>2. attempts < MaxAttempts
    BY <1>4 DEF BackfillFails, Wanted
  <2>3. attempts' \in 0 .. MaxAttempts
    BY <1>4, <2>2 DEF BackfillFails, TypeOK
  <2>4. filled' \/ attempts' < MaxAttempts
    <3>1. CASE attempts + 1 >= MaxAttempts
      BY <1>4, <3>1, Zenon DEF BackfillFails
    <3>2. CASE ~(attempts + 1 >= MaxAttempts)
      <4>1. attempts + 1 < MaxAttempts
        BY <3>2 DEF TypeOK
      <4> QED
        BY <1>4, <4>1, Zenon DEF BackfillFails
    <3> QED
      BY <3>1, <3>2
  <2> QED
    BY <1>4, <2>1, <2>3, <2>4 DEF BackfillFails, TypeOK
<1>5. CASE BackfillLoads
  <2>1. OpenMinute .. clock - 1 \subseteq Nat
    BY DEF TypeOK
  <2> QED
    BY <1>5, <2>1 DEF BackfillLoads, TypeOK
<1>6. CASE SeedBar
  <2>1. PICK m \in rest :
          /\ Seed(m) /\ HandOver(History(m))
          /\ \/ rest' = rest \ {m} /\ UNCHANGED <<pc, raises>>
             \/ /\ InSession(m) /\ raises < MaxRaises
                /\ rest' = {} /\ pc' = "idle" /\ raises' = raises + 1
    BY <1>6 DEF SeedBar
  <2>2. History(m) \in Bar
    BY DEF History, Bar, TypeOK
  <2>3. bars' \in Seq(Bar)
    BY <2>1, <2>2 DEF Seed, TypeOK
  <2>4. seen' \in Seq(Bar)
    BY <2>1, <2>2 DEF HandOver, TypeOK
  <2>5. rest' \subseteq Nat
    <3>1. rest' = rest \ {m} \/ rest' = {}
      BY <2>1
    <3> QED
      BY <3>1 DEF TypeOK
  <2>8. raises' \in 0 .. MaxRaises
    <3>1. raises' = raises \/ (raises < MaxRaises /\ raises' = raises + 1)
      BY <2>1
    <3> QED
      BY <3>1 DEF TypeOK
  <2>6. pc' \in {"idle", "backfill", "seed", "poll"}
    BY <2>1 DEF TypeOK
  <2>7. UNCHANGED <<clock, tick, forming, filled, attempts>>
    BY <1>6 DEF SeedBar
  <2> QED
    BY <2>3, <2>4, <2>5, <2>6, <2>7, <2>8 DEF TypeOK
<1>7. CASE SeedDone
  BY <1>7 DEF SeedDone, TypeOK
<1>8. CASE PollNothing
  BY <1>8 DEF PollNothing, TypeOK
<1>9. CASE RollOver
  <2>1. Live(forming) \in Bar
    BY <1>9 DEF RollOver, Live, Bar, TypeOK
  <2>2. bars' \in Seq(Bar) /\ seen' \in Seq(Bar)
    BY <1>9, <2>1 DEF RollOver, HandOver, TypeOK
  <2> QED
    BY <1>9, <2>2 DEF RollOver, TypeOK
<1>10. CASE FormBar
  BY <1>10 DEF FormBar, TypeOK
<1>11. CASE UNCHANGED vars
  BY <1>11 DEF vars, TypeOK
<1> QED
  BY <1>1, <1>2, <1>3, <1>4, <1>5, <1>6, <1>7, <1>8, <1>9, <1>10, <1>11
     DEF Next, Step

(* Every variable of the bars keeps its shape; in particular the attempts  *)
(* at the history never pass their bound.                                  *)
THEOREM BarsTypeCorrect == Spec => []TypeOK
<1>1. Spec => []TypeInv
  BY TypeInitial, TypeStep, PTL DEF Spec
<1> QED
  BY <1>1, PTL DEF TypeInv

-----------------------------------------------------------------------------
(* Past minutes.                                                           *)

\* the history in hand is of minutes past when it was asked for
RestPast == \A m \in rest : m < clock

PastInv == TypeOK /\ ClosedOnly /\ RestPast

LEMMA MinutesAreNat ==
  ASSUME NEW s \in Seq(Bar), NEW i \in 1 .. Len(s)
  PROVE  s[i].minute \in Nat
<1>1. s[i] \in Bar
  OBVIOUS
<1> QED
  BY <1>1 DEF Bar

LEMMA AppendPast ==
  ASSUME NEW s \in Seq(Bar), NEW b \in Bar, NEW c \in Nat, b.minute < c,
         \A i \in 1 .. Len(s) : s[i].minute < c
  PROVE  \A i \in 1 .. Len(Append(s, b)) : Append(s, b)[i].minute < c
  OBVIOUS

\* a minute past a cooldown's end stays past it
LEMMA LaterStill ==
  ASSUME NEW m \in Nat, NEW c \in Nat, NEW r \in Nat, NEW a \in Nat, NEW b \in Nat,
         m >= r, r > a + c \/ r >= b + c
  PROVE  /\ m > a + c \/ m >= b + c
         /\ m + c + 1 > a + c \/ m + c + 1 >= b + c
  OBVIOUS

LEMMA PastStep == PastInv /\ TypeOK' /\ [Next]_vars => PastInv'
<1> SUFFICES ASSUME PastInv, TypeOK', [Next]_vars PROVE ClosedOnly' /\ RestPast'
  BY DEF PastInv
<1> USE DEF PastInv
<1>1. CASE ClockTicks
  <2>1. clock < clock' /\ clock' \in Nat
    BY <1>1 DEF ClockTicks, TypeOK
  <2>2. \A i \in 1 .. Len(bars) : bars[i].minute \in Nat
    BY MinutesAreNat DEF TypeOK
  <2>3. \A i \in 1 .. Len(seen) : seen[i].minute \in Nat
    BY MinutesAreNat DEF TypeOK
  <2>4. bars' = bars /\ seen' = seen /\ rest' = rest /\ clock \in Nat
    BY <1>1 DEF ClockTicks, TypeOK
  <2>5. \A i \in 1 .. Len(bars) : bars[i].minute < clock'
    <3> TAKE i \in 1 .. Len(bars)
    <3>1. bars[i].minute < clock /\ bars[i].minute \in Nat
      BY <2>2 DEF ClosedOnly
    <3> QED
      BY <2>1, <2>4, <3>1
  <2>6. \A i \in 1 .. Len(seen) : seen[i].minute < clock'
    <3> TAKE i \in 1 .. Len(seen)
    <3>1. seen[i].minute < clock /\ seen[i].minute \in Nat
      BY <2>3 DEF ClosedOnly
    <3> QED
      BY <2>1, <2>4, <3>1
  <2>7. \A m \in rest : m < clock'
    <3> TAKE m \in rest
    <3>1. m < clock /\ m \in Nat
      BY DEF RestPast, TypeOK
    <3> QED
      BY <2>1, <2>4, <3>1
  <2> QED
    BY <2>4, <2>5, <2>6, <2>7, Zenon DEF ClosedOnly, RestPast
<1>2. CASE \/ BeginTick \/ BackfillSkip \/ BackfillFails \/ SeedDone
           \/ PollNothing \/ FormBar \/ UNCHANGED vars
  BY <1>2 DEF BeginTick, BackfillSkip, BackfillFails, SeedDone, PollNothing,
              FormBar, vars, ClosedOnly, RestPast
<1>3. CASE BackfillLoads
  <2>1. \A m \in rest' : m < clock
    BY <1>3 DEF BackfillLoads, TypeOK
  <2> QED
    BY <1>3, <2>1 DEF BackfillLoads, ClosedOnly, RestPast
<1>4. CASE SeedBar
  <2>1. PICK m \in rest :
          Seed(m) /\ HandOver(History(m)) /\ rest' \in {rest \ {m}, {}}
    BY <1>4 DEF SeedBar
  <2>2. History(m) \in Bar /\ History(m).minute < clock /\ clock \in Nat
    BY DEF History, Bar, TypeOK, RestPast
  <2>3. \A i \in 1 .. Len(bars') : bars'[i].minute < clock
    BY <2>1, <2>2, AppendPast DEF Seed, ClosedOnly, TypeOK
  <2>4. \A i \in 1 .. Len(seen') : seen'[i].minute < clock
    BY <2>1, <2>2, AppendPast DEF HandOver, ClosedOnly, TypeOK
  <2> QED
    BY <1>4, <2>1, <2>3, <2>4 DEF SeedBar, ClosedOnly, RestPast
<1>5. CASE RollOver
  <2>1. Live(forming) \in Bar /\ Live(forming).minute < clock /\ clock \in Nat
    BY <1>5 DEF RollOver, Live, Bar, TypeOK
  <2>2. \A i \in 1 .. Len(bars') : bars'[i].minute < clock
    BY <1>5, <2>1, AppendPast DEF RollOver, ClosedOnly, TypeOK
  <2>3. \A i \in 1 .. Len(seen') : seen'[i].minute < clock
    BY <1>5, <2>1, AppendPast DEF RollOver, HandOver, ClosedOnly, TypeOK
  <2> QED
    BY <1>5, <2>2, <2>3 DEF RollOver, ClosedOnly, RestPast
<1> QED
  BY <1>1, <1>2, <1>3, <1>4, <1>5 DEF Next, Step

(* A lane never sees a forming candle, whatever the history holds of the   *)
(* past minutes and however the clock moves between reading it, asking for *)
(* history and polling.                                                    *)
THEOREM BarsAreClosed == Spec => []ClosedOnly
<1>1. Init => PastInv
  BY TypeInitial DEF Init, PastInv, TypeInv, ClosedOnly, RestPast
<1>2. Spec => []PastInv
  BY <1>1, PastStep, BarsTypeCorrect, PTL DEF Spec
<1> QED
  BY <1>2, PTL DEF PastInv

-----------------------------------------------------------------------------
(* The lanes.  A side that spoke is held for the cooldown of that bar or   *)
(* of that answer, and by nothing else; an entry latches it, and nothing   *)
(* else does; the event's reaction is pending until it is said.            *)

Lane == {"index_trend", "inplay_orb", "macro_reaction"}
Fire == [side : Lane \X Direction, minute : Nat, now : Nat, entered : BOOLEAN]

LaneType ==
  /\ tape \in Tapes
  /\ latched \in SUBSET Sides /\ rearm \in [Sides -> Nat]
  /\ macro.pending # Unmoved => macro.measured
  /\ fires \in Seq(Fire)

\* the clock does not run back on an answer
Heard == tick <= clock /\ \A i \in 1 .. Len(fires) : fires[i].now <= tick

\* what a side was told holds it
Held ==
  \A i \in 1 .. Len(fires) : fires[i].side \in Sides =>
    /\ fires[i].entered => fires[i].side \in latched
    /\ \/ rearm[fires[i].side] > fires[i].minute + Cooldown
       \/ rearm[fires[i].side] >= fires[i].now + Cooldown

\* nothing else does
HeldByAnswers ==
  \A side \in Sides :
    /\ side \in latched => \E i \in 1 .. Len(fires) : fires[i].side = side /\ fires[i].entered
    /\ \/ rearm[side] = 0
       \/ \E i \in 1 .. Len(fires) :
            /\ fires[i].side = side
            /\ rearm[side] \in {fires[i].now + Cooldown, fires[i].minute + Cooldown + 1}

\* the reaction is out
Reacted ==
  (\E i \in 1 .. Len(fires) : fires[i].side \notin Sides)
    => macro.measured /\ macro.pending = Unmoved

LaneInv == LaneType /\ Heard /\ Held /\ HeldByAnswers /\ Reacted /\ SaidOnce

USE LanesAssumption DEF LanesAssumption

LEMMA LaneInitial == LanesInit /\ Init => LaneInv
<1> SUFFICES ASSUME LanesInit, Init PROVE LaneInv
  OBVIOUS
<1>1. LaneType
  BY DEF LanesInit, LaneType, Unmoved
<1>2. fires = <<>> /\ Len(fires) = 0 /\ tick = 0 /\ clock \in Nat
  BY DEF LanesInit, Init
<1>3. Heard /\ Held /\ Reacted /\ SaidOnce
  BY <1>2 DEF Heard, Held, Reacted, SaidOnce
<1>4. HeldByAnswers
  BY <1>2 DEF LanesInit, HeldByAnswers
<1> QED
  BY <1>1, <1>3, <1>4 DEF LaneInv

\* What a bar makes the lanes say.
LEMMA SignalsAre ==
  ASSUME NEW m, NEW s \in Signals(m)
  PROVE  /\ s \in Lane \X Direction
         /\ s \in Sides => Armed(s, m)
         /\ s \notin Sides => /\ s[1] = "macro_reaction" /\ MacroSignals(m) # {}
                              /\ Measured(m).pending # Unmoved /\ m + 1 \notin Blackouts
<1>1. CASE s \in TrendSignals(m)
  <2>1. s = <<"index_trend", Toward(tape[m].close)>> /\ Armed(s, m)
    BY <1>1 DEF TrendSignals
  <2> QED
    BY <2>1 DEF Toward, Lane, Direction, Sides
<1>2. CASE s \in OrbSignals(m)
  <2>1. PICK d \in Direction : s = <<"inplay_orb", d>>
    BY <1>2 DEF OrbSignals, Direction
  <2>2. Armed(s, m)
    BY <1>2 DEF OrbSignals
  <2> QED
    BY <2>1, <2>2 DEF Lane, Sides
<1>3. CASE s \in MacroSignals(m)
  <2>1. /\ s = <<"macro_reaction", Toward(Measured(m).pending)>>
        /\ Measured(m).pending # Unmoved /\ m + 1 \notin Blackouts
    BY <1>3 DEF MacroSignals
  <2>2. s \in Lane \X Direction /\ s \notin Sides /\ s[1] = "macro_reaction"
    BY <2>1 DEF Toward, Lane, Direction, Sides
  <2> QED
    BY <1>3, <2>1, <2>2
<1> QED
  BY <1>1, <1>2, <1>3 DEF Signals

LEMMA SignalsFinite ==
  ASSUME NEW m
  PROVE  IsFiniteSet(Signals(m))
<1>1. /\ \E x : TrendSignals(m) \subseteq {x}
      /\ \E x : OrbSignals(m) \subseteq {x}
      /\ \E x : MacroSignals(m) \subseteq {x}
  BY DEF TrendSignals, OrbSignals, MacroSignals
<1>2. IsFiniteSet(TrendSignals(m)) /\ IsFiniteSet(OrbSignals(m)) /\ IsFiniteSet(MacroSignals(m))
  BY <1>1, FS_Singleton, FS_Subset
<1> QED
  BY <1>2, FS_Union DEF Signals

\* A bar that is heard: which of its signals are out, in which order they stand
\* in fires, and what they do to what holds their sides.
Out(m, answer) == {s \in Signals(m) : ~Cut(s[1], answer)}

Said(m, answer, n, order) ==
  /\ order \in [1 .. n -> Out(m, answer)]
  /\ \A s \in Out(m, answer) : \E k \in 1 .. n : order[k] = s
  /\ \A i, j \in 1 .. n : order[i] = order[j] => i = j
  /\ latched' = latched \cup {s \in Out(m, answer) \cap Sides : Latches(answer[s])}
  /\ rearm' = [s \in Sides |-> IF s \in Out(m, answer) THEN Rearm(m, answer[s]) ELSE rearm[s]]
  /\ macro' = IF Cut("macro_reaction", answer) THEN macro
              ELSE IF MacroSignals(m) = {} THEN Measured(m)
              ELSE [measured |-> TRUE, pending |-> Unmoved]
  /\ fires' \in Seq(Fire) /\ Len(fires') = Len(fires) + n
  /\ \A i \in 1 .. Len(fires) : fires'[i] = fires[i]
  /\ \A k \in 1 .. n : fires'[Len(fires) + k] =
       [side |-> order[k], minute |-> m, now |-> tick,
        entered |-> IF answer[order[k]] = "entered" THEN TRUE ELSE FALSE]
  /\ UNCHANGED tape

LEMMA HearSays ==
  ASSUME TypeOK, LaneInv, NEW m \in Nat, Hear(m)
  PROVE  \E answer \in [Signals(m) -> Answers(m)], n \in Nat :
           \E order \in [1 .. n -> Out(m, answer)] : Said(m, answer, n, order)
<1>1. PICK answer \in [Signals(m) -> Answers(m)] :
        \E order \in Orders(Out(m, answer)) :
          /\ latched' = latched \cup {s \in Out(m, answer) \cap Sides : Latches(answer[s])}
          /\ rearm' = [s \in Sides |-> IF s \in Out(m, answer) THEN Rearm(m, answer[s]) ELSE rearm[s]]
          /\ macro' = IF Cut("macro_reaction", answer) THEN macro
                      ELSE IF MacroSignals(m) = {} THEN Measured(m)
                      ELSE [measured |-> TRUE, pending |-> Unmoved]
          /\ fires' = fires \o [i \in DOMAIN order |->
                        [side |-> order[i], minute |-> m, now |-> tick,
                         entered |-> answer[order[i]] = "entered"]]
  BY Zenon DEF Hear, Out
<1> DEFINE spoken == Out(m, answer)
           n == Cardinality(spoken)
<1>2. n \in Nat
  <2>1. IsFiniteSet(spoken)
    BY SignalsFinite, FS_Subset DEF Out
  <2> QED
    BY <2>1, FS_CardinalityType
<1>3. PICK order \in Orders(spoken) :
          /\ latched' = latched \cup {s \in spoken \cap Sides : Latches(answer[s])}
          /\ rearm' = [s \in Sides |-> IF s \in spoken THEN Rearm(m, answer[s]) ELSE rearm[s]]
          /\ macro' = IF Cut("macro_reaction", answer) THEN macro
                      ELSE IF MacroSignals(m) = {} THEN Measured(m)
                      ELSE [measured |-> TRUE, pending |-> Unmoved]
          /\ fires' = fires \o [i \in DOMAIN order |->
                        [side |-> order[i], minute |-> m, now |-> tick,
                         entered |-> answer[order[i]] = "entered"]]
  BY <1>1
<1>4. /\ order \in [1 .. n -> spoken]
      /\ \A s \in spoken : \E k \in 1 .. n : order[k] = s
      /\ \A i, j \in 1 .. n : order[i] = order[j] => i = j
  BY DEF Orders, Bijection, Injection, Surjection, IsInjective
<1>5. spoken \subseteq Signals(m)
  BY DEF Out
<1>6. UNCHANGED tape
  BY DEF Hear
<1> HIDE DEF spoken, n
<1> DEFINE said == [i \in 1 .. n |->
                      [side |-> order[i], minute |-> m, now |-> tick,
                       entered |-> answer[order[i]] = "entered"]]
<1>7. fires' = fires \o said
  BY <1>3, <1>4
<1>8. said \in Seq(Fire) /\ Len(said) = n
  <2>1. \A i \in 1 .. n : order[i] \in Lane \X Direction
    BY <1>4, <1>5, SignalsAre
  <2>2. \A i \in 1 .. n : [side |-> order[i], minute |-> m, now |-> tick,
                           entered |-> answer[order[i]] = "entered"] \in Fire
    <3>1. tick \in Nat
      BY DEF TypeOK
    <3>2. \A i \in 1 .. n : (answer[order[i]] = "entered") \in BOOLEAN
      BY Zenon
    <3> QED
      BY <2>1, <3>1, <3>2 DEF Fire
  <2> QED
    BY <1>2, <2>2
<1>9. fires \in Seq(Fire)
  BY DEF LaneInv, LaneType
<1>10. /\ fires' \in Seq(Fire) /\ Len(fires') = Len(fires) + n
       /\ \A i \in 1 .. Len(fires) : fires'[i] = fires[i]
       /\ \A k \in 1 .. n : fires'[Len(fires) + k] = said[k]
  <2> HIDE DEF said
  <2>1. \A i \in 1 .. Len(fires) : (fires \o said)[i] = fires[i]
    BY <1>8, <1>9
  <2>2. \A k \in 1 .. n : (fires \o said)[Len(fires) + k] = said[k]
    BY <1>2, <1>8, <1>9
  <2>3. fires \o said \in Seq(Fire) /\ Len(fires \o said) = Len(fires) + n
    BY <1>8, <1>9, SMTT(30)
  <2> QED
    BY <1>7, <2>1, <2>2, <2>3
<1>11. \A k \in 1 .. n : said[k] =
         [side |-> order[k], minute |-> m, now |-> tick,
          entered |-> IF answer[order[k]] = "entered" THEN TRUE ELSE FALSE]
  <2> TAKE k \in 1 .. n
  <2>1. CASE answer[order[k]] = "entered"
    <3>1. (answer[order[k]] = "entered") = TRUE
      BY <2>1
    <3> QED
      BY <2>1, <3>1
  <2>2. CASE answer[order[k]] # "entered"
    <3>1. (answer[order[k]] = "entered") = FALSE
      BY <2>2
    <3> QED
      BY <2>2, <3>1
  <2> QED
    BY <2>1, <2>2
<1> HIDE DEF said
<1>12. Said(m, answer, n, order)
  BY <1>3, <1>4, <1>6, <1>10, <1>11, ZenonT(60) DEF Said, spoken
<1> QED
  BY <1>2, <1>4, <1>12 DEF spoken

\* What a side that a bar speaks for was held by, and is held by after it.
LEMMA RearmedAs ==
  ASSUME TypeOK, NEW m \in Nat, NEW a
  PROVE  /\ Rearm(m, a) \in Nat
         /\ Rearm(m, a) = tick + Cooldown \/ Rearm(m, a) = m + Cooldown + 1
  BY DEF Rearm, TypeOK

\* A bar that is heard keeps what the lanes rely on.
LEMMA HearKeeps ==
  ASSUME TypeOK, LaneInv, NEW m \in Nat, Hear(m), tick' = tick, clock' = clock
  PROVE  LaneInv'
<1>1. PICK answer \in [Signals(m) -> Answers(m)], n \in Nat :
         \E order \in [1 .. n -> Out(m, answer)] : Said(m, answer, n, order)
  BY HearSays
<1>2. PICK order \in [1 .. n -> Out(m, answer)] : Said(m, answer, n, order)
  BY <1>1
<1> DEFINE spoken == Out(m, answer)
           old == Len(fires)
<1>3. /\ fires \in Seq(Fire) /\ old \in Nat
      /\ fires' \in Seq(Fire) /\ Len(fires') = old + n
      /\ \A i \in 1 .. old : fires'[i] = fires[i]
      /\ \A k \in 1 .. n : fires'[old + k].side = order[k]
      /\ \A k \in 1 .. n : fires'[old + k].minute = m
      /\ \A k \in 1 .. n : fires'[old + k].now = tick
      /\ \A k \in 1 .. n : fires'[old + k].entered <=> answer[order[k]] = "entered"
  <2>1. fires \in Seq(Fire) /\ old \in Nat
    BY DEF LaneInv, LaneType
  <2>2. /\ fires' \in Seq(Fire) /\ Len(fires') = old + n
        /\ \A i \in 1 .. old : fires'[i] = fires[i]
    BY <1>2 DEF Said
  <2>3. ASSUME NEW k \in 1 .. n
        PROVE  fires'[old + k] = [side |-> order[k], minute |-> m, now |-> tick,
                                  entered |-> IF answer[order[k]] = "entered" THEN TRUE ELSE FALSE]
    BY <1>2 DEF Said
  <2>4. ASSUME NEW k \in 1 .. n
        PROVE  /\ fires'[old + k].side = order[k]
               /\ fires'[old + k].minute = m
               /\ fires'[old + k].now = tick
               /\ fires'[old + k].entered <=> answer[order[k]] = "entered"
    <3>1. CASE answer[order[k]] = "entered"
      <4>1. fires'[old + k] = [side |-> order[k], minute |-> m, now |-> tick, entered |-> TRUE]
        BY <2>3, <3>1
      <4> QED
        BY <3>1, <4>1
    <3>2. CASE answer[order[k]] # "entered"
      <4>1. fires'[old + k] = [side |-> order[k], minute |-> m, now |-> tick, entered |-> FALSE]
        BY <2>3, <3>2
      <4> QED
        BY <3>2, <4>1
    <3> QED
      BY <3>1, <3>2
  <2> QED
    BY <2>1, <2>2, <2>4
<1>4. \A i \in 1 .. Len(fires') : i \in 1 .. old \/ \E k \in 1 .. n : i = old + k
  <2> SUFFICES ASSUME NEW i \in 1 .. Len(fires'), i \notin 1 .. old
               PROVE  \E k \in 1 .. n : i = old + k
    OBVIOUS
  <2>1. i - old \in 1 .. n /\ i = old + (i - old)
    BY <1>3
  <2> QED
    BY <2>1
<1>5. \A i \in 1 .. old : /\ fires[i].side \in Lane \X Direction /\ fires[i].entered \in BOOLEAN
                          /\ fires[i].minute \in Nat /\ fires[i].now \in Nat /\ fires[i].now <= tick
  <2>1. \A i \in 1 .. old : fires[i] \in Fire
    BY <1>3
  <2> QED
    BY <2>1 DEF Fire, LaneInv, Heard
<1>6. /\ \A k \in 1 .. n : order[k] \in spoken
      /\ \A s \in spoken : \E k \in 1 .. n : order[k] = s
      /\ \A i, j \in 1 .. n : order[i] = order[j] => i = j
  BY <1>2 DEF Said
<1>7. \A s \in spoken :
        /\ s \in Sides => s \notin latched /\ m >= rearm[s]
        /\ s \notin Sides => /\ s[1] = "macro_reaction" /\ MacroSignals(m) # {}
                             /\ Measured(m).pending # Unmoved /\ m + 1 \notin Blackouts
                             /\ ~Cut("macro_reaction", answer)
  BY SignalsAre DEF Out, Armed
<1>8. /\ latched' = latched \cup {s \in spoken \cap Sides : Latches(answer[s])}
      /\ rearm \in [Sides -> Nat]
      /\ rearm' = [s \in Sides |-> IF s \in spoken THEN Rearm(m, answer[s]) ELSE rearm[s]]
      /\ tape' = tape
  BY <1>2 DEF Said, LaneInv, LaneType
<1>9. \A s \in Sides : s \notin spoken => rearm'[s] = rearm[s]
  BY <1>8
<1>10. \A s \in Sides \cap spoken : rearm'[s] = tick + Cooldown \/ rearm'[s] = m + Cooldown + 1
  <2> SUFFICES ASSUME NEW s \in Sides \cap spoken
               PROVE  rearm'[s] = tick + Cooldown \/ rearm'[s] = m + Cooldown + 1
    OBVIOUS
  <2>1. rearm'[s] = Rearm(m, answer[s])
    BY <1>8
  <2> QED
    BY <2>1, RearmedAs
<1>11. tick \in Nat /\ \A s \in Sides : rearm[s] \in Nat
  BY <1>8 DEF TypeOK
<1>12. (\E i \in 1 .. old : fires[i].side \notin Sides) =>
         macro.measured /\ macro.pending = Unmoved /\ MacroSignals(m) = {} /\ macro' = macro
  <2> SUFFICES ASSUME \E i \in 1 .. old : fires[i].side \notin Sides
               PROVE  macro.measured /\ macro.pending = Unmoved /\ MacroSignals(m) = {} /\ macro' = macro
    OBVIOUS
  <2>1. macro.measured /\ macro.pending = Unmoved
    BY DEF LaneInv, Reacted
  <2>2. Measured(m) = macro /\ MacroSignals(m) = {}
    BY <2>1 DEF Measured, MacroSignals
  <2> QED
    BY <1>2, <2>1, <2>2 DEF Said
<1> HIDE DEF spoken, old
<1>13. LaneType'
  <2>1. rearm' \in [Sides -> Nat]
    <3>1. \A s \in Sides : IF s \in spoken THEN Rearm(m, answer[s]) \in Nat ELSE rearm[s] \in Nat
      BY <1>11, RearmedAs
    <3> QED
      BY <1>8, <3>1
  <2>2. latched' \in SUBSET Sides
    BY <1>8 DEF LaneInv, LaneType
  <2>3. macro'.pending # Unmoved => macro'.measured
    <3>1. macro' = macro \/ macro' = Measured(m) \/ macro' = [measured |-> TRUE, pending |-> Unmoved]
      BY <1>2 DEF Said
    <3>2. Measured(m).pending # Unmoved => Measured(m).measured
      BY DEF Measured, LaneInv, LaneType
    <3> QED
      BY <3>1, <3>2, SMTT(30) DEF LaneInv, LaneType
  <2> QED
    BY <1>3, <1>8, <2>1, <2>2, <2>3 DEF LaneInv, LaneType
<1>14. Heard'
  <2>1. \A i \in 1 .. Len(fires') : fires'[i].now <= tick
    <3> TAKE i \in 1 .. Len(fires')
    <3>1. CASE i \in 1 .. old
      BY <1>3, <1>5, <3>1
    <3>2. CASE \E k \in 1 .. n : i = old + k
      <4>1. PICK k \in 1 .. n : i = old + k
        BY <3>2
      <4>2. fires'[i].now = tick
        BY <1>3, <4>1
      <4> QED
        BY <1>11, <4>2
    <3> QED
      BY <1>4, <3>1, <3>2
  <2> QED
    BY <2>1 DEF LaneInv, Heard
<1>15. Held'
  <2> SUFFICES ASSUME NEW i \in 1 .. Len(fires'), fires'[i].side \in Sides
               PROVE  /\ fires'[i].entered => fires'[i].side \in latched'
                      /\ \/ rearm'[fires'[i].side] > fires'[i].minute + Cooldown
                         \/ rearm'[fires'[i].side] >= fires'[i].now + Cooldown
    BY DEF Held
  <2>1. CASE i \in 1 .. old
    <3> DEFINE s == fires[i].side
    <3>1. /\ fires'[i] = fires[i] /\ s \in Sides
          /\ fires[i].entered => s \in latched
          /\ rearm[s] > fires[i].minute + Cooldown \/ rearm[s] >= fires[i].now + Cooldown
      BY <1>3, <2>1 DEF LaneInv, Held, old
    <3>2. s \in spoken => m >= rearm[s]
      BY <1>7, <3>1
    <3>3. fires[i].minute \in Nat /\ fires[i].now \in Nat /\ fires[i].now <= tick /\ rearm[s] \in Nat
      BY <1>5, <1>11, <2>1, <3>1
    <3> HIDE DEF s
    <3>4. rearm'[s] > fires[i].minute + Cooldown \/ rearm'[s] >= fires[i].now + Cooldown
      <4>1. CASE s \notin spoken
        BY <1>9, <3>1, <4>1
      <4>2. CASE s \in spoken
        <5>1. rearm'[s] = tick + Cooldown \/ rearm'[s] = m + Cooldown + 1
          BY <1>10, <3>1, <4>2
        <5>2. CASE rearm'[s] = tick + Cooldown
          BY <1>11, <3>3, <5>2, SMTT(30)
        <5>3. CASE rearm'[s] = m + Cooldown + 1
          <6> DEFINE r == rearm[s]
                     a == fires[i].minute
                     b == fires[i].now
          <6>1. m >= r /\ m \in Nat /\ Cooldown \in Nat
            BY <1>11, <3>2, <4>2
          <6>2. a \in Nat /\ b \in Nat /\ r \in Nat /\ (r > a + Cooldown \/ r >= b + Cooldown)
            BY <3>1, <3>3
          <6> HIDE DEF r, a, b
          <6>3. m + Cooldown + 1 > a + Cooldown \/ m + Cooldown + 1 >= b + Cooldown
            BY <6>1, <6>2, LaterStill
          <6> QED
            BY <5>3, <6>3, Zenon DEF a, b
        <5> QED
          BY <5>1, <5>2, <5>3
      <4> QED
        BY <4>1, <4>2
    <3> QED
      BY <1>8, <3>1, <3>4 DEF s
  <2>2. CASE \E k \in 1 .. n : i = old + k
    <3>1. PICK k \in 1 .. n : i = old + k
      BY <2>2
    <3>2. /\ fires'[i].side = order[k] /\ order[k] \in spoken \cap Sides
          /\ fires'[i].minute = m /\ fires'[i].now = tick
          /\ (fires'[i].entered <=> answer[order[k]] = "entered")
      BY <1>3, <1>6, <3>1
    <3>3. fires'[i].entered => order[k] \in latched'
      BY <1>8, <3>2 DEF Latches
    <3>4. rearm'[order[k]] > m + Cooldown \/ rearm'[order[k]] >= tick + Cooldown
      BY <1>10, <1>11, <3>2, SMTT(30)
    <3> QED
      BY <3>2, <3>3, <3>4
  <2> QED
    BY <1>4, <2>1, <2>2
<1>16. HeldByAnswers'
  <2> SUFFICES ASSUME NEW side \in Sides
               PROVE  /\ side \in latched' => \E i \in 1 .. Len(fires') :
                                                fires'[i].side = side /\ fires'[i].entered
                      /\ \/ rearm'[side] = 0
                         \/ \E i \in 1 .. Len(fires') :
                              /\ fires'[i].side = side
                              /\ rearm'[side] \in {fires'[i].now + Cooldown, fires'[i].minute + Cooldown + 1}
    BY DEF HeldByAnswers
  <2>1. \A i \in 1 .. old : i \in 1 .. Len(fires')
    BY <1>3
  <2>2. /\ side \in latched => \E i \in 1 .. old : fires[i].side = side /\ fires[i].entered
        /\ \/ rearm[side] = 0
           \/ \E i \in 1 .. old : /\ fires[i].side = side
                                  /\ rearm[side] \in {fires[i].now + Cooldown, fires[i].minute + Cooldown + 1}
    BY DEF LaneInv, HeldByAnswers, old
  <2>3. CASE side \notin spoken
    <3>1. rearm'[side] = rearm[side] /\ (side \in latched' => side \in latched)
      BY <1>8, <1>9, <2>3
    <3> QED
      BY <1>3, <2>1, <2>2, <3>1, SMTT(30)
  <2>4. CASE side \in spoken
    <3>1. PICK k \in 1 .. n : order[k] = side
      BY <1>6, <2>4
    <3>2. old + k \in 1 .. Len(fires')
      BY <1>3, <3>1
    <3>3. /\ fires'[old + k].side = side /\ fires'[old + k].minute = m /\ fires'[old + k].now = tick
          /\ (fires'[old + k].entered <=> answer[side] = "entered")
      BY <1>3, <3>1
    <3>4. side \in latched' => answer[side] = "entered"
      BY <1>7, <1>8, <2>4 DEF Latches
    <3>5. rearm'[side] \in {fires'[old + k].now + Cooldown, fires'[old + k].minute + Cooldown + 1}
      BY <1>10, <2>4, <3>3
    <3> QED
      BY <3>2, <3>3, <3>4, <3>5
  <2> QED
    BY <2>3, <2>4
<1>17. Reacted'
  <2> SUFFICES ASSUME NEW i \in 1 .. Len(fires'), fires'[i].side \notin Sides
               PROVE  macro'.measured /\ macro'.pending = Unmoved
    BY DEF Reacted
  <2>1. CASE i \in 1 .. old
    BY <1>3, <1>12, <2>1
  <2>2. CASE \E k \in 1 .. n : i = old + k
    <3>1. PICK k \in 1 .. n : i = old + k
      BY <2>2
    <3>2. order[k] \in spoken /\ order[k] \notin Sides
      BY <1>3, <1>6, <3>1
    <3>3. MacroSignals(m) # {} /\ ~Cut("macro_reaction", answer)
      BY <1>7, <3>2
    <3> QED
      BY <1>2, <3>3 DEF Said
  <2> QED
    BY <1>4, <2>1, <2>2
<1>18. SaidOnce'
  <2> SUFFICES ASSUME NEW j \in 1 .. Len(fires')
               PROVE  /\ \A i \in 1 .. Len(fires') : i < j /\ fires'[i].side = fires'[j].side =>
                           /\ fires'[j].side \in Sides /\ ~fires'[i].entered
                           /\ \/ fires'[j].minute > fires'[i].minute + Cooldown
                              \/ fires'[j].minute >= fires'[i].now + Cooldown
                      /\ fires'[j].side \notin Sides => fires'[j].minute + 1 \notin Blackouts
    BY DEF SaidOnce, Earlier
  <2>1. CASE j \in 1 .. old
    <3>1. \A i \in 1 .. Len(fires') : i < j => i \in 1 .. old
      BY <1>3, <2>1
    <3> QED
      BY <1>3, <2>1, <3>1, ZenonT(60) DEF LaneInv, SaidOnce, Earlier, old
  <2>2. CASE \E k \in 1 .. n : j = old + k
    <3>1. PICK k \in 1 .. n : j = old + k
      BY <2>2
    <3>2. fires'[j].side = order[k] /\ fires'[j].minute = m /\ order[k] \in spoken
      BY <1>3, <1>6, <3>1
    <3>3. ASSUME NEW i \in 1 .. Len(fires'), i < j, fires'[i].side = order[k]
          PROVE  /\ order[k] \in Sides /\ ~fires'[i].entered
                 /\ m > fires'[i].minute + Cooldown \/ m >= fires'[i].now + Cooldown
      <4>1. CASE i \in 1 .. old
        <5>1. fires'[i] = fires[i] /\ fires[i].side = order[k]
          BY <1>3, <3>3, <4>1
        <5>2. order[k] \in Sides
          <6>1. order[k] \notin Sides => MacroSignals(m) = {}
            BY <1>12, <4>1, <5>1
          <6> QED
            BY <1>7, <3>2, <6>1
        <5>3. /\ fires[i].entered => order[k] \in latched
              /\ \/ rearm[order[k]] > fires[i].minute + Cooldown
                 \/ rearm[order[k]] >= fires[i].now + Cooldown
          BY <4>1, <5>1, <5>2 DEF LaneInv, Held, old
        <5>4. order[k] \notin latched /\ m >= rearm[order[k]] /\ rearm[order[k]] \in Nat
          BY <1>7, <1>11, <3>2, <5>2
        <5>5. fires[i].minute \in Nat /\ fires[i].now \in Nat
          BY <1>5, <4>1
        <5>6. m > fires[i].minute + Cooldown \/ m >= fires[i].now + Cooldown
          <6>1. m \in Nat /\ Cooldown \in Nat
            BY <1>11
          <6> DEFINE r == rearm[order[k]]
                     a == fires[i].minute
                     b == fires[i].now
          <6>2. r \in Nat /\ m >= r /\ (r > a + Cooldown \/ r >= b + Cooldown)
            BY <5>3, <5>4
          <6>3. a \in Nat /\ b \in Nat
            BY <5>5
          <6> HIDE DEF r, a, b
          <6>4. m > a + Cooldown \/ m >= b + Cooldown
            BY <6>1, <6>2, <6>3, LaterStill
          <6> QED
            BY <6>4, Zenon DEF a, b
        <5> QED
          BY <5>1, <5>2, <5>3, <5>4, <5>6
      <4>2. CASE \E l \in 1 .. n : i = old + l
        <5>1. PICK l \in 1 .. n : i = old + l
          BY <4>2
        <5>2. order[l] = order[k]
          BY <1>3, <3>3, <5>1
        <5>3. l = k
          BY <1>6, <5>2
        <5> QED
          BY <1>3, <3>1, <3>3, <5>1, <5>3
      <4> QED
        BY <1>4, <4>1, <4>2
    <3>4. order[k] \notin Sides => m + 1 \notin Blackouts
      BY <1>7, <3>2
    <3> QED
      BY <3>2, <3>3, <3>4
  <2> QED
    BY <1>4, <2>1, <2>2
<1> QED
  BY <1>13, <1>14, <1>15, <1>16, <1>17, <1>18 DEF LaneInv

\* The tick's minute does not run back, and is not ahead of the clock.
LEMMA TimeGoesOn ==
  ASSUME TypeOK, [Next]_vars, tick <= clock
  PROVE  tick <= tick' /\ tick' <= clock'
  BY SMTT(30) DEF TypeOK, Next, Step, vars, ClockTicks, BeginTick, BackfillSkip, BackfillFails,
         BackfillLoads, SeedBar, SeedDone, PollNothing, RollOver, FormBar

\* What is handed over is a bar of a minute in session, and takes no time.
LEMMA HandedOver ==
  ASSUME TypeOK, Next, seen' # seen
  PROVE  /\ tick' = tick /\ clock' = clock
         /\ seen'[Len(seen')].minute \in Nat /\ InSession(seen'[Len(seen')].minute)
<1>1. \/ SeedBar \/ RollOver
  BY DEF Next, Step, ClockTicks, BeginTick, BackfillSkip, BackfillFails,
         BackfillLoads, SeedDone, PollNothing, FormBar
<1>2. PICK b \in Bar : HandOver(b)
  <2>1. CASE SeedBar
    <3>1. PICK m \in rest : HandOver(History(m))
      BY <2>1 DEF SeedBar
    <3> QED
      BY <3>1 DEF History, Bar, TypeOK
  <2>2. CASE RollOver
    <3>1. HandOver(Live(forming)) /\ forming \in Nat
      BY <2>2 DEF RollOver, TypeOK
    <3> QED
      BY <3>1 DEF Live, Bar
  <2> QED
    BY <1>1, <2>1, <2>2
<1>3. seen' = Append(seen, b) /\ InSession(b.minute)
  BY <1>2 DEF HandOver
<1>4. seen'[Len(seen')] = b
  BY <1>3 DEF TypeOK
<1> QED
  BY <1>1, <1>3, <1>4 DEF Bar, SeedBar, RollOver

LEMMA LaneStep == TypeOK /\ LaneInv /\ [DayNext]_<<vars, laneVars>> => LaneInv'
<1> SUFFICES ASSUME TypeOK, LaneInv, [DayNext]_<<vars, laneVars>> PROVE LaneInv'
  OBVIOUS
<1>1. CASE UNCHANGED laneVars /\ [Next]_vars
  <2>1. tick <= tick' /\ tick' <= clock'
    BY <1>1, TimeGoesOn DEF LaneInv, Heard
  <2>2. Heard'
    <3>1. \A i \in 1 .. Len(fires) : fires[i].now \in Nat
      <4>1. \A i \in 1 .. Len(fires) : fires[i] \in Fire
        BY DEF LaneInv, LaneType
      <4> QED
        BY <4>1 DEF Fire
    <3>2. tick \in Nat /\ tick' \in Nat
      BY <1>1 DEF TypeOK, Next, Step, vars, ClockTicks, BeginTick, BackfillSkip, BackfillFails,
         BackfillLoads, SeedBar, SeedDone, PollNothing, RollOver, FormBar
    <3> QED
      BY <1>1, <2>1, <3>1, <3>2 DEF LaneInv, Heard, laneVars
  <2> QED
    BY <1>1, <2>2 DEF LaneInv, LaneType, Held, HeldByAnswers, Reacted, SaidOnce, Earlier, laneVars
<1>2. CASE seen' # seen /\ Next /\ Hear(seen'[Len(seen')].minute)
  BY <1>2, HandedOver, HearKeeps
<1> QED
  BY <1>1, <1>2 DEF DayNext, Lanes, Next

LEMMA DayIsSpec == DaySpec => Spec
<1>1. DayInit => Init
  BY DEF DayInit
<1>2. [DayNext]_<<vars, laneVars>> => [Next]_vars
  BY DEF DayNext, Lanes, Next
<1> QED
  BY <1>1, <1>2, PTL DEF DaySpec, Spec

(* A lane does not speak twice for one move: with what was entered, with   *)
(* what was refused and with an answer that raised, and in whatever order  *)
(* live bars and a history handed over again come.                         *)
THEOREM LanesSpeakOnce == DaySpec => []SaidOnce
<1>1. DayInit => LaneInv
  BY LaneInitial DEF DayInit
<1>2. DaySpec => []LaneInv
  BY <1>1, LaneStep, DayIsSpec, BarsTypeCorrect, PTL DEF DaySpec
<1> QED
  BY <1>2, PTL DEF LaneInv

\* A break of a trend whose side nothing holds is a signal, and no answer to an
\* earlier lane comes before it.
LEMMA BreakIsSaid ==
  ASSUME TypeOK, LaneInv, DayNext, seen' # seen,
         NEW side \in Sides, TrendBreaks(seen'[Len(seen')].minute, side),
         \A i \in 1 .. Len(fires) : fires[i].side = side =>
           /\ ~fires[i].entered
           /\ fires[i].now + Cooldown <= seen'[Len(seen')].minute
           /\ fires[i].minute + Cooldown < seen'[Len(seen')].minute
  PROVE  \E i \in Len(fires) + 1 .. Len(fires') : fires'[i].side = side
<1> DEFINE m == seen'[Len(seen')].minute
<1>1. Next /\ Hear(m)
  BY DEF DayNext, Lanes, Next
<1>2. m \in Nat /\ InSession(m)
  BY <1>1, HandedOver
<1>3. TrendBreaks(m, side) /\ \A i \in 1 .. Len(fires) : fires[i].side = side =>
        ~fires[i].entered /\ fires[i].now + Cooldown <= m /\ fires[i].minute + Cooldown < m
  OBVIOUS
<1> HIDE DEF m
<1>4. Armed(side, m)
  <2>1. side \notin latched
    BY <1>3 DEF LaneInv, HeldByAnswers
  <2>2. m >= rearm[side]
    <3>1. CASE rearm[side] = 0
      BY <1>2, <3>1
    <3>2. CASE \E i \in 1 .. Len(fires) :
                 /\ fires[i].side = side
                 /\ rearm[side] \in {fires[i].now + Cooldown, fires[i].minute + Cooldown + 1}
      <4>1. PICK i \in 1 .. Len(fires) :
              /\ fires[i].side = side
              /\ rearm[side] \in {fires[i].now + Cooldown, fires[i].minute + Cooldown + 1}
        BY <3>2
      <4>2. fires[i] \in Fire
        BY DEF LaneInv, LaneType
      <4>3. fires[i].now \in Nat /\ fires[i].minute \in Nat
        BY <4>2 DEF Fire
      <4>4. fires[i].now + Cooldown <= m /\ fires[i].minute + Cooldown < m
        BY <1>3, <4>1
      <4> QED
        BY <1>2, <4>1, <4>3, <4>4, SMTT(30)
    <3> QED
      BY <3>1, <3>2 DEF LaneInv, HeldByAnswers
  <2> QED
    BY <2>1, <2>2 DEF Armed
<1>5. side \in Signals(m)
  <2>1. side = <<"index_trend", side[2]>> /\ side[2] \in Direction
    BY <1>3 DEF TrendBreaks, Sides
  <2>2. tape[m].close \in Int
    <3>1. tape \in Tapes /\ m \in OpenMinute .. CloseMinute - 1
      BY <1>2 DEF LaneInv, LaneType, InSession
    <3>2. m \in DOMAIN tape
      BY <3>1
    <3> QED
      BY <3>1, <3>2
  <2>3. side[2] = Toward(tape[m].close) /\ (tape[m].close > Noise \/ tape[m].close < -Noise)
    BY <1>3, <2>2 DEF TrendBreaks, Toward
  <2>4. TrendSignals(m) = {side}
    BY <1>3, <1>4, <2>1, <2>3 DEF TrendSignals, TrendBreaks
  <2> QED
    BY <2>4 DEF Signals
<1>6. PICK answer \in [Signals(m) -> Answers(m)], n \in Nat :
        \E order \in [1 .. n -> Out(m, answer)] : Said(m, answer, n, order)
  BY <1>1, <1>2, HearSays
<1>7. PICK order \in [1 .. n -> Out(m, answer)] : Said(m, answer, n, order)
  BY <1>6
<1>8. side \in Out(m, answer)
  <2>1. ~Cut(side[1], answer)
    BY <1>3 DEF TrendBreaks, Cut, Rank
  <2> QED
    BY <1>5, <2>1 DEF Out
<1>9. PICK k \in 1 .. n : order[k] = side
  BY <1>7, <1>8 DEF Said
<1>10. fires'[Len(fires) + k].side = side /\ Len(fires') = Len(fires) + n
  <2>1. fires'[Len(fires) + k] = [side |-> side, minute |-> m, now |-> tick,
                                  entered |-> IF answer[side] = "entered" THEN TRUE ELSE FALSE]
    BY <1>7, <1>9 DEF Said
  <2>2. \E e : fires'[Len(fires) + k] = [side |-> side, minute |-> m, now |-> tick, entered |-> e]
    BY <2>1
  <2>3. Len(fires') = Len(fires) + n
    BY <1>7 DEF Said
  <2> QED
    BY <2>2, <2>3
<1>11. Len(fires) + k \in Len(fires) + 1 .. Len(fires')
  <2>1. Len(fires) \in Nat
    BY DEF LaneInv, LaneType
  <2> QED
    BY <1>10, <2>1
<1> QED
  BY <1>10, <1>11

(* "A selector rejection no longer burns the day": a break that is handed  *)
(* over once every answer to its side has cooled down, none of them an     *)
(* entry, is a signal again.                                               *)
THEOREM BreaksAreNotBurned == DaySpec => NotBurned
<1> DEFINE Burned ==
      seen' # seen =>
       LET m == seen'[Len(seen')].minute
       IN  \A side \in Sides :
             /\ TrendBreaks(m, side)
             /\ \A i \in 1 .. Len(fires) : fires[i].side = side =>
                  /\ ~fires[i].entered
                  /\ fires[i].now + Cooldown <= m /\ fires[i].minute + Cooldown < m
             => \E i \in Len(fires) + 1 .. Len(fires') : fires'[i].side = side
<1>1. DayInit => LaneInv
  BY LaneInitial DEF DayInit
<1>2. DaySpec => [](TypeOK /\ LaneInv)
  BY <1>1, LaneStep, DayIsSpec, BarsTypeCorrect, PTL DEF DaySpec
<1>3. TypeOK /\ LaneInv /\ [DayNext]_<<vars, laneVars>> => [Burned]_<<vars, laneVars>>
  BY BreakIsSaid DEF DayNext
<1> QED
  BY <1>2, <1>3, PTL DEF DaySpec, NotBurned
=============================================================================
