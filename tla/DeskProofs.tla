----------------------------- MODULE DeskProofs -----------------------------
(***************************************************************************)
(* Proofs about what stands around the traders' desks: one shadow at a     *)
(* time, an outage is paged once, the owner stands informed (OptionsDay    *)
(* and AlertWatch), a name is only refused on a fresh halt (HaltWatch), a  *)
(* rescued event has its one row (CatalystBook), and no headline is left   *)
(* behind the cursor of a tap that has one source (NewsTap).               *)
(***************************************************************************)
EXTENDS AlertWatch, HaltWatch, CatalystBook, NewsTap,
        FiniteSetTheorems, NaturalsInduction, WellFoundedInduction, TLAPS

USE DayAssumption DEF DayAssumption

States == {"unborn", "checking", "taking", "running", "degraded", "exited"}

-----------------------------------------------------------------------------
(* The pid lock.  A ticking process is the one the lock names, and while a *)
(* process is between its check and its write no other is there and none   *)
(* ticks, unless two starts raced.                                         *)

Sole ==
  /\ \A p, q \in AtState("taking") : p = q
  /\ AtState("taking") # {} => Ticking = {}
  /\ \A p \in Ticking : lock = p

LockInv == proc \in [Pids -> States] /\ (raced \/ Sole)

LEMMA LockInitial == Init => LockInv
  BY DEF Init, LockInv, Sole, AtState, Ticking, States

\* A start that does not touch the lock and leaves no new ticker.
LEMMA QuietStep ==
  ASSUME LockInv, UNCHANGED <<lock, raced>>, proc' \in [Pids -> States],
         \A p \in Pids : proc'[p] # proc[p] => proc'[p] \in {"checking", "exited"}
  PROVE  LockInv'
<1>1. CASE raced
  BY <1>1 DEF LockInv
<1>2. CASE Sole
  <2>1. AtState("taking")' \subseteq AtState("taking")
    BY DEF AtState
  <2>2. Ticking' \subseteq Ticking
    BY DEF Ticking, AtState
  <2> QED
    BY <1>2, <2>1, <2>2 DEF LockInv, Sole
<1> QED
  BY <1>1, <1>2 DEF LockInv

LEMMA CheckStep == ASSUME LockInv, NEW p \in Pids, Check(p) PROVE LockInv'
<1> USE DEF LockInv
<1>1. proc[p] = "checking" /\ lock' = lock
  BY DEF Check
<1>2. CASE lock # None /\ lock # p /\ Alive(lock)
  <2>1. proc' = [proc EXCEPT ![p] = "exited"] /\ raced' = raced
    BY <1>2 DEF Check
  <2> QED
    BY <1>1, <2>1, QuietStep DEF States
<1>3. CASE ~(lock # None /\ lock # p /\ Alive(lock))
  <2>1. /\ proc' = [proc EXCEPT ![p] = "taking"]
        /\ raced' = (raced \/ AtState("taking") # {})
    BY <1>3 DEF Check
  <2>2. proc' \in [Pids -> States]
    BY <2>1 DEF States
  <2>3. CASE raced \/ AtState("taking") # {}
    <3>1. raced'
      BY <2>1, <2>3
    <3> QED
      BY <2>2, <3>1
  <2>4. CASE ~raced /\ AtState("taking") = {}
    <3>1. Ticking = {}
      <4> SUFFICES ASSUME NEW q \in Ticking PROVE FALSE
        OBVIOUS
      <4>1. q \in Pids /\ proc[q] \in {"running", "degraded"} /\ lock = q
        BY <2>4 DEF Sole, Ticking, AtState
      <4>2. q # p /\ Alive(q) /\ q # None
        BY <1>1, <4>1 DEF Alive
      <4> QED
        BY <1>3, <4>1, <4>2
    <3>2. AtState("taking")' = {p} /\ Ticking' = {}
      BY <2>1, <2>4, <3>1 DEF AtState, Ticking
    <3>3. Sole'
      BY <3>2 DEF Sole
    <3> QED
      BY <2>2, <3>3
  <2> QED
    BY <2>3, <2>4
<1> QED
  BY <1>2, <1>3

LEMMA TakeStep == ASSUME LockInv, NEW p \in Pids, Take(p) PROVE LockInv'
<1> USE DEF LockInv
<1>1. /\ proc[p] = "taking" /\ lock' = p /\ raced' = raced
      /\ \E mode \in {"running", "degraded"} : proc' = [proc EXCEPT ![p] = mode]
  BY DEF Take
<1>2. proc' \in [Pids -> States]
  BY <1>1 DEF States
<1>3. CASE raced
  BY <1>1, <1>2, <1>3
<1>4. CASE Sole
  <2>1. AtState("taking") = {p} /\ Ticking = {}
    BY <1>1, <1>4 DEF Sole, AtState
  <2>2. AtState("taking")' = {} /\ Ticking' = {p}
    BY <1>1, <2>1 DEF AtState, Ticking
  <2> QED
    BY <1>1, <1>2, <2>2 DEF Sole
<1> QED
  BY <1>3, <1>4

LEMMA ExitStep == ASSUME LockInv, NEW p \in Pids, Exit(p) PROVE LockInv'
<1> USE DEF LockInv
<1>1. proc' = [proc EXCEPT ![p] = "exited"] /\ raced' = raced
  BY DEF Exit
<1>2. CASE lock' = lock
  BY <1>1, <1>2, QuietStep DEF States
<1>3. CASE p \in Ticking /\ lock = p /\ lock' = None
  <2>1. CASE raced
    BY <1>1, <2>1 DEF States
  <2>2. CASE Sole
    <3>1. Ticking = {p} /\ AtState("taking") = {}
      BY <1>3, <2>2 DEF Sole
    <3>2. Ticking' = {} /\ AtState("taking")' = {}
      BY <1>1, <3>1 DEF Ticking, AtState
    <3> QED
      BY <1>1, <3>2 DEF Sole, States
  <2> QED
    BY <2>1, <2>2
<1> QED
  BY <1>2, <1>3 DEF Exit

LEMMA LockStep == LockInv /\ [Next]_vars => LockInv'
<1> SUFFICES ASSUME LockInv, [Next]_vars PROVE LockInv'
  OBVIOUS
<1>1. CASE DayStep
  <2>1. CASE \E p \in Pids : Spawned(p) /\ UNCHANGED <<lock, raced>>
    BY <2>1, QuietStep DEF Spawned, AtState, LockInv, States
  <2>2. CASE \E kids \in SUBSET Pids : Teardown(kids) /\ UNCHANGED <<lock, raced>>
    BY <2>2, QuietStep DEF Teardown, LockInv, States
  <2>3. CASE UNCHANGED <<proc, lock, raced>>
    BY <2>3, QuietStep DEF LockInv
  <2>4. CASE \E p \in Pids : Check(p) \/ Take(p) \/ Exit(p)
    BY <2>4, CheckStep, TakeStep, ExitStep
  <2>5. CASE \E denied \in BOOLEAN : StopAll(denied)
    <3>1. UNCHANGED <<lock, raced>>
      BY <2>5 DEF StopAll
    <3>2. \/ proc' = proc
          \/ proc' = [p \in Pids |-> IF Alive(p) THEN "exited" ELSE proc[p]]
      BY <2>5 DEF StopAll
    <3> QED
      BY <3>1, <3>2, QuietStep DEF LockInv, States
  <2>6. CASE Launch \/ Respawn \/ ByHand
    BY <2>1, <2>6 DEF Launch, Respawn, ByHand
  <2>7. CASE Abort \/ LoopEnds
    BY <2>2, <2>7 DEF Abort, LoopEnds, Children
  <2>8. CASE Boot \/ GiveUp \/ TapDies
    BY <2>3, <2>8 DEF Boot, GiveUp, TapDies
  <2> QED
    BY <1>1, <2>4, <2>5, <2>6, <2>7, <2>8 DEF DayStep
<1>2. CASE AlerterUp
  BY <1>2, QuietStep DEF AlerterUp, DayStays, LockInv
<1>3. CASE Polls
  BY <1>3, QuietStep DEF Polls, BeginPoll, Section, Outage, Recovery, ClearsSilently,
     Passes, DayStays, LockInv
<1>4. CASE AlerterDies
  BY <1>4, QuietStep DEF AlerterDies, DayStays, LockInv
<1>5. CASE MinutePasses
  BY <1>5, QuietStep DEF MinutePasses, LockInv
<1>6. CASE UNCHANGED vars
  BY <1>6, QuietStep DEF vars, dayVars, LockInv
<1> QED
  BY <1>1, <1>2, <1>3, <1>4, <1>5, <1>6 DEF Next

(* Unless two starts passed the check of the lock together, at most one     *)
(* shadow ticks.                                                            *)
THEOREM LockAdmitsOne == Spec => []OneShadow
<1>1. LockInv => OneShadow
  <2> SUFFICES ASSUME Sole PROVE Cardinality(Ticking) <= 1
    BY DEF LockInv, OneShadow
  <2>1. CASE Ticking = {}
    BY <2>1, FS_EmptySet
  <2>2. CASE Ticking # {}
    <3> PICK p \in Ticking : TRUE
      BY <2>2
    <3>1. Ticking = {p}
      BY DEF Sole
    <3> QED
      BY <3>1, FS_Singleton
  <2> QED
    BY <2>1, <2>2
<1>2. LockInv /\ [Next]_vars => LockInv'
  BY LockStep
<1> QED
  BY <1>1, <1>2, LockInitial, PTL DEF Spec
-----------------------------------------------------------------------------
(* The latches.  What the owner was told agrees with the latches on disk,  *)
(* and with those in memory while the alerter is up (Agrees): a page not   *)
(* heard or a latch not written leaves "unsure".  Within a poll, a watch   *)
(* whose section is over is latched exactly when it is in trouble          *)
(* (Judged); the heartbeats do not change while a poll runs.               *)

AlertTypes ==
  /\ alerter \in [pc : {"down", "idle", "polled"} \cup Watches, grace : Nat,
                  starts : Nat, losses : Nat]
  /\ st \in Latches /\ saved \in Latches \cup {None}
  /\ told \in [Watches -> {"up", "down", "unsure"}]

On(latches, w) == latches # None /\ latches.date = "today" /\ w \in latches.down

Agrees(latches) ==
  \A w \in Watches : /\ told[w] = "down" => On(latches, w)
                     /\ told[w] = "up" => ~On(latches, w)

Rightly(w) == Trouble(w) <=> w \in st.down

Judged ==
  Gated => /\ alerter.pc \in {"data", "flags"} => Rightly("shadow")
           /\ alerter.pc = "flags" => Rightly("data")

AlertInv ==
  /\ AlertTypes
  /\ Agrees(saved)
  /\ alerter.pc # "down" => Agrees(st)
  /\ alerter.pc \in Watches => st.date = "today"
  /\ Judged

LEMMA LatchesAreSomething == None \notin Latches
  BY AlertAssumption, Zenon DEF AlertAssumption

LEMMA AlertInitial == Init => AlertInv
<1> SUFFICES ASSUME Init PROVE AlertInv
  OBVIOUS
<1>1. AlertTypes
  BY DEF Init, AlertTypes, Latches, Fresh, Watches
<1>2. Agrees(saved)
  BY DEF Init, Agrees, On, Watches
<1>3. alerter.pc = "down"
  BY DEF Init
<1> QED
  BY <1>1, <1>2, <1>3 DEF AlertInv, Judged, Watches

\* What a section that comes to its end leaves.
Concluded(w) ==
  /\ alerter'.pc = After(w) /\ alerter'.grace = alerter.grace
  /\ st' \in {st, Latched(w), Cleared(w)}
  /\ Gated => (Trouble(w) <=> w \in st'.down)
  /\ saved' \in {saved, st'}
  /\ told'[w] = "down" => w \in st'.down /\ (saved' = st' \/ told'[w] = told[w])
  /\ told'[w] = "up" => w \notin st'.down /\ (saved' = st' \/ told'[w] = told[w])
  /\ \A v \in Watches \ {w} : told'[v] = told[v]

\* The alerter dies in a section.
Broken(w) ==
  /\ alerter'.pc = "down"
  /\ \/ saved' \in {saved, Cleared(w)}
     \/ \A v \in Watches : told'[v] = "unsure"
  /\ told'[w] = "unsure"
  /\ \A v \in Watches : told'[v] \in {told[v], "unsure"}

LEMMA LatchedIsLatches ==
  ASSUME AlertInv, NEW w \in Watches
  PROVE  /\ Latched(w) = [date |-> st.date, down |-> st.down \cup {w}]
         /\ Cleared(w) = [date |-> st.date, down |-> st.down \ {w}]
         /\ Latched(w) \in Latches /\ Cleared(w) \in Latches
<1>1. st \in [date : {"none", "yesterday", "today"}, down : SUBSET Watches]
  BY DEF AlertInv, AlertTypes, Latches
<1>2. Latched(w) = [date |-> st.date, down |-> st.down \cup {w}]
  BY <1>1 DEF Latched
<1>3. Cleared(w) = [date |-> st.date, down |-> st.down \ {w}]
  BY <1>1 DEF Cleared
<1> QED
  BY <1>1, <1>2, <1>3 DEF Latches

LEMMA MovesOn ==
  ASSUME AlertInv, NEW w \in Watches, NEW loss \in BOOLEAN, Moves(w, loss)
  PROVE  /\ alerter'.pc = After(w) /\ alerter'.grace = alerter.grace
         /\ alerter' \in [pc : {"down", "idle", "polled"} \cup Watches, grace : Nat,
                          starts : Nat, losses : Nat]
<1> DEFINE losses == IF loss THEN alerter.losses + 1 ELSE alerter.losses
<1>1. alerter' = [alerter EXCEPT !.pc = After(w), !.losses = losses]
  BY DEF Moves
<1>2. losses \in Nat
  BY DEF AlertInv, AlertTypes
<1>3. After(w) \in {"polled"} \cup Watches
  BY DEF After, Watches
<1> HIDE DEF losses
<1> QED
  BY <1>1, <1>2, <1>3 DEF AlertInv, AlertTypes

LEMMA DeadIsDown ==
  ASSUME AlertInv, Dead
  PROVE  /\ alerter'.pc = "down" /\ st' \in Latches
         /\ alerter' \in [pc : {"down", "idle", "polled"} \cup Watches, grace : Nat,
                          starts : Nat, losses : Nat]
  BY DEF AlertInv, AlertTypes, Dead, Fresh, Latches

\* A section comes to its end, or the alerter dies in it.
LEMMA SectionEnds ==
  ASSUME AlertInv, NEW w \in Watches, Section(w)
  PROVE  AlertTypes' /\ (Concluded(w) \/ Broken(w))
<1> USE LatchedIsLatches
<1>0. AlertTypes /\ Agrees(st) /\ st.date = "today" /\ alerter.pc = w
  BY DEF AlertInv, Section, Outage, Recovery, ClearsSilently, Passes, Watches
<1>1. ASSUME NEW news \in {"up", "down"}, NEW new \in {Latched(w), Cleared(w)},
             Announces(w, news, new), Gated => (Trouble(w) <=> w \in new.down),
             news = "down" <=> w \in new.down
      PROVE  AlertTypes' /\ Concluded(w)
  <2> PICK heard \in BOOLEAN, written \in BOOLEAN :
        /\ saved' = IF written THEN new ELSE saved
        /\ told' = [told EXCEPT ![w] = IF heard /\ written THEN news ELSE "unsure"]
        /\ Moves(w, ~(heard /\ written))
    BY <1>1 DEF Announces
  <2>1. st' = new
    BY <1>1 DEF Announces
  <2>2. /\ alerter'.pc = After(w) /\ alerter'.grace = alerter.grace
        /\ alerter' \in [pc : {"down", "idle", "polled"} \cup Watches, grace : Nat,
                         starts : Nat, losses : Nat]
    BY MovesOn
  <2>3. told' \in [Watches -> {"up", "down", "unsure"}]
    BY <1>0, <1>1 DEF AlertTypes
  <2>4. AlertTypes'
    BY <1>0, <1>1, <2>1, <2>2, <2>3 DEF AlertTypes
  <2>5. Concluded(w)
    BY <1>0, <1>1, <2>1, <2>2 DEF AlertTypes, Concluded
  <2> QED
    BY <2>4, <2>5
<1>2. ASSUME NEW news \in {"up", "down"}, DiesAnnouncing(w, news)
      PROVE  AlertTypes' /\ Broken(w)
  <2> PICK torn \in BOOLEAN :
        /\ saved' = IF torn THEN None ELSE saved
        /\ told' = [v \in Watches |-> IF torn \/ v = w THEN "unsure" ELSE told[v]]
    BY <1>2 DEF DiesAnnouncing
  <2>1. Dead
    BY <1>2 DEF DiesAnnouncing
  <2> QED
    BY <1>0, <2>1, DeadIsDown DEF AlertTypes, Broken
<1>3. ASSUME DiesClearing(w)
      PROVE  AlertTypes' /\ Broken(w)
  <2> PICK left \in {None, saved, Cleared(w)} :
        /\ saved' = left
        /\ told' = [v \in Watches |-> IF left = None \/ v = w THEN "unsure" ELSE told[v]]
    BY <1>3 DEF DiesClearing
  <2>1. Dead
    BY <1>3 DEF DiesClearing
  <2> QED
    BY <1>0, <2>1, DeadIsDown DEF AlertTypes, Broken
<1>4. CASE Outage(w)
  <2>1. Trouble(w) /\ w \in Latched(w).down
    BY <1>4 DEF Outage
  <2>2. Announces(w, "down", Latched(w)) \/ DiesAnnouncing(w, "down")
    BY <1>4 DEF Outage
  <2> QED
    BY <1>1, <1>2, <2>1, <2>2
<1>5. CASE Recovery(w)
  <2>1. ~Trouble(w) /\ w \notin Cleared(w).down
    BY <1>5 DEF Recovery
  <2>2. Announces(w, "up", Cleared(w)) \/ DiesAnnouncing(w, "up") \/ DiesClearing(w)
    BY <1>5 DEF Recovery
  <2> QED
    BY <1>1, <1>2, <1>3, <2>1, <2>2
<1>6. CASE ClearsSilently(w)
  <2>1. ~Trouble(w) /\ w \notin Cleared(w).down
    BY <1>6 DEF ClearsSilently
  <2>2. CASE ~DiesClearing(w)
    <3> PICK written \in BOOLEAN :
          /\ saved' = IF written THEN st' ELSE saved
          /\ told' = [told EXCEPT ![w] = IF written THEN "up" ELSE "unsure"]
          /\ Moves(w, ~written)
      BY <1>6, <2>2 DEF ClearsSilently
    <3>1. st' = Cleared(w)
      BY <1>6, <2>2 DEF ClearsSilently
    <3>2. /\ alerter'.pc = After(w) /\ alerter'.grace = alerter.grace
          /\ alerter' \in [pc : {"down", "idle", "polled"} \cup Watches, grace : Nat,
                           starts : Nat, losses : Nat]
      BY MovesOn
    <3>3. AlertTypes'
      BY <1>0, <3>1, <3>2 DEF AlertTypes
    <3>4. Concluded(w)
      BY <1>0, <2>1, <3>1, <3>2 DEF AlertTypes, Concluded
    <3> QED
      BY <3>3, <3>4
  <2> QED
    BY <1>3, <2>2
<1>7. CASE Passes(w)
  <2>1. /\ alerter'.pc = After(w) /\ alerter'.grace = alerter.grace
        /\ alerter' \in [pc : {"down", "idle", "polled"} \cup Watches, grace : Nat,
                         starts : Nat, losses : Nat]
    BY <1>7, MovesOn DEF Passes
  <2>2. UNCHANGED <<st, saved, told>> /\ (Gated => (Trouble(w) <=> w \in st.down))
    BY <1>7 DEF Passes
  <2>3. AlertTypes'
    BY <1>0, <2>1, <2>2 DEF AlertTypes
  <2>4. /\ told[w] = "down" => w \in st.down
        /\ told[w] = "up" => w \notin st.down
    BY <1>0, LatchesAreSomething DEF AlertTypes, Agrees, On
  <2>5. Concluded(w)
    BY <2>1, <2>2, <2>4 DEF Concluded
  <2> QED
    BY <2>3, <2>5
<1> QED
  BY <1>4, <1>5, <1>6, <1>7 DEF Section

\* While a poll runs, neither a heartbeat nor the minute changes.
LEMMA NothingElseMoves ==
  ASSUME NEW w \in Watches, Section(w)
  PROVE  UNCHANGED <<minute, launcher, beat>>
  BY DEF Section, Outage, Recovery, ClearsSilently, Passes, DayStays

LEMMA TroubleStays ==
  ASSUME UNCHANGED beat, UNCHANGED minute, NEW w \in Watches
  PROVE  Trouble(w)' <=> Trouble(w)
  BY DEF Trouble, DataDead, Watches

\* A section leaves the latches of the other watches alone.
LEMMA OthersStay ==
  ASSUME AlertInv, NEW w \in Watches, Concluded(w)
  PROVE  /\ st'.date = st.date
         /\ \A v \in Watches \ {w} : v \in st'.down <=> v \in st.down
  BY LatchedIsLatches DEF Concluded

LEMMA ConcludedKeeps ==
  ASSUME AlertInv, NEW w \in Watches, Section(w), Concluded(w), AlertTypes'
  PROVE  AlertInv'
<1>1. Agrees(st) /\ Agrees(saved) /\ st.date = "today" /\ alerter.pc = w
  BY DEF AlertInv, Section, Outage, Recovery, ClearsSilently, Passes, Watches
<1>2. st' # None
  BY LatchesAreSomething DEF AlertTypes
<1>3. st'.date = "today" /\ \A v \in Watches \ {w} : v \in st'.down <=> v \in st.down
  BY <1>1, OthersStay
<1>4. \A v \in Watches \ {w} : On(st, v) <=> On(st', v)
  BY <1>1, <1>2, <1>3, LatchesAreSomething DEF On, AlertInv, AlertTypes
<1>5. On(st', w) <=> w \in st'.down
  BY <1>2, <1>3 DEF On
<1>6. Agrees(st)'
  BY <1>1, <1>4, <1>5 DEF Agrees, Concluded, On
<1>7. Agrees(saved)'
  <2>1. CASE saved' = st'
    BY <1>6, <2>1 DEF Agrees, On
  <2>2. CASE saved' # st'
    <3>1. saved' = saved
      BY <2>2 DEF Concluded
    <3>2. told'[w] \in {"up", "down"} => told'[w] = told[w]
      BY <2>2 DEF Concluded
    <3>3. \A v \in Watches : told'[v] \in {"up", "down"} => told'[v] = told[v]
      BY <3>2 DEF Concluded
    <3> QED
      BY <1>1, <3>1, <3>3 DEF Agrees, On
  <2> QED
    BY <2>1, <2>2
<1>8. Judged'
  <2>1. UNCHANGED <<minute, beat>> /\ alerter'.grace = alerter.grace
    BY NothingElseMoves DEF Concluded
  <2>2. Gated' <=> Gated
    BY <2>1 DEF Gated
  <2>3. \A v \in Watches : Trouble(v)' <=> Trouble(v)
    BY <2>1, TroubleStays
  <2>4. Gated => Rightly(w)'
    BY <2>3 DEF Concluded, Rightly
  <2>5. \A v \in Watches \ {w} : Rightly(v) => Rightly(v)'
    BY <1>3, <2>3 DEF Rightly
  <2>6. alerter'.pc = After(w)
    BY DEF Concluded
  <2>7. CASE w = "shadow"
    BY <2>2, <2>4, <2>6, <2>7 DEF Judged, After
  <2>8. CASE w = "data"
    BY <1>1, <2>2, <2>4, <2>5, <2>6, <2>8 DEF Judged, After, AlertInv, Watches
  <2>9. CASE w = "flags"
    BY <2>6, <2>9 DEF Judged, After
  <2> QED
    BY <2>7, <2>8, <2>9 DEF Watches
<1> QED
  BY <1>3, <1>6, <1>7, <1>8 DEF AlertInv

LEMMA BrokenKeeps ==
  ASSUME AlertInv, NEW w \in Watches, Section(w), Broken(w), AlertTypes'
  PROVE  AlertInv'
<1>1. Agrees(st) /\ Agrees(saved) /\ st.date = "today"
  BY DEF AlertInv, Section, Outage, Recovery, ClearsSilently, Passes, Watches
<1>2. Agrees(saved)'
  <2>1. CASE saved' = saved
    BY <1>1, <2>1 DEF Agrees, Broken, On
  <2>2. CASE saved' = Cleared(w)
    <3>1. \A v \in Watches \ {w} : On(Cleared(w), v) <=> On(st, v)
      BY LatchedIsLatches, LatchesAreSomething DEF On, AlertInv, AlertTypes
    <3> QED
      BY <1>1, <2>2, <3>1 DEF Agrees, Broken, On
  <2>3. CASE \A v \in Watches : told'[v] = "unsure"
    BY <2>3 DEF Agrees
  <2> QED
    BY <2>1, <2>2, <2>3 DEF Broken
<1>3. alerter'.pc = "down"
  BY DEF Broken
<1> QED
  BY <1>2, <1>3 DEF AlertInv, Judged, Watches

LEMMA AlertStep == AlertInv /\ [Next]_vars => AlertInv'
<1> SUFFICES ASSUME AlertInv, [Next]_vars PROVE AlertInv'
  OBVIOUS
<1> DEFINE Alerter == [pc : {"down", "idle", "polled"} \cup Watches, grace : Nat,
                       starts : Nat, losses : Nat]
<1>1. ASSUME alerter'.pc = "down", alerter' \in Alerter, st' \in Latches,
             UNCHANGED <<saved, told>>
      PROVE  AlertInv'
  <2>1. AlertTypes' /\ Agrees(saved)'
    BY <1>1 DEF AlertInv, AlertTypes, Agrees, On
  <2> QED
    BY <1>1, <2>1 DEF AlertInv, Judged, Watches
<1>2. CASE DayStep
  <2>1. UNCHANGED <<saved, told>>
    BY <1>2 DEF DayStep
  <2>2. CASE Dead
    BY <1>1, <2>1, <2>2, DeadIsDown
  <2>3. CASE UNCHANGED <<alerter, st>>
    <3>1. alerter.pc \in {"down", "idle"}
      BY <1>2 DEF DayStep, Between
    <3>2. AlertTypes' /\ Agrees(saved)' /\ (alerter'.pc # "down" => Agrees(st)')
      BY <2>1, <2>3 DEF AlertInv, AlertTypes, Agrees, On
    <3> QED
      BY <2>3, <3>1, <3>2 DEF AlertInv, Judged, Watches
  <2> QED
    BY <1>2, <2>2, <2>3 DEF DayStep
<1>3. CASE AlerterUp
  <2>1. /\ alerter' = [alerter EXCEPT !.pc = "idle", !.grace = Grace, !.starts = @ + 1]
        /\ st' = IF saved = None THEN Fresh("none") ELSE saved
        /\ UNCHANGED <<saved, told>>
    BY <1>3 DEF AlerterUp
  <2>2. alerter' \in Alerter /\ alerter'.pc = "idle"
    <3>1. Grace \in Nat /\ alerter.starts + 1 \in Nat
      BY AlertAssumption DEF AlertAssumption, AlertInv, AlertTypes
    <3> QED
      BY <2>1, <3>1 DEF AlertInv, AlertTypes
  <2>3. st' \in Latches
    BY <2>1 DEF AlertInv, AlertTypes, Fresh, Latches
  <2>4. Agrees(saved)' /\ Agrees(st)'
    <3>1. Agrees(saved)'
      BY <2>1 DEF AlertInv, Agrees, On
    <3>2. CASE saved = None
      BY <2>1, <3>2 DEF AlertInv, Agrees, On, Fresh
    <3>3. CASE saved # None
      BY <2>1, <3>1, <3>3 DEF Agrees, On
    <3> QED
      BY <3>1, <3>2, <3>3
  <2>5. AlertTypes'
    BY <2>1, <2>2, <2>3 DEF AlertInv, AlertTypes
  <2> QED
    BY <2>2, <2>4, <2>5 DEF AlertInv, Judged, Watches
<1>4. CASE BeginPoll
  <2>1. alerter' = [alerter EXCEPT !.pc = "shadow"] /\ alerter.pc = "idle" /\ told' = told
    BY <1>4 DEF BeginPoll
  <2>2. alerter' \in Alerter /\ alerter'.pc = "shadow"
    BY <2>1 DEF AlertInv, AlertTypes, Watches
  <2>3. CASE st.date = "today"
    <3>1. UNCHANGED <<st, saved>>
      BY <1>4, <2>3 DEF BeginPoll
    <3>2. AlertTypes' /\ Agrees(saved)' /\ Agrees(st)'
      BY <2>1, <2>2, <3>1 DEF AlertInv, AlertTypes, Agrees, On
    <3> QED
      BY <2>2, <2>3, <3>1, <3>2 DEF AlertInv, Judged
  <2>4. CASE st.date # "today"
    <3>1. st' = Fresh("today") /\ saved' \in {saved, Fresh("today")}
      BY <1>4, <2>4 DEF BeginPoll
    <3>2. Fresh("today") \in Latches
      BY DEF Fresh, Latches
    <3>3. \A w \in Watches : told[w] # "down" /\ ~On(Fresh("today"), w)
      BY <2>1, <2>4 DEF AlertInv, Agrees, On, Fresh
    <3>4. AlertTypes'
      BY <2>1, <2>2, <3>1, <3>2 DEF AlertInv, AlertTypes
    <3>5. Agrees(st)'
      BY <2>1, <3>1, <3>3 DEF Agrees, On
    <3>6. Agrees(saved)'
      BY <2>1, <3>1, <3>3 DEF AlertInv, Agrees, On
    <3>7. st'.date = "today"
      BY <3>1 DEF Fresh
    <3> QED
      BY <2>2, <3>4, <3>5, <3>6, <3>7 DEF AlertInv, Judged
  <2> QED
    BY <2>3, <2>4
<1>5. CASE \E w \in Watches : Section(w)
  BY <1>5, SectionEnds, ConcludedKeeps, BrokenKeeps
<1>6. CASE AlerterDies
  BY <1>1, <1>6, DeadIsDown DEF AlerterDies
<1>7. CASE MinutePasses
  <2>1. /\ alerter.pc \in {"down", "polled"} /\ UNCHANGED <<st, saved, told>>
        /\ alerter' = [alerter EXCEPT !.pc = IF @ = "polled" THEN "idle" ELSE @,
                                      !.grace = IF @ > 0 THEN @ - 1 ELSE 0]
    BY <1>7 DEF MinutePasses
  <2>2. /\ alerter' \in Alerter /\ alerter'.pc \in {"down", "idle"}
        /\ alerter'.pc # "down" => alerter.pc # "down"
    <3> DEFINE grace == IF alerter.grace > 0 THEN alerter.grace - 1 ELSE 0
               pc    == IF alerter.pc = "polled" THEN "idle" ELSE alerter.pc
    <3>1. alerter' = [alerter EXCEPT !.pc = pc, !.grace = grace]
      BY <2>1
    <3>2. grace \in Nat
      BY DEF AlertInv, AlertTypes
    <3>3. pc \in {"down", "idle"} /\ (pc # "down" => alerter.pc # "down")
      BY <2>1
    <3> HIDE DEF grace, pc
    <3> QED
      BY <3>1, <3>2, <3>3 DEF AlertInv, AlertTypes
  <2>3. AlertTypes' /\ Agrees(saved)' /\ (alerter'.pc # "down" => Agrees(st)')
    BY <2>1, <2>2 DEF AlertInv, AlertTypes, Agrees, On
  <2> QED
    BY <2>2, <2>3 DEF AlertInv, Judged, Watches
<1>8. CASE UNCHANGED vars
  <2>1. UNCHANGED <<alerter, st, saved, told, minute, beat>>
    BY <1>8 DEF vars, dayVars
  <2> QED
    BY <2>1 DEF AlertInv, AlertTypes, Agrees, On, Judged, Gated, Rightly, Trouble, DataDead
<1> QED
  BY <1>2, <1>3, <1>4, <1>5, <1>6, <1>7, <1>8 DEF Next, Polls

LEMMA AlertInvHolds == Spec => []AlertInv
<1>1. AlertInv /\ [Next]_vars => AlertInv'
  BY AlertStep
<1> QED
  BY <1>1, AlertInitial, PTL DEF Spec

-----------------------------------------------------------------------------
LEMMA PageIsSomething == \A w \in Watches : None # Page(w, "down")
<1> SUFFICES ASSUME NEW w \in Watches, None = Page(w, "down") PROVE FALSE
  OBVIOUS
<1>1. Page(w, "down") \in Pages
  BY DEF Page, Pages, Watches
<1>2. None \notin Pages
  BY DayAssumption, Zenon DEF DayAssumption
<1> QED
  BY <1>1, <1>2, Zenon

LEMMA DayPagesOther ==
  ASSUME Next, NEW w \in Watches, page' = Page(w, "down")
  PROVE  \E v \in Watches : Section(v)
<1>1. CASE DayStep
  <2>1. page' \in {None, Page("day", "aborted"), Page("day", "down for the day")}
    BY <1>1 DEF DayStep, Launch, Abort, Boot, LoopEnds, Respawn, GiveUp, TapDies, ByHand,
       Check, Take, Exit
  <2> QED
    BY <2>1, PageIsSomething DEF Page, Watches
<1>2. CASE AlerterUp \/ BeginPoll \/ AlerterDies \/ MinutePasses
  BY <1>2, PageIsSomething DEF AlerterUp, BeginPoll, AlerterDies, MinutePasses
<1> QED
  BY <1>1, <1>2 DEF Next, Polls

(* The alerter does not page an outage the owner was already told of,       *)
(* however often it dies, is started again or loses a page or a file.       *)
THEOREM OutageIsPagedOnce == Spec => PagedOnce
<1>1. AlertInv /\ [Next]_vars =>
        [\A w \in Watches : page' = Page(w, "down") => told[w] # "down"]_vars
  <2> SUFFICES ASSUME AlertInv, Next, NEW w \in Watches, page' = Page(w, "down")
               PROVE  told[w] # "down"
    OBVIOUS
  <2> PICK v \in Watches : Section(v)
    BY DayPagesOther
  <2>1. Outage(v) /\ v = w
    <3>1. page' # None
      BY PageIsSomething
    <3>2. ~Passes(v) /\ ~ClearsSilently(v)
      BY <3>1 DEF Passes, ClearsSilently, DiesClearing
    <3>3. ~Recovery(v)
      BY <3>1 DEF Recovery, Announces, DiesAnnouncing, DiesClearing, Page
    <3>4. Outage(v)
      BY <3>2, <3>3 DEF Section
    <3>5. page' = Page(v, "down")
      BY <3>4 DEF Outage, Announces, DiesAnnouncing
    <3> QED
      BY <3>4, <3>5 DEF Page
  <2>2. w \notin st.down /\ alerter.pc = w
    BY <2>1 DEF Outage
  <2> QED
    BY <2>2 DEF AlertInv, Agrees, On, Watches
<1> QED
  BY <1>1, AlertInvHolds, PTL DEF Spec, PagedOnce

(* After every poll each watch is told as it stands, unless a page or a     *)
(* latch was lost on the way.                                               *)
THEOREM OwnerStaysInformed == Spec => OwnerKnows
<1> DEFINE Informed ==
      alerter.pc = "flags" /\ alerter'.pc = "polled" /\ Gated
      => \A w \in Watches :
           told'[w] # "unsure" => (Trouble(w) <=> told'[w] = "down")
<1>1. AlertInv /\ AlertInv' /\ [Next]_vars => [Informed]_vars
  <2> SUFFICES ASSUME AlertInv, AlertInv', Next,
                      alerter.pc = "flags", alerter'.pc = "polled", Gated,
                      NEW w \in Watches, told'[w] # "unsure"
               PROVE  Trouble(w) <=> told'[w] = "down"
    OBVIOUS
  <2>1. Section("flags")
    <3>1. ~DayStep
      BY DEF DayStep, Between
    <3>2. ~AlerterUp /\ ~BeginPoll /\ ~MinutePasses
      BY DEF AlerterUp, BeginPoll, MinutePasses
    <3>3. ~AlerterDies
      BY DeadIsDown DEF AlerterDies
    <3>4. PICK v \in Watches : Section(v)
      BY <3>1, <3>2, <3>3 DEF Next, Polls
    <3>5. alerter.pc = v
      BY <3>4 DEF Section, Outage, Recovery, ClearsSilently, Passes
    <3> QED
      BY <3>4, <3>5
  <2>2. Concluded("flags")
    BY <2>1, SectionEnds DEF Broken, Watches
  <2>3. \A v \in Watches \ {"flags"} : v \in st'.down <=> v \in st.down
    BY <2>2, OthersStay DEF Watches
  <2>4. Trouble(w) <=> w \in st'.down
    <3>1. CASE w = "flags"
      BY <2>2, <3>1 DEF Concluded
    <3>2. CASE w # "flags"
      BY <2>3, <3>2 DEF AlertInv, Judged, Rightly, Watches
    <3> QED
      BY <3>1, <3>2
  <2>5. st'.date = "today"
    BY <2>2, OthersStay DEF AlertInv, Watches
  <2>6. On(st', w) <=> w \in st'.down
    BY <2>5, LatchesAreSomething DEF On, AlertInv, AlertTypes
  <2>7. told'[w] \in {"up", "down"}
    BY DEF AlertInv, AlertTypes
  <2>8. /\ told'[w] = "down" => On(st', w)
        /\ told'[w] = "up" => ~On(st', w)
    BY DEF AlertInv, Agrees, On
  <2> QED
    BY <2>4, <2>6, <2>7, <2>8
<1> QED
  BY <1>1, AlertInvHolds, PTL DEF Spec, OwnerKnows

-----------------------------------------------------------------------------
(* Halts.  What the poller or the file holds of a name is never newer than *)
(* the name's last halt (NoNewer): that survives any failed fetch, lost *)
(* write or restart, and the freshness of a refusal follows, since a       *)
(* refusal is by a fresh stamp.                                            *)

USE HaltAssumption DEF HaltAssumption

Moment == 0 .. Never

TypeOK ==
  /\ tick \in 0 .. LastTick
  /\ halted \subseteq Name
  /\ since \in [Name -> Moment] /\ state \in [Name -> Moment]
  /\ poller \in [pc : {"down", "poll", "wait"}, halts : [Name -> Moment],
                 fails : Nat, until : Nat]

\* a stamp of a name is no newer than its last halt, which has happened
NoNewer(stamps) ==
  \A n \in Name : stamps[n] # Never => stamps[n] <= since[n] /\ since[n] <= tick

HaltInv ==
  /\ TypeOK
  /\ \A n \in halted : since[n] = tick
  /\ \A n \in Name : since[n] = Never \/ since[n] <= tick
  /\ NoNewer(state) /\ NoNewer(poller.halts)

LEMMA HaltInitial == HWInit => HaltInv
<1> SUFFICES ASSUME HWInit PROVE HaltInv
  OBVIOUS
<1> USE DEF HWInit, NoHalts, Stopped, Moment, Never
<1>1. TypeOK
  BY DEF TypeOK
<1> QED
  BY <1>1 DEF HaltInv, NoNewer

\* What is on hand for publication after an attempt is no newer either.
LEMMA AttemptIsHonest ==
  ASSUME HaltInv, NEW next \in Attempted
  PROVE  /\ next \in [pc : {"down", "poll", "wait"}, halts : [Name -> Moment],
                      fails : Nat, until : Nat]
         /\ NoNewer(next.halts)
<1> USE DEF HaltInv, TypeOK
<1>1. CASE next = poller
  BY <1>1
<1>2. CASE next = [poller EXCEPT !.halts = Fetched, !.fails = 0]
  <2>1. Fetched \in [Name -> Moment]
    BY DEF Fetched, Moment, Never
  <2>2. NoNewer(Fetched)
    BY DEF Fetched, NoNewer
  <2> QED
    BY <1>2, <2>1, <2>2
<1>3. CASE next = Failed(poller)
  <2>1. CASE poller.fails + 1 >= Failures
    <3>1. next = [poller EXCEPT !.fails = 0, !.until = tick + Cooldown]
      BY <1>3, <2>1 DEF Failed
    <3>2. LastTick \in Nat /\ Cooldown \in Nat
      OBVIOUS
    <3>3. tick + Cooldown \in Nat
      BY <3>2
    <3> QED
      BY <3>1, <3>3
  <2>2. CASE ~(poller.fails + 1 >= Failures)
    <3>1. next = [poller EXCEPT !.fails = @ + 1]
      BY <1>3, <2>2 DEF Failed
    <3> QED
      BY <3>1
  <2> QED
    BY <2>1, <2>2
<1> QED
  BY <1>1, <1>2, <1>3 DEF Attempted

LEMMA HaltStep == HaltInv /\ [HWNext]_hwVars => HaltInv'
<1> SUFFICES ASSUME HaltInv, [HWNext]_hwVars PROVE HaltInv'
  OBVIOUS
<1>1. CASE TickPasses
  <2> PICK names \in SUBSET Name :
        /\ halted' = names
        /\ since' = [n \in Name |-> IF n \in names THEN tick' ELSE since[n]]
    BY <1>1 DEF TickPasses
  <2>1. tick' = tick + 1 /\ tick' \in 0 .. LastTick /\ state' = state
    BY <1>1 DEF TickPasses, HaltInv, TypeOK
  <2>2. /\ poller'.halts = poller.halts
        /\ poller' \in [pc : {"down", "poll", "wait"}, halts : [Name -> Moment],
                        fails : Nat, until : Nat]
    BY <1>1 DEF TickPasses, HaltInv, TypeOK
  <2>3. since' \in [Name -> Moment]
    BY <2>1 DEF HaltInv, TypeOK, Moment, Never
  <2>4. TypeOK'
    BY <2>1, <2>2, <2>3 DEF HaltInv, TypeOK, Moment, Never
  <2>5. \A n \in Name : since'[n] = Never \/ since'[n] <= tick'
    BY <2>1 DEF HaltInv, TypeOK, Moment, Never
  <2>6. NoNewer(state)' /\ NoNewer(poller.halts)'
    BY <2>1, <2>2 DEF HaltInv, NoNewer, TypeOK, Moment, Never
  <2> QED
    BY <2>1, <2>4, <2>5, <2>6 DEF HaltInv
<1>2. CASE PollerUp
  <2>1. NoHalts \in [Name -> Moment] /\ NoNewer(NoHalts)
    BY DEF NoHalts, NoNewer, Moment, Never
  <2> PICK read \in {state, NoHalts} :
        poller' = [Stopped EXCEPT !.pc = "poll", !.halts = read]
    BY <1>2 DEF PollerUp
  <2>2. UNCHANGED <<tick, halted, since, state>>
    BY <1>2 DEF PollerUp
  <2>3. read \in [Name -> Moment] /\ NoNewer(read)
    BY <2>1 DEF HaltInv, TypeOK
  <2>4. poller' = [pc |-> "poll", halts |-> read, fails |-> 0, until |-> 0]
    BY DEF Stopped
  <2> QED
    BY <2>2, <2>3, <2>4 DEF HaltInv, TypeOK, NoNewer
<1>3. CASE PollerDies
  <2>1. NoHalts \in [Name -> Moment] /\ NoNewer(NoHalts)
    BY DEF NoHalts, NoNewer, Moment, Never
  <2> QED
    BY <1>3, <2>1 DEF PollerDies, HaltInv, TypeOK, NoNewer, Stopped
<1>4. CASE Poll
  <2> PICK next \in Attempted :
        poller' = [next EXCEPT !.pc = "wait"] /\ state' \in {state, next.halts}
    BY <1>4 DEF Poll
  <2>1. /\ next \in [pc : {"down", "poll", "wait"}, halts : [Name -> Moment],
                     fails : Nat, until : Nat]
        /\ NoNewer(next.halts)
    BY AttemptIsHonest
  <2>2. UNCHANGED <<tick, halted, since>>
    BY <1>4 DEF Poll
  <2>3. /\ poller' \in [pc : {"down", "poll", "wait"}, halts : [Name -> Moment],
                        fails : Nat, until : Nat]
        /\ poller'.halts = next.halts
    BY <2>1
  <2> QED
    BY <2>1, <2>2, <2>3 DEF HaltInv, TypeOK, NoNewer
<1>5. CASE UNCHANGED hwVars
  BY <1>5 DEF hwVars, HaltInv, TypeOK, NoNewer
<1> QED
  BY <1>1, <1>2, <1>3, <1>4, <1>5 DEF HWNext

(* A name is refused only on a halt of the last max_age_s, for any feed,    *)
(* breaker, restart and lost write.                                         *)
THEOREM RefusalIsFresh == HWSpec => []HaltIsFresh
<1>1. HaltInv => HaltIsFresh
  BY DEF HaltInv, TypeOK, NoNewer, HaltIsFresh, Refused, Moment, Never
<1>2. HaltInv /\ [HWNext]_hwVars => HaltInv'
  BY HaltStep
<1> QED
  BY <1>1, <1>2, HaltInitial, PTL DEF HWSpec

-----------------------------------------------------------------------------
(* The archive.  A row of an event that is not on the list the next save    *)
(* will write was paid for by a lapse; the row of one that is on it is the  *)
(* one it may have.                                                         *)

Shaped ==
  archiver = Idle \/
    /\ archiver = [pc |-> archiver.pc, fresh |-> archiver.fresh, known |-> archiver.known]
    /\ archiver.pc \in {"append", "save"}

\* every row of such an event was paid for
Paid(listed) == \A e \in Event \ listed : archive[e] <= lapses

RescueInv ==
  /\ archive \in [Event -> Nat] /\ lapses \in Nat /\ Shaped
  /\ \A e \in Event : archive[e] <= 1 + lapses
  /\ \A e \in Event \cap rescued : archive[e] > 0
  /\ archiver = Idle => Paid(rescued)
  /\ archiver # Idle =>
       /\ \A e \in Event \cap archiver.known : archive[e] > 0
       /\ Paid(archiver.known)
  /\ archiver.pc = "append" =>
       /\ archiver.fresh \cap archiver.known = {}
       /\ Paid(rescued)
  /\ archiver.pc = "save" =>
       /\ archiver.fresh \subseteq archiver.known
       /\ archiver.fresh = {} => Paid(rescued)
       /\ \A e \in Event \ rescued : archive[e] <= lapses \/ e \in archiver.fresh

LEMMA RescueInitial == CBInit => RescueInv
  BY DEF CBInit, RescueInv, Shaped, Idle, Paid

LEMMA RescueStep == RescueInv /\ [CBNext]_cbVars => RescueInv'
<1> SUFFICES ASSUME RescueInv, [CBNext]_cbVars PROVE RescueInv'
  OBVIOUS
<1> USE DEF RescueInv, Paid, Shaped
<1>1. CASE UNCHANGED <<archive, rescued, archiver, lapses>>
  BY <1>1
<1>2. CASE ArchiverReads
  <2>0. archiver = Idle
    BY <1>2 DEF ArchiverReads
  <2> PICK known \in {rescued, {}} :
        /\ archiver' = [pc |-> "append", fresh |-> FreshOf(known), known |-> known]
        /\ IF known = rescued THEN UNCHANGED lapses ELSE Lapse
    BY <1>2 DEF ArchiverReads
  <2>1. UNCHANGED <<archive, rescued>>
    BY <1>2 DEF ArchiverReads
  <2>2. archiver'.pc = "append" /\ archiver'.known = known
        /\ archiver'.fresh = FreshOf(known) /\ archiver' # Idle
    BY DEF Idle
  <2>3. FreshOf(known) \cap known = {}
    BY DEF FreshOf
  <2>4. CASE known = rescued
    BY <2>0, <2>1, <2>2, <2>3, <2>4
  <2>5. CASE known # rescued
    <3>1. lapses' = lapses + 1 /\ known = {}
      BY <2>5 DEF Lapse
    <3>2. \A e \in Event : archive'[e] <= lapses'
      BY <2>1, <3>1
    <3>3. Paid(rescued)' /\ Paid(archiver.known)' /\ (\A e \in Event : archive'[e] <= 1 + lapses')
      BY <2>1, <3>1, <3>2
    <3>4. (\A e \in Event \cap rescued' : archive'[e] > 0)
          /\ \A e \in Event \cap archiver'.known : archive'[e] > 0
      BY <2>1, <2>2, <3>1
    <3>5. Shaped' /\ archive' \in [Event -> Nat] /\ lapses' \in Nat
      BY <2>1, <2>2, <3>1
    <3> HIDE DEF Paid, Shaped
    <3> QED
      BY <2>2, <2>3, <3>3, <3>4, <3>5
  <2> QED
    BY <2>4, <2>5
<1>3. CASE ArchiverAppends
  <2>1. /\ archiver.pc = "append" /\ archiver # Idle
        /\ archive' = Appended(archiver.fresh)
        /\ archiver' = [pc |-> "save", fresh |-> archiver.fresh,
                        known |-> archiver.known \cup archiver.fresh]
        /\ UNCHANGED <<rescued, lapses>>
    <3>1. archiver.pc = "append" /\ archiver # Idle /\ archive' = Appended(archiver.fresh)
          /\ UNCHANGED <<rescued, lapses>>
      BY <1>3 DEF ArchiverAppends, Idle
    <3>2. archiver = [pc |-> archiver.pc, fresh |-> archiver.fresh, known |-> archiver.known]
      BY <3>1
    <3>3. archiver' = [archiver EXCEPT !.pc = "save", !.known = @ \cup archiver.fresh]
      BY <1>3 DEF ArchiverAppends
    <3>4. archiver' = [pc |-> "save", fresh |-> archiver.fresh,
                       known |-> archiver.known \cup archiver.fresh]
      BY <3>2, <3>3
    <3> QED
      BY <3>1, <3>4
  <2>2. \A e \in Event : archive'[e] = IF e \in archiver.fresh THEN archive[e] + 1 ELSE archive[e]
    BY <2>1 DEF Appended
  <2>3. archive' \in [Event -> Nat]
    BY <2>1 DEF Appended
  <2>4. archiver'.pc = "save" /\ archiver' # Idle /\ archiver'.fresh = archiver.fresh
        /\ archiver'.known = archiver.known \cup archiver.fresh
    BY <2>1 DEF Idle
  <2> QED
    BY <2>1, <2>2, <2>3, <2>4
<1>4. CASE AppendBreaks
  <2> PICK landed \in SUBSET archiver.fresh :
        archive' = Appended(landed) /\ IF landed = {} THEN UNCHANGED lapses ELSE Lapse
    BY <1>4 DEF AppendBreaks
  <2>1. archiver.pc = "append" /\ archiver # Idle /\ archiver' = Idle /\ UNCHANGED rescued
    BY <1>4 DEF AppendBreaks, Idle
  <2>2. \A e \in Event : archive'[e] = IF e \in landed THEN archive[e] + 1 ELSE archive[e]
    BY DEF Appended
  <2>3. archive' \in [Event -> Nat]
    BY DEF Appended
  <2>4. archiver'.pc = "idle"
    BY <2>1 DEF Idle
  <2>5. CASE landed = {}
    BY <2>1, <2>2, <2>3, <2>4, <2>5
  <2>6. CASE landed # {}
    <3>1. lapses' = lapses + 1
      BY <2>6 DEF Lapse
    <3> QED
      BY <2>1, <2>2, <2>3, <2>4, <3>1
  <2> QED
    BY <2>5, <2>6
<1>5. CASE ArchiverSaves
  BY <1>5 DEF ArchiverSaves, Idle
<1>6. CASE SaveFails
  <2>1. archiver.pc = "save" /\ archiver # Idle /\ archiver' = Idle
        /\ UNCHANGED <<archive, rescued>> /\ archiver'.pc = "idle"
    BY <1>6 DEF SaveFails, Idle
  <2>2. CASE archiver.fresh = {}
    BY <1>6, <2>1, <2>2 DEF SaveFails
  <2>3. CASE archiver.fresh # {}
    <3>1. lapses' = lapses + 1
      BY <1>6, <2>3 DEF SaveFails, Lapse
    <3> QED
      BY <2>1, <3>1
  <2> QED
    BY <2>2, <2>3
<1> QED
  BY <1>1, <1>2, <1>3, <1>4, <1>5, <1>6
     DEF CBNext, cbVars, HourPasses, WriterPolls, WriterSaves, WriterDies

(* An event on the list of the rescued is in the archive, and has one row   *)
(* there but for what a lapse costs, however often it is taken again.       *)
THEOREM RescuedAreArchived == CBSpec => []RescuedOnce
<1>1. RescueInv => RescuedOnce
  BY DEF RescueInv, RescuedOnce
<1> QED
  BY <1>1, RescueInitial, RescueStep, PTL DEF CBSpec

-----------------------------------------------------------------------------
(* The tap.  The cursor is where the process began or the stamp of a       *)
(* published headline, and no source that is published from is further     *)
(* behind than the overlap.  Of what a poll finds the oldest are kept, so  *)
(* what a cut leaves out is not older than what the cursor moves to.       *)

USE TapAssumption DEF TapAssumption

LEMMA GreatestExists ==
  ASSUME NEW S \in SUBSET Nat, S # {}, NEW m \in Nat, \A n \in S : n <= m
  PROVE  \E c \in S : \A n \in S : n <= c
<1> DEFINE R == {ss \in Nat \X Nat : ss[1] < ss[2]}
           T == {m - n : n \in S}
<1>1. IsWellFoundedOn(R, Nat)
  BY NatLessThanWellFounded DEF OpToRel
<1>2. T \in SUBSET Nat /\ T # {}
  <2>1. PICK n \in S : TRUE
    OBVIOUS
  <2>2. m - n \in T
    OBVIOUS
  <2>3. \A k \in S : m - k \in Nat
    OBVIOUS
  <2> QED
    BY <2>2, <2>3
<1> HIDE DEF R, T
<1>3. PICK d \in T : \A n \in T : ~(<<n, d>> \in R)
  BY <1>1, <1>2, WFMin
<1>4. \A n \in T : ~(n < d)
  BY <1>2, <1>3 DEF R
<1>5. PICK c \in S : d = m - c
  BY DEF T
<1>6. \A n \in S : m - n \in T
  BY DEF T
<1>7. \A n \in S : n <= c
  BY <1>4, <1>5, <1>6
<1> QED
  BY <1>7

TapType ==
  /\ moment \in Nat /\ out \in SUBSET Headline /\ stream \in SUBSET out
  /\ tap \in [up : BOOLEAN, cursor : Nat, from : Nat, seen : SUBSET Headline, wire : Nat]
  /\ tap.seen \subseteq stream

Published ==
  /\ \A i \in out : Stamp[i] <= moment /\ SourceOf[i] = "benzinga"
  /\ \A k \in out, i \in Headline \ out :
       SourceOf[i] = "benzinga" => Stamp[i] + Overlap >= Stamp[k]

CursorAt == tap.cursor = tap.from \/ \E k \in out : tap.cursor = Stamp[k]

TapInv ==
  /\ TapType /\ Published
  /\ tap.up => CursorAt /\ tap.cursor <= moment
  /\ NoneBehindCursor

LEMMA TapInitial == NTInit => TapInv
  BY DEF NTInit, NoTap, TapInv, TapType, Published, NoneBehindCursor

\* A step that leaves the tap where it was, or down, and the sources as they are.
LEMMA TapRests ==
  ASSUME TapInv, moment' \in Nat, moment' >= moment, UNCHANGED out,
         stream' \in SUBSET out, stream \subseteq stream',
         tap' = NoTap \/ \E w \in Nat : tap' = [tap EXCEPT !.wire = w]
  PROVE  TapInv'
<1>1. Published'
  <2>1. \A i \in out : Stamp[i] \in Nat
    BY DEF TapInv, TapType
  <2> QED
    BY <2>1 DEF TapInv, TapType, Published
<1>2. CASE tap' = NoTap
  BY <1>1, <1>2 DEF TapInv, TapType, NoTap, NoneBehindCursor
<1>3. CASE \E w \in Nat : tap' = [tap EXCEPT !.wire = w]
  <2>1. TapType' /\ UNCHANGED <<tap.up, tap.cursor, tap.from, tap.seen>>
    BY <1>3 DEF TapInv, TapType
  <2>2. tap'.up => CursorAt' /\ tap'.cursor <= moment'
    BY <2>1 DEF TapInv, TapType, CursorAt
  <2>3. NoneBehindCursor'
    BY <2>1 DEF TapInv, NoneBehindCursor
  <2> QED
    BY <1>1, <2>1, <2>2, <2>3 DEF TapInv
<1> QED
  BY <1>2, <1>3

LEMMA PublishStep == TapInv /\ Publishes /\ Wires = {} => TapInv'
<1> SUFFICES ASSUME TapInv, Publishes, Wires = {} PROVE TapInv'
  OBVIOUS
<1>1. PICK i \in Headline \ out :
        /\ SourceOf[i] \in Sources /\ Stamp[i] <= moment
        /\ \A j \in Headline :
             SourceOf[j] = SourceOf[i] /\ Stamp[j] + Overlap < Stamp[i] => j \in out
        /\ out' = out \cup {i}
  BY DEF Publishes
<1>2. SourceOf[i] = "benzinga"
  BY <1>1 DEF Sources
<1>3. UNCHANGED <<moment, tap, stream>>
  BY DEF Publishes
<1>4. TapType'
  BY <1>1, <1>3 DEF TapInv, TapType
<1>5. Published'
  <2>1. \A k \in out' : Stamp[k] <= moment' /\ SourceOf[k] = "benzinga"
    BY <1>1, <1>2, <1>3 DEF TapInv, Published
  <2>2. ASSUME NEW k \in out', NEW j \in Headline \ out', SourceOf[j] = "benzinga"
        PROVE  Stamp[j] + Overlap >= Stamp[k]
    <3>1. CASE k = i
      <4>1. ~(Stamp[j] + Overlap < Stamp[i])
        BY <1>1, <1>2, <2>2
      <4>2. {Stamp[i], Stamp[j], Overlap} \subseteq Nat
        OBVIOUS
      <4> QED
        BY <3>1, <4>1, <4>2, SMTT(30)
    <3>2. CASE k \in out
      BY <1>1, <2>2, <3>2 DEF TapInv, Published
    <3> QED
      BY <1>1, <3>1, <3>2
  <2> QED
    BY <2>1, <2>2 DEF Published
<1>6. tap'.up => CursorAt' /\ tap'.cursor <= moment'
  BY <1>1, <1>3 DEF TapInv, CursorAt
<1>7. NoneBehindCursor'
  <2> SUFFICES ASSUME tap.up, NEW j \in out' \ stream, Stamp[j] + Overlap >= tap.from
               PROVE  Stamp[j] + Overlap >= tap.cursor
    BY <1>3 DEF NoneBehindCursor
  <2>1. CASE j \in out
    BY <2>1 DEF TapInv, NoneBehindCursor
  <2>2. CASE j = i
    BY <1>2, <2>2 DEF TapInv, CursorAt, Published
  <2> QED
    BY <1>1, <2>1, <2>2
<1> QED
  BY <1>4, <1>5, <1>6, <1>7 DEF TapInv

\* Headlines before another in the order are before whatever follows it.
LEMMA OrderedCounts ==
  ASSUME NEW found \in SUBSET Headline, NEW i \in Headline, NEW k \in Headline, Before(i, k)
  PROVE  Cardinality({j \in found : Before(j, i)}) <= Cardinality({j \in found : Before(j, k)})
<1>1. \A j \in Headline : Before(j, i) => Before(j, k)
  BY DEF Before
<1>2. {j \in found : Before(j, i)} \subseteq {j \in found : Before(j, k)}
  BY <1>1
<1>3. IsFiniteSet({j \in found : Before(j, k)})
  BY FS_Subset
<1> QED
  BY <1>2, <1>3, FS_Subset

\* A poll that was cut takes no headline that is newer than one it leaves.
LEMMA CutAtNewest ==
  ASSUME NEW found \in SUBSET Headline, NEW i \in found,
         NEW k \in {n \in found : Cardinality({j \in found : Before(j, n)}) < Limit},
         i \notin {n \in found : Cardinality({j \in found : Before(j, n)}) < Limit}
  PROVE  Stamp[i] >= Stamp[k]
<1> DEFINE C(n) == Cardinality({j \in found : Before(j, n)})
<1>1. C(i) \in Nat /\ C(k) \in Nat
  <2>1. \A n : IsFiniteSet({j \in found : Before(j, n)})
    BY FS_Subset
  <2> QED
    BY <2>1, FS_CardinalityType
<1>2. C(k) < Limit /\ ~(C(i) < Limit)
  OBVIOUS
<1>3. Before(i, k) => C(i) <= C(k)
  BY OrderedCounts
<1> HIDE DEF C
<1>4. ~Before(i, k)
  BY <1>1, <1>2, <1>3
<1> QED
  BY <1>4 DEF Before

\* With Benzinga alone nothing comes from the wires.
LEMMA NoWire ==
  ASSUME Wires = {}, NEW w \in Wired
  PROVE  w.found = {} /\ w.wire = tap.wire
<1>1. \A ws : ws \notin (SUBSET Wires) \ {{}}
  <2> SUFFICES ASSUME NEW ws \in (SUBSET Wires) \ {{}} PROVE FALSE
    OBVIOUS
  <2>1. ws # {}
    OBVIOUS
  <2>2. \A x \in ws : x \in Wires
    OBVIOUS
  <2>3. PICK x : x \in ws
    BY <2>1
  <2> QED
    BY <2>2, <2>3
<1>2. w = [found |-> {}, wire |-> tap.wire]
  BY <1>1, Zenon DEF Wired
<1> QED
  BY <1>2

LEMMA PollStep == TapInv /\ TapPolls /\ Wires = {} => TapInv'
<1> SUFFICES ASSUME TapInv, TapPolls, Wires = {} PROVE TapInv'
  OBVIOUS
<1> DEFINE found == Since(tap.cursor, {"benzinga"})
           kept == {n \in found : Cardinality({j \in found : Before(j, n)}) < Limit}
<1>1. PICK b \in Benzinga, w \in Wired :
        /\ stream' = stream \cup ((b \cup w.found) \ tap.seen)
        /\ tap' = [tap EXCEPT !.seen = @ \cup ((b \cup w.found) \ tap.seen),
                              !.cursor = Newest((b \cup w.found) \ tap.seen),
                              !.wire = w.wire]
  BY DEF TapPolls
<1>2. w.found = {} /\ w.wire = tap.wire
  BY NoWire
<1>3. b = {} \/ b = kept
  BY DEF Benzinga
<1> DEFINE fresh == b \ tap.seen
           c == Newest(fresh)
<1>4. /\ stream' = stream \cup fresh
      /\ tap' = [tap EXCEPT !.seen = @ \cup fresh, !.cursor = c, !.wire = tap.wire]
  BY <1>1, <1>2
<1>5. tap.up /\ UNCHANGED <<moment, out>>
  BY DEF TapPolls
<1>6. found \in SUBSET out /\ b \in SUBSET out /\ fresh \in SUBSET out
  BY <1>3 DEF Since
<1> HIDE DEF found, kept, fresh
<1>7. /\ c = tap.cursor \/ \E k \in fresh : c = Stamp[k]
      /\ c \in Nat /\ c <= moment /\ c >= tap.cursor
  <2> DEFINE S == {tap.cursor} \cup {Stamp[i] : i \in fresh}
  <2>1. S \in SUBSET Nat /\ S # {} /\ \A n \in S : n <= moment
    BY <1>5, <1>6 DEF TapInv, TapType, Published
  <2>2. \E m \in S : \A n \in S : n <= m
    <3> HIDE DEF S
    <3> QED
      BY <2>1, GreatestExists DEF TapInv, TapType
  <2>3. \E m \in S : \A i \in fresh : m >= tap.cursor /\ m >= Stamp[i]
    <3>1. PICK m \in S : \A n \in S : n <= m
      BY <2>2
    <3>2. m \in Nat /\ tap.cursor \in Nat /\ tap.cursor \in S
      BY <2>1
    <3>3. \A i \in fresh : Stamp[i] \in Nat /\ Stamp[i] \in S
      BY <2>1
    <3> HIDE DEF S
    <3> QED
      BY <3>1, <3>2, <3>3
  <2>4. c \in S /\ \A i \in fresh : c >= tap.cursor /\ c >= Stamp[i]
    BY <2>3, Zenon DEF Newest
  <2>5. c = tap.cursor \/ \E k \in fresh : c = Stamp[k]
    BY <2>4
  <2>6. c \in Nat /\ c <= moment
    BY <2>1, <2>4
  <2>7. c >= tap.cursor
    <3> HIDE DEF c, S
    <3> QED
      BY <2>4, <2>5, <2>6 DEF TapInv, TapType
  <2> QED
    BY <2>5, <2>6, <2>7
<1> HIDE DEF c
<1>8. TapType' /\ tap'.seen = tap.seen \cup fresh /\ tap'.cursor = c
      /\ UNCHANGED <<tap.up, tap.from>>
  BY <1>4, <1>5, <1>6, <1>7 DEF TapInv, TapType
<1>9. Published'
  BY <1>5 DEF TapInv, Published
<1>10. tap'.up => CursorAt' /\ tap'.cursor <= moment'
  BY <1>5, <1>6, <1>7, <1>8 DEF TapInv, CursorAt
<1>11. NoneBehindCursor'
  <2> SUFFICES ASSUME NEW i \in out \ stream', Stamp[i] + Overlap >= tap.from
               PROVE  Stamp[i] + Overlap >= c
    BY <1>5, <1>8 DEF NoneBehindCursor
  <2>1. i \in Headline /\ i \notin stream /\ i \notin b
    BY <1>4, <1>5 DEF TapInv, TapType, fresh
  <2>2. Stamp[i] + Overlap >= tap.cursor
    BY <1>5, <2>1 DEF TapInv, NoneBehindCursor
  <2>3. i \in found
    BY <1>5, <2>2 DEF found, Since, TapInv, Published
  <2>4. ASSUME NEW k \in fresh PROVE Stamp[i] >= Stamp[k]
    <3>1. k \in kept /\ i \notin kept /\ found \in SUBSET Headline
      BY <1>3, <1>6, <2>1, <2>4 DEF fresh, TapInv, TapType
    <3> QED
      BY <2>3, <3>1, CutAtNewest DEF kept
  <2>5. \A k \in fresh : Stamp[i] + Overlap >= Stamp[k]
    <3>1. \A k \in fresh : Stamp[k] \in Nat
      BY <1>6 DEF TapInv, TapType
    <3> QED
      BY <2>1, <2>4, <3>1
  <2> QED
    BY <1>7, <2>2, <2>5
<1> QED
  BY <1>8, <1>9, <1>10, <1>11 DEF TapInv

LEMMA TapStep == TapInv /\ [NTNext]_ntVars /\ Wires = {} => TapInv'
<1> SUFFICES ASSUME TapInv, [NTNext]_ntVars, Wires = {} PROVE TapInv'
  OBVIOUS
<1>0. tap.wire \in Nat /\ [tap EXCEPT !.wire = tap.wire] = tap /\ moment \in Nat
  BY DEF TapInv, TapType
<1>1. CASE UNCHANGED ntVars \/ MomentPasses
  <2>1. moment' \in Nat /\ moment' >= moment /\ UNCHANGED <<out, tap, stream>>
    BY <1>0, <1>1 DEF ntVars, MomentPasses
  <2>2. \E w \in Nat : tap' = [tap EXCEPT !.wire = w]
    BY <1>0, <2>1
  <2>3. stream \in SUBSET out
    BY DEF TapInv, TapType
  <2> QED
    BY <2>1, <2>2, <2>3, TapRests
<1>2. CASE Publishes
  BY <1>2, PublishStep
<1>3. CASE TapUp
  <2>1. PICK back \in Nat : /\ tap' = [up |-> TRUE, cursor |-> back, from |-> back,
                                       seen |-> {}, wire |-> back]
                            /\ back <= moment
    <3> DEFINE back == IF moment > SinceHours THEN moment - SinceHours ELSE 0
    <3>1. back \in Nat /\ back <= moment
      BY <1>0
    <3>2. tap' = [NoTap EXCEPT !.up = TRUE, !.cursor = back, !.from = back, !.wire = back]
      BY <1>3 DEF TapUp
    <3> HIDE DEF back
    <3> QED
      BY <3>1, <3>2 DEF NoTap
  <2>2. UNCHANGED <<moment, out, stream>>
    BY <1>3 DEF TapUp
  <2> QED
    BY <2>1, <2>2 DEF TapInv, TapType, Published, CursorAt, NoneBehindCursor
<1>4. CASE TapStops
  <2>1. tap' = NoTap /\ UNCHANGED <<moment, out, stream>> /\ stream \in SUBSET out
    BY <1>4 DEF TapStops, TapInv, TapType
  <2> QED
    BY <1>0, <2>1, TapRests
<1>5. CASE TapPolls
  BY <1>5, PollStep
<1>6. CASE AppendFails
  <2>1. PICK b \in Benzinga, w \in Wired :
          /\ \E i \in (b \cup w.found) \ tap.seen :
               stream' = stream \cup {j \in (b \cup w.found) \ tap.seen : Before(j, i)}
          /\ tap' \in {NoTap, [tap EXCEPT !.wire = w.wire]}
    BY <1>6 DEF AppendFails
  <2>2. w.found = {} /\ w.wire = tap.wire
    BY NoWire
  <2>3. b \in SUBSET out
    BY DEF Benzinga, Since
  <2>4. UNCHANGED <<moment, out>> /\ stream \in SUBSET out
    BY <1>6 DEF AppendFails, TapInv, TapType
  <2>5. stream \subseteq stream' /\ stream' \in SUBSET out
    BY <2>1, <2>2, <2>3, <2>4
  <2>6. tap' = NoTap \/ \E w2 \in Nat : tap' = [tap EXCEPT !.wire = w2]
    BY <1>0, <2>1, <2>2
  <2> QED
    BY <1>0, <2>4, <2>5, <2>6, TapRests
<1> QED
  BY <1>1, <1>2, <1>3, <1>4, <1>5, <1>6 DEF NTNext

(* While Benzinga is the only source, no headline of the time a process   *)
(* answers for is left behind its cursor.                                  *)
THEOREM BenzingaLeavesNone == Wires = {} => (TapSpec => []NoneBehindCursor)
<1> SUFFICES ASSUME Wires = {} PROVE TapSpec => []NoneBehindCursor
  OBVIOUS
<1>1. TapInv /\ [NTNext]_ntVars => TapInv'
  BY TapStep
<1>2. TapInv => NoneBehindCursor
  BY DEF TapInv
<1> QED
  BY <1>1, <1>2, TapInitial, PTL DEF TapSpec
=============================================================================
