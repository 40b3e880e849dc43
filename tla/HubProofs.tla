------------------------------ MODULE HubProofs ------------------------------
(***************************************************************************)
(* Proofs about the request budget and the chain cache of the market hub,  *)
(* for every cap, window, life of the caches and sequence of calls.        *)
(***************************************************************************)
EXTENDS MarketHub, FiniteSetTheorems, TLAPS

(* The deque is a log in time order, and what the governor has popped is   *)
(* out of every window still to come.                                      *)
Ordered ==
  /\ \A i, j \in 1 .. Len(log) : i <= j => log[i].at <= log[j].at
  /\ \A i \in 1 .. Len(log) : log[i].at <= clock
  /\ \A i \in 1 .. head : log[i].at < clock - Window

\* nothing in the chain cache is from the future
CacheOfPast == \A k \in Key : chains[k] # Never => chains[k] <= clock

HubInv ==
  /\ TypeOK
  /\ Ordered
  /\ CacheOfPast
  /\ CapHeld
  /\ ReserveHeld
  /\ ScanNeverStale
  /\ NotedOnce

Stale == {i \in 1 .. Len(log) : log[i].at < clock - Window}

LEMMA HubTypes ==
  ASSUME TypeOK
  PROVE  /\ Len(log) \in Nat /\ head \in 0 .. Len(log) /\ clock \in Nat
         /\ Window \in Nat
         /\ \A i \in 1 .. Len(log) : log[i].at \in Nat
<1>1. log \in Seq(Grant) /\ head \in 0 .. Len(log) /\ clock \in Nat
  BY DEF TypeOK
<1>2. \A i \in 1 .. Len(log) : log[i] \in Grant
  BY <1>1
<1>3. \A g \in Grant : g.at \in Nat
  BY DEF Grant
<1>4. Window \in Nat
  BY BudgetAssumption
<1> QED
  BY <1>1, <1>2, <1>3, <1>4

(* In a log in time order the stale grants are a prefix.                   *)
LEMMA StalePrefix ==
  ASSUME TypeOK, Ordered
  PROVE  \E n \in head .. Len(log) : Stale = 1 .. n
<1> DEFINE n == Cardinality(Stale)
<1>1. /\ Len(log) \in Nat /\ head \in 0 .. Len(log) /\ clock \in Nat
      /\ Window \in Nat
      /\ \A i \in 1 .. Len(log) : log[i].at \in Nat
  BY HubTypes
<1>2. IsFiniteSet(Stale) /\ n \in Nat
  <2>1. IsFiniteSet(1 .. Len(log)) /\ Stale \subseteq 1 .. Len(log)
    BY <1>1, FS_Interval DEF Stale
  <2> QED
    BY <2>1, FS_Subset, FS_CardinalityType
<1>3. \A i \in Stale, j \in 1 .. Len(log) : j <= i => j \in Stale
  BY <1>1 DEF Ordered, Stale
<1> HIDE DEF n
<1>4. \A m \in Nat : IsFiniteSet(1 .. m) /\ Cardinality(1 .. m) = m
  <2> TAKE m \in Nat
  <2>1. IsFiniteSet(1 .. m)
        /\ Cardinality(1 .. m) = IF 1 > m THEN 0 ELSE m - 1 + 1
    BY FS_Interval
  <2> QED
    BY <2>1
<1>5. n + 1 \notin Stale
  <2> SUFFICES ASSUME n + 1 \in Stale PROVE FALSE
    OBVIOUS
  <2>1. 1 .. (n + 1) \subseteq Stale
    BY <1>1, <1>2, <1>3 DEF Stale
  <2>2. Cardinality(1 .. (n + 1)) <= Cardinality(Stale)
    BY <1>2, <2>1, FS_Subset
  <2> QED
    BY <1>2, <1>4, <2>2 DEF n
<1>6. Stale \subseteq 1 .. n
  <2> SUFFICES ASSUME NEW i \in Stale, i > n PROVE FALSE
    BY <1>1, <1>2 DEF Stale
  <2>1. n + 1 \in 1 .. Len(log) /\ n + 1 <= i
    BY <1>1, <1>2 DEF Stale
  <2> QED
    BY <1>3, <1>5, <2>1
<1>7. Stale = 1 .. n
  BY <1>2, <1>4, <1>6, FS_Subset DEF n
<1>8. n \in head .. Len(log)
  <2>1. 1 .. head \subseteq Stale
    BY <1>1 DEF Ordered, Stale
  <2>2. head <= n
    BY <1>1, <1>2, <1>7, <2>1
  <2>3. n <= Len(log)
    BY <1>1, <1>2, <1>7 DEF Stale
  <2> QED
    BY <1>1, <1>2, <2>2, <2>3
<1> QED
  BY <1>7, <1>8

(* What _prune leaves is exactly what was granted within the window, of    *)
(* all that was ever granted.                                              *)
LEMMA PrunedIsWindow ==
  ASSUME TypeOK, Ordered
  PROVE  /\ Pruned \in head .. Len(log)
         /\ \A i \in 1 .. Len(log) : i <= Pruned <=> log[i].at < clock - Window
<1>1. /\ Len(log) \in Nat /\ head \in 0 .. Len(log) /\ clock \in Nat
      /\ Window \in Nat
      /\ \A i \in 1 .. Len(log) : log[i].at \in Nat
  BY HubTypes
<1> DEFINE P(n) == /\ \A i \in head + 1 .. n : log[i].at < clock - Window
                   /\ n < Len(log) => log[n + 1].at >= clock - Window
<1>2. PICK m \in head .. Len(log) : Stale = 1 .. m
  BY StalePrefix
<1>3. P(m)
  <2>1. \A i \in head + 1 .. m : log[i].at < clock - Window
    BY <1>1, <1>2 DEF Stale
  <2>2. m < Len(log) => log[m + 1].at >= clock - Window
    BY <1>1, <1>2 DEF Stale
  <2> QED
    BY <2>1, <2>2
<1>4. Pruned = CHOOSE n \in head .. Len(log) : P(n)
  BY Zenon DEF Pruned
<1>5. Pruned \in head .. Len(log) /\ P(Pruned)
  <2> HIDE DEF P
  <2> QED
    BY <1>2, <1>3, <1>4, Zenon
<1>6. ASSUME NEW i \in 1 .. Len(log)
      PROVE  i <= Pruned <=> log[i].at < clock - Window
  <2>1. CASE i <= head
    BY <1>1, <1>5, <2>1 DEF Ordered
  <2>2. CASE head < i /\ i <= Pruned
    BY <1>1, <1>5, <2>2
  <2>3. CASE Pruned < i
    <3>1. Pruned + 1 \in 1 .. Len(log) /\ Pruned + 1 <= i /\ Pruned < Len(log)
      BY <1>1, <1>5, <2>3
    <3>2. log[Pruned + 1].at >= clock - Window
      BY <1>5, <3>1
    <3>3. log[Pruned + 1].at <= log[i].at
      BY <3>1 DEF Ordered
    <3> QED
      BY <1>1, <1>5, <2>3, <3>1, <3>2, <3>3
  <2> QED
    BY <1>1, <1>5, <2>1, <2>2, <2>3
<1> HIDE DEF P
<1> QED
  BY <1>5, <1>6

(* A new grant: its minute is what the governor counted, and itself.       *)
LEMMA GrantMinute ==
  ASSUME TypeOK, Ordered, NEW p \in Priority, NEW last, last = Len(log) + 1,
         log' = Append(log, [at |-> clock, pri |-> p])
  PROVE  /\ Len(log') = last
         /\ \A i \in 1 .. Len(log) :
              log'[i] = log[i] /\ MinuteOf(i)' = MinuteOf(i)
         /\ log'[last] = [at |-> clock, pri |-> p]
         /\ Cardinality(MinuteOf(last)') = Used + 1
         /\ Used \in Nat
<1> DEFINE g == [at |-> clock, pri |-> p]
<1>1. /\ Len(log) \in Nat /\ head \in 0 .. Len(log) /\ clock \in Nat
      /\ Window \in Nat
      /\ \A i \in 1 .. Len(log) : log[i].at \in Nat
  BY HubTypes
<1>2. /\ Pruned \in head .. Len(log)
      /\ \A i \in 1 .. Len(log) : i <= Pruned <=> log[i].at < clock - Window
  BY PrunedIsWindow
<1>3. /\ Len(log') = last
      /\ \A i \in 1 .. Len(log) : log'[i] = log[i]
      /\ log'[last] = g
  BY DEF TypeOK
<1>4. g.at = clock
  OBVIOUS
<1> HIDE DEF g
<1>5. \A i \in 1 .. Len(log) : MinuteOf(i)' = MinuteOf(i)
  BY <1>1, <1>3 DEF MinuteOf
<1>6. MinuteOf(last)' = (Pruned + 1) .. last
  <2>1. MinuteOf(last)' = {j \in 1 .. last : log'[j].at >= clock - Window}
    BY <1>3, <1>4 DEF MinuteOf
  <2>2. ASSUME NEW j \in 1 .. last
        PROVE  log'[j].at >= clock - Window <=> j >= Pruned + 1
    <3>1. CASE j = last
      BY <1>1, <1>2, <1>3, <1>4, <3>1
    <3>2. CASE j # last
      <4>1. j \in 1 .. Len(log)
        BY <1>1, <3>2
      <4> QED
        BY <1>1, <1>2, <1>3, <4>1
    <3> QED
      BY <3>1, <3>2
  <2>3. Pruned \in Nat /\ last \in Nat
    BY <1>1, <1>2
  <2>4. \A j : j \in (Pruned + 1) .. last <=> j \in 1 .. last /\ j >= Pruned + 1
    BY <2>3
  <2> QED
    BY <2>1, <2>2, <2>4
<1>7. Cardinality((Pruned + 1) .. last) = last - Pruned
  <2>1. Cardinality((Pruned + 1) .. last)
          = IF Pruned + 1 > last THEN 0 ELSE last - (Pruned + 1) + 1
    BY <1>1, <1>2, FS_Interval
  <2> QED
    BY <1>1, <1>2, <2>1
<1>8. Used \in Nat /\ last - Pruned = Used + 1
  BY <1>1, <1>2 DEF Used
<1> QED
  BY <1>3, <1>5, <1>6, <1>7, <1>8 DEF g

(* One call of allow(): the account stays in order and the budget holds.   *)
LEMMA AccountKeepsBudget ==
  ASSUME HubInv, NEW p \in Priority, Account(p), UNCHANGED clock
  PROVE  /\ log' \in Seq(Grant) /\ head' \in 0 .. Len(log')
         /\ degraded' \in BOOLEAN
         /\ Ordered' /\ CapHeld' /\ ReserveHeld'
<1>1. TypeOK /\ Ordered /\ CapHeld /\ ReserveHeld
  BY DEF HubInv
<1>2. /\ Len(log) \in Nat /\ head \in 0 .. Len(log) /\ clock \in Nat
      /\ Window \in Nat
      /\ \A i \in 1 .. Len(log) : log[i].at \in Nat
  BY <1>1, HubTypes
<1>3. /\ Pruned \in head .. Len(log)
      /\ \A i \in 1 .. Len(log) : i <= Pruned <=> log[i].at < clock - Window
  BY <1>1, PrunedIsWindow
<1>4. head' = Pruned /\ clock' = clock
  BY DEF Account
<1>5. degraded' \in BOOLEAN
  BY DEF Account, Degrades
<1>6. CASE ~Allows(p)
  <2>1. log' = log
    BY <1>6 DEF Account
  <2>2. log' \in Seq(Grant) /\ head' \in 0 .. Len(log')
    BY <1>1, <1>2, <1>3, <1>4, <2>1 DEF TypeOK
  <2>3. Ordered'
    BY <1>1, <1>2, <1>3, <1>4, <2>1 DEF Ordered
  <2>4. CapHeld' /\ ReserveHeld'
    BY <1>1, <2>1 DEF CapHeld, ReserveHeld, MinuteOf
  <2> QED
    BY <1>5, <2>2, <2>3, <2>4
<1>7. CASE Allows(p)
  <2>0. PICK last : last = Len(log) + 1
    OBVIOUS
  <2>1. log' = Append(log, [at |-> clock, pri |-> p])
    BY <1>7 DEF Account
  <2>2. /\ Len(log') = last
        /\ \A i \in 1 .. Len(log) :
             log'[i] = log[i] /\ MinuteOf(i)' = MinuteOf(i)
        /\ log'[last] = [at |-> clock, pri |-> p]
        /\ Cardinality(MinuteOf(last)') = Used + 1
        /\ Used \in Nat
    BY <1>1, <2>0, <2>1, GrantMinute
  <2>3. log'[last].at = clock /\ log'[last].pri = p
    BY <2>2
  <2>4. log' \in Seq(Grant) /\ head' \in 0 .. Len(log')
    <3>1. [at |-> clock, pri |-> p] \in Grant
      BY <1>2 DEF Grant
    <3> QED
      BY <1>1, <1>2, <1>3, <1>4, <2>0, <2>1, <3>1 DEF TypeOK
  <2>5. 1 .. Len(log') = (1 .. Len(log)) \cup {last}
    BY <1>2, <2>0, <2>2
  <2>6. Ordered'
    <3>1. ASSUME NEW i \in 1 .. Len(log') PROVE log'[i].at <= clock /\ log'[i].at \in Nat
      <4>1. CASE i = last
        BY <1>2, <2>3, <4>1
      <4>2. CASE i # last
        <5>1. i \in 1 .. Len(log) /\ log'[i] = log[i]
          BY <2>2, <2>5, <4>2
        <5>2. log[i].at <= clock /\ log[i].at \in Nat
          BY <1>1, <1>2, <5>1 DEF Ordered
        <5> QED
          BY <5>1, <5>2
      <4> QED
        BY <4>1, <4>2
    <3>2. ASSUME NEW i \in 1 .. Len(log'), NEW j \in 1 .. Len(log'), i <= j
          PROVE  log'[i].at <= log'[j].at
      <4>1. CASE j = last
        BY <2>3, <3>1, <4>1
      <4>2. CASE j # last
        <5>1. i \in 1 .. Len(log) /\ j \in 1 .. Len(log)
          BY <1>2, <2>0, <2>2, <3>2, <4>2
        <5>2. log[i].at <= log[j].at
          BY <1>1, <3>2, <5>1 DEF Ordered
        <5> QED
          BY <2>2, <5>1, <5>2
      <4> QED
        BY <4>1, <4>2
    <3>3. ASSUME NEW i \in 1 .. head' PROVE log'[i].at < clock - Window
      BY <1>2, <1>3, <1>4, <2>0, <2>2, SMTT(30)
    <3> QED
      BY <1>4, <3>1, <3>2, <3>3, Zenon DEF Ordered
  <2>7. CapHeld'
    <3>1. ASSUME NEW i \in 1 .. Len(log'), log'[i].pri # ExitQuotes
          PROVE  Cardinality(MinuteOf(i)') <= Cap
      <4>1. CASE i = last
        <5>1. Used < Cap
          BY <1>7, <2>3, <3>1, <4>1 DEF Allows
        <5> QED
          BY <2>2, <4>1, <5>1, BudgetAssumption
      <4>2. CASE i # last
        BY <1>1, <2>2, <2>5, <3>1, <4>2 DEF CapHeld
      <4> QED
        BY <4>1, <4>2
    <3> QED
      BY <3>1 DEF CapHeld
  <2>8. ReserveHeld'
    <3>1. ASSUME NEW i \in 1 .. Len(log'), log'[i].pri = ScanChain
          PROVE  10 * (Cardinality(MinuteOf(i)') - 1) < 8 * Cap
      <4>1. CASE i = last
        <5>1. ~(10 * Used >= 8 * Cap)
          BY <1>7, <2>3, <3>1, <4>1 DEF Allows, Degrades, ScanChain, ExitQuotes
        <5>2. Cap \in Nat
          BY BudgetAssumption
        <5>3. Cardinality(MinuteOf(i)') - 1 = Used
          BY <2>2, <4>1
        <5> QED
          BY <2>2, <5>1, <5>2, <5>3
      <4>2. CASE i # last
        BY <1>1, <2>2, <2>5, <3>1, <4>2 DEF ReserveHeld
      <4> QED
        BY <4>1, <4>2
    <3> QED
      BY <3>1 DEF ReserveHeld
  <2> QED
    BY <1>5, <2>4, <2>6, <2>7, <2>8
<1> QED
  BY <1>6, <1>7

(* Time passing only makes the popped grants older.                        *)
LEMMA ClockKeepsOrder ==
  ASSUME HubInv, clock' = clock + 1, UNCHANGED <<log, head>>
  PROVE  Ordered'
<1>1. TypeOK /\ Ordered
  BY DEF HubInv
<1>2. /\ Len(log) \in Nat /\ head \in 0 .. Len(log) /\ clock \in Nat
      /\ Window \in Nat
      /\ \A i \in 1 .. Len(log) : log[i].at \in Nat
  BY <1>1, HubTypes
<1>3. /\ clock' \in Nat /\ clock < clock' /\ clock - Window < clock' - Window
      /\ log' = log /\ head' = head
  BY <1>2
<1>4. \A i, j \in 1 .. Len(log) : i <= j => log[i].at <= log[j].at
  BY <1>1 DEF Ordered
<1>5. \A i \in 1 .. Len(log) : log[i].at <= clock'
  <2> TAKE i \in 1 .. Len(log)
  <2>1. log[i].at <= clock /\ log[i].at \in Nat
    BY <1>1, <1>2 DEF Ordered
  <2> QED
    BY <1>2, <1>3, <2>1
<1>6. \A i \in 1 .. head : log[i].at < clock' - Window
  <2> TAKE i \in 1 .. head
  <2>1. log[i].at < clock - Window /\ log[i].at \in Nat
    BY <1>1, <1>2 DEF Ordered
  <2> QED
    BY <1>2, <1>3, <2>1
<1> QED
  BY <1>3, <1>4, <1>5, <1>6, Zenon DEF Ordered

LEMMA HubInvInit == Init => HubInv
<1> SUFFICES ASSUME Init PROVE HubInv
  OBVIOUS
<1>1. TypeOK
  <2>1. log \in Seq(Grant) /\ head \in 0 .. Len(log)
    BY DEF Init
  <2>2. served \in Served
    BY DEF Init, Served, Priority, ExitQuotes
  <2> QED
    BY <2>1, <2>2 DEF Init, TypeOK
<1>2. 1 .. Len(log) = {} /\ 1 .. head = {}
  BY DEF Init
<1>3. CacheOfPast
  BY DEF Init, CacheOfPast
<1> QED
  BY <1>1, <1>2, <1>3
  DEF Init, HubInv, Ordered, CapHeld, ReserveHeld, ScanNeverStale, NotedOnce,
      ExitQuotes, ScanChain

(* A call that asks the governor and journals as the code does.            *)
LEMMA AskingStep ==
  ASSUME HubInv, NEW p \in Priority, Account(p), Notes(p) \/ NotesNothing,
         UNCHANGED clock,
         chains' \in [Key -> Nat \cup {Never}], CacheOfPast',
         expirations' \in [Underlying -> Nat \cup {Never}],
         served' \in Served, ScanNeverStale'
  PROVE  HubInv'
<1>1. /\ log' \in Seq(Grant) /\ head' \in 0 .. Len(log')
      /\ degraded' \in BOOLEAN
      /\ Ordered' /\ CapHeld' /\ ReserveHeld'
  BY AccountKeepsBudget
<1>2. noted' \in Nat /\ noted' <= 1
  BY DEF HubInv, TypeOK, NotedOnce, Notes, NotesNothing
<1>3. clock' \in Nat
  BY DEF HubInv, TypeOK
<1> QED
  BY <1>1, <1>2, <1>3 DEF HubInv, TypeOK, NotedOnce

(* A stale answer is only ever given to a call above the scans.            *)
LEMMA FallbackAnswers ==
  ASSUME HubInv, NEW k \in Key, NEW p \in Caller, Fallback(k, p), UNCHANGED clock
  PROVE  served' \in Served /\ ScanNeverStale'
<1>1. p \in Priority /\ (p = ScanChain \/ p < ScanChain)
  BY DEF Caller, Priority, ManageChain, ScanChain
<1>2. CASE p < ScanChain /\ chains[k] # Never
  <2>1. chains[k] \in Nat /\ chains[k] <= clock /\ clock \in Nat
    BY <1>2 DEF HubInv, TypeOK, CacheOfPast
  <2>2. clock - chains[k] \in Nat
    BY <2>1
  <2>3. served' = [pri |-> p, age |-> clock - chains[k]]
    BY <1>2 DEF Fallback, Answer
  <2> QED
    BY <1>1, <1>2, <2>2, <2>3 DEF Served, ScanNeverStale, ScanChain
<1>3. CASE ~(p < ScanChain /\ chains[k] # Never)
  BY <1>3 DEF Fallback, HubInv, TypeOK, ScanNeverStale
<1> QED
  BY <1>2, <1>3

(* Every call and every tick of the clock keeps the invariant.             *)
LEMMA HubInvNext ==
  ASSUME HubInv, [Next]_hubVars
  PROVE  HubInv'
<1>1. /\ TypeOK /\ CacheOfPast /\ ScanNeverStale /\ clock \in Nat
      /\ chains \in [Key -> Nat \cup {Never}] /\ served \in Served
      /\ expirations \in [Underlying -> Nat \cup {Never}]
  BY DEF HubInv, TypeOK
<1>2. Caller \subseteq Priority /\ ExitQuotes \in Priority /\ ManageChain \in Priority
  BY DEF Caller, Priority, ExitQuotes, ManageChain, ScanChain
<1>3. CASE ClockTicks
  <2>1. clock' = clock + 1 /\ clock' \in Nat
        /\ UNCHANGED <<log, head, degraded, chains, expirations, noted, served>>
    BY <1>1, <1>3 DEF ClockTicks
  <2>2. CacheOfPast'
    BY <1>1, <2>1 DEF CacheOfPast
  <2> QED
    BY <2>1, <2>2, ClockKeepsOrder
    DEF HubInv, TypeOK, CapHeld, ReserveHeld, MinuteOf, ScanNeverStale, NotedOnce
<1>4. CASE Restart
  <2>1. clock' \in Nat
    BY <1>1, <1>4 DEF Restart
  <2>2. log' \in Seq(Grant) /\ head' \in 0 .. Len(log')
    BY <1>4 DEF Restart
  <2>3. served' \in Served
    BY <1>4 DEF Restart, Served, Priority, ExitQuotes
  <2>4. TypeOK'
    BY <1>4, <2>1, <2>2, <2>3 DEF Restart, TypeOK
  <2>5. 1 .. Len(log') = {} /\ 1 .. head' = {}
    BY <1>4 DEF Restart
  <2>6. CacheOfPast'
    BY <1>4 DEF Restart, CacheOfPast
  <2> QED
    BY <1>4, <2>4, <2>5, <2>6
    DEF Restart, HubInv, Ordered, CapHeld, ReserveHeld, ScanNeverStale, NotedOnce,
        ExitQuotes, ScanChain
<1>5. CASE PollQuotes
  <2>1. CacheOfPast' /\ ScanNeverStale'
    BY <1>1, <1>5 DEF PollQuotes, CacheOfPast, ScanNeverStale
  <2> QED
    BY <1>1, <1>2, <1>5, <2>1, AskingStep DEF PollQuotes
<1>6. CASE DailyHistory
  <2>1. CacheOfPast' /\ ScanNeverStale'
    BY <1>1, <1>6 DEF DailyHistory, CacheOfPast, ScanNeverStale
  <2> QED
    BY <1>1, <1>2, <1>6, <2>1, AskingStep DEF DailyHistory
<1>7. ASSUME NEW u \in Underlying, NEW p \in Caller, Expirations(u, p)
      PROVE  HubInv'
  <2>1. CacheOfPast' /\ ScanNeverStale'
    BY <1>1, <1>7 DEF Expirations, CacheOfPast, ScanNeverStale
  <2>2. expirations' \in [Underlying -> Nat \cup {Never}]
    BY <1>1, <1>7 DEF Expirations
  <2> QED
    BY <1>1, <1>2, <1>7, <2>1, <2>2, AskingStep DEF Expirations
<1>8. ASSUME NEW k \in Key, NEW p \in Caller, ChainCached(k, p)
      PROVE  HubInv'
  <2>1. /\ UNCHANGED <<clock, log, head, degraded, chains, expirations, noted>>
        /\ served' = [pri |-> p, age |-> clock - chains[k]]
    BY <1>8 DEF ChainCached, Answer
  <2>2. /\ chains[k] \in Nat /\ chains[k] <= clock
        /\ clock - chains[k] < TTL
    BY <1>1, <1>8 DEF ChainCached, Younger, CacheOfPast
  <2>3. TTL <= 2 * ChainTTL /\ TTL \in Nat /\ ChainTTL \in Nat
    BY BudgetAssumption DEF TTL
  <2>4. served' \in Served
    BY <1>1, <1>2, <2>1, <2>2 DEF Served
  <2>5. ScanNeverStale'
    BY <1>1, <2>1, <2>2, <2>3 DEF ScanNeverStale
  <2>6. CacheOfPast' /\ Ordered'
    BY <2>1 DEF HubInv, CacheOfPast, Ordered
  <2> QED
    BY <2>1, <2>4, <2>5, <2>6
    DEF HubInv, TypeOK, CapHeld, ReserveHeld, MinuteOf, NotedOnce
<1>9. ASSUME NEW k \in Key, NEW p \in Caller, ChainRefused(k, p) \/ ChainFails(k, p)
      PROVE  HubInv'
  <2>1. /\ Account(p) /\ Notes(p) /\ Fallback(k, p)
        /\ UNCHANGED <<clock, chains, expirations>>
    BY <1>9 DEF ChainRefused, ChainFails
  <2>2. CacheOfPast'
    BY <1>1, <2>1 DEF CacheOfPast
  <2>3. served' \in Served /\ ScanNeverStale'
    BY <2>1, FallbackAnswers
  <2> QED
    BY <1>1, <1>2, <2>1, <2>2, <2>3, AskingStep
<1>10. ASSUME NEW k \in Key, NEW p \in Caller, ChainFetched(k, p)
       PROVE  HubInv'
  <2>1. /\ Account(p) /\ Notes(p) /\ UNCHANGED <<clock, expirations>>
        /\ chains' = [chains EXCEPT ![k] = clock]
        /\ served' = [pri |-> p, age |-> 0]
    BY <1>10 DEF ChainFetched
  <2>2. chains' \in [Key -> Nat \cup {Never}]
    BY <1>1, <2>1
  <2>3. CacheOfPast'
    BY <1>1, <2>1 DEF CacheOfPast
  <2>4. served' \in Served
    BY <1>2, <2>1 DEF Served
  <2>5. ScanNeverStale'
    BY <2>1, BudgetAssumption DEF ScanNeverStale
  <2> QED
    BY <1>1, <1>2, <2>1, <2>2, <2>3, <2>4, <2>5, AskingStep
<1>11. CASE UNCHANGED hubVars
  BY <1>11 DEF hubVars, HubInv, TypeOK, Ordered, CacheOfPast, CapHeld, ReserveHeld,
     MinuteOf, ScanNeverStale, NotedOnce
<1> QED
  BY <1>3, <1>4, <1>5, <1>6, <1>7, <1>8, <1>9, <1>10, <1>11 DEF Next

LEMMA HubInvHolds == Spec => []HubInv
<1>1. HubInv /\ [Next]_hubVars => HubInv'
  BY HubInvNext
<1> QED
  BY <1>1, HubInvInit, PTL DEF Spec

(* Every variable keeps its shape.                                         *)
THEOREM HubTypeCorrect == Spec => []TypeOK
<1>1. HubInv => TypeOK
  BY DEF HubInv
<1> QED
  BY <1>1, HubInvHolds, PTL

(* No grant but the exit feed's makes its minute exceed the cap.           *)
THEOREM CapIsHeld == Spec => []CapHeld
<1>1. HubInv => CapHeld
  BY DEF HubInv
<1> QED
  BY <1>1, HubInvHolds, PTL

(* Entry scans are granted nothing of the last fifth of the slice.         *)
THEOREM ReserveIsHeld == Spec => []ReserveHeld
<1>1. HubInv => ReserveHeld
  BY DEF HubInv
<1> QED
  BY <1>1, HubInvHolds, PTL

(* A scan never works on a chain older than twice the cache's life.        *)
THEOREM ScansAreFresh == Spec => []ScanNeverStale
<1>1. HubInv => ScanNeverStale
  BY DEF HubInv
<1> QED
  BY <1>1, HubInvHolds, PTL
(* A degraded stretch is journaled at most once.                           *)
THEOREM DegradedIsNotedOnce == Spec => []NotedOnce
<1>1. HubInv => NotedOnce
  BY DEF HubInv
<1> QED
  BY <1>1, HubInvHolds, PTL
=============================================================================
