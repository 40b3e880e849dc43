---------------------------- MODULE ShadowProofs ----------------------------
(***************************************************************************)
(* Proofs about the main shadow runner, for every market, set of lanes,    *)
(* clock, cap, and number of entries and restarts: types and the           *)
(* refinement of the book, then exposure, cap, roll, sweep, latches and    *)
(* merges.                                                                 *)
(***************************************************************************)
EXTENDS ShadowProperties, FiniteSetTheorems, TLAPS

-----------------------------------------------------------------------------
(* Types.                                                                  *)

(* A process that is down has no rows to visit.                            *)
DownIsEmpty == pc = "down" => held = {} /\ todo = {}

TypeInv == TypeOK /\ DownIsEmpty

(* The minutes of the session are natural numbers.                         *)
LEMMA Minutes ==
  /\ Cooldown \in Nat /\ OpenMinute \in Nat /\ CloseMinute \in Nat
  /\ OpenMinute .. CloseMinute \subseteq Nat
<1>1. OpenMinute \in Nat /\ CloseMinute \in Nat /\ Cooldown \in Nat
  BY SessionAssumption, Zenon
<1> QED
  BY <1>1

(* Whatever becomes of a fire, the day latches keep their shape.           *)
LEMMA LatchTypes ==
  ASSUME TypeOK, NEW k \in Key, NEW m \in Nat,
         Pending(k, m) \/ Confirmed(k, m) \/ Released(k)
  PROVE  latched' \subseteq Key /\ cooldown' \in [Key -> Nat]
<1>1. m + Cooldown + 1 \in Nat /\ tick.minute + Cooldown \in Nat
  BY Minutes, SMTT(30) DEF TypeOK, Time
<1>2. /\ latched \subseteq Key /\ cooldown \in [Key -> Nat]
      /\ latched \cup {k} \subseteq Key
      /\ [cooldown EXCEPT ![k] = m + Cooldown + 1] \in [Key -> Nat]
      /\ [cooldown EXCEPT ![k] = tick.minute + Cooldown] \in [Key -> Nat]
  BY <1>1 DEF TypeOK
<1> QED
  BY <1>2 DEF Pending, Confirmed, Released

(* The id of a row has the shape of an id.                                 *)
LEMMA IdType ==
  ASSUME NEW r \in Row
  PROVE  IdOf(r) \in Id
BY DEF IdOf, Id, Row

(* The rows are finitely many.                                             *)
LEMMA FiniteRows ==
  ASSUME TypeOK
  PROVE  IsFiniteSet(Rows) /\ \A S \in SUBSET Rows : IsFiniteSet(S)
<1>1. IsFiniteSet(Rows)
  BY FS_Interval DEF Rows, TypeOK
<1> QED
  BY <1>1, FS_Subset

(* A row written by a signal has the shape of a row.                       *)
LEMMA EntryRowType ==
  ASSUME TypeOK, NEW k \in Key, NEW n \in Dtes
  PROVE  EntryRow(k, tick.day + n) \in Row
<1>1. tick.day + n \in Nat
  BY MarketAssumption, SMTT(30) DEF TypeOK, Time
<1>2. k[2] \in Exposure /\ k[1] \in Lane
  BY DEF Key
<1> QED
  BY <1>1, <1>2 DEF EntryRow, Row, TypeOK, Time

(* A new entry row keeps what ranges over rows in its type.                *)
LEMMA AppendRowType ==
  ASSUME TypeOK, NEW r \in Row, entries' = Append(entries, r)
  PROVE  /\ entries' \in Seq(Row)
         /\ Rows \subseteq Rows'
         /\ Len(entries) + 1 \in Rows'
  BY DEF TypeOK, Rows

LEMMA TypeInvInit == Init => TypeInv
<1> SUFFICES ASSUME Init PROVE TypeInv
  OBVIOUS
<1> USE DEF Init
<1>1. /\ entries \in Seq(Row) /\ merges \in Seq(MergeRow)
      /\ exits \in Seq(ExitRow)
      /\ flagged \in Seq(Id)
  OBVIOUS
<1>2. now \in Time /\ tick \in Time
  BY DEF Time, NoTick
<1>3. cooldown \in [Key -> Nat]
  BY DEF NoKeys
<1>4. held \subseteq Rows /\ todo \subseteq Rows /\ due \subseteq Rows
  OBVIOUS
<1> QED
  BY <1>1, <1>2, <1>3, <1>4 DEF TypeInv, TypeOK, DownIsEmpty

(* The exit of a position of the sweep keeps the types.                    *)
LEMMA WriteExitType ==
  ASSUME TypeInv, pc = "sweep", NEW i \in todo,
         NEW rule \in Rule,
         WriteExit(i, rule)
  PROVE  TypeInv'
<1>1. entries[i] \in Row
  BY DEF TypeInv, TypeOK, Rows
<1>2. exits' \in Seq(ExitRow)
  BY <1>1, IdType DEF WriteExit, TypeInv, TypeOK, ExitRow
<1>3. CASE /\ held' = held \ {i} /\ tags' = {p \in tags : p[1] # i}
           /\ todo' = todo \ {i}
           /\ UNCHANGED <<pc, tick, due>>
  <2>1. tags' \subseteq held' \X Lane
    BY <1>3 DEF TypeInv, TypeOK
  <2> QED
    BY <1>2, <1>3, <2>1 DEF WriteExit, TypeInv, TypeOK, DownIsEmpty, Rows
<1>4. CASE EndTick /\ UNCHANGED <<held, tags>>
  BY <1>2, <1>4 DEF WriteExit, EndTick, TypeInv, TypeOK, DownIsEmpty, Rows, NoTick, Time
<1> QED
  BY <1>3, <1>4 DEF WriteExit

(* Every step keeps the type invariant.                                    *)
LEMMA TypeInvNext == TypeInv /\ [Next]_vars => TypeInv'
<1> SUFFICES ASSUME TypeInv, [Next]_vars
             PROVE  TypeInv'
  OBVIOUS
<1> USE DEF TypeInv, DownIsEmpty
<1>1. CASE ClockTicks
  <2>1. now \in Time
    BY DEF TypeOK
  <2>2. ASSUME now' = [now EXCEPT !.minute = @ + 1] PROVE now' \in Time
    BY <2>1, <2>2 DEF Time
  <2>3. ASSUME now' = [day |-> now.day + 1, minute |-> 0] PROVE now' \in Time
    BY <2>1, <2>3 DEF Time
  <2>4. now' \in Time
    BY <1>1, <2>2, <2>3 DEF ClockTicks
  <2> QED
    BY <1>1, <2>4 DEF ClockTicks, TypeOK, Rows, ledger, process, local
<1>2. CASE Start
  <2>1. client' \in BOOLEAN
    BY <1>2, Zenon DEF Start
  <2>2. starts' \in Nat /\ pc' = "idle"
    BY <1>2 DEF Start, TypeOK
  <2> QED
    BY <1>2, <2>1, <2>2 DEF Start, TypeOK, Rows, ledger, local
<1>3. CASE Die
  BY <1>3 DEF Die, MemoryLost, TypeOK, Rows, ledger, NoTick, NoKeys, Time
<1>4. CASE BeginTick
  BY <1>4 DEF BeginTick, TypeOK, Rows, ledger, process
<1>5. CASE Roll
  <2>1. CASE RollAbort
    BY <2>1 DEF RollAbort, TypeOK, Rows, ledger, process, local
  <2>2. CASE RollLoad
    <3>1. todo' \subseteq Rows
      BY <2>2 DEF RollLoad, OpenRows
    <3>2. cooldown' \in [Key -> Nat] /\ latched' = {}
      BY <2>2 DEF RollLoad, NoKeys
    <3> QED
      BY <2>2, <3>1, <3>2 DEF RollLoad, TypeOK, Rows, ledger
  <2>3. CASE RollDone
    <3>1. Cardinality(RowsOfDay(tick.day)) \in Nat
      BY FiniteRows, FS_CardinalityType, RowsOfDay(tick.day) \subseteq Rows DEF RowsOfDay
    <3>2. count' \in Nat /\ pday' \in Nat
      BY <2>3, <3>1 DEF RollDone, TypeOK, Time
    <3> QED
      BY <2>3, <3>2 DEF RollDone, TypeOK, Rows, ledger, local
  <2>4. ASSUME NEW i \in todo, Track(i) PROVE TypeInv'
    <3>1. entries[i] \in Row /\ i \in Rows
      BY DEF TypeOK, Rows
    <3>2. LanesOnDisk(i) \subseteq Lane
      <4>1. entries[i].lane \in Lane
        BY <3>1 DEF Row
      <4>2. ASSUME NEW n \in 1 .. Len(merges) PROVE merges[n].lane \in Lane
        <5>1. merges \in Seq(MergeRow)
          BY DEF TypeOK
        <5>2. merges[n] \in MergeRow
          BY <5>1
        <5> QED
          BY <5>2 DEF MergeRow
      <4>3. ASSUME NEW l \in LanesOnDisk(i) PROVE l \in Lane
        <5>1. CASE l = entries[i].lane
          BY <4>1, <5>1
        <5>2. CASE \E n \in 1 .. Len(merges) : l = merges[n].lane
          BY <4>2, <5>2
        <5> QED
          BY <5>1, <5>2, <4>3 DEF LanesOnDisk
      <4> QED
        BY <4>3
    <3>3. tags' \subseteq held' \X Lane
      BY <2>4, <3>2 DEF Track, TypeOK
    <3> QED
      BY <2>4, <3>1, <3>3 DEF Track, TypeOK, Rows, ledger
  <2>5. ASSUME NEW i \in todo, Flag(i) PROVE TypeInv'
    <3>1. IdOf(entries[i]) \in Id
      BY IdType DEF TypeOK, Rows
    <3>2. flagged' \in Seq(Id)
      BY <2>5, <3>1 DEF Flag, TypeOK
    <3> QED
      BY <2>5, <3>2 DEF Flag, TypeOK, Rows, process
  <2> QED
    BY <1>5, <2>1, <2>2, <2>3, <2>4, <2>5 DEF Roll
<1>6. CASE Signal
  <2> SUFFICES ASSUME NEW k \in Key, NEW m \in OpenMinute .. CloseMinute,
                      \/ FireDropped(k, m) \/ FireRaises(k, m) \/ FireDies(k, m)
                      \/ Merge(k, m) \/ Enter(k, m)
               PROVE  TypeInv'
    BY <1>6 DEF Signal
  <2>0. m \in Nat /\ k[1] \in Lane /\ k[2] \in Exposure
    BY Minutes DEF Key
  <2>1. CASE FireDropped(k, m)
    BY <2>0, <2>1, LatchTypes DEF FireDropped, TypeOK, Rows, ledger, local
  <2>2. CASE FireDies(k, m)
    BY <2>0, <2>2, LatchTypes DEF FireDies, TypeOK, Rows, ledger, local
  <2>3. CASE FireRaises(k, m)
    <3>1. tags' \subseteq held' \X Lane
      BY <2>0, <2>3 DEF FireRaises, First, Same, TypeOK
    <3> QED
      BY <2>0, <2>3, <3>1, LatchTypes
         DEF FireRaises, EndTick, TypeOK, Rows, ledger, NoTick, Time
  <2>4. CASE Merge(k, m)
    <3>1. PICK i \in First(Same(k)) :
            /\ tags' = tags \cup {<<i, k[1]>>}
            /\ merges' = IF <<i, k[1]>> \in tags THEN merges
                           ELSE Append(merges, [id |-> IdOf(entries[i]), lane |-> k[1]])
      BY <2>4 DEF Merge
    <3>2. i \in held /\ entries[i] \in Row
      BY DEF First, Same, TypeOK, Rows
    <3>3. merges' \in Seq(MergeRow)
      <4>1. [id |-> IdOf(entries[i]), lane |-> k[1]] \in MergeRow
        BY <2>0, <3>2, IdType DEF MergeRow
      <4>2. Append(merges, [id |-> IdOf(entries[i]), lane |-> k[1]])
              \in Seq(MergeRow)
        BY <4>1 DEF TypeOK
      <4>3. merges \in Seq(MergeRow)
        BY DEF TypeOK
      <4> QED
        BY <3>1, <4>2, <4>3, Zenon
    <3>4. held' = held /\ tags' \subseteq held' \X Lane
      BY <2>0, <2>4, <3>1, <3>2, SMTT(30) DEF Merge, TypeOK
    <3>5. latched' \subseteq Key /\ cooldown' \in [Key -> Nat]
      BY <2>0, <2>4, LatchTypes DEF Merge
    <3>6. CASE UNCHANGED <<pc, local>>
      BY <2>4, <3>3, <3>4, <3>5, <3>6 DEF Merge, TypeOK, Rows, local
    <3>7. CASE EndTick
      BY <2>4, <3>3, <3>4, <3>5, <3>7 DEF Merge, EndTick, TypeOK, Rows, NoTick, Time
    <3> QED
      BY <2>4, <3>6, <3>7 DEF Merge
  <2>5. CASE Enter(k, m)
    <3>1. PICK n \in Dtes : entries' = Append(entries, EntryRow(k, tick.day + n))
      BY <2>5 DEF Enter
    <3>2. /\ entries' \in Seq(Row)
          /\ Rows \subseteq Rows' /\ Len(entries) + 1 \in Rows'
      BY <3>1, EntryRowType, AppendRowType
    <3>3. latched' \subseteq Key /\ cooldown' \in [Key -> Nat]
      BY <2>0, <2>5, LatchTypes DEF Enter
    <3>4. CASE /\ held' = held \cup {Len(entries) + 1}
               /\ tags' = tags \cup {<<Len(entries) + 1, k[1]>>}
               /\ count' = count + 1
               /\ UNCHANGED <<pc, local>>
      <4>1. tags' \subseteq held' \X Lane
        BY <2>0, <3>4 DEF TypeOK
      <4>2. pc' # "down"
        BY <2>5, <3>4 DEF Enter, MayEnter, Fires
      <4> QED
        BY <2>5, <3>2, <3>3, <3>4, <4>1, <4>2, SMTT(30) DEF Enter, TypeOK, local
    <3>5. CASE EndTick /\ UNCHANGED <<held, tags, count>>
      BY <2>5, <3>2, <3>3, <3>5 DEF Enter, EndTick, TypeOK, NoTick, Time
    <3> QED
      BY <2>5, <3>4, <3>5 DEF Enter
  <2> QED
    BY <2>1, <2>2, <2>3, <2>4, <2>5
<1>7. CASE Sweep
  <2>1. CASE BeginSweep
    BY <2>1 DEF BeginSweep, TypeOK, Rows, ledger, process
  <2>2. CASE SweepDone
    BY <2>2 DEF SweepDone, EndTick, TypeOK, Rows, ledger, process, NoTick, Time
  <2>3. ASSUME NEW i \in todo, ForceExit(i) \/ FlattenLate(i) \/ Sell(i) PROVE TypeInv'
    BY <2>3, WriteExitType DEF Rule, ForceExit, FlattenLate, Sell
  <2>4. ASSUME NEW i \in todo, Hold(i) PROVE TypeInv'
    BY <2>4 DEF Hold, TypeOK, Rows, ledger, process
  <2> QED
    BY <1>7, <2>1, <2>2, <2>3, <2>4 DEF Sweep
<1>8. CASE TickFails
  BY <1>8 DEF TickFails, EndTick, TypeOK, Rows, ledger, process, NoTick, Time
<1>9. CASE UNCHANGED vars
  BY <1>9 DEF vars, TypeOK, Rows
<1> QED
  BY <1>1, <1>2, <1>3, <1>4, <1>5, <1>6, <1>7, <1>8, <1>9 DEF Next, Step

(* Every variable keeps its shape, in every behaviour, whatever the disk   *)
(* does.                                                                   *)
THEOREM ShadowTypeCorrect == Spec => []TypeOK
<1>1. TypeInv => TypeOK
  BY DEF TypeInv
<1> QED
  BY <1>1, TypeInvInit, TypeInvNext, PTL DEF Spec

-----------------------------------------------------------------------------
(* The books.                                                              *)

(* The sequence number of a row lies below the number of its day's rows.   *)
SeqBelow == \A i \in Rows : entries[i].seq < Cardinality(RowsOfDay(entries[i].day))

(* entries_today is the number of rows the day has on file.                *)
Counted == pday # 0 => count = Cardinality(RowsOfDay(pday))

UniqueIds == \A i, j \in Rows : IdOf(entries[i]) = IdOf(entries[j]) => i = j

(* An exit row names an entry row.                                         *)
ExitsEntered ==
  \A k \in 1 .. Len(exits) : \E i \in Rows : exits[k].id = IdOf(entries[i])

(* What is in memory, and what a loop has to visit, is open.               *)
HeldOpen == held \subseteq OpenRows

TodoOpen ==
  /\ pc = "sweep" => todo \subseteq held
  /\ pc = "rebuild" => todo \subseteq OpenRows

BooksInv == TypeInv /\ SeqBelow /\ Counted /\ UniqueIds /\ ExitsEntered /\ HeldOpen
              /\ TodoOpen

(* What an entry does when no append raises late.                          *)
LEMMA EnterEffect ==
  ASSUME TypeInv, "late" \notin Faults, NEW k \in Key, NEW m, Enter(k, m)
  PROVE  /\ entries' \in Seq(Row)
         /\ Rows' = Rows \cup {Len(entries) + 1} /\ Len(entries) + 1 \notin Rows
         /\ \A i \in Rows : entries'[i] = entries[i]
         /\ entries'[Len(entries) + 1] \in Row
         /\ entries'[Len(entries) + 1].exp = k[2]
         /\ entries'[Len(entries) + 1].lane = k[1]
         /\ entries'[Len(entries) + 1].expiry >= tick.day
         /\ entries'[Len(entries) + 1].day = pday
         /\ entries'[Len(entries) + 1].seq = count
         /\ entries'[Len(entries) + 1].proc = starts
         /\ held' = held \cup {Len(entries) + 1}
         /\ tags' = tags \cup {<<Len(entries) + 1, k[1]>>}
         /\ count' = count + 1
         /\ pc = "bars" /\ pday # 0
         /\ UNCHANGED <<merges, exits, flagged, now, starts, pc, client, pday, tick,
                         todo, due>>
<1>1. PICK n \in Dtes : entries' = Append(entries, EntryRow(k, tick.day + n))
  BY DEF Enter
<1> DEFINE r == EntryRow(k, tick.day + n)
<1>2. r \in Row
  BY EntryRowType DEF TypeInv
<1>3. n \in Nat /\ tick.day \in Nat
  BY MarketAssumption DEF TypeInv, TypeOK, Time
<1>4. /\ r.exp = k[2] /\ r.lane = k[1] /\ r.expiry >= tick.day
      /\ r.day = pday /\ r.seq = count /\ r.proc = starts
  BY <1>3 DEF EntryRow
<1> HIDE DEF r
<1>5. /\ entries' \in Seq(Row) /\ Len(entries) \in Nat
      /\ Len(entries') = Len(entries) + 1
      /\ \A i \in 1 .. Len(entries) : entries'[i] = entries[i]
      /\ entries'[Len(entries) + 1] = r
  BY <1>1, <1>2 DEF TypeInv, TypeOK, r
<1>6. Rows' = Rows \cup {Len(entries) + 1} /\ Len(entries) + 1 \notin Rows
  BY <1>5 DEF Rows
<1>7. \A i \in Rows : entries'[i] = entries[i]
  BY <1>5 DEF Rows
<1>8. /\ held' = held \cup {Len(entries) + 1}
      /\ tags' = tags \cup {<<Len(entries) + 1, k[1]>>}
      /\ count' = count + 1
      /\ UNCHANGED <<pc, tick, todo, due>>
  BY DEF Enter, local
<1>9. /\ pc = "bars" /\ pday # 0
      /\ UNCHANGED <<merges, exits, flagged, now, starts, client, pday>>
  BY DEF Enter, MayEnter, Fires
<1> QED
  BY <1>2, <1>4, <1>5, <1>6, <1>7, <1>8, <1>9

(* The id of a new row is no row's, and no exit's.                         *)
LEMMA NewIdIsNew ==
  ASSUME BooksInv, "late" \notin Faults, NEW k \in Key, NEW m, Enter(k, m)
  PROVE  /\ \A i \in Rows : IdOf(entries[i]) # IdOf(entries'[Len(entries) + 1])
         /\ IdOf(entries'[Len(entries) + 1]) \notin ExitedIds
<1> DEFINE r == entries'[Len(entries) + 1]
<1>1. pday # 0 /\ r.day = pday /\ r.seq = count
  BY EnterEffect DEF BooksInv
<1>2. ASSUME NEW i \in Rows, IdOf(entries[i]) = IdOf(r) PROVE FALSE
  <2>1. entries[i].day = pday /\ entries[i].seq = count
    BY <1>1, <1>2 DEF IdOf
  <2>2. entries[i].seq < Cardinality(RowsOfDay(pday))
    BY <2>1 DEF BooksInv, SeqBelow
  <2>3. count = Cardinality(RowsOfDay(pday)) /\ count \in Nat
    BY <1>1 DEF BooksInv, Counted, TypeInv, TypeOK
  <2> QED
    BY <2>1, <2>2, <2>3
<1>3. \A x \in ExitedIds : \E i \in Rows : x = IdOf(entries[i])
  BY DEF BooksInv, ExitsEntered, ExitedIds
<1> QED
  BY <1>2, <1>3

(* A new row is open, and leaves the open rows open.                       *)
LEMMA EnterOpens ==
  ASSUME BooksInv, "late" \notin Faults, NEW k \in Key, NEW m, Enter(k, m)
  PROVE  /\ OpenRows' = OpenRows \cup {Len(entries) + 1}
         /\ ExitedIds' = ExitedIds
<1>1. /\ Rows' = Rows \cup {Len(entries) + 1}
      /\ \A i \in Rows : entries'[i] = entries[i]
      /\ exits' = exits
  BY EnterEffect DEF BooksInv
<1>2. ExitedIds' = ExitedIds
  BY <1>1 DEF ExitedIds
<1>3. IdOf(entries'[Len(entries) + 1]) \notin ExitedIds
  BY NewIdIsNew
<1>4. OpenRows' = {i \in Rows' : IdOf(entries'[i]) \notin ExitedIds}
  BY <1>2 DEF OpenRows, IdOf
<1> QED
  BY <1>1, <1>2, <1>3, <1>4 DEF OpenRows

(* What the exit of a position does when no append raises late.            *)
LEMMA ExitEffect ==
  ASSUME TypeInv, "late" \notin Faults, NEW i \in todo, NEW rule, WriteExit(i, rule)
  PROVE  /\ Len(exits) \in Nat /\ Len(exits') = Len(exits) + 1
         /\ \A k \in 1 .. Len(exits) : exits'[k] = exits[k]
         /\ exits'[Len(exits) + 1].id = IdOf(entries[i])
         /\ ExitedIds' = ExitedIds \cup {IdOf(entries[i])}
         /\ Rows' = Rows
         /\ held' = held \ {i} /\ tags' = {p \in tags : p[1] # i}
         /\ todo' = todo \ {i}
         /\ UNCHANGED <<entries, merges, flagged, now, starts, pc, client, pday, count,
                         latched, cooldown, tick, due>>
<1>1. /\ held' = held \ {i} /\ tags' = {p \in tags : p[1] # i}
      /\ todo' = todo \ {i}
      /\ UNCHANGED <<entries, merges, flagged, now, starts, pc, client, pday, count,
                      latched, cooldown, tick, due>>
  BY DEF WriteExit
<1>2. exits \in Seq(ExitRow) /\ exits' = Append(exits, [id |-> IdOf(entries[i]), rule |-> rule])
  BY DEF WriteExit, TypeInv, TypeOK
<1>3. /\ Len(exits) \in Nat /\ Len(exits') = Len(exits) + 1
      /\ \A k \in 1 .. Len(exits) : exits'[k] = exits[k]
      /\ exits'[Len(exits) + 1].id = IdOf(entries[i])
  BY <1>2
<1>4. ExitedIds' = ExitedIds \cup {IdOf(entries[i])}
  BY <1>3 DEF ExitedIds
<1> QED
  BY <1>1, <1>3, <1>4 DEF Rows

(* The exit of a position closes that row and no other.                    *)
LEMMA ExitCloses ==
  ASSUME BooksInv, "late" \notin Faults, pc = "sweep", NEW i \in todo, NEW rule,
         WriteExit(i, rule)
  PROVE  i \in OpenRows /\ OpenRows' = OpenRows \ {i}
<1>1. i \in held /\ i \in OpenRows /\ i \in Rows
  BY DEF BooksInv, TodoOpen, HeldOpen, OpenRows
<1>2. /\ ExitedIds' = ExitedIds \cup {IdOf(entries[i])}
      /\ Rows' = Rows /\ entries' = entries
  BY ExitEffect DEF BooksInv
<1>3. OpenRows' = {j \in Rows : IdOf(entries[j]) \notin ExitedIds \cup {IdOf(entries[i])}}
  BY <1>2 DEF OpenRows, IdOf
<1>4. \A j \in Rows : IdOf(entries[j]) = IdOf(entries[i]) => j = i
  BY <1>1 DEF BooksInv, UniqueIds
<1> QED
  BY <1>1, <1>3, <1>4 DEF OpenRows

LEMMA BooksInvInit == Init => BooksInv
<1> SUFFICES ASSUME Init PROVE BooksInv
  OBVIOUS
<1>1. TypeInv
  BY TypeInvInit
<1>2. Rows = {} /\ 1 .. Len(exits) = {} /\ pday = 0 /\ held = {} /\ pc = "down"
  BY DEF Init, Rows
<1> QED
  BY <1>1, <1>2 DEF BooksInv, SeqBelow, Counted, UniqueIds, ExitsEntered, HeldOpen, TodoOpen

(* A step that writes no entry and no exit leaves the rows as they are.    *)
LEMMA QuietRows ==
  ASSUME UNCHANGED <<entries, exits>>
  PROVE  /\ Rows' = Rows /\ ExitedIds' = ExitedIds /\ OpenRows' = OpenRows
         /\ \A d : RowsOfDay(d)' = RowsOfDay(d)
BY DEF Rows, ExitedIds, OpenRows, RowsOfDay, IdOf

LEMMA QuietBooks ==
  ASSUME BooksInv, UNCHANGED <<entries, exits>>, TypeInv',
         pday' # 0 => count' = Cardinality(RowsOfDay(pday')),
         held' \subseteq OpenRows,
         pc' = "sweep" => todo' \subseteq held',
         pc' = "rebuild" => todo' \subseteq OpenRows
  PROVE  BooksInv'
<1>1. /\ Rows' = Rows /\ ExitedIds' = ExitedIds /\ OpenRows' = OpenRows
      /\ entries' = entries /\ exits' = exits
  BY QuietRows
<1>2. \A i \in Rows : RowsOfDay(entries[i].day)' = RowsOfDay(entries[i].day)
  BY <1>1 DEF RowsOfDay
<1>3. SeqBelow'
  BY <1>1, <1>2 DEF BooksInv, SeqBelow, RowsOfDay
<1>4. Counted'
  BY <1>1 DEF Counted, RowsOfDay
<1>5. UniqueIds' /\ ExitsEntered'
  BY <1>1 DEF BooksInv, UniqueIds, ExitsEntered, IdOf
<1>6. HeldOpen' /\ TodoOpen'
  BY <1>1 DEF HeldOpen, TodoOpen
<1> QED
  BY <1>3, <1>4, <1>5, <1>6 DEF BooksInv

(* An entry takes the next number of its day.                              *)
LEMMA EnterBooks ==
  ASSUME BooksInv, "late" \notin Faults, NEW k \in Key, NEW m, Enter(k, m), TypeInv'
  PROVE  BooksInv'
<1> DEFINE n == Len(entries) + 1
<1>1. /\ Rows' = Rows \cup {n} /\ n \notin Rows
      /\ \A i \in Rows : entries'[i] = entries[i]
      /\ entries'[n].day = pday /\ entries'[n].seq = count
      /\ held' = held \cup {n} /\ count' = count + 1
      /\ pday # 0 /\ pc = "bars"
      /\ UNCHANGED <<exits, pc, pday>>
  BY EnterEffect DEF BooksInv
<1>2. OpenRows' = OpenRows \cup {n}
  BY EnterOpens
<1>3. \A i \in Rows : IdOf(entries[i]) # IdOf(entries'[n])
  BY NewIdIsNew
<1>4. /\ \A d : IsFiniteSet(RowsOfDay(d)) /\ Cardinality(RowsOfDay(d)) \in Nat
  <2>1. \A d : RowsOfDay(d) \subseteq Rows
    BY DEF RowsOfDay
  <2> QED
    BY <2>1, FiniteRows, FS_CardinalityType DEF BooksInv, TypeInv
<1> HIDE DEF n
<1>5. \A d : RowsOfDay(d)' = IF d = pday THEN RowsOfDay(d) \cup {n} ELSE RowsOfDay(d)
  BY <1>1 DEF RowsOfDay
<1>6. /\ n \notin RowsOfDay(pday)
      /\ Cardinality(RowsOfDay(pday) \cup {n}) = Cardinality(RowsOfDay(pday)) + 1
  <2>1. n \notin RowsOfDay(pday)
    BY <1>1 DEF RowsOfDay
  <2>2. IsFiniteSet(RowsOfDay(pday))
    BY <1>4
  <2>3. Cardinality(RowsOfDay(pday) \cup {n}) = Cardinality(RowsOfDay(pday)) + 1
    BY <2>1, <2>2, FS_AddElement, Zenon
  <2> QED
    BY <2>1, <2>3
<1>7. count = Cardinality(RowsOfDay(pday))
  BY <1>1 DEF BooksInv, Counted
<1>8. SeqBelow'
  <2>1. ASSUME NEW i \in Rows'
        PROVE  (entries[i].seq)' < Cardinality(RowsOfDay(entries[i].day)')
    <3>1. CASE i = n
      BY <1>1, <1>4, <1>5, <1>6, <1>7, <3>1
    <3>2. CASE i \in Rows
      <4>1. entries'[i] = entries[i] /\ entries[i] \in Row
        BY <1>1, <3>2 DEF BooksInv, TypeInv, TypeOK, Rows
      <4>2. entries[i].seq < Cardinality(RowsOfDay(entries[i].day)) /\ entries[i].seq \in Nat
        BY <3>2, <4>1 DEF BooksInv, SeqBelow, Row
      <4>3. CASE entries[i].day = pday
        BY <1>4, <1>5, <1>6, <4>1, <4>2, <4>3
      <4>4. CASE entries[i].day # pday
        BY <1>5, <4>1, <4>2, <4>4
      <4> QED
        BY <4>3, <4>4
    <3> QED
      BY <1>1, <3>1, <3>2
  <2> QED
    BY <2>1 DEF SeqBelow, RowsOfDay
<1>9. Counted'
  BY <1>1, <1>5, <1>6, <1>7 DEF Counted
<1>10. UniqueIds'
  BY <1>1, <1>3 DEF BooksInv, UniqueIds, IdOf
<1>11. ExitsEntered'
  <2>1. ASSUME NEW x \in 1 .. Len(exits)
        PROVE  \E i \in Rows' : exits[x].id = IdOf(entries'[i])
    <3>1. PICK i \in Rows : exits[x].id = IdOf(entries[i])
      BY DEF BooksInv, ExitsEntered
    <3> QED
      BY <1>1, <3>1
  <2> QED
    BY <1>1, <2>1 DEF ExitsEntered, IdOf
<1>12. HeldOpen' /\ TodoOpen'
  BY <1>1, <1>2 DEF BooksInv, HeldOpen, TodoOpen
<1> QED
  BY <1>8, <1>9, <1>10, <1>11, <1>12 DEF BooksInv

LEMMA ExitBooks ==
  ASSUME BooksInv, "late" \notin Faults, pc = "sweep", NEW i \in todo, NEW rule,
         WriteExit(i, rule), TypeInv'
  PROVE  BooksInv'
<1>1. /\ entries' = entries /\ Rows' = Rows
      /\ held' = held \ {i} /\ todo' = todo \ {i}
      /\ UNCHANGED <<pc, pday, count>>
      /\ Len(exits) \in Nat /\ Len(exits') = Len(exits) + 1
      /\ \A x \in 1 .. Len(exits) : exits'[x] = exits[x]
      /\ exits'[Len(exits) + 1].id = IdOf(entries[i])
  BY ExitEffect DEF BooksInv
<1>2. OpenRows' = OpenRows \ {i} /\ i \in Rows
  BY ExitCloses DEF OpenRows
<1>3. SeqBelow' /\ Counted'
  BY <1>1 DEF BooksInv, SeqBelow, Counted, RowsOfDay
<1>4. UniqueIds'
  BY <1>1 DEF BooksInv, UniqueIds, IdOf
<1>5. ExitsEntered'
  <2>1. \A x \in 1 .. Len(exits) : \E m \in Rows : exits[x].id = IdOf(entries[m])
    BY DEF BooksInv, ExitsEntered
  <2>2. \A x \in 1 .. Len(exits') : x = Len(exits) + 1 \/ x \in 1 .. Len(exits)
    BY <1>1
  <2>3. \A x \in 1 .. Len(exits') : \E m \in Rows : exits'[x].id = IdOf(entries[m])
    BY <1>1, <1>2, <2>1, <2>2
  <2> QED
    BY <1>1, <2>3 DEF ExitsEntered, IdOf
<1>6. HeldOpen' /\ TodoOpen'
  BY <1>1, <1>2 DEF BooksInv, HeldOpen, TodoOpen
<1> QED
  BY <1>3, <1>4, <1>5, <1>6 DEF BooksInv

(* Every step keeps the books, as long as the disk is good.                *)
LEMMA BooksInvNext ==
  ASSUME "late" \notin Faults, "tolerant" \notin Faults, BooksInv, [Next]_vars
  PROVE  BooksInv'
<1>0. TypeInv'
  BY TypeInvNext DEF BooksInv
<1> USE DEF BooksInv
<1>c. pday # 0 => count = Cardinality(RowsOfDay(pday))
  BY DEF Counted
<1>1. CASE ClockTicks \/ Start \/ BeginTick \/ UNCHANGED vars
  BY <1>0, <1>1, <1>c, QuietBooks
     DEF ClockTicks, Start, BeginTick, vars, ledger, process, local, HeldOpen, TodoOpen
<1>2. CASE Die
  BY <1>0, <1>2, QuietBooks DEF Die, MemoryLost, ledger
<1>3. CASE Roll
  <2>1. CASE RollAbort
    BY <1>0, <1>c, <2>1, QuietBooks DEF RollAbort, ledger, process, local, HeldOpen
  <2>2. CASE RollLoad
    BY <1>0, <1>c, <2>2, QuietBooks DEF RollLoad, ledger
  <2>3. CASE RollDone
    <3>1. count' = Cardinality(RowsOfDay(tick.day)) /\ pday' = tick.day /\ pc' = "bars"
      BY <2>3 DEF RollDone
    <3> QED
      BY <1>0, <2>3, <3>1, QuietBooks DEF RollDone, ledger, HeldOpen
  <2>4. ASSUME NEW i \in todo, Track(i) PROVE BooksInv'
    BY <1>0, <1>c, <2>4, QuietBooks DEF Track, ledger, HeldOpen, TodoOpen
  <2>5. ASSUME NEW i \in todo, Flag(i) PROVE BooksInv'
    BY <1>0, <1>c, <2>5, QuietBooks DEF Flag, process, HeldOpen, TodoOpen
  <2> QED
    BY <1>3, <2>1, <2>2, <2>3, <2>4, <2>5 DEF Roll
<1>4. CASE Signal
  <2> SUFFICES ASSUME NEW k \in Key, NEW m \in OpenMinute .. CloseMinute,
                      \/ FireDropped(k, m) \/ FireRaises(k, m) \/ FireDies(k, m)
                      \/ Merge(k, m) \/ Enter(k, m)
               PROVE  BooksInv'
    BY <1>4 DEF Signal
  <2>1. CASE FireDropped(k, m) \/ FireDies(k, m)
    BY <1>0, <1>c, <2>1, QuietBooks
       DEF FireDropped, FireDies, Fires, ledger, local, HeldOpen, TodoOpen
  <2>2. CASE FireRaises(k, m)
    BY <1>0, <1>c, <2>2, QuietBooks DEF FireRaises, EndTick, ledger, HeldOpen
  <2>3. CASE Merge(k, m)
    <3>1. pc' = pc /\ pc = "bars" /\ UNCHANGED <<entries, exits, held, pday, count>>
      BY <2>3 DEF Merge, Fires, local
    <3> QED
      BY <1>0, <1>c, <3>1, QuietBooks DEF HeldOpen
  <2>4. CASE Enter(k, m)
    BY <1>0, <2>4, EnterBooks
  <2> QED
    BY <2>1, <2>2, <2>3, <2>4
<1>5. CASE Sweep
  <2>1. CASE BeginSweep
    BY <1>0, <1>c, <2>1, QuietBooks DEF BeginSweep, ledger, process, HeldOpen
  <2>2. CASE SweepDone
    BY <1>0, <1>c, <2>2, QuietBooks DEF SweepDone, EndTick, ledger, process, HeldOpen
  <2>3. ASSUME NEW i \in todo, ForceExit(i) \/ FlattenLate(i) \/ Sell(i) PROVE BooksInv'
    BY <1>0, <2>3, ExitBooks DEF ForceExit, FlattenLate, Sell
  <2>4. ASSUME NEW i \in todo, Hold(i) PROVE BooksInv'
    BY <1>0, <1>c, <2>4, QuietBooks DEF Hold, ledger, process, HeldOpen, TodoOpen
  <2> QED
    BY <1>5, <2>1, <2>2, <2>3, <2>4 DEF Sweep
<1>6. CASE TickFails
  BY <1>0, <1>c, <1>6, QuietBooks DEF TickFails, EndTick, ledger, process, HeldOpen
<1> QED
  BY <1>1, <1>2, <1>3, <1>4, <1>5, <1>6 DEF Next, Step

-----------------------------------------------------------------------------
(* The ledger as a position book.                                          *)

LEMMA BookLogs ==
  /\ Book!Logged(BookEntered) = {IdOf(entries[i]) : i \in Rows}
  /\ Book!Logged(BookExited) = ExitedIds
  BY DEF Book!Logged, BookEntered, BookExited, ExitedIds

LEMMA EntryEnters ==
  ASSUME BooksInv, "late" \notin Faults, NEW k \in Key, NEW m, Enter(k, m)
  PROVE  Book!Next
<1> DEFINE n == Len(entries) + 1
           r == entries'[n]
<1>1. /\ r \in Row /\ exits' = exits
      /\ Rows' = Rows \cup {n} /\ n \notin Rows
      /\ \A i \in Rows : entries'[i] = entries[i]
  BY EnterEffect DEF BooksInv
<1>2. \A i \in Rows : IdOf(entries[i]) # IdOf(r)
  BY NewIdIsNew
<1>3. IdOf(r) \in Id
  BY <1>1, IdType
<1>4. IdOf(r) \in Id \ Book!Logged(BookEntered)
  BY <1>2, <1>3, BookLogs
<1>5. Len(entries) \in Nat /\ Rows = 1 .. Len(entries) /\ Rows' = 1 .. n
  <2>1. Len(entries) \in Nat /\ Rows = 1 .. Len(entries)
    BY DEF Rows, BooksInv, TypeInv, TypeOK
  <2>2. 1 .. n = (1 .. Len(entries)) \cup {n}
    BY <2>1
  <2> QED
    BY <1>1, <2>1, <2>2
<1> HIDE DEF r
<1>6. BookEntered' = Append(BookEntered, IdOf(r))
  <2>1. BookEntered = [i \in 1 .. Len(entries) |-> IdOf(entries[i])]
    BY <1>5 DEF BookEntered
  <2>2. BookEntered' = [i \in 1 .. Len(entries) + 1 |-> IdOf(entries'[i])]
    BY <1>5 DEF BookEntered, IdOf
  <2>3. \A i \in 1 .. Len(entries) : entries'[i] = entries[i]
    BY <1>1, <1>5
  <2> QED
    BY <1>5, <2>1, <2>2, <2>3 DEF r
<1>7. BookExited' = BookExited
  BY <1>1 DEF BookExited
<1>8. IdOf(r) \in Book!Logged(BookEntered')
  <2>1. DOMAIN BookEntered' = 1 .. n /\ n \in 1 .. n /\ BookEntered'[n] = IdOf(r)
    BY <1>5 DEF BookEntered, IdOf, r
  <2> QED
    BY <2>1 DEF Book!Logged
<1> QED
  BY <1>4, <1>6, <1>7, <1>8 DEF Book!Next, Book!Enter, BookEntered, BookExited

LEMMA ClosingExits ==
  ASSUME BooksInv, "late" \notin Faults, pc = "sweep", NEW i \in todo, NEW rule,
         WriteExit(i, rule)
  PROVE  Book!Next
<1> DEFINE id == IdOf(entries[i])
<1>1. i \in OpenRows /\ i \in Rows
  BY ExitCloses DEF OpenRows
<1>2. id \in Book!Logged(BookEntered) \ Book!Logged(BookExited)
  BY <1>1, BookLogs DEF OpenRows
<1>3. /\ Len(exits') = Len(exits) + 1 /\ Len(exits) \in Nat
      /\ \A k \in 1 .. Len(exits) : exits'[k] = exits[k]
      /\ exits'[Len(exits) + 1].id = id
      /\ entries' = entries /\ Rows' = Rows
  BY ExitEffect DEF BooksInv
<1> HIDE DEF id
<1>4. BookExited' = Append(BookExited, id)
  BY <1>3 DEF BookExited
<1>5. BookEntered' = BookEntered
  BY <1>3 DEF BookEntered, IdOf
<1>6. id \in Book!Logged(BookExited')
  <2>1. /\ DOMAIN BookExited' = 1 .. Len(exits) + 1
        /\ BookExited'[Len(exits) + 1] = id
        /\ Len(exits) + 1 \in 1 .. Len(exits) + 1
    BY <1>3 DEF BookExited
  <2> QED
    BY <2>1 DEF Book!Logged
<1> QED
  BY <1>2, <1>4, <1>5, <1>6 DEF Book!Next, Book!Exit, BookEntered, BookExited

LEMMA BookStutters ==
  ASSUME UNCHANGED <<entries, exits>>
  PROVE  UNCHANGED Book!bookVars
  BY DEF Book!bookVars, BookEntered, BookExited, Rows, IdOf

(* Every step of the process is a step of the book or a stutter.           *)
LEMMA BookStep ==
  ASSUME BooksInv, "late" \notin Faults, [Next]_vars
  PROVE  [Book!Next]_(Book!bookVars)
<1>1. CASE ClockTicks \/ Start \/ Die \/ BeginTick \/ TickFails \/ UNCHANGED vars
  BY <1>1, BookStutters
     DEF ClockTicks, Start, Die, BeginTick, TickFails, vars, ledger
<1>2. CASE Roll
  BY <1>2, BookStutters DEF Roll, RollAbort, RollLoad, RollDone, Track, Flag, ledger
<1>3. CASE Signal
  <2>1. PICK k \in Key, m \in OpenMinute .. CloseMinute :
          \/ FireDropped(k, m) \/ FireRaises(k, m) \/ FireDies(k, m)
          \/ Merge(k, m) \/ Enter(k, m)
    BY <1>3 DEF Signal
  <2>2. CASE Enter(k, m)
    BY <2>2, EntryEnters
  <2>3. CASE ~Enter(k, m)
    BY <2>1, <2>3, BookStutters DEF FireDropped, FireRaises, FireDies, Merge, ledger
  <2> QED
    BY <2>2, <2>3
<1>4. CASE Sweep
  <2>1. CASE BeginSweep \/ SweepDone \/ \E i \in todo : Hold(i)
    BY <2>1, BookStutters DEF BeginSweep, SweepDone, Hold, ledger
  <2>2. ASSUME NEW i \in todo, ForceExit(i) \/ FlattenLate(i) \/ Sell(i) PROVE Book!Next
    BY <2>2, ClosingExits DEF ForceExit, FlattenLate, Sell
  <2> QED
    BY <1>4, <2>1, <2>2 DEF Sweep
<1> QED
  BY <1>1, <1>2, <1>3, <1>4 DEF Next, Step

(* No position id is entered twice, exited twice or exited before it is    *)
(* entered, however often the process dies, rolls and rebuilds, also when  *)
(* a roll breaks off between two positions and the tick goes on under the  *)
(* previous day, as long as an append that raises has written nothing and  *)
(* every ledger read either succeeds or is known to have failed.           *)
THEOREM ShadowLedgerImplementsBook ==
  ASSUME "late" \notin Faults, "tolerant" \notin Faults
  PROVE  Spec => BookRefined
<1>1. Init => Book!Init
  BY DEF Init, Book!Init, BookEntered, BookExited, Rows
<1>2. BooksInv /\ [Next]_vars => BooksInv'
  BY BooksInvNext
<1>3. BooksInv /\ [Next]_vars => [Book!Next]_(Book!bookVars)
  BY BookStep
<1> QED
  BY <1>1, <1>2, <1>3, BooksInvInit, PTL DEF Spec, BookRefined, Book!Spec

-----------------------------------------------------------------------------
(* Nothing open escapes a roll, and no exposure is opened twice.           *)

Noted(i, d) == entries[i].expiry < d /\ IdOf(entries[i]) \in FlaggedIds

(* Every open row is in memory, still to be rebuilt, or noted as expired.  *)
Tracked ==
  /\ pday # 0 /\ pc # "rebuild" =>
       \A i \in OpenRows : i \in held \/ Noted(i, pday)
  /\ pc = "rebuild" =>
       \A i \in OpenRows : i \in held \cup todo \/ Noted(i, tick.day)

TrackInv == BooksInv /\ Tracked /\ OneExposure

LEMMA TrackInvInit == Init => TrackInv
<1> SUFFICES ASSUME Init PROVE TrackInv
  OBVIOUS
<1>1. BooksInv
  BY BooksInvInit
<1>2. Rows = {} /\ OpenRows = {} /\ pday = 0 /\ pc = "down"
  BY DEF Init, Rows, OpenRows
<1> QED
  BY <1>1, <1>2 DEF TrackInv, Tracked, OneExposure

(* A step that leaves rows, memory and flags alone, between two points at  *)
(* which memory is complete.                                               *)
LEMMA QuietTracked ==
  ASSUME Tracked, UNCHANGED <<entries, exits, flagged, held>>,
         pday' = pday, pc # "rebuild", pc' # "rebuild"
  PROVE  Tracked'
<1>1. OpenRows' = OpenRows /\ FlaggedIds' = FlaggedIds
  BY QuietRows DEF FlaggedIds
<1> QED
  BY <1>1 DEF Tracked, Noted, IdOf

LEMMA QuietExposure ==
  ASSUME OneExposure, UNCHANGED <<entries, exits>>
  PROVE  OneExposure'
<1>1. OpenRows' = OpenRows
  BY QuietRows
<1> QED
  BY <1>1 DEF OneExposure

LEMMA EnterTracked ==
  ASSUME TrackInv, "late" \notin Faults, NEW k \in Key, NEW m, Enter(k, m)
  PROVE  Tracked' /\ OneExposure'
<1> DEFINE n == Len(entries) + 1
<1>1. /\ Rows' = Rows \cup {n} /\ n \notin Rows
      /\ \A i \in Rows : entries'[i] = entries[i]
      /\ entries'[n].exp = k[2] /\ entries'[n].day = pday
      /\ held' = held \cup {n}
      /\ pc = "bars" /\ pday # 0
      /\ UNCHANGED <<flagged, pc, pday, tick>>
  BY EnterEffect DEF TrackInv, BooksInv
<1>2. OpenRows' = OpenRows \cup {n} /\ OpenRows \subseteq Rows /\ FlaggedIds' = FlaggedIds
  BY <1>1, EnterOpens DEF TrackInv, OpenRows, FlaggedIds
<1>3. n \in Nat /\ Rows = 1 .. Len(entries) /\ Len(entries) \in Nat
  BY DEF TrackInv, BooksInv, TypeInv, TypeOK, Rows
<1>4. \A i \in Rows : i < n /\ i \in Nat
  BY <1>3
<1> HIDE DEF n
<1>5. \A i \in OpenRows : i \in held \/ Noted(i, pday)
  BY <1>1 DEF TrackInv, Tracked
<1>6. Tracked'
  BY <1>1, <1>2, <1>5 DEF Tracked, Noted, IdOf
<1>7. \A i \in held : entries[i].exp # k[2]
  BY DEF Enter, MayEnter, Same
<1>8. OneExposure'
  <2> SUFFICES ASSUME NEW i \in OpenRows', NEW j \in OpenRows', i < j,
                      entries'[i].exp = entries'[j].exp
               PROVE  entries'[i].expiry < entries'[j].day
    BY DEF OneExposure
  <2>1. CASE i \in Rows /\ j \in Rows
    BY <1>1, <1>2, <2>1 DEF TrackInv, OneExposure
  <2>2. CASE i \in Rows /\ j = n
    BY <1>1, <1>2, <1>5, <1>7, <2>2 DEF Noted
  <2>3. CASE i = n
    BY <1>1, <1>2, <1>3, <1>4, <2>3
  <2> QED
    BY <1>1, <1>2, <2>1, <2>2, <2>3
<1> QED
  BY <1>6, <1>8

LEMMA ExitTracked ==
  ASSUME TrackInv, "late" \notin Faults, pc = "sweep", NEW i \in todo, NEW rule,
         WriteExit(i, rule)
  PROVE  Tracked' /\ OneExposure'
<1>1. /\ held' = held \ {i}
      /\ UNCHANGED <<entries, flagged, pc, pday, tick>>
  BY ExitEffect DEF TrackInv, BooksInv
<1>2. OpenRows' = OpenRows \ {i} /\ FlaggedIds' = FlaggedIds
  BY <1>1, ExitCloses DEF TrackInv, FlaggedIds
<1> QED
  BY <1>1, <1>2 DEF TrackInv, Tracked, OneExposure, Noted, IdOf

LEMMA TrackInvNext ==
  ASSUME Faults = {}, TrackInv, [Next]_vars
  PROVE  TrackInv'
<1>0. BooksInv'
  BY BooksInvNext DEF TrackInv
<1> SUFFICES Tracked' /\ OneExposure'
  BY <1>0 DEF TrackInv
<1> USE DEF TrackInv
<1>1. CASE ClockTicks \/ Start \/ BeginTick \/ UNCHANGED vars
  <2>1. UNCHANGED <<entries, exits, flagged, held, tick>> \/ BeginTick
    BY <1>1 DEF ClockTicks, Start, vars, ledger, process, local
  <2>2. CASE BeginTick
    BY <2>2, QuietTracked, QuietExposure DEF BeginTick, ledger, process
  <2>3. CASE Start
    BY <2>3, QuietTracked, QuietExposure DEF Start, ledger
  <2>4. CASE ClockTicks \/ UNCHANGED vars
    <3>1. /\ OpenRows' = OpenRows /\ FlaggedIds' = FlaggedIds
          /\ UNCHANGED <<entries, exits, held, todo, tick, pc, pday>>
      BY <2>4, QuietRows DEF ClockTicks, vars, ledger, process, local, FlaggedIds
    <3> QED
      BY <3>1, QuietExposure DEF Tracked, Noted, IdOf
  <2> QED
    BY <1>1, <2>2, <2>3, <2>4
<1>2. CASE Die
  <2>1. pday' = 0 /\ pc' = "down" /\ UNCHANGED <<entries, exits>>
    BY <1>2 DEF Die, MemoryLost, ledger
  <2> QED
    BY <2>1, QuietExposure DEF Tracked
<1>3. CASE Roll
  <2>0. OneExposure'
    BY <1>3, QuietExposure DEF Roll, RollAbort, RollLoad, RollDone, Track, Flag, ledger
  <2>1. CASE RollAbort
    BY <2>0, <2>1, QuietTracked DEF RollAbort, ledger, process, local
  <2>2. CASE RollLoad
    <3>1. todo' = OpenRows /\ pc' = "rebuild" /\ OpenRows' = OpenRows
      BY <2>2, QuietRows DEF RollLoad, ledger
    <3> QED
      BY <2>0, <3>1 DEF Tracked
  <2>3. CASE RollDone
    <3>1. /\ pc = "rebuild" /\ todo = {} /\ pday' = tick.day /\ pc' = "bars"
          /\ UNCHANGED <<entries, exits, flagged, held, tick>>
      BY <2>3 DEF RollDone, ledger, local
    <3>2. OpenRows' = OpenRows /\ FlaggedIds' = FlaggedIds
      BY <3>1, QuietRows DEF FlaggedIds
    <3> QED
      BY <2>0, <3>1, <3>2 DEF Tracked, Noted, IdOf
  <2>4. ASSUME NEW i \in todo, Track(i) PROVE Tracked'
    <3>1. /\ pc = "rebuild" /\ todo' = todo \ {i} /\ held' = held \cup {i}
          /\ UNCHANGED <<entries, exits, flagged, pc, tick>>
      BY <2>4 DEF Track, ledger
    <3>2. OpenRows' = OpenRows /\ FlaggedIds' = FlaggedIds
      BY <3>1, QuietRows DEF FlaggedIds
    <3> QED
      BY <3>1, <3>2 DEF Tracked, Noted, IdOf
  <2>5. ASSUME NEW i \in todo, Flag(i) PROVE Tracked'
    <3>1. /\ pc = "rebuild" /\ todo' = todo \ {i} /\ entries[i].expiry < tick.day
          /\ UNCHANGED <<entries, exits, held, pc, tick>>
      BY <2>5 DEF Flag, process
    <3>2. OpenRows' = OpenRows
      BY <3>1, QuietRows
    <3>3. FlaggedIds \subseteq FlaggedIds' /\ IdOf(entries[i]) \in FlaggedIds'
      <4>1. flagged \in Seq(Id) /\ IdOf(entries[i]) \in Id
        BY <3>1, IdType DEF BooksInv, TypeInv, TypeOK, Rows
      <4>2. CASE IdOf(entries[i]) \in FlaggedIds
        BY <2>5, <4>2 DEF Flag, FlaggedIds
      <4>3. CASE IdOf(entries[i]) \notin FlaggedIds
        <5>1. flagged' = Append(flagged, IdOf(entries[i]))
          BY <2>5, <4>3 DEF Flag
        <5>2. /\ Len(flagged) \in Nat /\ Len(flagged') = Len(flagged) + 1
              /\ \A x \in 1 .. Len(flagged) : flagged'[x] = flagged[x]
              /\ flagged'[Len(flagged) + 1] = IdOf(entries[i])
          BY <4>1, <5>1
        <5> QED
          BY <5>2 DEF FlaggedIds
      <4> QED
        BY <4>2, <4>3
    <3> QED
      BY <3>1, <3>2, <3>3 DEF Tracked, Noted, IdOf
  <2> QED
    BY <1>3, <2>0, <2>1, <2>2, <2>3, <2>4, <2>5 DEF Roll
<1>4. CASE Signal
  <2> SUFFICES ASSUME NEW k \in Key, NEW m \in OpenMinute .. CloseMinute,
                      \/ FireDropped(k, m) \/ FireRaises(k, m) \/ FireDies(k, m)
                      \/ Merge(k, m) \/ Enter(k, m)
               PROVE  Tracked' /\ OneExposure'
    BY <1>4 DEF Signal
  <2>1. CASE FireDropped(k, m) \/ FireDies(k, m) \/ FireRaises(k, m) \/ Merge(k, m)
    <3>1. /\ pc = "bars" /\ pc' \in {"bars", "idle"}
          /\ UNCHANGED <<entries, exits, flagged, held, pday>>
      BY <2>1 DEF FireDropped, FireDies, FireRaises, Merge, Fires, EndTick, ledger, local
    <3> QED
      BY <3>1, QuietTracked, QuietExposure
  <2>2. CASE Enter(k, m)
    BY <2>2, EnterTracked
  <2> QED
    BY <2>1, <2>2
<1>5. CASE Sweep
  <2>1. CASE BeginSweep \/ SweepDone \/ \E i \in todo : Hold(i)
    <3>1. /\ pc \in {"bars", "sweep"} /\ pc' \in {"sweep", "idle"}
          /\ UNCHANGED <<entries, exits, flagged, held, pday>>
      BY <2>1 DEF BeginSweep, SweepDone, Hold, EndTick, ledger, process
    <3> QED
      BY <3>1, QuietTracked, QuietExposure
  <2>2. ASSUME NEW i \in todo, ForceExit(i) \/ FlattenLate(i) \/ Sell(i)
        PROVE  Tracked' /\ OneExposure'
    BY <2>2, ExitTracked DEF ForceExit, FlattenLate, Sell
  <2> QED
    BY <1>5, <2>1, <2>2 DEF Sweep
<1>6. CASE TickFails
  <2>1. /\ pc # "rebuild" /\ pc' = "idle"
        /\ UNCHANGED <<entries, exits, flagged, held, pday>>
    BY <1>6 DEF TickFails, EndTick, ledger, process
  <2> QED
    BY <2>1, QuietTracked, QuietExposure
<1> QED
  BY <1>1, <1>2, <1>3, <1>4, <1>5, <1>6 DEF Next, Step

(* One position per exposure: across deaths, rolls and aborted rolls, the  *)
(* ledger shows no two open positions of one exposure, unless the first    *)
(* had expired unexited when the second was entered.                       *)
THEOREM ExposureIsSingle ==
  ASSUME Faults = {}
  PROVE  Spec => []OneExposure
<1>1. TrackInv /\ [Next]_vars => TrackInv'
  BY TrackInvNext
<1>2. TrackInv => OneExposure
  BY DEF TrackInv
<1> QED
  BY <1>1, <1>2, TrackInvInit, PTL DEF Spec

(* A process that has rolled its day holds every open row or has said that *)
(* it expired unexited.                                                    *)
THEOREM NothingOpenEscapes ==
  ASSUME Faults = {}
  PROVE  Spec => []Accounted
<1>1. TrackInv /\ [Next]_vars => TrackInv'
  BY TrackInvNext
<1>2. TrackInv => Accounted
  BY DEF TrackInv, Tracked, Accounted, Noted
<1> QED
  BY <1>1, <1>2, TrackInvInit, PTL DEF Spec

(* While a roll refills the positions, an open row that has not expired is *)
(* in memory or still to be visited.                                       *)
Refilled ==
  pc = "rebuild" => Unexpired(OpenRows, tick.day) \subseteq held \cup todo

LEMMA RefilledNext ==
  ASSUME "tolerant" \notin Faults, TypeInv, Refilled, [Next]_vars
  PROVE  Refilled'
<1>1. CASE pc' # "rebuild"
  BY <1>1 DEF Refilled
<1>2. CASE RollLoad
  <2>1. todo' = OpenRows /\ UNCHANGED <<entries, exits, tick>>
    BY <1>2 DEF RollLoad, ledger
  <2>2. OpenRows' = OpenRows
    BY <2>1, QuietRows
  <2> QED
    BY <2>1, <2>2 DEF Refilled, Unexpired
<1>3. CASE \/ ClockTicks \/ RollAbort \/ UNCHANGED vars
           \/ \E i \in todo : Track(i) \/ Flag(i)
  <2>1. UNCHANGED <<entries, exits, tick>> /\ (pc' = "rebuild" => pc = "rebuild")
    BY <1>3 DEF ClockTicks, RollAbort, Track, Flag, vars, ledger, process, local
  <2>2. OpenRows' = OpenRows
    BY <2>1, QuietRows
  <2>3. \/ held' \cup todo' = held \cup todo
        \/ \E i \in todo : held' = held /\ todo' = todo \ {i} /\ entries[i].expiry < tick.day
        \/ pc' # "rebuild"
    BY <1>3 DEF ClockTicks, RollAbort, Track, Flag, vars, process, local
  <2>4. tick.day \in Nat /\ \A i \in OpenRows : entries[i].expiry \in Nat
    <3>1. ASSUME NEW i \in OpenRows PROVE entries[i] \in Row
      BY DEF TypeInv, TypeOK, OpenRows, Rows
    <3> QED
      BY <3>1 DEF TypeInv, TypeOK, Time, Row
  <2>5. \A i \in Unexpired(OpenRows, tick.day) :
          i \in OpenRows /\ ~(entries[i].expiry < tick.day)
    BY <2>4 DEF Unexpired
  <2>6. Unexpired(OpenRows, tick.day)' = Unexpired(OpenRows, tick.day)
    BY <2>1, <2>2 DEF Unexpired
  <2> QED
    BY <2>1, <2>3, <2>5, <2>6 DEF Refilled
<1>4. CASE Start \/ Die \/ BeginTick \/ RollDone \/ Signal \/ Sweep \/ TickFails
  <2>1. pc' # "rebuild"
    <3>1. CASE Start \/ Die \/ BeginTick \/ RollDone \/ TickFails
      BY <3>1 DEF Start, Die, MemoryLost, BeginTick, RollDone, TickFails, EndTick
    <3>2. CASE Signal
      BY <3>2 DEF Signal, FireDropped, FireRaises, FireDies, Merge, Enter, MayEnter, Fires,
                  EndTick, local
    <3>3. CASE Sweep
      <4>1. CASE BeginSweep \/ SweepDone \/ \E i \in todo : Hold(i)
        BY <4>1 DEF BeginSweep, SweepDone, Hold, EndTick
      <4>2. ASSUME NEW i \in todo, ForceExit(i) \/ FlattenLate(i) \/ Sell(i)
            PROVE  pc' # "rebuild"
        BY <4>2 DEF ForceExit, FlattenLate, Sell, WriteExit, EndTick
      <4> QED
        BY <3>3, <4>1, <4>2 DEF Sweep
    <3> QED
      BY <1>4, <3>1, <3>2, <3>3
  <2> QED
    BY <1>1, <2>1
<1> QED
  BY <1>2, <1>3, <1>4 DEF Next, Step, Roll

(* A roll that latches its day has every unexpired open row in memory,     *)
(* whatever becomes of appends and of earlier rolls, as long as a ledger   *)
(* read that fails is known to have failed.                                *)
THEOREM OvernightSurvives ==
  ASSUME "tolerant" \notin Faults
  PROVE  Spec => OpenSurvivesRoll
<1>1. Init => TypeInv /\ Refilled
  BY TypeInvInit DEF Init, Refilled
<1>2. TypeInv /\ Refilled /\ [Next]_vars => TypeInv' /\ Refilled'
  BY TypeInvNext, RefilledNext
<1>3. ASSUME Refilled, [Next]_vars, pday' # pday, pc' = "bars"
      PROVE  Unexpired(OpenRows, tick.day) \subseteq held'
  <2>1. RollDone
    BY <1>3, ZenonT(60) DEF Next, Step, Roll, Signal, Sweep, ClockTicks, Start, Die, MemoryLost,
       BeginTick, RollAbort, RollLoad, Track, Flag, FireDropped, FireRaises, FireDies,
       Merge, Enter, BeginSweep, SweepDone, ForceExit, FlattenLate, Sell, Hold, WriteExit,
       TickFails, EndTick, vars, process
  <2>2. pc = "rebuild" /\ todo = {} /\ held' = held
    BY <2>1 DEF RollDone
  <2> QED
    BY <1>3, <2>2 DEF Refilled
<1> QED
  BY <1>1, <1>2, <1>3, PTL DEF Spec, OpenSurvivesRoll

-----------------------------------------------------------------------------
(* The sweep.                                                              *)

(* A sweep has flattened what it has visited and still holds.              *)
SweptInv ==
  pc = "sweep" /\ client => \A i \in held \ todo : ~ForcedFlat(i) /\ ~LateFlat(i)

(* A step that leaves the sweep's view alone keeps it, whether or not it   *)
(* takes visited rows off the books.                                       *)
LEMMA QuietSwept ==
  ASSUME SweptInv, UNCHANGED <<entries, tick, due, client, pc>>,
         held' \ todo' \subseteq held \ todo
  PROVE  SweptInv'
BY DEF SweptInv, ForcedFlat, LateFlat, AfterHours, Grantable

LEMMA SweptInvNext ==
  ASSUME SweptInv, [Next]_vars
  PROVE  SweptInv'
<1>1. CASE ClockTicks \/ UNCHANGED vars
  BY <1>1, QuietSwept DEF ClockTicks, vars, ledger, process, local
<1>2. CASE Start \/ Die \/ BeginTick \/ Roll \/ TickFails
  <2>1. pc' # "sweep"
    BY <1>2 DEF Start, Die, MemoryLost, BeginTick, Roll, RollAbort, RollLoad, RollDone,
       Track, Flag, TickFails, EndTick
  <2> QED
    BY <2>1 DEF SweptInv
<1>3. CASE Signal
  <2>1. pc' # "sweep"
    BY <1>3 DEF Signal, FireDropped, FireRaises, FireDies, Merge, Enter, MayEnter, Fires,
       EndTick
  <2> QED
    BY <2>1 DEF SweptInv
<1>4. CASE Sweep
  <2>1. CASE BeginSweep
    <3>1. client' => held' \ todo' = {}
      BY <2>1 DEF BeginSweep, process
    <3> QED
      BY <3>1 DEF SweptInv
  <2>2. CASE SweepDone
    <3>1. pc' # "sweep"
      BY <2>2 DEF SweepDone, EndTick
    <3> QED
      BY <3>1 DEF SweptInv
  <2>3. ASSUME NEW i \in todo, ForceExit(i) \/ FlattenLate(i) \/ Sell(i) PROVE SweptInv'
    <3>1. PICK rule \in Rule : WriteExit(i, rule)
      BY <2>3 DEF ForceExit, FlattenLate, Sell, Rule
    <3>2. CASE /\ held' = held \ {i} /\ tags' = {p \in tags : p[1] # i}
               /\ todo' = todo \ {i}
               /\ UNCHANGED <<pc, tick, due>>
      BY <3>1, <3>2, QuietSwept DEF WriteExit
    <3>3. CASE EndTick
      BY <3>3 DEF EndTick, SweptInv
    <3> QED
      BY <3>1, <3>2, <3>3 DEF WriteExit
  <2>4. ASSUME NEW i \in todo, Hold(i) PROVE SweptInv'
    <3>1. /\ ~ForcedFlat(i) /\ ~LateFlat(i) /\ pc = "sweep" /\ todo' = todo \ {i}
          /\ UNCHANGED <<entries, tick, due, client, pc, held>>
      BY <2>4 DEF Hold, ledger, process
    <3>2. \A j : ForcedFlat(j)' = ForcedFlat(j) /\ LateFlat(j)' = LateFlat(j)
      BY <3>1 DEF ForcedFlat, LateFlat, AfterHours, Grantable
    <3> QED
      BY <3>1, <3>2 DEF SweptInv
  <2> QED
    BY <1>4, <2>1, <2>2, <2>3, <2>4 DEF Sweep
<1> QED
  BY <1>1, <1>2, <1>3, <1>4 DEF Next, Step

(* A sweep that ends leaves nothing the clock says is to be flat, in every *)
(* behaviour, whatever the disk does.                                      *)
THEOREM SweepLeavesFlat == Spec => SweepFlattens
<1>1. Init => SweptInv
  BY DEF Init, SweptInv
<1>2. SweptInv /\ [Next]_vars => SweptInv'
  BY SweptInvNext
<1>3. SweptInv =>
        (pc = "sweep" /\ todo = {} /\ pc' = "idle" /\ client =>
           \A i \in held : ~ForcedFlat(i) /\ ~LateFlat(i))
  BY DEF SweptInv
<1> QED
  BY <1>1, <1>2, <1>3, PTL DEF Spec, SweepFlattens

-----------------------------------------------------------------------------
(* Days.                                                                   *)

Ticking == pc \in {"roll", "rebuild", "bars", "sweep"}

RowsBy(d) == \A i \in Rows : entries[i].day <= d

(* The day of the process, of its tick and of the rows run behind the      *)
(* clock; a tick that rolls has another day than the process.              *)
Clocked ==
  /\ pday <= now.day /\ RowsBy(now.day)
  /\ pday # 0 => RowsBy(pday)
  /\ Ticking => pday <= tick.day /\ tick.day <= now.day /\ RowsBy(tick.day)
  /\ pc \in {"roll", "rebuild"} => tick.day # pday

(* The days are natural numbers.                                           *)
LEMMA Days ==
  ASSUME TypeOK
  PROVE  /\ pday \in Nat /\ now.day \in Nat /\ tick.day \in Nat
         /\ \A i \in Rows : entries[i].day \in Nat
<1>1. pday \in Nat /\ now.day \in Nat /\ tick.day \in Nat
  BY DEF TypeOK, Time
<1>2. ASSUME NEW i \in Rows PROVE entries[i].day \in Nat
  <2>1. entries[i] \in Row
    BY DEF TypeOK, Rows
  <2> QED
    BY <2>1 DEF Row
<1> QED
  BY <1>1, <1>2

LEMMA QuietClocked ==
  ASSUME Clocked, UNCHANGED <<entries, now, pday>>,
         \/ pc' = pc /\ tick' = tick
         \/ pc' \notin {"roll", "rebuild"} /\ (Ticking' => Ticking /\ tick' = tick)
  PROVE  Clocked'
BY DEF Clocked, RowsBy, Rows, Ticking

LEMMA ClockedNext ==
  ASSUME "late" \notin Faults, TypeInv, Clocked, [Next]_vars
  PROVE  Clocked'
<1> USE DEF TypeInv
<1>0. /\ pday \in Nat /\ now.day \in Nat /\ tick.day \in Nat
      /\ \A i \in Rows : entries[i].day \in Nat
  BY Days
<1>1. CASE ClockTicks
  <2>1. /\ UNCHANGED <<entries, pday, tick, pc>> /\ Rows' = Rows
    BY <1>1 DEF ClockTicks, ledger, process, local, Rows
  <2>2. now'.day \in Nat /\ now.day <= now'.day
    <3>1. now' = [now EXCEPT !.minute = @ + 1] \/ now' = [day |-> now.day + 1, minute |-> 0]
      BY <1>1 DEF ClockTicks
    <3>2. now \in Time
      BY DEF TypeOK
    <3> QED
      BY <3>1, <3>2 DEF Time
  <2>3. RowsBy(now.day)' /\ (RowsBy(pday) => RowsBy(pday)')
          /\ (RowsBy(tick.day) => RowsBy(tick.day)')
    BY <1>0, <2>1, <2>2 DEF Clocked, RowsBy
  <2> QED
    BY <1>0, <2>1, <2>2, <2>3 DEF Clocked, Ticking
<1>2. CASE Start \/ UNCHANGED vars \/ RollAbort \/ TickFails
  BY <1>2, QuietClocked
     DEF Start, RollAbort, TickFails, EndTick, vars, ledger, process, local, Ticking
<1>3. CASE Die
  <2>1. UNCHANGED <<entries, now>> /\ pday' = 0 /\ pc' = "down" /\ Rows' = Rows
    BY <1>3 DEF Die, MemoryLost, ledger, Rows
  <2> QED
    BY <1>0, <2>1 DEF Clocked, Ticking, RowsBy
<1>4. CASE BeginTick
  <2>1. /\ UNCHANGED <<entries, now, pday>> /\ tick' = now /\ Rows' = Rows
        /\ pc' = IF now.day # pday THEN "roll" ELSE "bars"
    BY <1>4 DEF BeginTick, ledger, process, Rows
  <2> QED
    BY <1>0, <2>1 DEF Clocked, Ticking, RowsBy
<1>5. CASE RollLoad \/ \E i \in todo : Track(i) \/ Flag(i)
  <2>1. /\ UNCHANGED <<entries, now, pday, tick>> /\ Rows' = Rows
        /\ pc \in {"roll", "rebuild"} /\ pc' = "rebuild"
    BY <1>5 DEF RollLoad, Track, Flag, ledger, process, Rows
  <2> QED
    BY <2>1 DEF Clocked, Ticking, RowsBy
<1>6. CASE RollDone
  <2>1. /\ UNCHANGED <<entries, now, tick>> /\ Rows' = Rows
        /\ pc = "rebuild" /\ pc' = "bars" /\ pday' = tick.day
    BY <1>6 DEF RollDone, ledger, local, Rows
  <2> QED
    BY <1>0, <2>1 DEF Clocked, Ticking, RowsBy
<1>7. CASE Signal
  <2> SUFFICES ASSUME NEW k \in Key, NEW m \in OpenMinute .. CloseMinute,
                      \/ FireDropped(k, m) \/ FireRaises(k, m) \/ FireDies(k, m)
                      \/ Merge(k, m) \/ Enter(k, m)
               PROVE  Clocked'
    BY <1>7 DEF Signal
  <2>1. CASE FireDropped(k, m) \/ FireDies(k, m) \/ FireRaises(k, m) \/ Merge(k, m)
    BY <2>1, QuietClocked
       DEF FireDropped, FireDies, FireRaises, Merge, EndTick, ledger, local, Ticking
  <2>2. CASE Enter(k, m)
    <3>1. /\ Rows' = Rows \cup {Len(entries) + 1}
          /\ \A i \in Rows : entries'[i] = entries[i]
          /\ entries'[Len(entries) + 1].day = pday
          /\ pc = "bars" /\ UNCHANGED <<now, pc, pday, tick>>
      BY <2>2, EnterEffect
    <3>2. ASSUME NEW d \in Nat, RowsBy(d), pday <= d
          PROVE  \A i \in Rows' : entries'[i].day <= d
      BY <3>1, <3>2 DEF RowsBy
    <3>3. pday <= now.day /\ pday <= tick.day
      BY <3>1 DEF Clocked, Ticking
    <3>4. RowsBy(now.day)' /\ RowsBy(tick.day)' /\ (pday # 0 => RowsBy(pday)')
      BY <1>0, <3>1, <3>2, <3>3 DEF Clocked, Ticking, RowsBy
    <3> QED
      BY <3>1, <3>4 DEF Clocked, Ticking
  <2> QED
    BY <2>1, <2>2
<1>8. CASE Sweep
  <2>1. CASE BeginSweep \/ SweepDone \/ \E i \in todo : Hold(i)
    BY <2>1, QuietClocked DEF BeginSweep, SweepDone, Hold, EndTick, ledger, process, Ticking
  <2>2. ASSUME NEW i \in todo, ForceExit(i) \/ FlattenLate(i) \/ Sell(i) PROVE Clocked'
    <3>1. PICK rule \in Rule : WriteExit(i, rule)
      BY <2>2 DEF ForceExit, FlattenLate, Sell, Rule
    <3>2. UNCHANGED <<entries, now, pday, pc, tick>>
      BY <3>1, ExitEffect
    <3> QED
      BY <3>2, QuietClocked
  <2> QED
    BY <1>8, <2>1, <2>2 DEF Sweep
<1> QED
  BY <1>1, <1>2, <1>3, <1>4, <1>5, <1>6, <1>7, <1>8 DEF Next, Step, Roll

-----------------------------------------------------------------------------
(* The cap.                                                                *)

(* From the day of its last row on, the ledger has at most the cap open.   *)
CapInv ==
  \A d \in Nat : RowsBy(d) => Cardinality(Unexpired(OpenRows, d)) <= MaxConcurrent

RuleInv == TrackInv /\ Clocked /\ CapInv

LEMMA FewerRows ==
  ASSUME TypeOK, NEW S, NEW R \in SUBSET Rows, S \subseteq R
  PROVE  /\ Cardinality(S) \in Nat /\ Cardinality(R) \in Nat
         /\ Cardinality(S) <= Cardinality(R)
<1>1. IsFiniteSet(R)
  BY FiniteRows
<1> QED
  BY <1>1, FS_Subset, FS_CardinalityType

LEMMA EnterCap ==
  ASSUME TrackInv, CapInv, Faults = {}, NEW k \in Key, NEW m, Enter(k, m), TypeOK'
  PROVE  CapInv'
<1> DEFINE n == Len(entries) + 1
<1>1. /\ Rows' = Rows \cup {n} /\ n \notin Rows
      /\ \A i \in Rows : entries'[i] = entries[i]
      /\ entries'[n].day = pday /\ held' = held \cup {n}
      /\ pc = "bars" /\ pday # 0
  BY EnterEffect DEF TrackInv, BooksInv
<1>2. OpenRows' = OpenRows \cup {n} /\ OpenRows \subseteq Rows
  BY EnterOpens DEF TrackInv, OpenRows
<1> HIDE DEF n
<1>3. \A i \in OpenRows : i \in held \/ entries[i].expiry < pday
  BY <1>1 DEF TrackInv, Tracked, Noted
<1>4. /\ pday \in Nat /\ held \subseteq Rows /\ IsFiniteSet(held)
      /\ Cardinality(held) \in Nat /\ Cardinality(held) < MaxConcurrent
  BY FiniteRows, FS_CardinalityType
     DEF TrackInv, BooksInv, TypeInv, TypeOK, Enter, MayEnter
<1>5. Cardinality(held \cup {n}) <= MaxConcurrent /\ IsFiniteSet(held \cup {n})
  <2>1. n \notin held
    BY <1>1, <1>4
  <2>2. IsFiniteSet(held \cup {n}) /\ Cardinality(held \cup {n}) = Cardinality(held) + 1
    BY <1>4, <2>1, FS_AddElement
  <2>3. MaxConcurrent \in Nat
    BY MarketAssumption, Zenon
  <2> QED
    BY <1>4, <2>2, <2>3
<1> SUFFICES ASSUME NEW d \in Nat, RowsBy(d)'
             PROVE  Cardinality(Unexpired(OpenRows, d)') <= MaxConcurrent
  BY DEF CapInv, Unexpired
<1>6. pday <= d
  BY <1>1 DEF RowsBy
<1>7. Unexpired(OpenRows, d)' \subseteq held \cup {n}
  <2> SUFFICES ASSUME NEW i \in OpenRows, entries[i].expiry >= d PROVE i \in held
    BY <1>1, <1>2 DEF Unexpired
  <2>1. entries[i] \in Row
    BY <1>2, SMTT(30) DEF TrackInv, BooksInv, TypeInv, TypeOK, Rows
  <2>2. entries[i].expiry \in Nat
    BY <2>1 DEF Row
  <2> QED
    BY <1>3, <1>4, <1>6, <2>2
<1>8. Cardinality(Unexpired(OpenRows, d)') \in Nat
        /\ Cardinality(Unexpired(OpenRows, d)') <= Cardinality(held \cup {n})
  BY <1>5, <1>7, FS_Subset, FS_CardinalityType
<1>9. MaxConcurrent \in Nat /\ Cardinality(held \cup {n}) \in Nat
  BY <1>5, FS_CardinalityType, MarketAssumption, Zenon
<1> QED
  BY <1>5, <1>8, <1>9

(* Rows leave the books, or nothing happens to them.                       *)
LEMMA QuietCap ==
  ASSUME TypeOK, CapInv, entries' = entries, OpenRows' \subseteq OpenRows
  PROVE  CapInv'
<1> SUFFICES ASSUME NEW d \in Nat, RowsBy(d)'
             PROVE  Cardinality(Unexpired(OpenRows, d)') <= MaxConcurrent
  BY DEF CapInv, Unexpired
<1>1. RowsBy(d)
  BY DEF RowsBy, Rows
<1>2. Unexpired(OpenRows, d)' \subseteq Unexpired(OpenRows, d)
  BY DEF Unexpired
<1>3. Unexpired(OpenRows, d) \in SUBSET Rows
  BY DEF Unexpired, OpenRows
<1>4. MaxConcurrent \in Nat
  BY MarketAssumption, Zenon
<1>5. Cardinality(Unexpired(OpenRows, d)) <= MaxConcurrent
  BY <1>1 DEF CapInv
<1> QED
  BY <1>2, <1>3, <1>4, <1>5, FewerRows

(* Only an entry writes rows, only an exit closes one.                     *)
LEMMA Writers ==
  ASSUME [Next]_vars
  PROVE  \/ UNCHANGED <<entries, exits>>
         \/ \E k \in Key, m \in OpenMinute .. CloseMinute : Enter(k, m)
         \/ pc = "sweep" /\ \E i \in todo, rule \in Rule : WriteExit(i, rule)
<1>1. CASE ClockTicks \/ Start \/ Die \/ BeginTick \/ TickFails \/ UNCHANGED vars
  BY <1>1 DEF ClockTicks, Start, Die, BeginTick, TickFails, vars, ledger
<1>2. CASE Roll
  BY <1>2 DEF Roll, RollAbort, RollLoad, RollDone, Track, Flag, ledger
<1>3. CASE Signal
  BY <1>3 DEF Signal, FireDropped, FireRaises, FireDies, Merge, ledger
<1>4. CASE Sweep
  <2>1. CASE BeginSweep \/ SweepDone \/ \E i \in todo : Hold(i)
    BY <2>1 DEF BeginSweep, SweepDone, Hold, ledger
  <2>2. ASSUME NEW i \in todo, ForceExit(i) \/ FlattenLate(i) \/ Sell(i)
        PROVE  pc = "sweep" /\ \E rule \in Rule : WriteExit(i, rule)
    BY <2>2 DEF ForceExit, FlattenLate, Sell, Rule
  <2> QED
    BY <1>4, <2>1, <2>2 DEF Sweep
<1> QED
  BY <1>1, <1>2, <1>3, <1>4 DEF Next, Step

LEMMA CapInvNext ==
  ASSUME Faults = {}, TrackInv, CapInv, [Next]_vars
  PROVE  CapInv'
<1>0. TypeOK /\ TypeOK'
  BY TypeInvNext DEF TrackInv, BooksInv, TypeInv
<1>1. CASE UNCHANGED <<entries, exits>>
  BY <1>0, <1>1, QuietRows, QuietCap
<1>2. ASSUME NEW k \in Key, NEW m, Enter(k, m) PROVE CapInv'
  BY <1>0, <1>2, EnterCap
<1>3. ASSUME pc = "sweep", NEW i \in todo, NEW rule, WriteExit(i, rule) PROVE CapInv'
  <2>1. OpenRows' = OpenRows \ {i} /\ entries' = entries
    BY <1>3, ExitCloses DEF TrackInv, WriteExit
  <2> QED
    BY <1>0, <2>1, QuietCap
<1> QED
  BY <1>1, <1>2, <1>3, Writers

LEMMA ClockedInit == Init => Clocked
<1> SUFFICES ASSUME Init PROVE Clocked
  OBVIOUS
<1>1. Rows = {} /\ pday = 0 /\ pc = "down" /\ now.day = 1
  BY DEF Init, Rows
<1> QED
  BY <1>1 DEF Clocked, RowsBy, Ticking

LEMMA RuleInvInit == Init => RuleInv
<1> SUFFICES ASSUME Init PROVE RuleInv
  OBVIOUS
<1>1. TrackInv
  BY TrackInvInit
<1>2. OpenRows = {}
  BY DEF Init, Rows, OpenRows
<1>3. Clocked
  BY ClockedInit
<1>4. CapInv
  <2>1. Cardinality({}) = 0 /\ MaxConcurrent \in Nat
    BY FS_EmptySet, MarketAssumption, Zenon
  <2>2. \A d : Unexpired(OpenRows, d) = {}
    BY <1>2 DEF Unexpired
  <2> QED
    BY <2>1, <2>2 DEF CapInv
<1> QED
  BY <1>1, <1>3, <1>4 DEF RuleInv

LEMMA RuleInvNext ==
  ASSUME Faults = {}, RuleInv, [Next]_vars
  PROVE  RuleInv'
BY TrackInvNext, ClockedNext, CapInvNext DEF RuleInv, TrackInv, BooksInv

(* The cap counts what the ledger has open: a process never has more than  *)
(* MaxConcurrent unexpired rows open on its day, whichever process opened  *)
(* them.                                                                   *)
THEOREM CapHolds ==
  ASSUME Faults = {}
  PROVE  Spec => []CapAcrossRestarts
<1>1. RuleInv /\ [Next]_vars => RuleInv'
  BY RuleInvNext
<1>2. RuleInv => CapAcrossRestarts
  BY Days DEF RuleInv, Clocked, CapInv, CapAcrossRestarts, TrackInv, BooksInv, TypeInv
<1> QED
  BY <1>1, <1>2, RuleInvInit, PTL DEF Spec

-----------------------------------------------------------------------------
(* The latch at entry.                                                     *)

(* Rows come from processes started before, and from this one only after   *)
(* it rolled a day.                                                        *)
Authored ==
  /\ \A i \in Rows : entries[i].proc \in Nat /\ entries[i].proc <= starts
  /\ pday = 0 /\ pc # "down" => \A i \in Rows : entries[i].proc < starts

(* What the process opened today for a latching lane is latched.           *)
Latched ==
  pday # 0 /\ pc # "rebuild" =>
    \A i \in Rows :
      entries[i].proc = starts /\ entries[i].day = pday /\ entries[i].lane \in Latching
        => <<entries[i].lane, entries[i].exp>> \in latched

LatchInv == Authored /\ Latched /\ OnceADay

LEMMA QuietLatches ==
  ASSUME LatchInv, UNCHANGED <<entries, starts, pday>>,
         pc' # "rebuild" => pc # "rebuild" /\ latched \subseteq latched',
         pc' # "down" => pc # "down"
  PROVE  LatchInv'
<1>1. Rows' = Rows
  BY DEF Rows
<1> QED
  BY <1>1 DEF LatchInv, Authored, Latched, OnceADay

(* No fire takes a latch away.                                             *)
LEMMA LatchesStay ==
  ASSUME NEW k \in Key, NEW m, Pending(k, m) \/ Confirmed(k, m) \/ Released(k)
  PROVE  latched \subseteq latched'
BY DEF Pending, Confirmed, Released

LEMMA EnterLatches ==
  ASSUME TypeInv, LatchInv, "late" \notin Faults, NEW k \in Key, NEW m, Enter(k, m)
  PROVE  LatchInv'
<1> DEFINE n == Len(entries) + 1
<1>1. /\ Rows' = Rows \cup {n} /\ n \notin Rows
      /\ \A i \in Rows : entries'[i] = entries[i]
      /\ entries'[n].exp = k[2] /\ entries'[n].lane = k[1]
      /\ entries'[n].day = pday /\ entries'[n].proc = starts
      /\ pc = "bars" /\ pday # 0
      /\ UNCHANGED <<starts, pc, pday>>
  BY EnterEffect
<1>2. starts \in Nat
  BY DEF TypeInv, TypeOK
<1>3. k = <<k[1], k[2]>>
  BY DEF Key
<1> HIDE DEF n
<1>4. latched \subseteq latched' /\ <<k[1], k[2]>> \in latched'
  <2>1. Confirmed(k, m)
    BY DEF Enter
  <2> QED
    BY <1>3, <2>1 DEF Confirmed
<1>5. k[1] \in Latching => <<k[1], k[2]>> \notin latched
  BY <1>3 DEF Enter, MayEnter, Fires, Armed
<1>6. Authored'
  BY <1>1, <1>2 DEF LatchInv, Authored
<1>7. Latched'
  BY <1>1, <1>4 DEF LatchInv, Latched
<1>8. \A i \in Rows : ~ /\ k[1] \in Latching
                        /\ entries[i].lane = k[1] /\ entries[i].exp = k[2]
                        /\ entries[i].day = pday /\ entries[i].proc = starts
  BY <1>1, <1>5 DEF LatchInv, Latched
<1>9. OnceADay'
  BY <1>1, <1>8 DEF LatchInv, OnceADay
<1> QED
  BY <1>6, <1>7, <1>9 DEF LatchInv

(* A roll that latches a day finds no row of its own process for that day: *)
(* those it wrote are of an earlier one.                                   *)
LEMMA RollLatches ==
  ASSUME TypeInv, Clocked, LatchInv, RollDone
  PROVE  LatchInv'
<1>1. /\ UNCHANGED <<entries, starts, tick>> /\ Rows' = Rows
      /\ pc = "rebuild" /\ pday' = tick.day
  BY DEF RollDone, ledger, local, Rows
<1>2. /\ pday \in Nat /\ tick.day \in Nat /\ \A i \in Rows : entries[i].day \in Nat
      /\ starts \in Nat
  BY Days DEF TypeInv, TypeOK
<1>3. /\ pday <= tick.day /\ tick.day # pday
      /\ pday # 0 => \A i \in Rows : entries[i].day <= pday
  BY <1>1 DEF Clocked, Ticking, RowsBy
<1>4. \A i \in Rows : entries[i].proc = starts => entries[i].day # tick.day
  BY <1>1, <1>2, <1>3 DEF LatchInv, Authored
<1>5. pday' # 0
  BY <1>1, <1>2, <1>3
<1> QED
  BY <1>1, <1>4, <1>5 DEF LatchInv, Authored, Latched, OnceADay

LEMMA LatchInvNext ==
  ASSUME "late" \notin Faults, "roll" \notin Faults, TypeInv, Clocked, LatchInv, [Next]_vars
  PROVE  LatchInv'
<1>1. CASE ClockTicks \/ BeginTick \/ UNCHANGED vars \/ RollAbort
  BY <1>1, QuietLatches
     DEF ClockTicks, BeginTick, RollAbort, vars, ledger, process, local
<1>2. CASE Start
  <2>1. UNCHANGED <<entries, pday>> /\ starts' = starts + 1 /\ Rows' = Rows
    BY <1>2 DEF Start, ledger, Rows
  <2>2. starts \in Nat
    BY DEF TypeInv, TypeOK
  <2> QED
    BY <2>1, <2>2 DEF LatchInv, Authored, Latched, OnceADay
<1>3. CASE Die
  <2>1. UNCHANGED <<entries, starts>> /\ pday' = 0 /\ pc' = "down" /\ Rows' = Rows
    BY <1>3 DEF Die, MemoryLost, ledger, Rows
  <2> QED
    BY <2>1 DEF LatchInv, Authored, Latched, OnceADay
<1>4. CASE RollLoad \/ \E i \in todo : Track(i) \/ Flag(i)
  BY <1>4, QuietLatches DEF RollLoad, Track, Flag, ledger, process
<1>5. CASE RollDone
  BY <1>5, RollLatches
<1>6. CASE Signal
  <2> SUFFICES ASSUME NEW k \in Key, NEW m \in OpenMinute .. CloseMinute,
                      \/ FireDropped(k, m) \/ FireRaises(k, m) \/ FireDies(k, m)
                      \/ Merge(k, m) \/ Enter(k, m)
               PROVE  LatchInv'
    BY <1>6 DEF Signal
  <2>1. CASE FireDropped(k, m) \/ FireDies(k, m) \/ FireRaises(k, m) \/ Merge(k, m)
    <3>1. Pending(k, m) \/ Confirmed(k, m) \/ Released(k)
      BY <2>1 DEF FireDropped, FireDies, FireRaises, Merge
    <3>2. /\ pc = "bars" /\ pc' \in {"bars", "idle"}
          /\ UNCHANGED <<entries, starts, pday>>
      BY <2>1 DEF FireDropped, FireDies, FireRaises, Merge, Fires, EndTick, ledger, local
    <3> QED
      BY <3>1, <3>2, LatchesStay, QuietLatches
  <2>2. CASE Enter(k, m)
    BY <2>2, EnterLatches
  <2> QED
    BY <2>1, <2>2
<1>7. CASE Sweep
  <2>1. CASE BeginSweep \/ SweepDone \/ \E i \in todo : Hold(i)
    BY <2>1, QuietLatches DEF BeginSweep, SweepDone, Hold, EndTick, ledger, process
  <2>2. ASSUME NEW i \in todo, ForceExit(i) \/ FlattenLate(i) \/ Sell(i) PROVE LatchInv'
    <3>1. PICK rule \in Rule : WriteExit(i, rule)
      BY <2>2 DEF ForceExit, FlattenLate, Sell, Rule
    <3>2. UNCHANGED <<entries, starts, pday, pc, latched>> /\ pc = "sweep"
      BY <2>2, <3>1, ExitEffect DEF ForceExit, FlattenLate, Sell
    <3> QED
      BY <3>2, QuietLatches
  <2> QED
    BY <1>7, <2>1, <2>2 DEF Sweep
<1>8. CASE TickFails
  <2>1. /\ pc \in {"roll", "bars", "sweep"} /\ pc' = "idle"
        /\ UNCHANGED <<entries, starts, pday, latched>>
    BY <1>8 DEF TickFails, EndTick, ledger, process
  <2> QED
    BY <2>1, QuietLatches
<1> QED
  BY <1>1, <1>2, <1>3, <1>4, <1>5, <1>6, <1>7, <1>8 DEF Next, Step, Roll

(* In one process, a lane with latches opens at most one position per      *)
(* underlying, side and day, even if a locked file made the roll forget    *)
(* the day's entries, as long as no append raises late and no roll breaks  *)
(* off after it has cleared the latches.                                   *)
THEOREM LatchAtEntry ==
  ASSUME "late" \notin Faults, "roll" \notin Faults
  PROVE  Spec => []OnceADay
<1>1. Init => LatchInv
  <2>1. Init => Rows = {}
    BY DEF Init, Rows
  <2> QED
    BY <2>1 DEF LatchInv, Authored, Latched, OnceADay
<1>2. TypeInv /\ [Next]_vars => TypeInv'
  BY TypeInvNext
<1>3. TypeInv /\ Clocked /\ LatchInv /\ [Next]_vars => Clocked' /\ LatchInv'
  BY ClockedNext, LatchInvNext
<1>4. LatchInv => OnceADay
  BY DEF LatchInv
<1> QED
  BY <1>1, <1>2, <1>3, <1>4, TypeInvInit, ClockedInit, PTL DEF Spec

-----------------------------------------------------------------------------
(* The lanes of a position.                                                *)

(* A position in memory has every lane its rows name.                      *)
Tagged == \A i \in held : \A l \in LanesOnDisk(i) : <<i, l>> \in tags

(* A merge row names an entry row.                                         *)
MergesEntered ==
  \A k \in 1 .. Len(merges) : \E i \in Rows : merges[k].id = IdOf(entries[i])

MergeInv == Tagged /\ MergesEntered /\ MergedOnce

(* A step that writes no merge row, and takes lanes off no position it     *)
(* keeps.                                                                  *)
LEMMA QuietMerges ==
  ASSUME MergeInv, UNCHANGED <<entries, merges>>, held' \subseteq held,
         \A p \in tags : p[1] \in held' => p \in tags'
  PROVE  MergeInv'
<1>1. Rows' = Rows /\ \A i : LanesOnDisk(i)' = LanesOnDisk(i)
  BY DEF Rows, LanesOnDisk, IdOf
<1>2. Tagged'
  <2> SUFFICES ASSUME NEW i \in held', NEW l \in LanesOnDisk(i) PROVE <<i, l>> \in tags'
    BY <1>1 DEF Tagged
  <2>1. <<i, l>> \in tags
    BY DEF MergeInv, Tagged
  <2> QED
    BY <2>1
<1> QED
  BY <1>1, <1>2 DEF MergeInv, MergesEntered, MergedOnce, IdOf

LEMMA TrackTags ==
  ASSUME MergeInv, NEW i \in todo, Track(i)
  PROVE  MergeInv'
<1>1. /\ UNCHANGED <<entries, merges>> /\ Rows' = Rows /\ held' = held \cup {i}
      /\ tags' = tags \cup {<<i, l>> : l \in LanesOnDisk(i)}
      /\ \A j : LanesOnDisk(j)' = LanesOnDisk(j)
  BY DEF Track, ledger, Rows, LanesOnDisk, IdOf
<1>2. Tagged'
  BY <1>1 DEF MergeInv, Tagged
<1> QED
  BY <1>1, <1>2 DEF MergeInv, MergesEntered, MergedOnce, IdOf

LEMMA EnterTags ==
  ASSUME BooksInv, MergeInv, "late" \notin Faults, NEW k \in Key, NEW m, Enter(k, m)
  PROVE  MergeInv'
<1> DEFINE n == Len(entries) + 1
<1>1. /\ Rows' = Rows \cup {n} /\ n \notin Rows
      /\ \A i \in Rows : entries'[i] = entries[i]
      /\ entries'[n].lane = k[1]
      /\ held' = held \cup {n} /\ tags' = tags \cup {<<n, k[1]>>}
      /\ merges' = merges
  BY EnterEffect DEF BooksInv
<1>2. \A i \in Rows : IdOf(entries[i]) # IdOf(entries'[n])
  BY NewIdIsNew
<1> HIDE DEF n
<1>3. \A x \in 1 .. Len(merges) : merges[x].id # IdOf(entries'[n])
  BY <1>2 DEF MergeInv, MergesEntered
<1>4. ASSUME NEW i, i = n, NEW l \in LanesOnDisk(i)' PROVE l = k[1]
  <2>1. \A x \in 1 .. Len(merges') : merges'[x].id # IdOf(entries'[i])
    BY <1>1, <1>3, <1>4
  <2> QED
    BY <1>1, <1>4, <2>1 DEF LanesOnDisk, IdOf
<1>5. \A i \in Rows : LanesOnDisk(i)' = LanesOnDisk(i)
  BY <1>1, SMTT(30) DEF LanesOnDisk, IdOf
<1>6. held \subseteq Rows
  BY DEF BooksInv, TypeInv, TypeOK
<1>7. Tagged'
  BY <1>1, <1>4, <1>5, <1>6 DEF MergeInv, Tagged
<1>8. MergesEntered'
  BY <1>1 DEF MergeInv, MergesEntered, IdOf
<1>9. MergedOnce'
  BY <1>1, <1>3, SMTT(30) DEF MergeInv, MergedOnce, IdOf
<1> QED
  BY <1>7, <1>8, <1>9 DEF MergeInv

LEMMA MergeTags ==
  ASSUME BooksInv, MergeInv, NEW k \in Key, NEW m, Merge(k, m)
  PROVE  MergeInv'
<1>1. PICK i \in First(Same(k)) :
        /\ tags' = tags \cup {<<i, k[1]>>}
        /\ merges' = IF <<i, k[1]>> \in tags THEN merges
                       ELSE Append(merges, [id |-> IdOf(entries[i]), lane |-> k[1]])
  BY DEF Merge
<1>2. i \in held /\ i \in Rows /\ k[1] \in Lane /\ entries[i] \in Row
  BY DEF First, Same, BooksInv, TypeInv, TypeOK, Rows, Key
<1>3. UNCHANGED <<entries, held>> /\ Rows' = Rows
  BY DEF Merge, Rows
<1>4. CASE <<i, k[1]>> \in tags
  BY <1>1, <1>3, <1>4, QuietMerges
<1>5. CASE <<i, k[1]>> \notin tags
  <2> DEFINE r == [id |-> IdOf(entries[i]), lane |-> k[1]]
  <2>1. merges' = Append(merges, r) /\ r.id = IdOf(entries[i]) /\ r.lane = k[1]
    BY <1>1, <1>5
  <2>2. merges \in Seq(MergeRow)
    BY DEF BooksInv, TypeInv, TypeOK
  <2>3. r \in MergeRow
    BY <1>2, IdType DEF MergeRow
  <2> HIDE DEF r
  <2>4. /\ Len(merges) \in Nat /\ Len(merges') = Len(merges) + 1
        /\ \A x \in 1 .. Len(merges) : merges'[x] = merges[x]
        /\ merges'[Len(merges) + 1] = r
    BY <2>1, <2>2, <2>3
  <2>5. \A j \in Rows : IdOf(entries[j]) = IdOf(entries[i]) => j = i
    BY <1>2 DEF BooksInv, UniqueIds
  <2>6. k[1] \notin LanesOnDisk(i)
    BY <1>2, <1>5 DEF MergeInv, Tagged
  <2>7. /\ entries[i].lane # k[1]
        /\ \A x \in 1 .. Len(merges) : merges[x].id = IdOf(entries[i]) => merges[x].lane # k[1]
    BY <2>6 DEF LanesOnDisk
  <2>8. \A x \in 1 .. Len(merges') :
          \/ x \in 1 .. Len(merges) /\ merges'[x] = merges[x]
          \/ x = Len(merges) + 1 /\ merges'[x] = r
    BY <2>4
  <2>9. Tagged'
    <3> SUFFICES ASSUME NEW j \in held, NEW l \in LanesOnDisk(j)' PROVE <<j, l>> \in tags'
      BY <1>3 DEF Tagged
    <3>1. j \in Rows /\ tags \subseteq tags' /\ <<i, k[1]>> \in tags'
      BY <1>1 DEF BooksInv, TypeInv, TypeOK
    <3>2. CASE l = entries[j].lane
      BY <3>1, <3>2 DEF MergeInv, Tagged, LanesOnDisk
    <3>3. CASE l # entries[j].lane
      <4>1. PICK x \in 1 .. Len(merges') :
              merges'[x].id = IdOf(entries[j]) /\ l = merges'[x].lane
        BY <1>3, <3>3 DEF LanesOnDisk, IdOf
      <4>2. CASE x \in 1 .. Len(merges) /\ merges'[x] = merges[x]
        <5>1. l \in LanesOnDisk(j)
          BY <4>1, <4>2 DEF LanesOnDisk
        <5> QED
          BY <3>1, <5>1 DEF MergeInv, Tagged
      <4>3. CASE merges'[x] = r
        BY <2>1, <2>5, <3>1, <4>1, <4>3
      <4> QED
        BY <2>8, <4>2, <4>3
    <3> QED
      BY <3>2, <3>3
  <2>10. MergesEntered'
    BY <1>2, <1>3, <2>1, <2>8 DEF MergeInv, MergesEntered, IdOf
  <2>11. \A x, y \in 1 .. Len(merges') : merges'[x] = merges'[y] => x = y
    <3>1. \A x \in 1 .. Len(merges) : merges[x] # r
      BY <2>1, <2>7
    <3> QED
      BY <2>8, <3>1 DEF MergeInv, MergedOnce
  <2>12. \A j \in Rows, x \in 1 .. Len(merges') :
           merges'[x].id = IdOf(entries[j]) => merges'[x].lane # entries[j].lane
    BY <2>1, <2>5, <2>7, <2>8 DEF MergeInv, MergedOnce
  <2> QED
    BY <1>3, <2>9, <2>10, <2>11, <2>12 DEF MergeInv, MergedOnce, IdOf
<1> QED
  BY <1>4, <1>5

LEMMA MergeInvNext ==
  ASSUME "late" \notin Faults, BooksInv, MergeInv, [Next]_vars
  PROVE  MergeInv'
<1>1. CASE ClockTicks \/ Start \/ BeginTick \/ TickFails \/ UNCHANGED vars
  BY <1>1, QuietMerges
     DEF ClockTicks, Start, BeginTick, TickFails, vars, ledger, process
<1>2. CASE Die
  BY <1>2, QuietMerges DEF Die, MemoryLost, ledger
<1>3. CASE Roll
  <2>1. CASE RollAbort \/ RollLoad \/ RollDone \/ \E i \in todo : Flag(i)
    BY <2>1, QuietMerges DEF RollAbort, RollLoad, RollDone, Flag, ledger, process
  <2> QED
    BY <1>3, <2>1, TrackTags DEF Roll
<1>4. CASE Signal
  <2> SUFFICES ASSUME NEW k \in Key, NEW m \in OpenMinute .. CloseMinute,
                      \/ FireDropped(k, m) \/ FireRaises(k, m) \/ FireDies(k, m)
                      \/ Merge(k, m) \/ Enter(k, m)
               PROVE  MergeInv'
    BY <1>4 DEF Signal
  <2>1. CASE FireDropped(k, m) \/ FireDies(k, m) \/ FireRaises(k, m)
    <3>1. UNCHANGED <<entries, merges, held>> /\ tags \subseteq tags'
      BY <2>1 DEF FireDropped, FireDies, FireRaises, ledger
    <3> QED
      BY <3>1, QuietMerges
  <2> QED
    BY <2>1, MergeTags, EnterTags
<1>5. CASE Sweep
  <2>1. CASE BeginSweep \/ SweepDone \/ \E i \in todo : Hold(i)
    BY <2>1, QuietMerges DEF BeginSweep, SweepDone, Hold, ledger, process
  <2>2. ASSUME NEW i \in todo, ForceExit(i) \/ FlattenLate(i) \/ Sell(i) PROVE MergeInv'
    <3>1. PICK rule \in Rule : WriteExit(i, rule)
      BY <2>2 DEF ForceExit, FlattenLate, Sell, Rule
    <3>2. /\ UNCHANGED <<entries, merges>>
          /\ held' = held \ {i} /\ tags' = {p \in tags : p[1] # i}
      BY <3>1, ExitEffect DEF BooksInv
    <3> QED
      BY <3>2, QuietMerges
  <2> QED
    BY <1>5, <2>1, <2>2 DEF Sweep
<1> QED
  BY <1>1, <1>2, <1>3, <1>4, <1>5 DEF Next, Step

(* A lane joins a position at most once, and never the one it opened, on   *)
(* file as in memory, across rebuilds, those included that break off.      *)
THEOREM LanesJoinOnce ==
  ASSUME "late" \notin Faults, "tolerant" \notin Faults
  PROVE  Spec => []MergedOnce
<1>1. Init => MergeInv
  <2>1. Init => Rows = {} /\ 1 .. Len(merges) = {} /\ held = {}
    BY DEF Init, Rows
  <2> QED
    BY <2>1 DEF MergeInv, Tagged, MergesEntered, MergedOnce
<1>2. BooksInv /\ MergeInv /\ [Next]_vars => BooksInv' /\ MergeInv'
  BY BooksInvNext, MergeInvNext
<1>3. MergeInv => MergedOnce
  BY DEF MergeInv
<1> QED
  BY <1>1, <1>2, <1>3, BooksInvInit, PTL DEF Spec
=============================================================================
