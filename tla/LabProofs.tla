------------------------------ MODULE LabProofs ------------------------------
(***************************************************************************)
(* Proofs about the strategy lab's process, for every set of strategies,   *)
(* roster, cap, clock and number of entries and restarts: types, memory    *)
(* against ledger and the refinement of the book, then the rules of the    *)
(* runner's passes and the books it answers for.                           *)
(***************************************************************************)
EXTENDS LabProperties, FiniteSetTheorems, TLAPS

(* The type invariant is inductive once the turn states name a strategy    *)
(* and a process that is down has no turns to give.                        *)
TurnHasStrategy ==
  /\ pc \in {"manage", "scan", "enter"} => cur \in Strategy
  /\ pc = "down" => due = {} /\ turn = {}

TypeInv == TypeOK /\ TurnHasStrategy

(* The room of a scan is a natural number: the rows of a strategy in       *)
(* memory are finitely many.                                               *)
LEMMA RoomIsNat ==
  ASSUME NEW s \in Strategy, TypeOK
  PROVE  /\ IsFiniteSet(RowsOf(s))
         /\ Cardinality(RowsOf(s)) \in Nat
         /\ Room(s) \in Nat
<1>1. IsFiniteSet(Rows)
  BY FS_Interval DEF Rows, TypeOK
<1>2. RowsOf(s) \subseteq Rows
  BY DEF RowsOf, TypeOK
<1>3. IsFiniteSet(RowsOf(s)) /\ Cardinality(RowsOf(s)) \in Nat
  BY <1>1, <1>2, FS_Subset, FS_CardinalityType
<1>4. MaxConcurrent[s] \in Nat
  BY RosterAssumption
<1> QED
  BY <1>3, <1>4 DEF Room

(* A row written for the strategy whose turn it is has the shape of a row. *)
LEMMA EntryRowType ==
  ASSUME TypeInv, pc = "enter", NEW shape \in LegShapes
  PROVE  EntryRow({tick.day + n : n \in shape}) \in Row
<1>1. shape \subseteq Nat
  BY RosterAssumption
<1>2. {tick.day + n : n \in shape} \subseteq Nat
  BY <1>1 DEF TypeInv, TypeOK, Time
<1>3. /\ cur \in Strategy /\ pday \in Nat /\ tick.minute \in Nat
      /\ seq[cur] \in Nat
  BY DEF TypeInv, TypeOK, TurnHasStrategy, Time
<1> QED
  BY <1>2, <1>3 DEF EntryRow, Row

(* The type part of closing a position of the current loop.                *)
LEMMA WriteExitType ==
  ASSUME TypeOK, NEW i \in Rows, NEW rule \in Rule, WriteExit(i, rule)
  PROVE  /\ exits' \in Seq([row : Nat, id : Id, rule : Rule, day : Nat])
         /\ held' \subseteq Rows
<1>1. entries[i] \in Row /\ i \in Nat
  BY DEF TypeOK, Rows
<1>2. IdOf(entries[i]) \in Id
  BY <1>1 DEF IdOf, Id, Row
<1>3. tick.day \in Nat
  BY DEF TypeOK, Time
<1>4. [row |-> i, id |-> IdOf(entries[i]), rule |-> rule, day |-> tick.day]
        \in [row : Nat, id : Id, rule : Rule, day : Nat]
  BY <1>1, <1>2, <1>3
<1> QED
  BY <1>4 DEF WriteExit, TypeOK

LEMMA TypeInvInit == Init => TypeInv
<1> SUFFICES ASSUME Init PROVE TypeInv
  OBVIOUS
<1> USE DEF Init
<1>1. /\ entries \in Seq(Row)
      /\ exits \in Seq([row : Nat, id : Id, rule : Rule, day : Nat])
  OBVIOUS
<1>2. now \in Time /\ tick \in Time
  BY DEF Time, NoTick
<1>3. errors \in [Strategy -> Nat] /\ seq \in [Strategy -> Nat]
  OBVIOUS
<1>4. held \subseteq Rows /\ todo \subseteq Rows /\ priced \subseteq Rows
  OBVIOUS
<1> QED
  BY <1>1, <1>2, <1>3, <1>4 DEF TypeInv, TypeOK, TurnHasStrategy

(* A new entry row keeps every variable that ranges over rows in its type. *)
LEMMA AppendRowType ==
  ASSUME TypeOK, NEW r \in Row, entries' = Append(entries, r)
  PROVE  /\ entries' \in Seq(Row)
         /\ Rows \subseteq Rows'
         /\ Len(entries) + 1 \in Rows'
  BY DEF TypeOK, Rows

(* Every step keeps the type invariant.                                    *)
LEMMA TypeInvNext == TypeInv /\ [Next]_vars => TypeInv'
<1> SUFFICES ASSUME TypeInv, [Next]_vars
             PROVE  TypeInv'
  OBVIOUS
<1> USE DEF TypeInv, TurnHasStrategy
<1>1. CASE ClockTicks
  <2>1. now \in Time
    BY DEF TypeOK
  <2>2. ASSUME now' = [now EXCEPT !.minute = @ + 1] PROVE now' \in Time
    BY <2>1, <2>2 DEF Time
  <2>3. ASSUME now' = [day |-> now.day + 1, minute |-> 0] PROVE now' \in Time
    BY <2>1, <2>3 DEF Time
  <2>4. now' \in Time
    BY <1>1, <2>2, <2>3 DEF ClockTicks
  <2> QED
    BY <1>1, <2>4 DEF ClockTicks, TypeOK, Rows, ledger, process, local
<1>2. CASE Start
  BY <1>2, RosterAssumption DEF Start, TypeOK, Rows, ledger, local
<1>3. CASE Die
  BY <1>3 DEF Die, MemoryLost, TypeOK, Rows, ledger, NoTick, Time
<1>4. CASE BeginTick
  BY <1>4 DEF BeginTick, TypeOK, Rows, ledger, process
<1>5. CASE Roll
  <2>1. CASE RollAbort
    BY <2>1 DEF RollAbort, TypeOK, Rows, ledger, process, NoTick, Time
  <2>2. CASE RollLoad
    BY <2>2 DEF RollLoad, TypeOK, Rows, OpenRows, ledger
  <2>3. CASE RollDone
    BY <2>3 DEF RollDone, TypeOK, Rows, ledger, Time
  <2>4. ASSUME NEW i \in todo, Settle(i) PROVE TypeInv'
    <3>1. i \in Rows /\ WriteExit(i, "expiry_settlement")
      BY <2>4 DEF Settle, TypeOK
    <3>2. /\ exits' \in Seq([row : Nat, id : Id, rule : Rule, day : Nat])
          /\ held' \subseteq Rows
      BY <3>1, WriteExitType DEF Rule
    <3> QED
      BY <2>4, <3>2 DEF Settle, TypeOK, Rows
  <2>5. ASSUME NEW i \in todo, SettleDefer(i) PROVE TypeInv'
    BY <2>5 DEF SettleDefer, TypeOK, Rows, ledger, process
  <2> QED
    BY <1>5, <2>1, <2>2, <2>3, <2>4, <2>5 DEF Roll
<1>6. CASE HeartbeatOnly
  BY <1>6 DEF HeartbeatOnly, EndTick, TypeOK, Rows, ledger, process, NoTick, Time
<1>7. CASE Poll
  <2>1. UNION {Occ(i) : i \in held} \subseteq Strategy \X Nat
    <3> SUFFICES ASSUME NEW i \in held, NEW o \in Occ(i)
                 PROVE  o \in Strategy \X Nat
      OBVIOUS
    <3>1. entries[i] \in Row
      BY DEF TypeOK, Rows
    <3> QED
      BY <3>1 DEF Occ, Row
  <2>2. quoted' \subseteq Strategy \X Nat
    BY <1>7, <2>1 DEF Poll, TypeOK
  <2> QED
    BY <1>7, <2>2 DEF Poll, TypeOK, Rows, ledger
<1>8. CASE Turn
  <2>1. ASSUME NEW s \in turn, SkipQuarantined(s) PROVE TypeInv'
    BY <2>1 DEF SkipQuarantined, TypeOK, Rows, ledger, process
  <2>2. ASSUME NEW s \in turn, BeginManage(s) PROVE TypeInv'
    BY <2>2 DEF BeginManage, TypeOK, Rows, RowsOf, ledger, process
  <2>3. ASSUME NEW s \in turn, SkipManage(s) PROVE TypeInv'
    BY <2>3 DEF SkipManage, TypeOK, Rows, ledger, process
  <2> QED
    BY <1>8, <2>1, <2>2, <2>3 DEF Turn
<1>9. CASE Manage
  <2>1. CASE ManageDone
    BY <2>1 DEF ManageDone, TypeOK, Rows, ledger, process, local
  <2>2. ASSUME NEW i \in todo, ManageHold(i) PROVE TypeInv'
    BY <2>2 DEF ManageHold, TypeOK, Rows, ledger, process
  <2>3. ASSUME NEW i \in todo, Backstop(i) PROVE TypeInv'
    <3>1. i \in Rows /\ WriteExit(i, "expiry_backstop")
      BY <2>3 DEF Backstop, TypeOK
    <3>2. /\ exits' \in Seq([row : Nat, id : Id, rule : Rule, day : Nat])
          /\ held' \subseteq Rows
      BY <3>1, WriteExitType DEF Rule
    <3> QED
      BY <2>3, <3>2 DEF Backstop, TypeOK, Rows
  <2>4. ASSUME NEW i \in todo, ManageClose(i) PROVE TypeInv'
    <3>1. i \in Rows /\ WriteExit(i, "strategy")
      BY <2>4 DEF ManageClose, TypeOK
    <3>2. /\ exits' \in Seq([row : Nat, id : Id, rule : Rule, day : Nat])
          /\ held' \subseteq Rows
      BY <3>1, WriteExitType DEF Rule
    <3> QED
      BY <2>4, <3>2 DEF ManageClose, TypeOK, Rows
  <2>5. ASSUME NEW i \in todo, ManageRaise(i) PROVE TypeInv'
    BY <2>5, SMTT(30) DEF ManageRaise, Count, TypeOK, Rows, ledger
  <2> QED
    BY <1>9, <2>1, <2>2, <2>3, <2>4, <2>5 DEF Manage
<1>10. CASE Scan
  <2>1. CASE ScanNothing
    BY <2>1 DEF ScanNothing, EndTurn, TypeOK, Rows, ledger, process
  <2>2. CASE ScanRaise
    BY <2>2 DEF ScanRaise, EndTurn, Count, TypeOK, Rows, ledger
  <2>3. CASE ScanProposes
    <3>1. Room(cur) \in Nat
      BY <2>3, RoomIsNat DEF ScanProposes
    <3>2. batch' \in Nat
      BY <2>3, <3>1 DEF ScanProposes
    <3> QED
      BY <2>3, <3>2 DEF ScanProposes, TypeOK, Rows, ledger, process
  <2> QED
    BY <1>10, <2>1, <2>2, <2>3 DEF Scan
<1>11. CASE Entry
  <2>1. CASE EnterDecline
    BY <2>1, SMTT(30) DEF EnterDecline, TypeOK, Rows, ledger, process
  <2>2. CASE EnterRaise
    <3>1. cur \in Strategy
      BY <2>2 DEF EnterRaise
    <3>2. errors' \in [Strategy -> Nat]
      BY <2>2, <3>1 DEF EnterRaise, Count, TypeOK
    <3>3. seq' \in [Strategy -> Nat]
      <4>1. ASSUME TakeSeq PROVE seq' \in [Strategy -> Nat]
        BY <4>1, <3>1 DEF TakeSeq, TypeOK
      <4>2. ASSUME UNCHANGED seq PROVE seq' \in [Strategy -> Nat]
        BY <4>2 DEF TypeOK
      <4> QED
        BY <2>2, <4>1, <4>2 DEF EnterRaise
    <3>4. batch' \in Nat
      BY <2>2 DEF EnterRaise, TypeOK
    <3> QED
      BY <2>2, <3>1, <3>2, <3>3, <3>4 DEF EnterRaise, TypeOK, Rows, ledger
  <2>3. CASE EnterOrphans
    <3>1. PICK shape \in LegShapes :
            entries' = Append(entries, EntryRow({tick.day + n : n \in shape}))
      BY <2>3 DEF EnterOrphans
    <3>2. /\ entries' \in Seq(Row)
          /\ Rows \subseteq Rows'
      BY <2>3, <3>1, EntryRowType, AppendRowType DEF EnterOrphans
    <3> QED
      BY <2>3, <3>2, SMTT(30) DEF EnterOrphans, Count, TakeSeq, TypeOK
  <2>4. CASE Enter
    <3>1. PICK shape \in LegShapes :
            entries' = Append(entries, EntryRow({tick.day + n : n \in shape}))
      BY <2>4 DEF Enter
    <3>2. /\ entries' \in Seq(Row)
          /\ Rows \subseteq Rows'
          /\ Len(entries) + 1 \in Rows'
      BY <2>4, <3>1, EntryRowType, AppendRowType DEF Enter
    <3> QED
      BY <2>4, <3>2 DEF Enter, TakeSeq, TypeOK
  <2>5. CASE EnterDone
    BY <2>5 DEF EnterDone, EndTurn, TypeOK, Rows, ledger, process
  <2> QED
    BY <1>11, <2>1, <2>2, <2>3, <2>4, <2>5 DEF Entry
<1>12. CASE TickDone
  BY <1>12 DEF TickDone, EndTick, TypeOK, Rows, ledger, process, NoTick, Time
<1>13. CASE UNCHANGED vars
  BY <1>13 DEF vars, TypeOK, Rows
<1> QED
  BY <1>1, <1>2, <1>3, <1>4, <1>5, <1>6, <1>7, <1>8, <1>9, <1>10, <1>11, <1>12,
     <1>13 DEF Next, Step

(* Every variable keeps its shape in every behaviour of the process.       *)
THEOREM TypeCorrect == Spec => []TypeOK
<1>1. TypeInv => TypeOK
  BY DEF TypeInv
<1> QED
  BY <1>1, TypeInvInit, TypeInvNext, PTL DEF Spec

-----------------------------------------------------------------------------
(* The books.  Every reader of the ledger subtracts exited ids from entered *)
(* ids, so the books stand or fall with the ids being distinct.  An id is  *)
(* made of a strategy, the day the process rolled to, the minute of the    *)
(* tick and a counter kept in memory: the strengthening below says why     *)
(* that is enough when no process comes up in a minute in which one of its *)
(* predecessors entered.                                                   *)

TurnStates == {"gate", "turn", "manage", "scan", "enter"}

(* A tick is not of the future; while the day is being rolled the process  *)
(* still has an earlier one, and from the gate on it has the tick's.       *)
Clocked ==
  /\ pc \notin {"down", "idle"} => ~Before(now, tick)
  /\ pday <= now.day
  /\ pc \in {"roll", "settle"} => pday < tick.day
  /\ pc \in TurnStates => tick.day = pday

Cursor == IF pc = "idle" THEN now ELSE tick

(* Every row was written in an earlier minute, or its number is one that   *)
(* the counter of its strategy has passed on the day of the process.       *)
Numbered ==
  pc # "down" => \A i \in Rows :
    \/ Before(Stamp(i), Cursor)
    \/ entries[i].day = pday /\ entries[i].seq < seq[entries[i].sid]

UniqueIds ==
  \A i, j \in Rows : IdOf(entries[i]) = IdOf(entries[j]) => i = j

ExitsEntered == ExitedIds \subseteq {IdOf(entries[i]) : i \in Rows}

TodoHeld == pc \in {"settle", "manage"} => todo \subseteq held

BooksInv ==
  /\ TypeInv
  /\ Clocked
  /\ Numbered
  /\ UniqueIds
  /\ ExitsEntered
  /\ TodoHeld
  /\ HeldRecoverable

(* What appending a row does to the rows of the ledger.                    *)
LEMMA AppendedRows ==
  ASSUME TypeOK, NEW r \in Row, entries' = Append(entries, r)
  PROVE  /\ Rows' = Rows \cup {Len(entries) + 1}
         /\ Len(entries) + 1 \notin Rows
         /\ \A i \in Rows : entries'[i] = entries[i]
         /\ entries'[Len(entries) + 1] = r
  BY DEF TypeOK, Rows

(* The id of the row about to be written is not on the ledger.             *)
LEMMA NewIdIsNew ==
  ASSUME TypeInv, Clocked, Numbered, pc = "enter", NEW legs, NEW i \in Rows
  PROVE  IdOf(entries[i]) # IdOf(EntryRow(legs))
<1>1. entries[i] \in Row /\ tick \in Time
  BY DEF TypeInv, TypeOK, Rows
<1>2. tick.day = pday /\ Cursor = tick
  BY DEF Clocked, TurnStates, Cursor
<1>3. CASE Before(Stamp(i), tick)
  BY <1>1, <1>2, <1>3 DEF Before, Stamp, IdOf, EntryRow, Row, Time
<1>4. CASE entries[i].day = pday /\ entries[i].seq < seq[entries[i].sid]
  <2>1. seq[entries[i].sid] \in Nat
    BY <1>1 DEF TypeInv, TypeOK, Row
  <2> QED
    BY <1>1, <1>4, <2>1 DEF IdOf, EntryRow, Row
<1> QED
  BY <1>2, <1>3, <1>4 DEF Numbered

(* A row of a new id keeps the books, whether or not it is tracked.        *)
LEMMA NewRowKeepsBooks ==
  ASSUME BooksInv, pc = "enter", NEW r \in Row, NEW new,
         Rows' = Rows \cup {new}, new \notin Rows,
         \A i \in Rows : entries'[i] = entries[i],
         entries'[new] = r,
         r.sid = cur, r.day = pday, r.seq = seq[cur],
         \A i \in Rows : IdOf(entries[i]) # IdOf(r),
         UNCHANGED <<exits, pday, tick, pc>>, TakeSeq,
         held' \subseteq held \cup {new}
  PROVE  Numbered' /\ UniqueIds' /\ ExitsEntered' /\ HeldRecoverable'
<1>1. /\ Numbered /\ UniqueIds /\ ExitsEntered /\ HeldRecoverable
      /\ cur \in Strategy /\ seq \in [Strategy -> Nat]
      /\ \A i \in Rows : entries[i] \in Row
  BY DEF BooksInv, TypeInv, TypeOK, TurnHasStrategy, Rows
<1>2. ExitedIds' = ExitedIds
  BY DEF ExitedIds
<1>3. \A i \in Rows : IdOf(entries'[i]) = IdOf(entries[i])
  OBVIOUS
<1>4. Numbered'
  <2> SUFFICES ASSUME NEW i \in Rows'
               PROVE  \/ Before(Stamp(i), Cursor)'
                      \/ /\ entries'[i].day = pday'
                         /\ entries'[i].seq < seq'[entries'[i].sid]
    BY DEF Numbered
  <2>1. Cursor' = Cursor
    BY DEF Cursor
  <2>2. CASE i \in Rows
    <3>1. entries[i].sid \in Strategy /\ entries[i].seq \in Nat
      BY <1>1, <2>2 DEF Row
    <3>2. /\ seq[entries[i].sid] \in Nat /\ seq'[entries[i].sid] \in Nat
          /\ seq'[entries[i].sid] >= seq[entries[i].sid]
      BY <1>1, <3>1 DEF TakeSeq
    <3>3. Stamp(i)' = Stamp(i) /\ entries'[i] = entries[i]
      BY <2>2 DEF Stamp
    <3>4. CASE Before(Stamp(i), Cursor)
      BY <2>1, <3>3, <3>4 DEF Before
    <3>5. CASE entries[i].day = pday /\ entries[i].seq < seq[entries[i].sid]
      BY <3>1, <3>2, <3>3, <3>5
    <3> QED
      BY <1>1, <2>2, <3>4, <3>5 DEF Numbered
  <2>3. CASE i = new
    <3>1. seq[cur] \in Nat /\ seq'[cur] = seq[cur] + 1
      BY <1>1 DEF TakeSeq
    <3>2. entries'[i] = r /\ pday' = pday
      BY <2>3
    <3> QED
      BY <3>1, <3>2
  <2> QED
    BY <2>2, <2>3
<1>5. UniqueIds'
  <2> SUFFICES ASSUME NEW i \in Rows', NEW j \in Rows',
                      IdOf(entries'[i]) = IdOf(entries'[j])
               PROVE  i = j
    BY DEF UniqueIds, IdOf
  <2> QED
    BY <1>1, <1>3 DEF UniqueIds
<1>6. ExitsEntered'
  <2>1. {IdOf(entries[i]) : i \in Rows} \subseteq {IdOf(entries'[i]) : i \in Rows'}
    BY <1>3
  <2> QED
    BY <1>1, <1>2, <2>1 DEF ExitsEntered, IdOf
<1>7. HeldRecoverable'
  <2> SUFFICES ASSUME NEW i \in held'
               PROVE  i \in Rows' /\ IdOf(entries'[i]) \notin ExitedIds
    BY <1>2 DEF HeldRecoverable, OpenRows, IdOf
  <2>1. CASE i \in held
    BY <1>1, <1>3, <2>1 DEF HeldRecoverable, OpenRows
  <2>2. CASE i = new
    BY <1>1, <2>2 DEF ExitsEntered
  <2> QED
    BY <2>1, <2>2
<1> QED
  BY <1>4, <1>5, <1>6, <1>7

(* Writing an entry row keeps the books.                                   *)
LEMMA EntryKeepsBooks ==
  ASSUME BooksInv, pc = "enter", NEW shape \in LegShapes,
         entries' = Append(entries, EntryRow({tick.day + n : n \in shape})),
         UNCHANGED <<exits, pday, tick, pc>>, TakeSeq,
         held' \subseteq held \cup {Len(entries) + 1}
  PROVE  Numbered' /\ UniqueIds' /\ ExitsEntered' /\ HeldRecoverable'
<1> DEFINE r == EntryRow({tick.day + n : n \in shape})
<1>1. r \in Row
  BY EntryRowType DEF BooksInv
<1>2. /\ Rows' = Rows \cup {Len(entries) + 1} /\ Len(entries) + 1 \notin Rows
      /\ \A i \in Rows : entries'[i] = entries[i]
      /\ entries'[Len(entries) + 1] = r
  BY <1>1, AppendedRows DEF BooksInv, TypeInv
<1>3. \A i \in Rows : IdOf(entries[i]) # IdOf(r)
  BY NewIdIsNew DEF BooksInv
<1>4. r.sid = cur /\ r.day = pday /\ r.seq = seq[cur]
  BY DEF EntryRow
<1> HIDE DEF r
<1> QED
  BY <1>1, <1>2, <1>3, <1>4, NewRowKeepsBooks

(* An exit row adds one id to the exited ones.                             *)
LEMMA ExitAddsId ==
  ASSUME TypeOK, NEW i \in Rows, NEW rule \in Rule, WriteExit(i, rule)
  PROVE  /\ ExitedIds' = ExitedIds \cup {IdOf(entries[i])}
         /\ Len(exits') = Len(exits) + 1
         /\ \A k \in 1 .. Len(exits) : exits'[k] = exits[k]
         /\ exits'[Len(exits) + 1].id = IdOf(entries[i])
<1> DEFINE x == [row |-> i, id |-> IdOf(entries[i]), rule |-> rule,
                 day |-> tick.day]
           last == Len(exits) + 1
<1>1. exits' = Append(exits, x) /\ exits \in Seq([row : Nat, id : Id,
                                                 rule : Rule, day : Nat])
  BY DEF WriteExit, TypeOK
<1>2. x.id = IdOf(entries[i])
  OBVIOUS
<1> HIDE DEF x
<1>3. /\ Len(exits) \in Nat /\ Len(exits') = last
      /\ \A k \in 1 .. Len(exits) : exits'[k] = exits[k]
      /\ exits'[last] = x
  BY <1>1
<1>4. 1 .. last = (1 .. Len(exits)) \cup {last}
  BY <1>3
<1>5. ExitedIds' = {exits'[k].id : k \in 1 .. last}
  BY <1>3 DEF ExitedIds
<1> QED
  BY <1>2, <1>3, <1>4, <1>5 DEF ExitedIds

(* Closing a position in memory keeps the books.                           *)
LEMMA ExitKeepsBooks ==
  ASSUME BooksInv, NEW i \in held, NEW rule \in Rule, WriteExit(i, rule),
         UNCHANGED entries
  PROVE  UniqueIds' /\ ExitsEntered' /\ HeldRecoverable'
<1> USE DEF BooksInv
<1>1. i \in Rows /\ held \subseteq Rows /\ Rows' = Rows
  BY DEF TypeInv, TypeOK, Rows
<1>2. ExitedIds' = ExitedIds \cup {IdOf(entries[i])}
  BY <1>1, ExitAddsId DEF TypeInv
<1>3. UniqueIds'
  BY <1>1 DEF UniqueIds, IdOf
<1>4. ExitsEntered'
  BY <1>1, <1>2 DEF ExitsEntered, IdOf
<1>5. HeldRecoverable'
  <2> SUFFICES ASSUME NEW j \in held' PROVE j \in OpenRows'
    BY DEF HeldRecoverable
  <2>1. j \in held /\ j # i /\ j \in Rows
    BY <1>1 DEF WriteExit
  <2>2. IdOf(entries[j]) # IdOf(entries[i])
    BY <1>1, <2>1 DEF UniqueIds
  <2>3. IdOf(entries[j]) \notin ExitedIds
    BY <2>1 DEF HeldRecoverable, OpenRows
  <2> QED
    BY <1>1, <1>2, <2>1, <2>2, <2>3 DEF OpenRows, IdOf
<1> QED
  BY <1>3, <1>4, <1>5

(* What the parts of the invariant other than the clock and the counters   *)
(* see is the ledger and the positions in memory.                          *)
LEMMA SameLedger ==
  ASSUME BooksInv, UNCHANGED <<entries, exits>>, held' \subseteq held
  PROVE  UniqueIds' /\ ExitsEntered' /\ HeldRecoverable'
<1>1. Rows' = Rows /\ ExitedIds' = ExitedIds /\ OpenRows' = OpenRows
  BY DEF Rows, ExitedIds, OpenRows, IdOf
<1> QED
  BY <1>1 DEF BooksInv, UniqueIds, ExitsEntered, HeldRecoverable, IdOf

(* The counters still cover the rows when the ledger, the day and the      *)
(* counters stay and the cursor does not go back.                          *)
LEMMA CursorAdvances ==
  ASSUME BooksInv, TypeInv', UNCHANGED <<entries, pday>>,
         pc # "down", ~Before(Cursor', Cursor),
         \A s \in Strategy : seq'[s] >= seq[s]
  PROVE  Numbered'
<1> SUFFICES ASSUME NEW i \in Rows'
             PROVE  \/ Before(Stamp(i), Cursor)'
                    \/ /\ entries'[i].day = pday'
                       /\ entries'[i].seq < seq'[entries'[i].sid]
  BY DEF Numbered
<1>1. i \in Rows /\ entries'[i] = entries[i] /\ Stamp(i)' = Stamp(i)
  BY DEF Rows, Stamp
<1>2. entries[i] \in Row
  BY <1>1 DEF BooksInv, TypeInv, TypeOK, Rows
<1>3. Cursor \in Time /\ Cursor' \in Time
  BY DEF BooksInv, TypeInv, TypeOK, Cursor
<1>4. CASE Before(Stamp(i), Cursor)
  BY <1>1, <1>2, <1>3, <1>4 DEF Before, Stamp, Time, Row
<1>5. CASE entries[i].day = pday /\ entries[i].seq < seq[entries[i].sid]
  <2>1. /\ seq[entries[i].sid] \in Nat /\ seq'[entries[i].sid] \in Nat
        /\ seq'[entries[i].sid] >= seq[entries[i].sid] /\ entries[i].seq \in Nat
    BY <1>2 DEF BooksInv, TypeInv, TypeOK, Row
  <2> QED
    BY <1>1, <1>5, <2>1
<1> QED
  BY <1>1, <1>4, <1>5 DEF BooksInv, Numbered

(* The other steps of a tick, after the gate, touch neither clock, day nor *)
(* ledger.                                                                 *)
LEMMA QuietStep ==
  ASSUME BooksInv, TypeInv', UNCHANGED <<entries, exits, now, pday, tick>>,
         pc \in TurnStates, pc' \in TurnStates, held' = held,
         \A s \in Strategy : seq'[s] >= seq[s],
         pc' = "manage" => todo' \subseteq held'
  PROVE  BooksInv'
<1>1. UniqueIds' /\ ExitsEntered' /\ HeldRecoverable'
  BY SameLedger
<1>2. Cursor' = tick /\ Cursor = tick /\ pc # "down" /\ tick \in Time
  BY DEF Cursor, TurnStates, BooksInv, TypeInv, TypeOK
<1>3. ~Before(Cursor', Cursor)
  BY <1>2 DEF Before, Time
<1>4. Numbered'
  BY <1>2, <1>3, CursorAdvances
<1>5. Clocked' /\ TodoHeld'
  BY DEF BooksInv, Clocked, TodoHeld, TurnStates, Before
<1> QED
  BY <1>1, <1>4, <1>5 DEF BooksInv

(* Closing a position in a management pass or in a settlement.             *)
LEMMA ClosingStep ==
  ASSUME BooksInv, TypeInv', NEW i \in todo, NEW rule \in Rule,
         WriteExit(i, rule), pc \in {"settle", "manage"}, todo' = todo \ {i},
         UNCHANGED <<entries, now, pc, pday, seq, tick>>
  PROVE  BooksInv'
<1>1. i \in held
  BY DEF BooksInv, TodoHeld
<1>2. UniqueIds' /\ ExitsEntered' /\ HeldRecoverable'
  BY <1>1, ExitKeepsBooks
<1>3. Cursor' = tick /\ Cursor = tick /\ pc # "down" /\ tick \in Time
  BY DEF Cursor, BooksInv, TypeInv, TypeOK
<1>4. /\ \A s \in Strategy : seq'[s] >= seq[s]
      /\ ~Before(Cursor', Cursor)
  <2>1. \A s \in Strategy : seq'[s] >= seq[s]
    <3>1. seq' = seq /\ seq \in [Strategy -> Nat]
      BY DEF BooksInv, TypeInv, TypeOK
    <3> QED
      BY <3>1
  <2>2. ~Before(tick, tick)
    BY <1>3 DEF Before, Time
  <2> QED
    BY <1>3, <2>1, <2>2
<1>5. Numbered'
  BY <1>3, <1>4, CursorAdvances
<1>6. Clocked' /\ TodoHeld'
  BY DEF BooksInv, Clocked, TodoHeld, TurnStates, Before, WriteExit
<1> QED
  BY <1>2, <1>5, <1>6 DEF BooksInv

(* The end of a tick.                                                      *)
LEMMA EndOfTick ==
  ASSUME BooksInv, TypeInv', EndTick, pc \in TurnStates
  PROVE  BooksInv'
<1>1. /\ UNCHANGED <<entries, exits, now, pday, held, seq>>
      /\ pc' = "idle"
  BY DEF EndTick, ledger, process
<1>2. Cursor' = now /\ Cursor = tick
  BY <1>1 DEF Cursor, TurnStates
<1>3. ~Before(Cursor', Cursor) /\ pc # "down"
  BY <1>1, <1>2 DEF BooksInv, Clocked, TurnStates
<1>4. \A s \in Strategy : seq'[s] >= seq[s]
  BY <1>1 DEF BooksInv, TypeInv, TypeOK
<1>5. Numbered'
  BY <1>1, <1>3, <1>4, CursorAdvances
<1>6. Clocked' /\ TodoHeld'
  BY <1>1 DEF BooksInv, Clocked, TodoHeld, TurnStates
<1> QED
  BY <1>1, <1>5, <1>6, SameLedger DEF BooksInv

LEMMA BooksInvInit == Init => BooksInv
<1> SUFFICES ASSUME Init PROVE BooksInv
  OBVIOUS
<1>1. Rows = {} /\ 1 .. Len(exits) = {}
  BY DEF Init, Rows
<1>2. ExitedIds = {}
  BY <1>1 DEF ExitedIds
<1> QED
  BY <1>1, <1>2, TypeInvInit
  DEF Init, BooksInv, Clocked, Numbered, UniqueIds, ExitsEntered, TodoHeld,
      HeldRecoverable, TurnStates

(* Every step keeps the invariant, provided no process comes up in a       *)
(* minute in which a row was written.                                      *)
LEMMA BooksInvNext ==
  ASSUME ~SameMinuteRespawn, BooksInv, [Next]_vars
  PROVE  BooksInv'
<1>1. TypeInv /\ TypeInv'
  BY TypeInvNext DEF BooksInv
<1>2. now \in Time /\ tick \in Time /\ pday \in Nat /\ seq \in [Strategy -> Nat]
  BY <1>1 DEF TypeInv, TypeOK
<1>3. /\ pc \in TurnStates => pc \notin {"down", "idle", "roll", "settle"}
      /\ \A s \in Strategy : seq[s] >= seq[s]
  BY <1>2 DEF TurnStates
<1>4. CASE ClockTicks
  <2>1. /\ UNCHANGED <<entries, exits, pc, pday, held, seq, tick, todo>>
        /\ Before(now, now') /\ now' \in Time /\ now.day <= now'.day
    BY <1>1, <1>2, <1>4, SMTT(30)
    DEF ClockTicks, ledger, process, local, Before, Time, TypeInv, TypeOK
  <2>2. Clocked' /\ TodoHeld'
    BY <1>2, <2>1 DEF BooksInv, Clocked, TodoHeld, TurnStates, Before, Time
  <2>3. ~Before(Cursor', Cursor)
    BY <1>2, <2>1 DEF Before, Time, Cursor
  <2>4. Numbered'
    <3>1. CASE pc = "down"
      BY <2>1, <3>1 DEF Numbered
    <3>2. CASE pc # "down"
      BY <1>1, <1>3, <2>1, <2>3, <3>2, CursorAdvances
    <3> QED
      BY <3>1, <3>2
  <2> QED
    BY <1>1, <2>1, <2>2, <2>4, SameLedger DEF BooksInv
<1>5. CASE Start
  <2>1. /\ UNCHANGED <<entries, exits, now, pday, held>>
        /\ pc = "down" /\ pc' = "idle" /\ MinuteIsNew
    BY <1>5 DEF Start, ledger
  <2>2. Numbered'
    <3>1. Cursor' = now /\ Rows' = Rows
      BY <2>1 DEF Cursor, Rows
    <3> QED
      BY <2>1, <3>1 DEF Numbered, MinuteIsNew, Stamp
  <2>3. Clocked' /\ TodoHeld'
    BY <2>1 DEF BooksInv, Clocked, TodoHeld, TurnStates
  <2> QED
    BY <1>1, <2>1, <2>2, <2>3, SameLedger DEF BooksInv
<1>6. CASE Die
  <2>1. /\ UNCHANGED <<entries, exits, now>> /\ held' = {} /\ pc' = "down"
        /\ pday' = 0
    BY <1>6 DEF Die, MemoryLost, ledger
  <2>2. Numbered' /\ Clocked' /\ TodoHeld'
    BY <1>2, <2>1 DEF Numbered, Clocked, TodoHeld, TurnStates, Time
  <2> QED
    BY <1>1, <2>1, <2>2, SameLedger DEF BooksInv
<1>7. CASE BeginTick
  <2>1. /\ UNCHANGED <<entries, exits, now, pday, held, seq>>
        /\ tick' = now /\ pc = "idle"
        /\ pc' = (IF now.day # pday THEN "roll" ELSE "gate")
    BY <1>7 DEF BeginTick, ledger, process
  <2>2. Cursor' = now /\ Cursor = now
    BY <2>1 DEF Cursor
  <2>3. ~Before(Cursor', Cursor)
    BY <1>2, <2>2 DEF Before, Time
  <2>4. Numbered'
    BY <1>1, <1>3, <2>1, <2>3, CursorAdvances
  <2>5. Clocked' /\ TodoHeld'
    BY <1>2, <2>1 DEF BooksInv, Clocked, TodoHeld, TurnStates, Before, Time
  <2> QED
    BY <1>1, <2>1, <2>4, <2>5, SameLedger DEF BooksInv
<1>8. CASE Roll
  <2>1. CASE RollAbort
    <3>1. /\ UNCHANGED <<entries, exits, now, pday, held, seq>>
          /\ pc = "roll" /\ pc' = "idle"
      BY <2>1 DEF RollAbort, ledger, process
    <3>2. Cursor' = now /\ Cursor = tick
      BY <3>1 DEF Cursor
    <3>3. ~Before(Cursor', Cursor)
      BY <3>1, <3>2 DEF BooksInv, Clocked
    <3>4. Numbered'
      BY <1>1, <1>3, <3>1, <3>3, CursorAdvances
    <3>5. Clocked' /\ TodoHeld'
      BY <3>1 DEF BooksInv, Clocked, TodoHeld, TurnStates
    <3> QED
      BY <1>1, <3>1, <3>4, <3>5, SameLedger DEF BooksInv
  <2>2. CASE RollLoad
    <3>1. /\ UNCHANGED <<entries, exits, now, pday, seq, tick>>
          /\ pc = "roll" /\ pc' = "settle"
          /\ held' = OpenRows /\ todo' \subseteq OpenRows
      BY <2>2 DEF RollLoad, ledger
    <3>2. Cursor' = tick /\ Cursor = tick
      BY <3>1 DEF Cursor
    <3>3. ~Before(Cursor', Cursor)
      BY <1>2, <3>2 DEF Before, Time
    <3>4. Numbered'
      BY <1>1, <1>3, <3>1, <3>3, CursorAdvances
    <3>5. Clocked' /\ TodoHeld'
      BY <3>1 DEF BooksInv, Clocked, TodoHeld, TurnStates, Before
    <3>6. HeldRecoverable'
      BY <3>1 DEF HeldRecoverable, OpenRows, Rows, ExitedIds, IdOf
    <3>7. UniqueIds' /\ ExitsEntered'
      BY <3>1 DEF BooksInv, UniqueIds, ExitsEntered, Rows, ExitedIds, IdOf
    <3> QED
      BY <1>1, <3>4, <3>5, <3>6, <3>7 DEF BooksInv
  <2>3. CASE RollDone
    <3>1. /\ UNCHANGED <<entries, exits, now, held, tick>>
          /\ pc = "settle" /\ pc' = "gate" /\ pday' = tick.day
      BY <2>3 DEF RollDone, ledger
    <3>2. pday < tick.day /\ ~Before(now, tick)
      BY <3>1 DEF BooksInv, Clocked
    <3>3. Numbered'
      <4> SUFFICES ASSUME NEW i \in Rows PROVE Before(Stamp(i), tick)
        BY <3>1 DEF Numbered, Cursor, Rows, Stamp
      <4>1. entries[i] \in Row
        BY <1>1 DEF TypeInv, TypeOK, Rows
      <4>2. CASE entries[i].day = pday
        BY <1>2, <3>2, <4>1, <4>2 DEF Before, Stamp, Time, Row
      <4> QED
        BY <3>1, <4>2 DEF BooksInv, Numbered, Cursor
    <3>4. Clocked' /\ TodoHeld'
      BY <1>2, <3>1, <3>2 DEF Clocked, TodoHeld, TurnStates, Before, Time
    <3> QED
      BY <1>1, <3>1, <3>3, <3>4, SameLedger DEF BooksInv
  <2>4. ASSUME NEW i \in todo, Settle(i) PROVE BooksInv'
    BY <1>1, <2>4, ClosingStep DEF Settle, Rule
  <2>5. ASSUME NEW i \in todo, SettleDefer(i) PROVE BooksInv'
    <3>1. /\ UNCHANGED <<entries, exits, now, pc, pday, held, seq, tick>>
          /\ pc = "settle" /\ todo' = todo \ {i}
      BY <2>5 DEF SettleDefer, ledger, process
    <3>2. Cursor' = tick /\ Cursor = tick
      BY <3>1 DEF Cursor
    <3>3. ~Before(Cursor', Cursor)
      BY <1>2, <3>2 DEF Before, Time
    <3>4. Numbered'
      BY <1>1, <1>3, <3>1, <3>3, CursorAdvances
    <3>5. Clocked' /\ TodoHeld'
      BY <3>1 DEF BooksInv, Clocked, TodoHeld, TurnStates, Before
    <3> QED
      BY <1>1, <3>1, <3>4, <3>5, SameLedger DEF BooksInv
  <2> QED
    BY <1>8, <2>1, <2>2, <2>3, <2>4, <2>5 DEF Roll
<1>9. CASE HeartbeatOnly
  BY <1>1, <1>9, EndOfTick DEF HeartbeatOnly, TurnStates
<1>10. CASE Poll
  BY <1>1, <1>3, <1>10, QuietStep DEF Poll, TurnStates, ledger
<1>11. CASE Turn
  <2>1. ASSUME NEW s \in turn, SkipQuarantined(s) PROVE BooksInv'
    BY <1>1, <1>3, <2>1, QuietStep DEF SkipQuarantined, TurnStates, ledger, process
  <2>2. ASSUME NEW s \in turn, BeginManage(s) PROVE BooksInv'
    <3>1. todo' \subseteq held'
      BY <2>2 DEF BeginManage, RowsOf, process
    <3> QED
      BY <1>1, <1>3, <2>2, <3>1, QuietStep DEF BeginManage, TurnStates, ledger, process
  <2>3. ASSUME NEW s \in turn, SkipManage(s) PROVE BooksInv'
    BY <1>1, <1>3, <2>3, QuietStep DEF SkipManage, TurnStates, ledger, process
  <2> QED
    BY <1>11, <2>1, <2>2, <2>3 DEF Turn
<1>12. CASE Manage
  <2> USE DEF TurnStates
  <2>1. CASE ManageDone
    BY <1>1, <1>3, <2>1, QuietStep DEF ManageDone, ledger, process, local
  <2>2. ASSUME NEW i \in todo, ManageHold(i) PROVE BooksInv'
    <3>1. todo \subseteq held
      BY <2>2 DEF ManageHold, BooksInv, TodoHeld
    <3> QED
      BY <1>1, <1>3, <2>2, <3>1, QuietStep DEF ManageHold, ledger, process
  <2>3. ASSUME NEW i \in todo, Backstop(i) PROVE BooksInv'
    BY <1>1, <2>3, ClosingStep DEF Backstop, Rule
  <2>4. ASSUME NEW i \in todo, ManageClose(i) PROVE BooksInv'
    BY <1>1, <2>4, ClosingStep DEF ManageClose, Rule
  <2>5. ASSUME NEW i \in todo, ManageRaise(i) PROVE BooksInv'
    <3>1. todo \subseteq held
      BY <2>5 DEF ManageRaise, BooksInv, TodoHeld
    <3> QED
      BY <1>1, <1>3, <2>5, <3>1, QuietStep DEF ManageRaise, ledger
  <2> QED
    BY <1>12, <2>1, <2>2, <2>3, <2>4, <2>5 DEF Manage
<1>13. CASE Scan
  <2> USE DEF TurnStates
  <2>1. CASE ScanNothing
    BY <1>1, <1>3, <2>1, QuietStep DEF ScanNothing, EndTurn, ledger, process
  <2>2. CASE ScanRaise
    BY <1>1, <1>3, <2>2, QuietStep DEF ScanRaise, EndTurn, ledger
  <2>3. CASE ScanProposes
    BY <1>1, <1>3, <2>3, QuietStep DEF ScanProposes, ledger, process
  <2> QED
    BY <1>13, <2>1, <2>2, <2>3 DEF Scan
<1>14. CASE Entry
  <2>1. CASE EnterDecline
    BY <1>1, <1>3, <2>1, QuietStep DEF EnterDecline, TurnStates, ledger, process
  <2>2. CASE EnterRaise
    <3>1. \A s \in Strategy : seq'[s] >= seq[s]
      <4>1. CASE TakeSeq
        BY <1>2, <4>1 DEF TakeSeq
      <4>2. CASE UNCHANGED seq
        BY <1>2, <4>2
      <4> QED
        BY <2>2, <4>1, <4>2 DEF EnterRaise
    <3> QED
      BY <1>1, <2>2, <3>1, QuietStep DEF EnterRaise, TurnStates, ledger
  <2>3. CASE EnterOrphans
    <3>1. /\ UNCHANGED <<exits, now, pday, held, tick, pc>> /\ TakeSeq
          /\ pc = "enter"
      BY <2>3 DEF EnterOrphans
    <3>2. Numbered' /\ UniqueIds' /\ ExitsEntered' /\ HeldRecoverable'
      BY <2>3, <3>1, EntryKeepsBooks DEF EnterOrphans
    <3>3. Clocked' /\ TodoHeld'
      BY <3>1 DEF BooksInv, Clocked, TodoHeld, TurnStates, Before
    <3> QED
      BY <1>1, <3>2, <3>3 DEF BooksInv
  <2>4. CASE Enter
    <3>1. /\ UNCHANGED <<exits, now, pday, tick, pc>> /\ TakeSeq
          /\ pc = "enter" /\ held' = held \cup {Len(entries) + 1}
      BY <2>4 DEF Enter
    <3>2. Numbered' /\ UniqueIds' /\ ExitsEntered' /\ HeldRecoverable'
      BY <2>4, <3>1, EntryKeepsBooks DEF Enter
    <3>3. Clocked' /\ TodoHeld'
      BY <3>1 DEF BooksInv, Clocked, TodoHeld, TurnStates, Before
    <3> QED
      BY <1>1, <3>2, <3>3 DEF BooksInv
  <2>5. CASE EnterDone
    BY <1>1, <1>3, <2>5, QuietStep DEF EnterDone, EndTurn, TurnStates, ledger, process
  <2> QED
    BY <1>14, <2>1, <2>2, <2>3, <2>4, <2>5 DEF Entry
<1>15. CASE TickDone
  BY <1>1, <1>15, EndOfTick DEF TickDone, TurnStates
<1>16. CASE UNCHANGED vars
  <2>1. UNCHANGED <<entries, exits, now, pc, pday, held, seq, tick, todo>>
    BY <1>16 DEF vars
  <2>2. Rows' = Rows /\ Cursor' = Cursor
    BY <2>1 DEF Rows, Cursor
  <2>3. Numbered' /\ Clocked' /\ TodoHeld'
    BY <2>1, <2>2
    DEF BooksInv, Numbered, Clocked, TodoHeld, TurnStates, Before, Stamp
  <2> QED
    BY <1>1, <2>1, <2>3, SameLedger DEF BooksInv
<1> QED
  BY <1>4, <1>5, <1>6, <1>7, <1>8, <1>9, <1>10, <1>11, <1>12, <1>13, <1>14,
     <1>15, <1>16 DEF Next, Step

(* What is in memory can be rebuilt from the ledger, whenever the process  *)
(* dies: for every roster, cap and clock, and for any number of restarts   *)
(* of which none is in a minute with an entry.                             *)
THEOREM MemoryIsRecoverable ==
  ASSUME ~SameMinuteRespawn
  PROVE  Spec => []HeldRecoverable
<1>1. BooksInv /\ [Next]_vars => BooksInv'
  BY BooksInvNext
<1>2. BooksInv => HeldRecoverable
  BY DEF BooksInv
<1> QED
  BY <1>1, <1>2, BooksInvInit, PTL DEF Spec

-----------------------------------------------------------------------------
(* The ledger implements the position book.                                *)

BookEntered == [i \in Rows |-> IdOf(entries[i])]
BookExited  == [k \in 1 .. Len(exits) |-> exits[k].id]

(* The book's logs hold the ids of the ledger's rows.                      *)
LEMMA BookLogs ==
  /\ Book!Logged(BookEntered) = {IdOf(entries[i]) : i \in Rows}
  /\ Book!Logged(BookExited) = ExitedIds
  BY DEF Book!Logged, BookEntered, BookExited, ExitedIds

(* Writing an entry row enters its id.                                     *)
LEMMA EntryEnters ==
  ASSUME BooksInv, pc = "enter", NEW shape \in LegShapes,
         entries' = Append(entries, EntryRow({tick.day + n : n \in shape})),
         UNCHANGED exits
  PROVE  Book!Next
<1> DEFINE r == EntryRow({tick.day + n : n \in shape})
<1>1. r \in Row
  BY EntryRowType DEF BooksInv
<1>2. \A i \in Rows : IdOf(entries[i]) # IdOf(r)
  BY NewIdIsNew DEF BooksInv
<1>3. entries \in Seq(Row) /\ entries' = Append(entries, r)
  BY DEF BooksInv, TypeInv, TypeOK
<1> HIDE DEF r
<1>4. IdOf(r) \in Id
  BY <1>1 DEF IdOf, Id, Row
<1>5. BookEntered' = Append(BookEntered, IdOf(r))
  <2>1. /\ Len(entries') = Len(entries) + 1 /\ Len(entries) \in Nat
        /\ \A i \in 1 .. Len(entries) : entries'[i] = entries[i]
        /\ entries'[Len(entries) + 1] = r
    BY <1>1, <1>3
  <2>2. BookEntered = [i \in 1 .. Len(entries) |-> IdOf(entries[i])]
    BY DEF BookEntered, Rows
  <2>3. BookEntered' = [i \in 1 .. Len(entries') |-> IdOf(entries'[i])]
    BY DEF BookEntered, Rows, IdOf
  <2> QED
    BY <2>1, <2>2, <2>3
<1>6. BookExited' = BookExited
  BY DEF BookExited
<1>7. IdOf(r) \in Id \ Book!Logged(BookEntered)
  BY <1>2, <1>4, BookLogs
<1>8. IdOf(r) \in Book!Logged(BookEntered')
  <2>1. /\ DOMAIN BookEntered' = 1 .. Len(entries) + 1
        /\ BookEntered'[Len(entries) + 1] = IdOf(r)
    BY <1>1, <1>3 DEF BookEntered, Rows, IdOf
  <2>2. Len(entries) + 1 \in 1 .. Len(entries) + 1
    BY <1>3
  <2> QED
    BY <2>1, <2>2 DEF Book!Logged
<1> QED
  BY <1>5, <1>6, <1>7, <1>8 DEF Book!Next, Book!Enter, BookEntered, BookExited

(* Closing a position in memory exits its id.                              *)
LEMMA ClosingExits ==
  ASSUME BooksInv, NEW i \in todo, NEW rule \in Rule, WriteExit(i, rule),
         pc \in {"settle", "manage"}, UNCHANGED entries
  PROVE  Book!Next
<1> DEFINE id == IdOf(entries[i])
<1>1. i \in held /\ i \in Rows /\ i \in OpenRows
  BY DEF BooksInv, TodoHeld, HeldRecoverable, OpenRows
<1>2. id \in Book!Logged(BookEntered) \ Book!Logged(BookExited)
  BY <1>1, BookLogs DEF OpenRows
<1>3. /\ Len(exits') = Len(exits) + 1 /\ Len(exits) \in Nat
      /\ \A k \in 1 .. Len(exits) : exits'[k] = exits[k]
      /\ exits'[Len(exits) + 1].id = id
  BY <1>1, ExitAddsId DEF BooksInv, TypeInv, TypeOK
<1> HIDE DEF id
<1>4. BookExited' = Append(BookExited, id)
  BY <1>3 DEF BookExited
<1>5. BookEntered' = BookEntered
  BY DEF BookEntered, Rows, IdOf
<1>6. id \in Book!Logged(BookExited')
  <2>1. /\ DOMAIN BookExited' = 1 .. Len(exits) + 1
        /\ BookExited'[Len(exits) + 1] = id
        /\ Len(exits) + 1 \in 1 .. Len(exits) + 1
    BY <1>3 DEF BookExited
  <2> QED
    BY <2>1 DEF Book!Logged
<1> QED
  BY <1>2, <1>4, <1>5, <1>6 DEF Book!Next, Book!Exit, BookEntered, BookExited

(* A step that leaves the ledger alone is a stutter of the book.           *)
LEMMA BookStutters ==
  ASSUME UNCHANGED <<entries, exits>>
  PROVE  UNCHANGED Book!bookVars
  BY DEF Book!bookVars, Rows, IdOf

(* Every step of the process is a step of the book or a stutter.           *)
LEMMA BookStep ==
  ASSUME BooksInv, [Next]_vars
  PROVE  [Book!Next]_(Book!bookVars)
<1>1. CASE ClockTicks \/ Start \/ Die \/ BeginTick \/ HeartbeatOnly \/ Poll
             \/ TickDone \/ UNCHANGED vars
  BY <1>1, BookStutters
  DEF ClockTicks, Start, Die, BeginTick, HeartbeatOnly, EndTick, Poll, TickDone,
      vars, ledger
<1>2. CASE Roll
  <2>1. CASE RollAbort \/ RollLoad \/ RollDone
    BY <2>1, BookStutters DEF RollAbort, RollLoad, RollDone, ledger
  <2>2. ASSUME NEW i \in todo, Settle(i) PROVE Book!Next
    BY <2>2, ClosingExits DEF Settle, Rule
  <2>3. ASSUME NEW i \in todo, SettleDefer(i) PROVE UNCHANGED Book!bookVars
    BY <2>3, BookStutters DEF SettleDefer, ledger
  <2> QED
    BY <1>2, <2>1, <2>2, <2>3 DEF Roll
<1>3. CASE Turn
  BY <1>3, BookStutters DEF Turn, SkipQuarantined, BeginManage, SkipManage, ledger
<1>4. CASE Manage
  <2>1. CASE ManageDone
    BY <2>1, BookStutters DEF ManageDone, ledger
  <2>2. ASSUME NEW i \in todo, ManageHold(i) \/ ManageRaise(i)
        PROVE  UNCHANGED Book!bookVars
    BY <2>2, BookStutters DEF ManageHold, ManageRaise, ledger
  <2>3. ASSUME NEW i \in todo, Backstop(i) PROVE Book!Next
    BY <2>3, ClosingExits DEF Backstop, Rule
  <2>4. ASSUME NEW i \in todo, ManageClose(i) PROVE Book!Next
    BY <2>4, ClosingExits DEF ManageClose, Rule
  <2> QED
    BY <1>4, <2>1, <2>2, <2>3, <2>4 DEF Manage
<1>5. CASE Scan
  BY <1>5, BookStutters DEF Scan, ScanNothing, ScanRaise, ScanProposes, ledger
<1>6. CASE Entry
  <2>1. CASE EnterDecline \/ EnterRaise \/ EnterDone
    BY <2>1, BookStutters DEF EnterDecline, EnterRaise, EnterDone, ledger
  <2>2. CASE EnterOrphans
    BY <2>2, EntryEnters DEF EnterOrphans
  <2>3. CASE Enter
    BY <2>3, EntryEnters DEF Enter
  <2> QED
    BY <1>6, <2>1, <2>2, <2>3 DEF Entry
<1> QED
  BY <1>1, <1>2, <1>3, <1>4, <1>5, <1>6 DEF Next, Step

(* No position id is entered twice, exited twice or exited before it is    *)
(* entered, however often the process dies and rebuilds.                   *)
THEOREM LedgerImplementsBook ==
  ASSUME ~SameMinuteRespawn
  PROVE  Spec => BookRefined
<1>1. Init => Book!Init
  BY DEF Init, Book!Init, Rows
<1>2. BooksInv /\ [Next]_vars => BooksInv'
  BY BooksInvNext
<1>3. BooksInv /\ [Next]_vars => [Book!Next]_(Book!bookVars)
  BY BookStep
<1> QED
  BY <1>1, <1>2, <1>3, BooksInvInit, PTL DEF Spec, BookRefined, Book!Spec

-----------------------------------------------------------------------------
(* The rules of the runner's passes.                                       *)

\* what has still to be entered fits under the cap
Fits ==
  pc = "enter" => Cardinality(RowsOf(cur)) + batch <= MaxConcurrent[cur]

\* a combo settlement has been past and left open had a price missing
Passed ==
  pc = "settle" =>
    \A i \in held : HasExpired(i, tick.day) =>
      i \in todo \/ i \notin priced \/ ~LiveLegsQuoted(i, tick.day)

\* a combo the management pass has been past is not due for the backstop
Swept ==
  pc = "manage" =>
    \A i \in RowsOf(cur) : i \in todo \/ ~(Booked(i) /\ BackstopDue(i, tick))

RulesInv == TypeInv /\ Fits /\ Passed /\ Swept

(* The rules read the ledger only through the rows in memory, which a      *)
(* further row does not change.                                            *)
LEMMA RulesFrame ==
  ASSUME UNCHANGED <<entries, held, quoted, tick, cur>>
  PROVE  /\ \A s : RowsOf(s)' = RowsOf(s)
         /\ \A i, d : HasExpired(i, d)' = HasExpired(i, d)
         /\ \A i, d : LiveLegsQuoted(i, d)' = LiveLegsQuoted(i, d)
         /\ \A i : Booked(i)' = Booked(i)
         /\ \A i, t : BackstopDue(i, t)' = BackstopDue(i, t)
  BY DEF RowsOf, HasExpired, LiveLegsQuoted, Booked, Occ, BackstopDue

(* A step that leaves everything the rules read alone.                     *)
LEMMA RulesStutter ==
  ASSUME RulesInv, TypeInv',
         UNCHANGED <<entries, held, quoted, tick, cur, pc, batch, todo, priced>>
  PROVE  RulesInv'
  BY RulesFrame DEF RulesInv, Fits, Passed, Swept

(* A step to a state none of the rules is about.                           *)
LEMMA RulesElsewhere ==
  ASSUME TypeInv', pc' \notin {"enter", "settle", "manage"}
  PROVE  RulesInv'
  BY DEF RulesInv, Fits, Passed, Swept

(* Entering a row takes a place of the batch, and tracking it one of the   *)
(* cap.                                                                    *)
LEMMA EntryFits ==
  ASSUME RulesInv, TypeInv', pc = "enter", UNCHANGED <<pc, cur>>,
         batch' = batch - 1, NEW shape \in LegShapes,
         entries' = Append(entries, EntryRow({tick.day + n : n \in shape})),
         held' \subseteq held \cup {Len(entries) + 1}
  PROVE  /\ RulesInv'
         /\ Cardinality(RowsOf(cur)') + batch' <= MaxConcurrent[cur]
         /\ Cardinality(RowsOf(cur)') \in Nat
<1> DEFINE new == Len(entries) + 1
<1>1. cur \in Strategy /\ TypeOK /\ held \subseteq Rows /\ batch \in Nat
  BY DEF RulesInv, TypeInv, TypeOK, TurnHasStrategy
<1>2. EntryRow({tick.day + n : n \in shape}) \in Row
  BY EntryRowType DEF RulesInv
<1>3. \A i \in Rows : entries'[i] = entries[i]
  BY <1>1, <1>2, AppendedRows
<1> HIDE DEF new
<1>4. RowsOf(cur)' \subseteq RowsOf(cur) \cup {new}
  <2> SUFFICES ASSUME NEW i \in RowsOf(cur)', i # new
               PROVE  i \in RowsOf(cur)
    OBVIOUS
  <2>1. i \in held' /\ entries'[i].sid = cur
    BY DEF RowsOf
  <2>2. i \in held /\ i \in Rows
    BY <1>1, <2>1 DEF new
  <2> QED
    BY <1>3, <2>1, <2>2 DEF RowsOf
<1>5. /\ IsFiniteSet(RowsOf(cur)) /\ Cardinality(RowsOf(cur)) \in Nat
  BY <1>1, RoomIsNat
<1>6. /\ IsFiniteSet(RowsOf(cur) \cup {new})
      /\ Cardinality(RowsOf(cur) \cup {new}) <= Cardinality(RowsOf(cur)) + 1
      /\ Cardinality(RowsOf(cur) \cup {new}) \in Nat
  <2> DEFINE R == RowsOf(cur)
  <2>1. IsFiniteSet(R) /\ Cardinality(R) \in Nat
    BY <1>5
  <2> HIDE DEF R
  <2>2. /\ IsFiniteSet(R \cup {new})
        /\ \/ Cardinality(R \cup {new}) = Cardinality(R)
           \/ Cardinality(R \cup {new}) = Cardinality(R) + 1
    BY <2>1, FS_AddElement
  <2> QED
    BY <2>1, <2>2 DEF R
<1>7. /\ Cardinality(RowsOf(cur)') <= Cardinality(RowsOf(cur) \cup {new})
      /\ Cardinality(RowsOf(cur)') \in Nat
  BY <1>4, <1>6, FS_Subset, FS_CardinalityType
<1>8. MaxConcurrent[cur] \in Nat
  BY <1>1, RosterAssumption
<1>9. Cardinality(RowsOf(cur)) + batch <= MaxConcurrent[cur]
  BY DEF RulesInv, Fits
<1>10. Cardinality(RowsOf(cur)') + batch' <= MaxConcurrent[cur]
  BY <1>1, <1>5, <1>6, <1>7, <1>8, <1>9, SMTT(30)
<1> QED
  BY <1>7, <1>10 DEF RulesInv, Fits, Passed, Swept

LEMMA RulesInvInit == Init => RulesInv
  BY TypeInvInit DEF Init, RulesInv, Fits, Passed, Swept

(* A step of the settlement pass past one combo.                           *)
LEMMA PassOne ==
  ASSUME RulesInv, TypeInv', pc = "settle", NEW i \in todo,
         UNCHANGED <<entries, quoted, tick, cur, pc>>,
         todo' = todo \ {i}, priced' \subseteq priced, held' \subseteq held,
         i \in held' => i \notin priced' \/ ~LiveLegsQuoted(i, tick.day)
  PROVE  RulesInv'
<1>1. ASSUME NEW j \in held', HasExpired(j, tick.day)'
      PROVE  j \in todo' \/ j \notin priced' \/ ~LiveLegsQuoted(j, tick.day)'
  <2>1. /\ HasExpired(j, tick.day)' = HasExpired(j, tick.day)
        /\ LiveLegsQuoted(j, tick.day)' = LiveLegsQuoted(j, tick.day)
    BY DEF HasExpired, LiveLegsQuoted
  <2>2. j \in todo \/ j \notin priced \/ ~LiveLegsQuoted(j, tick.day)
    BY <1>1, <2>1 DEF RulesInv, Passed
  <2> QED
    BY <1>1, <2>1, <2>2
<1> QED
  BY <1>1 DEF RulesInv, Fits, Passed, Swept

(* A step of the management pass past one combo.                           *)
LEMMA SweepOne ==
  ASSUME RulesInv, TypeInv', pc = "manage", NEW i \in todo,
         UNCHANGED <<entries, quoted, tick, cur, pc>>,
         todo' = todo \ {i}, held' \subseteq held,
         i \in held' => ~(Booked(i) /\ BackstopDue(i, tick))
  PROVE  RulesInv'
<1>1. ASSUME NEW j \in RowsOf(cur)'
      PROVE  j \in todo' \/ ~(Booked(j) /\ BackstopDue(j, tick))'
  <2>1. /\ Booked(j)' = Booked(j)
        /\ BackstopDue(j, tick)' = BackstopDue(j, tick)
        /\ j \in RowsOf(cur) /\ j \in held'
    BY <1>1 DEF Booked, Occ, BackstopDue, RowsOf
  <2>2. j \in todo \/ ~(Booked(j) /\ BackstopDue(j, tick))
    BY <2>1 DEF RulesInv, Swept
  <2> QED
    BY <2>1, <2>2
<1> QED
  BY <1>1 DEF RulesInv, Fits, Passed, Swept

(* Every step follows the rules.                                           *)
LEMMA RulesInvNext ==
  ASSUME RulesInv, [Next]_vars
  PROVE  RulesInv'
<1>1. TypeInv /\ TypeInv' /\ TypeOK
  BY TypeInvNext DEF RulesInv, TypeInv
<1>2. CASE ClockTicks
  BY <1>1, <1>2, RulesStutter DEF ClockTicks, ledger, process, local
<1>3. CASE UNCHANGED vars
  BY <1>1, <1>3, RulesStutter DEF vars
<1>4. CASE Start \/ Die \/ BeginTick \/ HeartbeatOnly \/ Poll \/ TickDone
  BY <1>1, <1>4, RulesElsewhere
  DEF Start, Die, MemoryLost, BeginTick, HeartbeatOnly, EndTick, Poll, TickDone
<1>5. CASE Roll
  <2>1. CASE RollAbort \/ RollDone
    BY <1>1, <2>1, RulesElsewhere DEF RollAbort, RollDone
  <2>2. CASE RollLoad
    <3>1. /\ pc' = "settle" /\ held' = OpenRows /\ UNCHANGED <<entries, tick>>
          /\ todo' = {i \in OpenRows : HasExpired(i, tick.day)}
      BY <2>2 DEF RollLoad, ledger
    <3>2. \A i \in held' : HasExpired(i, tick.day)' => i \in todo'
      BY <3>1 DEF HasExpired
    <3> QED
      BY <1>1, <3>1, <3>2 DEF RulesInv, Fits, Passed, Swept
  <2>3. ASSUME NEW i \in todo, Settle(i) PROVE RulesInv'
    BY <1>1, <2>3, PassOne DEF Settle, WriteExit
  <2>4. ASSUME NEW i \in todo, SettleDefer(i) PROVE RulesInv'
    BY <1>1, <2>4, PassOne DEF SettleDefer, ledger, process
  <2> QED
    BY <1>5, <2>1, <2>2, <2>3, <2>4 DEF Roll
<1>6. CASE Turn
  <2>1. ASSUME NEW s \in turn, SkipQuarantined(s) \/ SkipManage(s) PROVE RulesInv'
    BY <1>1, <2>1, RulesElsewhere DEF SkipQuarantined, SkipManage
  <2>2. ASSUME NEW s \in turn, BeginManage(s) PROVE RulesInv'
    <3>1. /\ pc' = "manage" /\ cur' = s /\ todo' = RowsOf(s)
          /\ UNCHANGED <<entries, held>>
      BY <2>2 DEF BeginManage, ledger, process
    <3>2. RowsOf(cur)' = todo'
      BY <3>1 DEF RowsOf
    <3> QED
      BY <1>1, <3>1, <3>2 DEF RulesInv, Fits, Passed, Swept
  <2> QED
    BY <1>6, <2>1, <2>2 DEF Turn
<1>7. CASE Manage
  <2>1. CASE ManageDone
    BY <1>1, <2>1, RulesElsewhere DEF ManageDone
  <2>2. ASSUME NEW i \in todo, ManageHold(i) PROVE RulesInv'
    BY <1>1, <2>2, SweepOne DEF ManageHold, ledger, process
  <2>3. ASSUME NEW i \in todo, Backstop(i) PROVE RulesInv'
    BY <1>1, <2>3, SweepOne DEF Backstop, WriteExit
  <2>4. ASSUME NEW i \in todo, ManageClose(i) PROVE RulesInv'
    BY <1>1, <2>4, SweepOne DEF ManageClose, WriteExit
  <2>5. ASSUME NEW i \in todo, ManageRaise(i) PROVE RulesInv'
    BY <1>1, <2>5, SweepOne DEF ManageRaise, ledger
  <2> QED
    BY <1>7, <2>1, <2>2, <2>3, <2>4, <2>5 DEF Manage
<1>8. CASE Scan
  <2>1. CASE ScanNothing \/ ScanRaise
    BY <1>1, <2>1, RulesElsewhere DEF ScanNothing, ScanRaise, EndTurn
  <2>2. CASE ScanProposes
    <3>1. /\ pc = "scan" /\ pc' = "enter" /\ batch' \in 1 .. Room(cur)
          /\ UNCHANGED <<entries, held, cur>>
      BY <2>2 DEF ScanProposes, ledger, process
    <3>2. cur \in Strategy /\ MaxConcurrent[cur] \in Nat
      BY <1>1, <3>1, RosterAssumption DEF TypeInv, TurnHasStrategy
    <3>3. Cardinality(RowsOf(cur)) \in Nat /\ Room(cur) \in Nat
      BY <1>1, <3>2, RoomIsNat
    <3>4. Cardinality(RowsOf(cur)) + batch' <= MaxConcurrent[cur]
      BY <3>1, <3>2, <3>3 DEF Room
    <3>5. RowsOf(cur)' = RowsOf(cur)
      BY <3>1 DEF RowsOf
    <3> QED
      BY <1>1, <3>1, <3>4, <3>5 DEF RulesInv, Fits, Passed, Swept
  <2> QED
    BY <1>8, <2>1, <2>2 DEF Scan
<1>9. CASE Entry
  <2>1. CASE EnterDecline \/ EnterRaise
    <3>1. /\ pc = "enter" /\ pc' = "enter" /\ batch' = batch - 1
          /\ UNCHANGED <<entries, held, cur>>
      BY <2>1 DEF EnterDecline, EnterRaise, ledger, process
    <3>2. cur \in Strategy /\ MaxConcurrent[cur] \in Nat /\ batch \in Nat
      BY <1>1, <3>1, RosterAssumption DEF TypeInv, TypeOK, TurnHasStrategy
    <3>3. Cardinality(RowsOf(cur)) \in Nat
      BY <1>1, <3>2, RoomIsNat
    <3>4. RowsOf(cur)' = RowsOf(cur)
      BY <3>1 DEF RowsOf
    <3>5. Cardinality(RowsOf(cur)) + batch' <= MaxConcurrent[cur]
      BY <3>1, <3>2, <3>3 DEF RulesInv, Fits
    <3> QED
      BY <1>1, <3>1, <3>4, <3>5 DEF RulesInv, Fits, Passed, Swept
  <2>2. CASE EnterOrphans
    BY <1>1, <2>2, EntryFits DEF EnterOrphans
  <2>3. CASE Enter
    BY <1>1, <2>3, EntryFits DEF Enter
  <2>4. CASE EnterDone
    BY <1>1, <2>4, RulesElsewhere DEF EnterDone, EndTurn
  <2> QED
    BY <1>9, <2>1, <2>2, <2>3, <2>4 DEF Entry
<1> QED
  BY <1>2, <1>3, <1>4, <1>5, <1>6, <1>7, <1>8, <1>9 DEF Next, Step

(* A settlement pass leaves a combo with an expired leg open only for want *)
(* of a price.                                                             *)
THEOREM SettlementIsComplete == Spec => SettlementPass
<1>1. RulesInv /\ [Next]_vars => RulesInv'
  BY RulesInvNext
<1>2. ASSUME RulesInv, [Next]_vars, pc = "settle", pc' = "gate",
             NEW i \in held, HasExpired(i, tick.day)
      PROVE  i \notin priced \/ ~LiveLegsQuoted(i, tick.day)
  <2>1. todo = {}
    BY <1>2 DEF Next, Step, ClockTicks, Start, Die, MemoryLost, BeginTick, Roll,
       RollAbort, RollLoad, RollDone, Settle, SettleDefer, HeartbeatOnly, Poll,
       Turn, SkipQuarantined, BeginManage, SkipManage, Manage, ManageDone,
       ManageHold, Backstop, ManageClose, ManageRaise, Scan, ScanNothing,
       ScanRaise, ScanProposes, Entry, EnterDecline, EnterRaise, EnterOrphans,
       Enter, EnterDone, TickDone, EndTick, EndTurn, vars
  <2> QED
    BY <1>2, <2>1 DEF RulesInv, Passed
<1>3. RulesInv /\ [Next]_vars =>
        (pc = "settle" /\ pc' = "gate" =>
           \A i \in held : HasExpired(i, tick.day) =>
             i \notin priced \/ ~LiveLegsQuoted(i, tick.day))
  BY <1>2
<1> QED
  BY <1>1, <1>3, RulesInvInit, PTL DEF Spec, SettlementPass

(* A management pass that ends leaves no combo due for the backstop.       *)
THEOREM BackstopIsComplete == Spec => ManageSweeps
<1>1. RulesInv /\ [Next]_vars => RulesInv'
  BY RulesInvNext
<1>2. ASSUME RulesInv, [Next]_vars, pc = "manage", pc' = "scan",
             NEW i \in RowsOf(cur)
      PROVE  ~(Booked(i) /\ BackstopDue(i, tick))
  <2>1. todo = {}
    BY <1>2 DEF Next, Step, ClockTicks, Start, Die, MemoryLost, BeginTick, Roll,
       RollAbort, RollLoad, RollDone, Settle, SettleDefer, HeartbeatOnly, Poll,
       Turn, SkipQuarantined, BeginManage, SkipManage, Manage, ManageDone,
       ManageHold, Backstop, ManageClose, ManageRaise, Scan, ScanNothing,
       ScanRaise, ScanProposes, Entry, EnterDecline, EnterRaise, EnterOrphans,
       Enter, EnterDone, TickDone, EndTick, EndTurn, vars
  <2> QED
    BY <1>2, <2>1 DEF RulesInv, Swept
<1>3. RulesInv /\ [Next]_vars =>
        (pc = "manage" /\ pc' = "scan" =>
           \A i \in RowsOf(cur) : ~(Booked(i) /\ BackstopDue(i, tick)))
  BY <1>2
<1> QED
  BY <1>1, <1>3, RulesInvInit, PTL DEF Spec, ManageSweeps

(* No entry takes a strategy past its cap.                                 *)
THEOREM CapHolds == Spec => CapRespected
<1>1. RulesInv /\ [Next]_vars => RulesInv'
  BY RulesInvNext
<1>2. ASSUME RulesInv, RulesInv', [Next]_vars,
             Len(entries') > Len(entries), held' # held
      PROVE  Cardinality(RowsOf(cur)') <= MaxConcurrent[cur]
  <2>1. Len(entries) \in Nat /\ batch' \in Nat
    BY <1>2 DEF RulesInv, TypeInv, TypeOK
  <2>2. Enter
    BY <1>2, <2>1 DEF Next, Step, ClockTicks, Start, Die, BeginTick, Roll,
       RollAbort, RollLoad, RollDone, Settle, SettleDefer, HeartbeatOnly, Poll,
       Turn, SkipQuarantined, BeginManage, SkipManage, Manage, ManageDone,
       ManageHold, Backstop, ManageClose, ManageRaise, Scan, ScanNothing,
       ScanRaise, ScanProposes, Entry, EnterDecline, EnterRaise, EnterOrphans,
       EnterDone, TickDone, EndTick, vars, ledger
  <2>3. /\ Cardinality(RowsOf(cur)') + batch' <= MaxConcurrent[cur]
        /\ Cardinality(RowsOf(cur)') \in Nat
    BY <1>2, <2>2, EntryFits DEF Enter, RulesInv
  <2>4. cur \in Strategy /\ MaxConcurrent[cur] \in Nat
    BY <2>2, <1>2, RosterAssumption DEF Enter, RulesInv, TypeInv, TurnHasStrategy
  <2> QED
    BY <2>1, <2>3, <2>4
<1>3. RulesInv /\ RulesInv' /\ [Next]_vars =>
        (Len(entries') > Len(entries) /\ held' # held
           => Cardinality(RowsOf(cur)') <= MaxConcurrent[cur])
  BY <1>2
<1> QED
  BY <1>1, <1>3, RulesInvInit, PTL DEF Spec, CapRespected

-----------------------------------------------------------------------------
(* Nothing on the books escapes the process.  The rebuild takes all there  *)
(* is, settlement only closes, and after it an open row the process does   *)
(* not hold can only come from a write that failed after the row was on    *)
(* disk, which is counted.                                                 *)

RebuiltAll == pc = "settle" => OpenRows \subseteq held

TrackInv == TypeInv /\ RebuiltAll /\ BooksComplete

LEMMA UntrackedIsFinite ==
  ASSUME TypeOK, NEW s \in Strategy
  PROVE  IsFiniteSet(Untracked(s)) /\ Cardinality(Untracked(s)) \in Nat
<1>1. IsFiniteSet(Rows)
  BY FS_Interval DEF Rows, TypeOK
<1>2. Untracked(s) \subseteq Rows
  BY DEF Untracked, OpenRows
<1> QED
  BY <1>1, <1>2, FS_Subset, FS_CardinalityType

(* A step outside settlement after which no more is untracked and no error *)
(* is forgotten.                                                           *)
LEMMA TrackShrinks ==
  ASSUME TrackInv, TypeInv', UNCHANGED pday, pc # "settle", pc' # "settle",
         \A s \in Strategy :
           Untracked(s)' \subseteq Untracked(s) /\ errors'[s] >= errors[s]
  PROVE  TrackInv'
<1>1. ASSUME NEW s \in Strategy, pday' # 0
      PROVE  Cardinality(Untracked(s)') <= errors'[s]
  <2>1. /\ IsFiniteSet(Untracked(s)) /\ Cardinality(Untracked(s)) \in Nat
        /\ errors[s] \in Nat /\ errors'[s] \in Nat
    BY UntrackedIsFinite DEF TrackInv, TypeInv, TypeOK
  <2>2. /\ Cardinality(Untracked(s)') <= Cardinality(Untracked(s))
        /\ Cardinality(Untracked(s)') \in Nat
    BY <2>1, FS_Subset, FS_CardinalityType
  <2>3. Cardinality(Untracked(s)) <= errors[s]
    BY <1>1 DEF TrackInv, BooksComplete
  <2> QED
    BY <2>1, <2>2, <2>3
<1> QED
  BY <1>1 DEF TrackInv, RebuiltAll, BooksComplete

(* A step outside settlement that leaves ledger and memory alone.          *)
LEMMA TrackFrame ==
  ASSUME TrackInv, TypeInv', UNCHANGED <<entries, exits, held, pday>>,
         pc # "settle", pc' # "settle",
         \A s \in Strategy : errors'[s] >= errors[s]
  PROVE  TrackInv'
<1>1. \A s \in Strategy : Untracked(s)' = Untracked(s)
  BY DEF Untracked, OpenRows, Rows, ExitedIds, IdOf
<1> QED
  BY <1>1, TrackShrinks

(* A step within settlement that opens nothing it does not hold.           *)
LEMMA TrackSettle ==
  ASSUME TypeInv', pc' = "settle", OpenRows' \subseteq held'
  PROVE  TrackInv'
  BY DEF TrackInv, RebuiltAll, BooksComplete

(* An exit closes its row whoever held it.                                 *)
LEMMA ExitCloses ==
  ASSUME TypeOK, NEW i \in Rows, NEW rule \in Rule, WriteExit(i, rule),
         UNCHANGED entries
  PROVE  OpenRows' \subseteq OpenRows \ {i} /\ held' = held \ {i}
<1>1. ExitedIds' = ExitedIds \cup {IdOf(entries[i])}
  BY ExitAddsId
<1>2. Rows' = Rows /\ \A j \in Rows : IdOf(entries'[j]) = IdOf(entries[j])
  BY DEF Rows
<1>3. OpenRows' = {j \in Rows : IdOf(entries[j]) \notin ExitedIds'}
  BY <1>2 DEF OpenRows, IdOf
<1> QED
  BY <1>1, <1>3 DEF OpenRows, WriteExit

LEMMA TrackClosing ==
  ASSUME TrackInv, TypeInv', NEW i \in todo, NEW rule \in Rule,
         WriteExit(i, rule), UNCHANGED <<entries, pday, pc, errors>>,
         pc = "manage"
  PROVE  TrackInv'
<1>1. TypeOK /\ i \in Rows
  BY DEF TrackInv, TypeInv, TypeOK
<1>2. OpenRows' \subseteq OpenRows \ {i} /\ held' = held \ {i}
  BY <1>1, ExitCloses
<1>3. \A s \in Strategy :
        Untracked(s)' \subseteq Untracked(s) /\ errors'[s] >= errors[s]
  BY <1>1, <1>2 DEF Untracked, TypeOK
<1> QED
  BY <1>3, TrackShrinks

LEMMA TrackInvInit == Init => TrackInv
  BY TypeInvInit DEF Init, TrackInv, RebuiltAll, BooksComplete

(* A row written: what it adds to the open rows is itself at most.         *)
LEMMA WritingOpens ==
  ASSUME TypeInv, pc = "enter", NEW shape \in LegShapes, NEW s, NEW new,
         new = Len(entries) + 1,
         entries' = Append(entries, EntryRow({tick.day + n : n \in shape})),
         UNCHANGED exits, held \subseteq held'
  PROVE  /\ Untracked(s)' \subseteq Untracked(s) \cup {new}
         /\ s # cur => new \notin Untracked(s)'
<1>1. EntryRow({tick.day + n : n \in shape}) \in Row
  BY EntryRowType
<1>2. /\ Rows' = Rows \cup {new} /\ new \notin Rows
      /\ \A i \in Rows : entries'[i] = entries[i]
      /\ entries'[new] = EntryRow({tick.day + n : n \in shape})
  BY <1>1, AppendedRows DEF TypeInv
<1>3. entries'[new].sid = cur
  BY <1>2 DEF EntryRow
<1>4. ExitedIds' = ExitedIds
  BY DEF ExitedIds
<1>5. ASSUME NEW j \in Untracked(s)', j # new PROVE j \in Untracked(s)
  <2>1. /\ j \in Rows' /\ j \notin held /\ entries'[j].sid = s
        /\ IdOf(entries'[j]) \notin ExitedIds
    BY <1>4, <1>5 DEF Untracked, OpenRows, IdOf
  <2>2. j \in Rows /\ entries'[j] = entries[j]
    BY <1>2, <1>5, <2>1
  <2> QED
    BY <2>1, <2>2 DEF Untracked, OpenRows
<1> QED
  BY <1>3, <1>5 DEF Untracked

(* Every step keeps the account of what is untracked.                      *)
LEMMA TrackInvNext ==
  ASSUME TrackInv, [Next]_vars
  PROVE  TrackInv'
<1>1. TypeInv /\ TypeInv' /\ TypeOK
  BY TypeInvNext DEF TrackInv, TypeInv
<1>2. \A s \in Strategy : errors[s] \in Nat /\ errors[s] >= errors[s]
  BY <1>1 DEF TypeOK
<1>3. CASE (ClockTicks \/ UNCHANGED vars) /\ pc # "settle"
  <2>1. UNCHANGED <<entries, exits, held, pday, pc, errors>>
    BY <1>3 DEF ClockTicks, vars, ledger, process
  <2> QED
    BY <1>1, <1>2, <1>3, <2>1, TrackFrame
<1>4. CASE (ClockTicks \/ UNCHANGED vars) /\ pc = "settle"
  <2>1. UNCHANGED <<entries, exits, held, pc>>
    BY <1>4 DEF ClockTicks, vars, ledger, process
  <2>2. OpenRows' = OpenRows
    BY <2>1 DEF OpenRows, Rows, ExitedIds, IdOf
  <2> QED
    BY <1>1, <1>4, <2>1, <2>2, TrackSettle DEF TrackInv, RebuiltAll
<1>5. CASE Start \/ BeginTick \/ HeartbeatOnly \/ Poll \/ TickDone
  <2>1. /\ UNCHANGED <<entries, exits, held, pday, errors>>
        /\ pc # "settle" /\ pc' # "settle"
    BY <1>5 DEF Start, BeginTick, HeartbeatOnly, EndTick, Poll, TickDone, ledger,
       process
  <2> QED
    BY <1>1, <1>2, <2>1, TrackFrame
<1>6. CASE Die
  BY <1>1, <1>6 DEF Die, MemoryLost, TrackInv, RebuiltAll, BooksComplete
<1>7. CASE Roll
  <2>1. CASE RollAbort
    BY <1>1, <1>2, <2>1, TrackFrame DEF RollAbort, ledger, process
  <2>2. CASE RollLoad
    <3>1. /\ pc' = "settle" /\ held' = OpenRows /\ UNCHANGED <<entries, exits>>
      BY <2>2 DEF RollLoad, ledger
    <3>2. OpenRows' = OpenRows
      BY <3>1 DEF OpenRows, Rows, ExitedIds, IdOf
    <3> QED
      BY <1>1, <3>1, <3>2, TrackSettle
  <2>3. CASE RollDone
    <3>1. /\ pc = "settle" /\ pc' = "gate" /\ UNCHANGED <<entries, exits, held>>
          /\ errors' = [s \in Strategy |-> 0]
      BY <2>3 DEF RollDone, ledger
    <3>2. OpenRows' = OpenRows
      BY <3>1 DEF OpenRows, Rows, ExitedIds, IdOf
    <3>3. OpenRows \subseteq held
      BY <3>1 DEF TrackInv, RebuiltAll
    <3>4. \A s \in Strategy : Untracked(s)' = {}
      BY <3>1, <3>2, <3>3 DEF Untracked
    <3>5. \A s \in Strategy : Cardinality(Untracked(s)') <= errors'[s]
      BY <3>1, <3>4, FS_EmptySet
    <3> QED
      BY <1>1, <3>1, <3>5 DEF TrackInv, RebuiltAll, BooksComplete
  <2>4. ASSUME NEW i \in todo, Settle(i) PROVE TrackInv'
    <3>1. /\ i \in Rows /\ pc = "settle" /\ pc' = "settle"
          /\ WriteExit(i, "expiry_settlement") /\ UNCHANGED entries
      BY <1>1, <2>4 DEF Settle, TypeOK
    <3>2. OpenRows' \subseteq OpenRows \ {i} /\ held' = held \ {i}
      BY <1>1, <3>1, ExitCloses DEF Rule
    <3> QED
      BY <1>1, <3>1, <3>2, TrackSettle DEF TrackInv, RebuiltAll
  <2>5. ASSUME NEW i \in todo, SettleDefer(i) PROVE TrackInv'
    <3>1. pc = "settle" /\ UNCHANGED <<entries, exits, held, pc>>
      BY <2>5 DEF SettleDefer, ledger, process
    <3>2. OpenRows' = OpenRows
      BY <3>1 DEF OpenRows, Rows, ExitedIds, IdOf
    <3> QED
      BY <1>1, <3>1, <3>2, TrackSettle DEF TrackInv, RebuiltAll
  <2> QED
    BY <1>7, <2>1, <2>2, <2>3, <2>4, <2>5 DEF Roll
<1>8. CASE Turn
  <2>1. /\ UNCHANGED <<entries, exits, held, pday, errors>>
        /\ pc # "settle" /\ pc' # "settle"
    BY <1>8 DEF Turn, SkipQuarantined, BeginManage, SkipManage, ledger, process
  <2> QED
    BY <1>1, <1>2, <2>1, TrackFrame
<1>9. CASE Manage
  <2>1. CASE ManageDone
    BY <1>1, <1>2, <2>1, TrackFrame DEF ManageDone, ledger, process
  <2>2. ASSUME NEW i \in todo, ManageHold(i) PROVE TrackInv'
    BY <1>1, <1>2, <2>2, TrackFrame DEF ManageHold, ledger, process
  <2>3. ASSUME NEW i \in todo, Backstop(i) PROVE TrackInv'
    BY <1>1, <2>3, TrackClosing DEF Backstop, Rule
  <2>4. ASSUME NEW i \in todo, ManageClose(i) PROVE TrackInv'
    BY <1>1, <2>4, TrackClosing DEF ManageClose, Rule
  <2>5. ASSUME NEW i \in todo, ManageRaise(i) PROVE TrackInv'
    <3>1. \A s \in Strategy : errors'[s] >= errors[s]
      BY <1>1, <1>2, <2>5 DEF ManageRaise, Count, TypeOK
    <3> QED
      BY <1>1, <2>5, <3>1, TrackFrame DEF ManageRaise, ledger
  <2> QED
    BY <1>9, <2>1, <2>2, <2>3, <2>4, <2>5 DEF Manage
<1>10. CASE Scan
  <2>1. CASE ScanNothing \/ ScanProposes
    BY <1>1, <1>2, <2>1, TrackFrame
    DEF ScanNothing, ScanProposes, EndTurn, ledger, process
  <2>2. CASE ScanRaise
    <3>1. \A s \in Strategy : errors'[s] >= errors[s]
      BY <1>1, <1>2, <2>2 DEF ScanRaise, Count, TypeOK
    <3> QED
      BY <1>1, <2>2, <3>1, TrackFrame DEF ScanRaise, EndTurn, ledger
  <2> QED
    BY <1>10, <2>1, <2>2 DEF Scan
<1>11. CASE Entry
  <2>1. CASE EnterDecline \/ EnterDone
    BY <1>1, <1>2, <2>1, TrackFrame
    DEF EnterDecline, EnterDone, EndTurn, ledger, process
  <2>2. CASE EnterRaise
    <3>1. \A s \in Strategy : errors'[s] >= errors[s]
      BY <1>1, <1>2, <2>2 DEF EnterRaise, Count, TypeOK
    <3> QED
      BY <1>1, <2>2, <3>1, TrackFrame DEF EnterRaise, ledger
  <2>3. CASE EnterOrphans
    <3>1. PICK new : new = Len(entries) + 1
      OBVIOUS
    <3>2. /\ pc = "enter" /\ pc' = "enter" /\ cur \in Strategy
          /\ UNCHANGED <<exits, held, pday>> /\ Count(cur)
      BY <1>1, <2>3 DEF EnterOrphans, TypeInv, TurnHasStrategy
    <3>3. ASSUME NEW s \in Strategy
          PROVE  /\ Untracked(s)' \subseteq Untracked(s) \cup {new}
                 /\ s # cur => new \notin Untracked(s)'
      BY <1>1, <2>3, <3>1, <3>2, WritingOpens DEF EnterOrphans
    <3>4. ASSUME NEW s \in Strategy, pday' # 0
          PROVE  Cardinality(Untracked(s)') <= errors'[s]
      <4>1. /\ IsFiniteSet(Untracked(s)) /\ Cardinality(Untracked(s)) \in Nat
            /\ errors[s] \in Nat
        BY <1>1, <1>2, UntrackedIsFinite
      <4>2. Cardinality(Untracked(s)) <= errors[s]
        BY <3>2, <3>4 DEF TrackInv, BooksComplete
      <4>3. CASE s # cur
        <5>1. Untracked(s)' \subseteq Untracked(s)
          BY <3>3, <4>3
        <5>2. /\ Cardinality(Untracked(s)') <= Cardinality(Untracked(s))
              /\ Cardinality(Untracked(s)') \in Nat
          BY <4>1, <5>1, FS_Subset, FS_CardinalityType
        <5>3. errors'[s] = errors[s]
          BY <1>1, <3>2, <4>3 DEF Count, TypeOK
        <5> QED
          BY <4>1, <4>2, <5>2, <5>3
      <4>4. CASE s = cur
        <5> DEFINE U == Untracked(s)
                   V == Untracked(s)'
        <5>1. V \subseteq U \cup {new} /\ IsFiniteSet(U) /\ Cardinality(U) \in Nat
          BY <3>3, <4>1
        <5>2. errors'[s] = errors[s] + 1
          BY <1>1, <3>2, <4>4 DEF Count, TypeOK
        <5>3. Cardinality(U) <= errors[s]
          BY <4>2
        <5> HIDE DEF U, V
        <5>4. /\ IsFiniteSet(U \cup {new})
              /\ \/ Cardinality(U \cup {new}) = Cardinality(U)
                 \/ Cardinality(U \cup {new}) = Cardinality(U) + 1
          BY <5>1, FS_AddElement
        <5>5. /\ Cardinality(V) <= Cardinality(U \cup {new})
              /\ Cardinality(V) \in Nat
          BY <5>1, <5>4, FS_Subset, FS_CardinalityType
        <5>6. Cardinality(V) <= errors'[s]
          BY <4>1, <5>1, <5>2, <5>3, <5>4, <5>5
        <5> QED
          BY <5>6 DEF V
      <4> QED
        BY <4>3, <4>4
    <3> QED
      BY <1>1, <3>2, <3>4 DEF TrackInv, RebuiltAll, BooksComplete
  <2>4. CASE Enter
    <3>1. PICK new : new = Len(entries) + 1
      OBVIOUS
    <3>2. /\ pc = "enter" /\ pc' = "enter"
          /\ UNCHANGED <<exits, pday, errors>> /\ held' = held \cup {new}
      BY <2>4, <3>1 DEF Enter
    <3>3. ASSUME NEW s \in Strategy PROVE Untracked(s)' \subseteq Untracked(s)
      <4>1. Untracked(s)' \subseteq Untracked(s) \cup {new}
        BY <1>1, <2>4, <3>1, <3>2, WritingOpens DEF Enter
      <4>2. new \notin Untracked(s)'
        BY <3>2 DEF Untracked
      <4> QED
        BY <4>1, <4>2
    <3> QED
      BY <1>1, <1>2, <3>2, <3>3, TrackShrinks
  <2> QED
    BY <1>11, <2>1, <2>2, <2>3, <2>4 DEF Entry
<1> QED
  BY <1>3, <1>4, <1>5, <1>6, <1>7, <1>8, <1>9, <1>10, <1>11 DEF Next, Step

(* Open rows the process has lost sight of are no more than the errors it  *)
(* has counted since it rolled the day.                                    *)
THEOREM NothingEscapes == Spec => []BooksComplete
<1>1. TrackInv /\ [Next]_vars => TrackInv'
  BY TrackInvNext
<1>2. TrackInv => BooksComplete
  BY DEF TrackInv
<1> QED
  BY <1>1, <1>2, TrackInvInit, PTL DEF Spec
=============================================================================
