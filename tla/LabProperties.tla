--------------------------- MODULE LabProperties ---------------------------
(***************************************************************************)
(* What the strategy lab's process must keep true of its ledger and of its *)
(* positions, whatever its strategies, its data feed and its restarts do.  *)
(***************************************************************************)
EXTENDS LabRunner

(* Every variable keeps its shape. *)
TypeOK ==
  /\ entries \in Seq(Row)
  /\ exits \in Seq([row : Nat, id : Id, rule : Rule, day : Nat])
  /\ now \in Time
  /\ starts \in Nat
  /\ pc \in {"down", "idle", "roll", "settle", "gate", "turn", "manage", "scan",
             "enter"}
  /\ armed \subseteq Strategy
  /\ hub \in BOOLEAN
  /\ pday \in Nat
  /\ held \subseteq Rows
  /\ errors \in [Strategy -> Nat]
  /\ seq \in [Strategy -> Nat]
  /\ quoted \subseteq Strategy \X Nat
  /\ tick \in Time
  /\ fresh \in BOOLEAN
  /\ due \subseteq armed /\ turn \subseteq armed
  /\ cur \in Strategy \cup {None}
  /\ todo \subseteq Rows /\ priced \subseteq Rows
  /\ batch \in Nat

-----------------------------------------------------------------------------
(* The ledger the process writes is a position book: no position id is     *)
(* entered twice, exited twice, or exited before it was entered, across    *)
(* restarts, day rolls and failed writes.                                  *)
Book == INSTANCE PositionBook WITH
          entered <- [i \in Rows |-> IdOf(entries[i])],
          exited  <- [k \in 1 .. Len(exits) |-> exits[k].id]

BookRefined == Book!Spec

(* Every combo in memory is one the ledger would rebuild: its entry row is *)
(* on disk and its id is not among the exited ones.  A combo that is not   *)
(* is lost at the next restart or day roll.                                *)
HeldRecoverable == held \subseteq OpenRows

(* Nothing on the books escapes a process that has rolled its day: the     *)
(* open rows it does not hold come from write_entry failing after the row  *)
(* was on disk, each one of them counted as an error of its strategy since *)
(* the day's roll.                                                         *)
Untracked(s) == {i \in OpenRows \ held : entries[i].sid = s}

BooksComplete ==
  pday # 0 => \A s \in Strategy :
    pc # "settle" => Cardinality(Untracked(s)) <= errors[s]

(* An entry never takes a strategy past META.max_concurrent: the room is   *)
(* computed once per scan and the whole batch of proposals has to fit.     *)
CapRespected ==
  [][Len(entries') > Len(entries) /\ held' # held
       => Cardinality(RowsOf(cur)') <= MaxConcurrent[cur]]_vars

(* A settlement pass leaves a combo with an expired leg open only for want *)
(* of a price: of an expired leg's own close, or of a quote for a leg that *)
(* lives on.  No position is passed over.                                  *)
SettlementPass ==
  [][pc = "settle" /\ pc' = "gate" =>
       \A i \in held : HasExpired(i, tick.day) =>
         i \notin priced \/ ~LiveLegsQuoted(i, tick.day)]_vars

(* The expiry backstop rail: when a management pass of a strategy ends in  *)
(* the backstop window, no combo with a leg expiring that day and a quote  *)
(* on every leg is still open, whatever manage() said or raised.           *)
ManageSweeps ==
  [][pc = "manage" /\ pc' = "scan" =>
       \A i \in RowsOf(cur) : ~(Booked(i) /\ BackstopDue(i, tick))]_vars

-----------------------------------------------------------------------------
(* Liveness, under the fairness of FairSpec.                               *)

(* An unreadable ledger delays the day roll and never loses it: once the   *)
(* clock is on its last day the process has latched that day for good.     *)
DayLatches == <>[](pday = LastDay)

(* A combo due for the backstop, quoted and of an armed strategy that is   *)
(* not quarantined, does not stay open in a process that keeps ticking in  *)
(* the window: it is closed, or the process dies, or its strategy is       *)
(* quarantined first.                                                      *)
InWindow(i) ==
  /\ i \in held /\ Booked(i) /\ BackstopDue(i, now)
  /\ entries[i].sid \in armed
  /\ hub /\ now.day \notin Holidays
  /\ now.minute \in OpenMinute .. LastMinute

BackstopFires ==
  \A i \in 1 .. MaxRows :
    (i \in Rows /\ InWindow(i)) ~> (i \notin held \/ Quarantined(entries[i].sid))
=============================================================================
