-------------------------- MODULE ShadowProperties --------------------------
(***************************************************************************)
(* What the main shadow runner must keep true of its ledger, its positions *)
(* and its day latches, across restarts, failed rolls and failed ticks.    *)
(***************************************************************************)
EXTENDS ShadowRunner

MergeRow == [id : Id, lane : Lane]
Rule     == {"post_close_forced_flat", "late_close_flat", "engine"}
ExitRow  == [id : Id, rule : Rule]

(* Every variable keeps its shape. *)
TypeOK ==
  /\ entries \in Seq(Row)
  /\ merges \in Seq(MergeRow)
  /\ exits \in Seq(ExitRow)
  /\ flagged \in Seq(Id)
  /\ now \in Time
  /\ starts \in Nat
  /\ pc \in {"down", "idle", "roll", "rebuild", "bars", "sweep"}
  /\ client \in BOOLEAN
  /\ pday \in Nat
  /\ held \subseteq Rows
  /\ tags \subseteq held \X Lane
  /\ count \in Nat
  /\ latched \subseteq Key
  /\ cooldown \in [Key -> Nat]
  /\ tick \in Time
  /\ todo \subseteq Rows /\ due \subseteq Rows

-----------------------------------------------------------------------------
(* The books.                                                              *)

(* The ledger is a position book: no position id is entered twice, exited  *)
(* twice, or exited before it was entered.  entries_today is counted from  *)
(* the file at every roll, and that has to be enough to keep the ids of a  *)
(* day apart across restarts within one minute.                            *)
BookEntered == [i \in Rows |-> IdOf(entries[i])]
BookExited  == [k \in 1 .. Len(exits) |-> exits[k].id]

Book == INSTANCE PositionBook WITH entered <- BookEntered, exited <- BookExited

BookRefined == Book!Spec

(* One position per exposure: the signal that finds its underlying and     *)
(* side held merges, so the ledger never shows two open positions of one   *)
(* exposure, unless the earlier one had expired unexited by the day of the *)
(* later one's entry.  This spans restarts and day rolls: what a new       *)
(* process does not rebuild it would open again.                           *)
OneExposure ==
  \A i, j \in OpenRows :
    i < j /\ entries[i].exp = entries[j].exp => entries[i].expiry < entries[j].day

(* The concurrency cap counts what the ledger has open, not only what this *)
(* process opened.                                                         *)
CapAcrossRestarts ==
  pday # 0 => Cardinality(Unexpired(OpenRows, pday)) <= MaxConcurrent

(* Nothing on the books escapes a process that has rolled its day: an open *)
(* row is in memory, or it has expired and was flagged as unexited.        *)
Accounted ==
  pday # 0 /\ pc # "rebuild" =>
    \A i \in OpenRows : i \in held \/ IdOf(entries[i]) \in FlaggedIds

(* An overnight hold survives the day roll: a roll that latches its day    *)
(* leaves in memory every open row that has not expired.                   *)
OpenSurvivesRoll ==
  [][pday' # pday /\ pc' = "bars" => Unexpired(OpenRows, tick.day) \subseteq held']_vars

-----------------------------------------------------------------------------
(* Lanes.                                                                  *)

(* Latch at entry: in one process, a lane with latches opens at most one   *)
(* position per underlying, side and day, however often its predicate      *)
(* holds again after the position is closed.                               *)
OnceADay ==
  \A i, j \in Rows :
    /\ entries[i].lane \in Latching
    /\ entries[i].lane = entries[j].lane /\ entries[i].exp = entries[j].exp
    /\ entries[i].day = entries[j].day /\ entries[i].proc = entries[j].proc
    => i = j

(* A lane joins a position at most once, and not the one it opened: the    *)
(* lanes of a position decide when its thesis is invalid, and a rebuild    *)
(* reads them from the merge rows.                                         *)
MergedOnce ==
  /\ \A j, k \in 1 .. Len(merges) : merges[j] = merges[k] => j = k
  /\ \A i \in Rows, k \in 1 .. Len(merges) :
       merges[k].id = IdOf(entries[i]) => merges[k].lane # entries[i].lane

-----------------------------------------------------------------------------
(* The sweep.                                                              *)

(* Nothing rides past the late close by accident: a sweep that ends after  *)
(* the equity close has flattened every equity position, and at the late   *)
(* close every index position whose mark was due, but for those a catalyst *)
(* tomorrow may grant the night.                                           *)
SweepFlattens ==
  [][pc = "sweep" /\ todo = {} /\ pc' = "idle" /\ client =>
       \A i \in held : ~ForcedFlat(i) /\ ~LateFlat(i)]_vars

(* A position that expired without an exit is accounted for: the process   *)
(* that is up says so, or it is stopped first.  Unreadable exits only      *)
(* delay the roll that does.                                               *)
ExpiredIsNoted ==
  \A i \in 1 .. MaxRows :
    (i \in OpenRows /\ entries[i].expiry < now.day /\ pc # "down")
      ~> (i \notin OpenRows \/ IdOf(entries[i]) \in FlaggedIds \/ pc = "down")
=============================================================================
