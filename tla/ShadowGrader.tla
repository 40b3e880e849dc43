---------------------------- MODULE ShadowGrader ----------------------------
(***************************************************************************)
(* The main shadow's grader: grade() of scripts/grade_options_shadow.py.   *)
(* It is a function of the ledger, the day and the hour; the ledger here   *)
(* is any that the runner and its failures can leave behind.               *)
(*                                                                         *)
(* Abstractions.  As in LabGrader: rows stand in the order of their time   *)
(* stamps, an exit row has a form, and its net is its return on premium.   *)
(* The tables per rule and per flag, the profit factor, the share of the   *)
(* best day and the minimum detectable edge are left out.                  *)
(***************************************************************************)
EXTENDS Evidence, FiniteSets

CONSTANTS
  ShadowKind,     \* bound: the exit rows [form, stale, r, lanes] of the runner
  EntryKind,      \* bound: the entry rows [cohort, halted]
  ShadowRows,     \* bound on its exit rows
  ShadowEntries,  \* bound on its entry rows
  LastNight       \* bound on the days

ASSUME GraderAssumption ==
  /\ LastNight \in Nat
  /\ \A k \in ShadowKind : k.r \in Int /\ k.form \in {"fine", "malformed", "identity", "unusable"}

VARIABLES
  booked,   \* entry rows [pid, cohort, halted, expiry]
  left,     \* exit rows [pid, form, stale, r, lanes]
  night,    \* today
  late      \* is it 16:00 or later?

sgVars == <<booked, left, night, late>>

SGInit == booked = <<>> /\ left = <<>> /\ night = 1 /\ late = FALSE

Book ==
  /\ Len(booked) < ShadowEntries
  /\ \E k \in EntryKind, e \in night .. LastNight :
       booked' = Append(booked, [pid |-> Len(booked) + 1, cohort |-> k.cohort,
                                 halted |-> k.halted, expiry |-> e])
  /\ UNCHANGED <<left, night, late>>

\* an exit row: of an open position, or again of one that was resurrected
Leave ==
  /\ Len(left) < ShadowRows
  /\ \E i \in 1 .. Len(booked), k \in ShadowKind :
       left' = Append(left, [pid |-> booked[i].pid, form |-> k.form, stale |-> k.stale,
                             r |-> k.r, lanes |-> k.lanes])
  /\ UNCHANGED <<booked, night, late>>

Later ==
  /\ \/ ~late /\ late' = TRUE /\ UNCHANGED night
     \/ late /\ night < LastNight /\ night' = night + 1 /\ late' = FALSE
  /\ UNCHANGED <<booked, left>>

SGNext == Book \/ Leave \/ Later
SGSpec == SGInit /\ [][SGNext]_sgVars

-----------------------------------------------------------------------------
(* The grader.                                                             *)

EntryOf(p) == booked[CHOOSE i \in 1 .. Len(booked) : booked[i].pid = p]

\* _malformed
Malformed(row) == row.form = "malformed"

\* fault: the first row of a position counts, even one that cannot be read
FirstReadAny(i) ==
  ~Malformed(left[i]) /\ \A j \in 1 .. i - 1 : left[j].pid # left[i].pid

\* unreadable rows go first, and of the others the first of a position stays
FirstRead(i) ==
  /\ ~Malformed(left[i])
  /\ \A j \in 1 .. i - 1 : Malformed(left[j]) \/ left[j].pid # left[i].pid

MalformedExits == {left[i].pid : i \in {j \in 1 .. Len(left) : Malformed(left[j])}}
DuplicateExits ==
  {left[i].pid : i \in {j \in 1 .. Len(left) : ~Malformed(left[j]) /\ ~FirstRead(j)}}

\* a position on a halted name is a phantom, one whose ledgers disagree is broken
HaltedExits ==
  {left[i].pid : i \in {j \in 1 .. Len(left) : FirstRead(j) /\ EntryOf(left[j].pid).halted}}
IdentityViolations ==
  {left[i].pid : i \in {j \in 1 .. Len(left) :
     FirstRead(j) /\ ~EntryOf(left[j].pid).halted /\ left[j].form = "identity"}}

\* pooled_rows, as places in the file
Pooled == {i \in 1 .. Len(left) :
             FirstRead(i) /\ ~EntryOf(left[i].pid).halted /\ left[i].form # "identity"}

\* by_lane: a merged trade counts in each of its lanes
ByLane(l) == {i \in Pooled : l \in left[i].lanes}

\* fault: a fill at a fallback NBBO is evidence too
EvidenceRowsStale(rows, c) == {i \in rows : EntryOf(left[i].pid).cohort = c}

\* _evidence: the rows of one entry cohort, without stale fills and rows
\* without a premium
EvidenceRows(rows, c) ==
  {i \in rows : /\ EntryOf(left[i].pid).cohort = c
                /\ ~left[i].stale /\ left[i].form # "unusable"}

Returned == [i \in 1 .. Len(left) |-> left[i].r]

\* the unlock the evidence of a scope and cohort gives
Unlock(rows, c) ==
  LET trades == EvidenceRows(rows, c)
      At(bar) == Reaches(WealthFor("debit", Returned, trades), bar, "debit", Returned, trades)
  IN  IF At(SizedLive) THEN "SIZED-LIVE" ELSE IF At(Pilot) THEN "PILOT" ELSE "none"

\* on its last day a position lives until the session is over
LiveStill(e) == e.expiry > night \/ (e.expiry = night /\ ~late)

\* an entry that has expired and has no exit row of any kind
ExpiredUnexited ==
  {booked[i].pid : i \in {j \in 1 .. Len(booked) :
     /\ \A k \in 1 .. Len(left) : left[k].pid # booked[j].pid
     /\ ~LiveStill(booked[j])}}

-----------------------------------------------------------------------------
(* Properties.                                                             *)

Open(e) ==
  /\ \A k \in 1 .. Len(left) : left[k].pid # e.pid
  /\ e.expiry > night \/ (e.expiry = night /\ ~late)

(* Nothing the runner did is dropped in silence and nothing is counted     *)
(* twice: a position that is no longer open is pooled in exactly one row,  *)
(* or it is named in one of the lists that must be empty, and a position   *)
(* with a row that can be read is never lost behind one that cannot.       *)
EveryTradeOnce ==
  LET listed == HaltedExits \cup IdentityViolations
      pool   == Pooled
      gaps   == ExpiredUnexited
  IN  \A i \in 1 .. Len(booked) :
        LET e      == booked[i]
            rows   == {k \in 1 .. Len(left) : left[k].pid = e.pid}
            pooled == rows \cap pool
        IN  \/ Open(e)
            \/ rows = {} /\ e.pid \in gaps
            \/ Cardinality(pooled) = 1 /\ e.pid \notin listed
            \/ pooled = {} /\ e.pid \in listed
            \/ rows # {} /\ pooled = {} /\ \A k \in rows : left[k].form = "malformed"

\* the first readable row of a position on a name that trades, at a fresh quote
Real(k) ==
  /\ FirstRead(k) /\ left[k].form = "fine" /\ ~left[k].stale
  /\ ~EntryOf(left[k].pid).halted

(* Real money is never unlocked by fills that were not there: without a    *)
(* winning trade of its own configuration at a fresh quote, on a name that *)
(* trades, neither the pool nor a lane unlocks anything.                   *)
UnlockedByRealFills ==
  \A c \in {booked[i].cohort : i \in 1 .. Len(booked)} :
    LET Won(rows) == \E k \in rows : Real(k) /\ left[k].r > 0 /\ EntryOf(left[k].pid).cohort = c
    IN  /\ Unlock(Pooled, c) # "none" => Won(1 .. Len(left))
        /\ \A l \in UNION {left[k].lanes : k \in 1 .. Len(left)} :
             Unlock(ByLane(l), c) # "none" => Won({k \in 1 .. Len(left) : l \in left[k].lanes})
=============================================================================
