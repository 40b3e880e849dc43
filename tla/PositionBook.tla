---------------------------- MODULE PositionBook ----------------------------
(***************************************************************************)
(* What a ledger of shadow positions promises its readers (the rebuild at  *)
(* the day roll and the nightly grader): an append-only log of entries and *)
(* an append-only log of exits in which every position id is entered at    *)
(* most once, exited at most once, and never exited before it was entered. *)
(* atlas/strategy_lab/ledger.py computes "entries minus exited ids" and is *)
(* right exactly when this holds.                                          *)
(***************************************************************************)
EXTENDS Naturals, Sequences

CONSTANT Id

VARIABLES
  entered,   \* ids of the entry rows, in file order
  exited     \* ids of the exit rows, in file order

bookVars == <<entered, exited>>

Logged(log) == {log[i] : i \in DOMAIN log}

Init ==
  /\ entered = <<>>
  /\ exited = <<>>

Enter(id) ==
  /\ id \in Id \ Logged(entered)
  /\ entered' = Append(entered, id)
  /\ UNCHANGED exited

Exit(id) ==
  /\ id \in Logged(entered) \ Logged(exited)
  /\ exited' = Append(exited, id)
  /\ UNCHANGED entered

\* Id may be infinite: the id of a step is one its log shows afterwards
Next ==
  \/ \E id \in Logged(entered') : Enter(id)
  \/ \E id \in Logged(exited') : Exit(id)

Spec == Init /\ [][Next]_bookVars
=============================================================================
