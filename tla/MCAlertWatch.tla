---------------------------- MODULE MCAlertWatch ----------------------------
(***************************************************************************)
(* What the launcher starts beside the runner, for TLC: the runner's own   *)
(* process with the alerter, the halt poller, and the news tap.  They      *)
(* share no state, so a behaviour is one of the three.                     *)
(***************************************************************************)
EXTENDS AlertWatch, HaltWatch, MCNewsTap

VARIABLE part   \* which of the three this behaviour is about

Alike == Permutations(Pids)

BesideInit ==
  /\ Init /\ HWInit /\ NTInit
  /\ part = "desk" \/ (part \in {"halts", "news"} /\ ~flag /\ saved = None)

BesideNext ==
  /\ \/ part = "desk" /\ Next /\ UNCHANGED <<hwVars, ntVars>>
     \/ part = "halts" /\ HWNext /\ UNCHANGED <<vars, ntVars>>
     \/ part = "news" /\ NTNext /\ UNCHANGED <<vars, hwVars>>
  /\ UNCHANGED part

BesideSpec == BesideInit /\ [][BesideNext]_<<part, vars, hwVars, ntVars>>

\* Benzinga alone
OneSource == [i \in 1 .. 5 |-> "benzinga"]
=============================================================================
