---------------------------- MODULE MCExitLadder ----------------------------
EXTENDS ExitLadder

Position(dte, index, planned, print) ==
  [dte |-> dte, index |-> index, planned |-> planned, print |-> print]

\* a contract of the day, of the next day with a planned exit, of three days
Book ==
  {Position(0, TRUE, FALSE, FALSE), Position(0, FALSE, FALSE, TRUE),
   Position(1, TRUE, TRUE, FALSE), Position(3, FALSE, FALSE, FALSE)}

\* a run ends once a mark row is lost
Saved == ~unsaved
=============================================================================
