---------------------------- MODULE MCAfterClose ----------------------------
(***************************************************************************)
(* The batch jobs around the session, for TLC: the two graders, which      *)
(* share the betting evidence, the overnight lab with the story store it   *)
(* feeds, and the catalyst book with its archive.  They touch no state of  *)
(* each other, so a behaviour is one of the four.                          *)
(***************************************************************************)
EXTENDS LabGrader, ShadowGrader, OvernightLab, CatalystBook

VARIABLE part   \* which of the four this behaviour is about

AfterInit ==
  /\ LGInit /\ SGInit /\ NightInit /\ CBInit
  /\ part \in {"lab", "shadow", "night", "catalysts"}

AfterNext ==
  /\ \/ part = "lab" /\ LGNext /\ UNCHANGED <<sgVars, cmVars, olVars, cbVars>>
     \/ part = "shadow" /\ SGNext /\ UNCHANGED <<lgVars, cmVars, olVars, cbVars>>
     \/ part = "night" /\ NightNext /\ UNCHANGED <<lgVars, sgVars, cbVars>>
     \/ part = "catalysts" /\ CBNext /\ UNCHANGED <<lgVars, sgVars, cmVars, olVars>>
  /\ UNCHANGED part

AfterSpec == AfterInit /\ [][AfterNext]_<<part, lgVars, sgVars, cmVars, olVars, cbVars>>

\* strategy 1 sells premium, strategy 2 buys it
MCSid      == {1, 2}
MCBasis    == 1 :> "car" @@ 2 :> "debit"
MCHashes   == 1 :> {1, 2} @@ 2 :> {1}
MCExpected == 1 :> 2 @@ 2 :> 4

LabRow(form, r, comp, sure) == [form |-> form, r |-> r, comp |-> comp, sure |-> sure]
MCKind == {LabRow("fine", 2, "theta", TRUE), LabRow("fine", -1, "spread_tax", TRUE),
           LabRow("malformed", 2, "theta", TRUE)}

ShadowRow(form, stale, r, lanes) == [form |-> form, stale |-> stale, r |-> r, lanes |-> lanes]
MCShadowKind == {ShadowRow("fine", FALSE, 2, {"trend", "last30"}), ShadowRow("fine", TRUE, 2, {"trend"}),
                 ShadowRow("fine", FALSE, -1, {"trend"}), ShadowRow("malformed", FALSE, 2, {}),
                 ShadowRow("identity", FALSE, 2, {"trend"}), ShadowRow("unusable", FALSE, 2, {"last30"})}
Entry(c, halted) == [cohort |-> c, halted |-> halted]
MCEntryKind == {Entry(1, FALSE), Entry(2, FALSE), Entry(1, TRUE)}

\* both names have a headline on the first day, one of them on the second
MCNamed == 1 :> {1, 2} @@ 2 :> {2}

\* an event of two hours and one of two days
MCTtl == 1 :> 0 @@ 2 :> 4
=============================================================================
