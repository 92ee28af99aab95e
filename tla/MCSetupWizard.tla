--------------------------- MODULE MCSetupWizard ---------------------------
(* A small instance of SetupWizard for TLC. *)
EXTENDS SetupWizard

\* Two sign-in calls are in flight only while no save is.
FewAtOnce ==
    (\A k \in 1 .. MaxSaves : saves[k] = NoSave) \/ (\E c \in Calls : call[c] = NoCall)
=============================================================================
