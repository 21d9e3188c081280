------------------------- MODULE MC_LifecycleBoard --------------------------
(***************************************************************************)
(* An instance of LifecycleBoard for TLC: a board of three ordered steps   *)
(* and the legacy code. The second step stands for the STEP_08_* codes and *)
(* is the natural successor of the legacy code, so that a step comes       *)
(* before it and one after it.                                             *)
(***************************************************************************)
EXTENDS LifecycleBoard

BoardLength == 3
WorthOfStep == 100 \div BoardLength
MiddleStep == 2

\* The second step is the import requirements' as well; their module writes
\* what the third is worth.
WorthOfThird == 3 * WorthOfStep

\* No minimum, and one between the worth of the first step and the second's.
BetweenSteps == WorthOfStep + 7
CallerMinimums == {0, BetweenSteps}

\* compute_file_formulas gives a new file less than any step is worth.
NewFile == {15}

=============================================================================
