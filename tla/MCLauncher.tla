----------------------------- MODULE MCLauncher -----------------------------
(* Small instances of Launcher for TLC.                                    *)
EXTENDS Launcher

\* BOINC's error_numbers.h, which is not part of the repository.
MCErrFork == -147
MCErrExec == -148

NoArgs == {}
\* A percentage above the range; 0.29, which the conversion to int may turn
\* into 28.
MCPercents == {250}
MCFractions == {290}
=============================================================================
