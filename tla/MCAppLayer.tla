----------------------------- MODULE MCAppLayer -----------------------------
(* AppLayer for TLC: an app the base image knows, one it does not know,    *)
(* and an id of which nothing is left.                                     *)
EXTENDS AppLayer

CONSTANTS a1, a2, nothing

MCApps == {a1, a2, nothing}
MCWide == {nothing}
MCSystemApps == {a1}

\* A crash may come with one failing file operation, two without a crash.
TwoMishaps == faults + crashes <= 2
=============================================================================
