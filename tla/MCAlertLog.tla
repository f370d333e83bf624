----------------------------- MODULE MCAlertLog -----------------------------
(***************************************************************************)
(* Small instances of AlertLog for TLC.                                    *)
(***************************************************************************)
EXTENDS AlertLog

CONSTANTS a1, a2, a3, a4

\* Alerts are alike when they are firing, and when they are not.
Alike == Permutations({a1, a3}) \cup Permutations({a2, a4})
=============================================================================
