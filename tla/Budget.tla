------------------------------- MODULE Budget -------------------------------
(***************************************************************************)
(* The ceiling of a query (Budget in src/copilot/ports/metrics.py) and     *)
(* what both metrics adapters do with it.  Times are in seconds.           *)
(***************************************************************************)
EXTENDS Slices

CONSTANTS
    MaxSeries,  \* budget.max_series
    MaxPoints,  \* budget.max_points
    MaxRange    \* budget.max_range

ASSUME BudgetAssumption ==
    /\ MaxSeries \in Nat \ {0}
    /\ MaxPoints \in Int
    /\ MaxRange \in Nat

AtLeastOne(n) == IF n > 1 THEN n ELSE 1

Cut(S) == First(S, MaxSeries)

\* Points of a series over span with one every step, against the budget.
Fits(span, step) == span <= step * AtLeastOne(MaxPoints)

\* mutant: the step is rounded down to a usual one
RoundedDown(ladder, span) ==
    LET under == {s \in ladder : ~Fits(span, s)}
    IN IF under # {} THEN Max(under) ELSE Min(ladder)

\* pick_step and pick_period: the smallest usual step that respects
\* max_points, or else the largest.
Pick(ladder, span) ==
    LET fitting == {s \in ladder : Fits(span, s)}
    IN IF fitting # {} THEN Min(fitting) ELSE Max(ladder)
=============================================================================
