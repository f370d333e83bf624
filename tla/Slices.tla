------------------------------- MODULE Slices -------------------------------
(***************************************************************************)
(* Series, label values, targets and rules are numbers in the order the    *)
(* backend lists them, so that a slice s[:n] is the n smallest, and so is  *)
(* sorted(s)[:n].                                                          *)
(***************************************************************************)
EXTENDS Integers, FiniteSetsExt

First(S, n) == {x \in S : Cardinality({y \in S : y < x}) < n}
=============================================================================
