------------------------------- MODULE MCCosts -----------------------------
(* Costs over eight days in two billing cycles.  In one history every day  *)
(* costs something, two of them much; in the other there is a free day, a  *)
(* day without a bill, and a spike that is the last bill.                  *)
EXTENDS Costs, TLC

MCFirstDay == 6
MCLastDay == 8
MCCycleOf == [d \in 1 .. MCLastDay |-> IF d < 5 THEN 1 ELSE 2]
Spikes == 1 :> 2 @@ 2 :> 2 @@ 3 :> 2 @@ 4 :> 3 @@ 5 :> 9 @@ 6 :> 3 @@ 7 :> 2 @@ 8 :> 9
LastBill == 2 :> 0 @@ 4 :> 2 @@ 5 :> 9
MCHistories == {Spikes, LastBill}
MCLagOf == [a \in Adapters |-> IF a = "promql" THEN 0 ELSE 1]

\* The runs of the detector are alike.
Alike == Permutations(Runners)

\* Two coroutines at once, and an agent that asks nothing after a stop.
Scope == /\ Cardinality({a \in Actors : task[a] # Idle}) <= 2
         /\ stops > 0 => task[Agent] = Idle
=============================================================================
