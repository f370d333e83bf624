-------------------------------- MODULE Inbox --------------------------------
(***************************************************************************)
(* What POST /v1/alerts promises of each alert it is given: it is turned   *)
(* away at once, or accepted and then decided exactly once unless the      *)
(* process dies first; no more than QueueMax are accepted and undecided,   *)
(* and among those no two are firings of the same fingerprint.             *)
(***************************************************************************)
EXTENDS Naturals, FiniteSets

CONSTANTS
    Alerts,    \* the alerts Alertmanager delivers, one element per delivery
    SignalOf,  \* what each one says: [fp, status, severity]
    QueueMax   \* cfg.queue_max

VARIABLE box

Accepted == {a \in Alerts : box[a] = "accepted"}

SameFiring(a, b) ==
    /\ SignalOf[a].status = "firing"
    /\ SignalOf[b].status = "firing"
    /\ SignalOf[a].fp = SignalOf[b].fp

InboxInit == box = [a \in Alerts |-> "unseen"]

Accept(a) ==
    /\ box[a] = "unseen"
    /\ Cardinality(Accepted) < QueueMax
    /\ \A b \in Accepted : ~SameFiring(a, b)
    /\ box' = [box EXCEPT ![a] = "accepted"]

TurnAway(a) ==
    /\ box[a] = "unseen"
    /\ box' = [box EXCEPT ![a] = "decided"]

Conclude(a) ==
    /\ box[a] = "accepted"
    /\ box' = [box EXCEPT ![a] = "decided"]

\* The process dies with what it had accepted: Alertmanager got its 202 and
\* will not deliver it again.
Die == box' = [a \in Alerts |-> IF box[a] = "accepted" THEN "lost" ELSE box[a]]

InboxNext == Die \/ \E a \in Alerts : Accept(a) \/ TurnAway(a) \/ Conclude(a)

InboxSpec ==
    /\ InboxInit
    /\ [][InboxNext]_box
    /\ \A a \in Alerts : WF_box(Conclude(a))
=============================================================================
