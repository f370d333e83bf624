------------------------------- MODULE Ingress -------------------------------
(***************************************************************************)
(* The ingress of alerts (src/copilot/alerts/ingress.py) over the          *)
(* dispatcher.  `receive' never awaits: each alert of a payload is taken   *)
(* in one step.  What it accepts becomes a task, and the task is the       *)
(* caller of `send': Senders = Alerts here.  A task is                     *)
(*   waiting    in _after, for the firing of its fingerprint               *)
(*   queued     scheduled, or waiting for the semaphore                    *)
(*   enriching  holding the semaphore, in enrich                           *)
(*   sending    holding the semaphore, inside dispatcher.send              *)
(*   done       finished; its done-callbacks have not run yet              *)
(*   over       finished and forgotten                                     *)
(***************************************************************************)
EXTENDS Dispatcher

CONSTANTS
    Alerts,         \* the alerts Alertmanager delivers, one element per delivery
    SignalOf,       \* what each one says
    QueueMax,       \* cfg.queue_max
    MaxConcurrent,  \* cfg.max_concurrent
    Nobody          \* "no firing in flight", "waits for no task"

\* to_message
SeverityOf(label) ==
    CASE label = "critical"        -> "critical"
      [] label \in {"info", "none"} -> "info"
      [] OTHER                     -> "warning"

ToMessage(sig) ==
    [fp |-> sig.fp,
     sev |-> IF sig.status = "resolved" THEN "resolved" ELSE SeverityOf(sig.severity),
     repeatAfter |-> 0, force |-> FALSE]

ASSUME IngressAssumption ==
    /\ Alerts = Senders
    /\ \A a \in Alerts :
          /\ SignalOf[a].fp \in Fingerprints
          /\ SignalOf[a].status \in {"firing", "resolved"}
    /\ \A a \in Alerts : ToMessage(SignalOf[a]) \in Messages
    /\ QueueMax \in Nat \ {0}
    /\ MaxConcurrent \in Nat \ {0}
    /\ Nobody \notin Alerts

VARIABLES
    stage,     \* where each alert is: "absent" until it is received
    decision,  \* rec.decision
    pending,   \* _pending
    inflight,  \* _inflight: fingerprint -> the task of its firing
    waitsFor,  \* `previo' of the tasks in _after
    \* observers
    lastSeen,  \* the status each fingerprint was last received with
    crossed    \* fingerprints accepted again while a RESOLVED of theirs was under way

ingress == <<stage, decision, pending, inflight, waitsFor, lastSeen, crossed>>
ivars   == <<vars, ingress>>

Fp(a)     == SignalOf[a].fp
Firing(a) == SignalOf[a].status = "firing"

Holding == {a \in Alerts : stage[a] \in {"enriching", "sending"}}
Active  == {a \in Alerts : stage[a] \in {"waiting", "queued", "enriching", "sending"}}

-----------------------------------------------------------------------------
\* mutant: a firing counts as in flight only once it is being delivered
InFlightSending(f) ==
    IF inflight[f] # Nobody /\ stage[inflight[f]] = "sending" THEN inflight[f] ELSE Nobody

\* `en_vuelo': the firing of this fingerprint in flight, unless already done().
InFlight(f) ==
    IF inflight[f] # Nobody /\ stage[inflight[f]] # "done" THEN inflight[f] ELSE Nobody

\* mutant: a RESOLVED whose firing is in flight is decided at once
VerdictAtOnce(a) ==
    LET policy == IF InFlight(Fp(a)) # Nobody /\ Firing(a) THEN "inflight"
                  ELSE Decide(lastSent, ToMessage(SignalOf[a]), clock)
    IN IF policy = "sent" /\ Cardinality(pending) >= QueueMax THEN "overloaded" ELSE policy

\* What `receive' decides for one alert.
Verdict(a) ==
    LET flying == InFlight(Fp(a)) # Nobody
        policy == IF flying /\ Firing(a) THEN "inflight"
                  ELSE IF flying THEN "sent"
                  ELSE Decide(lastSent, ToMessage(SignalOf[a]), clock)
    IN IF policy = "sent" /\ Cardinality(pending) >= QueueMax THEN "overloaded" ELSE policy

Skip(a, verdict) ==
    /\ stage' = [stage EXCEPT ![a] = "over"]
    /\ decision' = [decision EXCEPT ![a] = verdict]
    /\ UNCHANGED <<pending, inflight, waitsFor, crossed>>

Enqueue(a) ==
    LET previo == InFlight(Fp(a))
    IN /\ stage' = [stage EXCEPT ![a] = IF previo # Nobody THEN "waiting" ELSE "queued"]
       /\ waitsFor' = [waitsFor EXCEPT ![a] = previo]
       /\ pending' = pending \cup {a}
       /\ inflight' = IF Firing(a) THEN [inflight EXCEPT ![Fp(a)] = a] ELSE inflight
       /\ crossed' = IF \E r \in Active : ~Firing(r) /\ Fp(r) = Fp(a)
                     THEN crossed \cup {Fp(a)} ELSE crossed
       /\ UNCHANGED decision

Receive(a) ==
    /\ stage[a] = "absent"
    /\ IF Verdict(a) = "sent" THEN Enqueue(a) ELSE Skip(a, Verdict(a))
    /\ lastSeen' = [lastSeen EXCEPT ![Fp(a)] = SignalOf[a].status]
    /\ UNCHANGED vars

-----------------------------------------------------------------------------
\* _after: once the firing is over, the RESOLVED goes through the policy.
AfterFiring(a) ==
    /\ stage[a] = "waiting"
    /\ stage[waitsFor[a]] = "over"
    /\ LET verdict == Decide(lastSent, ToMessage(SignalOf[a]), clock)
       IN IF verdict = "sent"
          THEN stage' = [stage EXCEPT ![a] = "queued"] /\ UNCHANGED decision
          ELSE /\ stage' = [stage EXCEPT ![a] = "done"]
               /\ decision' = [decision EXCEPT ![a] = verdict]
    /\ UNCHANGED <<vars, pending, inflight, waitsFor, lastSeen, crossed>>

\* What _process does around its call of `send': the record when it ends.
Recorded(a) ==
    IF task'[a] = Idle
    THEN /\ stage' = [stage EXCEPT ![a] = "done"]
         /\ decision' = [decision EXCEPT ![a] = outcome'[a]]
    ELSE /\ stage' = [stage EXCEPT ![a] = "sending"]
         /\ UNCHANGED decision

Dispatch(a) ==
    /\ Send(a, ToMessage(SignalOf[a]))
    /\ Recorded(a)
    /\ UNCHANGED <<pending, inflight, waitsFor, lastSeen, crossed>>

\* _process gets the semaphore.  A firing is enriched first; a RESOLVED goes
\* on to `send' without an await.
Start(a) ==
    /\ stage[a] = "queued"
    /\ Cardinality(Holding) < MaxConcurrent
    /\ IF Firing(a)
       THEN /\ stage' = [stage EXCEPT ![a] = "enriching"]
            /\ UNCHANGED <<vars, decision, pending, inflight, waitsFor, lastSeen, crossed>>
       ELSE Dispatch(a)

\* Enriching ended, well or not: the alert goes out anyway.
Enriched(a) ==
    /\ stage[a] = "enriching"
    /\ Dispatch(a)

\* A channel answered and `send' goes on.
Deliver(a) ==
    /\ stage[a] = "sending"
    /\ Return(a)
    /\ Recorded(a)
    /\ UNCHANGED <<pending, inflight, waitsFor, lastSeen, crossed>>

\* The done-callbacks of the task.
Reap(a) ==
    /\ stage[a] = "done"
    /\ stage' = [stage EXCEPT ![a] = "over"]
    /\ pending' = pending \ {a}
    /\ inflight' = IF inflight[Fp(a)] = a THEN [inflight EXCEPT ![Fp(a)] = Nobody]
                   ELSE inflight
    /\ UNCHANGED <<vars, decision, waitsFor, lastSeen, crossed>>

\* The process dies, or the drain of the shutdown runs out of time.
Die ==
    /\ Restart
    /\ stage' = [a \in Alerts |-> IF a \in Active THEN "lost"
                                  ELSE IF stage[a] = "done" THEN "over" ELSE stage[a]]
    /\ pending' = {}
    /\ inflight' = [f \in Fingerprints |-> Nobody]
    /\ UNCHANGED <<decision, waitsFor, lastSeen, crossed>>

-----------------------------------------------------------------------------
IngressInit ==
    /\ Init
    /\ stage = [a \in Alerts |-> "absent"]
    /\ decision = [a \in Alerts |-> "pending"]
    /\ pending = {}
    /\ inflight = [f \in Fingerprints |-> Nobody]
    /\ waitsFor = [a \in Alerts |-> Nobody]
    /\ lastSeen = [f \in Fingerprints |-> "none"]
    /\ crossed = {}

\* What the event loop does for the task of an alert.
Progress(a) ==
    \/ AfterFiring(a)
    \/ Start(a)
    \/ Enriched(a)
    \/ Deliver(a)
    \/ Reap(a)

IngressNext ==
    \/ \E a \in Alerts : Receive(a)
    \/ \E a \in Alerts : Progress(a)
    \/ Die
    \/ Tick /\ UNCHANGED ingress

\* The event loop runs every ready task; enrichment and the channels end or
\* time out.  Nobody owes the process an alert, a restart or a tick.
Fairness == \A a \in Alerts : WF_ivars(Progress(a))

IngressSpec == IngressInit /\ [][IngressNext]_ivars /\ Fairness

-----------------------------------------------------------------------------
IngressTypeOK ==
    /\ TypeOK
    /\ stage \in [Alerts -> {"absent", "waiting", "queued", "enriching", "sending",
                             "done", "over", "lost"}]
    /\ decision \in [Alerts -> Decisions \cup {"pending", "inflight", "overloaded"}]
    /\ pending \subseteq Alerts
    /\ inflight \in [Fingerprints -> Alerts \cup {Nobody}]
    /\ waitsFor \in [Alerts -> Alerts \cup {Nobody}]
    /\ lastSeen \in [Fingerprints -> {"none", "firing", "resolved"}]
    /\ crossed \subseteq Fingerprints

Undisturbed(f) ==
    /\ broken = 0
    /\ \A a \in Alerts : Fp(a) = f => a \notin Active /\ stage[a] # "lost"

\* The operator who got a firing gets its close: once everything received of a
\* fingerprint is decided and the last of it was a RESOLVED, no channel is left
\* with an open firing (ingress.py:14-22) -- unless the RESOLVED was dropped by
\* the queue limit or the daily cap, the mark was forgotten by age, or an
\* alert of the fingerprint was accepted while a RESOLVED was under way.
CloseFollowsFiring ==
    \A f \in Fingerprints \ crossed :
        (/\ lastSeen[f] = "resolved"
         /\ Undisturbed(f)
         /\ \A a \in Alerts : (Fp(a) = f /\ ~Firing(a))
                                  => decision[a] \notin {"overloaded", "capped"})
        => \/ openSince[f] = NoMark
           \/ clock - openSince[f] >= RememberSent

\* The same without the exceptions for a full queue and for crossings, as the
\* module documentation puts it.
EveryFiringIsClosed ==
    \A f \in Fingerprints :
        (/\ lastSeen[f] = "resolved"
         /\ Undisturbed(f)
         /\ \A a \in Alerts : Fp(a) = f => decision[a] # "capped")
        => openSince[f] = NoMark

\* Where each alert is, as POST /v1/alerts promises it.
BoxOf(a) ==
    CASE stage[a] = "absent" -> "unseen"
      [] a \in Active         -> "accepted"
      [] stage[a] = "lost"   -> "lost"
      [] OTHER               -> "decided"

\* The alerts are what the abstract inbox promises, its liveness included
\* (ingress.py:190-260).
AlertInbox == INSTANCE Inbox WITH box <- [a \in Alerts |-> BoxOf(a)]
IngressIsInbox == AlertInbox!InboxSpec
===============================================================================
