------------------------------ MODULE AlertLog ------------------------------
(***************************************************************************)
(* The memory of the alerts (class AlertLog of alerts/ingress.py): a ring, *)
(* and a Jsonl to which each alert is appended when it ends, not when it   *)
(* arrives.  The tasks of the ingress end in any order, so the file is not *)
(* in the order of arrival, and neither is the ring of the process that    *)
(* loads it.  Without storage.path there is only the ring, and a restart   *)
(* forgets it: that is not modelled.                                       *)
(***************************************************************************)
EXTENDS Naturals, Sequences, FiniteSetsExt, SequencesExt

CONSTANTS
    Alerts,         \* the alerts that arrive, one element per delivery
    FiringAlerts,   \* those whose status is firing
    AccentedAlerts, \* those whose text has characters of several bytes
    Capacity,       \* maxlen
    FileMax, Torn, Garbled,
    MaxClock,       \* bound: instants 0..MaxClock
    MaxBoots,       \* bound: restarts
    MaxFaults       \* bound: writes that a full disk or a crash spoils

\* What changes of a Record; the rest of it never does.
Records == [alert : Alerts, decision : {"pending", "decided"}]
Pending(a) == [alert |-> a, decision |-> "pending"]
Done(a)    == [alert |-> a, decision |-> "decided"]

INSTANCE Jsonl WITH Entries <- Records, Accented <- {Done(a) : a \in AccentedAlerts}

ASSUME AlertLogAssumption ==
    /\ FiringAlerts \subseteq Alerts
    /\ AccentedAlerts \subseteq Alerts
    /\ Capacity \in Nat \ {0}
    /\ FileMax \in Nat
    /\ Torn \notin Records /\ Garbled \notin Records /\ Torn # Garbled
    /\ MaxClock \in Nat /\ MaxBoots \in Nat /\ MaxFaults \in Nat

VARIABLES
    ring,       \* _items, oldest first
    file,       \* alerts.jsonl and alerts.jsonl.1
    stage,      \* of each alert: "unseen", "flying", "over", or "lost" in a crash
    receivedAt, \* received_at of each alert
    process,    \* "up", "down", or "failed": it raised while loading the log
    clock,
    boots,
    \* observers
    bootedAt,   \* when the process started
    spoiled     \* entries whose write went wrong

vars == <<ring, file, stage, receivedAt, process, clock, boots, bootedAt, spoiled>>

Time == 0..MaxClock

-----------------------------------------------------------------------------
\* mutant: the ring has no limit
PushedForever(r) == Append(ring, r)

\* deque(maxlen).append
Pushed(r) == Newest(Append(ring, r), Capacity)

\* The record is one object: what its task writes is seen in the ring.
Decided(a) == [i \in DOMAIN ring |-> IF ring[i].alert = a THEN Done(a) ELSE ring[i]]

\* persist: the line goes to the file, or the disk fails and that is logged.
Persist(r) ==
    \/ /\ file' = Written(file, r)
       /\ spoiled' = IF Glues(file) THEN spoiled + 1 ELSE spoiled
    \/ /\ spoiled < MaxFaults
       /\ file' \in Spoilt(file, r)
       /\ spoiled' = spoiled + 1

Arrives(a) ==
    /\ process = "up"
    /\ stage[a] = "unseen"
    /\ receivedAt' = [receivedAt EXCEPT ![a] = clock]
    /\ UNCHANGED <<process, clock, boots, bootedAt>>

\* `receive' turns the alert away: added and persisted at once.
Skip(a) ==
    /\ Arrives(a)
    /\ ring' = Pushed(Done(a))
    /\ stage' = [stage EXCEPT ![a] = "over"]
    /\ Persist(Done(a))

\* mutant: what is queued is written at once, still pending
QueueAndPersist(a) ==
    /\ Arrives(a)
    /\ ring' = Pushed(Pending(a))
    /\ stage' = [stage EXCEPT ![a] = "flying"]
    /\ Persist(Pending(a))

\* `receive' queues it.
Queue(a) ==
    /\ Arrives(a)
    /\ ring' = Pushed(Pending(a))
    /\ stage' = [stage EXCEPT ![a] = "flying"]
    /\ UNCHANGED <<file, spoiled>>

\* Its task ends, in _after or in _process.
Finish(a) ==
    /\ process = "up"
    /\ stage[a] = "flying"
    /\ ring' = Decided(a)
    /\ stage' = [stage EXCEPT ![a] = "over"]
    /\ Persist(Done(a))
    /\ UNCHANGED <<receivedAt, process, clock, boots, bootedAt>>

Dies ==
    /\ process = "up"
    /\ boots < MaxBoots
    /\ process' = "down"
    /\ ring' = <<>>
    /\ stage' = [a \in Alerts |-> IF stage[a] = "flying" THEN "lost" ELSE stage[a]]
    /\ UNCHANGED <<receivedAt, clock, boots, bootedAt>>

Crash == Dies /\ UNCHANGED <<file, spoiled>>

\* ... while it writes the record of an alert that ended.
CrashWriting(a) ==
    /\ Dies
    /\ stage[a] = "flying"
    /\ spoiled < MaxFaults
    /\ file' \in Spoilt(file, Done(a))
    /\ spoiled' = spoiled + 1

\* A new process loads the log, if it can.
Boot ==
    /\ process # "up"
    /\ boots < MaxBoots
    /\ boots' = boots + 1
    /\ bootedAt' = clock
    /\ \E unread \in SUBSET {"old", "cur"} :
          LET lines == Read(file, unread)
          IN IF Raises(lines)
             THEN process' = "failed" /\ UNCHANGED ring
             ELSE process' = "up" /\ ring' = Newest(Parsed(lines), Capacity)
    /\ UNCHANGED <<file, stage, receivedAt, clock, spoiled>>

Tick ==
    /\ clock < MaxClock
    /\ clock' = clock + 1
    /\ UNCHANGED <<ring, file, stage, receivedAt, process, boots, bootedAt, spoiled>>

-----------------------------------------------------------------------------
Init ==
    /\ ring = <<>>
    /\ file = NewFile
    /\ stage = [a \in Alerts |-> "unseen"]
    /\ receivedAt = [a \in Alerts |-> 0]
    /\ process = "up"
    /\ clock = 0
    /\ boots = 0
    /\ bootedAt = 0
    /\ spoiled = 0

Next ==
    \/ \E a \in Alerts : Skip(a) \/ Queue(a) \/ Finish(a) \/ CrashWriting(a)
    \/ Crash
    \/ Boot
    \/ Tick

Spec == Init /\ [][Next]_vars

-----------------------------------------------------------------------------
Passing(onlyFiring) == {r \in Records : ~onlyFiring \/ r.alert \in FiringAlerts}
Since(since)        == {r \in Records : receivedAt[r.alert] >= since}

\* mutant: the limit is applied to the ring before the filters
RecentOfTheLast(limit, onlyFiring, since) ==
    Sifted(Reverse(Newest(ring, limit)), Passing(onlyFiring) \cap Since(since))

\* recent: from the newest back; `only_firing' skips a record, one older than
\* `since' ends the walk, and the limit is tested after a record was taken.
Recent(limit, onlyFiring, since) ==
    LET walked == Sifted(Reverse(ring), Passing(onlyFiring))
        stops  == {i \in DOMAIN walked : walked[i] \notin Since(since)}
        taken  == Min({Len(walked), Max({limit, 1})} \cup {i - 1 : i \in stops})
    IN SubSeq(walked, 1, taken)

TypeOK ==
    /\ ring \in Seq(Records) /\ Len(ring) <= Capacity
    /\ file.old \in Seq(Records \cup {Torn, Garbled})
    /\ file.cur \in Seq(Records \cup {Torn, Garbled})
    /\ file.cut => file.cur # <<>>
    /\ stage \in [Alerts -> {"unseen", "flying", "over", "lost"}]
    /\ receivedAt \in [Alerts -> Time]
    /\ process \in {"up", "down", "failed"}
    /\ clock \in Time
    /\ boots \in 0..MaxBoots
    /\ bootedAt \in Time
    /\ spoiled \in Nat

\* A record that says `pending' is of an alert this very process is working
\* on: what it decides will still be written in it.  A crash leaves none
\* behind, because an alert is only written when it ends (ingress.py:24-27).
PendingIsInFlight ==
    \A i \in DOMAIN ring : ring[i].decision = "pending" => stage[ring[i].alert] = "flying"

\* What `recent' means, said without a walk: the newest `limit' among those
\* that pass the filters, newest first.
Answer(limit, onlyFiring, since) ==
    Reverse(Newest(Sifted(ring, Passing(onlyFiring) \cap Since(since)), limit))

\* What arrived in the last hours (tools_alerts.py:148-153) is all that the
\* log holds of those hours.
RecentIsComplete ==
    \A limit \in 1..Capacity, onlyFiring \in BOOLEAN, since \in Time :
        Recent(limit, onlyFiring, since) = Answer(limit, onlyFiring, since)

\* The same for what arrived at this process: the ring is in order of arrival
\* although decisions come in any order, and reloaded records do not hide them.
RecentSinceBoot ==
    \A limit \in 1..Capacity, onlyFiring \in BOOLEAN, since \in Time :
        boots = 0 \/ since > bootedAt =>
            Recent(limit, onlyFiring, since) = Answer(limit, onlyFiring, since)

\* A line cut by a shutdown is skipped (store.py:72): it never keeps the
\* next process from starting.
StartsAgain == process # "failed"

\* The two files are a journal that keeps at least a full file and a line,
\* whatever goes wrong with a write and wherever the process dies.
\* (store.Jsonl.append and tail)
LogJournal == INSTANCE Journal WITH
    Entries <- {Done(a) : a \in Alerts},
    Keep    <- FileMax + 1,
    journal <- Parsed(Read(file, {}))
FileIsJournal == LogJournal!JournalSpec
=============================================================================
