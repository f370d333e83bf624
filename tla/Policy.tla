------------------------------- MODULE Policy -------------------------------
(***************************************************************************)
(* The policy of the dispatcher (src/copilot/dispatch.py) as functions of  *)
(* what is remembered: where a message would go, whether it goes, and what *)
(* is kept of it.  Dispatcher evaluates them on its memory, between two    *)
(* awaits; Ledger evaluates them on the record of whole messages.          *)
(***************************************************************************)
EXTENDS Integers, FiniteSets

CONSTANTS
    NumChannels,     \* channels are 1..NumChannels, in the order of the config
    Fingerprints,
    Messages,        \* the messages that may be sent
    Accepts,         \* policy.routes: the severities each channel accepts
    DailyCap,        \* policy.daily_cap
    RepeatInterval,  \* policy.repeat_interval, in clock ticks
    RememberSent,    \* _REMEMBER_SENT, in clock ticks
    QuietStart,      \* policy.quiet_hours; equal to QuietEnd when there are none
    QuietEnd,
    MaxClock,        \* BOUND: the clock stops here
    DayOf,           \* the UTC date of each instant
    LocalOf,         \* the time of day of each instant in the zone of quiet_hours
    LegacyFps,       \* fingerprints a state file of before F2 may hold
    NoMark           \* "not in _last_sent"

Channels   == 1..NumChannels
Severities == {"info", "warning", "critical", "resolved"}
Time       == 0..MaxClock
Days       == {DayOf[t] : t \in Time}
Keys       == Channels \X Days             \* llave = (canal.name, now.date())
Marks      == [at : Time, channels : SUBSET Channels]              \* Sent

ASSUME PolicyAssumption ==
    /\ NumChannels \in Nat
    /\ MaxClock \in Nat
    /\ DayOf \in [Time -> Nat]
    /\ \A t \in Time : \A u \in Time : t <= u => DayOf[t] <= DayOf[u]
    /\ LocalOf \in [Time -> Nat]
    /\ Messages \subseteq [fp : Fingerprints, sev : Severities,
                           repeatAfter : Nat, force : BOOLEAN]
    /\ Accepts \in [Channels -> SUBSET Severities]
    /\ DailyCap \in Nat \ {0}
    /\ RepeatInterval \in Nat
    /\ RememberSent \in Nat
    /\ QuietStart \in Nat /\ QuietEnd \in Nat
    /\ LegacyFps \subseteq Fingerprints
    /\ NoMark \notin Marks

-----------------------------------------------------------------------------
\* What is remembered, as the state file holds it.

Snapshot(last, today, notified) ==
    [last |-> last, today |-> today, notified |-> notified]

MarkTables == [Fingerprints -> Marks \cup {NoMark}]
Counters   == [Keys -> Nat]
Snapshots  == [last : MarkTables, today : Counters, notified : SUBSET Keys]

EmptyDisk == Snapshot([f \in Fingerprints |-> NoMark], [k \in Keys |-> 0], {})

\* What Sent.from_state makes of a file of before F2: a date and no channels.
LegacyDisk(old) ==
    [EmptyDisk EXCEPT !.last = [f \in Fingerprints |->
        IF f \in old THEN [at |-> 0, channels |-> {}] ELSE NoMark]]

-----------------------------------------------------------------------------
\* What `targets' and `decide' compute from the marks.

IsResolved(m) == m.sev = "resolved"

Targets(last, m) ==
    IF IsResolved(m)
    THEN IF last[m.fp] = NoMark THEN {}
         ELSE IF last[m.fp].channels = {} THEN Channels ELSE last[m.fp].channels
    ELSE {c \in Channels : m.sev \in Accepts[c]}

\* m.repeat_after or policy.repeat_interval
Wait(m) == IF m.repeatAfter # 0 THEN m.repeatAfter ELSE RepeatInterval

\* mutant: repeat_after is ignored
DedupedByPolicy(last, m, now) ==
    last[m.fp] # NoMark /\ now - last[m.fp].at < RepeatInterval

Deduped(last, m, now) ==
    /\ last[m.fp] # NoMark
    /\ now - last[m.fp].at < Wait(m)

\* QuietHours.covers: a window that may cross midnight.
Covers(now) ==
    IF QuietStart <= QuietEnd
    THEN QuietStart <= LocalOf[now] /\ LocalOf[now] < QuietEnd
    ELSE LocalOf[now] >= QuietStart \/ LocalOf[now] < QuietEnd

Decide(last, m, now) ==
    IF Channels = {} THEN "no_channels"
    ELSE IF IsResolved(m)
         THEN IF last[m.fp] # NoMark THEN "sent" ELSE "unpaired"
    ELSE IF Targets(last, m) = {} THEN "unrouted"
    ELSE IF Deduped(last, m, now) THEN "deduped"
    ELSE IF Covers(now) /\ m.sev # "critical" THEN "quiet"
    ELSE "sent"

\* The first lines of `send': force skips the policy.
Forces(m) == m.force /\ Channels # {}
Decision(last, m, now) == IF Forces(m) THEN "sent" ELSE Decide(last, m, now)
Route(last, m) == IF Forces(m) THEN Channels ELSE Targets(last, m)

-----------------------------------------------------------------------------
\* What is kept of a message.

Key(c, now) == <<c, DayOf[now]>>

\* mutants: one message too many; what is critical passes the cap too
AtCapLate(m, now, c, today) == ~m.force /\ today[Key(c, now)] > DailyCap
AtCapUnlessCritical(m, now, c, today) ==
    ~m.force /\ m.sev # "critical" /\ today[Key(c, now)] >= DailyCap

\* `not force and enviados >= daily_cap'
AtCap(m, now, c, today) == ~m.force /\ today[Key(c, now)] >= DailyCap

\* mutants: the mark holds its expiry; a RESOLVED leaves the mark; the mark
\* names every channel routed to, the ones at their cap too
MarkedUntil(last, m, now, got) ==
    IF got = {} THEN last
    ELSE [last EXCEPT ![m.fp] =
            IF IsResolved(m) THEN NoMark ELSE [at |-> now + Wait(m), channels |-> got]]
MarkedForGood(last, m, now, got) ==
    IF got = {} \/ IsResolved(m) THEN last
    ELSE [last EXCEPT ![m.fp] = [at |-> now, channels |-> got]]
MarkedTargets(last, m, now, got) ==
    IF got = {} THEN last
    ELSE [last EXCEPT ![m.fp] =
            IF IsResolved(m) THEN NoMark ELSE [at |-> now, channels |-> Targets(last, m)]]

\* What a call that delivered to `got' leaves in _last_sent.
Marked(last, m, now, got) ==
    IF got = {} THEN last
    ELSE [last EXCEPT ![m.fp] =
            IF IsResolved(m) THEN NoMark ELSE [at |-> now, channels |-> got]]

\* What _snapshot prunes, by the `now' of the call that saves.
Forgotten(last, now) ==
    [f \in Fingerprints |->
        IF last[f] # NoMark /\ now - last[f].at < RememberSent THEN last[f] ELSE NoMark]

OnlyToday(today, now) == [k \in Keys |-> IF k[2] = DayOf[now] THEN today[k] ELSE 0]

\* mutant: the filter is inverted
OldKeys(notified, now) == {k \in notified : k[2] # DayOf[now]}

TodaysKeys(notified, now) == {k \in notified : k[2] = DayOf[now]}
=============================================================================
