-------------------------- MODULE DispatcherProofs --------------------------
(***************************************************************************)
(* Theorems about the dispatcher, for any number of channels, callers,     *)
(* messages, restarts and cancellations; and, from "The ingress" on, about *)
(* the ingress that calls it, for any number of alerts.  No theorem about  *)
(* Spec rests on IngressAssumption.                                        *)
(***************************************************************************)
EXTENDS Ingress, FiniteSetTheorems, TLAPS

-----------------------------------------------------------------------------
\* The policy on well-typed arguments.

LEMMA MessageType ==
    ASSUME NEW m \in Messages
    PROVE  /\ m.fp \in Fingerprints
           /\ m.sev \in Severities
           /\ m.repeatAfter \in Nat
           /\ m.force \in BOOLEAN
BY PolicyAssumption DEF PolicyAssumption

LEMMA KeyType ==
    ASSUME NEW c \in Channels, NEW now \in Time
    PROVE  Key(c, now) \in Keys
BY DEF Key, Keys, Days

LEMMA RouteType ==
    ASSUME NEW last \in MarkTables, NEW m \in Messages
    PROVE  Route(last, m) \in SUBSET Channels
<1>1. last[m.fp] # NoMark => last[m.fp].channels \in SUBSET Channels
  BY MessageType DEF MarkTables, Marks
<1> QED
  BY <1>1 DEF Route, Targets

LEMMA DecisionType ==
    ASSUME NEW last \in MarkTables, NEW m \in Messages, NEW now \in Time
    PROVE  Decision(last, m, now) \in Decisions
BY DEF Decision, Decide, Decisions

LEMMA MarkedType ==
    ASSUME NEW last \in MarkTables, NEW m \in Messages, NEW now \in Time,
           NEW got \in SUBSET Channels
    PROVE  Marked(last, m, now, got) \in MarkTables
BY MessageType DEF Marked, MarkTables, Marks

LEMMA PruneType ==
    ASSUME NEW last \in MarkTables, NEW today \in Counters,
           NEW notified \in SUBSET Keys, NEW now \in Time
    PROVE  /\ Forgotten(last, now) \in MarkTables
           /\ OnlyToday(today, now) \in Counters
           /\ TodaysKeys(notified, now) \in SUBSET Keys
BY DEF Forgotten, OnlyToday, TodaysKeys, MarkTables, Counters

LEMMA EmptyType == EmptyDisk \in Snapshots
BY DEF EmptyDisk, Snapshot, Snapshots, MarkTables, Counters

LEMMA LegacyType ==
    ASSUME NEW old \in SUBSET LegacyFps
    PROVE  LegacyDisk(old) \in Snapshots
<1>1. [at |-> 0, channels |-> {}] \in Marks
  BY PolicyAssumption DEF PolicyAssumption, Marks, Time
<1> QED
  BY <1>1 DEF LegacyDisk, EmptyDisk, Snapshot, Snapshots, MarkTables, Counters

-----------------------------------------------------------------------------
\* The steps of a call keep the types.  CallType is what a call may change.

CallType ==
    /\ lastSent \in MarkTables
    /\ sentToday \in Counters
    /\ capNotified \in SUBSET Keys
    /\ task \in [Senders -> Frames \cup {Idle}]
    /\ outcome \in [Senders -> Decisions \cup {"none"}]
    /\ disk \in Snapshots
    /\ regular \in Counters
    /\ forced \in Counters
    /\ notices \in Counters
    /\ firedTo \in [Fingerprints -> SUBSET Channels]
    /\ openSince \in [Fingerprints -> Time \cup {NoMark}]

LEMMA ObserveType ==
    ASSUME CallType, NEW m \in Messages, NEW now \in Time, NEW c \in Channels,
           Observe(m, now, c)
    PROVE  /\ regular' \in Counters
           /\ forced' \in Counters
           /\ notices' \in Counters
           /\ firedTo' \in [Fingerprints -> SUBSET Channels]
           /\ openSince' \in [Fingerprints -> Time \cup {NoMark}]
<1>1. m.fp \in Fingerprints /\ Key(c, now) \in Keys
  BY MessageType, KeyType
<1>2. regular' \in Counters /\ forced' \in Counters /\ notices' \in Counters
  <2>1. CASE m.force
    BY <1>1, <2>1 DEF CallType, Observe, Counters
  <2>2. CASE ~m.force
    BY <1>1, <2>2 DEF CallType, Observe, Counters
  <2> QED
    BY <2>1, <2>2
<1>3. /\ firedTo' \in [Fingerprints -> SUBSET Channels]
      /\ openSince' \in [Fingerprints -> Time \cup {NoMark}]
  <2>1. CASE IsResolved(m)
    BY <1>1, <2>1 DEF CallType, Observe
  <2>2. CASE ~IsResolved(m)
    BY <1>1, <2>2 DEF CallType, Observe
  <2> QED
    BY <2>1, <2>2
<1> QED
  BY <1>2, <1>3

LEMMA SaveType ==
    ASSUME CallType, NEW last \in MarkTables, NEW today \in Counters, NEW now \in Time,
           Save(last, today, now)
    PROVE  /\ lastSent' \in MarkTables
           /\ sentToday' \in Counters
           /\ capNotified' \in SUBSET Keys
           /\ disk' \in Snapshots
<1>1. CASE ~Durable
  BY <1>1 DEF Save, CallType
<1>2. CASE Durable
  <2>1. /\ lastSent' = Forgotten(last, now)
        /\ sentToday' = OnlyToday(today, now)
        /\ capNotified' = TodaysKeys(capNotified, now)
        /\ disk' \in {Snapshot(lastSent', sentToday', capNotified'), disk}
    BY <1>2 DEF Save
  <2>2. /\ lastSent' \in MarkTables
        /\ sentToday' \in Counters
        /\ capNotified' \in SUBSET Keys
    BY <2>1, PruneType DEF CallType
  <2>3. disk' \in Snapshots
    BY <2>1, <2>2 DEF CallType, Snapshot, Snapshots
  <2> QED
    BY <2>2, <2>3
<1> QED
  BY <1>1, <1>2

LEMMA AdvanceType ==
    ASSUME CallType, NEW s \in Senders, NEW m \in Messages, NEW now \in Time,
           NEW rest \in SUBSET Channels, NEW got \in SUBSET Channels,
           NEW today \in Counters,
           Advance(s, m, now, rest, got, today)
    PROVE  CallType'
<1>1. CASE Settle(s, m, now, got, today)
  <2>1. Marked(lastSent, m, now, got) \in MarkTables
    BY MarkedType DEF CallType
  <2>2. /\ lastSent' \in MarkTables
        /\ sentToday' \in Counters
        /\ capNotified' \in SUBSET Keys
        /\ disk' \in Snapshots
    BY <1>1, <2>1, SaveType DEF Settle
  <2>3. task' \in [Senders -> Frames \cup {Idle}]
    BY <1>1 DEF Settle, CallType
  <2>4. outcome' \in [Senders -> Decisions \cup {"none"}]
    BY <1>1 DEF Settle, CallType, Decisions
  <2> QED
    BY <1>1, <2>2, <2>3, <2>4 DEF Settle, CallType, observed
<1>2. ASSUME NEW c \in rest, sentToday' = today,
             \/ HandOver(s, m, now, c, rest, got, today)
             \/ NotifyCap(s, m, now, c, rest, got, today)
      PROVE  CallType'
  <2> DEFINE frame(what) ==
        [m |-> m, now |-> now, at |-> c, what |-> what,
         read |-> today[Key(c, now)], rest |-> After(c, rest), got |-> got]
  <2>1. Key(c, now) \in Keys /\ c \in Channels
    BY KeyType
  <2>2. frame("message") \in Frames /\ frame("notice") \in Frames
    BY <2>1 DEF Frames, After, Counters
  <2>3. CASE HandOver(s, m, now, c, rest, got, today)
    <3>1. task' \in [Senders -> Frames \cup {Idle}]
      BY <2>2, <2>3 DEF HandOver, CallType
    <3>2. /\ regular' \in Counters
          /\ forced' \in Counters
          /\ notices' \in Counters
          /\ firedTo' \in [Fingerprints -> SUBSET Channels]
          /\ openSince' \in [Fingerprints -> Time \cup {NoMark}]
      BY <2>1, <2>3, ObserveType DEF HandOver
    <3> QED
      BY <1>2, <2>3, <3>1, <3>2 DEF HandOver, CallType
  <2>4. CASE NotifyCap(s, m, now, c, rest, got, today)
    <3>1. task' \in [Senders -> Frames \cup {Idle}]
      BY <2>2, <2>4 DEF NotifyCap, CallType
    <3>2. notices' \in Counters /\ capNotified' \in SUBSET Keys
      BY <2>1, <2>4 DEF NotifyCap, CallType, Counters
    <3> QED
      BY <1>2, <2>4, <3>1, <3>2 DEF NotifyCap, CallType
  <2> QED
    BY <1>2, <2>3, <2>4
<1> QED
  BY <1>1, <1>2 DEF Advance

-----------------------------------------------------------------------------
\* The types hold in every reachable state.

LEMMA TypeSplit ==
    TypeOK <=> /\ CallType
               /\ clock \in Time
               /\ calls \in Nat /\ restarts \in Nat /\ cancels \in Nat /\ broken \in Nat
BY DEF TypeOK, CallType

LEMMA InitType == Init => TypeOK
<1> SUFFICES ASSUME Init PROVE TypeOK
  OBVIOUS
<1>1. disk \in Snapshots
  BY EmptyType, LegacyType DEF Init
<1>2. /\ lastSent \in MarkTables
      /\ sentToday \in Counters
      /\ capNotified \in SUBSET Keys
  BY <1>1 DEF Init, Snapshots
<1>3. clock \in Time
  BY PolicyAssumption DEF Init, PolicyAssumption, Time
<1> QED
  BY <1>1, <1>2, <1>3 DEF Init, TypeOK, Counters

LEMMA SendType ==
    ASSUME TypeOK, NEW s \in Senders, NEW m \in Messages, Send(s, m)
    PROVE  TypeOK'
<1>1. /\ clock' = clock /\ calls' = calls + 1
      /\ UNCHANGED <<restarts, cancels, broken>>
  BY DEF Send
<1>2. CASE Decision(lastSent, m, clock) = "sent"
  <2>1. Advance(s, m, clock, Route(lastSent, m), {}, sentToday)
    BY <1>2 DEF Send
  <2>2. /\ Route(lastSent, m) \in SUBSET Channels
        /\ clock \in Time /\ sentToday \in Counters
    BY RouteType DEF TypeOK
  <2>3. CallType'
    BY <2>1, <2>2, AdvanceType, TypeSplit
  <2> QED
    BY <1>1, <2>3 DEF TypeOK, CallType
<1>3. CASE Decision(lastSent, m, clock) # "sent"
  <2>1. /\ outcome' = [outcome EXCEPT ![s] = Decision(lastSent, m, clock)]
        /\ UNCHANGED <<memory, task, disk, observed>>
    BY <1>3 DEF Send
  <2>2. Decision(lastSent, m, clock) \in Decisions
    BY DecisionType DEF TypeOK
  <2> QED
    BY <1>1, <2>1, <2>2 DEF TypeOK, memory, observed
<1> QED
  BY <1>2, <1>3

LEMMA ReturnType ==
    ASSUME TypeOK, NEW s \in Senders, Return(s)
    PROVE  TypeOK'
<1> DEFINE f == task[s]
           k == Key(f.at, f.now)
<1>1. f \in Frames
  BY DEF Return, TypeOK
<1>2. /\ f.m \in Messages /\ f.now \in Time /\ f.at \in Channels /\ f.read \in Nat
      /\ f.rest \in SUBSET Channels
      /\ f.got \in SUBSET Channels /\ f.got \cup {f.at} \in SUBSET Channels
  BY <1>1 DEF Frames
<1>3. [sentToday EXCEPT ![k] = f.read + 1] \in Counters
  BY <1>2, KeyType DEF TypeOK, Counters
<1>4. CASE f.what = "message"
  <2>1. Advance(s, f.m, f.now, f.rest, f.got \cup {f.at},
                [sentToday EXCEPT ![k] = f.read + 1])
    BY <1>4 DEF Return
  <2> HIDE DEF f, k
  <2>2. CallType'
    BY <1>2, <1>3, <2>1, AdvanceType, TypeSplit
  <2> QED
    BY <2>2 DEF Return, bounds, TypeOK, CallType
<1>5. CASE f.what # "message"
  <2>1. Advance(s, f.m, f.now, f.rest, f.got, sentToday)
    BY <1>5 DEF Return
  <2> HIDE DEF f, k
  <2>2. CallType'
    BY <1>2, <2>1, AdvanceType, TypeSplit DEF TypeOK
  <2> QED
    BY <2>2 DEF Return, bounds, TypeOK, CallType
<1> QED
  BY <1>4, <1>5

LEMMA RestartType ==
    ASSUME TypeOK, Restart
    PROVE  TypeOK'
<1>1. PICK found \in {disk, EmptyDisk} :
          /\ lastSent' = found.last
          /\ sentToday' = found.today
          /\ capNotified' = found.notified
  BY DEF Restart
<1>2. found \in Snapshots
  BY EmptyType DEF TypeOK
<1>3. /\ lastSent' \in MarkTables
      /\ sentToday' \in Counters
      /\ capNotified' \in SUBSET Keys
  BY <1>1, <1>2 DEF Snapshots
<1>4. broken' \in Nat /\ restarts' \in Nat
  BY DEF Restart, TypeOK
<1> QED
  BY <1>3, <1>4 DEF Restart, TypeOK, observed

LEMMA StepType == TypeOK /\ [Next]_vars => TypeOK'
<1> SUFFICES ASSUME TypeOK, [Next]_vars PROVE TypeOK'
  OBVIOUS
<1>1. ASSUME NEW s \in Senders, NEW m \in Messages, Send(s, m) PROVE TypeOK'
  BY <1>1, SendType
<1>2. ASSUME NEW s \in Senders, Return(s) PROVE TypeOK'
  BY <1>2, ReturnType
<1>3. ASSUME NEW s \in Senders, Cancel(s) PROVE TypeOK'
  BY <1>3 DEF Cancel, TypeOK, memory, observed
<1>4. CASE Restart
  BY <1>4, RestartType
<1>5. CASE Tick
  BY <1>5, PolicyAssumption
     DEF Tick, TypeOK, memory, observed, bounds, Time, PolicyAssumption
<1>6. CASE UNCHANGED vars
  BY <1>6 DEF vars, memory, observed, bounds, TypeOK
<1> QED
  BY <1>1, <1>2, <1>3, <1>4, <1>5, <1>6 DEF Next

\* Whatever the calls, awaits, cancellations and restarts of the dispatcher
\* (dispatch.py), its memory, its file and its frames stay well typed.
THEOREM TypeCorrect == Spec => []TypeOK
BY InitType, StepType, PTL DEF Spec

-----------------------------------------------------------------------------
(***************************************************************************)
(* The daily cap never cuts a channel off early (NeverCutEarly), for any   *)
(* number of concurrent callers, cancellations, restarts and disk errors.  *)
(*                                                                         *)
(* The counter alone is not inductive: it is written after an await from   *)
(* the value read before it, and read back from a file that may be stale.  *)
(* Counted bounds every copy of it by what the channel was handed.         *)
(***************************************************************************)
\* No counter, in memory or on file, is above what the channel was handed; a
\* notice on record means the cap was reached; and an awaited message was
\* handed on top of what its frame read.
Counted ==
    /\ \A k \in Keys : sentToday[k] <= Handed(k) /\ disk.today[k] <= Handed(k)
    /\ \A k \in capNotified \cup disk.notified : DailyCap <= Handed(k)
    /\ \A s \in Senders :
          (task[s] # Idle /\ task[s].what = "message")
              => task[s].read < Handed(Key(task[s].at, task[s].now))

-----------------------------------------------------------------------------
LEMMA HandedType ==
    ASSUME CallType, NEW k \in Keys
    PROVE  Handed(k) \in Nat
BY DEF Handed, CallType, Counters

\* A hand-over counts once, for its own channel and day.
LEMMA ObserveHanded ==
    ASSUME CallType, NEW m \in Messages, NEW now \in Time, NEW c \in Channels,
           Observe(m, now, c), NEW k \in Keys
    PROVE  Handed(k)' = IF k = Key(c, now) THEN Handed(k) + 1 ELSE Handed(k)
<1>1. CASE m.force
  BY <1>1 DEF Observe, Handed, CallType, Counters
<1>2. CASE ~m.force
  BY <1>2 DEF Observe, Handed, CallType, Counters
<1> QED
  BY <1>1, <1>2

\* What is saved is bounded by what was handed, whether the write fails or not.
LEMMA SaveCounted ==
    ASSUME CallType, Counted, UNCHANGED observed,
           NEW last \in MarkTables, NEW today \in Counters, NEW now \in Time,
           \A k \in Keys : today[k] <= Handed(k),
           Save(last, today, now)
    PROVE  /\ \A k \in Keys : sentToday'[k] <= Handed(k)' /\ disk'.today[k] <= Handed(k)'
           /\ \A k \in capNotified' \cup disk'.notified : DailyCap <= Handed(k)'
<1>1. \A k : Handed(k)' = Handed(k)
  BY DEF observed, Handed
<1>2. CASE ~Durable
  BY <1>1, <1>2 DEF Save, Counted
<1>3. CASE Durable
  <2>1. /\ sentToday' = OnlyToday(today, now)
        /\ capNotified' = TodaysKeys(capNotified, now)
        /\ disk' \in {Snapshot(lastSent', sentToday', capNotified'), disk}
    BY <1>3 DEF Save
  <2>2. \A k \in Keys : OnlyToday(today, now)[k] <= Handed(k)
    BY HandedType DEF OnlyToday, Counters
  <2>3. \A k \in TodaysKeys(capNotified, now) : DailyCap <= Handed(k)
    BY DEF TodaysKeys, Counted
  <2> QED
    BY <1>1, <2>1, <2>2, <2>3 DEF Snapshot, Counted
<1> QED
  BY <1>2, <1>3

LEMMA AdvanceCounted ==
    ASSUME CallType, Counted,
           NEW s \in Senders, NEW m \in Messages, NEW now \in Time,
           NEW rest \in SUBSET Channels, NEW got \in SUBSET Channels,
           NEW today \in Counters,
           \A k \in Keys : today[k] <= Handed(k),
           Advance(s, m, now, rest, got, today)
    PROVE  Counted'
<1>1. CASE Settle(s, m, now, got, today)
  <2>1. /\ \A k \in Keys : sentToday'[k] <= Handed(k)' /\ disk'.today[k] <= Handed(k)'
        /\ \A k \in capNotified' \cup disk'.notified : DailyCap <= Handed(k)'
    BY <1>1, MarkedType, SaveCounted DEF Settle, CallType
  <2>2. /\ UNCHANGED <<regular, forced>>
        /\ task' = [task EXCEPT ![s] = Idle]
    BY <1>1 DEF Settle, observed
  <2>3. \A x \in Senders : task'[x] # Idle => task'[x] = task[x]
    BY <2>2 DEF CallType
  <2> QED
    BY <2>1, <2>2, <2>3 DEF Counted, Handed
<1>2. ASSUME NEW c \in rest, sentToday' = today, HandOver(s, m, now, c, rest, got, today)
      PROVE  Counted'
  <2> DEFINE key == Key(c, now)
  <2>1. c \in Channels /\ key \in Keys
    BY KeyType
  <2>2. \A k \in Keys : /\ Handed(k) \in Nat
                        /\ Handed(k)' = IF k = key THEN Handed(k) + 1 ELSE Handed(k)
    BY <1>2, <2>1, HandedType, ObserveHanded DEF HandOver
  <2>3. \A k \in Keys : sentToday'[k] <= Handed(k)' /\ disk'.today[k] <= Handed(k)'
    <3>1. \A k \in Keys : /\ today[k] \in Nat /\ disk.today[k] \in Nat
                          /\ today[k] <= Handed(k) /\ disk.today[k] <= Handed(k)
      BY DEF Counted, CallType, Snapshots, Counters
    <3> QED
      BY <1>2, <2>2, <3>1 DEF HandOver
  <2>4. \A k \in capNotified' \cup disk'.notified : DailyCap <= Handed(k)'
    <3>1. \A k \in capNotified \cup disk.notified : k \in Keys /\ DailyCap <= Handed(k)
      BY DEF Counted, CallType, Snapshots
    <3> QED
      BY <1>2, <2>2, <3>1, PolicyAssumption DEF HandOver, PolicyAssumption
  <2>5. ASSUME NEW x \in Senders, task'[x] # Idle, task'[x].what = "message"
        PROVE  (task[x].read < Handed(Key(task[x].at, task[x].now)))'
    <3>1. CASE x = s
      <4>1. task'[x].read = today[key] /\ task'[x].at = c /\ task'[x].now = now
        BY <1>2, <3>1 DEF HandOver, CallType
      <4>2. today[key] <= Handed(key) /\ today[key] \in Nat
        BY <2>1 DEF Counters
      <4>3. Handed(key)' = Handed(key) + 1 /\ Handed(key) \in Nat
        BY <2>1, <2>2
      <4> QED
        BY <4>1, <4>2, <4>3 DEF Handed
    <3>2. CASE x # s
      <4>1. task'[x] = task[x]
        BY <1>2, <3>2 DEF HandOver, CallType
      <4>2. task[x] \in Frames
        BY <2>5, <4>1 DEF CallType
      <4>3. /\ Key(task[x].at, task[x].now) \in Keys
            /\ task[x].read \in Nat
        BY <4>2, KeyType DEF Frames
      <4>4. task[x].read < Handed(Key(task[x].at, task[x].now))
        BY <2>5, <4>1 DEF Counted
      <4>5. Handed(Key(task[x].at, task[x].now)) \in Nat
            /\ \/ Handed(Key(task[x].at, task[x].now))' = Handed(Key(task[x].at, task[x].now))
               \/ Handed(Key(task[x].at, task[x].now))' = Handed(Key(task[x].at, task[x].now)) + 1
        BY <2>2, <4>1, <4>3 DEF Handed
      <4> QED
        BY <4>1, <4>3, <4>4, <4>5 DEF Handed
    <3> QED
      BY <3>1, <3>2
  <2> QED
    BY <2>3, <2>4, <2>5 DEF Counted
<1>3. ASSUME NEW c \in rest, sentToday' = today, AtCap(m, now, c, today),
             NotifyCap(s, m, now, c, rest, got, today)
      PROVE  Counted'
  <2>1. c \in Channels /\ Key(c, now) \in Keys
    BY KeyType
  <2>2. UNCHANGED <<regular, forced>>
    BY <1>3 DEF NotifyCap
  <2>3. DailyCap <= Handed(Key(c, now))
    <3>1. today[Key(c, now)] >= DailyCap /\ today[Key(c, now)] <= Handed(Key(c, now))
      BY <1>3, <2>1 DEF AtCap
    <3> QED
      BY <2>1, <3>1, HandedType, PolicyAssumption DEF PolicyAssumption, Counters
  <2>4. \A x \in Senders : task'[x].what = "message" => task'[x] = task[x]
    BY <1>3 DEF NotifyCap, CallType
  <2> QED
    BY <1>3, <2>2, <2>3, <2>4 DEF NotifyCap, Counted, Handed
<1> QED
  BY <1>1, <1>2, <1>3 DEF Advance

-----------------------------------------------------------------------------
LEMMA InitCounted == Init => Counted
<1> SUFFICES ASSUME Init PROVE Counted
  OBVIOUS
<1>1. disk.today = [k \in Keys |-> 0] /\ disk.notified = {}
  BY DEF Init, LegacyDisk, EmptyDisk, Snapshot
<1> QED
  BY <1>1 DEF Init, Counted, Handed

LEMMA SendCounted ==
    ASSUME TypeOK, Counted, NEW s \in Senders, NEW m \in Messages, Send(s, m)
    PROVE  Counted'
<1>1. CASE Decision(lastSent, m, clock) = "sent"
  <2>1. Advance(s, m, clock, Route(lastSent, m), {}, sentToday)
    BY <1>1 DEF Send
  <2>2. /\ Route(lastSent, m) \in SUBSET Channels
        /\ clock \in Time /\ sentToday \in Counters
    BY RouteType DEF TypeOK
  <2>3. \A k \in Keys : sentToday[k] <= Handed(k)
    BY DEF Counted
  <2> QED
    BY <2>1, <2>2, <2>3, AdvanceCounted, TypeSplit
<1>2. CASE Decision(lastSent, m, clock) # "sent"
  BY <1>2 DEF Send, memory, observed, Counted, Handed
<1> QED
  BY <1>1, <1>2

\* The counter written after the await: what was read, plus the one message
\* the channel was handed since.
LEMMA ReturnCounted ==
    ASSUME TypeOK, Counted, NEW s \in Senders, Return(s)
    PROVE  Counted'
<1> DEFINE f == task[s]
           k == Key(f.at, f.now)
           counted == [sentToday EXCEPT ![k] = f.read + 1]
<1>1. f \in Frames /\ f # Idle
  BY DEF Return, TypeOK
<1>2. /\ f.m \in Messages /\ f.now \in Time /\ f.at \in Channels /\ f.read \in Nat
      /\ f.rest \in SUBSET Channels
      /\ f.got \in SUBSET Channels /\ f.got \cup {f.at} \in SUBSET Channels
  BY <1>1 DEF Frames
<1>3. k \in Keys /\ sentToday \in Counters
  BY <1>2, KeyType DEF TypeOK
<1>4. CASE f.what = "message"
  <2>1. Advance(s, f.m, f.now, f.rest, f.got \cup {f.at}, counted)
    BY <1>4 DEF Return
  <2>2. counted \in Counters
    BY <1>2, <1>3 DEF Counters
  <2>3. f.read + 1 <= Handed(k)
    <3>1. f.read < Handed(k)
      BY <1>1, <1>4 DEF Counted
    <3> QED
      BY <1>2, <1>3, <3>1, HandedType, TypeSplit
  <2>4. \A x \in Keys : counted[x] <= Handed(x)
    BY <1>3, <2>3 DEF Counters, Counted
  <2> HIDE DEF f, counted
  <2> QED
    BY <1>2, <2>1, <2>2, <2>4, AdvanceCounted, TypeSplit
<1>5. CASE f.what # "message"
  <2>1. Advance(s, f.m, f.now, f.rest, f.got, sentToday)
    BY <1>5 DEF Return
  <2>2. \A x \in Keys : sentToday[x] <= Handed(x)
    BY DEF Counted
  <2> HIDE DEF f
  <2> QED
    BY <1>2, <1>3, <2>1, <2>2, AdvanceCounted, TypeSplit
<1> QED
  BY <1>4, <1>5

\* The new process knows no more than the file, or nothing.
LEMMA RestartCounted ==
    ASSUME TypeOK, Counted, Restart
    PROVE  Counted'
<1>1. PICK found \in {disk, EmptyDisk} :
          /\ sentToday' = found.today
          /\ capNotified' = found.notified
  BY DEF Restart
<1>2. \A k \in Keys : Handed(k) \in Nat
  BY HandedType, TypeSplit
<1>3. /\ \A k \in Keys : found.today[k] <= Handed(k)
      /\ \A k \in found.notified : DailyCap <= Handed(k)
  BY <1>1, <1>2 DEF Counted, EmptyDisk, Snapshot
<1> QED
  BY <1>1, <1>3 DEF Restart, Counted, Handed, observed

LEMMA StepCounted == TypeOK /\ Counted /\ [Next]_vars => Counted'
<1> SUFFICES ASSUME TypeOK, Counted, [Next]_vars PROVE Counted'
  OBVIOUS
<1>1. ASSUME NEW s \in Senders, NEW m \in Messages, Send(s, m) PROVE Counted'
  BY <1>1, SendCounted
<1>2. ASSUME NEW s \in Senders, Return(s) PROVE Counted'
  BY <1>2, ReturnCounted
<1>3. ASSUME NEW s \in Senders, Cancel(s) PROVE Counted'
  <2>1. \A x \in Senders : task'[x] # Idle => task'[x] = task[x]
    BY <1>3 DEF Cancel, TypeOK
  <2> QED
    BY <1>3, <2>1 DEF Cancel, memory, observed, Counted, Handed
<1>4. CASE Restart
  BY <1>4, RestartCounted
<1>5. CASE Tick
  BY <1>5 DEF Tick, memory, observed, Counted, Handed
<1>6. CASE UNCHANGED vars
  BY <1>6 DEF vars, memory, observed, Counted, Handed
<1> QED
  BY <1>1, <1>2, <1>3, <1>4, <1>5, <1>6 DEF Next

LEMMA CountedSuffices == TypeOK /\ Counted => NeverCutEarly
<1> SUFFICES ASSUME TypeOK, Counted, NEW k \in Keys,
                    sentToday[k] >= DailyCap \/ k \in capNotified
             PROVE  Handed(k) >= DailyCap
  BY DEF NeverCutEarly
<1>1. Handed(k) \in Nat /\ sentToday[k] \in Nat /\ DailyCap \in Nat
  BY HandedType, TypeSplit, PolicyAssumption DEF PolicyAssumption, TypeOK, Counters
<1> QED
  BY <1>1 DEF Counted

\* A counter stands at the cap, or the notice is on record, only for a channel
\* that was handed daily_cap messages that day (dispatch.py:261-281 with
\* _snapshot and _restore): the cap may let too many messages through, as the
\* runs show, but under no interleaving, crash or disk error too few.
THEOREM CapNeverCutsEarly == Spec => []NeverCutEarly
<1>1. Init => TypeOK /\ Counted
  BY InitType, InitCounted
<1>2. TypeOK /\ Counted /\ [Next]_vars => (TypeOK /\ Counted)'
  BY StepType, StepCounted
<1> QED
  BY <1>1, <1>2, CountedSuffices, PTL DEF Spec

-----------------------------------------------------------------------------
(***************************************************************************)
(* A RESOLVED goes only to channels that saw the firing it closes          *)
(* (ResolvedOnlyToWitnesses), for any number of concurrent callers,        *)
(* cancellations, restarts and disk errors.                                *)
(*                                                                         *)
(* The channels travel: from the deliveries of a call to the mark, to the  *)
(* file, back from it, and into the frame of the call that sends the       *)
(* RESOLVED, while other calls replace the mark.  Witnessed says of each   *)
(* copy that every channel in it was handed a firing.                      *)
(***************************************************************************)
\* Mark u of fingerprint f names channels, and only channels that saw f fire.
Vouched(u, f) == u # NoMark => u.channels # {} /\ u.channels \subseteq firedTo[f]

\* What call g has yet to do with f: a RESOLVED under the policy goes only to
\* channels that saw f fire, and a firing will be remembered only for those.
Faithful(g, f) ==
    (g # Idle /\ g.m.fp = f) =>
        /\ IsResolved(g.m) /\ ~g.m.force => g.rest \subseteq firedTo[f]
        /\ ~IsResolved(g.m) => g.got \subseteq firedTo[f]
        /\ g.what = "message" /\ ~(IsResolved(g.m) /\ g.m.force) => g.at \in firedTo[f]

Witnessed ==
    \A f \in Fingerprints \ LegacyFps :
        /\ Vouched(lastSent[f], f)
        /\ Vouched(disk.last[f], f)
        /\ \A s \in Senders : Faithful(task[s], f)

-----------------------------------------------------------------------------
\* Channels are never forgotten by the observer.
LEMMA ObserveGrows ==
    ASSUME CallType, NEW m \in Messages, NEW now \in Time, NEW c \in Channels,
           Observe(m, now, c), NEW f \in Fingerprints
    PROVE  /\ firedTo[f] \subseteq firedTo'[f]
           /\ (~IsResolved(m) /\ m.fp = f) => c \in firedTo'[f]
<1>1. CASE IsResolved(m)
  BY <1>1 DEF Observe
<1>2. CASE ~IsResolved(m)
  BY <1>2, MessageType DEF Observe, CallType
<1> QED
  BY <1>1, <1>2

\* A RESOLVED is routed to the channels of a mark.
LEMMA RouteWitnessed ==
    ASSUME CallType, Witnessed, NEW m \in Messages,
           m.fp \notin LegacyFps, IsResolved(m), ~m.force
    PROVE  Route(lastSent, m) \subseteq firedTo[m.fp]
BY MessageType DEF Route, Forces, Targets, Witnessed, Vouched

\* What a call leaves in the marks names witnesses.
LEMMA MarkedWitnessed ==
    ASSUME CallType, Witnessed, NEW m \in Messages, NEW now \in Time,
           NEW got \in SUBSET Channels,
           (m.fp \notin LegacyFps /\ ~IsResolved(m)) => got \subseteq firedTo[m.fp],
           NEW f \in Fingerprints \ LegacyFps
    PROVE  Vouched(Marked(lastSent, m, now, got)[f], f)
<1>1. CASE got = {} \/ m.fp # f
  BY <1>1 DEF Marked, Witnessed, CallType, MarkTables
<1>2. CASE got # {} /\ m.fp = f
  BY <1>2, MessageType DEF Marked, Vouched, CallType, MarkTables
<1> QED
  BY <1>1, <1>2

LEMMA SaveWitnessed ==
    ASSUME Witnessed, UNCHANGED firedTo,
           NEW last \in MarkTables, NEW today \in Counters, NEW now \in Time,
           NEW f \in Fingerprints \ LegacyFps, Vouched(last[f], f),
           Save(last, today, now)
    PROVE  Vouched(lastSent[f], f)' /\ Vouched(disk.last[f], f)'
<1>1. CASE ~Durable
  BY <1>1 DEF Save, Witnessed, Vouched
<1>2. CASE Durable
  <2>1. /\ lastSent' = Forgotten(last, now)
        /\ disk' = disk \/ disk'.last = lastSent'
    BY <1>2 DEF Save, Snapshot
  <2>2. Vouched(Forgotten(last, now)[f], f)
    BY DEF Forgotten, Vouched
  <2> QED
    BY <2>1, <2>2 DEF Witnessed, Vouched
<1> QED
  BY <1>1, <1>2

LEMMA AdvanceWitnessed ==
    ASSUME CallType, Witnessed,
           NEW s \in Senders, NEW m \in Messages, NEW now \in Time,
           NEW rest \in SUBSET Channels, NEW got \in SUBSET Channels,
           NEW today \in Counters,
           (m.fp \notin LegacyFps /\ IsResolved(m) /\ ~m.force) => rest \subseteq firedTo[m.fp],
           (m.fp \notin LegacyFps /\ ~IsResolved(m)) => got \subseteq firedTo[m.fp],
           Advance(s, m, now, rest, got, today)
    PROVE  Witnessed'
<1> SUFFICES ASSUME NEW f \in Fingerprints \ LegacyFps
             PROVE  /\ Vouched(lastSent[f], f)'
                    /\ Vouched(disk.last[f], f)'
                    /\ \A x \in Senders : Faithful(task[x], f)'
  BY DEF Witnessed
<1>1. CASE Settle(s, m, now, got, today)
  <2>1. UNCHANGED firedTo /\ task' = [task EXCEPT ![s] = Idle]
    BY <1>1 DEF Settle, observed
  <2>2. Vouched(lastSent[f], f)' /\ Vouched(disk.last[f], f)'
    BY <1>1, <2>1, MarkedType, MarkedWitnessed, SaveWitnessed DEF Settle, CallType
  <2>3. \A x \in Senders : Faithful(task[x], f)'
    BY <2>1 DEF CallType, Witnessed, Faithful
  <2> QED
    BY <2>2, <2>3
<1>2. ASSUME NEW c \in rest, HandOver(s, m, now, c, rest, got, today)
      PROVE  /\ Vouched(lastSent[f], f)'
             /\ Vouched(disk.last[f], f)'
             /\ \A x \in Senders : Faithful(task[x], f)'
  <2>1. /\ firedTo[f] \subseteq firedTo'[f]
        /\ (~IsResolved(m) /\ m.fp = f) => c \in firedTo'[f]
    BY <1>2, ObserveGrows DEF HandOver
  <2>2. Vouched(lastSent[f], f)' /\ Vouched(disk.last[f], f)'
    BY <1>2, <2>1 DEF HandOver, Witnessed, Vouched
  <2>3. ASSUME NEW x \in Senders PROVE Faithful(task[x], f)'
    <3>1. CASE x = s
      <4>1. task'[s] = [m |-> m, now |-> now, at |-> c, what |-> "message",
                        read |-> today[Key(c, now)], rest |-> After(c, rest), got |-> got]
        BY <1>2 DEF HandOver, CallType
      <4>2. After(c, rest) \subseteq rest
        BY DEF After
      <4> QED
        BY <2>1, <3>1, <4>1, <4>2 DEF Faithful
    <3>2. CASE x # s
      <4>1. task'[x] = task[x] /\ Faithful(task[x], f)
        BY <1>2, <3>2 DEF HandOver, CallType, Witnessed
      <4> QED
        BY <2>1, <4>1 DEF Faithful
    <3> QED
      BY <3>1, <3>2
  <2> QED
    BY <2>2, <2>3
<1>3. ASSUME NEW c \in rest, NotifyCap(s, m, now, c, rest, got, today)
      PROVE  /\ Vouched(lastSent[f], f)'
             /\ Vouched(disk.last[f], f)'
             /\ \A x \in Senders : Faithful(task[x], f)'
  <2>1. UNCHANGED firedTo
    BY <1>3 DEF NotifyCap
  <2>2. Vouched(lastSent[f], f)' /\ Vouched(disk.last[f], f)'
    BY <1>3, <2>1 DEF NotifyCap, Witnessed, Vouched
  <2>3. ASSUME NEW x \in Senders PROVE Faithful(task[x], f)'
    <3>1. CASE x = s
      <4>1. task'[s] = [m |-> m, now |-> now, at |-> c, what |-> "notice",
                        read |-> today[Key(c, now)], rest |-> After(c, rest), got |-> got]
        BY <1>3 DEF NotifyCap, CallType
      <4>2. After(c, rest) \subseteq rest
        BY DEF After
      <4> QED
        BY <2>1, <3>1, <4>1, <4>2 DEF Faithful
    <3>2. CASE x # s
      <4>1. task'[x] = task[x] /\ Faithful(task[x], f)
        BY <1>3, <3>2 DEF NotifyCap, CallType, Witnessed
      <4> QED
        BY <2>1, <4>1 DEF Faithful
    <3> QED
      BY <3>1, <3>2
  <2> QED
    BY <2>2, <2>3
<1> QED
  BY <1>1, <1>2, <1>3 DEF Advance

-----------------------------------------------------------------------------
LEMMA InitWitnessed == Init => Witnessed
<1> SUFFICES ASSUME Init, NEW f \in Fingerprints \ LegacyFps
             PROVE  /\ lastSent[f] = NoMark
                    /\ disk.last[f] = NoMark
                    /\ \A s \in Senders : task[s] = Idle
  BY DEF Witnessed, Vouched, Faithful
<1>1. PICK old \in SUBSET LegacyFps : disk = IF Durable THEN LegacyDisk(old) ELSE EmptyDisk
  BY DEF Init
<1>2. disk.last[f] = NoMark
  BY <1>1 DEF LegacyDisk, EmptyDisk, Snapshot
<1> QED
  BY <1>2 DEF Init

LEMMA SendWitnessed ==
    ASSUME TypeOK, Witnessed, NEW s \in Senders, NEW m \in Messages, Send(s, m)
    PROVE  Witnessed'
<1>1. CASE Decision(lastSent, m, clock) = "sent"
  <2>1. Advance(s, m, clock, Route(lastSent, m), {}, sentToday)
    BY <1>1 DEF Send
  <2>2. /\ Route(lastSent, m) \in SUBSET Channels
        /\ clock \in Time /\ sentToday \in Counters
    BY RouteType DEF TypeOK
  <2>3. (m.fp \notin LegacyFps /\ IsResolved(m) /\ ~m.force)
            => Route(lastSent, m) \subseteq firedTo[m.fp]
    BY RouteWitnessed, TypeSplit
  <2> QED
    BY <2>1, <2>2, <2>3, AdvanceWitnessed, TypeSplit
<1>2. CASE Decision(lastSent, m, clock) # "sent"
  BY <1>2 DEF Send, memory, observed, Witnessed, Vouched, Faithful
<1> QED
  BY <1>1, <1>2

\* The channel that answered joins the deliveries: it saw the firing.
LEMMA ReturnWitnessed ==
    ASSUME TypeOK, Witnessed, NEW s \in Senders, Return(s)
    PROVE  Witnessed'
<1> DEFINE g == task[s]
           counted == [sentToday EXCEPT ![Key(g.at, g.now)] = g.read + 1]
<1>1. g \in Frames /\ g # Idle
  BY DEF Return, TypeOK
<1>2. /\ g.m \in Messages /\ g.now \in Time /\ g.at \in Channels /\ g.read \in Nat
      /\ g.rest \in SUBSET Channels
      /\ g.got \in SUBSET Channels /\ g.got \cup {g.at} \in SUBSET Channels
  BY <1>1 DEF Frames
<1>3. counted \in Counters /\ sentToday \in Counters
  BY <1>2, KeyType DEF TypeOK, Counters
<1>4. g.m.fp \notin LegacyFps => Faithful(g, g.m.fp)
  BY <1>2, MessageType DEF Witnessed
<1>5. CASE g.what = "message"
  <2>1. Advance(s, g.m, g.now, g.rest, g.got \cup {g.at}, counted)
    BY <1>5 DEF Return
  <2>2. /\ (g.m.fp \notin LegacyFps /\ IsResolved(g.m) /\ ~g.m.force)
              => g.rest \subseteq firedTo[g.m.fp]
        /\ (g.m.fp \notin LegacyFps /\ ~IsResolved(g.m))
              => g.got \cup {g.at} \subseteq firedTo[g.m.fp]
    BY <1>1, <1>4, <1>5 DEF Faithful
  <2> HIDE DEF g, counted
  <2> QED
    BY <1>2, <1>3, <2>1, <2>2, AdvanceWitnessed, TypeSplit
<1>6. CASE g.what # "message"
  <2>1. Advance(s, g.m, g.now, g.rest, g.got, sentToday)
    BY <1>6 DEF Return
  <2>2. /\ (g.m.fp \notin LegacyFps /\ IsResolved(g.m) /\ ~g.m.force)
              => g.rest \subseteq firedTo[g.m.fp]
        /\ (g.m.fp \notin LegacyFps /\ ~IsResolved(g.m))
              => g.got \subseteq firedTo[g.m.fp]
    BY <1>1, <1>4 DEF Faithful
  <2> HIDE DEF g
  <2> QED
    BY <1>2, <1>3, <2>1, <2>2, AdvanceWitnessed, TypeSplit
<1> QED
  BY <1>5, <1>6

LEMMA StepWitnessed == TypeOK /\ Witnessed /\ [Next]_vars => Witnessed'
<1> SUFFICES ASSUME TypeOK, Witnessed, [Next]_vars PROVE Witnessed'
  OBVIOUS
<1>1. ASSUME NEW s \in Senders, NEW m \in Messages, Send(s, m) PROVE Witnessed'
  BY <1>1, SendWitnessed
<1>2. ASSUME NEW s \in Senders, Return(s) PROVE Witnessed'
  BY <1>2, ReturnWitnessed
<1>3. ASSUME NEW s \in Senders, Cancel(s) PROVE Witnessed'
  <2>1. \A x \in Senders : task'[x] # Idle => task'[x] = task[x]
    BY <1>3 DEF Cancel, TypeOK
  <2> QED
    BY <1>3, <2>1 DEF Cancel, memory, observed, Witnessed, Vouched, Faithful
<1>4. CASE Restart
  <2>1. PICK found \in {disk, EmptyDisk} : lastSent' = found.last
    BY <1>4 DEF Restart
  <2>2. \A f \in Fingerprints \ LegacyFps : Vouched(found.last[f], f)
    BY <2>1 DEF Witnessed, Vouched, EmptyDisk, Snapshot
  <2>3. \A s \in Senders : task'[s] = Idle
    BY <1>4 DEF Restart
  <2> QED
    BY <1>4, <2>1, <2>2, <2>3 DEF Restart, observed, Witnessed, Vouched, Faithful
<1>5. CASE Tick
  BY <1>5 DEF Tick, memory, observed, Witnessed, Vouched, Faithful
<1>6. CASE UNCHANGED vars
  BY <1>6 DEF vars, memory, observed, Witnessed, Vouched, Faithful
<1> QED
  BY <1>1, <1>2, <1>3, <1>4, <1>5, <1>6 DEF Next

\* A RESOLVED under the policy is handed only to channels that were handed a
\* firing of its fingerprint (dispatch.py:192-198, 246-250), whatever calls
\* replaced or erased the mark meanwhile and whatever file the process
\* started from, unless that file did not say.
THEOREM ResolvedFollowsFiring == Spec => []ResolvedOnlyToWitnesses
<1>1. Init => TypeOK /\ Witnessed
  BY InitType, InitWitnessed
<1>2. TypeOK /\ Witnessed /\ [Next]_vars => (TypeOK /\ Witnessed)'
  BY StepType, StepWitnessed
<1>3. TypeOK /\ Witnessed => ResolvedOnlyToWitnesses
  <2> SUFFICES ASSUME TypeOK, Witnessed, NEW s \in Senders, task[s] # Idle,
                      task[s].what = "message", IsResolved(task[s].m),
                      ~task[s].m.force, task[s].m.fp \notin LegacyFps
               PROVE  task[s].at \in firedTo[task[s].m.fp]
    BY DEF ResolvedOnlyToWitnesses
  <2>1. task[s].m.fp \in Fingerprints \ LegacyFps
    BY MessageType DEF TypeOK, Frames
  <2> QED
    BY <2>1 DEF Witnessed, Faithful
<1> QED
  BY <1>1, <1>2, <1>3, PTL DEF Spec

-----------------------------------------------------------------------------
(***************************************************************************)
(* What a call is about to do.  The loop over the channels goes on with    *)
(* the same counters and deliveries that the frame will leave when its     *)
(* await ends, so an invariant of a suspended call is stated of those.     *)
(***************************************************************************)
InMemory == Snapshot(lastSent, sentToday, capNotified)

\* The deliveries of a frame, and the counters, once its await is over.
Reached(g) == IF g.what = "message" THEN g.got \cup {g.at} ELSE g.got
Ahead(g) ==
    IF g.what = "message" THEN [sentToday EXCEPT ![Key(g.at, g.now)] = g.read + 1]
    ELSE sentToday

\* The channels of `rest' before c are passed over: at their cap, and notified.
PassedOver(m, now, c, today) == AtCap(m, now, c, today) /\ Key(c, now) \in capNotified

LEMMA AdvanceSplit ==
    ASSUME NEW s, NEW m, NEW now, NEW rest, NEW got, NEW today,
           rest \in SUBSET Channels,
           Advance(s, m, now, rest, got, today)
    PROVE  \/ /\ \A x \in rest : PassedOver(m, now, x, today)
              /\ Settle(s, m, now, got, today)
           \/ \E c \in rest :
                 /\ \A x \in rest : x < c => PassedOver(m, now, x, today)
                 /\ ~PassedOver(m, now, c, today)
                 /\ sentToday' = today
                 /\ \/ AtCap(m, now, c, today) /\ NotifyCap(s, m, now, c, rest, got, today)
                    \/ ~AtCap(m, now, c, today) /\ HandOver(s, m, now, c, rest, got, today)
<1> DEFINE todo == {c \in rest : ~PassedOver(m, now, c, today)}
<1>1. CASE todo = {} /\ Settle(s, m, now, got, today)
  BY <1>1
<1>2. ASSUME NEW c \in todo, \A x \in todo : c <= x, sentToday' = today,
             \/ AtCap(m, now, c, today) /\ NotifyCap(s, m, now, c, rest, got, today)
             \/ ~AtCap(m, now, c, today) /\ HandOver(s, m, now, c, rest, got, today)
      PROVE  \E x \in rest :
                 /\ \A y \in rest : y < x => PassedOver(m, now, y, today)
                 /\ ~PassedOver(m, now, x, today)
                 /\ sentToday' = today
                 /\ \/ AtCap(m, now, x, today) /\ NotifyCap(s, m, now, x, rest, got, today)
                    \/ ~AtCap(m, now, x, today) /\ HandOver(s, m, now, x, rest, got, today)
  <2>1. \A y \in rest : y < c => PassedOver(m, now, y, today)
    BY <1>2, PolicyAssumption DEF Channels, PolicyAssumption
  <2> QED
    BY <1>2, <2>1
<1> QED
  BY <1>1, <1>2 DEF Advance, PassedOver

\* The frame a call suspends in.
LEMMA Suspends ==
    ASSUME CallType, NEW s \in Senders, NEW g \in Frames, task' = [task EXCEPT ![s] = g]
    PROVE  task'[s] = g /\ task'[s] # Idle
BY DispatcherAssumption DEF DispatcherAssumption, CallType

LEMMA NoticeSuspends ==
    ASSUME CallType, NEW s \in Senders, NEW m \in Messages, NEW now \in Time,
           NEW rest \in SUBSET Channels, NEW got \in SUBSET Channels,
           NEW today \in Counters, NEW c \in rest, sentToday' = today,
           NotifyCap(s, m, now, c, rest, got, today)
    PROVE  /\ task'[s] = [m |-> m, now |-> now, at |-> c, what |-> "notice",
                          read |-> today[Key(c, now)], rest |-> After(c, rest), got |-> got]
           /\ task'[s] # Idle
           /\ Reached(task'[s]) = got
           /\ Ahead(task[s])' = today
<1> DEFINE g == [m |-> m, now |-> now, at |-> c, what |-> "notice",
                 read |-> today[Key(c, now)], rest |-> After(c, rest), got |-> got]
<1>1. Key(c, now) \in Keys /\ c \in Channels
  BY KeyType
<1>2. g \in Frames
  BY <1>1 DEF Frames, After, Counters
<1>3. task'[s] = g /\ task'[s] # Idle
  BY <1>2, Suspends DEF NotifyCap
<1> QED
  BY <1>3 DEF Reached, Ahead

LEMMA HandOverSuspends ==
    ASSUME CallType, NEW s \in Senders, NEW m \in Messages, NEW now \in Time,
           NEW rest \in SUBSET Channels, NEW got \in SUBSET Channels,
           NEW today \in Counters, NEW c \in rest, sentToday' = today,
           HandOver(s, m, now, c, rest, got, today)
    PROVE  /\ task'[s] = [m |-> m, now |-> now, at |-> c, what |-> "message",
                          read |-> today[Key(c, now)], rest |-> After(c, rest), got |-> got]
           /\ task'[s] # Idle
           /\ Reached(task'[s]) = got \cup {c}
           /\ Ahead(task[s])' = [today EXCEPT ![Key(c, now)] = today[Key(c, now)] + 1]
<1> DEFINE g == [m |-> m, now |-> now, at |-> c, what |-> "message",
                 read |-> today[Key(c, now)], rest |-> After(c, rest), got |-> got]
<1>1. Key(c, now) \in Keys /\ c \in Channels
  BY KeyType
<1>2. g \in Frames
  BY <1>1 DEF Frames, After, Counters
<1>3. task'[s] = g /\ task'[s] # Idle
  BY <1>2, Suspends DEF HandOver
<1>4. Reached(task'[s]) = got \cup {c}
  BY <1>3 DEF Reached
<1>5. /\ task'[s].what = "message" /\ task'[s].at = c /\ task'[s].now = now
      /\ task'[s].read = today[Key(c, now)]
  BY <1>3
<1>6. Ahead(task[s])' = [sentToday' EXCEPT ![Key(task'[s].at, task'[s].now)]
                                          = task'[s].read + 1]
  BY <1>5 DEF Ahead, Key
<1> QED
  BY <1>3, <1>4, <1>5, <1>6

LEMMA FrameParts ==
    ASSUME NEW g \in Frames
    PROVE  /\ g.m \in Messages /\ g.now \in Time /\ g.at \in Channels /\ g.read \in Nat
           /\ g.rest \in SUBSET Channels
           /\ g.got \in SUBSET Channels /\ Reached(g) \in SUBSET Channels
BY DEF Frames, Reached

LEMMA AheadType ==
    ASSUME sentToday \in Counters, NEW g \in Frames
    PROVE  Ahead(g) \in Counters
BY FrameParts, KeyType DEF Ahead, Counters

\* An await that ends goes on with the loop.
LEMMA ReturnAdvances ==
    ASSUME NEW s \in Senders, Return(s)
    PROVE  /\ Advance(s, task[s].m, task[s].now, task[s].rest, Reached(task[s]), Ahead(task[s]))
           /\ task[s] # Idle
           /\ UNCHANGED <<clock, bounds>>
<1>1. CASE task[s].what = "message"
  BY <1>1 DEF Return, Reached, Ahead
<1>2. CASE task[s].what # "message"
  BY <1>2 DEF Return, Reached, Ahead
<1> QED
  BY <1>1, <1>2

\* A call begins with the loop, or changes nothing but its outcome.
LEMMA SendAdvances ==
    ASSUME NEW s \in Senders, NEW m \in Messages, Send(s, m)
    PROVE  /\ task[s] = Idle
           /\ UNCHANGED <<clock, restarts, cancels, broken>>
           /\ \/ /\ Decision(lastSent, m, clock) = "sent"
                 /\ Advance(s, m, clock, Route(lastSent, m), {}, sentToday)
              \/ UNCHANGED <<memory, task, disk, observed>>
BY DEF Send

LEMMA DiskIsItsParts ==
    ASSUME NEW d \in Snapshots
    PROVE  d = Snapshot(d.last, d.today, d.notified)
BY DEF Snapshots, Snapshot

-----------------------------------------------------------------------------
(***************************************************************************)
(* With no call suspended the file equals memory (Durability), for any     *)
(* number of concurrent callers: whichever call ends last saves it all.    *)
(***************************************************************************)
LEMMA SaveDurable ==
    ASSUME Durable, ~DiskMayFail, NEW last, NEW today, NEW now, Save(last, today, now)
    PROVE  disk' = InMemory'
BY DEF Save, InMemory

\* A call that ends has written what is in memory; one that is suspended is
\* not over.
LEMMA AdvanceDurable ==
    ASSUME CallType, Durable, ~DiskMayFail,
           NEW s \in Senders, NEW m \in Messages, NEW now \in Time,
           NEW rest \in SUBSET Channels, NEW got \in SUBSET Channels,
           NEW today \in Counters,
           Advance(s, m, now, rest, got, today)
    PROVE  disk' = InMemory' \/ task'[s] # Idle
<1>1. CASE Settle(s, m, now, got, today)
  BY <1>1, SaveDurable DEF Settle
<1>2. ASSUME NEW c \in rest, sentToday' = today, NotifyCap(s, m, now, c, rest, got, today)
      PROVE  task'[s] # Idle
  BY <1>2, NoticeSuspends
<1>3. ASSUME NEW c \in rest, sentToday' = today, HandOver(s, m, now, c, rest, got, today)
      PROVE  task'[s] # Idle
  BY <1>3, HandOverSuspends
<1> QED
  BY <1>1, <1>2, <1>3, AdvanceSplit

LEMMA InitDurable == Init => disk = InMemory
<1> SUFFICES ASSUME Init PROVE disk = InMemory
  OBVIOUS
<1>1. disk \in Snapshots
  BY EmptyType, LegacyType DEF Init
<1> QED
  BY <1>1, DiskIsItsParts DEF Init, InMemory

\* A process that starts with a sound disk knows what the file says.
LEMMA RestartLoads ==
    ASSUME TypeOK, Durable, ~DiskMayFail, Restart
    PROVE  /\ lastSent' = disk.last /\ sentToday' = disk.today
           /\ capNotified' = disk.notified /\ disk' = disk
           /\ disk' = InMemory'
<1>1. lastSent' = disk.last /\ sentToday' = disk.today /\ capNotified' = disk.notified
  BY DEF Restart
<1>2. disk' = disk
  BY DEF Restart
<1>3. disk' = InMemory'
  BY <1>1, <1>2, DiskIsItsParts DEF InMemory, TypeOK
<1> QED
  BY <1>1, <1>2, <1>3

LEMMA StepDurable == TypeOK /\ Durability /\ [Next]_vars => Durability'
<1> SUFFICES ASSUME TypeOK, Durability, [Next]_vars,
                    Durable, ~DiskMayFail, Quiet', cancels' = 0
             PROVE  disk' = InMemory'
  BY DEF Durability, InMemory
<1>1. ASSUME NEW s \in Senders, NEW m \in Messages, Send(s, m) PROVE disk' = InMemory'
  <2>1. CASE Advance(s, m, clock, Route(lastSent, m), {}, sentToday)
    <3>1. /\ Route(lastSent, m) \in SUBSET Channels
          /\ clock \in Time /\ sentToday \in Counters /\ CallType
      BY RouteType, TypeSplit DEF TypeOK
    <3>2. task'[s] = Idle
      BY DEF Quiet
    <3> QED
      BY <2>1, <3>1, <3>2, AdvanceDurable
  <2>2. CASE UNCHANGED <<memory, task, disk, observed>>
    BY <1>1, <2>2, SendAdvances DEF Durability, InMemory, memory, Quiet
  <2> QED
    BY <1>1, <2>1, <2>2, SendAdvances
<1>2. ASSUME NEW s \in Senders, Return(s) PROVE disk' = InMemory'
  <2>1. task[s] \in Frames /\ sentToday \in Counters /\ CallType
    BY <1>2, ReturnAdvances, TypeSplit DEF TypeOK
  <2>2. task'[s] = Idle
    BY DEF Quiet
  <2> QED
    BY <1>2, <2>1, <2>2, ReturnAdvances, FrameParts, AheadType, AdvanceDurable
<1>3. ASSUME NEW s \in Senders, Cancel(s) PROVE FALSE
  BY <1>3 DEF Cancel, TypeOK
<1>4. CASE Restart
  BY <1>4, RestartLoads
<1>5. CASE Tick
  BY <1>5 DEF Tick, Durability, InMemory, memory, Quiet, bounds
<1>6. CASE UNCHANGED vars
  BY <1>6 DEF vars, Durability, InMemory, memory, Quiet, bounds
<1> QED
  BY <1>1, <1>2, <1>3, <1>4, <1>5, <1>6 DEF Next

\* When no call is suspended the file says what the memory says
\* (dispatch.py:251, also when every channel was at its cap), whatever calls
\* overlapped and wherever the process was restarted.
THEOREM FileIsMemory == Spec => []Durability
<1>1. Init => TypeOK /\ Durability
  BY InitType, InitDurable DEF Durability, InMemory
<1>2. TypeOK /\ Durability /\ [Next]_vars => (TypeOK /\ Durability)'
  BY StepType, StepDurable
<1> QED
  BY <1>1, <1>2, PTL DEF Spec

-----------------------------------------------------------------------------
(***************************************************************************)
(* With one caller and a disk that does not fail the daily cap holds       *)
(* (CapHolds), for any number of restarts and cancellations.               *)
(*                                                                         *)
(* Accounted bounds what a channel was handed by every copy of its         *)
(* counter.  The one in memory misses the message being awaited; the one   *)
(* on file misses what the call under way delivered, at most one message   *)
(* for each channel it is past.  A call that is lost leaves those misses   *)
(* behind, and `broken' counts it.                                         *)
(***************************************************************************)
OneCaller == \A s \in Senders, x \in Senders : s = x
SoundDisk == Durable /\ ~DiskMayFail

Recounted(k, today, notified, more) ==
    /\ Handed(k) <= today[k] + broken + more
    /\ notices[k] <= (IF k \in notified THEN 1 ELSE 0) + broken + more

Unseen(k) == Handed(k) = 0 /\ notices[k] = 0

\* What holds when the loop of a call over the channels goes on with `rest'.
LoopAccounted(now, rest, today) ==
    /\ DayOf[now] <= DayOf[clock]
    /\ \A k \in Keys : k[2] > DayOf[now] => Unseen(k)
    /\ \A k \in Keys : k[2] = DayOf[now] =>
          /\ Recounted(k, today, capNotified, 0)
          /\ Recounted(k, disk.today, disk.notified, IF k[1] \in rest THEN 0 ELSE 1)

BetweenCalls ==
    /\ \A k \in Keys : k[2] > DayOf[clock] => Unseen(k)
    /\ \A k \in Keys : k[2] = DayOf[clock] =>
          /\ Recounted(k, sentToday, capNotified, 0)
          /\ Recounted(k, disk.today, disk.notified, 0)

InCall(g) ==
    /\ LoopAccounted(g.now, g.rest, Ahead(g))
    /\ g.what = "message" => g.read = sentToday[Key(g.at, g.now)]

Accounted ==
    /\ CapHolds
    /\ Quiet => BetweenCalls
    /\ \A s \in Senders : task[s] # Idle => InCall(task[s])

-----------------------------------------------------------------------------
\* The observers of a key are numbers; the date of a key is one.
LEMMA CountsAreNumbers ==
    ASSUME TypeOK, NEW k \in Keys
    PROVE  /\ Handed(k) \in Nat /\ regular[k] \in Nat /\ notices[k] \in Nat
           /\ regular[k] <= Handed(k)
           /\ sentToday[k] \in Nat /\ disk.today[k] \in Nat
           /\ broken \in Nat /\ DailyCap \in Nat
BY TypeSplit, PolicyAssumption DEF TypeOK, Counters, Handed, Snapshots, PolicyAssumption

LEMMA DatesAreNumbers ==
    ASSUME NEW t \in Time
    PROVE  DayOf[t] \in Nat
BY PolicyAssumption DEF PolicyAssumption

LEMMA KeyParts ==
    ASSUME NEW k \in Keys
    PROVE  /\ k[1] \in Channels /\ k[2] \in Nat
           /\ \A now \in Time : k[2] = DayOf[now] => k = Key(k[1], now)
<1>1. PICK c \in Channels, d \in Days : k = <<c, d>>
  BY DEF Keys
<1>2. d \in Nat
  BY DatesAreNumbers DEF Days
<1> QED
  BY <1>1, <1>2 DEF Key

\* With one caller, a task is the only one.
LEMMA OnlyTask ==
    ASSUME OneCaller, NEW s \in Senders
    PROVE  /\ Quiet <=> task[s] = Idle
           /\ \A x \in Senders : x = s
BY DEF OneCaller, Quiet

LEMMA SettleAccounted ==
    ASSUME OneCaller, SoundDisk, TypeOK, CapHolds, UNCHANGED <<clock, broken>>,
           NEW s \in Senders, NEW m \in Messages, NEW now \in Time,
           NEW rest \in SUBSET Channels, NEW got \in SUBSET Channels,
           NEW today \in Counters,
           LoopAccounted(now, rest, today),
           Settle(s, m, now, got, today)
    PROVE  Accounted'
<1>1. /\ task' = [task EXCEPT ![s] = Idle] /\ UNCHANGED observed
      /\ sentToday' = OnlyToday(today, now)
      /\ capNotified' = TodaysKeys(capNotified, now)
      /\ disk'.today = sentToday' /\ disk'.notified = capNotified'
  BY DEF Settle, Save, SoundDisk, Snapshot
<1>2. \A x \in Senders : task'[x] = Idle
  BY <1>1, OnlyTask DEF TypeOK
<1>3. CapHolds'
  BY <1>1 DEF CapHolds, observed
<1>4. \A k \in Keys : Handed(k)' = Handed(k) /\ notices'[k] = notices[k]
  BY <1>1 DEF observed, Handed
<1>5. ASSUME NEW k \in Keys, k[2] > DayOf[clock] PROVE Unseen(k)'
  <2>1. k[2] > DayOf[now]
    BY <1>5, KeyParts, DatesAreNumbers DEF LoopAccounted, TypeOK
  <2> QED
    BY <1>4, <2>1 DEF LoopAccounted, Unseen, Handed
<1>6. ASSUME NEW k \in Keys, k[2] = DayOf[clock]
      PROVE  Recounted(k, sentToday, capNotified, 0)'
  <2>1. /\ Handed(k) \in Nat /\ notices[k] \in Nat /\ broken \in Nat /\ today[k] \in Nat
        /\ sentToday'[k] \in Nat
    <3>1. OnlyToday(today, now)[k] \in Nat /\ today[k] \in Nat
      BY DEF OnlyToday, Counters
    <3> QED
      BY <1>1, <3>1, CountsAreNumbers
  <2>2. CASE k[2] = DayOf[now]
    <3>1. Recounted(k, today, capNotified, 0)
      BY <2>2 DEF LoopAccounted
    <3>2. sentToday'[k] = today[k] /\ (k \in capNotified' <=> k \in capNotified)
      BY <1>1, <2>2 DEF OnlyToday, TodaysKeys
    <3> QED
      BY <1>4, <2>1, <3>1, <3>2 DEF Recounted, Handed
  <2>3. CASE k[2] # DayOf[now]
    <3>1. k[2] > DayOf[now]
      BY <1>6, <2>3, KeyParts, DatesAreNumbers DEF LoopAccounted, TypeOK
    <3>2. Handed(k) = 0 /\ notices[k] = 0
      BY <3>1 DEF LoopAccounted, Unseen
    <3> QED
      BY <1>4, <2>1, <3>2 DEF Recounted, Handed
  <2> QED
    BY <2>2, <2>3
<1>7. BetweenCalls'
  BY <1>1, <1>5, <1>6 DEF BetweenCalls, Recounted
<1> QED
  BY <1>2, <1>3, <1>7 DEF Accounted

LEMMA NotifyAccounted ==
    ASSUME OneCaller, SoundDisk, TypeOK, CapHolds, UNCHANGED <<clock, broken>>,
           NEW s \in Senders, NEW m \in Messages, NEW now \in Time,
           NEW rest \in SUBSET Channels, NEW got \in SUBSET Channels,
           NEW today \in Counters, NEW c \in rest,
           LoopAccounted(now, rest, today), sentToday' = today,
           Key(c, now) \notin capNotified,
           NotifyCap(s, m, now, c, rest, got, today)
    PROVE  Accounted'
<1> DEFINE key == Key(c, now)
<1>0. CallType
  BY TypeSplit
<1>1. /\ task'[s] = [m |-> m, now |-> now, at |-> c, what |-> "notice",
                     read |-> today[key], rest |-> After(c, rest), got |-> got]
      /\ task'[s] # Idle
      /\ Ahead(task[s])' = today
  BY <1>0, NoticeSuspends
<1>2. /\ capNotified' = capNotified \cup {key}
      /\ notices' = [notices EXCEPT ![key] = @ + 1]
      /\ UNCHANGED <<disk, regular, forced>>
  BY DEF NotifyCap
<1>3. c \in Channels /\ key \in Keys /\ key[1] = c /\ key[2] = DayOf[now]
  BY KeyType DEF Key
<1> HIDE DEF key
<1>4. \A k \in Keys : /\ Handed(k)' = Handed(k)
                      /\ notices'[k] = IF k = key THEN notices[k] + 1 ELSE notices[k]
  BY <1>2, <1>3 DEF Handed, TypeOK, Counters
<1>5. notices[key] <= broken
  BY <1>3, CountsAreNumbers DEF LoopAccounted, Recounted, key
<1>6. CapHolds'
  BY <1>2, <1>4, <1>5, CountsAreNumbers DEF CapHolds
<1>7. \A k \in Keys : k[2] > DayOf[now] => Unseen(k)'
  <2> SUFFICES ASSUME NEW k \in Keys, k[2] > DayOf[now] PROVE Unseen(k)'
    OBVIOUS
  <2>1. k # key
    BY <1>3, DatesAreNumbers
  <2> QED
    BY <1>4, <2>1 DEF LoopAccounted, Unseen, Handed
<1>8. ASSUME NEW k \in Keys, k[2] = DayOf[now]
      PROVE  /\ (Handed(k) <= today[k] + broken + 0)'
             /\ notices'[k] <= (IF k \in capNotified' THEN 1 ELSE 0) + broken
  <2>1. Recounted(k, today, capNotified, 0)
    BY <1>8 DEF LoopAccounted
  <2> QED
    BY <1>2, <1>4, <1>5, <2>1, CountsAreNumbers DEF Recounted, Handed
<1>9. ASSUME NEW k \in Keys, k[2] = DayOf[now]
      PROVE  Recounted(k, disk.today, disk.notified,
                       IF k[1] \in After(c, rest) THEN 0 ELSE 1)'
  <2>1. Recounted(k, disk.today, disk.notified, IF k[1] \in rest THEN 0 ELSE 1)
    BY <1>9 DEF LoopAccounted
  <2>2. c \notin After(c, rest) /\ After(c, rest) \subseteq rest
    BY <1>3, PolicyAssumption DEF After, Channels, PolicyAssumption
  <2>3. CASE k = key
    BY <1>2, <1>3, <1>4, <2>1, <2>2, <2>3, CountsAreNumbers DEF Recounted, Handed
  <2>4. CASE k # key
    BY <1>2, <1>4, <2>1, <2>2, <2>4, CountsAreNumbers DEF Recounted, Handed
  <2> QED
    BY <2>3, <2>4
<1>10. InCall(task[s])'
  <2>1. /\ task'[s].now = now /\ task'[s].rest = After(c, rest) /\ task'[s].what # "message"
        /\ DayOf[now] <= DayOf[clock']
    BY <1>1 DEF LoopAccounted
  <2>2. LoopAccounted(task[s].now, task[s].rest, Ahead(task[s]))'
    <3>1. ASSUME NEW k \in Keys, k[2] = DayOf[now]
          PROVE  /\ Recounted(k, Ahead(task[s]), capNotified, 0)'
                 /\ Recounted(k, disk.today, disk.notified,
                              IF k[1] \in task[s].rest THEN 0 ELSE 1)'
      <4>1. Recounted(k, Ahead(task[s]), capNotified, 0)'
        BY <1>1, <1>8, <3>1, CountsAreNumbers DEF Recounted
      <4>2. Recounted(k, disk.today, disk.notified,
                      IF k[1] \in task[s].rest THEN 0 ELSE 1)'
        BY <1>9, <2>1, <3>1
      <4> QED
        BY <4>1, <4>2
    <3> QED
      BY <1>7, <2>1, <3>1 DEF LoopAccounted
  <2> QED
    BY <2>1, <2>2 DEF InCall
<1> QED
  BY <1>1, <1>6, <1>10, OnlyTask DEF Accounted, Quiet

LEMMA HandOverAccounted ==
    ASSUME OneCaller, SoundDisk, TypeOK, CapHolds, UNCHANGED <<clock, broken>>,
           NEW s \in Senders, NEW m \in Messages, NEW now \in Time,
           NEW rest \in SUBSET Channels, NEW got \in SUBSET Channels,
           NEW today \in Counters, NEW c \in rest,
           LoopAccounted(now, rest, today), sentToday' = today,
           ~AtCap(m, now, c, today),
           HandOver(s, m, now, c, rest, got, today)
    PROVE  Accounted'
<1> DEFINE key == Key(c, now)
           ahead == [today EXCEPT ![key] = today[key] + 1]
<1>0. CallType
  BY TypeSplit
<1>1. /\ task'[s] = [m |-> m, now |-> now, at |-> c, what |-> "message",
                     read |-> today[key], rest |-> After(c, rest), got |-> got]
      /\ task'[s] # Idle
      /\ Ahead(task[s])' = ahead
  BY <1>0, HandOverSuspends
<1>2. /\ UNCHANGED <<disk, capNotified, notices>>
      /\ Observe(m, now, c)
  BY DEF HandOver, Observe
<1>3. c \in Channels /\ key \in Keys /\ key[1] = c /\ key[2] = DayOf[now]
  BY KeyType DEF Key
<1>4. ~m.force => today[key] < DailyCap
  BY <1>3, CountsAreNumbers DEF AtCap, Counters
<1>5. today[key] \in Nat /\ \A k \in Keys : ahead[k] = IF k = key THEN today[k] + 1 ELSE today[k]
  BY <1>3 DEF Counters
<1> HIDE DEF key, ahead
<1>6. \A k \in Keys : Handed(k)' = IF k = key THEN Handed(k) + 1 ELSE Handed(k)
  BY <1>2, <1>3, ObserveHanded, TypeSplit DEF key
<1>7. /\ m.force => regular' = regular
      /\ ~m.force => regular' = [regular EXCEPT ![key] = @ + 1]
  BY <1>2 DEF Observe, key
<1>8. Handed(key) <= today[key] + broken
  BY <1>3, <1>5, CountsAreNumbers DEF LoopAccounted, Recounted
<1>9. CapHolds'
  <2>1. ASSUME NEW k \in Keys PROVE regular'[k] <= DailyCap + broken
    <3>1. regular[k] <= DailyCap + broken
      BY DEF CapHolds
    <3>2. CASE k = key /\ ~m.force
      <4>1. regular'[k] = regular[key] + 1
        BY <1>3, <1>7, <3>2 DEF TypeOK, Counters
      <4> QED
        BY <1>3, <1>4, <1>5, <1>8, <3>2, <4>1, CountsAreNumbers
    <3>3. CASE k # key \/ m.force
      <4>1. regular'[k] = regular[k]
        BY <1>3, <1>7, <3>3 DEF TypeOK, Counters
      <4> QED
        BY <3>1, <4>1
    <3> QED
      BY <3>2, <3>3
  <2> QED
    BY <1>2, <2>1 DEF CapHolds
<1>10. \A k \in Keys : k[2] > DayOf[now] => Unseen(k)'
  <2> SUFFICES ASSUME NEW k \in Keys, k[2] > DayOf[now] PROVE Unseen(k)'
    OBVIOUS
  <2>1. k # key
    BY <1>3, DatesAreNumbers
  <2> QED
    BY <1>2, <1>6, <2>1 DEF LoopAccounted, Unseen, Handed
<1>11. ASSUME NEW k \in Keys, k[2] = DayOf[now]
       PROVE  Recounted(k, ahead, capNotified, 0)'
  <2>1. Recounted(k, today, capNotified, 0)
    BY <1>11 DEF LoopAccounted
  <2>2. ahead'[k] = ahead[k] /\ today[k] \in Nat
    BY <1>1 DEF ahead, key, Key, Counters
  <2>3. Handed(k)' <= ahead[k] + broken
    BY <1>5, <1>6, <2>1, <2>2, CountsAreNumbers DEF Recounted
  <2> QED
    BY <1>2, <1>5, <2>1, <2>2, <2>3, CountsAreNumbers DEF Recounted
<1>12. ASSUME NEW k \in Keys, k[2] = DayOf[now]
       PROVE  Recounted(k, disk.today, disk.notified,
                        IF k[1] \in After(c, rest) THEN 0 ELSE 1)'
  <2>1. Recounted(k, disk.today, disk.notified, IF k[1] \in rest THEN 0 ELSE 1)
    BY <1>12 DEF LoopAccounted
  <2>2. c \notin After(c, rest) /\ After(c, rest) \subseteq rest
    BY <1>3, PolicyAssumption DEF After, Channels, PolicyAssumption
  <2>3. CASE k = key
    BY <1>2, <1>3, <1>6, <2>1, <2>2, <2>3, CountsAreNumbers DEF Recounted, Handed
  <2>4. CASE k # key
    BY <1>2, <1>6, <2>1, <2>2, <2>4, CountsAreNumbers DEF Recounted, Handed
  <2> QED
    BY <2>3, <2>4
<1>13. InCall(task[s])'
  <2>1. /\ task'[s].now = now /\ task'[s].rest = After(c, rest) /\ task'[s].at = c
        /\ task'[s].read = today[key]
        /\ DayOf[now] <= DayOf[clock']
    BY <1>1 DEF LoopAccounted
  <2>2. ASSUME NEW k \in Keys, k[2] = DayOf[now]
        PROVE  /\ Recounted(k, Ahead(task[s]), capNotified, 0)'
               /\ Recounted(k, disk.today, disk.notified,
                            IF k[1] \in task[s].rest THEN 0 ELSE 1)'
    <3>1. Recounted(k, Ahead(task[s]), capNotified, 0)'
      BY <1>1, <1>11, <2>2 DEF Recounted, ahead, key, Key
    <3>2. Recounted(k, disk.today, disk.notified,
                    IF k[1] \in task[s].rest THEN 0 ELSE 1)'
      BY <1>12, <2>1, <2>2
    <3> QED
      BY <3>1, <3>2
  <2>3. LoopAccounted(task[s].now, task[s].rest, Ahead(task[s]))'
    BY <1>10, <2>1, <2>2 DEF LoopAccounted
  <2> QED
    BY <2>1, <2>3 DEF InCall, key, Key
<1> QED
  BY <1>1, <1>9, <1>13, OnlyTask DEF Accounted, Quiet

LEMMA AdvanceAccounted ==
    ASSUME OneCaller, SoundDisk, TypeOK, CapHolds, UNCHANGED <<clock, broken>>,
           NEW s \in Senders, NEW m \in Messages, NEW now \in Time,
           NEW rest \in SUBSET Channels, NEW got \in SUBSET Channels,
           NEW today \in Counters,
           LoopAccounted(now, rest, today),
           Advance(s, m, now, rest, got, today)
    PROVE  Accounted'
<1>1. CASE Settle(s, m, now, got, today)
  BY <1>1, SettleAccounted
<1>2. ASSUME NEW c \in rest, sentToday' = today, ~PassedOver(m, now, c, today),
             AtCap(m, now, c, today), NotifyCap(s, m, now, c, rest, got, today)
      PROVE  Accounted'
  BY <1>2, NotifyAccounted DEF PassedOver
<1>3. ASSUME NEW c \in rest, sentToday' = today, ~AtCap(m, now, c, today),
             HandOver(s, m, now, c, rest, got, today)
      PROVE  Accounted'
  BY <1>3, HandOverAccounted
<1> QED
  BY <1>1, <1>2, <1>3, AdvanceSplit

-----------------------------------------------------------------------------
LEMMA InitAccounted == Init => Accounted
<1> SUFFICES ASSUME Init PROVE Accounted
  OBVIOUS
<1>1. /\ disk.today = [k \in Keys |-> 0] /\ sentToday = [k \in Keys |-> 0]
      /\ \A s \in Senders : task[s] = Idle
      /\ \A k \in Keys : regular[k] = 0 /\ forced[k] = 0 /\ notices[k] = 0
      /\ broken = 0
  BY DEF Init, LegacyDisk, EmptyDisk, Snapshot
<1>2. \A k \in Keys : Unseen(k)
  BY <1>1 DEF Unseen, Handed
<1>3. CapHolds
  BY <1>1, PolicyAssumption DEF CapHolds, PolicyAssumption
<1>4. BetweenCalls
  BY <1>1, <1>2 DEF BetweenCalls, Recounted, Unseen
<1> QED
  BY <1>1, <1>3, <1>4 DEF Accounted

LEMMA SendAccounted ==
    ASSUME OneCaller, SoundDisk, TypeOK, Accounted,
           NEW s \in Senders, NEW m \in Messages, Send(s, m)
    PROVE  Accounted'
<1>1. CASE Advance(s, m, clock, Route(lastSent, m), {}, sentToday)
  <2>1. /\ Route(lastSent, m) \in SUBSET Channels
        /\ clock \in Time /\ sentToday \in Counters
    BY RouteType DEF TypeOK
  <2>2. BetweenCalls /\ CapHolds
    BY SendAdvances, OnlyTask DEF Accounted
  <2>3. LoopAccounted(clock, Route(lastSent, m), sentToday)
    BY <2>1, <2>2, DatesAreNumbers, CountsAreNumbers DEF BetweenCalls, LoopAccounted, Recounted
  <2> QED
    BY <1>1, <2>1, <2>2, <2>3, SendAdvances, AdvanceAccounted
<1>2. CASE UNCHANGED <<memory, task, disk, observed>>
  BY <1>2, SendAdvances DEF memory, observed, Accounted, CapHolds, BetweenCalls, Quiet,
     InCall, LoopAccounted, Recounted, Unseen, Handed, Ahead
<1> QED
  BY <1>1, <1>2, SendAdvances

LEMMA ReturnAccounted ==
    ASSUME OneCaller, SoundDisk, TypeOK, Accounted, NEW s \in Senders, Return(s)
    PROVE  Accounted'
<1>1. task[s] \in Frames /\ sentToday \in Counters
  BY ReturnAdvances DEF TypeOK
<1>2. LoopAccounted(task[s].now, task[s].rest, Ahead(task[s])) /\ CapHolds
  BY ReturnAdvances DEF Accounted, InCall
<1> QED
  BY <1>1, <1>2, ReturnAdvances, FrameParts, AheadType, AdvanceAccounted DEF bounds

\* A call that is cancelled leaves what it missed behind, and is counted.
LEMMA CancelAccounted ==
    ASSUME OneCaller, SoundDisk, TypeOK, Accounted, NEW s \in Senders, Cancel(s)
    PROVE  Accounted'
<1> DEFINE g == task[s]
<1>1. /\ g \in Frames /\ g # Idle /\ \A x \in Senders : task'[x] = Idle
      /\ broken' = broken + 1 /\ broken \in Nat /\ clock \in Time
      /\ UNCHANGED <<sentToday, capNotified, disk, clock, regular, forced, notices>>
  BY OnlyTask DEF Cancel, TypeOK, memory, observed
<1>2. InCall(g)
  BY <1>1 DEF Accounted
<1>3. g.now \in Time /\ g.at \in Channels /\ g.read \in Nat
  BY <1>1, FrameParts
<1>4. CapHolds'
  <2>1. ASSUME NEW k \in Keys
        PROVE  regular[k] <= DailyCap + broken' /\ notices[k] <= 1 + broken'
    BY <1>1, CountsAreNumbers DEF Accounted, CapHolds
  <2> QED
    BY <1>1, <2>1 DEF CapHolds
<1>5. ASSUME NEW k \in Keys, k[2] > DayOf[clock] PROVE Unseen(k)
  <2>1. k[2] > DayOf[g.now]
    BY <1>1, <1>2, <1>3, <1>5, KeyParts, DatesAreNumbers DEF InCall, LoopAccounted
  <2> QED
    BY <1>2, <2>1 DEF InCall, LoopAccounted
<1>6. ASSUME NEW k \in Keys, k[2] = DayOf[clock]
      PROVE  /\ Handed(k) <= sentToday[k] + broken'
             /\ notices[k] <= (IF k \in capNotified THEN 1 ELSE 0) + broken'
             /\ Handed(k) <= disk.today[k] + broken'
             /\ notices[k] <= (IF k \in disk.notified THEN 1 ELSE 0) + broken'
  <2>1. CASE k[2] = DayOf[g.now]
    <3>1. /\ Recounted(k, Ahead(g), capNotified, 0)
          /\ Recounted(k, disk.today, disk.notified, IF k[1] \in g.rest THEN 0 ELSE 1)
      BY <1>2, <2>1 DEF InCall, LoopAccounted
    <3>2. Ahead(g)[k] <= sentToday[k] + 1 /\ Ahead(g)[k] \in Nat
      <4>1. CASE g.what = "message"
        BY <1>1, <1>2, <1>3, <4>1, KeyType, CountsAreNumbers
           DEF InCall, Ahead, TypeOK, Counters
      <4>2. CASE g.what # "message"
        BY <4>2, CountsAreNumbers DEF Ahead
      <4> QED
        BY <4>1, <4>2
    <3> QED
      BY <1>1, <3>1, <3>2, CountsAreNumbers DEF Recounted
  <2>2. CASE k[2] # DayOf[g.now]
    <3>1. Unseen(k)
      BY <1>1, <1>2, <1>3, <1>6, <2>2, KeyParts, DatesAreNumbers DEF InCall, LoopAccounted
    <3> QED
      BY <1>1, <3>1, CountsAreNumbers DEF Unseen
  <2> QED
    BY <2>1, <2>2
<1>7. BetweenCalls'
  <2>1. \A k \in Keys : k[2] > DayOf[clock'] => Unseen(k)'
    BY <1>1, <1>5 DEF Unseen, Handed
  <2>2. ASSUME NEW k \in Keys, k[2] = DayOf[clock']
        PROVE  Recounted(k, sentToday, capNotified, 0)' /\ Recounted(k, disk.today, disk.notified, 0)'
    BY <1>1, <1>6, <2>2, CountsAreNumbers DEF Recounted, Handed
  <2> QED
    BY <2>1, <2>2 DEF BetweenCalls
<1> QED
  BY <1>1, <1>4, <1>7 DEF Accounted

\* A process that starts counts from the file; in the middle of a call it
\* misses what the file does.
LEMMA RestartAccounted ==
    ASSUME OneCaller, SoundDisk, TypeOK, Accounted, Restart
    PROVE  Accounted'
<1>1. /\ \A x \in Senders : task'[x] = Idle
      /\ broken' = IF Quiet THEN broken ELSE broken + 1
      /\ broken \in Nat /\ broken' \in Nat /\ clock \in Time
      /\ UNCHANGED <<disk, clock, regular, forced, notices>>
  BY DEF Restart, SoundDisk, TypeOK, observed
<1>2. sentToday' = disk.today /\ capNotified' = disk.notified
  BY RestartLoads DEF SoundDisk
<1>3. CapHolds'
  <2>1. ASSUME NEW k \in Keys
        PROVE  regular[k] <= DailyCap + broken' /\ notices[k] <= 1 + broken'
    BY <1>1, CountsAreNumbers DEF Accounted, CapHolds
  <2> QED
    BY <1>1, <2>1 DEF CapHolds
<1>4. ASSUME NEW k \in Keys
      PROVE  /\ k[2] > DayOf[clock] => Unseen(k)
             /\ k[2] = DayOf[clock] =>
                   /\ Handed(k) <= disk.today[k] + broken'
                   /\ notices[k] <= (IF k \in disk.notified THEN 1 ELSE 0) + broken'
  <2>1. CASE Quiet
    BY <1>1, <2>1, CountsAreNumbers DEF Accounted, BetweenCalls, Recounted
  <2>2. ASSUME NEW s \in Senders, task[s] # Idle, broken' = broken + 1
        PROVE  /\ k[2] > DayOf[clock] => Unseen(k)
               /\ k[2] = DayOf[clock] =>
                   /\ Handed(k) <= disk.today[k] + broken'
                   /\ notices[k] <= (IF k \in disk.notified THEN 1 ELSE 0) + broken'
    <3>1. LoopAccounted(task[s].now, task[s].rest, Ahead(task[s]))
      BY <2>2 DEF Accounted, InCall
    <3>2. task[s].now \in Time
      BY <2>2, FrameParts DEF TypeOK
    <3>3. CASE k[2] = DayOf[task[s].now]
      <4>1. Recounted(k, disk.today, disk.notified, IF k[1] \in task[s].rest THEN 0 ELSE 1)
        BY <3>1, <3>3 DEF LoopAccounted
      <4>2. ~(k[2] > DayOf[clock])
        BY <1>1, <3>1, <3>2, <3>3, DatesAreNumbers DEF LoopAccounted
      <4> QED
        BY <2>2, <4>1, <4>2, CountsAreNumbers DEF Recounted
    <3>4. CASE k[2] # DayOf[task[s].now] /\ k[2] >= DayOf[clock]
      <4>1. Unseen(k)
        BY <1>1, <3>1, <3>2, <3>4, KeyParts, DatesAreNumbers DEF LoopAccounted
      <4> QED
        BY <1>1, <4>1, CountsAreNumbers DEF Unseen
    <3> QED
      BY <1>1, <3>3, <3>4, KeyParts, DatesAreNumbers
  <2> QED
    BY <1>1, <2>1, <2>2 DEF Quiet
<1>5. BetweenCalls'
  <2>1. \A k \in Keys : k[2] > DayOf[clock'] => Unseen(k)'
    BY <1>1, <1>4 DEF Unseen, Handed
  <2>2. ASSUME NEW k \in Keys, k[2] = DayOf[clock']
        PROVE  Recounted(k, sentToday, capNotified, 0)' /\ Recounted(k, disk.today, disk.notified, 0)'
    BY <1>1, <1>2, <1>4, <2>2, CountsAreNumbers DEF Recounted, Handed
  <2> QED
    BY <2>1, <2>2 DEF BetweenCalls
<1> QED
  BY <1>1, <1>3, <1>5 DEF Accounted

\* No message is handed on a date before it comes.
LEMMA TickAccounted ==
    ASSUME OneCaller, SoundDisk, TypeOK, Accounted, Tick
    PROVE  Accounted'
<1>1. /\ clock \in Time /\ clock' \in Time /\ DayOf[clock] <= DayOf[clock']
      /\ DayOf[clock] \in Nat /\ DayOf[clock'] \in Nat
      /\ UNCHANGED <<sentToday, capNotified, disk, task, regular, forced, notices, broken>>
  BY PolicyAssumption, DatesAreNumbers
     DEF Tick, TypeOK, Time, PolicyAssumption, memory, observed, bounds
<1>2. CapHolds'
  BY <1>1 DEF Accounted, CapHolds
<1>3. ASSUME Quiet PROVE BetweenCalls'
  <2>1. BetweenCalls
    BY <1>3 DEF Accounted
  <2>2. \A k \in Keys : k[2] > DayOf[clock'] => Unseen(k)'
    BY <1>1, <2>1, KeyParts DEF BetweenCalls, Unseen, Handed
  <2>3. ASSUME NEW k \in Keys, k[2] = DayOf[clock']
        PROVE  Recounted(k, sentToday, capNotified, 0)' /\ Recounted(k, disk.today, disk.notified, 0)'
    <3>1. CASE k[2] = DayOf[clock]
      BY <1>1, <2>1, <3>1 DEF BetweenCalls, Recounted, Handed
    <3>2. CASE k[2] > DayOf[clock]
      BY <1>1, <2>1, <3>2, CountsAreNumbers DEF BetweenCalls, Unseen, Recounted, Handed
    <3> QED
      BY <1>1, <2>3, <3>1, <3>2, KeyParts
  <2> QED
    BY <2>2, <2>3 DEF BetweenCalls
<1>4. ASSUME NEW s \in Senders, task[s] # Idle PROVE InCall(task[s])'
  <2>1. InCall(task[s]) /\ task[s].now \in Time
    BY <1>4, FrameParts DEF Accounted, TypeOK
  <2>2. DayOf[task[s].now] <= DayOf[clock']
    BY <1>1, <2>1, DatesAreNumbers DEF InCall, LoopAccounted
  <2> QED
    BY <1>1, <2>1, <2>2 DEF InCall, LoopAccounted, Ahead, Recounted, Unseen, Handed
<1> QED
  BY <1>1, <1>2, <1>3, <1>4 DEF Accounted, Quiet

LEMMA StepAccounted ==
    ASSUME OneCaller, SoundDisk, TypeOK, Accounted, [Next]_vars
    PROVE  Accounted'
<1>1. ASSUME NEW s \in Senders, NEW m \in Messages, Send(s, m) PROVE Accounted'
  BY <1>1, SendAccounted
<1>2. ASSUME NEW s \in Senders, Return(s) PROVE Accounted'
  BY <1>2, ReturnAccounted
<1>3. ASSUME NEW s \in Senders, Cancel(s) PROVE Accounted'
  BY <1>3, CancelAccounted
<1>4. CASE Restart
  BY <1>4, RestartAccounted
<1>5. CASE Tick
  BY <1>5, TickAccounted
<1>6. CASE UNCHANGED vars
  BY <1>6 DEF vars, memory, observed, bounds, Accounted, CapHolds, BetweenCalls, Quiet,
     InCall, LoopAccounted, Recounted, Unseen, Handed, Ahead
<1> QED
  BY <1>1, <1>2, <1>3, <1>4, <1>5, <1>6 DEF Next

\* With one call at a time and a disk that works, a channel gets daily_cap
\* messages and one notice a day and no more, plus one of each for every call
\* that a restart or a cancellation cut off (dispatch.py:10-15, 261-281): a
\* restart between calls loses nothing.
THEOREM OneCallerKeepsTheCap ==
    ASSUME OneCaller, SoundDisk
    PROVE  Spec => []CapHolds
<1>1. Init => TypeOK /\ Accounted
  BY InitType, InitAccounted
<1>2. TypeOK /\ Accounted /\ [Next]_vars => (TypeOK /\ Accounted)'
  BY StepType, StepAccounted
<1>3. Accounted => CapHolds
  BY DEF Accounted
<1> QED
  BY <1>1, <1>2, <1>3, PTL DEF Spec

-----------------------------------------------------------------------------
\* What is handed under the policy is below the cap by the counter that is
\* read, and so nothing is, once the notice is out.
LEMMA AdvanceAfterNotice ==
    ASSUME OneCaller, SoundDisk, TypeOK, Counted, broken = 0,
           NEW s \in Senders, NEW m \in Messages, NEW now \in Time,
           NEW rest \in SUBSET Channels, NEW got \in SUBSET Channels,
           NEW today \in Counters,
           LoopAccounted(now, rest, today),
           Advance(s, m, now, rest, got, today),
           NEW k \in Keys, notices[k] > 0
    PROVE  regular'[k] = regular[k]
<1>1. CASE Settle(s, m, now, got, today)
  BY <1>1 DEF Settle, observed
<1>2. ASSUME NEW c \in rest, NotifyCap(s, m, now, c, rest, got, today)
      PROVE  regular'[k] = regular[k]
  BY <1>2 DEF NotifyCap
<1>3. ASSUME NEW c \in rest, ~AtCap(m, now, c, today), HandOver(s, m, now, c, rest, got, today)
      PROVE  regular'[k] = regular[k]
  <2>1. Key(c, now) \in Keys
    BY KeyType
  <2>2. CASE m.force \/ k # Key(c, now)
    BY <1>3, <2>1, <2>2 DEF HandOver, Observe, TypeOK, Counters
  <2>3. CASE ~m.force /\ k = Key(c, now)
    <3>1. today[k] < DailyCap /\ today[k] \in Nat
      BY <1>3, <2>3, CountsAreNumbers DEF AtCap, Counters
    <3>2. Recounted(k, today, capNotified, 0)
      BY <2>3 DEF LoopAccounted, Key
    <3>3. k \in capNotified
      BY <3>2, CountsAreNumbers DEF Recounted
    <3>4. DailyCap <= Handed(k)
      BY <3>3 DEF Counted
    <3> QED
      BY <3>1, <3>2, <3>4, CountsAreNumbers DEF Recounted
  <2> QED
    BY <2>2, <2>3
<1> QED
  BY <1>1, <1>2, <1>3, AdvanceSplit

LEMMA StepAfterNotice ==
    ASSUME OneCaller, SoundDisk, TypeOK, Counted, Accounted, [Next]_vars,
           NEW k \in Keys, notices[k] > 0, broken = 0
    PROVE  regular'[k] = regular[k]
<1>1. ASSUME NEW s \in Senders, NEW m \in Messages, Send(s, m) PROVE regular'[k] = regular[k]
  <2>1. CASE Advance(s, m, clock, Route(lastSent, m), {}, sentToday)
    <3>1. /\ Route(lastSent, m) \in SUBSET Channels
          /\ clock \in Time /\ sentToday \in Counters
      BY RouteType DEF TypeOK
    <3>2. BetweenCalls
      BY <1>1, SendAdvances, OnlyTask DEF Accounted
    <3>3. LoopAccounted(clock, Route(lastSent, m), sentToday)
      BY <3>1, <3>2, DatesAreNumbers, CountsAreNumbers DEF BetweenCalls, LoopAccounted, Recounted
    <3> QED
      BY <2>1, <3>1, <3>3, AdvanceAfterNotice
  <2>2. CASE UNCHANGED <<memory, task, disk, observed>>
    BY <2>2 DEF observed
  <2> QED
    BY <1>1, <2>1, <2>2, SendAdvances
<1>2. ASSUME NEW s \in Senders, Return(s) PROVE regular'[k] = regular[k]
  <2>1. task[s] \in Frames /\ sentToday \in Counters
    BY <1>2, ReturnAdvances DEF TypeOK
  <2>2. LoopAccounted(task[s].now, task[s].rest, Ahead(task[s]))
    BY <1>2, ReturnAdvances DEF Accounted, InCall
  <2> QED
    BY <1>2, <2>1, <2>2, ReturnAdvances, FrameParts, AheadType, AdvanceAfterNotice
<1>3. ASSUME NEW s \in Senders, Cancel(s) PROVE regular'[k] = regular[k]
  BY <1>3 DEF Cancel, observed
<1>4. CASE Restart
  BY <1>4 DEF Restart, observed
<1>5. CASE Tick
  BY <1>5 DEF Tick, observed
<1>6. CASE UNCHANGED vars
  BY <1>6 DEF vars, observed
<1> QED
  BY <1>1, <1>2, <1>3, <1>4, <1>5, <1>6 DEF Next

\* After the notice nothing more under the policy that day (dispatch.py:12-15),
\* while no call was cut off.
THEOREM TheNoticeIsLast ==
    ASSUME OneCaller, SoundDisk
    PROVE  Spec => NoticeIsLast
<1>1. Init => TypeOK /\ Counted /\ Accounted
  BY InitType, InitCounted, InitAccounted
<1>2. TypeOK /\ Counted /\ Accounted /\ [Next]_vars => (TypeOK /\ Counted /\ Accounted)'
  BY StepType, StepCounted, StepAccounted
<1>3. TypeOK /\ Counted /\ Accounted /\ [Next]_vars
        => [\A k \in Keys : (notices[k] > 0 /\ broken = 0) => regular'[k] = regular[k]]_vars
  BY StepAfterNotice
<1> QED
  BY <1>1, <1>2, <1>3, PTL DEF Spec, NoticeIsLast

-----------------------------------------------------------------------------
(***************************************************************************)
(* With one caller and a disk that does not fail, the marks are the open   *)
(* firings (MarksAreOpenFirings) and no firing repeats (NoRepeat).         *)
(*                                                                         *)
(* Between calls every mark stands for what the channels saw of its        *)
(* fingerprint.  During a call that already handed its message the channels are *)
(* ahead of the mark, for that fingerprint alone.                          *)
(***************************************************************************)
Standing(f, last) ==
    IF last[f] = NoMark
    THEN openSince[f] # NoMark => clock - openSince[f] >= RememberSent
    ELSE \/ openSince[f] = last[f].at
         \/ f \in LegacyFps /\ openSince[f] = NoMark

\* What the channels saw of a message that some of them were handed.
Shown(m, now) == IF IsResolved(m) THEN NoMark ELSE now

LoopOpen(m, now, got) ==
    /\ now <= clock
    /\ \A f \in Fingerprints :
          IF f = m.fp /\ got # {} THEN openSince[f] = Shown(m, now)
                                  ELSE Standing(f, lastSent)

Open ==
    broken = 0 =>
        /\ Quiet => /\ Durable => disk = InMemory
                    /\ \A f \in Fingerprints : Standing(f, lastSent)
        /\ \A s \in Senders : task[s] # Idle =>
              LoopOpen(task[s].m, task[s].now, Reached(task[s]))

-----------------------------------------------------------------------------
LEMMA ClocksAreNumbers ==
    ASSUME TypeOK
    PROVE  /\ clock \in Int /\ RememberSent \in Int
           /\ \A t \in Time : t \in Int
           /\ \A f \in Fingerprints :
                 /\ lastSent[f] # NoMark => lastSent[f] \in Marks /\ lastSent[f].at \in Int
                 /\ openSince[f] # NoMark => openSince[f] \in Int
BY PolicyAssumption DEF TypeOK, Time, Marks, MarkTables, PolicyAssumption

\* A call that ends writes the mark of what the channels saw, and prunes only
\* marks that are old by now.
LEMMA SettleStands ==
    ASSUME TypeOK, UNCHANGED clock,
           NEW s \in Senders, NEW m \in Messages, NEW now \in Time, now <= clock,
           NEW got \in SUBSET Channels, NEW today \in Counters,
           Settle(s, m, now, got, today),
           NEW f \in Fingerprints,
           IF f = m.fp /\ got # {} THEN openSince[f] = Shown(m, now) ELSE Standing(f, lastSent)
    PROVE  Standing(f, lastSent)'
<1> DEFINE marked == Marked(lastSent, m, now, got)
<1>1. /\ lastSent' = IF Durable THEN Forgotten(marked, now) ELSE marked
      /\ openSince' = openSince
  BY DEF Settle, Save, observed
<1>2. /\ now \in Int /\ clock \in Int /\ RememberSent \in Int /\ now <= clock
      /\ marked \in MarkTables
      /\ marked[f] # NoMark => marked[f].at \in Int
  <2>1. marked \in MarkTables
    BY MarkedType DEF TypeOK
  <2>2. marked[f] # NoMark => marked[f].at \in Int
    BY <2>1 DEF MarkTables, Marks, Time
  <2> QED
    BY <2>1, <2>2, ClocksAreNumbers
<1>3. Standing(f, marked)
  <2>1. CASE f = m.fp /\ got # {}
    <3>1. marked[f] = IF IsResolved(m) THEN NoMark ELSE [at |-> now, channels |-> got]
      BY <2>1 DEF Marked, TypeOK, MarkTables
    <3>2. openSince[f] = IF IsResolved(m) THEN NoMark ELSE now
      BY <2>1 DEF Shown
    <3>3. [at |-> now, channels |-> got] # NoMark
      BY PolicyAssumption DEF PolicyAssumption, Marks
    <3> QED
      BY <3>1, <3>2, <3>3 DEF Standing
  <2>2. CASE ~(f = m.fp /\ got # {})
    <3>1. marked[f] = lastSent[f]
      BY <2>2 DEF Marked, TypeOK, MarkTables
    <3>2. Standing(f, lastSent)
      BY <2>2
    <3> QED
      BY <3>1, <3>2 DEF Standing
  <2> QED
    BY <2>1, <2>2
<1> HIDE DEF marked
<1>4. Forgotten(marked, now)[f] = IF marked[f] # NoMark /\ now - marked[f].at < RememberSent
                                  THEN marked[f] ELSE NoMark
  BY DEF Forgotten
<1>5. CASE ~Durable \/ (marked[f] # NoMark /\ now - marked[f].at < RememberSent)
  BY <1>1, <1>3, <1>4, <1>5 DEF Standing
<1>6. CASE marked[f] = NoMark
  BY <1>1, <1>3, <1>4, <1>6 DEF Standing
<1>7. CASE Durable /\ marked[f] # NoMark /\ ~(now - marked[f].at < RememberSent)
  <2>1. lastSent'[f] = NoMark
    BY <1>1, <1>4, <1>7
  <2>2. openSince[f] # NoMark => clock - openSince[f] >= RememberSent
    BY <1>2, <1>3, <1>7 DEF Standing
  <2> QED
    BY <1>1, <2>1, <2>2 DEF Standing
<1> QED
  BY <1>5, <1>6, <1>7

LEMMA AdvanceOpen ==
    ASSUME OneCaller, ~DiskMayFail, TypeOK, UNCHANGED <<clock, broken>>, broken = 0,
           NEW s \in Senders, NEW m \in Messages, NEW now \in Time,
           NEW rest \in SUBSET Channels, NEW got \in SUBSET Channels,
           NEW today \in Counters,
           LoopOpen(m, now, got),
           Advance(s, m, now, rest, got, today)
    PROVE  Open'
<1>0. CallType
  BY TypeSplit
<1>1. CASE Settle(s, m, now, got, today)
  <2>1. \A x \in Senders : task'[x] = Idle
    BY <1>1, OnlyTask DEF Settle, TypeOK
  <2>2. Durable => disk' = InMemory'
    BY <1>1, SaveDurable DEF Settle
  <2>3. \A f \in Fingerprints : Standing(f, lastSent)'
    BY <1>1, SettleStands DEF LoopOpen
  <2> QED
    BY <2>1, <2>2, <2>3 DEF Open
<1>2. ASSUME NEW c \in rest, sentToday' = today, NotifyCap(s, m, now, c, rest, got, today)
      PROVE  Open'
  <2>1. /\ task'[s].m = m /\ task'[s].now = now /\ task'[s] # Idle
        /\ Reached(task'[s]) = got
    <3>1. /\ task'[s] = [m |-> m, now |-> now, at |-> c, what |-> "notice",
                         read |-> today[Key(c, now)], rest |-> After(c, rest), got |-> got]
          /\ task'[s] # Idle
          /\ Reached(task'[s]) = got
      BY <1>0, <1>2, NoticeSuspends
    <3> QED
      BY <3>1
  <2>2. LoopOpen(m, now, got)'
    BY <1>2 DEF NotifyCap, LoopOpen, Standing
  <2> QED
    BY <2>1, <2>2, OnlyTask DEF Open, Quiet, LoopOpen
<1>3. ASSUME NEW c \in rest, sentToday' = today, HandOver(s, m, now, c, rest, got, today)
      PROVE  Open'
  <2>1. /\ task'[s].m = m /\ task'[s].now = now /\ task'[s] # Idle
        /\ Reached(task'[s]) = got \cup {c}
    <3>1. /\ task'[s] = [m |-> m, now |-> now, at |-> c, what |-> "message",
                         read |-> today[Key(c, now)], rest |-> After(c, rest), got |-> got]
          /\ task'[s] # Idle
          /\ Reached(task'[s]) = got \cup {c}
          /\ Ahead(task[s])' = [today EXCEPT ![Key(c, now)] = today[Key(c, now)] + 1]
      BY <1>0, <1>3, HandOverSuspends
    <3> QED
      BY <3>1
  <2>2. openSince' = [openSince EXCEPT ![m.fp] = Shown(m, now)]
    BY <1>3 DEF HandOver, Observe, Shown
  <2>3. LoopOpen(m, now, got \cup {c})'
    BY <1>3, <2>2, MessageType DEF HandOver, LoopOpen, Standing, TypeOK, Shown
  <2> QED
    BY <2>1, <2>3, OnlyTask DEF Open, Quiet, LoopOpen
<1> QED
  BY <1>1, <1>2, <1>3, AdvanceSplit

-----------------------------------------------------------------------------
LEMMA InitOpen == Init => Open
<1> SUFFICES ASSUME Init PROVE Open
  OBVIOUS
<1>1. disk = InMemory /\ \A s \in Senders : task[s] = Idle
  BY InitDurable DEF Init
<1>2. ASSUME NEW f \in Fingerprints PROVE Standing(f, lastSent)
  <2>1. PICK old \in SUBSET LegacyFps : disk = IF Durable THEN LegacyDisk(old) ELSE EmptyDisk
    BY DEF Init
  <2>2. openSince[f] = NoMark /\ (f \notin LegacyFps => lastSent[f] = NoMark)
    BY <2>1 DEF Init, LegacyDisk, EmptyDisk, Snapshot
  <2> QED
    BY <2>2 DEF Standing
<1> QED
  BY <1>1, <1>2 DEF Open

LEMMA SendOpen ==
    ASSUME OneCaller, ~DiskMayFail, TypeOK, Open,
           NEW s \in Senders, NEW m \in Messages, Send(s, m)
    PROVE  Open'
<1>1. CASE Advance(s, m, clock, Route(lastSent, m), {}, sentToday) /\ broken = 0
  <2>1. /\ Route(lastSent, m) \in SUBSET Channels
        /\ clock \in Time /\ sentToday \in Counters
    BY RouteType DEF TypeOK
  <2>2. \A f \in Fingerprints : Standing(f, lastSent)
    BY <1>1, SendAdvances, OnlyTask DEF Open
  <2>3. LoopOpen(m, clock, {})
    BY <2>2, ClocksAreNumbers DEF LoopOpen
  <2> QED
    BY <1>1, <2>1, <2>3, SendAdvances, AdvanceOpen
<1>2. CASE UNCHANGED <<memory, task, disk, observed>>
  BY <1>2, SendAdvances DEF memory, observed, Open, LoopOpen, Standing, Quiet, InMemory
<1>3. CASE broken # 0
  BY <1>3, SendAdvances DEF Open
<1> QED
  BY <1>1, <1>2, <1>3, SendAdvances

LEMMA ReturnOpen ==
    ASSUME OneCaller, ~DiskMayFail, TypeOK, Open, NEW s \in Senders, Return(s)
    PROVE  Open'
<1>1. CASE broken = 0
  <2>1. task[s] \in Frames /\ sentToday \in Counters
    BY ReturnAdvances DEF TypeOK
  <2>2. LoopOpen(task[s].m, task[s].now, Reached(task[s]))
    BY <1>1, ReturnAdvances DEF Open
  <2> QED
    BY <1>1, <2>1, <2>2, ReturnAdvances, FrameParts, AheadType, AdvanceOpen DEF bounds
<1>2. CASE broken # 0
  BY <1>2 DEF Return, bounds, Open
<1> QED
  BY <1>1, <1>2

LEMMA TickOpen ==
    ASSUME TypeOK, Open, Tick
    PROVE  Open'
<1>1. /\ UNCHANGED <<memory, task, disk, observed, broken>> /\ clock' = clock + 1
  BY DEF Tick, bounds
<1>2. ASSUME NEW f \in Fingerprints, Standing(f, lastSent) PROVE Standing(f, lastSent)'
  BY <1>1, <1>2, ClocksAreNumbers DEF Standing, memory, observed
<1>3. ASSUME NEW s \in Senders, task[s] # Idle,
             LoopOpen(task[s].m, task[s].now, Reached(task[s]))
      PROVE  LoopOpen(task[s].m, task[s].now, Reached(task[s]))'
  <2>1. task[s].now \in Int
    BY <1>3, FrameParts, ClocksAreNumbers DEF TypeOK
  <2> QED
    BY <1>1, <1>2, <1>3, <2>1, ClocksAreNumbers DEF LoopOpen, observed, Shown, Reached
<1> QED
  BY <1>1, <1>2, <1>3 DEF Open, Quiet, InMemory, memory

LEMMA StepOpen ==
    ASSUME OneCaller, ~DiskMayFail, TypeOK, Open, [Next]_vars
    PROVE  Open'
<1>1. ASSUME NEW s \in Senders, NEW m \in Messages, Send(s, m) PROVE Open'
  BY <1>1, SendOpen
<1>2. ASSUME NEW s \in Senders, Return(s) PROVE Open'
  BY <1>2, ReturnOpen
<1>3. ASSUME NEW s \in Senders, Cancel(s) PROVE Open'
  BY <1>3 DEF Cancel, Open, TypeOK
<1>4. CASE Restart
  <2>1. CASE Quiet /\ Durable /\ broken = 0
    <3>1. disk = InMemory /\ \A f \in Fingerprints : Standing(f, lastSent)
      BY <2>1 DEF Open
    <3>2. lastSent' = lastSent /\ disk' = InMemory'
      BY <1>4, <2>1, <3>1, RestartLoads DEF InMemory, Snapshot
    <3>3. \A f \in Fingerprints : Standing(f, lastSent)'
      BY <1>4, <3>1, <3>2 DEF Restart, Standing, observed
    <3> QED
      BY <1>4, <3>2, <3>3 DEF Restart, Open
  <2>2. CASE ~(Quiet /\ Durable /\ broken = 0)
    BY <1>4, <2>2 DEF Restart, Open, TypeOK
  <2> QED
    BY <2>1, <2>2
<1>5. CASE Tick
  BY <1>5, TickOpen
<1>6. CASE UNCHANGED vars
  BY <1>6 DEF vars, memory, observed, bounds, Open, LoopOpen, Standing, Quiet, InMemory
<1> QED
  BY <1>1, <1>2, <1>3, <1>4, <1>5, <1>6 DEF Next

\* Between calls the marks are exactly the open firings, for as long as the
\* code remembers (dispatch.py:242-250): with one call at a time, a disk that
\* works and no call cut off.
THEOREM MarksFollowTheChannels ==
    ASSUME OneCaller, ~DiskMayFail
    PROVE  Spec => []MarksAreOpenFirings
<1>1. Init => TypeOK /\ Open
  BY InitType, InitOpen
<1>2. TypeOK /\ Open /\ [Next]_vars => (TypeOK /\ Open)'
  BY StepType, StepOpen
<1>3. Open => MarksAreOpenFirings
  BY DEF Open, MarksAreOpenFirings, Standing
<1> QED
  BY <1>1, <1>2, <1>3, PTL DEF Spec

-----------------------------------------------------------------------------
\* A firing that starts to be delivered was not deduped: its mark, which
\* stands for the last firing seen, is old enough or was forgotten.
LEMMA BeginsLate ==
    ASSUME OneCaller, ~DiskMayFail, TypeOK, Open, [Next]_vars, broken = 0,
           NEW s \in Senders, task[s] = Idle, task'[s] # Idle,
           ~IsResolved(task'[s].m), ~task'[s].m.force,
           openSince[task'[s].m.fp] # NoMark
    PROVE  \/ task'[s].now - openSince[task'[s].m.fp] >= Wait(task'[s].m)
           \/ task'[s].now - openSince[task'[s].m.fp] >= RememberSent
<1>1. PICK m \in Messages : Send(s, m)
  <2>1. ASSUME NEW x \in Senders, NEW m \in Messages, Send(x, m)
        PROVE  Send(s, m)
    BY <2>1, OnlyTask
  <2>2. ASSUME NEW x \in Senders, Return(x) \/ Cancel(x) PROVE FALSE
    BY <2>2, OnlyTask DEF Return, Cancel
  <2>3. CASE Restart
    BY <2>3 DEF Restart
  <2>4. CASE Tick \/ UNCHANGED vars
    BY <2>4 DEF Tick, vars
  <2> QED
    BY <2>1, <2>2, <2>3, <2>4 DEF Next
<1>2. /\ Decision(lastSent, m, clock) = "sent"
      /\ Advance(s, m, clock, Route(lastSent, m), {}, sentToday)
  BY <1>1, SendAdvances
<1>3. /\ Route(lastSent, m) \in SUBSET Channels
      /\ clock \in Time /\ sentToday \in Counters /\ CallType
  BY RouteType, TypeSplit DEF TypeOK
<1>4. task'[s].m = m /\ task'[s].now = clock
  <2>1. CASE Settle(s, m, clock, {}, sentToday)
    BY <2>1 DEF Settle, TypeOK
  <2>2. ASSUME NEW c \in Route(lastSent, m), sentToday' = sentToday,
               NotifyCap(s, m, clock, c, Route(lastSent, m), {}, sentToday)
        PROVE  task'[s].m = m /\ task'[s].now = clock
    BY <2>2 DEF NotifyCap, TypeOK
  <2>3. ASSUME NEW c \in Route(lastSent, m), sentToday' = sentToday,
               HandOver(s, m, clock, c, Route(lastSent, m), {}, sentToday)
        PROVE  task'[s].m = m /\ task'[s].now = clock
    BY <2>3 DEF HandOver, TypeOK
  <2> QED
    BY <1>2, <1>3, <2>1, <2>2, <2>3, AdvanceSplit
<1>5. ~Deduped(lastSent, m, clock)
  BY <1>2, <1>4 DEF Decision, Forces, Decide
<1>6. Standing(m.fp, lastSent) /\ m.fp \in Fingerprints /\ openSince[m.fp] # NoMark
  BY <1>4, OnlyTask, MessageType DEF Open
<1>7. Wait(m) \in Int
  BY MessageType, PolicyAssumption DEF Wait, PolicyAssumption
<1>8. \/ clock - openSince[m.fp] >= Wait(m)
      \/ clock - openSince[m.fp] >= RememberSent
  BY <1>5, <1>6, <1>7, ClocksAreNumbers DEF Standing, Deduped
<1> QED
  BY <1>4, <1>8

\* No firing is sent twice within its interval unless a RESOLVED of the same
\* fingerprint was handed in between (dispatch.py:6-8): with one call at a
\* time, a disk that works and no call cut off.
THEOREM NoFiringRepeats ==
    ASSUME OneCaller, ~DiskMayFail
    PROVE  Spec => NoRepeat
<1>1. Init => TypeOK /\ Open
  BY InitType, InitOpen
<1>2. TypeOK /\ Open /\ [Next]_vars => (TypeOK /\ Open)'
  BY StepType, StepOpen
<1> DEFINE Late ==
      \A s \in Senders :
        LET f == task'[s]
        IN (/\ task[s] = Idle /\ f # Idle
            /\ ~IsResolved(f.m) /\ ~f.m.force
            /\ broken = 0
            /\ openSince[f.m.fp] # NoMark)
           => \/ f.now - openSince[f.m.fp] >= Wait(f.m)
              \/ f.now - openSince[f.m.fp] >= RememberSent
<1>3. TypeOK /\ Open /\ [Next]_vars => [Late]_vars
  BY BeginsLate
<1>4. [][Late]_vars => NoRepeat
  BY DEF NoRepeat
<1> HIDE DEF Late
<1> QED
  BY <1>1, <1>2, <1>3, <1>4, PTL DEF Spec

-----------------------------------------------------------------------------
(***************************************************************************)
(* With one caller, a disk that does not fail and no cancellations, the    *)
(* file implements the ledger (FileIsLedger): restarts at any point        *)
(* included.                                                               *)
(*                                                                         *)
(* HalfWay says how far a call is: its memory is the file with the message *)
(* entered for the channels it is past, and the decision and the route it  *)
(* follows are still those of the file.                                    *)
(***************************************************************************)
\* The channels of `past' that the counters on file put at their cap, and the others.
Full(m, now, past, onFile)  == {c \in past : AtCap(m, now, c, onFile)}
Below(m, now, past, onFile) == past \ Full(m, now, past, onFile)
KeysOf(now, chans)          == {Key(c, now) : c \in chans}

\* The counters on file with one message more for each channel of `got'.
CountedFor(now, got, onFile) ==
    [k \in Keys |-> IF k \in KeysOf(now, got) THEN onFile[k] + 1 ELSE onFile[k]]

\* The marks, counters and notices in memory are those of file d with the
\* message entered for the channels of its route that are not in `rest'.
Entered(d, last, notified, m, now, rest, got, today) ==
    LET past == Route(d.last, m) \ rest
    IN /\ last = d.last
       /\ Decision(d.last, m, now) = "sent"
       /\ rest \subseteq Route(d.last, m)
       /\ \A c \in past, x \in rest : c < x
       /\ got = Below(m, now, past, d.today)
       /\ today = CountedFor(now, got, d.today)
       /\ notified = d.notified \cup KeysOf(now, Full(m, now, past, d.today))

HalfWay(m, now, rest, got, today) ==
    Entered(disk, lastSent, capNotified, m, now, rest, got, today)

Whole ==
    /\ cancels = 0
    /\ Quiet => disk = InMemory
    /\ \A s \in Senders : task[s] # Idle =>
          HalfWay(task[s].m, task[s].now, task[s].rest, Reached(task[s]), Ahead(task[s]))

-----------------------------------------------------------------------------
\* The ledger follows the same policy.
LEMMA SamePolicy ==
    ASSUME NEW last, NEW m, NEW now
    PROVE  /\ FileLedger!Route(last, m) = Route(last, m)
           /\ FileLedger!Decision(last, m, now) = Decision(last, m, now)
           /\ FileLedger!Keys = Keys
           /\ FileLedger!Time = Time
BY DEF FileLedger!Route, FileLedger!Decision, FileLedger!Keys, FileLedger!Time, FileLedger!Days,
       FileLedger!Forces, FileLedger!Decide, FileLedger!Targets, FileLedger!Deduped,
       FileLedger!Covers, FileLedger!Wait, FileLedger!IsResolved, FileLedger!Channels,
       Route, Decision, Keys, Time, Days, Forces, Decide, Targets, Deduped, Covers, Wait,
       IsResolved, Channels

LEMMA SameRecord ==
    ASSUME NEW last, NEW today, NEW notified, NEW m, NEW now, NEW c, NEW got
    PROVE  /\ FileLedger!Key(c, now) = Key(c, now)
           /\ FileLedger!AtCap(m, now, c, today) = AtCap(m, now, c, today)
           /\ FileLedger!Marked(last, m, now, got) = Marked(last, m, now, got)
           /\ FileLedger!Forgotten(last, now) = Forgotten(last, now)
           /\ FileLedger!OnlyToday(today, now) = OnlyToday(today, now)
           /\ FileLedger!TodaysKeys(notified, now) = TodaysKeys(notified, now)
           /\ FileLedger!Snapshot(last, today, notified) = Snapshot(last, today, notified)
BY SamePolicy
   DEF FileLedger!Key, FileLedger!AtCap, FileLedger!Marked, FileLedger!Forgotten,
       FileLedger!OnlyToday, FileLedger!TodaysKeys, FileLedger!Snapshot, FileLedger!IsResolved,
       Key, AtCap, Marked, Forgotten, OnlyToday, TodaysKeys, Snapshot, IsResolved

LEMMA KeyInjective ==
    ASSUME NEW c, NEW d, NEW now, Key(c, now) = Key(d, now)
    PROVE  c = d
BY DEF Key

\* A call that ends has entered the whole message.
LEMMA SettleEnters ==
    ASSUME TypeOK, SoundDisk,
           NEW s \in Senders, NEW m \in Messages, NEW now \in Time,
           NEW rest \in SUBSET Channels, NEW got \in SUBSET Channels,
           NEW today \in Counters,
           HalfWay(m, now, rest, got, today),
           \A x \in rest : PassedOver(m, now, x, today),
           Settle(s, m, now, got, today)
    PROVE  FileLedger!Enter(m, now)
<1> DEFINE route == Route(disk.last, m)
           past  == route \ rest
           full  == {c \in route : AtCap(m, now, c, disk.today)}
<1>1. disk' = Snapshot(Forgotten(Marked(lastSent, m, now, got), now),
                       OnlyToday(today, now), TodaysKeys(capNotified, now))
  BY DEF Settle, Save, SoundDisk
<1>2. /\ lastSent = disk.last
      /\ Decision(disk.last, m, now) = "sent"
      /\ rest \subseteq route
      /\ got = Below(m, now, past, disk.today)
      /\ today = CountedFor(now, got, disk.today)
      /\ capNotified = disk.notified \cup KeysOf(now, Full(m, now, past, disk.today))
  BY DEF HalfWay, Entered
<1>3. route \in SUBSET Channels
  BY RouteType DEF TypeOK, Snapshots
<1>4. ASSUME NEW x \in rest PROVE AtCap(m, now, x, disk.today) /\ Key(x, now) \in capNotified
  <2>1. AtCap(m, now, x, today) /\ Key(x, now) \in capNotified
    BY <1>4 DEF PassedOver
  <2>2. x \notin got
    BY <1>2, <1>4 DEF Below
  <2>3. Key(x, now) \in Keys /\ Key(x, now) \notin KeysOf(now, got)
    BY <1>4, <2>2, KeyType, KeyInjective DEF KeysOf
  <2>4. today[Key(x, now)] = disk.today[Key(x, now)]
    BY <1>2, <2>3 DEF CountedFor
  <2> QED
    BY <2>1, <2>4 DEF AtCap
<1>5. got = route \ full
  BY <1>2, <1>4 DEF Below, Full
<1>6. capNotified = disk.notified \cup {Key(c, now) : c \in full}
  <2>1. full = Full(m, now, past, disk.today) \cup rest
    BY <1>2, <1>4 DEF Full
  <2> QED
    BY <1>2, <1>4, <2>1 DEF KeysOf
<1>7. today = [k \in Keys |-> IF k \in {Key(c, now) : c \in got}
                             THEN disk.today[k] + 1 ELSE disk.today[k]]
  BY <1>2 DEF CountedFor, KeysOf
<1>8. disk' = Snapshot(
              Forgotten(Marked(disk.last, m, now, route \ full), now),
              OnlyToday([k \in Keys |-> IF k \in {Key(c, now) : c \in route \ full}
                                        THEN disk.today[k] + 1 ELSE disk.today[k]], now),
              TodaysKeys(disk.notified \cup {Key(c, now) : c \in full}, now))
  BY <1>1, <1>2, <1>5, <1>6, <1>7
<1>9. FileLedger!Enter(m, now)
  <2> DEFINE lroute   == FileLedger!Route(disk.last, m)
             lfull    == {c \in lroute : FileLedger!AtCap(m, now, c, disk.today)}
             lgot     == lroute \ lfull
             lcounted == [k \in FileLedger!Keys |->
                             IF k \in {FileLedger!Key(c, now) : c \in lgot}
                             THEN disk.today[k] + 1 ELSE disk.today[k]]
  <2>1. lroute = route /\ FileLedger!Keys = Keys
    BY SamePolicy
  <2>2. \A c : /\ FileLedger!Key(c, now) = Key(c, now)
               /\ FileLedger!AtCap(m, now, c, disk.today) = AtCap(m, now, c, disk.today)
    BY SameRecord
  <2>3. lfull = full /\ lgot = route \ full
    BY <2>1, <2>2
  <2> HIDE DEF lroute, lfull
  <2>4. /\ {FileLedger!Key(c, now) : c \in lgot} = {Key(c, now) : c \in route \ full}
        /\ {FileLedger!Key(c, now) : c \in lfull} = {Key(c, now) : c \in full}
    BY <2>2, <2>3
  <2>5. lcounted = [k \in Keys |-> IF k \in {Key(c, now) : c \in route \ full}
                                   THEN disk.today[k] + 1 ELSE disk.today[k]]
    BY <2>1, <2>4
  <2> HIDE DEF lgot, lcounted
  <2>6. FileLedger!Decision(disk.last, m, now) = "sent"
    BY <1>2, SamePolicy
  <2>7. disk' = FileLedger!Snapshot(
                   FileLedger!Forgotten(FileLedger!Marked(disk.last, m, now, lgot), now),
                   FileLedger!OnlyToday(lcounted, now),
                   FileLedger!TodaysKeys(disk.notified \cup {FileLedger!Key(c, now) : c \in lfull},
                                         now))
    <3>1. FileLedger!Marked(disk.last, m, now, lgot) = Marked(disk.last, m, now, route \ full)
      BY <2>3, SameRecord
    <3>2. FileLedger!OnlyToday(lcounted, now) = OnlyToday(lcounted, now)
      BY SameRecord
    <3>3. FileLedger!TodaysKeys(disk.notified \cup {FileLedger!Key(c, now) : c \in lfull}, now)
            = TodaysKeys(disk.notified \cup {Key(c, now) : c \in full}, now)
      BY <2>4, SameRecord
    <3> HIDE DEF full, route
    <3>4. \A l : FileLedger!Forgotten(l, now) = Forgotten(l, now)
      BY SameRecord
    <3>5. \A l, t, n : FileLedger!Snapshot(l, t, n) = Snapshot(l, t, n)
      BY SameRecord
    <3> QED
      BY <1>8, <2>5, <3>1, <3>2, <3>3, <3>4, <3>5
  <2> QED
    BY <2>6, <2>7 DEF FileLedger!Enter, lroute, lfull, lgot, lcounted
<1> QED
  BY <1>9

\* The loop moves past c: what that adds to the message entered so far.
LEMMA LoopMoves ==
    ASSUME TypeOK, NEW m \in Messages, NEW now \in Time,
           NEW rest \in SUBSET Channels, NEW got \in SUBSET Channels,
           NEW today \in Counters, NEW c \in rest,
           HalfWay(m, now, rest, got, today),
           \A x \in rest : x < c => PassedOver(m, now, x, today)
    PROVE  Entered(disk, lastSent,
                   IF AtCap(m, now, c, today) THEN capNotified \cup {Key(c, now)} ELSE capNotified,
                   m, now, After(c, rest),
                   IF AtCap(m, now, c, today) THEN got ELSE got \cup {c},
                   IF AtCap(m, now, c, today) THEN today
                   ELSE [today EXCEPT ![Key(c, now)] = today[Key(c, now)] + 1])
<1> DEFINE route == Route(disk.last, m)
           past  == route \ rest
           past2 == route \ After(c, rest)
<1>1. /\ lastSent = disk.last /\ Decision(disk.last, m, now) = "sent"
      /\ rest \subseteq route
      /\ \A p \in past, x \in rest : p < x
      /\ got = Below(m, now, past, disk.today)
      /\ today = CountedFor(now, got, disk.today)
      /\ capNotified = disk.notified \cup KeysOf(now, Full(m, now, past, disk.today))
  BY DEF HalfWay, Entered
<1>2. route \subseteq Int /\ rest \subseteq Int
  BY RouteType DEF TypeOK, Snapshots, Channels
<1>3. ASSUME NEW x \in rest
      PROVE  /\ today[Key(x, now)] = disk.today[Key(x, now)]
             /\ AtCap(m, now, x, today) <=> AtCap(m, now, x, disk.today)
             /\ Key(x, now) \in Keys /\ Key(x, now) \notin KeysOf(now, got)
  <2>1. x \notin got
    BY <1>1, <1>3 DEF Below
  <2>2. Key(x, now) \in Keys /\ Key(x, now) \notin KeysOf(now, got)
    BY <1>3, <2>1, KeyType, KeyInjective DEF KeysOf
  <2>3. today[Key(x, now)] = disk.today[Key(x, now)]
    BY <1>1, <2>2 DEF CountedFor
  <2> QED
    BY <2>2, <2>3 DEF AtCap
<1>4. /\ After(c, rest) \subseteq route
      /\ past2 = past \cup {x \in rest : x < c} \cup {c}
  <2>1. \A x \in rest : x \in After(c, rest) \/ x < c \/ x = c
    BY <1>2 DEF After
  <2>2. \A x \in After(c, rest) : x \in rest /\ ~(x < c) /\ x # c
    BY <1>2 DEF After
  <2> QED
    BY <1>1, <2>1, <2>2
<1>5. \A p \in past2, x \in After(c, rest) : p < x
  <2> SUFFICES ASSUME NEW p \in past2, NEW x \in After(c, rest) PROVE p < x
    OBVIOUS
  <2>1. x \in rest /\ x > c
    BY DEF After
  <2> QED
    BY <1>1, <1>2, <1>4, <2>1
<1>6. \A x \in rest : x < c => AtCap(m, now, x, disk.today) /\ Key(x, now) \in capNotified
  BY <1>3 DEF PassedOver
<1> DEFINE before == {x \in rest : x < c}
<1>7. /\ Full(m, now, past2, disk.today) = Full(m, now, past, disk.today) \cup before
                                 \cup (IF AtCap(m, now, c, today) THEN {c} ELSE {})
      /\ Below(m, now, past2, disk.today) = got \cup (IF AtCap(m, now, c, today) THEN {} ELSE {c})
  <2>1. before \subseteq rest /\ before \cap past = {} /\ c \notin past /\ c \notin before
    BY <1>2
  <2>2. Full(m, now, past2, disk.today) = Full(m, now, past, disk.today) \cup before
                                 \cup (IF AtCap(m, now, c, today) THEN {c} ELSE {})
    BY <1>3, <1>4, <1>6 DEF Full
  <2>3. Below(m, now, past2, disk.today) = got \cup (IF AtCap(m, now, c, today) THEN {} ELSE {c})
    BY <1>1, <1>4, <2>1, <2>2 DEF Below, Full
  <2> QED
    BY <2>2, <2>3
<1> HIDE DEF past2, past, route
<1>8. disk.notified \cup KeysOf(now, Full(m, now, past2, disk.today))
        = IF AtCap(m, now, c, today) THEN capNotified \cup {Key(c, now)} ELSE capNotified
  <2>1. KeysOf(now, before) \subseteq capNotified
    BY <1>6 DEF KeysOf
  <2>2. KeysOf(now, Full(m, now, past2, disk.today))
          = KeysOf(now, Full(m, now, past, disk.today)) \cup KeysOf(now, before)
              \cup (IF AtCap(m, now, c, today) THEN {Key(c, now)} ELSE {})
    <3>1. CASE AtCap(m, now, c, today)
      BY <1>7, <3>1 DEF KeysOf
    <3>2. CASE ~AtCap(m, now, c, today)
      BY <1>7, <3>2 DEF KeysOf
    <3> QED
      BY <3>1, <3>2
  <2> QED
    BY <1>1, <2>1, <2>2
<1>9. CountedFor(now, got \cup {c}, disk.today) = [today EXCEPT ![Key(c, now)] = today[Key(c, now)] + 1]
  <2>1. KeysOf(now, got \cup {c}) = KeysOf(now, got) \cup {Key(c, now)}
    BY DEF KeysOf
  <2>2. today[Key(c, now)] = disk.today[Key(c, now)] /\ Key(c, now) \notin KeysOf(now, got)
    BY <1>3
  <2> QED
    BY <1>1, <2>1, <2>2 DEF CountedFor
<1> QED
  BY <1>1, <1>4, <1>5, <1>7, <1>8, <1>9 DEF past2, route, Entered

LEMMA AdvanceWhole ==
    ASSUME OneCaller, SoundDisk, TypeOK, cancels' = 0,
           NEW s \in Senders, NEW m \in Messages, NEW now \in Time,
           NEW rest \in SUBSET Channels, NEW got \in SUBSET Channels,
           NEW today \in Counters,
           HalfWay(m, now, rest, got, today),
           Advance(s, m, now, rest, got, today)
    PROVE  /\ Whole'
           /\ disk' = disk \/ FileLedger!Enter(m, now)
<1>0. CallType
  BY TypeSplit
<1>1. CASE Settle(s, m, now, got, today) /\ \A x \in rest : PassedOver(m, now, x, today)
  <2>1. \A x \in Senders : task'[x] = Idle
    BY <1>1, OnlyTask DEF Settle, TypeOK
  <2>2. disk' = InMemory'
    BY <1>1, SaveDurable DEF Settle, SoundDisk
  <2>3. FileLedger!Enter(m, now)
    BY <1>1, SettleEnters
  <2> QED
    BY <2>1, <2>2, <2>3 DEF Whole
<1>2. ASSUME NEW c \in rest, \A x \in rest : x < c => PassedOver(m, now, x, today),
             sentToday' = today, AtCap(m, now, c, today),
             NotifyCap(s, m, now, c, rest, got, today)
      PROVE  Whole' /\ disk' = disk
  <2>1. /\ task'[s] = [m |-> m, now |-> now, at |-> c, what |-> "notice",
                       read |-> today[Key(c, now)], rest |-> After(c, rest), got |-> got]
        /\ task'[s] # Idle
        /\ Reached(task'[s]) = got
        /\ Ahead(task[s])' = today
    BY <1>0, <1>2, NoticeSuspends
  <2>2. disk' = disk /\ lastSent' = lastSent /\ capNotified' = capNotified \cup {Key(c, now)}
    BY <1>2 DEF NotifyCap
  <2>3. Entered(disk', lastSent', capNotified', m, now, After(c, rest), got, today)
    <3>1. Entered(disk, lastSent, capNotified \cup {Key(c, now)}, m, now, After(c, rest), got, today)
      BY <1>2, LoopMoves
    <3> QED
      BY <2>2, <3>1
  <2>4. HalfWay(task[s].m, task[s].now, task[s].rest, Reached(task[s]), Ahead(task[s]))'
    BY <2>1, <2>3 DEF HalfWay
  <2> QED
    BY <2>1, <2>2, <2>4, OnlyTask DEF Whole, Quiet
<1>3. ASSUME NEW c \in rest, \A x \in rest : x < c => PassedOver(m, now, x, today),
             sentToday' = today, ~AtCap(m, now, c, today),
             HandOver(s, m, now, c, rest, got, today)
      PROVE  Whole' /\ disk' = disk
  <2> DEFINE ahead == [today EXCEPT ![Key(c, now)] = today[Key(c, now)] + 1]
  <2>1. /\ task'[s] = [m |-> m, now |-> now, at |-> c, what |-> "message",
                       read |-> today[Key(c, now)], rest |-> After(c, rest), got |-> got]
        /\ task'[s] # Idle
        /\ Reached(task'[s]) = got \cup {c}
        /\ Ahead(task[s])' = ahead
    BY <1>0, <1>3, HandOverSuspends
  <2>2. disk' = disk /\ lastSent' = lastSent /\ capNotified' = capNotified
    BY <1>3 DEF HandOver
  <2>3. Entered(disk', lastSent', capNotified', m, now, After(c, rest), got \cup {c}, ahead)
    <3>1. Entered(disk, lastSent, capNotified, m, now, After(c, rest), got \cup {c}, ahead)
      BY <1>3, LoopMoves
    <3> QED
      BY <2>2, <3>1
  <2>4. HalfWay(task[s].m, task[s].now, task[s].rest, Reached(task[s]), Ahead(task[s]))'
    BY <2>1, <2>3 DEF HalfWay
  <2> QED
    BY <2>1, <2>2, <2>4, OnlyTask DEF Whole, Quiet
<1> QED
  BY <1>1, <1>2, <1>3, AdvanceSplit

-----------------------------------------------------------------------------
LEMMA InitWhole == Init => Whole
<1> SUFFICES ASSUME Init PROVE Whole
  OBVIOUS
<1>1. disk = InMemory
  BY InitDurable
<1> QED
  BY <1>1 DEF Init, Whole

LEMMA SendWhole ==
    ASSUME OneCaller, SoundDisk, TypeOK, Whole,
           NEW s \in Senders, NEW m \in Messages, Send(s, m)
    PROVE  Whole' /\ (disk' = disk \/ FileLedger!Enter(m, clock))
<1>1. cancels' = 0 /\ disk = InMemory
  BY SendAdvances, OnlyTask DEF Whole
<1>2. CASE Decision(lastSent, m, clock) = "sent"
           /\ Advance(s, m, clock, Route(lastSent, m), {}, sentToday)
  <2>1. /\ Route(lastSent, m) \in SUBSET Channels
        /\ clock \in Time /\ sentToday \in Counters
    BY RouteType DEF TypeOK
  <2>2. lastSent = disk.last /\ sentToday = disk.today /\ capNotified = disk.notified
    BY <1>1 DEF InMemory, Snapshot
  <2>3. HalfWay(m, clock, Route(lastSent, m), {}, sentToday)
    <3>1. CountedFor(clock, {}, disk.today) = disk.today
      BY DEF CountedFor, KeysOf, TypeOK, Snapshots, Counters
    <3>2. /\ Below(m, clock, {}, disk.today) = {}
          /\ KeysOf(clock, Full(m, clock, {}, disk.today)) = {}
      BY DEF Below, Full, KeysOf
    <3>3. Route(lastSent, m) \ Route(lastSent, m) = {}
      OBVIOUS
    <3> QED
      BY <1>2, <2>2, <3>1, <3>2, <3>3 DEF HalfWay, Entered
  <2> QED
    BY <1>1, <1>2, <2>1, <2>3, AdvanceWhole
<1>3. CASE UNCHANGED <<memory, task, disk, observed>>
  BY <1>1, <1>3 DEF memory, Whole, Quiet, HalfWay, Entered, InMemory, Ahead
<1> QED
  BY <1>2, <1>3, SendAdvances

LEMMA ReturnWhole ==
    ASSUME OneCaller, SoundDisk, TypeOK, Whole, NEW s \in Senders, Return(s)
    PROVE  /\ Whole'
           /\ task[s].m \in Messages /\ task[s].now \in Time
           /\ disk' = disk \/ FileLedger!Enter(task[s].m, task[s].now)
<1>1. task[s] \in Frames /\ sentToday \in Counters
  BY ReturnAdvances DEF TypeOK
<1>2. HalfWay(task[s].m, task[s].now, task[s].rest, Reached(task[s]), Ahead(task[s]))
  BY ReturnAdvances DEF Whole
<1>3. cancels' = 0
  BY ReturnAdvances DEF Whole, bounds
<1> QED
  BY <1>1, <1>2, <1>3, ReturnAdvances, FrameParts, AheadType, AdvanceWhole

LEMMA StepWhole ==
    ASSUME OneCaller, SoundDisk, MaxCancels = 0, TypeOK, Whole, [Next]_vars
    PROVE  Whole' /\ [FileLedger!LedgerNext]_disk
<1>1. ASSUME NEW s \in Senders, NEW m \in Messages, Send(s, m)
      PROVE  Whole' /\ [FileLedger!LedgerNext]_disk
  <2>1. Whole' /\ (disk' = disk \/ FileLedger!Enter(m, clock))
    BY <1>1, SendWhole
  <2>2. clock \in FileLedger!Time
    BY SamePolicy DEF TypeOK
  <2> QED
    BY <2>1, <2>2 DEF FileLedger!LedgerNext
<1>2. ASSUME NEW s \in Senders, Return(s)
      PROVE  Whole' /\ [FileLedger!LedgerNext]_disk
  <2>1. /\ Whole'
        /\ task[s].m \in Messages /\ task[s].now \in Time
        /\ disk' = disk \/ FileLedger!Enter(task[s].m, task[s].now)
    BY <1>2, ReturnWhole
  <2>2. task[s].now \in FileLedger!Time
    BY <2>1, SamePolicy
  <2> QED
    BY <2>1, <2>2 DEF FileLedger!LedgerNext
<1>3. ASSUME NEW s \in Senders, Cancel(s) PROVE FALSE
  BY <1>3 DEF Cancel, Whole
<1>4. CASE Restart
  <2>1. disk' = disk /\ disk' = InMemory' /\ \A s \in Senders : task'[s] = Idle
    BY <1>4, RestartLoads DEF Restart, SoundDisk
  <2> QED
    BY <1>4, <2>1 DEF Restart, Whole
<1>5. CASE Tick
  BY <1>5 DEF Tick, memory, bounds, Whole, Quiet, HalfWay, InMemory, Ahead
<1>6. CASE UNCHANGED vars
  BY <1>6 DEF vars, memory, bounds, Whole, Quiet, HalfWay, InMemory, Ahead
<1> QED
  BY <1>1, <1>2, <1>3, <1>4, <1>5, <1>6 DEF Next

LEMMA InitLedger == Init /\ SoundDisk => FileLedger!LedgerInit
<1> SUFFICES ASSUME Init, SoundDisk PROVE FileLedger!LedgerInit
  OBVIOUS
<1>1. PICK old \in SUBSET LegacyFps : disk = LegacyDisk(old)
  BY DEF Init, SoundDisk
<1>2. FileLedger!LegacyDisk(old) = LegacyDisk(old)
  BY SamePolicy, SameRecord
     DEF FileLedger!LegacyDisk, FileLedger!EmptyDisk, LegacyDisk, EmptyDisk
<1> QED
  BY <1>1, <1>2 DEF FileLedger!LedgerInit

\* The file moves by whole messages, each decided on the file as it was and
\* counted once on every channel below its cap: awaits, notices and restarts
\* at any point are invisible in it (dispatch.py:171-187, 223-283).
THEOREM TheFileIsALedger ==
    ASSUME OneCaller, SoundDisk, MaxCancels = 0
    PROVE  Spec => FileIsLedger
<1>1. Init => TypeOK /\ Whole /\ FileLedger!LedgerInit
  BY InitType, InitWhole, InitLedger
<1>2. TypeOK /\ Whole /\ [Next]_vars
        => (TypeOK /\ Whole)' /\ [FileLedger!LedgerNext]_disk
  BY StepType, StepWhole
<1> QED
  BY <1>1, <1>2, PTL DEF Spec, FileIsLedger, FileLedger!LedgerSpec

-----------------------------------------------------------------------------
(***************************************************************************)
(* The ingress: each alert that is accepted is a caller of `send', any     *)
(* number of them at once.                                                 *)
(***************************************************************************)
\* What a step of a call does to the caller, to its fingerprint and to the others:
\* it ends, or is suspended.  `got' is whom the call has reached, `now' its beginning.
Moves(s, m, now, got, today) ==
    /\ \A x \in Senders \ {s} : task'[x] = task[x]
    /\ \/ /\ Settle(s, m, now, got, today)
          /\ task'[s] = Idle /\ openSince' = openSince
          /\ outcome'[s] = IF got = {} THEN "capped" ELSE "sent"
       \/ /\ task'[s] # Idle /\ task'[s].m = m /\ task'[s].now = now
          /\ lastSent' = lastSent
          /\ \/ Reached(task'[s]) = got /\ openSince' = openSince
             \/ /\ Reached(task'[s]) # {}
                /\ openSince' = [openSince EXCEPT ![m.fp] = Shown(m, now)]

LEMMA CallMoves ==
    ASSUME TypeOK, NEW s \in Senders, NEW m \in Messages, NEW now \in Time,
           NEW rest \in SUBSET Channels, NEW got \in SUBSET Channels,
           NEW today \in Counters,
           Advance(s, m, now, rest, got, today)
    PROVE  Moves(s, m, now, got, today)
<1>0. CallType
  BY TypeSplit
<1>1. CASE Settle(s, m, now, got, today)
  BY <1>1 DEF Moves, Settle, observed, TypeOK
<1>2. ASSUME NEW c \in rest, sentToday' = today, NotifyCap(s, m, now, c, rest, got, today)
      PROVE  /\ \A x \in Senders \ {s} : task'[x] = task[x]
             /\ task'[s] # Idle /\ task'[s].m = m /\ task'[s].now = now
             /\ lastSent' = lastSent /\ Reached(task'[s]) = got /\ openSince' = openSince
  <2>1. /\ task'[s] = [m |-> m, now |-> now, at |-> c, what |-> "notice",
                       read |-> today[Key(c, now)], rest |-> After(c, rest), got |-> got]
        /\ task'[s] # Idle
        /\ Reached(task'[s]) = got
        /\ Ahead(task[s])' = today
    BY <1>0, <1>2, NoticeSuspends
  <2>2. \A x \in Senders \ {s} : task'[x] = task[x]
    BY <1>2 DEF NotifyCap, TypeOK
  <2> QED
    BY <1>2, <2>1, <2>2 DEF NotifyCap
<1>3. ASSUME NEW c \in rest, sentToday' = today, HandOver(s, m, now, c, rest, got, today)
      PROVE  /\ \A x \in Senders \ {s} : task'[x] = task[x]
             /\ task'[s] # Idle /\ task'[s].m = m /\ task'[s].now = now
             /\ lastSent' = lastSent /\ Reached(task'[s]) # {}
             /\ openSince' = [openSince EXCEPT ![m.fp] = Shown(m, now)]
  <2>1. /\ task'[s] = [m |-> m, now |-> now, at |-> c, what |-> "message",
                       read |-> today[Key(c, now)], rest |-> After(c, rest), got |-> got]
        /\ task'[s] # Idle
        /\ Reached(task'[s]) = got \cup {c}
        /\ Ahead(task[s])' = [today EXCEPT ![Key(c, now)] = today[Key(c, now)] + 1]
    BY <1>0, <1>3, HandOverSuspends
  <2>2. \A x \in Senders \ {s} : task'[x] = task[x]
    BY <1>3 DEF HandOver, TypeOK
  <2>3. openSince' = [openSince EXCEPT ![m.fp] = Shown(m, now)]
    BY <1>3 DEF HandOver, Observe, Shown
  <2> QED
    BY <1>3, <2>1, <2>2, <2>3 DEF HandOver
<1> QED
  BY <1>1, <1>2, <1>3, AdvanceSplit DEF Moves

LEMMA MessageOf ==
    ASSUME NEW a \in Alerts
    PROVE  /\ a \in Senders
           /\ ToMessage(SignalOf[a]) \in Messages
           /\ ToMessage(SignalOf[a]).fp = Fp(a) /\ Fp(a) \in Fingerprints
           /\ ToMessage(SignalOf[a]).force = FALSE
           /\ IsResolved(ToMessage(SignalOf[a])) <=> ~Firing(a)
           /\ SignalOf[a].status \in {"firing", "resolved"}
<1>1. /\ Alerts = Senders /\ ToMessage(SignalOf[a]) \in Messages
      /\ SignalOf[a].fp \in Fingerprints /\ SignalOf[a].status \in {"firing", "resolved"}
  BY IngressAssumption DEF IngressAssumption
<1>2. SeverityOf(SignalOf[a].severity) # "resolved"
  BY DEF SeverityOf
<1>3. /\ ToMessage(SignalOf[a]).fp = SignalOf[a].fp /\ ToMessage(SignalOf[a]).force = FALSE
      /\ ToMessage(SignalOf[a]).sev = IF SignalOf[a].status = "resolved" THEN "resolved"
                                      ELSE SeverityOf(SignalOf[a].severity)
  BY DEF ToMessage
<1> QED
  BY <1>1, <1>2, <1>3 DEF Fp, Firing, IsResolved

\* What a task does inside `send'.
Steps(a, now, got, today) ==
    /\ Moves(a, ToMessage(SignalOf[a]), now, got, today)
    /\ UNCHANGED <<clock, restarts, cancels, broken>>

\* A call that the policy refuses at once.
Refuses(a) ==
    /\ UNCHANGED <<memory, task, disk, observed, clock, restarts, cancels, broken>>
    /\ Decision(lastSent, ToMessage(SignalOf[a]), clock) # "sent"
    /\ outcome'[a] = Decision(lastSent, ToMessage(SignalOf[a]), clock)

LEMMA SendSteps ==
    ASSUME TypeOK, NEW a \in Alerts, Send(a, ToMessage(SignalOf[a]))
    PROVE  /\ task[a] = Idle
           /\ \/ Refuses(a)
              \/ /\ Decision(lastSent, ToMessage(SignalOf[a]), clock) = "sent"
                 /\ Steps(a, clock, {}, sentToday)
<1> DEFINE m == ToMessage(SignalOf[a])
<1>1. a \in Senders /\ m \in Messages /\ m.fp = Fp(a) /\ Senders = Alerts
  BY MessageOf, IngressAssumption DEF IngressAssumption
<1> HIDE DEF m
<1>2. task[a] = Idle /\ UNCHANGED <<clock, restarts, cancels, broken>>
  BY DEF Send
<1>3. CASE Decision(lastSent, m, clock) = "sent"
  <2>1. Advance(a, m, clock, Route(lastSent, m), {}, sentToday)
    BY <1>3 DEF Send, m
  <2>2. /\ Route(lastSent, m) \in SUBSET Channels
        /\ clock \in Time /\ sentToday \in Counters
    BY <1>1, RouteType DEF TypeOK
  <2> QED
    BY <1>1, <1>2, <1>3, <2>1, <2>2, CallMoves DEF Steps, m
<1>4. CASE Decision(lastSent, m, clock) # "sent"
  <2>1. /\ outcome' = [outcome EXCEPT ![a] = Decision(lastSent, m, clock)]
        /\ UNCHANGED <<memory, task, disk, observed>>
    BY <1>4 DEF Send, m
  <2>2. outcome'[a] = Decision(lastSent, m, clock)
    BY <1>1, <2>1 DEF TypeOK
  <2> QED
    BY <1>2, <1>4, <2>1, <2>2 DEF Refuses, m
<1> QED
  BY <1>2, <1>3, <1>4 DEF m

LEMMA ReturnSteps ==
    ASSUME TypeOK, NEW a \in Alerts, task[a].m = ToMessage(SignalOf[a]), Return(a)
    PROVE  /\ task[a] # Idle
           /\ task[a].now \in Time
           /\ Steps(a, task[a].now, Reached(task[a]), Ahead(task[a]))
<1>1. a \in Senders /\ ToMessage(SignalOf[a]).fp = Fp(a) /\ Senders = Alerts
  BY MessageOf, IngressAssumption DEF IngressAssumption
<1>2. task[a] \in Frames /\ sentToday \in Counters /\ task[a] # Idle
  BY <1>1, ReturnAdvances DEF TypeOK
<1>3. /\ Advance(a, task[a].m, task[a].now, task[a].rest, Reached(task[a]), Ahead(task[a]))
      /\ UNCHANGED <<clock, restarts, cancels, broken>>
  BY <1>1, ReturnAdvances DEF bounds
<1>4. /\ task[a].m \in Messages /\ task[a].now \in Time /\ task[a].rest \in SUBSET Channels
      /\ Reached(task[a]) \in SUBSET Channels /\ Ahead(task[a]) \in Counters
  BY <1>2, FrameParts, AheadType
<1> QED
  BY <1>1, <1>2, <1>3, <1>4, CallMoves DEF Steps

-----------------------------------------------------------------------------
Stages == {"absent", "waiting", "queued", "enriching", "sending", "done", "over", "lost"}
Verdicts == Decisions \cup {"pending", "inflight", "overloaded"}

LEMMA DecideType ==
    ASSUME NEW last, NEW m, NEW now
    PROVE  Decide(last, m, now) \in Decisions
BY DEF Decide, Decisions

LEMMA InitIngressType == IngressInit => IngressTypeOK
BY InitType DEF IngressInit, IngressTypeOK

LEMMA ReceiveType ==
    ASSUME IngressTypeOK, NEW a \in Alerts, Receive(a)
    PROVE  IngressTypeOK'
<1>1. TypeOK'
  BY DEF Receive, IngressTypeOK, vars, memory, observed, bounds, TypeOK
<1>2. Verdict(a) \in Verdicts
  BY DecideType DEF Verdict, Verdicts, Decisions
<1>3. InFlight(Fp(a)) \in Alerts \cup {Nobody} /\ Fp(a) \in Fingerprints
  BY MessageOf DEF InFlight, IngressTypeOK
<1>4. lastSeen' \in [Fingerprints -> {"none", "firing", "resolved"}]
  BY <1>3, MessageOf DEF Receive, IngressTypeOK
<1>5. CASE Skip(a, Verdict(a))
  BY <1>1, <1>2, <1>4, <1>5 DEF Skip, IngressTypeOK, Verdicts
<1>6. CASE Enqueue(a)
  BY <1>1, <1>3, <1>4, <1>6 DEF Enqueue, IngressTypeOK
<1> QED
  BY <1>5, <1>6 DEF Receive

LEMMA RecordedType ==
    ASSUME IngressTypeOK, NEW a \in Alerts, Recorded(a),
           task'[a] = Idle => outcome'[a] \in Decisions
    PROVE  /\ stage' \in [Alerts -> Stages]
           /\ decision' \in [Alerts -> Verdicts]
BY DEF Recorded, IngressTypeOK, Stages, Verdicts

LEMMA DispatchType ==
    ASSUME IngressTypeOK, NEW a \in Alerts, Dispatch(a)
    PROVE  IngressTypeOK'
<1>1. TypeOK'
  BY MessageOf, SendType DEF Dispatch, IngressTypeOK
<1>2. TypeOK /\ a \in Senders /\ ToMessage(SignalOf[a]) \in Messages
  BY MessageOf DEF IngressTypeOK
<1>3. task'[a] = Idle => outcome'[a] \in Decisions
  <2>1. Refuses(a) \/ Steps(a, clock, {}, sentToday)
    BY <1>2, SendSteps DEF Dispatch
  <2>2. CASE Refuses(a)
    BY <1>2, <2>2, DecisionType DEF Refuses, TypeOK
  <2>3. CASE Steps(a, clock, {}, sentToday)
    BY <2>3 DEF Steps, Moves, Decisions
  <2> QED
    BY <2>1, <2>2, <2>3
<1> QED
  BY <1>1, <1>3, RecordedType DEF Dispatch, IngressTypeOK, Stages, Verdicts

LEMMA DeliverType ==
    ASSUME IngressTypeOK, NEW a \in Alerts, Deliver(a)
    PROVE  IngressTypeOK'
<1>1. TypeOK /\ a \in Senders
  BY MessageOf DEF IngressTypeOK
<1>2. TypeOK'
  BY <1>1, ReturnType DEF Deliver
<1>3. task'[a] = Idle => outcome'[a] \in Decisions
  <2>1. task[a] \in Frames /\ sentToday \in Counters /\ task[a] # Idle
    BY <1>1, ReturnAdvances DEF TypeOK, Deliver
  <2>2. Advance(a, task[a].m, task[a].now, task[a].rest, Reached(task[a]), Ahead(task[a]))
    BY <1>1, ReturnAdvances DEF Deliver
  <2>3. /\ task[a].m \in Messages /\ task[a].now \in Time /\ task[a].rest \in SUBSET Channels
        /\ Reached(task[a]) \in SUBSET Channels /\ Ahead(task[a]) \in Counters
    BY <2>1, FrameParts, AheadType
  <2>4. Moves(a, task[a].m, task[a].now, Reached(task[a]), Ahead(task[a]))
    BY <1>1, <2>2, <2>3, CallMoves
  <2> QED
    BY <2>4 DEF Moves, Decisions
<1> QED
  BY <1>2, <1>3, RecordedType DEF Deliver, IngressTypeOK, Stages, Verdicts

LEMMA ProgressType ==
    ASSUME IngressTypeOK, NEW a \in Alerts, Progress(a)
    PROVE  IngressTypeOK'
<1>1. CASE AfterFiring(a)
  <2>1. TypeOK'
    BY <1>1 DEF AfterFiring, IngressTypeOK, vars, memory, observed, bounds, TypeOK
  <2>2. Decide(lastSent, ToMessage(SignalOf[a]), clock) \in Decisions
    BY DecideType
  <2> QED
    BY <1>1, <2>1, <2>2 DEF AfterFiring, IngressTypeOK
<1>2. CASE Start(a)
  <2>1. CASE Firing(a)
    <3>1. TypeOK'
      BY <1>2, <2>1 DEF Start, IngressTypeOK, vars, memory, observed, bounds, TypeOK
    <3> QED
      BY <1>2, <2>1, <3>1 DEF Start, IngressTypeOK
  <2>2. CASE ~Firing(a)
    BY <1>2, <2>2, DispatchType DEF Start
  <2> QED
    BY <2>1, <2>2
<1>3. CASE Enriched(a)
  BY <1>3, DispatchType DEF Enriched
<1>4. CASE Deliver(a)
  BY <1>4, DeliverType
<1>5. CASE Reap(a)
  <2>1. TypeOK'
    BY <1>5 DEF Reap, IngressTypeOK, vars, memory, observed, bounds, TypeOK
  <2> QED
    BY <1>5, <2>1 DEF Reap, IngressTypeOK
<1> QED
  BY <1>1, <1>2, <1>3, <1>4, <1>5 DEF Progress

LEMMA DieType ==
    ASSUME IngressTypeOK, Die
    PROVE  IngressTypeOK'
<1>1. TypeOK'
  BY RestartType DEF Die, IngressTypeOK
<1> QED
  BY <1>1 DEF Die, IngressTypeOK

LEMMA StepIngressType == IngressTypeOK /\ [IngressNext]_ivars => IngressTypeOK'
<1> SUFFICES ASSUME IngressTypeOK, [IngressNext]_ivars
             PROVE  IngressTypeOK'
  OBVIOUS
<1>1. CASE Tick /\ UNCHANGED ingress
  <2>1. TypeOK'
    BY <1>1, StepType DEF Next, IngressTypeOK
  <2> QED
    BY <1>1, <2>1 DEF ingress, IngressTypeOK
<1>2. CASE UNCHANGED ivars
  BY <1>2 DEF ivars, ingress, vars, memory, observed, bounds, IngressTypeOK, TypeOK
<1> QED
  BY <1>1, <1>2, ReceiveType, ProgressType, DieType DEF IngressNext

\* Whatever is received, drained, delivered or lost (ingress.py), the queue,
\* the records and the calls of the ingress stay well typed.
THEOREM IngressTypeCorrect == IngressSpec => []IngressTypeOK
BY InitIngressType, StepIngressType, PTL DEF IngressSpec

-----------------------------------------------------------------------------
(***************************************************************************)
(* The ingress is one of the programs that may call the dispatcher.        *)
(***************************************************************************)
LEMMA IngressStepsCall == [IngressNext]_ivars => [Next]_vars
<1> SUFFICES ASSUME [IngressNext]_ivars PROVE [Next]_vars
  OBVIOUS
<1>1. ASSUME NEW a \in Alerts, Receive(a) PROVE UNCHANGED vars
  BY <1>1 DEF Receive
<1>2. ASSUME NEW a \in Alerts, Dispatch(a) PROVE Next
  BY <1>2, MessageOf DEF Dispatch, Next
<1>3. ASSUME NEW a \in Alerts, Progress(a) PROVE [Next]_vars
  <2>1. ASSUME Deliver(a) PROVE Next
    BY <2>1, MessageOf DEF Deliver, Next
  <2>2. CASE AfterFiring(a) \/ Reap(a)
    BY <2>2 DEF AfterFiring, Reap
  <2>3. CASE Start(a) \/ Enriched(a)
    BY <1>2, <2>3 DEF Start, Enriched
  <2> QED
    BY <1>3, <2>1, <2>2, <2>3 DEF Progress
<1>4. ASSUME Die \/ Tick PROVE Next
  BY <1>4 DEF Die, Next
<1>5. ASSUME UNCHANGED ivars PROVE UNCHANGED vars
  BY <1>5 DEF ivars
<1> QED
  BY <1>1, <1>3, <1>4, <1>5 DEF IngressNext

\* The tasks of the ingress call `send' as any caller may (ingress.py:214-244):
\* what holds of the dispatcher whatever its callers do, holds under the ingress.
THEOREM IngressIsACaller == IngressSpec => Spec
<1>1. IngressInit => Init
  BY DEF IngressInit
<1> QED
  BY <1>1, IngressStepsCall, PTL DEF IngressSpec, Spec

-----------------------------------------------------------------------------
(***************************************************************************)
(* Who is doing what: a task is in a call of `send' while it is sending    *)
(* and for no other message than its own (Calling); at most one firing of  *)
(* a fingerprint is under way, the one _inflight names (OneFiring); and a  *)
(* RESOLVED waits for the firing of its fingerprint and nothing else of it *)
(* is under way, unless an alert crossed it (OneClose).                    *)
(***************************************************************************)
Calling ==
    \A a \in Alerts :
        /\ task[a] # Idle <=> stage[a] = "sending"
        /\ task[a] # Idle => task[a].m = ToMessage(SignalOf[a]) /\ task[a].now <= clock

OneFiring ==
    /\ \A f \in Fingerprints : inflight[f] # Nobody =>
          /\ Firing(inflight[f]) /\ Fp(inflight[f]) = f
          /\ inflight[f] \in Active \/ stage[inflight[f]] = "done"
    /\ \A a \in Active : Firing(a) => inflight[Fp(a)] = a

OneClose ==
    /\ \A r \in Alerts : stage[r] = "waiting" =>
          ~Firing(r) /\ waitsFor[r] \in Alerts /\ Firing(waitsFor[r])
    /\ \A r \in Active, x \in Active :
          (~Firing(r) /\ Fp(r) \notin crossed /\ x # r /\ Fp(x) = Fp(r))
              => stage[r] = "waiting" /\ waitsFor[r] = x

Roles == Calling /\ OneFiring /\ OneClose

\* Two alerts of a fingerprint that nothing crossed do not call at once.
LEMMA CallsAlone ==
    ASSUME OneFiring, OneClose,
           NEW a \in Active, NEW x \in Active, Fp(x) = Fp(a), Fp(a) \notin crossed,
           stage[a] # "waiting", stage[x] # "waiting"
    PROVE  x = a
BY DEF OneFiring, OneClose

\* What a task does in `send', from what it was doing.
Continues(a, now, got, today) ==
    /\ Steps(a, now, got, today)
    /\ Recorded(a)
    /\ stage[a] \in {"queued", "enriching", "sending"}
    /\ now \in Time /\ now <= clock /\ got \in SUBSET Channels /\ today \in Counters
    /\ IF task[a] = Idle THEN got = {} ELSE got = Reached(task[a]) /\ now = task[a].now
    /\ UNCHANGED <<pending, inflight, waitsFor, lastSeen, crossed>>

TurnedDown(a) ==
    /\ Refuses(a)
    /\ Recorded(a)
    /\ stage[a] \in {"queued", "enriching", "sending"} /\ task[a] = Idle
    /\ UNCHANGED <<pending, inflight, waitsFor, lastSeen, crossed>>

Enriches(a) ==
    /\ stage[a] = "queued" /\ Firing(a)
    /\ stage' = [stage EXCEPT ![a] = "enriching"]
    /\ UNCHANGED <<vars, decision, pending, inflight, waitsFor, lastSeen, crossed>>

LEMMA DispatchSplit ==
    ASSUME IngressTypeOK, NEW a \in Alerts, Dispatch(a), stage[a] \in {"queued", "enriching"}
    PROVE  TurnedDown(a) \/ \E now, got, today : Continues(a, now, got, today)
<1>1. TypeOK /\ clock \in Time /\ sentToday \in Counters /\ {} \in SUBSET Channels
  BY DEF IngressTypeOK, TypeOK
<1>2. task[a] = Idle /\ (Refuses(a) \/ Steps(a, clock, {}, sentToday))
  BY <1>1, SendSteps DEF Dispatch
<1>3. CASE Refuses(a)
  BY <1>2, <1>3 DEF Dispatch, TurnedDown
<1>4. CASE Steps(a, clock, {}, sentToday)
  <2>1. clock <= clock
    BY <1>1, ClocksAreNumbers
  <2>2. Continues(a, clock, {}, sentToday)
    BY <1>1, <1>2, <1>4, <2>1 DEF Dispatch, Continues
  <2> QED
    BY <2>2
<1> QED
  BY <1>2, <1>3, <1>4

LEMMA ProgressSplit ==
    ASSUME IngressTypeOK, Calling, NEW a \in Alerts, Progress(a)
    PROVE  \/ AfterFiring(a) \/ Enriches(a) \/ Reap(a) \/ TurnedDown(a)
           \/ \E now, got, today : Continues(a, now, got, today)
<1>1. CASE Start(a)
  BY <1>1, DispatchSplit DEF Start, Enriches
<1>2. CASE Enriched(a)
  BY <1>2, DispatchSplit DEF Enriched
<1>3. CASE Deliver(a)
  <2>1. TypeOK /\ a \in Senders /\ task[a] # Idle
    BY <1>3, MessageOf DEF IngressTypeOK, Deliver, Calling
  <2>2. task[a].m = ToMessage(SignalOf[a]) /\ task[a].now <= clock /\ Return(a)
    BY <1>3, <2>1 DEF Calling, Deliver
  <2>3. task[a].now \in Time /\ Steps(a, task[a].now, Reached(task[a]), Ahead(task[a]))
    BY <2>1, <2>2, ReturnSteps
  <2>4. task[a] \in Frames /\ sentToday \in Counters
    BY <2>1 DEF TypeOK
  <2>5. Reached(task[a]) \in SUBSET Channels /\ Ahead(task[a]) \in Counters
    BY <2>4, FrameParts, AheadType
  <2>6. Continues(a, task[a].now, Reached(task[a]), Ahead(task[a]))
    BY <1>3, <2>1, <2>2, <2>3, <2>5 DEF Deliver, Continues
  <2> QED
    BY <2>6
<1> QED
  BY <1>1, <1>2, <1>3 DEF Progress

-----------------------------------------------------------------------------
LEMMA InitRoles == IngressInit => Roles
BY IngressAssumption
   DEF IngressInit, Init, Roles, Calling, OneFiring, OneClose, Active, IngressAssumption

\* A call moves its own task between the stages, and no other.
LEMMA RecordedMoves ==
    ASSUME IngressTypeOK, NEW a \in Alerts, Recorded(a), stage[a] \in {"queued", "enriching", "sending"}
    PROVE  /\ \A x \in Alerts \ {a} : stage'[x] = stage[x] /\ decision'[x] = decision[x]
           /\ stage'[a] = IF task'[a] = Idle THEN "done" ELSE "sending"
           /\ task'[a] = Idle => decision'[a] = outcome'[a]
           /\ a \in Active /\ Active' = IF task'[a] = Idle THEN Active \ {a} ELSE Active
<1>1. /\ \A x \in Alerts \ {a} : stage'[x] = stage[x] /\ decision'[x] = decision[x]
      /\ stage'[a] = IF task'[a] = Idle THEN "done" ELSE "sending"
      /\ task'[a] = Idle => decision'[a] = outcome'[a]
  BY DEF Recorded, IngressTypeOK
<1>2. a \in Active
  BY DEF Active
<1>3. CASE task'[a] = Idle
  BY <1>1, <1>2, <1>3 DEF Active
<1>4. CASE task'[a] # Idle
  BY <1>1, <1>2, <1>4 DEF Active
<1> QED
  BY <1>1, <1>2, <1>3, <1>4

LEMMA ReceiveRoles ==
    ASSUME IngressTypeOK, Roles, NEW a \in Alerts, Receive(a)
    PROVE  Roles'
<1>1. UNCHANGED <<task, clock>> /\ stage[a] = "absent" /\ task[a] = Idle
  BY DEF Receive, vars, Roles, Calling
<1>2. Fp(a) \in Fingerprints /\ a \notin Active /\ SignalOf[a].status \in {"firing", "resolved"}
  BY <1>1, MessageOf DEF Active
<1>3. CASE Skip(a, Verdict(a))
  <2>1. /\ \A x \in Alerts \ {a} : stage'[x] = stage[x]
        /\ stage'[a] = "over" /\ Active' = Active
    BY <1>1, <1>3 DEF Skip, IngressTypeOK, Active
  <2>2. UNCHANGED <<inflight, waitsFor, crossed>>
    BY <1>3 DEF Skip
  <2>3. Calling'
    BY <1>1, <2>1 DEF Roles, Calling
  <2>4. OneFiring'
    BY <1>1, <2>1, <2>2 DEF Roles, OneFiring, IngressTypeOK
  <2>5. OneClose'
    BY <1>1, <2>1, <2>2 DEF Roles, OneClose, Active
  <2> QED
    BY <2>3, <2>4, <2>5 DEF Roles
<1>4. CASE Enqueue(a) /\ Verdict(a) = "sent"
  <2> DEFINE previo == InFlight(Fp(a))
  <2>1. /\ \A x \in Alerts \ {a} : stage'[x] = stage[x] /\ waitsFor'[x] = waitsFor[x]
        /\ stage'[a] = IF previo # Nobody THEN "waiting" ELSE "queued"
        /\ waitsFor'[a] = previo
    BY <1>4 DEF Enqueue, IngressTypeOK
  <2>2. Active' = Active \cup {a}
    BY <2>1 DEF Active
  <2>3. previo # Nobody =>
           /\ previo \in Active /\ previo \in Alerts /\ Firing(previo) /\ Fp(previo) = Fp(a)
           /\ previo = inflight[Fp(a)] /\ ~Firing(a)
    BY <1>2, <1>4 DEF InFlight, Roles, OneFiring, Verdict, Active, IngressTypeOK
  <2>4. previo = Nobody => \A x \in Active : Fp(x) = Fp(a) => ~Firing(x)
    BY <1>2, IngressAssumption DEF InFlight, Roles, OneFiring, Active, IngressAssumption
  <2>5. crossed' = IF \E r \in Active : ~Firing(r) /\ Fp(r) = Fp(a)
                   THEN crossed \cup {Fp(a)} ELSE crossed
    BY <1>4 DEF Enqueue
  <2>6. inflight' = IF Firing(a) THEN [inflight EXCEPT ![Fp(a)] = a] ELSE inflight
    BY <1>4 DEF Enqueue
  <2> HIDE DEF previo
  <2>7. Calling'
    BY <1>1, <2>1 DEF Roles, Calling
  <2>8. OneFiring'
    <3>1. CASE Firing(a)
      <4>1. previo = Nobody
        BY <2>3, <3>1
      <4>2. \A x \in Active : Firing(x) => Fp(x) # Fp(a)
        BY <2>4, <4>1
      <4>3. inflight' \in [Fingerprints -> Alerts \cup {Nobody}] /\ inflight'[Fp(a)] = a
        BY <1>2, <2>6, <3>1 DEF IngressTypeOK
      <4>4. \A f \in Fingerprints \ {Fp(a)} : inflight'[f] = inflight[f]
        BY <2>6, <3>1 DEF IngressTypeOK
      <4>5. ASSUME NEW f \in Fingerprints, inflight'[f] # Nobody
            PROVE  /\ Firing(inflight'[f]) /\ Fp(inflight'[f]) = f
                   /\ inflight'[f] \in Active' \/ stage'[inflight'[f]] = "done"
        <5>1. CASE f = Fp(a)
          BY <2>2, <3>1, <4>3, <5>1
        <5>2. CASE f # Fp(a)
          BY <1>1, <2>1, <2>2, <4>4, <4>5, <5>2 DEF Roles, OneFiring, IngressTypeOK
        <5> QED
          BY <5>1, <5>2
      <4>6. ASSUME NEW x \in Active', Firing(x) PROVE inflight'[Fp(x)] = x
        <5>1. CASE x = a
          BY <4>3, <5>1
        <5>2. CASE x # a
          <6>1. x \in Active /\ x \in Alerts
            BY <2>2, <4>6, <5>2 DEF Active
          <6> QED
            BY <4>2, <4>4, <4>6, <6>1, MessageOf DEF Roles, OneFiring
        <5> QED
          BY <5>1, <5>2
      <4> QED
        BY <4>5, <4>6 DEF OneFiring
    <3>2. CASE ~Firing(a)
      BY <1>1, <2>1, <2>2, <2>6, <3>2 DEF Roles, OneFiring, IngressTypeOK
    <3> QED
      BY <3>1, <3>2
  <2>9. OneClose'
    <3>1. ASSUME NEW r \in Alerts, stage'[r] = "waiting"
          PROVE  ~Firing(r) /\ waitsFor'[r] \in Alerts /\ Firing(waitsFor'[r])
      BY <2>1, <2>3, <3>1 DEF Roles, OneClose
    <3>2. ASSUME NEW r \in Active', NEW x \in Active',
                 ~Firing(r), Fp(r) \notin crossed', x # r, Fp(x) = Fp(r)
          PROVE  stage'[r] = "waiting" /\ waitsFor'[r] = x
      <4>1. CASE r = a
        <5>1. x \in Active
          BY <2>2, <3>2, <4>1
        <5>2. Firing(x)
          BY <2>5, <3>2, <4>1, <5>1
        <5>3. previo # Nobody /\ x = inflight[Fp(a)]
          BY <2>4, <3>2, <4>1, <5>1, <5>2 DEF Roles, OneFiring
        <5> QED
          BY <2>1, <2>3, <4>1, <5>3
      <4>2. CASE r # a
        <5>1. r \in Active /\ r \in Alerts
          BY <2>2, <3>2, <4>2 DEF Active
        <5>2. x # a
          BY <2>5, <3>2, <5>1
        <5>3. x \in Active /\ Fp(r) \notin crossed
          BY <2>2, <2>5, <3>2, <5>2
        <5> QED
          BY <2>1, <3>2, <4>2, <5>1, <5>3 DEF Roles, OneClose
      <4> QED
        BY <4>1, <4>2
    <3> QED
      BY <3>1, <3>2 DEF OneClose
  <2> QED
    BY <2>7, <2>8, <2>9 DEF Roles
<1> QED
  BY <1>3, <1>4 DEF Receive

LEMMA AfterFiringRoles ==
    ASSUME IngressTypeOK, Roles, NEW a \in Alerts, AfterFiring(a)
    PROVE  Roles'
<1>1. /\ UNCHANGED <<task, clock, inflight, waitsFor, crossed>>
      /\ stage[a] = "waiting" /\ stage[waitsFor[a]] = "over"
      /\ \A x \in Alerts \ {a} : stage'[x] = stage[x]
      /\ stage'[a] \in {"queued", "done"}
  BY DEF AfterFiring, vars, IngressTypeOK
<1>2. a \in Active /\ Active' \subseteq Active /\ waitsFor[a] \notin Active /\ ~Firing(a)
  BY <1>1 DEF Active, Roles, OneClose
<1>3. Calling'
  BY <1>1 DEF Roles, Calling
<1>4. \A x \in Active : x # a => x \in Active'
  BY <1>1 DEF Active
<1>5. OneFiring'
  <2>1. ASSUME NEW f \in Fingerprints, inflight[f] # Nobody
        PROVE  inflight[f] \in Active' \/ stage'[inflight[f]] = "done"
    BY <1>1, <1>2, <1>4, <2>1 DEF Roles, OneFiring, Active, IngressTypeOK
  <2> QED
    BY <1>1, <1>2, <2>1 DEF Roles, OneFiring
<1>6. OneClose'
  <2>1. ASSUME NEW r \in Alerts, stage'[r] = "waiting"
        PROVE  ~Firing(r) /\ waitsFor'[r] \in Alerts /\ Firing(waitsFor'[r])
    BY <1>1, <2>1 DEF Roles, OneClose
  <2>2. ASSUME NEW r \in Active', NEW x \in Active',
               ~Firing(r), Fp(r) \notin crossed', x # r, Fp(x) = Fp(r)
        PROVE  stage'[r] = "waiting" /\ waitsFor'[r] = x
    <3>1. stage[r] = "waiting" /\ waitsFor[r] = x /\ r \in Alerts
      BY <1>1, <1>2, <2>2 DEF Roles, OneClose, Active
    <3>2. r # a
      BY <1>2, <2>2, <3>1
    <3> QED
      BY <1>1, <3>1, <3>2
  <2> QED
    BY <2>1, <2>2 DEF OneClose
<1> QED
  BY <1>3, <1>5, <1>6 DEF Roles

LEMMA EnrichesRoles ==
    ASSUME IngressTypeOK, Roles, NEW a \in Alerts, Enriches(a)
    PROVE  Roles'
<1>1. /\ UNCHANGED <<task, clock, inflight, waitsFor, crossed>>
      /\ stage[a] = "queued" /\ stage'[a] = "enriching"
      /\ \A x \in Alerts \ {a} : stage'[x] = stage[x]
  BY DEF Enriches, vars, IngressTypeOK
<1>2. Active' = Active
  BY <1>1 DEF Active
<1> QED
  BY <1>1, <1>2 DEF Roles, Calling, OneFiring, OneClose, Active, IngressTypeOK

LEMMA ReapRoles ==
    ASSUME IngressTypeOK, Roles, NEW a \in Alerts, Reap(a)
    PROVE  Roles'
<1>1. /\ UNCHANGED <<task, clock, waitsFor, crossed>>
      /\ stage[a] = "done" /\ stage'[a] = "over"
      /\ \A x \in Alerts \ {a} : stage'[x] = stage[x]
  BY DEF Reap, vars, IngressTypeOK
<1>2. Active' = Active /\ a \notin Active /\ Fp(a) \in Fingerprints /\ a # Nobody
  BY <1>1, MessageOf, IngressAssumption DEF Active, IngressAssumption
<1>3. inflight' = IF inflight[Fp(a)] = a THEN [inflight EXCEPT ![Fp(a)] = Nobody] ELSE inflight
  BY DEF Reap
<1>4. \A f \in Fingerprints : /\ inflight'[f] # Nobody => inflight'[f] = inflight[f]
                              /\ inflight[f] # a => inflight'[f] = inflight[f]
  BY <1>2, <1>3 DEF IngressTypeOK
<1>5. Calling'
  BY <1>1 DEF Roles, Calling
<1>6. OneFiring'
  <2>1. ASSUME NEW f \in Fingerprints, inflight'[f] # Nobody
        PROVE  /\ Firing(inflight'[f]) /\ Fp(inflight'[f]) = f
               /\ inflight'[f] \in Active' \/ stage'[inflight'[f]] = "done"
    <3>1. inflight'[f] = inflight[f] /\ inflight[f] \in Alerts
      BY <1>4, <2>1 DEF IngressTypeOK
    <3>2. inflight[f] # a
      <4>1. SUFFICES ASSUME inflight[f] = a PROVE FALSE
        OBVIOUS
      <4>2. f = Fp(a)
        BY <2>1, <3>1, <4>1 DEF Roles, OneFiring
      <4>3. inflight'[f] = Nobody
        BY <1>3, <4>1, <4>2 DEF IngressTypeOK
      <4> QED
        BY <2>1, <4>3
    <3> QED
      BY <1>1, <1>2, <2>1, <3>1, <3>2 DEF Roles, OneFiring
  <2>2. ASSUME NEW x \in Active', Firing(x) PROVE inflight'[Fp(x)] = x
    <3>1. x \in Active /\ x \in Alerts /\ inflight[Fp(x)] = x /\ x # a
      BY <1>2, <2>2 DEF Roles, OneFiring, Active
    <3> QED
      BY <1>4, <3>1, MessageOf
  <2> QED
    BY <2>1, <2>2 DEF OneFiring
<1>7. OneClose'
  BY <1>1, <1>2 DEF Roles, OneClose, Active
<1> QED
  BY <1>5, <1>6, <1>7 DEF Roles

\* A task in `send', or that ends there, keeps the roles of all.
LEMMA CallRoles ==
    ASSUME IngressTypeOK, Roles, NEW a \in Alerts, Recorded(a),
           stage[a] \in {"queued", "enriching", "sending"},
           \A x \in Alerts \ {a} : task'[x] = task[x],
           task'[a] # Idle => /\ task'[a].m = ToMessage(SignalOf[a])
                              /\ task'[a].now <= clock,
           UNCHANGED <<inflight, waitsFor, crossed, clock>>
    PROVE  Roles'
<1>1. /\ \A x \in Alerts \ {a} : stage'[x] = stage[x]
      /\ stage'[a] = IF task'[a] = Idle THEN "done" ELSE "sending"
      /\ a \in Active /\ Active' = IF task'[a] = Idle THEN Active \ {a} ELSE Active
  BY RecordedMoves
<1>2. Calling'
  BY <1>1 DEF Roles, Calling
<1>3. OneFiring'
  BY <1>1 DEF Roles, OneFiring, IngressTypeOK
<1>4. OneClose'
  <2>1. ASSUME NEW r \in Alerts, stage'[r] = "waiting"
        PROVE  ~Firing(r) /\ waitsFor'[r] \in Alerts /\ Firing(waitsFor'[r])
    BY <1>1, <2>1 DEF Roles, OneClose
  <2>2. ASSUME NEW r \in Active', NEW x \in Active',
               ~Firing(r), Fp(r) \notin crossed', x # r, Fp(x) = Fp(r)
        PROVE  stage'[r] = "waiting" /\ waitsFor'[r] = x
    <3>1. stage[r] = "waiting" /\ waitsFor[r] = x /\ r \in Alerts
      BY <1>1, <2>2 DEF Roles, OneClose, Active
    <3> QED
      BY <1>1, <3>1
  <2> QED
    BY <2>1, <2>2 DEF OneClose
<1> QED
  BY <1>2, <1>3, <1>4 DEF Roles

LEMMA ProgressRoles ==
    ASSUME IngressTypeOK, Roles, NEW a \in Alerts, Progress(a)
    PROVE  Roles'
<1>1. CASE TurnedDown(a)
  <2>1. UNCHANGED <<task, inflight, waitsFor, crossed, clock>> /\ task[a] = Idle
    BY <1>1 DEF TurnedDown, Refuses
  <2> QED
    BY <1>1, <2>1, CallRoles DEF TurnedDown
<1>2. ASSUME NEW now, NEW got, NEW today, Continues(a, now, got, today)
      PROVE  Roles'
  <2>1. /\ \A x \in Alerts \ {a} : task'[x] = task[x]
        /\ task'[a] # Idle => task'[a].m = ToMessage(SignalOf[a]) /\ task'[a].now <= clock
        /\ UNCHANGED <<inflight, waitsFor, crossed, clock>>
    BY <1>2, IngressAssumption DEF Continues, Steps, Moves, IngressAssumption
  <2> QED
    BY <1>2, <2>1, CallRoles DEF Continues
<1> QED
  BY <1>1, <1>2, ProgressSplit, AfterFiringRoles, EnrichesRoles, ReapRoles DEF Roles

LEMMA DieRoles ==
    ASSUME IngressTypeOK, Roles, Die
    PROVE  Roles'
<1>1. /\ \A x \in Alerts : stage'[x] \notin {"waiting", "queued", "enriching", "sending"}
      /\ \A x \in Alerts : task'[x] = Idle
      /\ \A f \in Fingerprints : inflight'[f] = Nobody
  BY IngressAssumption DEF Die, Restart, Active, IngressAssumption
<1>2. Active' = {}
  BY <1>1 DEF Active
<1> QED
  BY <1>1, <1>2 DEF Roles, Calling, OneFiring, OneClose

LEMMA StepRoles == IngressTypeOK /\ Roles /\ [IngressNext]_ivars => Roles'
<1> SUFFICES ASSUME IngressTypeOK, Roles, [IngressNext]_ivars PROVE Roles'
  OBVIOUS
<1>1. CASE Tick /\ UNCHANGED ingress
  <2>1. UNCHANGED <<task, stage, inflight, waitsFor, crossed>> /\ clock' = clock + 1
    BY <1>1 DEF Tick, ingress
  <2>2. \A a \in Alerts : task[a] # Idle => task[a].now \in Int /\ clock \in Int
    BY FrameParts, ClocksAreNumbers, IngressAssumption
       DEF IngressTypeOK, TypeOK, IngressAssumption
  <2>3. Calling'
    BY <2>1, <2>2 DEF Roles, Calling
  <2> QED
    BY <2>1, <2>3 DEF Roles, OneFiring, OneClose, Active
<1>2. CASE UNCHANGED ivars
  BY <1>2 DEF ivars, ingress, vars, Roles, Calling, OneFiring, OneClose, Active
<1> QED
  BY <1>1, <1>2, ReceiveRoles, ProgressRoles, DieRoles DEF IngressNext

-----------------------------------------------------------------------------
(***************************************************************************)
(* The alerts are what the inbox promises, but for its liveness            *)
(* (IngressIsInbox): what is accepted and undecided is in _pending, which  *)
(* the queue limit bounds.                                                 *)
(***************************************************************************)
Boxes == [a \in Alerts |-> BoxOf(a)]

Queued == IsFiniteSet(pending) /\ Active \subseteq pending

LEMMA BoxIs ==
    ASSUME NEW a \in Alerts, IngressTypeOK
    PROVE  /\ Boxes[a] = "unseen" <=> stage[a] = "absent"
           /\ Boxes[a] = "accepted" <=> a \in Active
           /\ Boxes[a] = "lost" <=> stage[a] = "lost"
           /\ Boxes[a] = "decided" <=> stage[a] \in {"done", "over"}
           /\ Boxes[a] \in {"unseen", "accepted", "lost", "decided"}
BY DEF Boxes, BoxOf, Active, IngressTypeOK

\* What one alert does in its box.
Puts(a, what) == Boxes' = [Boxes EXCEPT ![a] = what]

LEMMA OneBox ==
    ASSUME IngressTypeOK, IngressTypeOK', NEW a \in Alerts, NEW what,
           \A x \in Alerts \ {a} : stage'[x] = stage[x],
           Boxes'[a] = what
    PROVE  Puts(a, what)
<1>1. ASSUME NEW x \in Alerts, stage'[x] = stage[x] PROVE Boxes'[x] = Boxes[x]
  BY <1>1 DEF Boxes, BoxOf, Active
<1> QED
  BY <1>1 DEF Puts, Boxes

LEMMA InboxActions ==
    ASSUME NEW a \in Alerts
    PROVE  /\ Boxes[a] = "accepted" /\ Puts(a, "decided") => AlertInbox!InboxNext
           /\ Boxes[a] = "unseen" /\ Puts(a, "decided") => AlertInbox!InboxNext
           /\ (/\ Boxes[a] = "unseen" /\ Puts(a, "accepted")
               /\ Cardinality({x \in Alerts : Boxes[x] = "accepted"}) < QueueMax
               /\ \A x \in Alerts : Boxes[x] = "accepted" => ~(Firing(a) /\ Firing(x) /\ Fp(x) = Fp(a)))
                 => AlertInbox!InboxNext
<1>1. Boxes[a] = "accepted" /\ Puts(a, "decided") => AlertInbox!InboxNext
  BY Zenon DEF Boxes, Puts, AlertInbox!InboxNext, AlertInbox!Conclude
<1>2. Boxes[a] = "unseen" /\ Puts(a, "decided") => AlertInbox!InboxNext
  BY Zenon DEF Boxes, Puts, AlertInbox!InboxNext, AlertInbox!TurnAway
<1>3. ASSUME Boxes[a] = "unseen", Puts(a, "accepted"),
             Cardinality({x \in Alerts : Boxes[x] = "accepted"}) < QueueMax,
             \A x \in Alerts : Boxes[x] = "accepted" => ~(Firing(a) /\ Firing(x) /\ Fp(x) = Fp(a))
      PROVE  AlertInbox!InboxNext
  <2>1. AlertInbox!Accepted = {x \in Alerts : Boxes[x] = "accepted"}
    BY DEF AlertInbox!Accepted, Boxes
  <2>2. AlertInbox!Cardinality(AlertInbox!Accepted) < QueueMax
    BY <1>3, <2>1, Zenon DEF Cardinality, AlertInbox!Cardinality
  <2>3. \A x \in AlertInbox!Accepted : ~AlertInbox!SameFiring(a, x)
    BY <1>3, <2>1 DEF AlertInbox!SameFiring, Firing, Fp
  <2>4. AlertInbox!Accept(a)
    BY <1>3, <2>2, <2>3, Zenon DEF AlertInbox!Accept, Boxes, Puts
  <2> QED
    BY <2>4, Zenon DEF AlertInbox!InboxNext
<1> QED
  BY <1>1, <1>2, <1>3

LEMMA ReceiveBoxes ==
    ASSUME IngressTypeOK, IngressTypeOK', Roles, Queued, NEW a \in Alerts, Receive(a)
    PROVE  Queued' /\ AlertInbox!InboxNext
<1>1. stage[a] = "absent" /\ a \notin Active /\ Boxes[a] = "unseen"
  BY BoxIs DEF Receive, Active
<1>2. CASE Skip(a, Verdict(a))
  <2>1. /\ \A x \in Alerts \ {a} : stage'[x] = stage[x]
        /\ stage'[a] = "over" /\ Active' = Active /\ pending' = pending
    BY <1>1, <1>2 DEF Skip, IngressTypeOK, Active
  <2>2. Boxes'[a] = "decided"
    BY <2>1, BoxIs DEF Boxes, BoxOf, Active
  <2>3. Puts(a, "decided")
    BY <2>1, <2>2, OneBox
  <2> QED
    BY <1>1, <2>1, <2>3, InboxActions DEF Queued
<1>3. CASE Enqueue(a) /\ Verdict(a) = "sent"
  <2>1. /\ \A x \in Alerts \ {a} : stage'[x] = stage[x]
        /\ stage'[a] \in {"waiting", "queued"} /\ pending' = pending \cup {a}
        /\ Active' = Active \cup {a}
    BY <1>1, <1>3 DEF Enqueue, IngressTypeOK, Active
  <2>2. Queued'
    BY <2>1, FS_AddElement DEF Queued
  <2>3. ~(Cardinality(pending) >= QueueMax)
    BY <1>3 DEF Verdict
  <2>4. Cardinality(Active) <= Cardinality(pending)
    BY FS_Subset DEF Queued
  <2>5. Cardinality(Active) < QueueMax
    <3>1. Cardinality(Active) \in Nat /\ Cardinality(pending) \in Nat /\ QueueMax \in Nat
      BY FS_Subset, FS_CardinalityType, IngressAssumption DEF Queued, IngressAssumption
    <3> QED
      BY <2>3, <2>4, <3>1
  <2>6. Active = {x \in Alerts : Boxes[x] = "accepted"}
    BY BoxIs DEF Active
  <2>7. ASSUME NEW x \in Active, Firing(a), Firing(x), Fp(x) = Fp(a) PROVE FALSE
    <3>1. inflight[Fp(a)] = x /\ x \in Alerts /\ x # Nobody /\ stage[x] # "done"
      BY <2>7, IngressAssumption DEF Roles, OneFiring, Active, IngressAssumption
    <3>2. InFlight(Fp(a)) # Nobody
      BY <3>1 DEF InFlight
    <3> QED
      BY <1>3, <2>7, <3>2 DEF Verdict
  <2>8. Boxes'[a] = "accepted"
    BY <2>1 DEF Boxes, BoxOf, Active
  <2>9. Puts(a, "accepted")
    BY <2>1, <2>8, OneBox
  <2>10. Cardinality({x \in Alerts : Boxes[x] = "accepted"}) < QueueMax
    BY <2>5, <2>6
  <2>11. \A x \in Alerts : Boxes[x] = "accepted" => ~(Firing(a) /\ Firing(x) /\ Fp(x) = Fp(a))
    BY <2>6, <2>7
  <2> QED
    BY <1>1, <2>2, <2>9, <2>10, <2>11, InboxActions
<1> QED
  BY <1>2, <1>3 DEF Receive

\* A task that ends is decided; until then its box stands.
LEMMA ProgressBoxes ==
    ASSUME IngressTypeOK, IngressTypeOK', Roles, Queued, NEW a \in Alerts, Progress(a)
    PROVE  Queued' /\ (AlertInbox!InboxNext \/ Boxes' = Boxes)
<1>1. ASSUME a \in Active, \A x \in Alerts \ {a} : stage'[x] = stage[x],
             stage'[a] \in {"queued", "enriching", "sending", "done"}, pending' = pending
      PROVE  Queued' /\ (AlertInbox!InboxNext \/ Boxes' = Boxes)
  <2>1. Active' \subseteq Active /\ Boxes[a] = "accepted"
    BY <1>1, BoxIs DEF Active
  <2>2. CASE stage'[a] = "done"
    <3>1. Boxes'[a] = "decided"
      BY <2>2 DEF Boxes, BoxOf, Active
    <3> QED
      BY <1>1, <2>1, <3>1, OneBox, InboxActions DEF Queued
  <2>3. CASE stage'[a] # "done"
    <3>1. Boxes'[a] = "accepted"
      BY <1>1, <2>3 DEF Boxes, BoxOf, Active
    <3>2. Puts(a, "accepted")
      BY <1>1, <3>1, OneBox
    <3>3. Boxes' = Boxes
      BY <2>1, <3>2 DEF Puts, Boxes
    <3> QED
      BY <1>1, <2>1, <3>3 DEF Queued
  <2> QED
    BY <2>2, <2>3
<1>2. CASE AfterFiring(a) \/ Enriches(a)
  BY <1>1, <1>2 DEF AfterFiring, Enriches, Active, IngressTypeOK
<1>3. CASE Reap(a)
  <2>1. /\ \A x \in Alerts \ {a} : stage'[x] = stage[x]
        /\ stage[a] = "done" /\ stage'[a] = "over" /\ pending' = pending \ {a}
    BY <1>3 DEF Reap, IngressTypeOK
  <2>2. a \notin Active /\ Active' = Active
    BY <2>1 DEF Active
  <2>3. Queued'
    BY <2>1, <2>2, FS_RemoveElement DEF Queued
  <2>4. Boxes'[a] = "decided" /\ Boxes[a] = "decided"
    BY <2>1 DEF Boxes, BoxOf, Active
  <2>5. Puts(a, "decided")
    BY <2>1, <2>4, OneBox
  <2>6. Boxes' = Boxes
    BY <2>4, <2>5 DEF Puts, Boxes
  <2> QED
    BY <2>3, <2>6
<1>4. ASSUME Recorded(a), stage[a] \in {"queued", "enriching", "sending"}, pending' = pending
      PROVE  Queued' /\ (AlertInbox!InboxNext \/ Boxes' = Boxes)
  <2>1. /\ a \in Active /\ \A x \in Alerts \ {a} : stage'[x] = stage[x]
        /\ stage'[a] \in {"sending", "done"}
    BY <1>4, RecordedMoves
  <2> QED
    BY <1>1, <1>4, <2>1
<1>5. CASE TurnedDown(a)
  BY <1>4, <1>5 DEF TurnedDown
<1>6. ASSUME NEW now, NEW got, NEW today, Continues(a, now, got, today)
      PROVE  Queued' /\ (AlertInbox!InboxNext \/ Boxes' = Boxes)
  BY <1>4, <1>6 DEF Continues
<1> QED
  BY <1>2, <1>3, <1>5, <1>6, ProgressSplit DEF Roles

LEMMA DieBoxes ==
    ASSUME IngressTypeOK, IngressTypeOK', Die
    PROVE  Queued' /\ AlertInbox!InboxNext
<1>1. /\ \A x \in Alerts : stage'[x] = IF x \in Active THEN "lost"
                                       ELSE IF stage[x] = "done" THEN "over" ELSE stage[x]
      /\ pending' = {}
  BY DEF Die
<1>2. Active' = {}
  BY <1>1 DEF Active
<1>3. Queued'
  BY <1>1, <1>2, FS_EmptySet DEF Queued
<1>4. ASSUME NEW x \in Alerts
      PROVE  Boxes'[x] = IF Boxes[x] = "accepted" THEN "lost" ELSE Boxes[x]
  <2>1. CASE x \in Active
    BY <1>1, <2>1, BoxIs DEF Boxes, BoxOf, Active
  <2>2. CASE x \notin Active /\ stage[x] = "done"
    BY <1>1, <2>2 DEF Boxes, BoxOf, Active
  <2>3. CASE x \notin Active /\ stage[x] # "done"
    <3>1. stage'[x] = stage[x] /\ x \notin Active'
      BY <1>1, <1>2, <2>3
    <3>2. Boxes'[x] = Boxes[x] /\ Boxes[x] # "accepted"
      BY <2>3, <3>1, BoxIs DEF Boxes, BoxOf
    <3> QED
      BY <3>2
  <2> QED
    BY <2>1, <2>2, <2>3
<1>5. Boxes' = [x \in Alerts |-> IF Boxes[x] = "accepted" THEN "lost" ELSE Boxes[x]]
  BY <1>4 DEF Boxes
<1>6. AlertInbox!Die
  BY <1>5, Zenon DEF AlertInbox!Die, Boxes
<1> QED
  BY <1>3, <1>6 DEF AlertInbox!InboxNext

LEMMA StepBoxes ==
    ASSUME IngressTypeOK, IngressTypeOK', Roles, Queued, [IngressNext]_ivars
    PROVE  Queued' /\ [AlertInbox!InboxNext]_Boxes
<1>1. CASE (Tick /\ UNCHANGED ingress) \/ UNCHANGED ivars
  <2>1. stage' = stage /\ pending' = pending
    BY <1>1 DEF ivars, ingress
  <2> QED
    BY <2>1 DEF Queued, Active, Boxes, BoxOf
<1> QED
  BY <1>1, ReceiveBoxes, ProgressBoxes, DieBoxes DEF IngressNext

\* Every step of the ingress is a step of the abstract inbox, or none: an alert
\* is turned away at once, or accepted within the queue limit and with no other
\* firing of its fingerprint, and then decided once or lost with the process
\* (ingress.py:190-260).
THEOREM IngressKeepsTheInbox ==
    IngressSpec => AlertInbox!InboxInit /\ [][AlertInbox!InboxNext]_Boxes
<1>1. IngressInit => IngressTypeOK /\ Roles /\ Queued /\ AlertInbox!InboxInit
  <2>1. IngressInit => Queued
    BY FS_EmptySet DEF IngressInit, Queued, Active
  <2>2. IngressInit => AlertInbox!InboxInit
    BY DEF IngressInit, AlertInbox!InboxInit, BoxOf, Active
  <2> QED
    BY <2>1, <2>2, InitIngressType, InitRoles
<1>2. IngressTypeOK /\ Roles /\ Queued /\ [IngressNext]_ivars
        => (IngressTypeOK /\ Roles /\ Queued)' /\ [AlertInbox!InboxNext]_Boxes
  BY StepIngressType, StepRoles, StepBoxes
<1> QED
  BY <1>1, <1>2, PTL DEF IngressSpec

-----------------------------------------------------------------------------
(***************************************************************************)
(* With a disk that does not fail, the close of a firing follows it        *)
(* (CloseFollowsFiring), for any number of alerts under way at once.       *)
(*                                                                         *)
(* SeenRight: for a fingerprint that nothing crossed, the marks stand for  *)
(* what the channels saw, except while a call has reached some channel     *)
(* and not yet written its mark; there is at most one such call, because   *)
(* of Roles.  Pledge: once a RESOLVED was the last thing received of a     *)
(* fingerprint, its firing is closed or a RESOLVED is on its way.          *)
(***************************************************************************)
Showing(f) == {a \in Alerts : task[a] # Idle /\ Fp(a) = f /\ Reached(task[a]) # {}}

SeenRight ==
    broken = 0 => \A f \in Fingerprints \ crossed :
        /\ \A a \in Showing(f) : openSince[f] = Shown(task[a].m, task[a].now)
        /\ Showing(f) = {} => Standing(f, lastSent)

Closed(f) == openSince[f] = NoMark \/ clock - openSince[f] >= RememberSent

\* Nothing of f was lost, and no RESOLVED of it dropped for want of room.
Served(f) ==
    /\ lastSeen[f] = "resolved"
    /\ \A a \in Alerts : Fp(a) = f => stage[a] # "lost"
    /\ \A a \in Alerts : (Fp(a) = f /\ ~Firing(a)) => decision[a] \notin {"overloaded", "capped"}

Coming(f) == \E r \in Active : Fp(r) = f /\ ~Firing(r)
Idling(f) == \A x \in Active : Fp(x) # f

Pledge ==
    broken = 0 => \A f \in Fingerprints \ crossed :
        Served(f) => Coming(f) \/ (Closed(f) /\ Idling(f))

\* With no channels nothing was ever seen.
NothingSeen == Channels = {} => \A f \in Fingerprints : openSince[f] = NoMark

Closing == SeenRight /\ Pledge /\ NothingSeen /\ Durability /\ cancels = 0

LEMMA PledgeSuffices == Pledge => CloseFollowsFiring
<1> SUFFICES ASSUME Pledge, NEW f \in Fingerprints \ crossed,
                    lastSeen[f] = "resolved", Undisturbed(f),
                    \A a \in Alerts : (Fp(a) = f /\ ~Firing(a))
                                          => decision[a] \notin {"overloaded", "capped"}
             PROVE  openSince[f] = NoMark \/ clock - openSince[f] >= RememberSent
  BY DEF CloseFollowsFiring
<1>1. broken = 0 /\ \A a \in Alerts : Fp(a) = f => a \notin Active /\ stage[a] # "lost"
  BY DEF Undisturbed
<1>2. Served(f)
  BY <1>1 DEF Served
<1>3. ~Coming(f)
  BY <1>1 DEF Coming, Active
<1>4. Closed(f)
  BY <1>1, <1>2, <1>3 DEF Pledge
<1> QED
  BY <1>4 DEF Closed

\* A firing whose mark is gone is closed.
LEMMA NoMarkIsClosed ==
    ASSUME NEW f \in Fingerprints, Standing(f, lastSent), lastSent[f] = NoMark
    PROVE  Closed(f)
BY DEF Standing, Closed

\* A RESOLVED that the policy turns down has nothing to close.
LEMMA TurnedDownIsClosed ==
    ASSUME NothingSeen, NEW a \in Alerts, ~Firing(a), Standing(Fp(a), lastSent),
           Decide(lastSent, ToMessage(SignalOf[a]), clock) # "sent"
    PROVE  Closed(Fp(a))
<1>1. /\ Fp(a) \in Fingerprints /\ IsResolved(ToMessage(SignalOf[a]))
      /\ ToMessage(SignalOf[a]).fp = Fp(a)
  BY MessageOf
<1>2. CASE Channels = {}
  BY <1>1, <1>2 DEF NothingSeen, Closed
<1>3. CASE Channels # {}
  <2>1. lastSent[Fp(a)] = NoMark
    BY <1>1, <1>3 DEF Decide
  <2> QED
    BY <1>1, <2>1, NoMarkIsClosed
<1> QED
  BY <1>2, <1>3

LEMMA InitClosing == IngressInit => Closing
<1> SUFFICES ASSUME IngressInit PROVE Closing
  OBVIOUS
<1>1. Init /\ broken = 0 /\ cancels = 0 /\ \A a \in Alerts : task[a] = Idle
  BY IngressAssumption DEF IngressInit, Init, IngressAssumption
<1>2. Durability
  BY <1>1, InitDurable DEF Durability, InMemory
<1>3. \A f \in Fingerprints : openSince[f] = NoMark
  BY <1>1 DEF Init
<1>4. \A f \in Fingerprints : Showing(f) = {}
  BY <1>1 DEF Showing
<1>5. \A f \in Fingerprints : Standing(f, lastSent)
  <2>1. ASSUME NEW f \in Fingerprints PROVE Standing(f, lastSent)
    <3>1. PICK old \in SUBSET LegacyFps : disk = IF Durable THEN LegacyDisk(old) ELSE EmptyDisk
      BY <1>1 DEF Init
    <3>2. f \notin LegacyFps => lastSent[f] = NoMark
      BY <1>1, <3>1 DEF Init, LegacyDisk, EmptyDisk, Snapshot
    <3> QED
      BY <1>3, <3>2 DEF Standing
  <2> QED
    BY <2>1
<1>6. Pledge
  BY DEF IngressInit, Pledge, Served
<1> QED
  BY <1>1, <1>2, <1>3, <1>4, <1>5, <1>6 DEF Closing, SeenRight, NothingSeen

-----------------------------------------------------------------------------
LEMMA NothingMovesSeen ==
    ASSUME SeenRight, UNCHANGED <<task, openSince, lastSent, clock, broken>>,
           crossed \subseteq crossed'
    PROVE  SeenRight'
BY DEF SeenRight, Showing, Standing, Reached, Shown

\* What one alert does leaves the pledges of other fingerprints as they are.
LEMMA OthersPledge ==
    ASSUME NEW a \in Alerts, NEW f \in Fingerprints, f # Fp(a),
           \A x \in Alerts \ {a} : stage'[x] = stage[x] /\ decision'[x] = decision[x],
           lastSeen'[f] = lastSeen[f], openSince'[f] = openSince[f], clock' = clock,
           Served(f) => Coming(f) \/ (Closed(f) /\ Idling(f)),
           Served(f)'
    PROVE  Coming(f)' \/ (Closed(f)' /\ Idling(f)')
<1>1. Served(f)
  BY DEF Served
<1>2. \A x \in Alerts : Fp(x) = f => (x \in Active' <=> x \in Active)
  BY DEF Active
<1>3. Coming(f) => Coming(f)'
  BY <1>2 DEF Coming, Active
<1>4. Idling(f) => Idling(f)'
  BY <1>2 DEF Idling, Active
<1>5. Closed(f) => Closed(f)'
  BY DEF Closed
<1> QED
  BY <1>1, <1>3, <1>4, <1>5

LEMMA SameActivePledge ==
    ASSUME Pledge, UNCHANGED <<openSince, clock, decision, lastSeen, crossed, broken>>,
           Active' = Active, \A x \in Alerts : stage[x] = "lost" => stage'[x] = "lost"
    PROVE  Pledge'
<1>1. ASSUME NEW f \in Fingerprints, Served(f)' PROVE Served(f)
  BY <1>1 DEF Served
<1>2. ASSUME NEW f \in Fingerprints
      PROVE  (Closed(f) => Closed(f)') /\ (Coming(f) => Coming(f)') /\ (Idling(f) => Idling(f)')
  BY DEF Closed, Coming, Idling
<1> QED
  BY <1>1, <1>2 DEF Pledge

\* Nothing of a fingerprint that idles has reached a channel and not settled.
LEMMA IdlingShowsNothing ==
    ASSUME Calling, NEW f, Idling(f)
    PROVE  Showing(f) = {}
BY DEF Calling, Idling, Showing, Active

LEMMA ReceivePledge ==
    ASSUME IngressTypeOK, Roles, Closing, NEW a \in Alerts, Receive(a)
    PROVE  Pledge'
<1>1. /\ UNCHANGED <<task, openSince, lastSent, clock, broken>>
      /\ stage[a] = "absent" /\ a \notin Active
      /\ lastSeen' = [lastSeen EXCEPT ![Fp(a)] = SignalOf[a].status]
  BY DEF Receive, vars, memory, observed, bounds, Active
<1>2. Fp(a) \in Fingerprints /\ SignalOf[a].status \in {"firing", "resolved"}
  BY MessageOf
<1>3. /\ \A x \in Alerts \ {a} : stage'[x] = stage[x] /\ decision'[x] = decision[x]
      /\ crossed \subseteq crossed'
  <2>1. CASE Skip(a, Verdict(a))
    BY <2>1 DEF Skip, IngressTypeOK
  <2>2. CASE Enqueue(a)
    BY <2>2 DEF Enqueue, IngressTypeOK
  <2> QED
    BY <2>1, <2>2 DEF Receive
<1> SUFFICES ASSUME broken = 0, NEW f \in Fingerprints \ crossed', Served(f)'
             PROVE  Coming(f)' \/ (Closed(f)' /\ Idling(f)')
  BY <1>1 DEF Pledge
<1>4. f \in Fingerprints \ crossed /\ (Served(f) => Coming(f) \/ (Closed(f) /\ Idling(f)))
  BY <1>3 DEF Closing, Pledge
<1>5. CASE f # Fp(a)
  <2>1. lastSeen'[f] = lastSeen[f]
    BY <1>1, <1>5 DEF IngressTypeOK
  <2> QED
    BY <1>1, <1>3, <1>4, <1>5, <2>1, OthersPledge
<1>6. CASE f = Fp(a)
  <2>1. ~Firing(a)
    BY <1>1, <1>2, <1>6 DEF Served, Firing, IngressTypeOK
  <2>2. CASE Enqueue(a)
    <3>1. a \in Active'
      BY <2>2 DEF Enqueue, Active, IngressTypeOK
    <3> QED
      BY <1>6, <2>1, <3>1 DEF Coming
  <2>3. CASE Skip(a, Verdict(a)) /\ Verdict(a) # "sent"
    <3>1. Active' = Active /\ decision'[a] = Verdict(a)
      BY <1>1, <2>3 DEF Skip, IngressTypeOK, Active
    <3>2. Verdict(a) # "overloaded"
      BY <1>6, <2>1, <3>1 DEF Served
    <3>3. /\ InFlight(f) = Nobody
          /\ Decide(lastSent, ToMessage(SignalOf[a]), clock) # "sent"
      BY <1>6, <2>1, <2>3, <3>2 DEF Verdict
    <3>4. CASE Coming(f)
      BY <3>1, <3>4 DEF Coming
    <3>5. CASE ~Coming(f)
      <4>1. ASSUME NEW x \in Active, Fp(x) = f PROVE FALSE
        <5>1. Firing(x) /\ inflight[f] = x /\ x \in Alerts /\ stage[x] # "done"
          BY <3>5, <4>1 DEF Coming, Roles, OneFiring, Active
        <5> QED
          BY <3>3, <5>1, IngressAssumption DEF InFlight, IngressAssumption
      <4>2. Idling(f)
        BY <4>1 DEF Idling
      <4>3. Standing(f, lastSent)
        BY <1>4, <4>2, IdlingShowsNothing DEF Closing, SeenRight, Roles
      <4>4. Closed(f)
        BY <1>6, <2>1, <3>3, <4>3, TurnedDownIsClosed DEF Closing
      <4> QED
        BY <1>1, <3>1, <4>2, <4>4 DEF Idling, Closed
    <3> QED
      BY <3>4, <3>5
  <2> QED
    BY <2>2, <2>3 DEF Receive
<1> QED
  BY <1>5, <1>6

LEMMA AfterFiringPledge ==
    ASSUME IngressTypeOK, Roles, Closing, NEW a \in Alerts, AfterFiring(a)
    PROVE  Pledge'
<1> DEFINE verdict == Decide(lastSent, ToMessage(SignalOf[a]), clock)
<1>1. /\ UNCHANGED <<task, openSince, lastSent, clock, broken, lastSeen, crossed>>
      /\ stage[a] = "waiting" /\ stage[waitsFor[a]] = "over"
  BY DEF AfterFiring, vars, memory, observed, bounds
<1>2. a \in Active /\ ~Firing(a) /\ Fp(a) \in Fingerprints /\ waitsFor[a] \notin Active
  BY <1>1, MessageOf DEF Active, Roles, OneClose
<1>3. CASE verdict = "sent"
  <2>1. /\ decision' = decision /\ stage'[a] = "queued"
        /\ \A x \in Alerts \ {a} : stage'[x] = stage[x]
    BY <1>3 DEF AfterFiring, IngressTypeOK
  <2>2. Active' = Active
    BY <1>1, <2>1 DEF Active
  <2> QED
    BY <1>1, <2>1, <2>2, SameActivePledge DEF Closing
<1>4. CASE verdict # "sent"
  <2>1. /\ \A x \in Alerts \ {a} : stage'[x] = stage[x] /\ decision'[x] = decision[x]
        /\ stage'[a] = "done"
    BY <1>4 DEF AfterFiring, IngressTypeOK
  <2>2. Active' = Active \ {a}
    BY <1>2, <2>1 DEF Active
  <2> SUFFICES ASSUME broken = 0, NEW f \in Fingerprints \ crossed, Served(f)'
               PROVE  Coming(f)' \/ (Closed(f)' /\ Idling(f)')
    BY <1>1 DEF Pledge
  <2>3. CASE f # Fp(a)
    <3>1. Served(f) => Coming(f) \/ (Closed(f) /\ Idling(f))
      BY DEF Closing, Pledge
    <3> QED
      BY <1>1, <2>1, <2>3, <3>1, OthersPledge
  <2>4. CASE f = Fp(a)
    <3>1. ASSUME NEW x \in Active, Fp(x) = f PROVE x = a
      BY <1>1, <1>2, <2>4, <3>1 DEF Roles, OneClose
    <3>2. Idling(f)'
      BY <2>2, <3>1 DEF Idling
    <3>3. Showing(f) = {}
      BY <1>1, <3>1 DEF Showing, Roles, Calling, Active
    <3>4. Standing(f, lastSent)
      BY <3>3 DEF Closing, SeenRight
    <3>5. Closed(f)
      BY <1>2, <1>4, <2>4, <3>4, TurnedDownIsClosed DEF Closing
    <3> QED
      BY <1>1, <3>2, <3>5 DEF Closed
  <2> QED
    BY <2>3, <2>4
<1> QED
  BY <1>3, <1>4

-----------------------------------------------------------------------------
\* A task that leaves `send', or never got in, and is not waiting: of an
\* uncrossed fingerprint nothing else calls, and nothing else at all is under
\* way when it is a RESOLVED.
LEMMA OthersAreQuiet ==
    ASSUME Roles, NEW a \in Alerts, Fp(a) \notin crossed,
           stage[a] \in {"queued", "enriching", "sending"}
    PROVE  /\ Showing(Fp(a)) \subseteq {a}
           /\ ~Firing(a) => \A x \in Active : Fp(x) = Fp(a) => x = a
<1>1. a \in Active /\ stage[a] # "waiting"
  BY DEF Active
<1>2. ASSUME NEW x \in Showing(Fp(a)) PROVE x = a
  <2>1. x \in Active /\ stage[x] # "waiting" /\ Fp(x) = Fp(a)
    BY <1>2 DEF Showing, Roles, Calling, Active
  <2> QED
    BY <1>1, <2>1, CallsAlone DEF Roles
<1>3. ASSUME ~Firing(a), NEW x \in Active, Fp(x) = Fp(a) PROVE x = a
  BY <1>1, <1>3 DEF Roles, OneClose
<1> QED
  BY <1>2, <1>3

\* The pledge of the fingerprint of a task that calls: a firing leaves it to the
\* RESOLVED that is coming, and a RESOLVED keeps it until it is closed.
LEMMA CallPledge ==
    ASSUME IngressTypeOK, Roles, Closing, NEW a \in Alerts, Recorded(a),
           stage[a] \in {"queued", "enriching", "sending"},
           UNCHANGED <<lastSeen, crossed, clock, broken>>,
           \A f \in Fingerprints : f # Fp(a) => openSince'[f] = openSince[f],
           broken = 0 /\ Fp(a) \notin crossed /\ ~Firing(a)
             /\ task'[a] = Idle /\ outcome'[a] # "capped" => Closed(Fp(a))'
    PROVE  Pledge'
<1>1. /\ \A x \in Alerts \ {a} : stage'[x] = stage[x] /\ decision'[x] = decision[x]
      /\ task'[a] = Idle => decision'[a] = outcome'[a]
      /\ a \in Active /\ Active' = IF task'[a] = Idle THEN Active \ {a} ELSE Active
  BY RecordedMoves
<1> SUFFICES ASSUME broken = 0, NEW f \in Fingerprints \ crossed, Served(f)'
             PROVE  Coming(f)' \/ (Closed(f)' /\ Idling(f)')
  BY DEF Pledge
<1>2. Served(f) => Coming(f) \/ (Closed(f) /\ Idling(f))
  BY DEF Closing, Pledge
<1>3. CASE f # Fp(a)
  BY <1>1, <1>2, <1>3, OthersPledge
<1>4. CASE f = Fp(a) /\ Firing(a)
  <2>1. Served(f)
    BY <1>1, <1>4 DEF Served
  <2>2. PICK r \in Active : Fp(r) = f /\ ~Firing(r)
    BY <1>1, <1>2, <1>4, <2>1 DEF Coming, Idling
  <2>3. r \in Active'
    BY <1>1, <1>4, <2>2
  <2> QED
    BY <2>2, <2>3 DEF Coming
<1>5. CASE f = Fp(a) /\ ~Firing(a)
  <2>1. CASE task'[a] # Idle
    BY <1>1, <1>5, <2>1 DEF Coming
  <2>2. CASE task'[a] = Idle
    <3>1. outcome'[a] # "capped"
      BY <1>1, <1>5, <2>2 DEF Served
    <3>2. Closed(f)'
      BY <1>5, <2>2, <3>1
    <3>3. Idling(f)'
      BY <1>1, <1>5, <2>2, OthersAreQuiet DEF Idling
    <3> QED
      BY <3>2, <3>3
  <2> QED
    BY <2>1, <2>2
<1> QED
  BY <1>3, <1>4, <1>5

LEMMA TurnedDownCloses ==
    ASSUME IngressTypeOK, Roles, Closing, NEW a \in Alerts, TurnedDown(a)
    PROVE  SeenRight' /\ Pledge'
<1>1. /\ UNCHANGED <<task, openSince, lastSent, clock, broken, lastSeen, crossed>>
      /\ Recorded(a) /\ stage[a] \in {"queued", "enriching", "sending"} /\ task[a] = Idle
      /\ Decision(lastSent, ToMessage(SignalOf[a]), clock) # "sent"
  BY DEF TurnedDown, Refuses, memory, observed
<1>2. SeenRight'
  BY <1>1, NothingMovesSeen DEF Closing
<1>3. ASSUME broken = 0, Fp(a) \notin crossed, ~Firing(a) PROVE Closed(Fp(a))'
  <2>1. Showing(Fp(a)) = {}
    BY <1>1, <1>3, OthersAreQuiet DEF Showing
  <2>2. Standing(Fp(a), lastSent)
    BY <1>3, <2>1, MessageOf DEF Closing, SeenRight
  <2>3. Decide(lastSent, ToMessage(SignalOf[a]), clock) # "sent"
    BY <1>1, MessageOf DEF Decision, Forces
  <2>4. Closed(Fp(a))
    BY <1>3, <2>2, <2>3, TurnedDownIsClosed DEF Closing
  <2> QED
    BY <1>1, <2>4 DEF Closed
<1>4. Pledge'
  BY <1>1, <1>3, CallPledge
<1> QED
  BY <1>2, <1>4

\* What a call has shown, when it goes on.
ShownSoFar(a, now, got) ==
    IF got # {} THEN openSince[Fp(a)] = Shown(ToMessage(SignalOf[a]), now)
                ELSE Standing(Fp(a), lastSent)

LEMMA CallShows ==
    ASSUME Roles, Closing, broken = 0, NEW a \in Alerts, Fp(a) \notin crossed,
           NEW now, NEW got, NEW today, Continues(a, now, got, today)
    PROVE  ShownSoFar(a, now, got)
<1>1. Showing(Fp(a)) \subseteq {a} /\ Fp(a) \in Fingerprints
  BY OthersAreQuiet, MessageOf DEF Continues
<1>2. CASE got = {}
  <2>1. Showing(Fp(a)) = {}
    BY <1>1, <1>2 DEF Showing, Continues
  <2> QED
    BY <1>1, <1>2, <2>1 DEF ShownSoFar, Closing, SeenRight
<1>3. CASE got # {}
  <2>1. task[a] # Idle /\ got = Reached(task[a]) /\ now = task[a].now
    BY <1>3 DEF Continues
  <2>2. a \in Showing(Fp(a)) /\ task[a].m = ToMessage(SignalOf[a])
    BY <1>3, <2>1 DEF Showing, Roles, Calling
  <2> QED
    BY <1>1, <1>3, <2>1, <2>2 DEF ShownSoFar, Closing, SeenRight
<1> QED
  BY <1>2, <1>3

LEMMA ContinuesSeen ==
    ASSUME IngressTypeOK, Roles, Closing, NEW a \in Alerts,
           NEW now, NEW got, NEW today, Continues(a, now, got, today)
    PROVE  SeenRight'
<1> DEFINE m == ToMessage(SignalOf[a])
<1>1. /\ \A x \in Alerts \ {a} : task'[x] = task[x]
      /\ UNCHANGED <<clock, broken, crossed>>
      /\ now \in Time /\ now <= clock /\ got \in SUBSET Channels /\ today \in Counters
      /\ TypeOK /\ m \in Messages /\ m.fp = Fp(a) /\ a \in Senders /\ Fp(a) \in Fingerprints
  BY MessageOf, IngressAssumption DEF Continues, Steps, Moves, IngressTypeOK, IngressAssumption
<1>2. \/ /\ Settle(a, m, now, got, today)
         /\ task'[a] = Idle /\ openSince' = openSince
      \/ /\ task'[a] # Idle /\ task'[a].m = m /\ task'[a].now = now
         /\ lastSent' = lastSent
         /\ \/ Reached(task'[a]) = got /\ openSince' = openSince
            \/ /\ Reached(task'[a]) # {}
               /\ openSince' = [openSince EXCEPT ![Fp(a)] = Shown(m, now)]
  BY <1>1 DEF Continues, Steps, Moves
<1> HIDE DEF m
<1> SUFFICES ASSUME broken = 0, NEW f \in Fingerprints \ crossed
             PROVE  /\ \A x \in Showing(f)' : openSince'[f] = Shown(task[x].m, task[x].now)'
                    /\ Showing(f)' = {} => Standing(f, lastSent)'
  BY <1>1 DEF SeenRight
<1>3. CASE f # Fp(a)
  <2>1. Showing(f)' = Showing(f) /\ a \notin Showing(f)
    BY <1>1, <1>3 DEF Showing, Reached
  <2>2. openSince'[f] = openSince[f]
    BY <1>1, <1>2, <1>3 DEF TypeOK
  <2>3. \A x \in Showing(f)' : openSince'[f] = Shown(task[x].m, task[x].now)'
    BY <1>1, <2>1, <2>2 DEF Showing, Shown, Closing, SeenRight
  <2>4. ASSUME Showing(f)' = {} PROVE Standing(f, lastSent)'
    <3>1. Standing(f, lastSent)
      BY <2>1, <2>4 DEF Closing, SeenRight
    <3>2. CASE Settle(a, m, now, got, today)
      BY <1>1, <1>3, <3>1, <3>2, SettleStands
    <3>3. CASE lastSent' = lastSent
      BY <1>1, <2>2, <3>1, <3>3 DEF Standing
    <3> QED
      BY <1>2, <3>2, <3>3
  <2> QED
    BY <2>3, <2>4
<1>4. CASE f = Fp(a)
  <2>1. Showing(f) \subseteq {a}
    BY <1>4, OthersAreQuiet DEF Continues
  <2>2. IF got # {} THEN openSince[f] = Shown(m, now) ELSE Standing(f, lastSent)
    BY <1>4, CallShows DEF ShownSoFar, m
  <2>3. Showing(f)' \subseteq {a}
    BY <1>1, <2>1 DEF Showing, Reached
  <2>4. a \in Showing(f)' <=> task'[a] # Idle /\ Reached(task'[a]) # {}
    BY <1>4 DEF Showing, Reached
  <2>5. CASE Settle(a, m, now, got, today) /\ task'[a] = Idle
    <3>1. Standing(f, lastSent)'
      BY <1>1, <1>4, <2>2, <2>5, SettleStands
    <3> QED
      BY <2>3, <2>4, <2>5, <3>1
  <2>6. CASE /\ task'[a] # Idle /\ task'[a].m = m /\ task'[a].now = now
             /\ lastSent' = lastSent
             /\ Reached(task'[a]) = got /\ openSince' = openSince
    <3>1. got = {} => Standing(f, lastSent)'
      BY <1>1, <2>2, <2>6 DEF Standing
    <3> QED
      BY <2>2, <2>3, <2>4, <2>6, <3>1 DEF Shown
  <2>7. CASE /\ task'[a] # Idle /\ task'[a].m = m /\ task'[a].now = now
             /\ Reached(task'[a]) # {}
             /\ openSince' = [openSince EXCEPT ![Fp(a)] = Shown(m, now)]
    <3>1. openSince'[f] = Shown(m, now)
      BY <1>1, <1>4, <2>7 DEF TypeOK
    <3> QED
      BY <2>3, <2>4, <2>7, <3>1 DEF Shown
  <2> QED
    BY <1>2, <2>5, <2>6, <2>7
<1> QED
  BY <1>3, <1>4

LEMMA ContinuesPledge ==
    ASSUME IngressTypeOK, Roles, Closing, NEW a \in Alerts,
           NEW now, NEW got, NEW today, Continues(a, now, got, today)
    PROVE  Pledge'
<1>1. /\ Recorded(a) /\ stage[a] \in {"queued", "enriching", "sending"}
      /\ UNCHANGED <<lastSeen, crossed, clock, broken>>
      /\ Fp(a) \in Fingerprints /\ ToMessage(SignalOf[a]).fp = Fp(a)
  BY MessageOf DEF Continues, Steps
<1>2. \A f \in Fingerprints : f # Fp(a) => openSince'[f] = openSince[f]
  BY <1>1 DEF Continues, Steps, Moves, IngressTypeOK, TypeOK
<1>3. ASSUME broken = 0, Fp(a) \notin crossed, ~Firing(a), task'[a] = Idle,
             outcome'[a] # "capped"
      PROVE  Closed(Fp(a))'
  <2>1. got # {} /\ openSince' = openSince
    BY <1>3 DEF Continues, Steps, Moves
  <2>2. openSince[Fp(a)] = NoMark
    BY <1>3, <2>1, CallShows, MessageOf DEF ShownSoFar, Shown
  <2> QED
    BY <2>1, <2>2 DEF Closed
<1> QED
  BY <1>1, <1>2, <1>3, CallPledge

-----------------------------------------------------------------------------
LEMMA ContinuesNothing ==
    ASSUME IngressTypeOK, IngressTypeOK', NothingSeen, NEW a \in Alerts,
           NEW now, NEW got, NEW today, Continues(a, now, got, today)
    PROVE  NothingSeen'
<1> SUFFICES ASSUME Channels = {} PROVE \A f \in Fingerprints : openSince'[f] = NoMark
  BY DEF NothingSeen
<1>1. task'[a] # Idle => Reached(task'[a]) = {}
  <2>1. a \in Senders /\ TypeOK'
    BY MessageOf DEF IngressTypeOK
  <2>2. task' \in [Senders -> Frames \cup {Idle}]
    BY <2>1 DEF TypeOK
  <2>3. task'[a] # Idle => task'[a] \in Frames
    BY <2>1, <2>2
  <2> QED
    BY <2>3, FrameParts
<1>2. openSince' = openSince
  BY <1>1 DEF Continues, Steps, Moves
<1> QED
  BY <1>2 DEF NothingSeen

LEMMA ReceiveClosing ==
    ASSUME IngressTypeOK, Roles, Closing, NEW a \in Alerts, Receive(a)
    PROVE  SeenRight' /\ Pledge' /\ NothingSeen'
<1>1. UNCHANGED <<task, openSince, lastSent, clock, broken>>
  BY DEF Receive, vars, memory, observed, bounds
<1>2. crossed \subseteq crossed'
  BY DEF Receive, Skip, Enqueue
<1> QED
  BY <1>1, <1>2, NothingMovesSeen, ReceivePledge DEF Closing, NothingSeen

LEMMA ProgressClosing ==
    ASSUME IngressTypeOK, IngressTypeOK', Roles, Closing, NEW a \in Alerts, Progress(a)
    PROVE  SeenRight' /\ Pledge' /\ NothingSeen'
<1>1. CASE AfterFiring(a)
  <2>1. UNCHANGED <<task, openSince, lastSent, clock, broken, crossed>>
    BY <1>1 DEF AfterFiring, vars, memory, observed, bounds
  <2> QED
    BY <1>1, <2>1, NothingMovesSeen, AfterFiringPledge DEF Closing, NothingSeen
<1>2. CASE Enriches(a) \/ Reap(a)
  <2>1. UNCHANGED <<task, openSince, lastSent, clock, broken, crossed, decision, lastSeen>>
    BY <1>2 DEF Enriches, Reap, vars, memory, observed, bounds
  <2>2. /\ \A x \in Alerts \ {a} : stage'[x] = stage[x]
        /\ \/ stage[a] = "queued" /\ stage'[a] = "enriching"
           \/ stage[a] = "done" /\ stage'[a] = "over"
    BY <1>2 DEF Enriches, Reap, IngressTypeOK
  <2>3. Active' = Active
    BY <2>2 DEF Active
  <2>4. Pledge'
    BY <2>1, <2>2, <2>3, SameActivePledge DEF Closing
  <2> QED
    BY <2>1, <2>4, NothingMovesSeen DEF Closing, NothingSeen
<1>3. CASE TurnedDown(a)
  <2>1. openSince' = openSince
    BY <1>3 DEF TurnedDown, Refuses, observed
  <2> QED
    BY <1>3, <2>1, TurnedDownCloses DEF Closing, NothingSeen
<1>4. ASSUME NEW now, NEW got, NEW today, Continues(a, now, got, today)
      PROVE  SeenRight' /\ Pledge' /\ NothingSeen'
  BY <1>4, ContinuesSeen, ContinuesPledge, ContinuesNothing DEF Closing
<1> QED
  BY <1>1, <1>2, <1>3, <1>4, ProgressSplit DEF Roles

\* A restart that loses no call finds in the file the marks it had.
LEMMA DieClosing ==
    ASSUME ~DiskMayFail, IngressTypeOK, Roles, Closing, Die
    PROVE  SeenRight' /\ Pledge' /\ NothingSeen'
<1>1. /\ UNCHANGED <<openSince, clock, lastSeen, crossed, decision>>
      /\ \A x \in Alerts : task'[x] = Idle
      /\ \A x \in Alerts : stage'[x] = IF x \in Active THEN "lost"
                                       ELSE IF stage[x] = "done" THEN "over" ELSE stage[x]
      /\ broken' = IF Quiet /\ Durable THEN broken ELSE broken + 1
      /\ TypeOK /\ Restart
  BY IngressAssumption DEF Die, Restart, observed, IngressTypeOK, IngressAssumption
<1>2. Active' = {}
  BY <1>1 DEF Active
<1>3. NothingSeen'
  BY <1>1 DEF NothingSeen, Closing
<1>4. CASE Quiet /\ Durable /\ broken = 0
  <2>1. disk = InMemory
    BY <1>4 DEF Closing, Durability, InMemory
  <2>2. lastSent' = lastSent
    BY <1>1, <1>4, <2>1, RestartLoads DEF InMemory, Snapshot
  <2>3. ASSUME NEW f \in Fingerprints
        PROVE  /\ Showing(f) = {} /\ Showing(f)' = {}
               /\ Standing(f, lastSent) => Standing(f, lastSent)'
    BY <1>1, <1>4, <2>2, IngressAssumption DEF Showing, Quiet, Standing, IngressAssumption
  <2>4. SeenRight'
    BY <1>1, <1>4, <2>3 DEF Closing, SeenRight
  <2>5. ASSUME NEW f \in Fingerprints \ crossed, Served(f)'
        PROVE  Closed(f)' /\ Idling(f)'
    <3>1. Served(f) /\ ~Coming(f)
      <4>1. ASSUME NEW x \in Alerts, Fp(x) = f
            PROVE  x \notin Active /\ stage[x] # "lost"
        BY <1>1, <2>5, <4>1 DEF Served, Active
      <4> QED
        BY <1>1, <2>5, <4>1 DEF Served, Coming, Active
    <3>2. Closed(f)
      BY <1>4, <3>1 DEF Closing, Pledge
    <3> QED
      BY <1>1, <1>2, <3>2 DEF Closed, Idling
  <2>6. Pledge'
    BY <1>1, <2>5 DEF Pledge
  <2> QED
    BY <1>3, <2>4, <2>6
<1>5. CASE ~(Quiet /\ Durable /\ broken = 0)
  <2>1. broken' # 0
    BY <1>1, <1>5 DEF TypeOK
  <2> QED
    BY <1>3, <2>1 DEF SeenRight, Pledge
<1> QED
  BY <1>4, <1>5

LEMMA TickClosing ==
    ASSUME IngressTypeOK, Closing, Tick, UNCHANGED ingress
    PROVE  SeenRight' /\ Pledge' /\ NothingSeen'
<1>1. /\ UNCHANGED <<openSince, lastSent, task, broken, stage, decision, lastSeen, crossed>>
      /\ clock' = clock + 1 /\ TypeOK
  BY DEF Tick, ingress, memory, observed, bounds, IngressTypeOK
<1>2. ASSUME NEW f \in Fingerprints
      PROVE  /\ Standing(f, lastSent) => Standing(f, lastSent)'
             /\ Closed(f) => Closed(f)'
  BY <1>1, ClocksAreNumbers DEF Standing, Closed
<1>3. ASSUME NEW f \in Fingerprints PROVE Showing(f)' = Showing(f)
  BY <1>1 DEF Showing, Reached
<1>4. SeenRight'
  BY <1>1, <1>2, <1>3 DEF Closing, SeenRight, Shown
<1>5. ASSUME NEW f \in Fingerprints
      PROVE  Served(f)' = Served(f) /\ Coming(f)' = Coming(f) /\ Idling(f)' = Idling(f)
  BY <1>1 DEF Served, Coming, Idling, Active
<1>6. Pledge'
  BY <1>1, <1>2, <1>5 DEF Closing, Pledge
<1> QED
  BY <1>1, <1>4, <1>6 DEF Closing, NothingSeen

LEMMA StepClosing ==
    ASSUME ~DiskMayFail, IngressTypeOK, IngressTypeOK', Roles, Closing, [IngressNext]_ivars
    PROVE  Closing'
<1>1. Durability'
  BY IngressStepsCall, StepDurable DEF IngressTypeOK, Closing
<1>2. cancels' = 0
  <2>1. ASSUME NEW a \in Alerts, Progress(a) PROVE cancels' = cancels
    <3>1. CASE AfterFiring(a) \/ Enriches(a) \/ Reap(a)
      BY <3>1 DEF AfterFiring, Enriches, Reap, vars, bounds
    <3>2. CASE TurnedDown(a)
      BY <3>2 DEF TurnedDown, Refuses
    <3>3. ASSUME NEW now, NEW got, NEW today, Continues(a, now, got, today)
          PROVE  cancels' = cancels
      BY <3>3 DEF Continues, Steps
    <3> QED
      BY <2>1, <3>1, <3>2, <3>3, ProgressSplit DEF Roles
  <2> QED
    BY <2>1 DEF IngressNext, Receive, Die, Restart, Tick, ivars, vars, bounds, Closing
<1>3. SeenRight' /\ Pledge' /\ NothingSeen'
  <2>1. CASE UNCHANGED ivars
    <3>1. /\ UNCHANGED <<task, openSince, lastSent, clock, broken>>
          /\ UNCHANGED <<stage, decision, lastSeen, crossed>>
      BY <2>1 DEF ivars, ingress, vars, memory, observed, bounds
    <3>2. Active' = Active
      BY <3>1 DEF Active
    <3> QED
      BY <3>1, <3>2, NothingMovesSeen, SameActivePledge DEF Closing, NothingSeen
  <2>2. CASE Tick /\ UNCHANGED ingress
    BY <2>2, TickClosing
  <2> QED
    BY <2>1, <2>2, ReceiveClosing, ProgressClosing, DieClosing DEF IngressNext
<1> QED
  BY <1>1, <1>2, <1>3 DEF Closing

\* The operator who got a firing gets its close (ingress.py:14-22, 196-232): with
\* a disk that works, however many alerts are under way and whatever the order
\* of their awaits, enrichments, restarts and callbacks.
THEOREM TheCloseFollows ==
    ASSUME ~DiskMayFail
    PROVE  IngressSpec => []CloseFollowsFiring
<1>1. IngressInit => IngressTypeOK /\ Roles /\ Closing
  BY InitIngressType, InitRoles, InitClosing
<1>2. IngressTypeOK /\ Roles /\ Closing /\ [IngressNext]_ivars
        => (IngressTypeOK /\ Roles /\ Closing)'
  BY StepIngressType, StepRoles, StepClosing
<1>3. Closing => CloseFollowsFiring
  BY PledgeSuffices DEF Closing
<1> QED
  BY <1>1, <1>2, <1>3, PTL DEF IngressSpec
=============================================================================
