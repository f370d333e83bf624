----------------------------- MODULE Dispatcher -----------------------------
(***************************************************************************)
(* The dispatcher (src/copilot/dispatch.py): whether a message goes out,   *)
(* through which channels, and what is remembered of it.                   *)
(*                                                                         *)
(* Everything runs on one asyncio event loop, so the code between two      *)
(* suspensions is one atomic step.  `send' suspends only in canal.send:    *)
(* a call is therefore Send (up to the first canal.send, or to the end if  *)
(* nothing is delivered) followed by one Return per canal.send it awaits.  *)
(* What was read before an await (the decision, the targets, `now', the    *)
(* counter `enviados') is kept in the call's frame, task[s], and may be    *)
(* stale when it is used.                                                  *)
(***************************************************************************)
EXTENDS Policy

CONSTANTS
    Senders,         \* concurrent callers of `send' (ingress tasks, scheduler, API)
    Durable,         \* whether there is a state file (storage.path)
    DiskMayFail,     \* whether writing or reading that file may fail
    MaxCalls,        \* BOUND: calls of `send'
    MaxRestarts,     \* BOUND: restarts of the process
    MaxCancels,      \* BOUND: cancelled calls
    Idle             \* "this caller is in no call of `send'"

Decisions == {"sent", "deduped", "quiet", "capped", "no_channels",
              "unrouted", "unpaired"}

\* A call suspended in canal.send: the frame of `send' and of `_deliver'.
Frames == [ m    : Messages,
            now  : Time,             \* taken when the call began
            at   : Channels,         \* the channel being awaited
            what : {"message", "notice"},
            read : Nat,              \* `enviados', read before the await
            rest : SUBSET Channels,  \* channels still to visit
            got  : SUBSET Channels ] \* out.deliveries

ASSUME DispatcherAssumption ==
    /\ Durable \in BOOLEAN
    /\ DiskMayFail \in BOOLEAN
    /\ MaxCalls \in Nat /\ MaxRestarts \in Nat /\ MaxCancels \in Nat
    /\ Idle \notin Frames

VARIABLES
    \* the process
    lastSent,     \* _last_sent: fingerprint -> Sent
    sentToday,    \* _sent_today: (channel, date) -> count, 0 when absent
    capNotified,  \* _cap_notified
    task,         \* the frame of each caller, or Idle
    outcome,      \* the decision of each caller's last finished call
    \* outside the process
    clock,
    disk,         \* dispatch.json
    \* what the channels were handed (observers: the code never reads them)
    regular,      \* messages handed, per key, under the policy
    forced,       \* messages handed with `force'
    notices,      \* "cap reached" notices handed
    firedTo,      \* channels ever handed a firing of each fingerprint
    openSince,    \* `now' of the last firing handed and not yet closed
    \* counters of the bounds
    calls, restarts, cancels,
    broken        \* restarts and cancellations that lost part of a call

memory   == <<lastSent, sentToday, capNotified>>
observed == <<regular, forced, notices, firedTo, openSince>>
bounds   == <<calls, restarts, cancels, broken>>
vars     == <<memory, task, outcome, clock, disk, observed, bounds>>

-----------------------------------------------------------------------------
\* The steps of a call.

After(c, rest) == {x \in rest : x > c}

\* What a channel sees when it is handed message m of a call begun at `now'.
Observe(m, now, c) ==
    /\ IF m.force
       THEN /\ forced' = [forced EXCEPT ![Key(c, now)] = @ + 1]
            /\ UNCHANGED regular
       ELSE /\ regular' = [regular EXCEPT ![Key(c, now)] = @ + 1]
            /\ UNCHANGED forced
    /\ IF IsResolved(m)
       THEN /\ openSince' = [openSince EXCEPT ![m.fp] = NoMark]
            /\ UNCHANGED firedTo
       ELSE /\ openSince' = [openSince EXCEPT ![m.fp] = now]
            /\ firedTo' = [firedTo EXCEPT ![m.fp] = @ \cup {c}]
    /\ UNCHANGED notices

\* _deliver up to `await self._try(canal, m)': `enviados' is already read.
HandOver(s, m, now, c, rest, got, today) ==
    /\ task' = [task EXCEPT ![s] =
                  [m |-> m, now |-> now, at |-> c, what |-> "message",
                   read |-> today[Key(c, now)], rest |-> After(c, rest), got |-> got]]
    /\ Observe(m, now, c)
    /\ UNCHANGED <<capNotified, lastSent, disk, outcome>>

\* _deliver up to `await self._try(canal, aviso)'.
NotifyCap(s, m, now, c, rest, got, today) ==
    /\ capNotified' = capNotified \cup {Key(c, now)}
    /\ notices' = [notices EXCEPT ![Key(c, now)] = @ + 1]
    /\ task' = [task EXCEPT ![s] =
                  [m |-> m, now |-> now, at |-> c, what |-> "notice",
                   read |-> today[Key(c, now)], rest |-> After(c, rest), got |-> got]]
    /\ UNCHANGED <<lastSent, disk, outcome, regular, forced, firedTo, openSince>>

\* mutant: the file is written before pruning
SaveUnpruned(last, today, now) ==
    /\ lastSent' = Forgotten(last, now)
    /\ sentToday' = OnlyToday(today, now)
    /\ capNotified' = TodaysKeys(capNotified, now)
    /\ disk' = Snapshot(last, today, capNotified)

\* _snapshot: prune by the call's own `now', then rewrite the file whole.
Save(last, today, now) ==
    IF ~Durable
    THEN lastSent' = last /\ sentToday' = today /\ UNCHANGED <<capNotified, disk>>
    ELSE /\ lastSent' = Forgotten(last, now)
         /\ sentToday' = OnlyToday(today, now)
         /\ capNotified' = TodaysKeys(capNotified, now)
         /\ LET new == Snapshot(lastSent', sentToday', capNotified')
            IN disk' \in IF DiskMayFail THEN {new, disk} ELSE {new}

\* mutant: nothing is saved when nothing was sent
SettleSentOnly(s, m, now, got, today) ==
    /\ IF got = {}
       THEN sentToday' = today /\ UNCHANGED <<lastSent, capNotified, disk>>
       ELSE Save(Marked(lastSent, m, now, got), today, now)
    /\ outcome' = [outcome EXCEPT ![s] = IF got = {} THEN "capped" ELSE "sent"]
    /\ task' = [task EXCEPT ![s] = Idle]
    /\ UNCHANGED observed

\* The end of `send', after the loop over the channels.
Settle(s, m, now, got, today) ==
    /\ Save(Marked(lastSent, m, now, got), today, now)
    /\ outcome' = [outcome EXCEPT ![s] = IF got = {} THEN "capped" ELSE "sent"]
    /\ task' = [task EXCEPT ![s] = Idle]
    /\ UNCHANGED observed

\* The loop over the channels, up to the next await: channels at their cap and
\* already notified are dropped on the way.
Advance(s, m, now, rest, got, today) ==
    LET todo == {c \in rest : ~(AtCap(m, now, c, today) /\ Key(c, now) \in capNotified)}
    IN \/ /\ todo = {}
          /\ Settle(s, m, now, got, today)
       \/ \E c \in todo :
             /\ \A x \in todo : c <= x
             /\ sentToday' = today
             /\ IF AtCap(m, now, c, today)
                THEN NotifyCap(s, m, now, c, rest, got, today)
                ELSE HandOver(s, m, now, c, rest, got, today)

\* send(m) up to its first await, or whole when nothing is awaited.
Send(s, m) ==
    LET decision == Decision(lastSent, m, clock)
    IN /\ task[s] = Idle
       /\ calls < MaxCalls
       /\ calls' = calls + 1
       /\ UNCHANGED <<clock, restarts, cancels, broken>>
       /\ IF decision = "sent"
          THEN Advance(s, m, clock, Route(lastSent, m), {}, sentToday)
          ELSE /\ outcome' = [outcome EXCEPT ![s] = decision]
               /\ UNCHANGED <<memory, task, disk, observed>>

\* mutant: the date of the counter is taken after the await
ReturnOnNewDate(s) ==
    /\ task[s] # Idle
    /\ LET f == task[s]
       IN IF f.what = "message"
          THEN Advance(s, f.m, f.now, f.rest, f.got \cup {f.at},
                       [sentToday EXCEPT ![Key(f.at, clock)] = f.read + 1])
          ELSE Advance(s, f.m, f.now, f.rest, f.got, sentToday)
    /\ UNCHANGED <<clock, bounds>>

\* canal.send returned or raised (_try makes a Delivery of both): the rest of
\* _deliver, which writes the counter from the value read before the await,
\* and the loop up to the next await.
Return(s) ==
    /\ task[s] # Idle
    /\ LET f == task[s]
           k == Key(f.at, f.now)
       IN IF f.what = "message"
          THEN Advance(s, f.m, f.now, f.rest, f.got \cup {f.at},
                       [sentToday EXCEPT ![k] = f.read + 1])
          ELSE Advance(s, f.m, f.now, f.rest, f.got, sentToday)
    /\ UNCHANGED <<clock, bounds>>

\* The caller's task is cancelled (shutdown): CancelledError leaves `send' at
\* its await, past `except Exception'.
Cancel(s) ==
    /\ task[s] # Idle
    /\ cancels < MaxCancels
    /\ cancels' = cancels + 1
    /\ broken' = broken + 1
    /\ task' = [task EXCEPT ![s] = Idle]
    /\ UNCHANGED <<memory, outcome, clock, disk, observed, calls, restarts>>

Quiet == \A s \in Senders : task[s] = Idle

\* The process ends, cleanly or not, and another one starts from the file.
Restart ==
    /\ restarts < MaxRestarts
    /\ restarts' = restarts + 1
    /\ broken' = IF Quiet /\ Durable THEN broken ELSE broken + 1
    /\ \E found \in IF Durable THEN IF DiskMayFail THEN {disk, EmptyDisk} ELSE {disk}
                               ELSE {EmptyDisk} :
          /\ lastSent' = found.last
          /\ sentToday' = found.today
          /\ capNotified' = found.notified
    /\ task' = [s \in Senders |-> Idle]
    /\ outcome' = [s \in Senders |-> "none"]
    /\ UNCHANGED <<clock, disk, observed, calls, cancels>>

Tick ==
    /\ clock < MaxClock
    /\ clock' = clock + 1
    /\ UNCHANGED <<memory, task, outcome, disk, observed, bounds>>

-----------------------------------------------------------------------------
Init ==
    /\ \E old \in SUBSET LegacyFps : disk = IF Durable THEN LegacyDisk(old) ELSE EmptyDisk
    /\ lastSent = disk.last
    /\ sentToday = disk.today
    /\ capNotified = disk.notified
    /\ task = [s \in Senders |-> Idle]
    /\ outcome = [s \in Senders |-> "none"]
    /\ clock = 0
    /\ regular = [k \in Keys |-> 0]
    /\ forced = [k \in Keys |-> 0]
    /\ notices = [k \in Keys |-> 0]
    /\ firedTo = [f \in Fingerprints |-> {}]
    /\ openSince = [f \in Fingerprints |-> NoMark]
    /\ calls = 0 /\ restarts = 0 /\ cancels = 0 /\ broken = 0

Next ==
    \/ \E s \in Senders, m \in Messages : Send(s, m)
    \/ \E s \in Senders : Return(s)
    \/ \E s \in Senders : Cancel(s)
    \/ Restart
    \/ Tick

Spec == Init /\ [][Next]_vars

-----------------------------------------------------------------------------
TypeOK ==
    /\ lastSent \in MarkTables
    /\ sentToday \in Counters
    /\ capNotified \in SUBSET Keys
    /\ task \in [Senders -> Frames \cup {Idle}]
    /\ outcome \in [Senders -> Decisions \cup {"none"}]
    /\ clock \in Time
    /\ disk \in Snapshots
    /\ regular \in Counters
    /\ forced \in Counters
    /\ notices \in Counters
    /\ firedTo \in [Fingerprints -> SUBSET Channels]
    /\ openSince \in [Fingerprints -> Time \cup {NoMark}]
    /\ calls \in Nat /\ restarts \in Nat /\ cancels \in Nat /\ broken \in Nat

Handed(k) == regular[k] + forced[k]

\* The daily cap never cuts a channel off early: whatever the interleaving,
\* the cancellations and the restarts, a counter stands at the cap, or the
\* "cap reached" notice is on record, only for a channel that was really
\* handed daily_cap messages that day (the counter written after the await,
\* dispatch.py:280, and what is restored from the file).
NeverCutEarly ==
    \A k \in Keys : (sentToday[k] >= DailyCap \/ k \in capNotified) => Handed(k) >= DailyCap

\* A RESOLVED sent under the policy goes only to channels that were handed a
\* firing of its fingerprint, across interleavings and restarts (dispatch.py
\* lines 25-30, 192-198, 246-250), except after a state file that did not
\* record the channels.
ResolvedOnlyToWitnesses ==
    \A s \in Senders :
        LET f == task[s]
        IN (/\ f # Idle
            /\ f.what = "message"
            /\ IsResolved(f.m)
            /\ ~f.m.force
            /\ f.m.fp \notin LegacyFps) => f.at \in firedTo[f.m.fp]

\* When no call is suspended the file says what the memory says, so that a
\* restart there forgets nothing (dispatch.py:251, also when "capped").
Durability ==
    (Durable /\ ~DiskMayFail /\ Quiet /\ cancels = 0)
        => disk = Snapshot(lastSent, sentToday, capNotified)

\* A channel gets daily_cap messages and one notice a day, and no more: each
\* lost call costs at most one message and one notice over that
\* (dispatch.py:10-15).
CapHolds == \A k \in Keys : /\ regular[k] <= DailyCap + broken
                            /\ notices[k] <= 1 + broken

\* After the notice nothing more under the policy that day (dispatch.py:12-15).
NoticeIsLast ==
    [][\A k \in Keys : (notices[k] > 0 /\ broken = 0) => regular'[k] = regular[k]]_vars

\* No firing is sent twice within its interval unless a RESOLVED of the same
\* fingerprint was handed in between (dispatch.py:6-8): a call that starts
\* delivering a firing finds none open, or an old enough one.
NoRepeat ==
    [][\A s \in Senders :
        LET f == task'[s]
        IN (/\ task[s] = Idle /\ f # Idle
            /\ ~IsResolved(f.m) /\ ~f.m.force
            /\ broken = 0
            /\ openSince[f.m.fp] # NoMark)
           => \/ f.now - openSince[f.m.fp] >= Wait(f.m)
              \/ f.now - openSince[f.m.fp] >= RememberSent]_vars

\* Between calls the marks are exactly the open firings: a firing some channel
\* saw can still be closed, and a closed one does not hold back the next
\* (dispatch.py:242-250), for as long as the code remembers (_REMEMBER_SENT).
MarksAreOpenFirings ==
    (Quiet /\ broken = 0) =>
        \A f \in Fingerprints \ LegacyFps :
            IF lastSent[f] = NoMark
            THEN openSince[f] # NoMark => clock - openSince[f] >= RememberSent
            ELSE openSince[f] = lastSent[f].at

\* A RESOLVED that the dispatcher took up erases the mark of its firing, so
\* that the next firing is announced even before repeat_interval
\* (dispatch.py:28-30).
ResolvedErasesMark ==
    [][\A s \in Senders :
        LET f == task[s]
        IN (f # Idle /\ task'[s] = Idle /\ broken' = broken /\ IsResolved(f.m))
              => lastSent'[f.m.fp] = NoMark]_vars

\* The file moves by whole messages, each decided on the file as it was: calls,
\* awaits and restarts are invisible in it (dispatch.py:171-187, 251).
FileLedger == INSTANCE Ledger WITH ledger <- disk
FileIsLedger == FileLedger!LedgerSpec
=============================================================================
