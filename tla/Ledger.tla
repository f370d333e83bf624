------------------------------- MODULE Ledger -------------------------------
(***************************************************************************)
(* What the dispatcher promises of the state it keeps across restarts: the *)
(* file moves by whole messages.  Each change of it is one message,        *)
(* decided on the file as it was, counted once on every channel that was   *)
(* below its cap, and remembered for the channels that got it.  There are  *)
(* no awaits, no frames and no crashes here.                               *)
(***************************************************************************)
EXTENDS Policy

VARIABLE ledger

LedgerInit == \E old \in SUBSET LegacyFps : ledger = LegacyDisk(old)

\* Message m, sent at `now' as if nothing else happened meanwhile.
Enter(m, now) ==
    LET full == {c \in Route(ledger.last, m) : AtCap(m, now, c, ledger.today)}
        got  == Route(ledger.last, m) \ full
        counted == [k \in Keys |-> IF k \in {Key(c, now) : c \in got}
                                   THEN ledger.today[k] + 1 ELSE ledger.today[k]]
    IN /\ Decision(ledger.last, m, now) = "sent"
       /\ ledger' = Snapshot(
              Forgotten(Marked(ledger.last, m, now, got), now),
              OnlyToday(counted, now),
              TodaysKeys(ledger.notified \cup {Key(c, now) : c \in full}, now))

LedgerNext == \E m \in Messages, now \in Time : Enter(m, now)

LedgerSpec == LedgerInit /\ [][LedgerNext]_ledger
=============================================================================
