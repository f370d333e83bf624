---------------------------- MODULE MCDispatcher ----------------------------
(***************************************************************************)
(* Small instances of Dispatcher for TLC.                                  *)
(***************************************************************************)
EXTENDS Dispatcher, TLC

CONSTANTS s1, s2, alert, spike, probe

\* Two instants a day, counted one hour early in the zone of quiet_hours.
MCDayOf   == [t \in Time |-> t \div 2]
MCLocalOf == [t \in Time |-> (t + 1) % 2]

\* With several channels the first is the pager, for what is critical.
MCAccepts == [c \in Channels |-> IF c = 1 /\ NumChannels > 1
                                 THEN {"critical"} ELSE Severities]

Msg(fp, sev, wait, force) == [fp |-> fp, sev |-> sev, repeatAfter |-> wait, force |-> force]

AlertMessages == {Msg(alert, "critical", 0, FALSE), Msg(alert, "resolved", 0, FALSE)}

\* The cost detector: its own interval, never resolved.
SpikeMessages == {Msg(spike, "warning", 3, FALSE)}

\* POST /v1/notify/test, forced or not, with the severity the caller chose.
ProbeMessages == {Msg(probe, "info", 0, TRUE), Msg(probe, "resolved", 0, FALSE)}

\* The interleavings of an alert with a test message.
ConcurrentMessages == AlertMessages \cup ProbeMessages

\* Different alerts of the same night, none of which repeats another.
BurstMessages == {Msg(f, "critical", 0, FALSE) : f \in Fingerprints}

MCMessages == AlertMessages \cup SpikeMessages \cup ProbeMessages

\* The callers of `send' are interchangeable (only safety is checked with it).
SenderSymmetry == Permutations(Senders)
=============================================================================
