------------------------------ MODULE MCIngress ------------------------------
(***************************************************************************)
(* Small instances of Ingress for TLC: one alert that flaps, another one.  *)
(***************************************************************************)
EXTENDS Ingress

CONSTANTS fire1, fire2, fire3, clear1, clear2, other, disk_full, cpu

Signal(fp, status, severity) == [fp |-> fp, status |-> status, severity |-> severity]

MCSignalOf == [a \in Alerts |->
    CASE a \in {fire1, fire2, fire3} -> Signal(disk_full, "firing", "critical")
      [] a \in {clear1, clear2}      -> Signal(disk_full, "resolved", "critical")
      [] OTHER                       -> Signal(cpu, "firing", "page")]

MCMessages == {ToMessage(SignalOf[a]) : a \in Alerts}
MCAccepts  == [c \in Channels |-> Severities]
MCDayOf    == [t \in Time |-> 0]
MCLocalOf  == [t \in Time |-> 0]
=============================================================================
