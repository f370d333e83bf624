------------------------------- MODULE Config ------------------------------
(***************************************************************************)
(* The configuration file, as config.load reads it, and what runtime.build *)
(* makes of it.  A file is a record:                                       *)
(*   env       every ${VAR} has a value, every duration its unit           *)
(*   blocks    which of metrics, model and cost are there                  *)
(*   known     their adapters and those of the channels can be built       *)
(*   notify    the channels in order: a name and a list of severities, or  *)
(*             All when the key is left out                                *)
(*   numbers   the limits, by name                                         *)
(*   enabled, token, insecure                                              *)
(***************************************************************************)
EXTENDS Integers, Sequences

CONSTANT All

Firings == {"critical", "warning", "info"}

\* expand and parse_duration raise at once.
Unreadable(file) == ~file.env

\* And so does a list of severities that is empty, or names anything else.
Malformed(file) ==
    \/ Unreadable(file)
    \/ \E i \in DOMAIN file.notify :
          LET sevs == file.notify[i].severities
          IN sevs # All /\ (sevs = {} \/ ~(sevs \subseteq Firings))

Names(file) == {file.notify[i].name : i \in DOMAIN file.notify}
Routed(file) == {i \in DOMAIN file.notify : file.notify[i].severities # All}

\* The dict `routes': by name, the last of the channels that bear it.
Routes(file) ==
    [n \in {file.notify[i].name : i \in Routed(file)} |->
        LET S == {i \in Routed(file) : file.notify[i].name = n}
        IN file.notify[CHOOSE i \in S : \A j \in S : j <= i].severities]

\* Policy.accepts
AcceptsOf(file, n, sev) ==
    n \notin DOMAIN Routes(file) \/ sev \in Routes(file)[n]

\* mutant: one covered severity is enough
OrphansIfAll(file) ==
    IF \A sev \in Firings : \A n \in Names(file) : ~AcceptsOf(file, n, sev) THEN Firings ELSE {}

\* The severities that no channel takes.
Orphans(file) ==
    IF Routes(file) = <<>> THEN {}
    ELSE {sev \in Firings : \A n \in Names(file) : ~AcceptsOf(file, n, sev)}

Repeated(file) ==
    \E i, j \in DOMAIN file.notify : i # j /\ file.notify[i].name = file.notify[j].name

\* problems: whatever keeps the program from starting, all of it together.
Problems(file) ==
    LET n == file.numbers IN
    {p \in {"metrics", "model"} : p \notin file.blocks}
    \cup {p \in {"max_steps", "max_series", "daily_cap", "max_concurrent", "queue_max"} : n[p] < 1}
    \cup {p \in {"cost"} : file.enabled /\ p \notin file.blocks}
    \cup {p \in {"threshold"} : n.threshold <= 100}
    \cup {p \in {"window_days"} : n.window_days < n.min_days}
    \cup {p \in {"repeated"} : Repeated(file)}
    \cup {p \in {"orphans"} : Orphans(file) # {}}
    \cup {p \in {"token"} : ~file.token /\ ~file.insecure}

\* load
Loads(file) == ~Malformed(file) /\ Problems(file) = {}

\* build: an adapter that is not there, or refuses its options, raises.
Builds(file) == Loads(file) /\ file.known

\* build: without channels there is the log.
Channels(file) == IF file.notify = <<>> THEN {"log"} ELSE Names(file)

\* scheduler.start
Schedules(file) == file.enabled /\ "cost" \in file.blocks
=============================================================================
