------------------------------ MODULE MCCommands ---------------------------
(* Commands over every list of up to two channels with the names a and b,  *)
(* and files with one fault each.                                          *)
EXTENDS Commands

Limits == [max_steps |-> 1, max_series |-> 1, daily_cap |-> 1, max_concurrent |-> 1,
           queue_max |-> 1, threshold |-> 150, window_days |-> 5, min_days |-> 5]

Good == [env |-> TRUE, blocks |-> {"metrics", "model", "cost"}, known |-> TRUE, notify |-> <<>>,
         numbers |-> Limits, enabled |-> TRUE, token |-> TRUE, insecure |-> FALSE]

ChannelLists ==
    LET C == [name : {"a", "b"},
              severities : {All, {"resolved"}, {"critical"}, {"warning", "info"}}]
    IN {<<>>} \cup {<<c>> : c \in C} \cup ({c \in C : c.name = "a"} \X C)

MCFiles ==
    {[Good EXCEPT !.notify = l] : l \in ChannelLists}
    \cup {[Good EXCEPT !.numbers[p] = 0] : p \in DOMAIN Limits \ {"min_days"}}
    \cup {[Good EXCEPT !.blocks = @ \ {b}] : b \in Good.blocks}
    \cup {[Good EXCEPT !.enabled = FALSE], [Good EXCEPT !.env = FALSE],
          [Good EXCEPT !.known = FALSE], [Good EXCEPT !.token = FALSE]}
=============================================================================
