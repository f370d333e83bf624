------------------------------ MODULE Dialogue ------------------------------
(***************************************************************************)
(* What the model sees of a turn: rounds in which all that it asked for is *)
(* answered, each call once and in the order of the request; one request   *)
(* to close at most; and an end, always.  How the tools of a round         *)
(* interleave, how long they take and how they fail is not seen here.      *)
(***************************************************************************)
EXTENDS Naturals, Sequences, FiniteSets

CONSTANTS
    Requests,  \* the sequences of tools that a reply may ask for
    MaxSteps   \* agent.max_steps

VARIABLES
    talk,      \* the messages after the question of the user
    over       \* has the turn ended?

dvars == <<talk, over>>

Assistant(calls)     == [role |-> "assistant", calls |-> calls]
Answer(i, name, ok)  == [role |-> "tool", call |-> i, name |-> name, ok |-> ok]
CloseNow             == [role |-> "user"]

Rounds == Cardinality({i \in DOMAIN talk : talk[i].role = "assistant"})

Round ==
    /\ ~over
    /\ CloseNow \notin {talk[i] : i \in DOMAIN talk}
    /\ Rounds < MaxSteps
    /\ \E calls \in Requests : \E oks \in [DOMAIN calls -> BOOLEAN] :
          talk' = Append(talk, Assistant(calls))
                      \o [i \in DOMAIN calls |-> Answer(i, calls[i], oks[i])]
    /\ UNCHANGED over

AskToClose ==
    /\ ~over
    /\ CloseNow \notin {talk[i] : i \in DOMAIN talk}
    /\ talk' = Append(talk, CloseNow)
    /\ UNCHANGED over

End ==
    /\ ~over
    /\ over' = TRUE
    /\ UNCHANGED talk

DialogueInit == talk = <<>> /\ over = FALSE
DialogueNext == Round \/ AskToClose \/ End
DialogueSpec == DialogueInit /\ [][DialogueNext]_dvars /\ WF_dvars(DialogueNext)
=============================================================================
