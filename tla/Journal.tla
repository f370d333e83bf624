------------------------------- MODULE Journal -------------------------------
(***************************************************************************)
(* What a log on disk promises, without files, lines or rotation: entries  *)
(* are added at the end and forgotten from the front, never below Keep of  *)
(* them; a write that goes wrong costs its own entry, or at most the one   *)
(* before too, and one entry of what the log always keeps.                 *)
(***************************************************************************)
EXTENDS Naturals, Sequences

CONSTANTS
    Entries,
    Keep      \* as many entries as the log keeps when every write is good

VARIABLES
    journal,  \* what a process that starts now would read
    spoiled   \* writes that went wrong

jvars == <<journal, spoiled>>

\* `long' without some of its oldest entries.
ForgetsFrom(long) ==
    LET some == {n \in 0..Len(long) : n = 0 \/ Len(long) - n + spoiled >= Keep}
    IN journal' \in {SubSeq(long, n + 1, Len(long)) : n \in some}

Write(e) ==
    /\ UNCHANGED spoiled
    /\ ForgetsFrom(Append(journal, e))

\* The entry may still be read, until the next write makes one line of both.
Spoil(e) ==
    /\ spoiled' = spoiled + 1
    /\ \/ ForgetsFrom(journal)
       \/ ForgetsFrom(Append(journal, e))
       \/ journal # <<>> /\ journal' = SubSeq(journal, 1, Len(journal) - 1)

JournalInit == journal = <<>> /\ spoiled = 0
JournalNext == \E e \in Entries : Write(e) \/ Spoil(e)
JournalSpec == JournalInit /\ [][JournalNext]_jvars
=============================================================================
