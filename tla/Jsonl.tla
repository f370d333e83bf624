-------------------------------- MODULE Jsonl --------------------------------
(***************************************************************************)
(* A log on disk, one line per entry (class Jsonl of src/copilot/store.py): *)
(* the current file and one generation behind it.  A file is a sequence of *)
(* lines; `cut' says that the last line of the current one has no newline. *)
(* Sizes are counted in lines instead of bytes.                            *)
(***************************************************************************)
EXTENDS Naturals, Sequences, SequencesExt, Sieve

CONSTANTS
    Entries,   \* what a line may hold
    Accented,  \* the entries with a character of several bytes
    FileMax,   \* max_bytes, in lines
    Torn,      \* a line that is not JSON
    Garbled    \* a line that is not even UTF-8: it was cut inside a character

NewFile == [old |-> <<>>, cur |-> <<>>, cut |-> FALSE]

-----------------------------------------------------------------------------
\* mutant: a full file is thrown away instead of kept as `.1'
ThrownAway(f) == IF Len(f.cur) > FileMax THEN NewFile ELSE f

Rotated(f) ==
    IF Len(f.cur) > FileMax THEN [old |-> f.cur, cur |-> <<>>, cut |-> FALSE] ELSE f

\* What is written after a line without its newline makes one line with it.
Glued(line, piece) == IF Garbled \in {line, piece} THEN Garbled ELSE Torn

Added(f, piece, cut) ==
    [old |-> f.old,
     cur |-> IF f.cut THEN Append(Front(f.cur), Glued(Last(f.cur), piece))
             ELSE Append(f.cur, piece),
     cut |-> cut]

Written(f, e) == Added(Rotated(f), e, FALSE)

\* Does the next write spoil its entry and the one before?
Glues(f) == Rotated(f).cut

\* What a full disk, or a process that dies while it writes, may leave: the
\* files as they were, or rotated, or the line cut anywhere.
Spoilt(f, e) ==
    {f, Rotated(f)} \cup
    {Added(Rotated(f), piece, TRUE) :
        piece \in {Torn, e} \cup (IF e \in Accented THEN {Garbled} ELSE {})}

\* `tail' reads `.1' and then the current file, but for those it cannot open.
\* It skips a line that is not JSON; one that is not UTF-8 is an exception.
Read(f, unread) ==
    (IF "old" \in unread THEN <<>> ELSE f.old) \o (IF "cur" \in unread THEN <<>> ELSE f.cur)

Raises(lines)     == Garbled \in ToSet(lines)
Parsed(lines)     == Sifted(lines, Entries)
Newest(s, n)      == IF Len(s) <= n THEN s ELSE SubSeq(s, Len(s) - n + 1, Len(s))
=============================================================================
