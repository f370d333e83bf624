-------------------------------- MODULE Sieve --------------------------------
(***************************************************************************)
(* The elements of a sequence that are in a set, in their order: SelectSeq *)
(* with a set for its test, and the function that computes it in the open. *)
(***************************************************************************)
EXTENDS Naturals, Sequences

Sifted(s, T) ==
    LET upTo[n \in 0 .. Len(s)] ==
            IF n = 0 THEN <<>>
            ELSE IF s[n] \in T THEN Append(upTo[n - 1], s[n]) ELSE upTo[n - 1]
    IN upTo[Len(s)]
=============================================================================
