--------------------------- MODULE AlertLogProofs ---------------------------
(***************************************************************************)
(* What TLAPS proves of AlertLog: lemmas on what a sieve keeps of a        *)
(* sequence, and then that the files are a journal and the ring a memory,  *)
(* whatever goes wrong with a write and wherever the process dies.         *)
(***************************************************************************)
EXTENDS AlertLog, SlicesProofs, SequenceTheorems

-----------------------------------------------------------------------------
(* Induction, over a set.                                                  *)

\* A set that has 0 and with a number the next one has them all.
LEMMA AllNumbers ==
  ASSUME NEW P \in SUBSET Nat, 0 \in P, \A n \in P : n + 1 \in P
  PROVE  P = Nat
<1> SUFFICES ASSUME Nat \ P # {} PROVE FALSE
  OBVIOUS
<1>1. PICK x \in Nat \ P : \A y \in Nat \ P : x <= y
  BY LeastExists
<1>2. x # 0 /\ x - 1 \in Nat /\ ~(x <= x - 1)
  BY <1>1
<1>3. x - 1 \in P
  BY <1>1, <1>2
<1>4. (x - 1) + 1 = x
  BY <1>1
<1> QED
  BY <1>1, <1>3, <1>4

\* A set that has the empty sequence and with a sequence each that is one
\* element longer has them all.
LEMMA AllSequences ==
  ASSUME NEW S, NEW P \in SUBSET Seq(S), <<>> \in P,
         \A s \in P : \A x \in S : Append(s, x) \in P
  PROVE  P = Seq(S)
<1> DEFINE N == {n \in Nat : \A s \in Seq(S) : Len(s) = n => s \in P}
<1>1. 0 \in N
  BY EmptySeq
<1>2. ASSUME NEW n \in N PROVE n + 1 \in N
  <2> SUFFICES ASSUME NEW s \in Seq(S), Len(s) = n + 1 PROVE s \in P
    OBVIOUS
  <2>1. s # <<>>
    BY EmptySeq
  <2>2. PICK t \in Seq(S), x \in S : s = Append(t, x)
    BY <2>1, SequenceEmptyOrAppend
  <2>3. Len(t) = n
    <3>1. Len(s) = Len(t) + 1 /\ Len(t) \in Nat
      BY <2>2, AppendProperties, LenProperties
    <3> QED
      BY <3>1
  <2> QED
    BY <2>2, <2>3
<1> HIDE DEF N
<1>3. N = Nat
  <2>1. N \in SUBSET Nat
    BY DEF N
  <2> QED
    BY <1>1, <1>2, <2>1, AllNumbers
<1>4. \A s \in Seq(S) : Len(s) \in N
  BY <1>3, LenProperties
<1> QED
  BY <1>4 DEF N

-----------------------------------------------------------------------------
(* What a sieve keeps.                                                     *)

Sieving(f, s, T) ==
    f = [n \in 0 .. Len(s) |->
            IF n = 0 THEN <<>>
            ELSE IF s[n] \in T THEN Append(f[n - 1], s[n]) ELSE f[n - 1]]

\* Two sieves do the same on the part that two sequences share.
LEMMA SievesAgree ==
  ASSUME NEW S, NEW s \in Seq(S), NEW t \in Seq(S), NEW T, NEW f, NEW g,
         Sieving(f, s, T), Sieving(g, t, T), Len(s) <= Len(t),
         \A i \in 1 .. Len(s) : s[i] = t[i]
  PROVE  \A n \in 0 .. Len(s) : f[n] = g[n]
<1> DEFINE P == {n \in Nat : n \in 0 .. Len(s) => f[n] = g[n]}
<1>1. Len(s) \in Nat /\ Len(t) \in Nat
  BY LenProperties
<1>2. /\ f[0] = <<>> /\ g[0] = <<>>
      /\ \A n \in 1 .. Len(s) : f[n] = IF s[n] \in T THEN Append(f[n - 1], s[n]) ELSE f[n - 1]
      /\ \A n \in 1 .. Len(s) : g[n] = IF t[n] \in T THEN Append(g[n - 1], t[n]) ELSE g[n - 1]
  <2>1. \A n \in 0 .. Len(s) :
           f[n] = IF n = 0 THEN <<>> ELSE IF s[n] \in T THEN Append(f[n - 1], s[n]) ELSE f[n - 1]
    BY DEF Sieving
  <2>2. \A n \in 0 .. Len(t) :
           g[n] = IF n = 0 THEN <<>> ELSE IF t[n] \in T THEN Append(g[n - 1], t[n]) ELSE g[n - 1]
    BY DEF Sieving
  <2>3. /\ 0 \in 0 .. Len(s) /\ 0 \in 0 .. Len(t)
        /\ \A n \in 1 .. Len(s) : n \in 0 .. Len(s) /\ n \in 0 .. Len(t) /\ n # 0
    BY <1>1
  <2> QED
    BY <2>1, <2>2, <2>3
<1>3. 0 \in P
  BY <1>2
<1>4. ASSUME NEW n \in P PROVE n + 1 \in P
  <2> SUFFICES ASSUME n + 1 \in 0 .. Len(s) PROVE f[n + 1] = g[n + 1]
    OBVIOUS
  <2>1. n + 1 \in 1 .. Len(s) /\ (n + 1) - 1 = n /\ n \in 0 .. Len(s)
    BY <1>1
  <2>2. f[n] = g[n] /\ s[n + 1] = t[n + 1]
    BY <2>1
  <2> QED
    BY <1>2, <2>1, <2>2
<1> HIDE DEF P
<1>5. P = Nat
  <2>1. P \in SUBSET Nat
    BY DEF P
  <2> QED
    BY <1>3, <1>4, <2>1, AllNumbers
<1> QED
  BY <1>1, <1>5 DEF P

\* There is a sieve for each sequence.
LEMMA SieveExists ==
  ASSUME NEW S, NEW T
  PROVE  \A s \in Seq(S) : \E f : Sieving(f, s, T)
<1> DEFINE P == {s \in Seq(S) : \E f : Sieving(f, s, T)}
<1>1. <<>> \in P
  <2> DEFINE f == [n \in 0 .. 0 |-> <<>>]
  <2>1. <<>> \in Seq(S) /\ Len(<<>>) = 0
    BY EmptySeq
  <2>2. ASSUME NEW e, Len(e) = 0 PROVE Sieving(f, e, T)
    <3>1. \A n \in 0 .. Len(e) : n = 0
      BY <2>2
    <3>2. [n \in 0 .. Len(e) |-> IF n = 0 THEN <<>>
             ELSE IF e[n] \in T THEN Append(f[n - 1], e[n]) ELSE f[n - 1]] = [n \in 0 .. Len(e) |-> <<>>]
      BY <3>1
    <3> QED
      BY <2>2, <3>2 DEF Sieving
  <2> QED
    BY <2>1, <2>2
<1>2. ASSUME NEW s \in P, NEW x \in S PROVE Append(s, x) \in P
  <2> DEFINE t == Append(s, x)
  <2>1. PICK f : Sieving(f, s, T)
    OBVIOUS
  <2>2. /\ t \in Seq(S) /\ Len(t) = Len(s) + 1 /\ Len(s) \in Nat
        /\ t[Len(s) + 1] = x /\ \A i \in 1 .. Len(s) : t[i] = s[i]
    BY AppendProperties, LenProperties
  <2> DEFINE last == IF x \in T THEN Append(f[Len(s)], x) ELSE f[Len(s)]
             g == [n \in 0 .. Len(t) |-> IF n <= Len(s) THEN f[n] ELSE last]
  <2> HIDE DEF t, last
  <2>3. /\ f[0] = <<>>
        /\ \A n \in 1 .. Len(s) : f[n] = IF s[n] \in T THEN Append(f[n - 1], s[n]) ELSE f[n - 1]
    <3>1. \A n \in 0 .. Len(s) :
             f[n] = IF n = 0 THEN <<>> ELSE IF s[n] \in T THEN Append(f[n - 1], s[n]) ELSE f[n - 1]
      BY <2>1 DEF Sieving
    <3>2. 0 \in 0 .. Len(s) /\ \A n \in 1 .. Len(s) : n \in 0 .. Len(s) /\ n # 0
      BY <2>2
    <3> QED
      BY <3>1, <3>2
  <2>4. \A n \in 0 .. Len(t) :
           g[n] = IF n = 0 THEN <<>> ELSE IF t[n] \in T THEN Append(g[n - 1], t[n]) ELSE g[n - 1]
    <3> SUFFICES ASSUME NEW n \in 0 .. Len(t)
                 PROVE  g[n] = IF n = 0 THEN <<>>
                               ELSE IF t[n] \in T THEN Append(g[n - 1], t[n]) ELSE g[n - 1]
      OBVIOUS
    <3>1. CASE n = 0
      BY <2>2, <2>3, <3>1
    <3>2. CASE n \in 1 .. Len(s)
      <4>1. n - 1 \in 0 .. Len(t) /\ n - 1 <= Len(s) /\ n <= Len(s) /\ n # 0
        BY <2>2, <3>2
      <4> QED
        BY <2>2, <2>3, <3>2, <4>1
    <3>3. CASE n = Len(s) + 1
      <4>1. n - 1 = Len(s) /\ n - 1 \in 0 .. Len(t) /\ ~(n <= Len(s)) /\ n # 0
        BY <2>2, <3>3
      <4>2. g[n] = last /\ g[n - 1] = f[Len(s)]
        BY <2>2, <4>1
      <4> QED
        BY <2>2, <3>3, <4>1, <4>2 DEF last
    <3> QED
      BY <2>2, <3>1, <3>2, <3>3
  <2>5. Sieving(g, t, T)
    BY <2>4 DEF Sieving
  <2> QED
    BY <2>2, <2>5 DEF t
<1> HIDE DEF P
<1>3. P = Seq(S)
  <2>1. P \in SUBSET Seq(S)
    BY DEF P
  <2> QED
    BY <1>1, <1>2, <2>1, AllSequences
<1> QED
  BY <1>3 DEF P

\* A sieve is read at its end.
LEMMA SieveIsRead ==
  ASSUME NEW S, NEW T, NEW s \in Seq(S)
  PROVE  \E f : Sieving(f, s, T) /\ Sifted(s, T) = f[Len(s)]
<1> DEFINE f == CHOOSE g : Sieving(g, s, T)
<1>1. Sieving(f, s, T)
  BY SieveExists
<1>2. Sifted(s, T) = f[Len(s)]
  BY DEF Sifted, Sieving
<1> QED
  BY <1>1, <1>2

\* One element more is kept, or not.
LEMMA SiftedOneMore ==
  ASSUME NEW S, NEW T, NEW s \in Seq(S), NEW x \in S
  PROVE  Sifted(Append(s, x), T) = IF x \in T THEN Append(Sifted(s, T), x) ELSE Sifted(s, T)
<1> DEFINE t == Append(s, x)
<1>1. /\ t \in Seq(S) /\ Len(t) = Len(s) + 1 /\ Len(s) \in Nat
      /\ t[Len(s) + 1] = x /\ \A i \in 1 .. Len(s) : t[i] = s[i]
  BY AppendProperties, LenProperties
<1> HIDE DEF t
<1>2. PICK f : Sieving(f, s, T) /\ Sifted(s, T) = f[Len(s)]
  BY SieveIsRead
<1>3. PICK g : Sieving(g, t, T) /\ Sifted(t, T) = g[Len(t)]
  BY <1>1, SieveIsRead
<1>4. Len(s) <= Len(t) /\ \A i \in 1 .. Len(s) : s[i] = t[i]
  BY <1>1
<1>5. g[Len(s)] = f[Len(s)]
  <2>1. \A n \in 0 .. Len(s) : f[n] = g[n]
    BY <1>1, <1>2, <1>3, <1>4, SievesAgree
  <2> QED
    BY <1>1, <2>1
<1>6. g[Len(t)] = IF t[Len(t)] \in T THEN Append(g[Len(t) - 1], t[Len(t)]) ELSE g[Len(t) - 1]
  <2>1. Len(t) \in 0 .. Len(t) /\ Len(t) # 0
    BY <1>1
  <2> QED
    BY <1>3, <2>1 DEF Sieving
<1>7. Len(t) - 1 = Len(s)
  BY <1>1
<1> QED
  BY <1>1, <1>2, <1>3, <1>5, <1>6, <1>7 DEF t

LEMMA SiftedNone ==
  ASSUME NEW T
  PROVE  Sifted(<<>>, T) = <<>>
<1>1. <<>> \in Seq({}) /\ Len(<<>>) = 0
  BY EmptySeq
<1>2. PICK f : Sieving(f, <<>>, T) /\ Sifted(<<>>, T) = f[Len(<<>>)]
  BY <1>1, SieveIsRead
<1> QED
  BY <1>1, <1>2 DEF Sieving

\* What is kept is in the set, and no more than there was.
LEMMA SiftedIsPart ==
  ASSUME NEW S, NEW T, NEW s \in Seq(S)
  PROVE  Sifted(s, T) \in Seq(S \cap T) /\ Len(Sifted(s, T)) <= Len(s)
<1> DEFINE P == {q \in Seq(S) : Sifted(q, T) \in Seq(S \cap T) /\ Len(Sifted(q, T)) <= Len(q)}
<1>1. <<>> \in P
  <2>1. /\ <<>> \in Seq(S) /\ <<>> \in Seq(S \cap T) /\ Len(<<>>) = 0
    BY EmptySeq
  <2>2. Sifted(<<>>, T) = <<>>
    BY SiftedNone
  <2>3. Len(Sifted(<<>>, T)) <= Len(<<>>)
    BY <2>1, <2>2
  <2> QED
    BY <2>1, <2>2, <2>3
<1>2. ASSUME NEW q \in P, NEW x \in S PROVE Append(q, x) \in P
  <2>1. /\ Append(q, x) \in Seq(S) /\ Len(Append(q, x)) = Len(q) + 1 /\ Len(q) \in Nat
    BY AppendProperties, LenProperties
  <2>2. Sifted(Append(q, x), T) = IF x \in T THEN Append(Sifted(q, T), x) ELSE Sifted(q, T)
    BY SiftedOneMore
  <2>3. Sifted(q, T) \in Seq(S \cap T) /\ Len(Sifted(q, T)) <= Len(q) /\ Len(Sifted(q, T)) \in Nat
    BY LenProperties
  <2>4. CASE x \in T
    <3>1. /\ Append(Sifted(q, T), x) \in Seq(S \cap T)
          /\ Len(Append(Sifted(q, T), x)) = Len(Sifted(q, T)) + 1
      BY <2>3, <2>4, AppendProperties
    <3> QED
      BY <2>1, <2>2, <2>3, <2>4, <3>1
  <2>5. CASE x \notin T
    BY <2>1, <2>2, <2>3, <2>5
  <2> QED
    BY <2>4, <2>5
<1> HIDE DEF P
<1>3. P = Seq(S)
  <2>1. P \in SUBSET Seq(S)
    BY DEF P
  <2> QED
    BY <1>1, <1>2, <2>1, AllSequences
<1> QED
  BY <1>3 DEF P

LEMMA SiftedIsSequence ==
  ASSUME NEW S, NEW T, NEW s \in Seq(S)
  PROVE  Sifted(s, T) \in Seq(S)
<1>1. Sifted(s, T) \in Seq(S \cap T) /\ S \cap T \subseteq S
  BY SiftedIsPart
<1> QED
  BY <1>1, SeqMonotonic

\* What is kept of two sequences in a row is what is kept of each.
LEMMA SiftedOfBoth ==
  ASSUME NEW S, NEW T, NEW s \in Seq(S), NEW t \in Seq(S)
  PROVE  Sifted(s \o t, T) = Sifted(s, T) \o Sifted(t, T)
<1> DEFINE P == {q \in Seq(S) : Sifted(s \o q, T) = Sifted(s, T) \o Sifted(q, T)}
<1>1. <<>> \in P
  <2>1. <<>> \in Seq(S) /\ s \o <<>> = s /\ Sifted(s, T) \o <<>> = Sifted(s, T)
    BY EmptySeq, ConcatEmptySeq, SiftedIsPart
  <2> QED
    BY <2>1, SiftedNone
<1>2. ASSUME NEW q \in P, NEW x \in S PROVE Append(q, x) \in P
  <2>1. <<x>> \in Seq(S) /\ s \o q \in Seq(S) /\ Append(q, x) \in Seq(S)
    BY ConcatProperties, AppendProperties
  <2>2. s \o Append(q, x) = Append(s \o q, x)
    <3>1. Append(q, x) = q \o <<x>> /\ Append(s \o q, x) = (s \o q) \o <<x>>
      BY <2>1, AppendIsConcat
    <3>2. (s \o q) \o <<x>> = s \o (q \o <<x>>)
      BY <2>1, ConcatAssociative
    <3> QED
      BY <3>1, <3>2
  <2>3. /\ Sifted(Append(s \o q, x), T)
              = IF x \in T THEN Append(Sifted(s \o q, T), x) ELSE Sifted(s \o q, T)
        /\ Sifted(Append(q, x), T) = IF x \in T THEN Append(Sifted(q, T), x) ELSE Sifted(q, T)
    <3>1. q \in Seq(S) /\ s \o q \in Seq(S)
      BY <2>1
    <3>2. Sifted(Append(s \o q, x), T)
              = IF x \in T THEN Append(Sifted(s \o q, T), x) ELSE Sifted(s \o q, T)
      <4> DEFINE r == s \o q
      <4> HIDE DEF r
      <4>1. r \in Seq(S)
        BY <3>1 DEF r
      <4>2. Sifted(Append(r, x), T) = IF x \in T THEN Append(Sifted(r, T), x) ELSE Sifted(r, T)
        BY <4>1, SiftedOneMore
      <4> QED
        BY <4>2 DEF r
    <3>3. Sifted(Append(q, x), T) = IF x \in T THEN Append(Sifted(q, T), x) ELSE Sifted(q, T)
      BY <3>1, SiftedOneMore
    <3> QED
      BY <3>2, <3>3
  <2> DEFINE a == Sifted(s, T)
             b == Sifted(q, T)
  <2>4. a \in Seq(S) /\ b \in Seq(S)
    BY SiftedIsSequence
  <2>5. Sifted(s \o q, T) = a \o b
    OBVIOUS
  <2> HIDE DEF a, b
  <2>6. Append(a \o b, x) = a \o Append(b, x)
    <3>1. a \o b \in Seq(S)
      BY <2>4, ConcatProperties
    <3>2. Append(b, x) = b \o <<x>> /\ Append(a \o b, x) = (a \o b) \o <<x>>
      BY <2>4, <3>1, AppendIsConcat
    <3>3. (a \o b) \o <<x>> = a \o (b \o <<x>>)
      BY <2>1, <2>4, ConcatAssociative
    <3> QED
      BY <3>2, <3>3
  <2> QED
    BY <2>1, <2>2, <2>3, <2>5, <2>6 DEF a, b
<1> HIDE DEF P
<1>3. P = Seq(S)
  <2>1. P \in SUBSET Seq(S)
    BY DEF P
  <2> QED
    BY <1>1, <1>2, <2>1, AllSequences
<1> QED
  BY <1>3 DEF P

LEMMA ReverseOneMore ==
  ASSUME NEW S, NEW s \in Seq(S), NEW x \in S
  PROVE  Reverse(s) \in Seq(S) /\ Reverse(Append(s, x)) = <<x>> \o Reverse(s)
<1> DEFINE t == Append(s, x)
<1>1. /\ t \in Seq(S) /\ Len(t) = Len(s) + 1 /\ Len(s) \in Nat
      /\ t[Len(s) + 1] = x /\ \A i \in 1 .. Len(s) : t[i] = s[i]
  BY AppendProperties, LenProperties
<1> HIDE DEF t
<1>2. ASSUME NEW q \in Seq(S)
      PROVE  /\ Reverse(q) \in Seq(S) /\ Len(Reverse(q)) = Len(q)
             /\ \A i \in 1 .. Len(q) : Reverse(q)[i] = q[Len(q) - i + 1]
  <2>1. Len(q) \in Nat /\ \A i \in 1 .. Len(q) : q[i] \in S
    BY LenProperties, ElementOfSeq
  <2>2. \A i \in 1 .. Len(q) : q[(Len(q) - i) + 1] \in S
    BY <2>1
  <2> QED
    BY <2>1, <2>2 DEF Reverse
<1>3. <<x>> \in Seq(S) /\ Len(<<x>>) = 1 /\ <<x>>[1] = x
  OBVIOUS
<1>4. /\ <<x>> \o Reverse(s) \in Seq(S)
      /\ Len(<<x>> \o Reverse(s)) = 1 + Len(s)
      /\ \A i \in 1 .. 1 + Len(s) :
            (<<x>> \o Reverse(s))[i] = IF i <= 1 THEN <<x>>[i] ELSE Reverse(s)[i - 1]
  BY <1>2, <1>3, ConcatProperties
<1>5. \A i \in 1 .. 1 + Len(s) : Reverse(t)[i] = (<<x>> \o Reverse(s))[i]
  <2> TAKE i \in 1 .. 1 + Len(s)
  <2>1. Reverse(t)[i] = t[Len(s) + 1 - i + 1]
    BY <1>1, <1>2
  <2>2. CASE i = 1
    BY <1>1, <1>3, <1>4, <2>1, <2>2
  <2>3. CASE i # 1
    <3>1. i - 1 \in 1 .. Len(s) /\ Len(s) + 1 - i + 1 \in 1 .. Len(s)
          /\ Len(s) - (i - 1) + 1 = Len(s) + 1 - i + 1 /\ ~(i <= 1)
      BY <1>1, <2>3
    <3>2. Reverse(s)[i - 1] = s[Len(s) - (i - 1) + 1]
      BY <1>2, <3>1
    <3> QED
      BY <1>1, <1>4, <2>1, <3>1, <3>2
  <2> QED
    BY <2>2, <2>3
<1>6. Reverse(t) \in Seq(S) /\ Len(Reverse(t)) = 1 + Len(s)
  BY <1>1, <1>2
<1>7. Reverse(t) = <<x>> \o Reverse(s)
  BY <1>4, <1>5, <1>6, SeqEqual
<1> QED
  BY <1>2, <1>7 DEF t

\* To sieve a sequence backwards is to read what it keeps backwards.
LEMMA SiftedBackwards ==
  ASSUME NEW S, NEW T, NEW s \in Seq(S)
  PROVE  Sifted(Reverse(s), T) = Reverse(Sifted(s, T))
<1> DEFINE P == {q \in Seq(S) : Sifted(Reverse(q), T) = Reverse(Sifted(q, T))}
<1>1. <<>> \in P
  <2>1. Reverse(<<>>) = <<>>
    BY DEF Reverse
  <2> QED
    BY <2>1, EmptySeq, SiftedNone
<1>2. ASSUME NEW q \in P, NEW x \in S PROVE Append(q, x) \in P
  <2>1. Append(q, x) \in Seq(S)
    BY AppendProperties
  <2>2. <<x>> \in Seq(S) /\ <<x>> = Append(<<>>, x) /\ <<>> \in Seq(S)
    OBVIOUS
  <2>3. Reverse(q) \in Seq(S) /\ Reverse(Append(q, x)) = <<x>> \o Reverse(q)
    BY ReverseOneMore
  <2>4. Sifted(<<x>> \o Reverse(q), T) = Sifted(<<x>>, T) \o Sifted(Reverse(q), T)
    BY <2>2, <2>3, SiftedOfBoth
  <2>5. Sifted(<<x>>, T) = IF x \in T THEN <<x>> ELSE <<>>
    <3>1. Append(<<>>, x) = <<x>> /\ Sifted(<<>>, T) = <<>>
      BY <2>2, SiftedNone
    <3> DEFINE e == <<>>
    <3> HIDE DEF e
    <3>2. e \in Seq(S)
      BY <2>2 DEF e
    <3>3. Sifted(Append(e, x), T) = IF x \in T THEN Append(Sifted(e, T), x) ELSE Sifted(e, T)
      BY <3>2, SiftedOneMore
    <3>4. Sifted(Append(<<>>, x), T) = IF x \in T THEN Append(Sifted(<<>>, T), x) ELSE Sifted(<<>>, T)
      BY <3>3 DEF e
    <3> QED
      BY <3>1, <3>4
  <2>6. Sifted(Append(q, x), T) = IF x \in T THEN Append(Sifted(q, T), x) ELSE Sifted(q, T)
    BY SiftedOneMore
  <2> DEFINE k == Sifted(q, T)
  <2>7. k \in Seq(S)
    BY SiftedIsSequence
  <2>8. Sifted(Reverse(q), T) = Reverse(k)
    OBVIOUS
  <2>9. Sifted(q, T) = k
    OBVIOUS
  <2> HIDE DEF k
  <2>10. Reverse(k) \in Seq(S) /\ Reverse(Append(k, x)) = <<x>> \o Reverse(k)
    BY <2>7, ReverseOneMore
  <2>11. <<>> \o Reverse(k) = Reverse(k)
    BY <2>10, ConcatEmptySeq
  <2>12. Sifted(Reverse(Append(q, x)), T) = Reverse(Sifted(Append(q, x), T))
    BY <2>3, <2>4, <2>5, <2>6, <2>8, <2>9, <2>10, <2>11
  <2> QED
    BY <2>1, <2>12
<1> HIDE DEF P
<1>3. P = Seq(S)
  <2>1. P \in SUBSET Seq(S)
    BY DEF P
  <2> QED
    BY <1>1, <1>2, <2>1, AllSequences
<1> QED
  BY <1>3 DEF P

-----------------------------------------------------------------------------
(* The inductive invariant.                                                *)

\* The records that a ring may hold, and the lines that a file may.
Held(st)  == {Done(a) : a \in {b \in Alerts : st[b] # "unseen"}}
             \cup {Pending(a) : a \in {b \in Alerts : st[b] = "flying"}}
Lines(st) == {Done(a) : a \in {b \in Alerts : st[b] # "unseen"}} \cup {Torn, Garbled}

\* Of the lines of the current file, what is not an entry was a bad write.
FileSound(f, st, bad) ==
    /\ f \in [old : Seq(Lines(st)), cur : Seq(Lines(st)), cut : BOOLEAN]
    /\ f.cut => f.cur # <<>>
    /\ Len(f.cur) <= Len(Parsed(f.cur)) + bad

\* What came after `since' is in the order in which it came, behind the rest.
InOrder(r, recv, since) ==
    \A i, j \in 1 .. Len(r) :
        i < j => recv[r[i].alert] <= recv[r[j].alert] \/ recv[r[i].alert] <= since

LogSound ==
    /\ ring \in Seq(Held(stage))
    /\ Len(ring) <= Capacity
    /\ InOrder(ring, receivedAt, bootedAt)
    /\ FileSound(file, stage, spoiled)
    /\ stage \in [Alerts -> {"unseen", "flying", "over", "lost"}]
    /\ receivedAt \in [Alerts -> 0 .. clock]
    /\ process \in {"up", "down", "failed"}
    /\ clock \in Time
    /\ boots \in 0 .. MaxBoots
    /\ bootedAt \in 0 .. clock
    /\ boots = 0 => bootedAt = 0
    /\ spoiled \in Nat

-----------------------------------------------------------------------------
(* What a write does to the files.                                         *)

LEMMA NewestIsEnd ==
  ASSUME NEW S, NEW s \in Seq(S), NEW n \in Nat
  PROVE  /\ Newest(s, n) \in Seq(S)
         /\ Len(Newest(s, n)) = IF Len(s) <= n THEN Len(s) ELSE n
         /\ \A i \in 1 .. Len(Newest(s, n)) :
                /\ Len(s) - Len(Newest(s, n)) + i \in 1 .. Len(s)
                /\ Newest(s, n)[i] = s[Len(s) - Len(Newest(s, n)) + i]
<1>1. Len(s) \in Nat /\ \A i \in 1 .. Len(s) : s[i] \in S
  BY LenProperties, ElementOfSeq
<1>2. CASE Len(s) <= n
  BY <1>1, <1>2 DEF Newest
<1>3. CASE ~(Len(s) <= n)
  <2> DEFINE m == Len(s) - n + 1
  <2>1. m \in Int /\ Len(s) \in Int /\ m <= Len(s) + 1 /\ Len(s) - m + 1 = n
    BY <1>1, <1>3
  <2>2. \A i \in m .. Len(s) : s[i] \in S
    BY <1>1, <1>3
  <2>3. /\ SubSeq(s, m, Len(s)) \in Seq(S)
        /\ Len(SubSeq(s, m, Len(s))) = IF m <= Len(s) THEN Len(s) - m + 1 ELSE 0
        /\ \A i \in 1 .. Len(s) - m + 1 : SubSeq(s, m, Len(s))[i] = s[m + i - 1]
    <3> HIDE DEF m
    <3> QED
      BY <2>1, <2>2, SubSeqProperties
  <2>4. Newest(s, n) = SubSeq(s, m, Len(s))
    BY <1>3 DEF Newest
  <2>5. Len(Newest(s, n)) = n
    BY <1>1, <1>3, <2>1, <2>3, <2>4
  <2>6. ASSUME NEW i \in 1 .. n
        PROVE  Len(s) - n + i \in 1 .. Len(s) /\ Newest(s, n)[i] = s[Len(s) - n + i]
    <3>1. m + i - 1 = Len(s) - n + i /\ Len(s) - n + i \in 1 .. Len(s)
      BY <1>1, <1>3
    <3> QED
      BY <2>1, <2>3, <2>4, <3>1
  <2> QED
    BY <1>3, <2>3, <2>4, <2>5, <2>6
<1> QED
  BY <1>2, <1>3

LEMMA LinesAreKnown ==
  ASSUME NEW st
  PROVE  /\ Torn \in Lines(st) /\ Garbled \in Lines(st)
         /\ Torn \notin Records /\ Garbled \notin Records
         /\ Lines(st) \subseteq Records \cup {Torn, Garbled}
         /\ Lines(st) \cap Records \subseteq Held(st)
         /\ Held(st) \subseteq Records
BY AlertLogAssumption DEF Lines, Held, Records, Done, Pending

\* What is written after a line cut short is lost with it; otherwise it is
\* one line more.
EndsWith(g, f, piece, L) ==
    /\ g \in [old : Seq(L), cur : Seq(L), cut : BOOLEAN]
    /\ g.old = f.old
    /\ g.cur # <<>>
    /\ ~f.cut => g.cur = Append(f.cur, piece)
    /\ f.cut => \E k \in Seq(L), l \in L, z \in {Torn, Garbled} :
                   f.cur = Append(k, l) /\ g.cur = Append(k, z)

LEMMA AddedToTheEnd ==
  ASSUME NEW L, Torn \in L, Garbled \in L, NEW piece \in L, NEW c \in BOOLEAN,
         NEW f \in [old : Seq(L), cur : Seq(L), cut : BOOLEAN], f.cut => f.cur # <<>>
  PROVE  EndsWith(Added(f, piece, c), f, piece, L)
<1>1. /\ f.old \in Seq(L) /\ f.cur \in Seq(L) /\ f.cut \in BOOLEAN
      /\ f = [old |-> f.old, cur |-> f.cur, cut |-> f.cut]
  OBVIOUS
<1> DEFINE end == IF f.cut THEN Append(Front(f.cur), Glued(Last(f.cur), piece))
                  ELSE Append(f.cur, piece)
<1>2. Added(f, piece, c) = [old |-> f.old, cur |-> end, cut |-> c]
  BY <1>1 DEF Added
<1>3. CASE ~f.cut
  <2>1. Append(f.cur, piece) \in Seq(L) /\ Append(f.cur, piece) # <<>>
    BY <1>1, AppendProperties
  <2> QED
    BY <1>1, <1>2, <1>3, <2>1 DEF EndsWith
<1>4. CASE f.cut
  <2>1. PICK k \in Seq(L), l \in L : f.cur = Append(k, l)
    BY <1>1, <1>4, SequenceEmptyOrAppend
  <2>2. Last(f.cur) = l /\ Front(f.cur) = k
    <3>1. Len(Append(k, l)) = Len(k) + 1 /\ Len(k) \in Nat /\ Append(k, l)[Len(k) + 1] = l
      BY AppendProperties, LenProperties
    <3>2. SubSeq(Append(k, l), 1, Len(k)) = k
      <4>1. \A i \in 1 .. Len(k) : Append(k, l)[i] = k[i] /\ k[i] \in L
        BY AppendProperties, ElementOfSeq
      <4>2. /\ SubSeq(Append(k, l), 1, Len(k)) \in Seq(L)
            /\ Len(SubSeq(Append(k, l), 1, Len(k))) = Len(k)
            /\ \A i \in 1 .. Len(k) : SubSeq(Append(k, l), 1, Len(k))[i] = k[i]
        BY <3>1, <4>1
      <4> QED
        BY <4>2, SeqEqual
    <3>3. (Len(k) + 1) - 1 = Len(k)
      BY <3>1
    <3> QED
      BY <2>1, <3>1, <3>2, <3>3 DEF Last, Front
  <2>3. PICK z \in {Torn, Garbled} : Glued(Last(f.cur), piece) = z
    BY DEF Glued
  <2>4. end = Append(k, z) /\ z \in L
    BY <1>4, <2>2, <2>3
  <2>5. Append(k, z) \in Seq(L) /\ Append(k, z) # <<>>
    BY <2>4, AppendProperties
  <2>6. f.cur = Append(k, l) /\ Added(f, piece, c).cur = Append(k, z)
    BY <1>2, <2>1, <2>4
  <2> HIDE DEF end
  <2>7. /\ Added(f, piece, c) \in [old : Seq(L), cur : Seq(L), cut : BOOLEAN]
        /\ Added(f, piece, c).old = f.old
        /\ Added(f, piece, c).cur # <<>>
    BY <1>1, <1>2, <2>4, <2>5
  <2> QED
    BY <1>4, <2>6, <2>7 DEF EndsWith
<1> QED
  BY <1>3, <1>4

\* What is read of lines are records.
LEMMA ReadFromLines ==
  ASSUME NEW st, NEW s \in Seq(Lines(st))
  PROVE  /\ Parsed(s) \in Seq(Held(st)) /\ Parsed(s) \in Seq(Records)
         /\ Len(Parsed(s)) \in Nat
<1>1. Sifted(s, Records) \in Seq(Lines(st) \cap Records)
  BY SiftedIsPart
<1>2. Lines(st) \cap Records \subseteq Held(st) /\ Held(st) \subseteq Records
  BY LinesAreKnown
<1>3. Parsed(s) \in Seq(Held(st))
  BY <1>1, <1>2, SeqMonotonic DEF Parsed
<1>4. Parsed(s) \in Seq(Records)
  BY <1>2, <1>3, SeqMonotonic
<1> QED
  BY <1>3, <1>4, LenProperties

\* One line more is one record more, if it is one.
LEMMA ReadOneMore ==
  ASSUME NEW st, NEW s \in Seq(Lines(st)), NEW x \in Lines(st)
  PROVE  /\ x \in Records => Parsed(Append(s, x)) = Append(Parsed(s), x)
         /\ x \notin Records => Parsed(Append(s, x)) = Parsed(s)
<1>1. Sifted(Append(s, x), Records) = IF x \in Records THEN Append(Sifted(s, Records), x)
                                      ELSE Sifted(s, Records)
  BY SiftedOneMore
<1> QED
  BY <1>1 DEF Parsed

LEMMA AddedIsSound ==
  ASSUME NEW st, NEW f, NEW b \in Nat, FileSound(f, st, b),
         NEW piece \in Lines(st), NEW c \in BOOLEAN
  PROVE  /\ FileSound(Added(f, piece, c), st, b + 1)
         /\ ~f.cut /\ piece \in Records => FileSound(Added(f, piece, c), st, b)
<1> DEFINE L == Lines(st)
           g == Added(f, piece, c)
<1>1. /\ Torn \in L /\ Garbled \in L /\ Torn \notin Records /\ Garbled \notin Records
      /\ piece \in L
  BY LinesAreKnown
<1>2. f \in [old : Seq(L), cur : Seq(L), cut : BOOLEAN] /\ (f.cut => f.cur # <<>>)
      /\ Len(f.cur) <= Len(Parsed(f.cur)) + b
  BY DEF FileSound
<1>3. /\ g \in [old : Seq(L), cur : Seq(L), cut : BOOLEAN]
      /\ g.cur # <<>>
      /\ ~f.cut => g.cur = Append(f.cur, piece)
      /\ f.cut => \E k \in Seq(L), l \in L, z \in {Torn, Garbled} :
                     f.cur = Append(k, l) /\ g.cur = Append(k, z)
  <2> HIDE DEF L, g
  <2>0. (f.cut => f.cur # <<>>) /\ f \in [old : Seq(L), cur : Seq(L), cut : BOOLEAN]
    BY <1>2
  <2>1. EndsWith(Added(f, piece, c), f, piece, L)
    BY <1>1, <2>0, AddedToTheEnd
  <2> QED
    BY <2>1 DEF EndsWith, g
<1> HIDE DEF g
<1>4. \A q \in Seq(L), x \in L : Len(Append(q, x)) = Len(q) + 1 /\ Len(q) \in Nat
  BY AppendProperties, LenProperties
<1>5. \A q \in Seq(L) : Len(Parsed(q)) \in Nat
  BY ReadFromLines
<1>6. \A q \in Seq(L), x \in L : x \notin Records => Len(Parsed(Append(q, x))) = Len(Parsed(q))
  BY ReadOneMore
<1>7. \A q \in Seq(L), x \in L : x \in Records => Len(Parsed(Append(q, x))) = Len(Parsed(q)) + 1
  <2> TAKE q \in Seq(L), x \in L
  <2> HAVE x \in Records
  <2>1. Parsed(Append(q, x)) = Append(Parsed(q), x)
    BY ReadOneMore
  <2>2. Parsed(q) \in Seq(Records)
    BY ReadFromLines
  <2> QED
    BY <2>1, <2>2, AppendProperties
<1> HIDE DEF L
<1>8. CASE ~f.cut /\ piece \in Records
  <2>1. Len(g.cur) <= Len(Parsed(g.cur)) + b
    <3>1. g.cur = Append(f.cur, piece) /\ f.cur \in Seq(L)
      BY <1>2, <1>3, <1>8
    <3>2. Len(g.cur) = Len(f.cur) + 1 /\ Len(f.cur) \in Nat
      BY <1>1, <1>4, <3>1
    <3>3. Len(Parsed(g.cur)) = Len(Parsed(f.cur)) + 1 /\ Len(Parsed(f.cur)) \in Nat
      BY <1>1, <1>5, <1>7, <1>8, <3>1
    <3> QED
      BY <1>2, <3>2, <3>3
  <2>2. Len(g.cur) <= Len(Parsed(g.cur)) + (b + 1)
    BY <1>3, <1>4, <1>5, <2>1
  <2> QED
    BY <1>3, <2>1, <2>2 DEF FileSound, g, L
<1>9. CASE ~f.cut /\ piece \notin Records
  <2>1. Len(g.cur) <= Len(Parsed(g.cur)) + (b + 1)
    <3>1. g.cur = Append(f.cur, piece) /\ f.cur \in Seq(L)
      BY <1>2, <1>3, <1>9
    <3>2. Len(g.cur) = Len(f.cur) + 1 /\ Len(f.cur) \in Nat
      BY <1>1, <1>4, <3>1
    <3>3. Len(Parsed(g.cur)) = Len(Parsed(f.cur)) /\ Len(Parsed(f.cur)) \in Nat
      BY <1>1, <1>5, <1>6, <1>9, <3>1
    <3> QED
      BY <1>2, <3>2, <3>3
  <2> QED
    BY <1>3, <1>9, <2>1 DEF FileSound, g, L
<1>10. CASE f.cut
  <2>1. PICK k \in Seq(L), l \in L, z \in {Torn, Garbled} :
            f.cur = Append(k, l) /\ g.cur = Append(k, z)
    BY <1>3, <1>10
  <2>2. Len(f.cur) = Len(k) + 1 /\ Len(g.cur) = Len(k) + 1 /\ Len(k) \in Nat
    BY <1>1, <1>4, <2>1
  <2>3. Len(Parsed(g.cur)) = Len(Parsed(k)) /\ Len(Parsed(k)) \in Nat
    BY <1>1, <1>5, <1>6, <2>1
  <2>4. Len(Parsed(f.cur)) <= Len(Parsed(k)) + 1
    BY <1>5, <1>6, <1>7, <2>1
  <2>5. Len(Parsed(f.cur)) \in Nat
    BY <1>2, <1>5
  <2>6. Len(g.cur) <= Len(Parsed(g.cur)) + (b + 1)
    BY <1>2, <2>2, <2>3, <2>4, <2>5
  <2> QED
    BY <1>3, <1>10, <2>6 DEF FileSound, g, L
<1>11. f.cut \in BOOLEAN
  BY <1>2
<1> QED
  BY <1>8, <1>9, <1>10, <1>11 DEF g

LEMMA RotatedIsSound ==
  ASSUME NEW st, NEW f, NEW b \in Nat, FileSound(f, st, b)
  PROVE  FileSound(Rotated(f), st, b)
<1>1. CASE Rotated(f) = f
  BY <1>1
<1>2. CASE Rotated(f) # f
  <2>1. Rotated(f) = [old |-> f.cur, cur |-> <<>>, cut |-> FALSE]
    BY <1>2 DEF Rotated
  <2>2. <<>> \in Seq(Lines(st)) /\ Len(<<>>) = 0 /\ f.cur \in Seq(Lines(st))
    BY EmptySeq DEF FileSound
  <2>3. Parsed(<<>>) = <<>>
    BY SiftedNone DEF Parsed
  <2>4. Len(<<>>) <= Len(Parsed(<<>>)) + b
    BY <2>2, <2>3
  <2> QED
    BY <2>1, <2>2, <2>4 DEF FileSound
<1> QED
  BY <1>1, <1>2

LEMMA SoundForMore ==
  ASSUME NEW st, NEW f, NEW b \in Nat, FileSound(f, st, b),
         NEW st2, Lines(st) \subseteq Lines(st2)
  PROVE  FileSound(f, st2, b) /\ FileSound(f, st2, b + 1)
<1>1. f.old \in Seq(Lines(st2)) /\ f.cur \in Seq(Lines(st2))
  BY SeqMonotonic DEF FileSound
<1>2. Len(f.cur) \in Nat /\ Len(Parsed(f.cur)) \in Nat
  BY ReadFromLines, LenProperties DEF FileSound
<1>3. Len(f.cur) <= Len(Parsed(f.cur)) + b /\ Len(f.cur) <= Len(Parsed(f.cur)) + (b + 1)
  BY <1>2 DEF FileSound
<1>4. f \in [old : Seq(Lines(st2)), cur : Seq(Lines(st2)), cut : BOOLEAN]
  BY <1>1 DEF FileSound
<1> QED
  BY <1>3, <1>4 DEF FileSound

\* A write leaves the files sound, a bad one too.
LEMMA WriteIsSound ==
  ASSUME NEW st, NEW f, NEW b \in Nat, FileSound(f, st, b), NEW a, Done(a) \in Lines(st) \cap Records
  PROVE  /\ FileSound(Written(f, Done(a)), st, IF Glues(f) THEN b + 1 ELSE b)
         /\ \A g \in Spoilt(f, Done(a)) : FileSound(g, st, b + 1)
<1>1. FileSound(Rotated(f), st, b)
  BY RotatedIsSound
<1>2. \A piece \in Lines(st), c \in BOOLEAN :
          /\ FileSound(Added(Rotated(f), piece, c), st, b + 1)
          /\ ~Rotated(f).cut /\ piece \in Records => FileSound(Added(Rotated(f), piece, c), st, b)
  BY <1>1, AddedIsSound
<1>3. Torn \in Lines(st) /\ Garbled \in Lines(st)
  BY LinesAreKnown
<1>4. FileSound(f, st, b + 1) /\ FileSound(Rotated(f), st, b + 1)
  BY <1>1, SoundForMore
<1>5. FileSound(Written(f, Done(a)), st, IF Glues(f) THEN b + 1 ELSE b)
  BY <1>2 DEF Written, Glues
<1>6. ASSUME NEW g \in Spoilt(f, Done(a)) PROVE FileSound(g, st, b + 1)
  <2>1. \/ g \in {f, Rotated(f)}
        \/ \E piece \in {Torn, Garbled, Done(a)} : g = Added(Rotated(f), piece, TRUE)
    BY <1>6 DEF Spoilt
  <2> QED
    BY <1>2, <1>3, <1>4, <2>1
<1> QED
  BY <1>5, <1>6

-----------------------------------------------------------------------------
(* The invariant holds.                                                    *)

\* What a ring may hold is of an alert that arrived.
LEMMA HeldIsArrived ==
  ASSUME NEW st, NEW r \in Held(st)
  PROVE  /\ r \in Records /\ r.alert \in Alerts /\ st[r.alert] # "unseen"
         /\ r.decision = "pending" => st[r.alert] = "flying"
         /\ r \in {Done(r.alert), Pending(r.alert)}
<1>1. CASE \E a \in Alerts : st[a] # "unseen" /\ r = Done(a)
  BY <1>1 DEF Done, Records
<1>2. CASE \E a \in Alerts : st[a] = "flying" /\ r = Pending(a)
  BY <1>2 DEF Pending, Records
<1> QED
  BY <1>1, <1>2 DEF Held

LEMMA NewestIsInOrder ==
  ASSUME NEW S, NEW r \in Seq(S), NEW n \in Nat, NEW recv, NEW since, InOrder(r, recv, since)
  PROVE  InOrder(Newest(r, n), recv, since)
<1> DEFINE q == Newest(r, n)
           skip == Len(r) - Len(q)
<1>1. q \in Seq(S) /\ \A i \in 1 .. Len(q) : skip + i \in 1 .. Len(r) /\ q[i] = r[skip + i]
  BY NewestIsEnd
<1>2. Len(q) \in Nat /\ Len(r) \in Nat
  BY <1>1, LenProperties
<1>3. skip \in Int
  BY <1>2
<1> HIDE DEF q, skip
<1>4. \A i, j \in 1 .. Len(q) : i < j => skip + i < skip + j
  BY <1>2, <1>3
<1> QED
  BY <1>1, <1>4 DEF InOrder, q, skip

\* An alert that arrives joins the ring at its end.
LEMMA PushedIsSound ==
  ASSUME LogSound, NEW a \in Alerts, Arrives(a), NEW st2, Held(stage) \subseteq Held(st2),
         NEW r \in Held(st2), r.alert = a, ring' = Pushed(r)
  PROVE  /\ ring' \in Seq(Held(st2)) /\ Len(ring') <= Capacity
         /\ InOrder(ring', receivedAt', bootedAt')
<1> DEFINE t == Append(ring, r)
<1>1. ring \in Seq(Held(stage)) /\ ring \in Seq(Held(st2)) /\ Len(ring) \in Nat
  BY SeqMonotonic, LenProperties DEF LogSound
<1>2. /\ t \in Seq(Held(st2)) /\ Len(t) = Len(ring) + 1
      /\ t[Len(ring) + 1] = r /\ \A i \in 1 .. Len(ring) : t[i] = ring[i]
  BY <1>1, AppendProperties
<1> HIDE DEF t
<1>3. /\ \A b \in Alerts : receivedAt[b] \in Nat /\ receivedAt[b] <= clock
      /\ receivedAt'[a] = clock /\ \A b \in Alerts \ {a} : receivedAt'[b] = receivedAt[b]
      /\ bootedAt' = bootedAt /\ bootedAt \in Nat /\ clock \in Nat
  BY DEF LogSound, Arrives, Time
<1>4. \A i \in 1 .. Len(ring) : ring[i].alert \in Alerts \ {a}
  <2>1. \A i \in 1 .. Len(ring) : ring[i] \in Held(stage)
    BY <1>1, ElementOfSeq
  <2>2. stage[a] = "unseen"
    BY DEF Arrives
  <2> QED
    BY <2>1, <2>2, HeldIsArrived
<1>5. InOrder(t, receivedAt', bootedAt')
  <2> SUFFICES ASSUME NEW i \in 1 .. Len(t), NEW j \in 1 .. Len(t), i < j
               PROVE  \/ receivedAt'[t[i].alert] <= receivedAt'[t[j].alert]
                      \/ receivedAt'[t[i].alert] <= bootedAt'
    BY DEF InOrder
  <2>1. i \in 1 .. Len(ring) /\ t[i] = ring[i]
    BY <1>1, <1>2
  <2>2. receivedAt'[t[i].alert] = receivedAt[ring[i].alert] /\ ring[i].alert \in Alerts
    BY <1>3, <1>4, <2>1
  <2>3. CASE j = Len(ring) + 1
    BY <1>2, <1>3, <2>2, <2>3
  <2>4. CASE j \in 1 .. Len(ring)
    <3>1. receivedAt'[t[j].alert] = receivedAt[ring[j].alert]
      BY <1>2, <1>3, <1>4, <2>4
    <3>2. \/ receivedAt[ring[i].alert] <= receivedAt[ring[j].alert]
          \/ receivedAt[ring[i].alert] <= bootedAt
      BY <2>1, <2>4 DEF LogSound, InOrder
    <3> QED
      BY <1>3, <2>2, <3>1, <3>2
  <2> QED
    BY <1>1, <1>2, <2>3, <2>4
<1>6. ring' = Newest(t, Capacity) /\ Capacity \in Nat
  BY AlertLogAssumption DEF Pushed, t
<1>7. ring' \in Seq(Held(st2)) /\ Len(ring') = IF Len(t) <= Capacity THEN Len(t) ELSE Capacity
  BY <1>2, <1>6, NewestIsEnd
<1>8. InOrder(ring', receivedAt', bootedAt')
  BY <1>2, <1>5, <1>6, NewestIsInOrder
<1>9. Len(ring') <= Capacity
  BY <1>1, <1>2, <1>6, <1>7
<1> QED
  BY <1>7, <1>8, <1>9

\* What is persisted leaves the files sound.
LEMMA PersistIsSound ==
  ASSUME LogSound, NEW st2, Lines(stage) \subseteq Lines(st2),
         NEW a \in Alerts, Done(a) \in Lines(st2), Persist(Done(a))
  PROVE  FileSound(file', st2, spoiled') /\ spoiled' \in Nat
<1>1. FileSound(file, st2, spoiled) /\ spoiled \in Nat
  BY SoundForMore DEF LogSound
<1>2. Done(a) \in Lines(st2) \cap Records
  BY DEF Done, Records
<1>3. /\ FileSound(Written(file, Done(a)), st2, IF Glues(file) THEN spoiled + 1 ELSE spoiled)
      /\ \A g \in Spoilt(file, Done(a)) : FileSound(g, st2, spoiled + 1)
  BY <1>1, <1>2, WriteIsSound
<1> QED
  BY <1>1, <1>3 DEF Persist

LEMMA InitIsSound ==
  ASSUME Init
  PROVE  LogSound
<1>1. <<>> \in Seq(Held(stage)) /\ <<>> \in Seq(Lines(stage)) /\ Len(<<>>) = 0
  BY EmptySeq
<1>2. Parsed(<<>>) = <<>>
  BY SiftedNone DEF Parsed
<1>3. Len(<<>>) <= Len(Parsed(<<>>)) + 0 /\ Len(<<>>) <= Capacity
  BY <1>1, <1>2, AlertLogAssumption
<1>4. FileSound(NewFile, stage, 0)
  BY <1>1, <1>3 DEF FileSound, NewFile
<1>5. InOrder(<<>>, receivedAt, bootedAt)
  BY <1>1 DEF InOrder
<1> QED
  BY <1>1, <1>3, <1>4, <1>5, AlertLogAssumption DEF LogSound, Init, Time

\* An arrival: what the ring and the files may hold only grows.
LEMMA ArrivalIsSound ==
  ASSUME LogSound, NEW a \in Alerts, Arrives(a), NEW to \in {"flying", "over"},
         stage' = [stage EXCEPT ![a] = to],
         NEW r \in {Done(a), Pending(a)}, r = Pending(a) => to = "flying", ring' = Pushed(r),
         Persist(Done(a)) \/ UNCHANGED <<file, spoiled>>
  PROVE  LogSound'
<1>1. /\ stage \in [Alerts -> {"unseen", "flying", "over", "lost"}] /\ stage[a] = "unseen"
      /\ stage'[a] = to /\ to # "unseen" /\ \A b \in Alerts \ {a} : stage'[b] = stage[b]
      /\ stage' \in [Alerts -> {"unseen", "flying", "over", "lost"}]
  BY DEF LogSound, Arrives
<1>2. Held(stage) \subseteq Held(stage') /\ Lines(stage) \subseteq Lines(stage')
  BY <1>1 DEF Held, Lines
<1>3. r \in Held(stage') /\ Done(a) \in Lines(stage') /\ r.alert = a
  BY <1>1 DEF Held, Lines, Done, Pending
<1>4. /\ ring' \in Seq(Held(stage')) /\ Len(ring') <= Capacity
      /\ InOrder(ring', receivedAt', bootedAt')
  BY <1>2, <1>3, PushedIsSound
<1>5. FileSound(file', stage', spoiled') /\ spoiled' \in Nat
  <2>1. CASE Persist(Done(a))
    BY <1>2, <1>3, <2>1, PersistIsSound
  <2>2. CASE UNCHANGED <<file, spoiled>>
    BY <1>2, <2>2, SoundForMore DEF LogSound
  <2> QED
    BY <2>1, <2>2
<1>6. /\ receivedAt' \in [Alerts -> 0 .. clock'] /\ process' \in {"up", "down", "failed"}
      /\ clock' \in Time /\ boots' \in 0 .. MaxBoots /\ bootedAt' \in 0 .. clock'
      /\ boots' = 0 => bootedAt' = 0
  BY DEF LogSound, Arrives, Time
<1> QED
  BY <1>1, <1>4, <1>5, <1>6 DEF LogSound

LEMMA FinishIsSound ==
  ASSUME LogSound, NEW a \in Alerts, Finish(a)
  PROVE  LogSound'
<1>1. /\ stage \in [Alerts -> {"unseen", "flying", "over", "lost"}] /\ stage[a] = "flying"
      /\ stage'[a] = "over" /\ \A b \in Alerts \ {a} : stage'[b] = stage[b]
      /\ stage' \in [Alerts -> {"unseen", "flying", "over", "lost"}]
  BY DEF LogSound, Finish
<1>2. Lines(stage) \subseteq Lines(stage') /\ Done(a) \in Lines(stage') /\ Done(a) \in Held(stage')
  BY <1>1 DEF Held, Lines
<1>3. \A r \in Held(stage) : r.alert # a => r \in Held(stage')
  BY <1>1 DEF Held, Done, Pending
<1>4. ring \in Seq(Held(stage)) /\ Len(ring) \in Nat /\ DOMAIN ring = 1 .. Len(ring)
  BY LenProperties DEF LogSound
<1>5. \A i \in 1 .. Len(ring) : ring[i] \in Held(stage)
  BY <1>4, ElementOfSeq
<1>6. ring' = [i \in 1 .. Len(ring) |-> IF ring[i].alert = a THEN Done(a) ELSE ring[i]]
  BY <1>4 DEF Finish, Decided
<1>7. \A i \in 1 .. Len(ring) : ring'[i] \in Held(stage') /\ ring'[i].alert = ring[i].alert
  BY <1>2, <1>3, <1>5, <1>6 DEF Done
<1>8. ring' \in Seq(Held(stage')) /\ Len(ring') = Len(ring)
  BY <1>4, <1>6, <1>7
<1>9. InOrder(ring', receivedAt, bootedAt)
  BY <1>7, <1>8 DEF LogSound, InOrder
<1>10. FileSound(file', stage', spoiled') /\ spoiled' \in Nat
  BY <1>2, PersistIsSound DEF Finish
<1> QED
  BY <1>1, <1>8, <1>9, <1>10 DEF LogSound, Finish

\* The process dies, with or without a line half written.
LEMMA DeathIsSound ==
  ASSUME LogSound, Dies,
         \/ UNCHANGED <<file, spoiled>>
         \/ \E a \in Alerts : stage[a] = "flying" /\ file' \in Spoilt(file, Done(a)) /\ spoiled' = spoiled + 1
  PROVE  LogSound'
<1>1. /\ stage \in [Alerts -> {"unseen", "flying", "over", "lost"}]
      /\ stage' = [b \in Alerts |-> IF stage[b] = "flying" THEN "lost" ELSE stage[b]]
  BY DEF LogSound, Dies
<1>2. \A b \in Alerts : stage[b] # "unseen" => stage'[b] # "unseen"
  BY <1>1
<1>3. stage' \in [Alerts -> {"unseen", "flying", "over", "lost"}]
  BY <1>1
<1>4. Lines(stage) \subseteq Lines(stage')
  BY <1>2 DEF Lines
<1>5. FileSound(file, stage', spoiled) /\ spoiled \in Nat
  BY <1>4, SoundForMore DEF LogSound
<1>6. FileSound(file', stage', spoiled') /\ spoiled' \in Nat
  <2>1. CASE UNCHANGED <<file, spoiled>>
    BY <1>5, <2>1
  <2>2. ASSUME NEW a \in Alerts, stage[a] = "flying", file' \in Spoilt(file, Done(a)),
               spoiled' = spoiled + 1
        PROVE  FileSound(file', stage', spoiled') /\ spoiled' \in Nat
    <3>1. Done(a) \in Lines(stage') \cap Records
      BY <1>2, <2>2 DEF Lines, Done, Records
    <3>2. FileSound(file', stage', spoiled + 1)
      BY <1>5, <2>2, <3>1, WriteIsSound
    <3> QED
      BY <1>5, <2>2, <3>2
  <2> QED
    BY <2>1, <2>2
<1>7. ring' = <<>> /\ ring' \in Seq(Held(stage')) /\ Len(ring') = 0 /\ 0 <= Capacity
  BY EmptySeq, AlertLogAssumption DEF Dies
<1>8. InOrder(ring', receivedAt', bootedAt')
  BY <1>7 DEF InOrder
<1> QED
  BY <1>3, <1>6, <1>7, <1>8 DEF LogSound, Dies

\* A new process: whatever it loads was there before it started.
LEMMA BootIsSound ==
  ASSUME LogSound, Boot
  PROVE  LogSound'
<1>1. /\ UNCHANGED <<file, stage, receivedAt, clock, spoiled>>
      /\ boots' = boots + 1 /\ boots < MaxBoots /\ bootedAt' = clock
      /\ boots \in 0 .. MaxBoots /\ MaxBoots \in Nat /\ clock \in Nat
  BY AlertLogAssumption DEF LogSound, Boot, Time
<1>2. \A s \in Seq(Held(stage)) : InOrder(s, receivedAt', bootedAt')
  <2> SUFFICES ASSUME NEW s \in Seq(Held(stage)), NEW i \in 1 .. Len(s)
               PROVE  receivedAt'[s[i].alert] <= bootedAt'
    BY DEF InOrder
  <2>1. s[i] \in Held(stage)
    BY ElementOfSeq
  <2>2. s[i].alert \in Alerts
    BY <2>1, HeldIsArrived
  <2> QED
    BY <1>1, <2>2 DEF LogSound
<1>3. /\ ring' \in Seq(Held(stage)) /\ Len(ring') <= Capacity
      /\ process' \in {"up", "down", "failed"}
  <2>1. PICK unread \in SUBSET {"old", "cur"} :
            IF Raises(Read(file, unread))
            THEN process' = "failed" /\ UNCHANGED ring
            ELSE process' = "up" /\ ring' = Newest(Parsed(Read(file, unread)), Capacity)
    BY DEF Boot
  <2> DEFINE lines == Read(file, unread)
  <2>2. lines \in Seq(Lines(stage))
    <3>1. /\ file.old \in Seq(Lines(stage)) /\ file.cur \in Seq(Lines(stage))
          /\ <<>> \in Seq(Lines(stage))
      BY EmptySeq DEF LogSound, FileSound
    <3>2. \A s, t \in Seq(Lines(stage)) : s \o t \in Seq(Lines(stage))
      BY ConcatProperties
    <3> QED
      BY <3>1, <3>2 DEF Read
  <2> HIDE DEF lines
  <2>3. Parsed(lines) \in Seq(Held(stage)) /\ Len(Parsed(lines)) \in Nat
    BY <2>2, ReadFromLines
  <2>4. Capacity \in Nat
    BY AlertLogAssumption
  <2>5. /\ Newest(Parsed(lines), Capacity) \in Seq(Held(stage))
        /\ Len(Newest(Parsed(lines), Capacity)) <= Capacity
    BY <2>3, <2>4, NewestIsEnd
  <2>6. CASE process' = "failed" /\ UNCHANGED ring
    BY <2>6 DEF LogSound
  <2>7. CASE process' = "up" /\ ring' = Newest(Parsed(lines), Capacity)
    BY <2>5, <2>7
  <2> QED
    BY <2>1, <2>6, <2>7 DEF lines
<1>4. InOrder(ring', receivedAt', bootedAt')
  BY <1>2, <1>3
<1>5. boots' \in 0 .. MaxBoots /\ boots' # 0 /\ bootedAt' \in 0 .. clock'
  BY <1>1
<1> QED
  BY <1>1, <1>3, <1>4, <1>5 DEF LogSound

LEMMA TickIsSound ==
  ASSUME LogSound, Tick
  PROVE  LogSound'
<1>1. clock \in Nat /\ clock' = clock + 1 /\ clock' \in Time
  BY AlertLogAssumption DEF LogSound, Tick, Time
<1>2. receivedAt' \in [Alerts -> 0 .. clock'] /\ bootedAt' \in 0 .. clock'
  BY <1>1 DEF LogSound, Tick
<1> QED
  BY <1>1, <1>2 DEF LogSound, Tick

\* The log stays sound, whatever the process does.
LEMMA TheLogIsSound == Spec => []LogSound
<1>1. Init => LogSound
  BY InitIsSound
<1>2. LogSound /\ [Next]_vars => LogSound'
  <2> SUFFICES ASSUME LogSound, [Next]_vars PROVE LogSound'
    OBVIOUS
  <2>1. ASSUME NEW a \in Alerts, Skip(a) PROVE LogSound'
    <3>1. /\ Arrives(a) /\ ring' = Pushed(Done(a)) /\ stage' = [stage EXCEPT ![a] = "over"]
          /\ Persist(Done(a))
      BY <2>1 DEF Skip
    <3>2. Done(a) # Pending(a)
      BY DEF Done, Pending
    <3> QED
      BY <3>1, <3>2, ArrivalIsSound
  <2>2. ASSUME NEW a \in Alerts, Queue(a) PROVE LogSound'
    <3>1. /\ Arrives(a) /\ ring' = Pushed(Pending(a)) /\ stage' = [stage EXCEPT ![a] = "flying"]
          /\ UNCHANGED <<file, spoiled>>
      BY <2>2 DEF Queue
    <3> QED
      BY <3>1, ArrivalIsSound
  <2>3. ASSUME NEW a \in Alerts, Finish(a) PROVE LogSound'
    BY <2>3, FinishIsSound
  <2>4. ASSUME NEW a \in Alerts, CrashWriting(a) PROVE LogSound'
    BY <2>4, DeathIsSound DEF CrashWriting
  <2>5. CASE Crash
    BY <2>5, DeathIsSound DEF Crash
  <2>6. CASE Boot
    BY <2>6, BootIsSound
  <2>7. CASE Tick
    BY <2>7, TickIsSound
  <2>8. CASE UNCHANGED vars
    BY <2>8 DEF LogSound, vars
  <2> QED
    BY <2>1, <2>2, <2>3, <2>4, <2>5, <2>6, <2>7, <2>8 DEF Next
<1> QED
  BY <1>1, <1>2, PTL DEF Spec

-----------------------------------------------------------------------------
(* What follows.                                                           *)

\* Every variable has its type: the ring never grows over its limit, and a
\* file never says that it was cut without the line that was.
THEOREM LogTypeCorrect == Spec => []TypeOK
<1>1. LogSound => TypeOK
  <2> SUFFICES ASSUME LogSound PROVE TypeOK
    OBVIOUS
  <2>1. Lines(stage) \subseteq Records \cup {Torn, Garbled} /\ Held(stage) \subseteq Records
    BY LinesAreKnown
  <2>2. ring \in Seq(Records)
    BY <2>1, SeqMonotonic DEF LogSound
  <2>3. /\ file.old \in Seq(Records \cup {Torn, Garbled})
        /\ file.cur \in Seq(Records \cup {Torn, Garbled})
        /\ file.cut => file.cur # <<>>
    BY <2>1, SeqMonotonic DEF LogSound, FileSound
  <2>4. receivedAt \in [Alerts -> Time] /\ bootedAt \in Time
    BY AlertLogAssumption DEF LogSound, Time
  <2> QED
    BY <2>2, <2>3, <2>4 DEF LogSound, TypeOK
<1> QED
  BY <1>1, TheLogIsSound, PTL

\* A record that says `pending' is of an alert this very process is working
\* on, whenever the process that wrote the log died.
THEOREM NoPendingIsLeftBehind == Spec => []PendingIsInFlight
<1>1. LogSound => PendingIsInFlight
  <2> SUFFICES ASSUME LogSound, NEW i \in DOMAIN ring, ring[i].decision = "pending"
               PROVE  stage[ring[i].alert] = "flying"
    BY DEF PendingIsInFlight
  <2>1. ring[i] \in Held(stage)
    BY LenProperties, ElementOfSeq DEF LogSound
  <2> QED
    BY <2>1, HeldIsArrived
<1> QED
  BY <1>1, TheLogIsSound, PTL

-----------------------------------------------------------------------------
(* The files are a journal.                                                *)

\* To forget a whole part, or nothing.
LEMMA FrontIsForgotten ==
  ASSUME NEW S, NEW o \in Seq(S), NEW q \in Seq(S)
  PROVE  /\ Len(o \o q) \in Nat /\ Len(o) \in 0 .. Len(o \o q)
         /\ Len(o \o q) - Len(o) = Len(q)
         /\ SubSeq(o \o q, Len(o) + 1, Len(o \o q)) = q
         /\ SubSeq(q, 0 + 1, Len(q)) = q
<1> DEFINE t == o \o q
<1>1. /\ t \in Seq(S) /\ Len(t) = Len(o) + Len(q) /\ Len(o) \in Nat /\ Len(q) \in Nat
      /\ \A i \in 1 .. Len(o) + Len(q) : t[i] = IF i <= Len(o) THEN o[i] ELSE q[i - Len(o)]
  BY ConcatProperties, LenProperties
<1> HIDE DEF t
<1>2. \A i \in Len(o) + 1 .. Len(t) : t[i] \in S
  BY <1>1, ElementOfSeq
<1> DEFINE u == SubSeq(t, Len(o) + 1, Len(t))
<1>3. /\ u \in Seq(S)
      /\ Len(u) = IF Len(o) + 1 <= Len(t) THEN Len(t) - (Len(o) + 1) + 1 ELSE 0
      /\ \A i \in 1 .. Len(t) - (Len(o) + 1) + 1 : u[i] = t[(Len(o) + 1) + i - 1]
  <2>1. Len(o) + 1 \in Int /\ Len(t) \in Int
    BY <1>1
  <2> QED
    BY <1>2, <2>1, SubSeqProperties
<1> HIDE DEF u
<1>4. Len(u) = Len(q)
  BY <1>1, <1>3
<1>5. \A i \in 1 .. Len(q) : u[i] = q[i]
  <2> TAKE i \in 1 .. Len(q)
  <2>1. i \in 1 .. Len(t) - (Len(o) + 1) + 1 /\ (Len(o) + 1) + i - 1 = Len(o) + i
    BY <1>1
  <2>2. Len(o) + i \in 1 .. Len(o) + Len(q) /\ ~(Len(o) + i <= Len(o)) /\ Len(o) + i - Len(o) = i
    BY <1>1
  <2>3. u[i] = t[Len(o) + i]
    BY <1>3, <2>1
  <2>4. t[Len(o) + i] = q[Len(o) + i - Len(o)]
    BY <1>1, <2>2
  <2> QED
    BY <2>2, <2>3, <2>4
<1>6. u = q
  BY <1>3, <1>4, <1>5, SeqEqual
<1>7. SubSeq(q, 0 + 1, Len(q)) = q
  BY SubSeqFull
<1> QED
  BY <1>1, <1>6, <1>7 DEF t, u

LEMMA LastIsForgotten ==
  ASSUME NEW S, NEW k \in Seq(S), NEW l \in S
  PROVE  /\ Append(k, l) # <<>>
         /\ SubSeq(Append(k, l), 1, Len(Append(k, l)) - 1) = k
<1> DEFINE t == Append(k, l)
<1>1. /\ t \in Seq(S) /\ t # <<>> /\ Len(t) = Len(k) + 1 /\ Len(k) \in Nat
      /\ \A i \in 1 .. Len(k) : t[i] = k[i] /\ k[i] \in S
  BY AppendProperties, LenProperties, ElementOfSeq
<1> HIDE DEF t
<1>2. Len(t) - 1 = Len(k)
  BY <1>1
<1>3. /\ SubSeq(t, 1, Len(k)) \in Seq(S) /\ Len(SubSeq(t, 1, Len(k))) = Len(k)
      /\ \A i \in 1 .. Len(k) : SubSeq(t, 1, Len(k))[i] = k[i]
  BY <1>1
<1>4. SubSeq(t, 1, Len(k)) = k
  BY <1>3, SeqEqual
<1> QED
  BY <1>1, <1>2, <1>4 DEF t

\* What a process that starts now would read, and what the journal may keep
\* of it after a write.
Heard(f) == Parsed(Read(f, {}))
Shorter(kept, long, bad) ==
    kept \in {SubSeq(long, n + 1, Len(long)) :
                 n \in {m \in 0 .. Len(long) : m = 0 \/ Len(long) - m + bad >= FileMax + 1}}

LEMMA EndIsKept ==
  ASSUME NEW S, NEW o \in Seq(S), NEW q \in Seq(S), NEW b \in Nat
  PROVE  /\ Shorter(q, q, b)
         /\ FileMax + 1 <= Len(q) + b => Shorter(q, o \o q, b)
<1>1. /\ Len(o \o q) \in Nat /\ Len(o) \in 0 .. Len(o \o q)
      /\ Len(o \o q) - Len(o) = Len(q)
      /\ SubSeq(o \o q, Len(o) + 1, Len(o \o q)) = q
      /\ SubSeq(q, 0 + 1, Len(q)) = q
  BY FrontIsForgotten
<1>2. Len(q) \in Nat /\ FileMax \in Nat
  BY LenProperties, AlertLogAssumption
<1>3. Shorter(q, q, b)
  <2>1. 0 \in {m \in 0 .. Len(q) : m = 0 \/ Len(q) - m + b >= FileMax + 1}
    BY <1>2
  <2> QED
    BY <1>1, <2>1 DEF Shorter
<1>4. ASSUME FileMax + 1 <= Len(q) + b PROVE Shorter(q, o \o q, b)
  <2> DEFINE t == o \o q
  <2> HIDE DEF t
  <2>1. Len(t) - Len(o) + b >= FileMax + 1
    BY <1>1, <1>2, <1>4 DEF t
  <2>2. Len(o) \in {m \in 0 .. Len(t) : m = 0 \/ Len(t) - m + b >= FileMax + 1}
    BY <1>1, <2>1 DEF t
  <2>3. SubSeq(t, Len(o) + 1, Len(t)) = q
    BY <1>1 DEF t
  <2>4. Shorter(q, t, b)
    BY <2>2, <2>3 DEF Shorter
  <2> QED
    BY <2>4 DEF t
<1> QED
  BY <1>3, <1>4

LEMMA HeardOfBoth ==
  ASSUME NEW st, NEW f, f.old \in Seq(Lines(st)), f.cur \in Seq(Lines(st))
  PROVE  /\ Heard(f) = Parsed(f.old) \o Parsed(f.cur)
         /\ Parsed(f.old) \in Seq(Records) /\ Parsed(f.cur) \in Seq(Records)
         /\ Heard(f) \in Seq(Records)
<1>1. Heard(f) = Parsed(f.old \o f.cur)
  BY DEF Heard, Read
<1>2. Sifted(f.old \o f.cur, Records) = Sifted(f.old, Records) \o Sifted(f.cur, Records)
  BY SiftedOfBoth
<1>3. Parsed(f.old) \in Seq(Records) /\ Parsed(f.cur) \in Seq(Records)
  BY ReadFromLines
<1> QED
  BY <1>1, <1>2, <1>3, ConcatProperties DEF Parsed

\* Two sequences in a row and one element more, with names that a prover
\* does not open.
Joined(s, t) == s \o t
Plus(s, e)   == Append(s, e)

LEMMA JoinedAndOneMore ==
  ASSUME NEW S, NEW o \in Seq(S), NEW p \in Seq(S), NEW e \in S
  PROVE  Plus(Joined(o, p), e) = Joined(o, Plus(p, e))
BY DEF Joined, Plus

\* A rotation forgets the older file: it left a full one behind, but for the
\* lines that went wrong.
LEMMA RotatedForgets ==
  ASSUME NEW st, NEW f, NEW b \in Nat, FileSound(f, st, b), NEW e \in Records
  PROVE  /\ Shorter(Heard(Rotated(f)), Heard(f), b)
         /\ Shorter(Append(Heard(Rotated(f)), e), Append(Heard(f), e), b)
<1>1. f.old \in Seq(Lines(st)) /\ f.cur \in Seq(Lines(st)) /\ Len(f.cur) \in Nat
      /\ Len(f.cur) <= Len(Parsed(f.cur)) + b
  BY LenProperties DEF FileSound
<1> DEFINE o == Parsed(f.old)
           p == Parsed(f.cur)
<1>2. /\ Heard(f) = o \o p /\ o \in Seq(Records) /\ p \in Seq(Records)
      /\ Heard(f) \in Seq(Records)
  BY <1>1, HeardOfBoth
<1> HIDE DEF o, p
<1>3. CASE Rotated(f) = f
  <2>1. Append(Heard(f), e) \in Seq(Records)
    BY <1>2, AppendProperties
  <2> QED
    BY <1>2, <1>3, <2>1, EndIsKept
<1>4. CASE Rotated(f) # f
  <2>1. Rotated(f) = [old |-> f.cur, cur |-> <<>>, cut |-> FALSE] /\ Len(f.cur) > FileMax
    BY <1>4 DEF Rotated
  <2>2. Heard(Rotated(f)) = p
    <3>1. Read(Rotated(f), {}) = f.cur \o <<>>
      BY <2>1 DEF Read
    <3>2. f.cur \o <<>> = f.cur
      BY <1>1, ConcatEmptySeq
    <3> QED
      BY <3>1, <3>2 DEF Heard, p
  <2>3. /\ Append(p, e) \in Seq(Records) /\ Len(Append(p, e)) = Len(p) + 1 /\ Len(p) \in Nat
        /\ Append(Heard(f), e) = o \o Append(p, e)
    <3>1. Append(Heard(f), e) = o \o Append(p, e)
      <4>1. Heard(f) = Joined(o, p)
        BY <1>2 DEF Joined
      <4>2. Plus(Heard(f), e) = Joined(o, Plus(p, e))
        BY <1>2, <4>1, JoinedAndOneMore
      <4> QED
        BY <4>2 DEF Joined, Plus
    <3>2. Append(p, e) \in Seq(Records) /\ Len(Append(p, e)) = Len(p) + 1
      BY <1>2, AppendProperties
    <3>3. Len(p) \in Nat
      BY <1>2, LenProperties
    <3> QED
      BY <1>2, <3>1, <3>2, <3>3
  <2>4. FileMax \in Nat /\ Len(f.cur) <= Len(p) + b
    BY <1>1, AlertLogAssumption DEF p
  <2>5. FileMax + 1 <= Len(p) + b /\ FileMax + 1 <= Len(Append(p, e)) + b
    BY <1>1, <2>1, <2>3, <2>4
  <2>6. Shorter(p, o \o p, b)
    BY <1>2, <2>5, EndIsKept
  <2>7. Shorter(Append(p, e), o \o Append(p, e), b)
    BY <1>2, <2>3, <2>5, EndIsKept
  <2> QED
    BY <1>2, <2>2, <2>3, <2>6, <2>7
<1> QED
  BY <1>3, <1>4

\* What a process that starts now would read after a write: one record more,
\* or as many, or one less, where the line before was cut.
HearsAfter(h, f, piece) ==
    /\ h \in Seq(Records)
    /\ ~f.cut /\ piece \in Records => h = Append(Heard(f), piece)
    /\ ~f.cut /\ piece \notin Records => h = Heard(f)
    /\ f.cut => h = Heard(f) \/ \E l \in Records : Heard(f) = Append(h, l)

LEMMA AddedIsHeard ==
  ASSUME NEW st, NEW f, NEW b \in Nat, FileSound(f, st, b), NEW piece \in Lines(st), NEW c \in BOOLEAN
  PROVE  HearsAfter(Heard(Added(f, piece, c)), f, piece)
<1> DEFINE g == Added(f, piece, c)
           h == Heard(g)
           L == Lines(st)
<1>1. Torn \in L /\ Garbled \in L /\ Torn \notin Records /\ Garbled \notin Records /\ piece \in L
  BY LinesAreKnown
<1>2. f \in [old : Seq(L), cur : Seq(L), cut : BOOLEAN] /\ (f.cut => f.cur # <<>>)
  BY DEF FileSound
<1>3. EndsWith(g, f, piece, L)
  <2> HIDE DEF L
  <2> QED
    BY <1>1, <1>2, AddedToTheEnd
<1> HIDE DEF g
<1>4. g.old = f.old /\ f.old \in Seq(L) /\ f.cur \in Seq(L) /\ g.old \in Seq(L) /\ g.cur \in Seq(L)
  BY <1>2, <1>3 DEF EndsWith
<1> DEFINE o == Parsed(f.old)
<1>5. /\ Heard(f) = o \o Parsed(f.cur) /\ o \in Seq(Records) /\ Parsed(f.cur) \in Seq(Records)
      /\ h = o \o Parsed(g.cur) /\ h \in Seq(Records)
  BY <1>4, HeardOfBoth
<1> HIDE DEF o, h
<1>6. CASE ~f.cut
  <2>1. g.cur = Append(f.cur, piece)
    BY <1>3, <1>6 DEF EndsWith
  <2>2. /\ piece \in Records => Parsed(g.cur) = Append(Parsed(f.cur), piece)
        /\ piece \notin Records => Parsed(g.cur) = Parsed(f.cur)
    BY <1>4, <2>1, ReadOneMore
  <2>3. piece \in Records => Append(Heard(f), piece) = o \o Append(Parsed(f.cur), piece)
    <3>1. Heard(f) = Joined(o, Parsed(f.cur))
      BY <1>5 DEF Joined
    <3>2. piece \in Records => Plus(Heard(f), piece) = Joined(o, Plus(Parsed(f.cur), piece))
      BY <1>5, <3>1, JoinedAndOneMore
    <3> QED
      BY <3>2 DEF Joined, Plus
  <2> QED
    BY <1>5, <1>6, <2>2, <2>3 DEF h, g, HearsAfter
<1>7. CASE f.cut
  <2>1. PICK k \in Seq(L), l \in L, z \in {Torn, Garbled} :
            f.cur = Append(k, l) /\ g.cur = Append(k, z)
    BY <1>3, <1>7 DEF EndsWith
  <2>2. Parsed(g.cur) = Parsed(k)
    BY <1>1, <2>1, ReadOneMore
  <2>3. CASE l \notin Records
    <3>1. Parsed(f.cur) = Parsed(k)
      BY <2>1, <2>3, ReadOneMore
    <3> QED
      BY <1>5, <1>7, <2>2, <3>1 DEF h, g, HearsAfter
  <2>4. CASE l \in Records
    <3>1. Parsed(f.cur) = Append(Parsed(k), l)
      BY <2>1, <2>4, ReadOneMore
    <3>2. Parsed(k) \in Seq(Records)
      BY ReadFromLines
    <3>3. Heard(f) = Append(h, l)
      BY <1>5, <2>2, <2>4, <3>1, <3>2
    <3> QED
      BY <1>5, <1>7, <2>4, <3>3 DEF h, g, HearsAfter
  <2> QED
    BY <2>3, <2>4
<1>8. f.cut \in BOOLEAN
  BY <1>2
<1> QED
  BY <1>6, <1>7, <1>8

\* What a good write and a bad one do to the journal.
Spoils(kept, heard, e, b) ==
    \/ Shorter(kept, heard, b)
    \/ Shorter(kept, Append(heard, e), b)
    \/ heard # <<>> /\ kept = SubSeq(heard, 1, Len(heard) - 1)

LEMMA AddedSpoils ==
  ASSUME NEW st, NEW f, NEW b \in Nat, FileSound(f, st, b), NEW e \in Records,
         NEW piece \in Lines(st), piece \in Records => piece = e, NEW c \in BOOLEAN
  PROVE  /\ Spoils(Heard(Added(Rotated(f), piece, c)), Heard(f), e, b)
         /\ ~Rotated(f).cut /\ piece = e =>
                Shorter(Heard(Added(Rotated(f), piece, c)), Append(Heard(f), e), b)
<1> DEFINE q == Rotated(f)
           h == Heard(Added(q, piece, c))
<1>1. FileSound(q, st, b)
  BY RotatedIsSound
<1>2. HearsAfter(h, q, piece)
  <2> HIDE DEF q
  <2> QED
    BY <1>1, AddedIsHeard
<1>3. Shorter(Heard(q), Heard(f), b) /\ Shorter(Append(Heard(q), e), Append(Heard(f), e), b)
  BY RotatedForgets
<1>4. q.cut \in BOOLEAN
  BY <1>1 DEF FileSound
<1>5. q.cut => q = f
  BY DEF Rotated
<1> HIDE DEF q, h
<1>6. CASE ~q.cut
  BY <1>2, <1>3, <1>6 DEF q, h, HearsAfter, Spoils
<1>7. CASE q.cut
  <2>1. h \in Seq(Records) /\ (h = Heard(f) \/ \E l \in Records : Heard(f) = Append(h, l))
    BY <1>2, <1>5, <1>7 DEF HearsAfter
  <2>2. CASE h = Heard(f)
    <3>1. Shorter(h, h, b)
      BY <2>1, EndIsKept
    <3> QED
      BY <1>7, <2>2, <3>1 DEF Spoils, q, h
  <2>3. ASSUME NEW l \in Records, Heard(f) = Append(h, l)
        PROVE  Spoils(h, Heard(f), e, b)
    <3>1. /\ Append(h, l) # <<>>
          /\ SubSeq(Append(h, l), 1, Len(Append(h, l)) - 1) = h
      BY <2>1, LastIsForgotten
    <3> QED
      BY <2>3, <3>1 DEF Spoils
  <2> QED
    BY <1>7, <2>1, <2>2, <2>3 DEF q, h
<1> QED
  BY <1>4, <1>6, <1>7

LEMMA WriteIsHeard ==
  ASSUME NEW st, NEW f, NEW b \in Nat, FileSound(f, st, b), NEW e \in Lines(st) \cap Records
  PROVE  /\ ~Glues(f) => Shorter(Heard(Written(f, e)), Append(Heard(f), e), b)
         /\ Glues(f) => Spoils(Heard(Written(f, e)), Heard(f), e, b)
         /\ \A g \in Spoilt(f, e) : Spoils(Heard(g), Heard(f), e, b)
<1>1. /\ Torn \in Lines(st) /\ Garbled \in Lines(st)
      /\ Torn \notin Records /\ Garbled \notin Records
  BY LinesAreKnown
<1>2. \A piece \in {Torn, Garbled, e}, c \in BOOLEAN :
          /\ Spoils(Heard(Added(Rotated(f), piece, c)), Heard(f), e, b)
          /\ ~Rotated(f).cut /\ piece = e =>
                 Shorter(Heard(Added(Rotated(f), piece, c)), Append(Heard(f), e), b)
  BY <1>1, AddedSpoils
<1>3. Spoils(Heard(Rotated(f)), Heard(f), e, b)
  BY RotatedForgets DEF Spoils
<1>4. Spoils(Heard(f), Heard(f), e, b)
  <2>1. Heard(f) \in Seq(Records)
    BY HeardOfBoth DEF FileSound
  <2> QED
    BY <2>1, EndIsKept DEF Spoils
<1>5. /\ ~Glues(f) => Shorter(Heard(Written(f, e)), Append(Heard(f), e), b)
      /\ Glues(f) => Spoils(Heard(Written(f, e)), Heard(f), e, b)
  BY <1>2 DEF Written, Glues
<1>6. ASSUME NEW g \in Spoilt(f, e) PROVE Spoils(Heard(g), Heard(f), e, b)
  <2>1. \/ g \in {f, Rotated(f)}
        \/ \E piece \in {Torn, Garbled, e} : g = Added(Rotated(f), piece, TRUE)
    BY <1>6 DEF Spoilt
  <2> QED
    BY <1>2, <1>3, <1>4, <2>1
<1> QED
  BY <1>5, <1>6

\* In the journal's own words.
LEMMA SpoilIsJournal ==
  ASSUME NEW e \in {Done(a) : a \in Alerts}, spoiled' = spoiled + 1,
         Spoils(Heard(file'), Heard(file), e, spoiled)
  PROVE  LogJournal!JournalNext
<1>1. \A long : Shorter(Heard(file'), long, spoiled) => LogJournal!ForgetsFrom(long)
  BY DEF Shorter, Heard, LogJournal!ForgetsFrom
<1>2. LogJournal!Spoil(e)
  BY <1>1 DEF Spoils, LogJournal!Spoil, Heard
<1> QED
  BY <1>2 DEF LogJournal!JournalNext

LEMMA PersistIsJournal ==
  ASSUME LogSound, NEW st2, Lines(stage) \subseteq Lines(st2),
         NEW a \in Alerts, Done(a) \in Lines(st2), Persist(Done(a))
  PROVE  LogJournal!JournalNext
<1> DEFINE e == Done(a)
<1>1. e \in Lines(st2) \cap Records /\ e \in {Done(b) : b \in Alerts}
  BY DEF Done, Records
<1>2. FileSound(file, st2, spoiled) /\ spoiled \in Nat
  BY SoundForMore DEF LogSound
<1> HIDE DEF e
<1>3. /\ ~Glues(file) => Shorter(Heard(Written(file, e)), Append(Heard(file), e), spoiled)
      /\ Glues(file) => Spoils(Heard(Written(file, e)), Heard(file), e, spoiled)
      /\ \A g \in Spoilt(file, e) : Spoils(Heard(g), Heard(file), e, spoiled)
  BY <1>1, <1>2, WriteIsHeard
<1>4. CASE file' = Written(file, e) /\ ~Glues(file) /\ spoiled' = spoiled
  <2>1. \A long : Shorter(Heard(file'), long, spoiled) => LogJournal!ForgetsFrom(long)
    BY DEF Shorter, Heard, LogJournal!ForgetsFrom
  <2>2. LogJournal!Write(e)
    BY <1>3, <1>4, <2>1 DEF LogJournal!Write, Heard
  <2> QED
    BY <1>1, <2>2 DEF LogJournal!JournalNext
<1>5. CASE file' = Written(file, e) /\ Glues(file) /\ spoiled' = spoiled + 1
  BY <1>1, <1>3, <1>5, SpoilIsJournal
<1>6. CASE file' \in Spoilt(file, e) /\ spoiled' = spoiled + 1
  BY <1>1, <1>3, <1>6, SpoilIsJournal
<1> QED
  BY <1>4, <1>5, <1>6 DEF Persist, e

\* The two files are a journal: whatever a full disk or a crash does to a
\* write, it costs that entry or also the one before, and a rotation never
\* leaves less than a full file, but for the lines that went wrong.
THEOREM TheFilesAreAJournal == Spec => FileIsJournal
<1>1. Init => LogJournal!JournalInit
  <2>1. ASSUME Init PROVE Heard(file) = <<>> /\ spoiled = 0
    <3>1. Read(NewFile, {}) = <<>>
      BY DEF Read, NewFile
    <3>2. Parsed(<<>>) = <<>>
      BY SiftedNone DEF Parsed
    <3> QED
      BY <2>1, <3>1, <3>2 DEF Heard, Init
  <2> QED
    BY <2>1 DEF LogJournal!JournalInit, Heard
<1>2. LogSound /\ [Next]_vars => [LogJournal!JournalNext]_(LogJournal!jvars)
  <2> SUFFICES ASSUME LogSound, [Next]_vars
               PROVE  LogJournal!JournalNext \/ UNCHANGED LogJournal!jvars
    OBVIOUS
  <2>1. ASSUME UNCHANGED <<file, spoiled>> PROVE UNCHANGED LogJournal!jvars
    BY <2>1 DEF LogJournal!jvars
  <2>2. stage \in [Alerts -> {"unseen", "flying", "over", "lost"}]
    BY DEF LogSound
  <2>3. ASSUME NEW a \in Alerts, Skip(a) PROVE LogJournal!JournalNext
    <3>1. stage[a] = "unseen" /\ stage' = [stage EXCEPT ![a] = "over"] /\ Persist(Done(a))
      BY <2>3 DEF Skip, Arrives
    <3>2. stage'[a] = "over" /\ \A b \in Alerts : stage[b] # "unseen" => stage'[b] # "unseen"
      BY <2>2, <3>1
    <3>3. Lines(stage) \subseteq Lines(stage') /\ Done(a) \in Lines(stage')
      BY <3>2 DEF Lines
    <3> QED
      BY <3>1, <3>3, PersistIsJournal
  <2>4. ASSUME NEW a \in Alerts, Finish(a) PROVE LogJournal!JournalNext
    <3>1. Done(a) \in Lines(stage) /\ Persist(Done(a))
      BY <2>4 DEF Finish, Lines
    <3> QED
      BY <3>1, PersistIsJournal
  <2>5. ASSUME NEW a \in Alerts, CrashWriting(a) PROVE LogJournal!JournalNext
    <3>1. /\ Done(a) \in Lines(stage) /\ file' \in Spoilt(file, Done(a))
          /\ spoiled' = spoiled + 1 /\ spoiled < MaxFaults
      BY <2>5 DEF CrashWriting, Lines
    <3>2. Persist(Done(a))
      BY <3>1 DEF Persist
    <3> QED
      BY <3>1, <3>2, PersistIsJournal
  <2>6. CASE (\E a \in Alerts : Queue(a)) \/ Crash \/ Boot \/ Tick \/ UNCHANGED vars
    <3>1. UNCHANGED <<file, spoiled>>
      BY <2>6 DEF Queue, Crash, Boot, Tick, vars
    <3> QED
      BY <2>1, <3>1
  <2> QED
    BY <2>3, <2>4, <2>5, <2>6 DEF Next
<1> QED
  BY <1>1, <1>2, TheLogIsSound, PTL DEF Spec, FileIsJournal, LogJournal!JournalSpec

-----------------------------------------------------------------------------
(* The walk back through the ring finds what it is asked for.              *)

\* Once in the set, a sequence stays in it; and a sequence is the end of
\* another one, the part of it that is in the set.
Ascends(s, B) == \A i, j \in 1 .. Len(s) : i < j /\ s[i] \in B => s[j] \in B
EndOf(q, k, B) ==
    /\ Len(q) <= Len(k)
    /\ \A i \in 1 .. Len(q) : q[i] = k[Len(k) - Len(q) + i]
    /\ \A i \in 1 .. Len(k) : k[i] \in B <=> i > Len(k) - Len(q)

LEMMA SiftedNothing ==
  ASSUME NEW S, NEW T, NEW s \in Seq(S), \A i \in 1 .. Len(s) : s[i] \notin T
  PROVE  Sifted(s, T) = <<>>
<1> DEFINE P == {q \in Seq(S) : (\A i \in 1 .. Len(q) : q[i] \notin T) => Sifted(q, T) = <<>>}
<1>1. <<>> \in P
  <2>1. Sifted(<<>>, T) = <<>> /\ <<>> \in Seq(S)
    BY SiftedNone, EmptySeq
  <2> QED
    BY <2>1
<1>2. ASSUME NEW q \in P, NEW x \in S PROVE Append(q, x) \in P
  <2> DEFINE t == Append(q, x)
  <2>1. /\ t \in Seq(S) /\ Len(t) = Len(q) + 1 /\ Len(q) \in Nat
        /\ t[Len(q) + 1] = x /\ \A i \in 1 .. Len(q) : t[i] = q[i]
    BY AppendProperties, LenProperties
  <2>2. Sifted(t, T) = IF x \in T THEN Append(Sifted(q, T), x) ELSE Sifted(q, T)
    BY SiftedOneMore
  <2> HIDE DEF t
  <2>3. ASSUME \A i \in 1 .. Len(t) : t[i] \notin T PROVE Sifted(t, T) = <<>>
    <3>1. Len(q) + 1 \in 1 .. Len(t) /\ \A i \in 1 .. Len(q) : i \in 1 .. Len(t)
      BY <2>1
    <3>2. x \notin T /\ \A i \in 1 .. Len(q) : q[i] \notin T
      BY <2>1, <2>3, <3>1
    <3> QED
      BY <2>2, <3>2
  <2> QED
    BY <2>1, <2>3 DEF t
<1> HIDE DEF P
<1>3. P = Seq(S)
  <2>1. P \in SUBSET Seq(S)
    BY DEF P
  <2> QED
    BY <1>1, <1>2, <2>1, AllSequences
<1> QED
  BY <1>3 DEF P

LEMMA SiftedIsEnd ==
  ASSUME NEW S, NEW A, NEW B, NEW s \in Seq(S), Ascends(s, B)
  PROVE  EndOf(Sifted(s, A \cap B), Sifted(s, A), B)
<1> DEFINE P == {r \in Seq(S) : Ascends(r, B) => EndOf(Sifted(r, A \cap B), Sifted(r, A), B)}
<1>1. <<>> \in P
  <2>1. Sifted(<<>>, A \cap B) = <<>> /\ Sifted(<<>>, A) = <<>> /\ <<>> \in Seq(S) /\ Len(<<>>) = 0
    BY SiftedNone, EmptySeq
  <2>2. EndOf(<<>>, <<>>, B)
    BY <2>1 DEF EndOf
  <2> QED
    BY <2>1, <2>2
<1>2. ASSUME NEW r \in P, NEW x \in S PROVE Append(r, x) \in P
  <2> DEFINE t == Append(r, x)
             k == Sifted(r, A)
             q == Sifted(r, A \cap B)
  <2>1. /\ t \in Seq(S) /\ Len(t) = Len(r) + 1 /\ Len(r) \in Nat
        /\ t[Len(r) + 1] = x /\ \A i \in 1 .. Len(r) : t[i] = r[i]
    BY AppendProperties, LenProperties
  <2>2. /\ Sifted(t, A) = IF x \in A THEN Append(k, x) ELSE k
        /\ Sifted(t, A \cap B) = IF x \in A \cap B THEN Append(q, x) ELSE q
    <3>1. Sifted(t, A) = IF x \in A THEN Append(k, x) ELSE k
      BY SiftedOneMore
    <3>2. Sifted(t, A \cap B) = IF x \in A \cap B THEN Append(q, x) ELSE q
      BY SiftedOneMore
    <3> QED
      BY <3>1, <3>2
  <2>3. k \in Seq(S) /\ q \in Seq(S)
    BY SiftedIsSequence
  <2>4. Ascends(r, B) => EndOf(q, k, B)
    OBVIOUS
  <2>5. (\A i \in 1 .. Len(r) : r[i] \notin B) => q = <<>>
    BY SiftedNothing
  <2> HIDE DEF t, k, q
  <2>6. ASSUME Ascends(t, B) PROVE EndOf(Sifted(t, A \cap B), Sifted(t, A), B)
    <3>1. EndOf(q, k, B)
      <4>1. \A i \in 1 .. Len(r) : i \in 1 .. Len(t)
        BY <2>1
      <4>2. Ascends(r, B)
        BY <2>1, <2>6, <4>1 DEF Ascends
      <4> QED
        BY <2>4, <4>2
    <3>2. /\ Len(k) \in Nat /\ Len(q) \in Nat
          /\ Len(Append(k, x)) = Len(k) + 1 /\ Append(k, x)[Len(k) + 1] = x
          /\ \A i \in 1 .. Len(k) : Append(k, x)[i] = k[i]
          /\ Len(Append(q, x)) = Len(q) + 1 /\ Append(q, x)[Len(q) + 1] = x
          /\ \A i \in 1 .. Len(q) : Append(q, x)[i] = q[i]
      BY <2>3, AppendProperties, LenProperties
    <3> DEFINE kx == Append(k, x)
               qx == Append(q, x)
    <3>3. CASE x \notin A
      BY <2>2, <3>1, <3>3
    <3>4. CASE x \in A /\ x \in B
      <4>1. Len(qx) <= Len(kx)
        BY <3>1, <3>2 DEF EndOf
      <4> HIDE DEF kx, qx
      <4>2. \A i \in 1 .. Len(qx) : qx[i] = kx[Len(kx) - Len(qx) + i]
        <5> TAKE i \in 1 .. Len(qx)
        <5>1. Len(kx) - Len(qx) + i = Len(k) - Len(q) + i
          BY <3>2 DEF kx, qx
        <5>2. CASE i = Len(q) + 1
          <6>1. Len(k) - Len(q) + i = Len(k) + 1
            BY <3>2, <5>2
          <6> QED
            BY <3>2, <5>1, <5>2, <6>1 DEF kx, qx
        <5>3. CASE i \in 1 .. Len(q)
          <6>1. Len(k) - Len(q) + i \in 1 .. Len(k)
            BY <3>1, <3>2, <5>3 DEF EndOf
          <6>2. qx[i] = q[i] /\ kx[Len(k) - Len(q) + i] = k[Len(k) - Len(q) + i]
            BY <3>2, <5>3, <6>1 DEF kx, qx
          <6>3. q[i] = k[Len(k) - Len(q) + i]
            BY <3>1, <5>3 DEF EndOf
          <6> QED
            BY <5>1, <6>2, <6>3
        <5>4. i = Len(q) + 1 \/ i \in 1 .. Len(q)
          BY <3>2 DEF qx
        <5> QED
          BY <5>2, <5>3, <5>4
      <4>3. \A i \in 1 .. Len(kx) : kx[i] \in B <=> i > Len(kx) - Len(qx)
        <5> TAKE i \in 1 .. Len(kx)
        <5>1. Len(kx) - Len(qx) = Len(k) - Len(q) /\ Len(q) <= Len(k)
          BY <3>1, <3>2 DEF kx, qx, EndOf
        <5>2. CASE i = Len(k) + 1
          <6>1. kx[i] = x /\ i > Len(k) - Len(q)
            BY <3>2, <5>2 DEF kx
          <6> QED
            BY <3>4, <5>1, <6>1
        <5>3. CASE i \in 1 .. Len(k)
          <6>1. kx[i] = k[i]
            BY <3>2, <5>3 DEF kx
          <6> QED
            BY <3>1, <5>1, <5>3, <6>1 DEF EndOf
        <5>4. i = Len(k) + 1 \/ i \in 1 .. Len(k)
          BY <3>2 DEF kx
        <5> QED
          BY <5>2, <5>3, <5>4
      <4>4. EndOf(qx, kx, B)
        BY <4>1, <4>2, <4>3 DEF EndOf
      <4> QED
        BY <2>2, <3>4, <4>4 DEF kx, qx
    <3>5. CASE x \in A /\ x \notin B
      <4>1. \A i \in 1 .. Len(r) : r[i] \notin B
        <5> TAKE i \in 1 .. Len(r)
        <5>1. i \in 1 .. Len(t) /\ Len(r) + 1 \in 1 .. Len(t) /\ i < Len(r) + 1
          BY <2>1
        <5> QED
          BY <2>1, <2>6, <3>5, <5>1 DEF Ascends
      <4>2. q = <<>> /\ Len(q) = 0
        BY <2>5, <4>1, EmptySeq
      <4> HIDE DEF kx
      <4>3. \A i \in 1 .. Len(kx) : kx[i] \notin B
        <5> TAKE i \in 1 .. Len(kx)
        <5>1. CASE i = Len(k) + 1
          BY <3>2, <3>5, <5>1 DEF kx
        <5>2. CASE i \in 1 .. Len(k)
          <6>1. kx[i] = k[i] /\ ~(i > Len(k) - Len(q))
            BY <3>2, <4>2, <5>2 DEF kx
          <6> QED
            BY <3>1, <5>2, <6>1 DEF EndOf
        <5>3. i = Len(k) + 1 \/ i \in 1 .. Len(k)
          BY <3>2 DEF kx
        <5> QED
          BY <5>1, <5>2, <5>3
      <4>4. Len(kx) \in Nat
        BY <3>2 DEF kx
      <4>5. EndOf(q, kx, B)
        BY <4>2, <4>3, <4>4 DEF EndOf
      <4> QED
        BY <2>2, <3>5, <4>5 DEF kx
    <3> QED
      BY <3>3, <3>4, <3>5
  <2> QED
    BY <2>1, <2>6 DEF t
<1> HIDE DEF P
<1>3. P = Seq(S)
  <2>1. P \in SUBSET Seq(S)
    BY DEF P
  <2> QED
    BY <1>1, <1>2, <2>1, AllSequences
<1> QED
  BY <1>3 DEF P

LEMMA ReversedIsSequence ==
  ASSUME NEW S, NEW q \in Seq(S)
  PROVE  /\ Reverse(q) \in Seq(S) /\ Len(Reverse(q)) = Len(q) /\ DOMAIN Reverse(q) = 1 .. Len(q)
         /\ \A i \in 1 .. Len(q) : Len(q) - i + 1 \in 1 .. Len(q) /\ Reverse(q)[i] = q[Len(q) - i + 1]
<1>1. Len(q) \in Nat /\ \A i \in 1 .. Len(q) : q[i] \in S
  BY LenProperties, ElementOfSeq
<1>2. \A i \in 1 .. Len(q) : Len(q) - i + 1 \in 1 .. Len(q) /\ q[(Len(q) - i) + 1] \in S
  BY <1>1
<1> QED
  BY <1>1, <1>2 DEF Reverse

\* Where the walk stops: at the first that is too old, or at the limit.
Walked(k, B, limit) ==
    Min({Len(Reverse(k)), Max({limit, 1})}
        \cup {i - 1 : i \in {j \in DOMAIN Reverse(k) : Reverse(k)[j] \notin B}})

LEMMA TheWalkIsLongEnough ==
  ASSUME NEW S, NEW k \in Seq(S), NEW q \in Seq(S), NEW B, EndOf(q, k, B),
         NEW limit \in Nat \ {0}
  PROVE  Walked(k, B, limit) = IF Len(q) <= limit THEN Len(q) ELSE limit
<1> DEFINE n == Len(k)
           m == Len(q)
           w == Reverse(k)
           stops == {j \in DOMAIN w : w[j] \notin B}
           M == {Len(w), Max({limit, 1})} \cup {i - 1 : i \in stops}
           t == IF m <= limit THEN m ELSE limit
<1>1. /\ n \in Nat /\ m \in Nat /\ m <= n
      /\ \A i \in 1 .. n : k[i] \in B <=> i > n - m
  BY LenProperties DEF EndOf
<1>2. /\ Len(w) = n /\ DOMAIN w = 1 .. n
      /\ \A i \in 1 .. n : n - i + 1 \in 1 .. n /\ w[i] = k[n - i + 1]
  BY ReversedIsSequence
<1>3. Max({limit, 1}) = limit
  <2>1. Max({limit, 1}) \in {limit, 1} /\ \A y \in {limit, 1} : Max({limit, 1}) >= y
    <3>1. limit \in {limit, 1} /\ \A y \in {limit, 1} : limit >= y
      OBVIOUS
    <3> QED
      BY <3>1 DEF Max
  <2> QED
    BY <2>1
<1> HIDE DEF n, m, w
<1>4. \A i \in stops : i \in 1 .. n /\ i - 1 >= m
  <2> TAKE i \in stops
  <2>1. i \in 1 .. n /\ w[i] \notin B
    BY <1>2
  <2>2. n - i + 1 \in 1 .. n /\ k[n - i + 1] \notin B
    BY <1>2, <2>1
  <2>3. ~(n - i + 1 > n - m)
    BY <1>1, <2>2
  <2> QED
    BY <1>1, <2>1, <2>3
<1>5. m < n => m + 1 \in stops
  <2> SUFFICES ASSUME m < n PROVE m + 1 \in stops
    OBVIOUS
  <2>1. m + 1 \in 1 .. n
    BY <1>1
  <2>2. n - (m + 1) + 1 \in 1 .. n /\ w[m + 1] = k[n - (m + 1) + 1]
    BY <1>2, <2>1
  <2>3. ~(n - (m + 1) + 1 > n - m)
    BY <1>1
  <2>4. w[m + 1] \notin B
    BY <1>1, <2>2, <2>3
  <2> QED
    BY <1>2, <2>1, <2>4
<1> HIDE DEF stops
<1>6. t \in M /\ t \in Nat
  <2>1. CASE ~(m <= limit)
    BY <1>3, <2>1
  <2>2. CASE m <= limit /\ m < n
    <3>1. (m + 1) - 1 = m
      BY <1>1
    <3> QED
      BY <1>1, <1>5, <2>2, <3>1
  <2>3. CASE m <= limit /\ m = n
    BY <1>1, <1>2, <2>3
  <2> QED
    BY <1>1, <2>1, <2>2, <2>3
<1>7. \A y \in M : y \in Int /\ t <= y
  <2> TAKE y \in M
  <2>1. CASE y = n \/ y = limit
    BY <1>1, <2>1
  <2>2. ASSUME NEW i \in stops, y = i - 1 PROVE y \in Int /\ t <= y
    BY <1>1, <1>4, <2>2
  <2> QED
    BY <1>2, <1>3, <2>1, <2>2
<1> HIDE DEF M, t
<1>8. Min(M) \in M /\ \A y \in M : Min(M) <= y
  BY <1>6, <1>7 DEF Min
<1>9. Min(M) = t
  <2>1. t <= Min(M) /\ Min(M) <= t /\ Min(M) \in Int /\ t \in Int
    BY <1>6, <1>7, <1>8
  <2> QED
    BY <2>1
<1> QED
  BY <1>9 DEF M, t, stops, w, m, Walked

\* What the walk has then taken are the last of those that are not too old.
LEMMA TheWalkIsTheAnswer ==
  ASSUME NEW S, NEW k \in Seq(S), NEW q \in Seq(S), NEW B, EndOf(q, k, B),
         NEW limit \in Nat \ {0}
  PROVE  SubSeq(Reverse(k), 1, Walked(k, B, limit)) = Reverse(Newest(q, limit))
<1> DEFINE n == Len(k)
           m == Len(q)
           t == IF m <= limit THEN m ELSE limit
           w == Reverse(k)
           e == Newest(q, limit)
<1>1. /\ n \in Nat /\ m \in Nat /\ m <= n
      /\ \A i \in 1 .. m : q[i] = k[n - m + i]
  BY LenProperties DEF EndOf
<1>2. /\ w \in Seq(S) /\ Len(w) = n
      /\ \A i \in 1 .. n : w[i] = k[n - i + 1]
  BY ReversedIsSequence
<1>3. /\ e \in Seq(S) /\ Len(e) = t
      /\ \A i \in 1 .. t : m - t + i \in 1 .. m /\ e[i] = q[m - t + i]
  <2>1. /\ e \in Seq(S) /\ Len(e) = t
        /\ \A i \in 1 .. Len(e) : m - Len(e) + i \in 1 .. m /\ e[i] = q[m - Len(e) + i]
    BY NewestIsEnd
  <2> HIDE DEF e, m, t
  <2> QED
    BY <2>1
<1>4. t \in Nat /\ t <= m
  BY <1>1
<1>5. Walked(k, B, limit) = t
  BY TheWalkIsLongEnough
<1> HIDE DEF n, m, w, e, t
<1>6. /\ Reverse(e) \in Seq(S) /\ Len(Reverse(e)) = t
      /\ \A i \in 1 .. t : t - i + 1 \in 1 .. t /\ Reverse(e)[i] = e[t - i + 1]
  BY <1>3, ReversedIsSequence
<1>7. /\ SubSeq(w, 1, t) \in Seq(S) /\ Len(SubSeq(w, 1, t)) = t
      /\ \A i \in 1 .. t : SubSeq(w, 1, t)[i] = w[i]
  <2>1. \A i \in 1 .. t : w[i] \in S
    BY <1>1, <1>2, <1>4, ElementOfSeq
  <2> QED
    BY <1>4, <2>1
<1>8. \A i \in 1 .. t : SubSeq(w, 1, t)[i] = Reverse(e)[i]
  <2> TAKE i \in 1 .. t
  <2>1. i \in 1 .. n /\ t - i + 1 \in 1 .. t
    BY <1>1, <1>4
  <2>2. SubSeq(w, 1, t)[i] = k[n - i + 1]
    BY <1>2, <1>7, <2>1
  <2>3. Reverse(e)[i] = q[m - t + (t - i + 1)] /\ m - t + (t - i + 1) \in 1 .. m
    BY <1>3, <1>6, <2>1
  <2>4. n - m + (m - t + (t - i + 1)) = n - i + 1
    BY <1>1, <1>4
  <2>5. q[m - t + (t - i + 1)] = k[n - m + (m - t + (t - i + 1))]
    BY <1>1, <2>3
  <2> QED
    BY <2>2, <2>3, <2>4, <2>5
<1>9. SubSeq(w, 1, t) = Reverse(e)
  BY <1>6, <1>7, <1>8, SeqEqual
<1> QED
  BY <1>5, <1>9 DEF w, e

\* What arrived at this process is found, however decisions were ordered and
\* whatever was loaded: `recent' ends its walk at a record that is too old,
\* and none that is not lies behind it.
THEOREM WhatCameIsFound == Spec => []RecentSinceBoot
<1>1. LogSound => RecentSinceBoot
  <2> SUFFICES ASSUME LogSound, NEW limit \in 1 .. Capacity, NEW only \in BOOLEAN, NEW since \in Time,
                      boots = 0 \/ since > bootedAt
               PROVE  Recent(limit, only, since) = Answer(limit, only, since)
    BY DEF RecentSinceBoot
  <2> DEFINE A == Passing(only)
             B == Since(since)
             k == Sifted(ring, A)
             q == Sifted(ring, A \cap B)
  <2>1. ring \in Seq(Records) /\ \A i \in 1 .. Len(ring) : ring[i] \in Records /\ ring[i].alert \in Alerts
    <3>1. Held(stage) \subseteq Records
      BY LinesAreKnown
    <3>2. ring \in Seq(Records)
      BY <3>1, SeqMonotonic DEF LogSound
    <3>3. \A i \in 1 .. Len(ring) : ring[i] \in Records
      BY <3>2, ElementOfSeq
    <3> QED
      BY <3>2, <3>3 DEF Records
  <2>2. Ascends(ring, B)
    <3> SUFFICES ASSUME NEW i \in 1 .. Len(ring), NEW j \in 1 .. Len(ring), i < j, ring[i] \in B
                 PROVE  ring[j] \in B
      BY DEF Ascends
    <3>1. /\ receivedAt[ring[i].alert] \in Nat /\ receivedAt[ring[j].alert] \in Nat
          /\ bootedAt \in Nat /\ since \in Nat
      BY <2>1 DEF LogSound, Time
    <3>2. receivedAt[ring[i].alert] >= since
      BY DEF Since
    <3>3. \/ receivedAt[ring[i].alert] <= receivedAt[ring[j].alert]
          \/ receivedAt[ring[i].alert] <= bootedAt
      BY DEF LogSound, InOrder
    <3>4. boots = 0 => bootedAt = 0
      BY DEF LogSound
    <3>5. receivedAt[ring[j].alert] >= since
      BY <3>1, <3>2, <3>3, <3>4
    <3> QED
      BY <2>1, <3>5 DEF Since
  <2> HIDE DEF A, B
  <2>3. EndOf(q, k, B) /\ k \in Seq(Records) /\ q \in Seq(Records)
    BY <2>1, <2>2, SiftedIsEnd, SiftedIsSequence
  <2>4. Sifted(Reverse(ring), A) = Reverse(k)
    BY <2>1, SiftedBackwards
  <2>5. Recent(limit, only, since) = SubSeq(Reverse(k), 1, Walked(k, B, limit))
    <3> HIDE DEF k
    <3> QED
      BY <2>4 DEF Recent, Walked, A, B
  <2>6. limit \in Nat \ {0}
    BY AlertLogAssumption
  <2> HIDE DEF k, q
  <2>7. SubSeq(Reverse(k), 1, Walked(k, B, limit)) = Reverse(Newest(q, limit))
    BY <2>3, <2>6, TheWalkIsTheAnswer
  <2> QED
    BY <2>5, <2>7 DEF Answer, q, A, B
<1> QED
  BY <1>1, TheLogIsSound, PTL
=============================================================================
