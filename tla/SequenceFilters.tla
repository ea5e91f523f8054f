-------------------------- MODULE SequenceFilters --------------------------
(***************************************************************************)
(* The elements of a sequence that belong to a set, in their order: what   *)
(* SelectSeq computes, as a recursive function that proofs can unfold; and *)
(* the first elements of a sequence.                                       *)
(***************************************************************************)
EXTENDS Naturals, Sequences

\* The first i elements of s that belong to K.
FilterUpTo(s, K) ==
    LET f[i \in 0..Len(s)] ==
          IF i = 0 THEN <<>>
          ELSE IF s[i] \in K THEN Append(f[i - 1], s[i]) ELSE f[i - 1]
    IN  f

Filter(s, K) == FilterUpTo(s, K)[Len(s)]

Prefix(s, n) == SubSeq(s, 1, IF n < Len(s) THEN n ELSE Len(s))
=============================================================================
