------------------------------ MODULE Sublists ------------------------------
(***************************************************************************)
(* Sequences from which some items are left out, written as a recursive    *)
(* function over positions.  SublistLemmas has what is true of them.       *)
(***************************************************************************)
EXTENDS Naturals, Sequences

\* At i, the members of S among the first i of seq, in their order.
Chosen(seq, S) ==
  LET chosen[i \in 0 .. Len(seq)] ==
        IF i = 0 THEN <<>>
        ELSE IF seq[i] \in S THEN Append(chosen[i - 1], seq[i]) ELSE chosen[i - 1]
  IN  chosen

\* The members of S, in the order of seq.
Only(seq, S) == Chosen(seq, S)[Len(seq)]

\* All but the first n items.
Drop(seq, n) == SubSeq(seq, n + 1, Len(seq))
=============================================================================
