---------------------------- MODULE Selections ----------------------------
(***************************************************************************)
(* What Vec::retain and Iterator::filter leave of a sequence.  SelectSeq    *)
(* says the same; this form has its loop in the open, for proofs by         *)
(* induction on it.                                                         *)
(***************************************************************************)
EXTENDS Integers, Sequences

\* What is left of the first n elements of s when those in V are kept.
Kept(s, V) ==
  LET kept[n \in 0..Len(s)] ==
        IF n = 0 THEN <<>>
        ELSE IF s[n] \in V THEN Append(kept[n - 1], s[n]) ELSE kept[n - 1]
  IN kept

\* The elements of s that are in V, in the order of s.
Only(s, V) == Kept(s, V)[Len(s)]
=============================================================================
