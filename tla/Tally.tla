-------------------------------- MODULE Tally -------------------------------
(***************************************************************************)
(* What is added up and picked out of rows and messages.                   *)
(***************************************************************************)
EXTENDS Integers, Sequences, SequencesExt

\* The numbers that a function has, a sequence's too.
SumOf(numbers) == FoldSeq(LAMBDA n, total : n + total, 0, numbers)

\* The elements of a sequence that are in a set, in their order.
Kept(s, A) == FoldLeft(LAMBDA kept, x : IF x \in A THEN Append(kept, x) ELSE kept, <<>>, s)

=============================================================================
