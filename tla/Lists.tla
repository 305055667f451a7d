-------------------------------- MODULE Lists ---------------------------------
(***************************************************************************)
(* Sums of lists of numbers, and parts of lists.                           *)
(***************************************************************************)
EXTENDS Integers, Sequences, SequencesExt

Total(numbers) == FoldLeft(LAMBDA sum, v : sum + v, 0, numbers)

\* The elements at some of a list's indices, in order.
Selected(list, indices) ==
  [n \in 1..Cardinality(indices) |->
     list[CHOOSE i \in indices : Cardinality({j \in indices : j < i}) = n - 1]]
==============================================================================
