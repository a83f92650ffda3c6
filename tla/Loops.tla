-------------------------------- MODULE Loops --------------------------------
(***************************************************************************)
(* What a loop over a list makes of it, said so that it can be reasoned    *)
(* about: the items that are wanted, the sum of the numbers, and the items *)
(* in their order.                                                         *)
(***************************************************************************)
EXTENDS Integers, Sequences, FiniteSets

\* The items of a list that are wanted, and the sum of its numbers, after each
\* number of turns.
KeptAfter(list, wanted) ==
  LET after[n \in 0..Len(list)] ==
        IF n = 0 THEN <<>>
        ELSE IF list[n] \in wanted THEN Append(after[n - 1], list[n]) ELSE after[n - 1]
  IN  after

Kept(list, wanted) == KeptAfter(list, wanted)[Len(list)]

SumAfter(numbers) ==
  LET after[n \in 0..Len(numbers)] == IF n = 0 THEN 0 ELSE after[n - 1] + numbers[n]
  IN  after

SumOf(numbers) == SumAfter(numbers)[Len(numbers)]

\* A sort: the n-th of the items has n - 1 of them before it.
Sorted(items, before) ==
  [n \in 1..Cardinality(items) |->
     CHOOSE x \in items : Cardinality({y \in items : <<y, x>> \in before}) = n - 1]

=============================================================================
