------------------------------ MODULE Numbers ------------------------------
(***************************************************************************)
(* What the numeric code takes from Python and numpy: sorted(), the        *)
(* distinct numbers in order, and a running sum.                           *)
(***************************************************************************)
EXTENDS Integers, Sequences, FiniteSets

\* A set of numbers, ascending: np.unique, or the indices of a mask.
InOrder(S) ==
  [k \in 1..Cardinality(S) |-> CHOOSE i \in S : Cardinality({j \in S : j <= i}) = k]

\* sorted(): stable, so that the place of an element is the number of elements
\* up to it.
Sorted(seq) ==
  LET Place(i) == Cardinality({j \in 1..Len(seq) :
                     seq[j] < seq[i] \/ (seq[j] = seq[i] /\ j <= i)})
  IN [k \in 1..Len(seq) |-> seq[CHOOSE i \in 1..Len(seq) : Place(i) = k]]

\* The sums of the first 0..n numbers of f.
Sums(f, n) ==
  LET sum[k \in 0..n] == IF k = 0 THEN 0 ELSE sum[k - 1] + f[k]
  IN sum
=============================================================================
