------------------------------- MODULE Ordering -------------------------------
(***************************************************************************)
(* Sets and sequences put in order: what the repository's sort.Slice,      *)
(* sort.Strings, append and filter loops make of their input.  No operator *)
(* recurses.                                                               *)
(***************************************************************************)
EXTENDS Integers, Sequences, FiniteSets, Functions

\* A sequence of whatever it holds.
IsList(s) == s \in Seq(Range(s))

\* The k-th smallest number of S, and the elements of a sequence at the places S.
Place(S, k) == CHOOSE i \in S : Cardinality({j \in S : j < i}) = k - 1
Cut(seq, S) == [k \in 1..Cardinality(S) |-> seq[Place(S, k)]]

\* The elements of S from first to last; R holds <<x, y>> if x comes before y.
InOrder(S, R) ==
    [k \in 1..Cardinality(S) |-> CHOOSE x \in S : Cardinality({y \in S : <<y, x>> \in R}) = k - 1]

\* Pairs of numbers by their first number, then by their second.
Lexicographic(S) ==
    {r \in S \X S : \/ r[1][1] < r[2][1]
                    \/ r[1][1] = r[2][1] /\ r[1][2] < r[2][2]}

\* The sequences of a sequence, one behind the other.
Flat(seqs) ==
    LET places == UNION {{i} \X DOMAIN seqs[i] : i \in DOMAIN seqs}
        order  == InOrder(places, Lexicographic(places))
    IN  [k \in 1..Cardinality(places) |-> seqs[order[k][1]][order[k][2]]]

\* The sum of a sequence of numbers.
SumOf(w) ==
    LET sum[n \in 0..Len(w)] == IF n = 0 THEN 0 ELSE sum[n - 1] + w[n]
    IN  sum[Len(w)]
=============================================================================
