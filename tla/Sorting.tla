------------------------------ MODULE Sorting ------------------------------
(* The elements of a finite set in order, each once. *)
EXTENDS Integers, FiniteSets

\* An order is the set of the pairs whose first comes before the second.
OrdersTotally(R, S) ==
  /\ \A e, f \in S : <<e, f>> \in R => <<f, e>> \notin R
  /\ \A e, f \in S : e # f => <<e, f>> \in R \/ <<f, e>> \in R
  /\ \A e, f, g \in S : <<e, f>> \in R /\ <<f, g>> \in R => <<e, g>> \in R

Below(e, S, R) == {f \in S : <<f, e>> \in R}

Sorted(S, R) ==
  [i \in 1..Cardinality(S) |-> CHOOSE e \in S : Cardinality(Below(e, S, R)) = i - 1]

Ascending(S) == Sorted(S, {p \in S \X S : p[1] < p[2]})
============================================================================
