---------------------------------- MODULE Sums ----------------------------------
(***************************************************************************)
(* Sums of what a function gives, and the order of a set of integers.  The *)
(* sum stands for Python's sum() over a dict or a list, and the sequence   *)
(* for sorted(); SetToSortSeq of the community modules has no definition   *)
(* a proof can use.                                                        *)
(***************************************************************************)
EXTENDS Integers, FiniteSets, FiniteSetsExt

AddUp(amounts) == MapThenSumSet(LAMBDA m : amounts[m], DOMAIN amounts)

InOrder(S) == [k \in 1 .. Cardinality(S) |->
                 CHOOSE x \in S : Cardinality({y \in S : y < x}) = k - 1]
=============================================================================
