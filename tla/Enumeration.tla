----------------------------- MODULE Enumeration -----------------------------
(***************************************************************************)
(* Sets of integers in ascending order, and a sequence cut down to some of *)
(* its positions: what Python's sorted() and a list comprehension with an  *)
(* `if` return.  They are written without recursion, so that the modules   *)
(* that use them can be reasoned about (EnumerationProofs).                *)
(***************************************************************************)
EXTENDS Integers, Sequences, FiniteSets

\* How many elements of S come before x.
Rank(S, x) == Cardinality({y \in S : y < x})

\* sorted(S)
Ascending(S) == [k \in 1 .. Cardinality(S) |-> CHOOSE x \in S : Rank(S, x) = k - 1]

\* [s[i] for i in range(len(s)) if i in positions]
Only(s, positions) ==
    LET order == Ascending(positions) IN [k \in DOMAIN order |-> s[order[k]]]
=============================================================================
