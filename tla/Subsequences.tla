---------------------------- MODULE Subsequences ----------------------------
(***************************************************************************)
(* Vec::retain as the code uses it: the elements of a sequence that are in *)
(* a set, in the order they had.  It is SelectSeq, put so that one can     *)
(* count and prove: the k-th element retained is the one up to which k     *)
(* elements are retained.                                                  *)
(***************************************************************************)
EXTENDS Naturals, Sequences, FiniteSets

\* Places in s of elements of S.
Places(s, S) == {i \in DOMAIN s : s[i] \in S}

\* How many of them there are up to i.
UpTo(s, S, i) == Cardinality(Places(s, S) \cap 1 .. i)

Retain(s, S) ==
  [k \in 1 .. Cardinality(Places(s, S)) |->
     s[CHOOSE i \in Places(s, S) : UpTo(s, S, i) = k]]
=============================================================================
