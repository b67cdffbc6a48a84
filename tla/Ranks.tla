------------------------------- MODULE Ranks -------------------------------
(***************************************************************************)
(* The places of blocks in a set of blocks.  The bad block managers count  *)
(* good and bad blocks in order: what their loops compute is a place.      *)
(***************************************************************************)
EXTENDS Integers, FiniteSets

\* The blocks of S in front of b.
Below(S, b) == Cardinality({c \in S : c < b})

\* The block of S with k others in front of it, or 0.
Nth(S, k) == IF k < Cardinality(S) THEN CHOOSE b \in S : Below(S, b) = k ELSE 0
=============================================================================
