----------------------------- MODULE MCRouting ------------------------------
(***************************************************************************)
(* Instances of Routing for TLC: two servers of one name and one with a    *)
(* name of its own, or the last one alone.                                 *)
(***************************************************************************)
EXTENDS Routing

CONSTANTS n1, n2, s3

\* s3 has a name of its own, all others are namesakes.
MCNameOf == [s \in Server |-> IF s = s3 THEN n2 ELSE n1]
=============================================================================
