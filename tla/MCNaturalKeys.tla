---------------------------- MODULE MCNaturalKeys ----------------------------
(***************************************************************************)
(* NaturalKeys with two resources over two keys: either, both or none of   *)
(* them, with keys and targets that are kept, changed, swapped, handed     *)
(* over and, by mistake, shared.                                           *)
(***************************************************************************)
EXTENDS NaturalKeys

CONSTANTS x, y, k1, k2, r1, r2

Pair(v, w) == [a \in Addresses |-> IF a = x THEN v ELSE w]
S(k, r) == [key |-> k, rest |-> r]

MCConfigurations ==
  { Pair(Absent, Absent),
    Pair(S(k1, r1), Absent), Pair(S(k1, r2), Absent), Pair(Absent, S(k1, r1)),
    Pair(S(k1, r1), S(k2, r2)), Pair(S(k1, r2), S(k2, r1)), Pair(S(k2, r2), S(k1, r1)),
    Pair(S(k1, r1), S(k1, r1)), Pair(S(k1, r1), S(k1, r2)) }
=============================================================================
