--------------------------- MODULE MCMessageLink ---------------------------
(***************************************************************************)
(* Instance of MessageLink for TLC: a C++, a Python and a dynamic peer.    *)
(* Two versions of a specification: the second changes message A and drops *)
(* B.  All are of one size.  A and B have different UIDs, but A, changed,  *)
(* has come by the UID that B had.                                         *)
(***************************************************************************)
EXTENDS MessageLink, TLC

CONSTANTS cc1, py1, dyn1, A1, A2, B, v1, v2

Peers == {cc1, py1, dyn1}
LangOf == (cc1 :> "cc") @@ (py1 :> "py") @@ (dyn1 :> "dyn")

Defs == {A1, A2, B}
Sizes == (A1 :> 8) @@ (A2 :> 8) @@ (B :> 8)
Versions == {<<A1, B>>, <<A2>>}
Uids == (A1 :> 11) @@ (A2 :> 13) @@ (B :> 13)
UidVals == {1, 11, 13}

ValueSymmetry == Permutations({v1, v2})
=============================================================================
