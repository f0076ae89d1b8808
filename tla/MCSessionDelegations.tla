------------------------- MODULE MCSessionDelegations -------------------------
(***************************************************************************)
(* SessionDelegations with the works of one Turn as model values.          *)
(***************************************************************************)
EXTENDS SessionDelegations, TLC

CONSTANTS w1, w2
MCWorks   == {w1, w2}
MCOneWork == {w1}
Symmetry  == Permutations(Works)
=============================================================================
