---------------------------- MODULE MCStringRefs ----------------------------
(* Three blocks of memory, one literal, one static target, texts of "a".   *)
EXTENDS StringRefs, TLC

MCTextOf(l) == <<"a">>

Symmetry == Permutations(Objects)
=============================================================================
