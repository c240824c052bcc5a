---------------------------- MODULE MCMallocTiny ----------------------------
(***************************************************************************)
(* Instances of MallocTiny for TLC.                                        *)
(***************************************************************************)
EXTENDS MallocTiny

MCData == {-1}
MCSizes == {0, 2, 3}

(* The largest size_t.                                                     *)
MCWrapSizes == {1, SizeMod - 1}
=============================================================================
