---------------------------- MODULE MCAccSession ----------------------------
(* AccSession for TLC: interchangeable roller threads.                       *)
EXTENDS AccSession, TLC
RollerSymmetry == Permutations(Rollers)
=============================================================================
