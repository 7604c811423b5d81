---------------------------- MODULE MCBroadcast ----------------------------
(* Broadcast for TLC. *)
EXTENDS Broadcast, TLC
NoticeSymmetry == Permutations(Threads) \cup Permutations(Msgs)
=============================================================================
