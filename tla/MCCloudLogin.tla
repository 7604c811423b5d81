---------------------------- MODULE MCCloudLogin ----------------------------
(* CloudLogin for TLC: interchangeable addresses.                            *)
EXTENDS CloudLogin, TLC
LoginSymmetry == Permutations(Addrs)
=============================================================================
