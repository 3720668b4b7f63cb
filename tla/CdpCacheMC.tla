------------------------------- MODULE CdpCacheMC -------------------------------
(***************************************************************************)
(* Small instances of CdpCache for TLC: two tabs, of which one is active   *)
(* first.                                                                  *)
(***************************************************************************)
EXTENDS CdpCache, TLC

MCSymmetry == Permutations(Tasks)
=============================================================================
