----------------------------- MODULE MCHwndCache -----------------------------
(* Instances of HwndCache for TLC; the .cfg files give the constants.      *)
EXTENDS HwndCache
=============================================================================
