---------------------------- MODULE MCCbtClients ----------------------------
(***************************************************************************)
(* Model checking of CbtClients with one architecture.  Two have been      *)
(* checked as well; they meet only in terminate(), which kills one after   *)
(* the other.                                                              *)
(***************************************************************************)
EXTENDS CbtClients

OneArch == <<"x64">>
=============================================================================
