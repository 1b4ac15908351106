--------------------------- MODULE MCCacheSession ---------------------------
(***************************************************************************)
(* Model checking of CacheSession: three boots, two windows.               *)
(***************************************************************************)
EXTENDS CacheSession
=============================================================================
