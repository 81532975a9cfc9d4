--------------------------- MODULE MCBaOriginator ---------------------------
(* Instances of BaOriginator for TLC.                                      *)
EXTENDS BaOriginator
=============================================================================
