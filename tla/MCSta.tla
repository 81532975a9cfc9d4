------------------------------- MODULE MCSta --------------------------------
(* Instances of UmacSta for TLC.                                           *)
EXTENDS UmacSta
=============================================================================
