------------------------------- MODULE MCScan -------------------------------
(* Instances of UmacScan for TLC.                                          *)
EXTENDS UmacScan
=============================================================================
