----------------------------- MODULE MCEvtloop ------------------------------
(* Instances of UmacEvtloop for TLC.                                       *)
EXTENDS UmacEvtloop
=============================================================================
