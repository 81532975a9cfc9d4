--------------------------- MODULE MCMorseCommand ---------------------------
(* Instances of MorseCommand for TLC.                                      *)
EXTENDS MorseCommand
=============================================================================
