--------------------------- MODULE MCTxFlowControl --------------------------
(* Instances of TxFlowControl for TLC.                                     *)
EXTENDS TxFlowControl

\* The fewest with which one application and the event loop can do.
MCBlocks == [m \in {"heap", "static"} |-> IF m = "heap" THEN 5 ELSE 3]

\* Two let a management frame wait for the end of a pause; that is the same code
\* for both.
MCMaxPauses == [m \in {"heap", "static"} |-> IF m = "heap" THEN 1 ELSE 2]
=============================================================================
