----------------------------- MODULE MCP2TxFifo -----------------------------
(* A ring of 4, blocks of 2 and packets of 3: packets straddle blocks, and *)
(* both straddle the end of the ring.                                      *)
EXTENDS P2TxFifo
=============================================================================
