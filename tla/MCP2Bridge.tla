----------------------------- MODULE MCP2Bridge -----------------------------
(* A small instance of P2Bridge: one re-open, short queues.                *)
EXTENDS P2Bridge
=============================================================================
