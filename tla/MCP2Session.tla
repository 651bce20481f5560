---------------------------- MODULE MCP2Session -----------------------------
(* A small instance of P2Session: one re-open, two re-primes in flight.    *)
EXTENDS P2Session
=============================================================================
