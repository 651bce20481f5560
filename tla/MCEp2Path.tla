----------------------------- MODULE MCEp2Path -----------------------------
(* An instance of Ep2Path: rings of one block, any number of sessions,  *)
(* a writer and one that an earlier close() left behind.                   *)
EXTENDS Ep2Path
=============================================================================
