----------------------------- MODULE MCTxDrive ------------------------------
(* Two bands and five levels: two halvings lead from full to the floor.    *)
EXTENDS TxDrive

MCSources == {"Manual"}
MCLevels == {4}
MCTuneLevels == {2}
MCConfigured == {[enabled |-> TRUE, duringTune |-> b, fold |-> b] : b \in BOOLEAN}
=============================================================================
