------------------------------ MODULE MCMoxFsm ------------------------------
(* A small instance of MoxFsm: two keying sources, an attenuator of one    *)
(* step, so that ATT-on-TX may be off, 0 or all there is.                  *)
EXTENDS MoxFsm

MCSources == {"Manual", "Tci"}
MCOneSource == {"Manual"}
=============================================================================
