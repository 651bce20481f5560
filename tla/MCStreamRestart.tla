-------------------------- MODULE MCStreamRestart ---------------------------
(* A small instance of StreamRestart.                                      *)
EXTENDS StreamRestart

MCSources == {"Manual"}
=============================================================================
